-------------------------- MODULE MCDiscordConnector --------------------------
(* Small instances of DiscordConnector. *)
EXTENDS DiscordConnector
=============================================================================
