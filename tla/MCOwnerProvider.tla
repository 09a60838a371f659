--------------------------- MODULE MCOwnerProvider ---------------------------
(* One Run's provider, with three connections, two at a time, and a native process that asks its relay twice. *)
EXTENDS OwnerProvider
=============================================================================
