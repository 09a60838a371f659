------------------------------ MODULE MCSandbox ------------------------------
(***************************************************************************)
(* Small instances of SandboxController and of its refinement.             *)
(***************************************************************************)
EXTENDS SandboxAuthority
=============================================================================
