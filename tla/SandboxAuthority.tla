-------------------------- MODULE SandboxAuthority --------------------------
(***************************************************************************)
(* SandboxController as an implementation of RuntimeAuthority: what the    *)
(* rows of the database and the containers at the daemon say of a Run.     *)
(***************************************************************************)
EXTENDS SandboxController

\* The abstract view of a Run.
Phase(row) ==
    IF row.state = "none" THEN "absent"
    ELSE IF Published(row) THEN "published"
    ELSE IF row.staged # "none" THEN "decided" ELSE "open"

Authority == INSTANCE RuntimeAuthority WITH
    phase      <- [r \in Runs |-> Phase(rows[r])],
    outcome    <- [r \in Runs |-> IF Published(rows[r]) THEN rows[r].state ELSE rows[r].staged],
    authority  <- [r \in Runs |-> Pending(rows[r]) \/ rows[r].ref],
    started    <- [r \in Runs |-> starts[r] > 0],
    runtime    <- [r \in Runs |-> IF container[r] # "none" THEN "present"
                                  ELSE IF flight[r] THEN "pending" ELSE "none"]

\* sandboxd keeps every promise of RuntimeAuthority: authority before Create
\* and until cleanup is proved, no Create while an earlier one may still land,
\* one start per Run for ever, one runtime at a time, the first decision
\* stands, and publication comes last.
ImplementsAuthority == Authority!Spec
=============================================================================
