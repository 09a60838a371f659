--------------------------- MODULE RuntimeAuthority ---------------------------
(***************************************************************************)
(* What sandboxd promises about the runtimes of its Runs, without saying   *)
(* how it finds out: authority for a container is recorded before a Create *)
(* is sent, kept while a container exists or may still appear, and a Run's *)
(* outcome is frozen once and published only when nothing of the Run is    *)
(* left at the container daemon.  SandboxController implements this        *)
(* specification with lookups, boot identifiers and retained proofs.       *)
(***************************************************************************)
EXTENDS FiniteSets

CONSTANT Runs

VARIABLES
    phase,          \* "absent", "open", "decided" or "published"
    outcome,        \* the frozen outcome of a Run, or "none"
    authority,      \* whether the database holds a pending intent or a reference
    started,        \* whether a container of the Run was ever started
    runtime         \* "none", "pending" (Create in flight) or "present"

vars == <<phase, outcome, authority, started, runtime>>

Outcomes == {"completed", "failed", "cancelled", "interrupted"}

Init ==
    /\ phase = [r \in Runs |-> "absent"]
    /\ outcome = [r \in Runs |-> "none"]
    /\ authority = [r \in Runs |-> FALSE]
    /\ started = [r \in Runs |-> FALSE]
    /\ runtime = [r \in Runs |-> "none"]

\* The Run is registered.
Admit(r) ==
    /\ phase[r] = "absent"
    /\ phase' = [phase EXCEPT ![r] = "open"]
    /\ UNCHANGED <<outcome, authority, started, runtime>>

\* Authority is granted to one Run at a time, before anything is created.
Grant(r) ==
    /\ phase[r] = "open"
    /\ \A q \in Runs : ~authority[q]
    /\ authority' = [authority EXCEPT ![r] = TRUE]
    /\ UNCHANGED <<phase, outcome, started, runtime>>

\* A Create is sent under authority, while nothing of an earlier one is left
\* and as long as the Run has not been started.
Dispatch(r) ==
    /\ authority[r] /\ phase[r] = "open"
    /\ runtime[r] = "none" /\ ~started[r]
    /\ runtime' = [runtime EXCEPT ![r] = "pending"]
    /\ UNCHANGED <<phase, outcome, authority, started>>

\* The daemon creates the container, possibly long after its caller gave up.
Land(r) ==
    /\ runtime[r] = "pending"
    /\ runtime' = [runtime EXCEPT ![r] = "present"]
    /\ UNCHANGED <<phase, outcome, authority, started>>

\* A Run is started once.
Launch(r) ==
    /\ authority[r] /\ phase[r] = "open"
    /\ runtime[r] = "present" /\ ~started[r]
    /\ started' = [started EXCEPT ![r] = TRUE]
    /\ UNCHANGED <<phase, outcome, authority, runtime>>

\* Requests in flight fail, or die with the host boot they were made in.
Lose ==
    /\ \E S \in SUBSET {r \in Runs : runtime[r] = "pending"} :
           runtime' = [r \in Runs |-> IF r \in S THEN "none" ELSE runtime[r]]
    /\ UNCHANGED <<phase, outcome, authority, started>>

\* Containers are removed.
Remove ==
    /\ \E S \in SUBSET {r \in Runs : runtime[r] = "present"} :
           runtime' = [r \in Runs |-> IF r \in S THEN "none" ELSE runtime[r]]
    /\ UNCHANGED <<phase, outcome, authority, started>>

\* Authority is given up only when there is nothing left to have it over.
Release(r) ==
    /\ authority[r] /\ runtime[r] = "none"
    /\ authority' = [authority EXCEPT ![r] = FALSE]
    /\ UNCHANGED <<phase, outcome, started, runtime>>

\* The first decision about a Run is final.
Decide(r, o) ==
    /\ phase[r] = "open"
    /\ phase' = [phase EXCEPT ![r] = "decided"]
    /\ outcome' = [outcome EXCEPT ![r] = o]
    /\ UNCHANGED <<authority, started, runtime>>

\* Publication comes last, and gives up the authority with it.
Publish(r) ==
    /\ phase[r] = "decided" /\ runtime[r] = "none"
    /\ phase' = [phase EXCEPT ![r] = "published"]
    /\ authority' = [authority EXCEPT ![r] = FALSE]
    /\ UNCHANGED <<outcome, started, runtime>>

Next ==
    \/ \E r \in Runs :
           \/ Admit(r) \/ Grant(r) \/ Dispatch(r) \/ Land(r) \/ Launch(r) \/ Release(r) \/ Publish(r)
           \/ \E o \in Outcomes : Decide(r, o)
    \/ Lose \/ Remove

Spec == Init /\ [][Next]_vars

-----------------------------------------------------------------------------
TypeOK ==
    /\ phase \in [Runs -> {"absent", "open", "decided", "published"}]
    /\ outcome \in [Runs -> Outcomes \cup {"none"}]
    /\ authority \in [Runs -> BOOLEAN]
    /\ started \in [Runs -> BOOLEAN]
    /\ runtime \in [Runs -> {"none", "pending", "present"}]

\* No container exists or may still appear without durable authority for it.
Covered == \A r \in Runs : runtime[r] # "none" => authority[r]

\* A published Run has nothing left at the daemon and no authority.
PublishedMeansGone ==
    \A r \in Runs : phase[r] = "published" => runtime[r] = "none" /\ ~authority[r]

\* At most one Run has a container, or one that may still appear.
OneRuntimeAtATime ==
    \A r, q \in Runs : runtime[r] # "none" /\ runtime[q] # "none" => r = q

\* A Run that was started never gets another container, and a published Run
\* keeps its outcome.
NeverAgain ==
    [][\A r \in Runs :
           /\ started[r] /\ runtime[r] = "none" => runtime'[r] = "none"
           /\ phase[r] = "published" => phase'[r] = "published" /\ outcome'[r] = outcome[r]]_vars
=============================================================================
