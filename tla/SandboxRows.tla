----------------------------- MODULE SandboxRows -----------------------------
(***************************************************************************)
(* The row of one Run in sandboxd's database (internal/sandboxstore) and   *)
(* the transactions on it: what each accepts, and the row it leaves.       *)
(*                                                                         *)
(* `intent` is the host boot whose Create authority is pending, `ref` that *)
(* the container is bound, `staged` the private outcome that awaits the    *)
(* proof of cleanup, `lock` the workspace writer lock of the Run.          *)
(*                                                                         *)
(* Left out: the text of events and results, timestamps, the credential    *)
(* occupancy and the session columns (Runs here need no credential and do  *)
(* not resume a session).                                                  *)
(***************************************************************************)
EXTENDS Naturals

Active == {"accepted", "running", "cancelling"}

Outcome == {"completed", "failed", "cancelled", "interrupted"}

NoBoot == 0

NoRow == [state |-> "none", intent |-> NoBoot, ref |-> FALSE, staged |-> "none", lock |-> FALSE]

\* The row RegisterStart inserts.
Registered(writable) == [NoRow EXCEPT !.state = "accepted", !.lock = writable]

Pending(row) == row.intent # NoBoot

Published(row) == row.state \in Outcome

\* terminalDecided
Decided(row) == row.staged # "none" \/ Published(row)

\* ListUnreconciled
Unreconciled(row) == row.state \in Active \/ row.ref \/ Pending(row) \/ row.lock

-----------------------------------------------------------------------------
(* BeginRuntimeIntent.  A second call in the same boot succeeds too, but   *)
(* reports that it created nothing.                                        *)

CanBegin(row) == row.state = "accepted" /\ ~Pending(row) /\ ~row.ref /\ row.staged = "none"

Begun(row, boot) == [row EXCEPT !.intent = boot]

(* ClearRuntimeIntent *)

CanClear(row) == ~row.ref

Cleared(row) == [row EXCEPT !.intent = NoBoot]

(* SetRuntimeRef *)

CanBind(row) == row.state \in Active /\ row.staged = "none" /\ Pending(row) # row.ref

Bound(row) == [row EXCEPT !.ref = TRUE, !.intent = NoBoot]

(* MarkCancelling *)

CanCancel(row) == row.staged = "none" /\ row.state \in Active

Cancelling(row) == [row EXCEPT !.state = "cancelling"]

(* AppendEvent of run.started *)

CanStart(row) == row.staged = "none" /\ row.state = "accepted"

Running(row) == [row EXCEPT !.state = "running"]

-----------------------------------------------------------------------------
(* transition: the outcomes a Run may take from a state *)

Reaches(state, o) ==
    /\ state \in Active
    /\ o = "completed" => state # "accepted"

(* StageTerminal.  While a Create may still complete, the only outcome     *)
(* that may be frozen is "interrupted".                                    *)

CanStage(row, o) ==
    /\ row.staged = "none"
    /\ Reaches(row.state, o)
    /\ Pending(row) => o = "interrupted"

\* Mutant: the workspace is given back with the decision.
StagedAndUnlocked(row, o) == [row EXCEPT !.staged = o, !.lock = FALSE]

Staged(row, o) == [row EXCEPT !.staged = o]

(* ConfirmRuntimeStopped publishes the staged outcome and releases what    *)
(* the Run holds, in one transaction.                                      *)

CanConfirm(row) == ~Pending(row) /\ Decided(row)

Confirmed(row) ==
    [NoRow EXCEPT !.state = IF row.staged # "none" THEN row.staged ELSE row.state]
=============================================================================
