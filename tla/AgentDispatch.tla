---------------------------- MODULE AgentDispatch ----------------------------
(***************************************************************************)
(* How agentd hands a Run to sandboxd and learns its outcome: the single   *)
(* supervisor loop of internal/agentdaemon driving internal/agentdispatch, *)
(* over the execution protocol (internal/executionhttp), against           *)
(* internal/sandboxservice and the admission and session tables of         *)
(* internal/sandboxstore.                                                  *)
(*                                                                         *)
(* The supervisor makes one call at a time and everything else moves       *)
(* between two calls.  A store transaction may fail, or commit and report  *)
(* an error; a request or its answer may be lost (MaxFaults in all).       *)
(* Either process may crash (MaxCrashes in all); the supervisor forgets    *)
(* which Run it was dispatching, sandboxd which accepted Runs were offered *)
(* to its worker.                                                          *)
(*                                                                         *)
(* Time is relative: a lease, a deadline and the age of a session lineage  *)
(* run out at any moment.  A dispatch token needs no value here, because   *)
(* the only claimant is the supervisor and it reads the row before it uses *)
(* the token: the token is good while the lease is.                        *)
(*                                                                         *)
(* Left out: texts, the delivery row of FinishRun (CoreStore), the runtime *)
(* behind an accepted Run (SandboxController).  A StartRun whose caller    *)
(* gave up commits before the next call is served or not at all: its       *)
(* request context is cancelled, and sandboxd has one database connection. *)
(***************************************************************************)
EXTENDS Naturals, FiniteSets

CONSTANTS
    Runs, NoRun,
    Scopes,         \* session scopes
    ScopeOf,        \* [Runs -> Scopes]
    Refs, NoRef,    \* opaque session references
    MaxTurns,       \* turns a session lineage may have
    Cancellable,    \* Runs that somebody may cancel at sandboxd
    MaxFaults,      \* bound: calls that fail or lose their answer
    MaxCrashes      \* bound: crashes of either process

ASSUME DispatchAssumption ==
    /\ NoRun \notin Runs /\ NoRef \notin Refs
    /\ ScopeOf \in [Runs -> Scopes]
    /\ MaxTurns \in Nat \ {0}
    /\ Cancellable \subseteq Runs
    /\ MaxFaults \in Nat /\ MaxCrashes \in Nat

VARIABLES
    core,       \* agentd's runs
    pointer,    \* agentd's sessions: the current reference of a scope
    box,        \* sandboxd's runs, as GetRun shows them
    sessions,   \* sandboxd's sessions and session_uses
    aged,       \* the lineages (first references) that are past their age
    offered,    \* accepted Runs sandboxd's worker knows of
    target,     \* sandboxd is configured with the target of the Runs
    late,       \* Runs whose frozen deadline has passed
    sup,        \* the supervisor
    active,     \* its activeDispatch
    faults, crashes

sandboxd == <<box, sessions, aged, offered, target, late>>
vars == <<core, pointer, sandboxd, sup, active, faults, crashes>>

-----------------------------------------------------------------------------
Outcome == {"completed", "failed", "cancelled", "interrupted"}
Executing == {"dispatching", "running"}
BoxState == {"accepted", "running", "cancelling"} \cup Outcome

\* `live` is the dispatch lease; `cause` is history: how Core came to an outcome.
NewCoreRow(state) ==
    [state |-> state, live |-> FALSE, prepared |-> FALSE, ref |-> NoRef, cause |-> "none"]

NoBoxRow == [state |-> "none", ref |-> NoRef, turn |-> 0, result |-> NoRef]

NoSession == [by |-> NoRun, root |-> NoRef, turn |-> 0, used |-> NoRun]

NoFinish == [state |-> "none", ref |-> NoRef, cause |-> "none"]

\* The supervisor: the call it makes next, for whom, the Run it advances and the
\* Core state it has in hand, the reference it read, the status StartRun
\* returned, and the finish it is to commit.
At(pc) == [pc |-> pc, for |-> "none", run |-> NoRun, has |-> "none", ref |-> NoRef,
           status |-> "none", finish |-> NoFinish]

Init ==
    /\ core = [r \in Runs |-> NewCoreRow("none")]
    /\ pointer = [s \in Scopes |-> NoRef]
    /\ box = [r \in Runs |-> NoBoxRow]
    /\ sessions = [f \in Refs |-> NoSession]
    /\ aged = {} /\ offered = {} /\ late = {} /\ target = TRUE
    /\ sup = At("list") /\ active = NoRun
    /\ faults = 0 /\ crashes = 0

-----------------------------------------------------------------------------
(* The supervisor's loop *)

Fault == faults < MaxFaults /\ faults' = faults + 1

NoFault == UNCHANGED faults

\* After Reconcile: the active dispatch, else a new one unless a Run is running.
Onward(busy) ==
    IF active # NoRun THEN [At("advance") EXCEPT !.for = "active", !.run = active]
    ELSE IF busy THEN At("list") ELSE At("claim")

\* shouldForget, and what Run keeps as activeDispatch: a Run still dispatching,
\* unless the error says that another call cannot help.
Kept(state, error) == state = "dispatching" /\ error # "forget"

\* The engine returns to the supervisor, with Core's state of the Run and an error.
Return(state, error) ==
    IF sup.for = "reconcile"
      THEN sup' = Onward(TRUE) /\ UNCHANGED active
      ELSE sup' = At("list") /\ active' = IF Kept(state, error) THEN sup.run ELSE NoRun

Step(pc) == sup' = [sup EXCEPT !.pc = pc] /\ UNCHANGED active

Finishing(state, ref, cause) ==
    /\ sup' = [sup EXCEPT !.pc = "finish", !.finish = [state |-> state, ref |-> ref, cause |-> cause]]
    /\ UNCHANGED active

\* Reconcile lists the running Runs; Core has at most one.
ListRunningRuns ==
    /\ sup.pc = "list"
    /\ \/ /\ NoFault
          /\ IF \E r \in Runs : core[r].state = "running"
               THEN \E r \in Runs : /\ core[r].state = "running"
                                    /\ sup' = [At("poll") EXCEPT !.for = "reconcile", !.run = r,
                                                                 !.has = "running"]
               ELSE sup' = Onward(FALSE)
       \/ Fault /\ sup' = Onward(TRUE)
    /\ UNCHANGED <<core, pointer, sandboxd, active, crashes>>

\* Advance
ReadActive ==
    /\ sup.pc = "advance"
    /\ LET state == core[sup.run].state IN
       \/ /\ NoFault
          /\ CASE state = "dispatching" ->
                    sup' = [sup EXCEPT !.pc = "session", !.has = state] /\ UNCHANGED active
               [] state = "running" ->
                    sup' = [sup EXCEPT !.pc = "poll", !.has = state] /\ UNCHANGED active
               [] state \in Outcome -> Return(state, "none")
               [] OTHER -> Return(state, "forget")
       \/ Fault /\ Return("dispatching", "retry")
    /\ UNCHANGED <<core, pointer, sandboxd, crashes>>

\* Mutant: a dispatch whose lease expired is not released.
NotRequeued(rows) == rows

Requeued(rows) ==
    [r \in Runs |-> IF rows[r].state = "dispatching" /\ ~rows[r].live
                      THEN [rows[r] EXCEPT !.state = "queued"] ELSE rows[r]]

\* DispatchOne: ClaimQueuedRun requeues what has expired, is gated by a Run that
\* is executing, and leases a queued Run.
ClaimQueuedRun ==
    LET requeued == Requeued(core)
        free == \A r \in Runs : requeued[r].state \notin Executing
        leased(r) == [requeued EXCEPT ![r].state = "dispatching", ![r].live = TRUE] IN
    /\ sup.pc = "claim"
    /\ \/ /\ NoFault /\ free
          /\ \E r \in Runs :
                 /\ requeued[r].state = "queued"
                 /\ core' = leased(r)
                 /\ sup' = [At("session") EXCEPT !.for = "dispatch", !.run = r, !.has = "dispatching"]
       \/ /\ NoFault /\ ~(free /\ \E r \in Runs : requeued[r].state = "queued")
          /\ sup' = At("list") /\ UNCHANGED core
       \/ /\ Fault /\ sup' = At("list")
          /\ \/ UNCHANGED core
             \/ free /\ \E r \in Runs : requeued[r].state = "queued" /\ core' = leased(r)
    /\ UNCHANGED <<pointer, sandboxd, active, crashes>>

-----------------------------------------------------------------------------
(* The engine's calls to its store *)

\* A transaction that is refused loses the dispatch; one that fails may have committed.
Transact(can, row, ptr, then) ==
    /\ \/ can /\ NoFault /\ core' = [core EXCEPT ![sup.run] = row] /\ pointer' = ptr /\ then
       \/ can /\ Fault /\ core' = [core EXCEPT ![sup.run] = row] /\ pointer' = ptr
              /\ Return(sup.has, "retry")
       \/ can /\ Fault /\ UNCHANGED <<core, pointer>> /\ Return(sup.has, "retry")
       \/ ~can /\ NoFault /\ UNCHANGED <<core, pointer>> /\ Return(sup.has, "forget")
    /\ UNCHANGED <<sandboxd, crashes>>

\* currentSession
GetSession ==
    /\ sup.pc = "session"
    /\ \/ /\ NoFault /\ UNCHANGED active
          /\ sup' = [sup EXCEPT !.pc = "prepare", !.ref = pointer[ScopeOf[sup.run]]]
       \/ Fault /\ Return("dispatching", "retry")
    /\ UNCHANGED <<core, pointer, sandboxd, crashes>>

\* PrepareRunStart freezes the reference and the deadline, once.
Prepared(row, ref) == IF row.prepared THEN row ELSE [row EXCEPT !.prepared = TRUE, !.ref = ref]

Holds(row) == row.state = "dispatching" /\ row.live

PrepareRunStart ==
    LET row == core[sup.run] IN
    /\ sup.pc = "prepare"
    /\ Transact(Holds(row) /\ (row.prepared \/ pointer[ScopeOf[sup.run]] = sup.ref),
                Prepared(row, sup.ref), pointer, Step("start"))

\* MarkRunRunning, before the poll when StartRun said "running", after it when
\* GetRun did.
MarkRunRunning ==
    LET row == core[sup.run] IN
    /\ sup.pc = "mark"
    /\ Transact(Holds(row) /\ row.prepared, [row EXCEPT !.state = "running", !.live = FALSE], pointer,
                IF sup.status = "running"
                  THEN sup' = [sup EXCEPT !.pc = "poll", !.has = "running"] /\ UNCHANGED active
                  ELSE Return("running", "none"))

\* Mutant: the successor reference is not recorded with the outcome.
PointerKept(s, f) == pointer

PointerAfter(s, f) ==
    IF f.ref # NoRef THEN [pointer EXCEPT ![s] = f.ref] ELSE pointer

\* commitFinish.  A violation is reported as an error with the Run finished.
FinishRun ==
    LET row == core[sup.run]
        f == sup.finish IN
    /\ sup.pc = "finish"
    /\ Transact(row.state = "running" \/ (Holds(row) /\ row.prepared),
                [row EXCEPT !.state = f.state, !.live = FALSE, !.cause = f.cause],
                PointerAfter(ScopeOf[sup.run], f), Return(f.state, "none"))

-----------------------------------------------------------------------------
(* sandboxd *)

Terminal(state) == state \in Outcome

\* A request to sandboxd, or its answer, is lost.
Lost(effect) ==
    /\ Fault
    /\ effect \/ UNCHANGED sandboxd
    /\ Return(sup.has, "retry")
    /\ UNCHANGED <<core, pointer, crashes>>

\* Mutant: a reference that was resumed may be resumed again.
ResumableAgain(ref) ==
    /\ sessions[ref].by # NoRun /\ sessions[ref].root \notin aged
    /\ sessions[ref].turn < MaxTurns

\* sessionForAdmission and the checks of age and turns
Resumable(ref) ==
    /\ sessions[ref].by # NoRun /\ sessions[ref].used = NoRun
    /\ sessions[ref].root \notin aged
    /\ sessions[ref].turn < MaxTurns

ScopeActive(r) ==
    \E q \in Runs \ {r} : ScopeOf[q] = ScopeOf[r] /\ box[q].state \in {"accepted", "running", "cancelling"}

\* Service.StartRun: the target and the deadline are checked before the lookup
\* that makes a repeated StartRun harmless.  The answer is a status or an error.
StartAnswer(r, ref) ==
    IF ~target \/ r \in late THEN "refused"
    ELSE IF box[r].state # "none"
           THEN IF box[r].ref = ref THEN box[r].state ELSE "conflict"
    ELSE IF ref # NoRef /\ ~Resumable(ref) THEN "refused"
    ELSE IF ScopeActive(r) THEN "conflict" ELSE "accepted"

\* RegisterStart inserts the Run and consumes its reference; an accepted Run is
\* offered to the worker.
Register(r, ref) ==
    LET answer == StartAnswer(r, ref)
        fresh == answer = "accepted" /\ box[r].state = "none" IN
    /\ box' = IF fresh
                THEN [box EXCEPT ![r] = [state |-> "accepted", ref |-> ref, result |-> NoRef,
                                         turn |-> IF ref = NoRef THEN 1 ELSE sessions[ref].turn + 1]]
                ELSE box
    /\ sessions' = IF fresh /\ ref # NoRef THEN [sessions EXCEPT ![ref].used = r] ELSE sessions
    /\ offered' = IF answer = "accepted" THEN offered \cup {r} ELSE offered
    /\ UNCHANGED <<aged, target, late>>

StartRun ==
    LET r == sup.run
        ref == core[r].ref
        answer == StartAnswer(r, ref) IN
    /\ sup.pc = "start"
    /\ \/ /\ NoFault /\ Register(r, ref)
          /\ CASE answer = "refused" -> Step("prove")
               [] answer = "conflict" -> Finishing("failed", NoRef, "violation")
               [] OTHER -> sup' = [sup EXCEPT !.pc = IF answer = "running" THEN "mark" ELSE "poll",
                                              !.status = answer] /\ UNCHANGED active
          /\ UNCHANGED <<core, pointer, crashes>>
       \/ Lost(Register(r, ref))

\* sandboxStateProgresses
Progresses(from, to) ==
    CASE from = "accepted" -> to \in BoxState
      [] from = "running" -> to \in {"running", "cancelling"} \/ Terminal(to)
      [] from = "cancelling" -> to = "cancelling" \/ Terminal(to)
      [] OTHER -> to = from

\* applySnapshot
ApplySnapshot(row) ==
    CASE row.state = "accepted" ->
           IF sup.has = "running" THEN Finishing("interrupted", NoRef, "violation")
                                  ELSE Return("dispatching", "none")
      [] row.state = "running" ->
           IF sup.has = "dispatching"
             THEN sup' = [sup EXCEPT !.pc = "mark", !.status = "none"] /\ UNCHANGED active
             ELSE Return("running", "none")
      [] row.state = "cancelling" -> Return(sup.has, "none")
      [] OTHER -> Finishing(row.state, row.result, "snapshot")

\* GetRun, after StartRun or for a Run that is running.
PollRun ==
    LET row == box[sup.run] IN
    /\ sup.pc = "poll"
    /\ \/ /\ NoFault
          /\ IF row.state = "none"
               THEN IF sup.status = "none" THEN Finishing("interrupted", NoRef, "violation")
                                           ELSE Return(sup.has, "retry")
             ELSE IF sup.status # "none" /\ ~Progresses(sup.status, row.state)
               THEN Finishing("failed", NoRef, "violation")
             ELSE ApplySnapshot(row)
          /\ UNCHANGED <<core, pointer, sandboxd, crashes>>
       \/ Lost(FALSE)

\* Mutant: the refusal of a StartRun is taken for proof that there is no Run.
TrustRefusal ==
    /\ sup.pc = "prove"
    /\ NoFault /\ Finishing("failed", NoRef, "refused")
    /\ UNCHANGED <<core, pointer, sandboxd, crashes>>

\* An earlier StartRun may have been accepted and its answer lost, so a refusal
\* counts only when GetRun does not find the Run.
ProveAbsence ==
    LET row == box[sup.run] IN
    /\ sup.pc = "prove"
    /\ \/ /\ NoFault
          /\ IF row.state = "none" THEN Finishing("failed", NoRef, "refused") ELSE ApplySnapshot(row)
          /\ UNCHANGED <<core, pointer, sandboxd, crashes>>
       \/ Lost(FALSE)

-----------------------------------------------------------------------------
(* What sandboxd does with a Run (SandboxController in detail) *)

\* bindSession: a completed Run leaves a fresh successor in its lineage.
Complete(r) ==
    /\ box[r].state \in {"running", "cancelling"}
    /\ LET f == CHOOSE f \in Refs : sessions[f].by = NoRun IN
           /\ box' = [box EXCEPT ![r].state = "completed", ![r].result = f]
           /\ sessions' = [sessions EXCEPT ![f] =
                  [by |-> r, turn |-> box[r].turn, used |-> NoRun,
                   root |-> IF box[r].ref = NoRef THEN f ELSE sessions[box[r].ref].root]]

\* A Run starts, or ends.  An accepted one that was not offered to this process
\* waits for the next StartRun, or for its deadline.
Execute(r) ==
    /\ \/ /\ box[r].state = "accepted" /\ r \in offered
          /\ box' = [box EXCEPT ![r].state = "running"]
          /\ UNCHANGED sessions
       \/ /\ \/ box[r].state \in {"running", "cancelling"}
             \/ box[r].state = "accepted" /\ (r \in offered \/ r \in late)
          /\ \E o \in {"failed", "interrupted"}
                       \cup (IF box[r].state = "cancelling" THEN {"cancelled"} ELSE {}) :
                 box' = [box EXCEPT ![r].state = o]
          /\ UNCHANGED sessions
       \/ Complete(r)
    /\ UNCHANGED <<core, pointer, aged, offered, target, late, sup, active, faults, crashes>>

CancelRun(r) ==
    /\ r \in Cancellable /\ box[r].state \in {"accepted", "running"}
    /\ box' = [box EXCEPT ![r].state = "cancelling"]
    /\ UNCHANGED <<core, pointer, sessions, aged, offered, target, late, sup, active, faults, crashes>>

-----------------------------------------------------------------------------
(* Admission, time, crashes *)

ScopeBusy(s) == \E r \in Runs : ScopeOf[r] = s /\ core[r].state \in {"queued"} \cup Executing

Ingest(r) ==
    /\ core[r].state = "none" /\ ~ScopeBusy(ScopeOf[r]) /\ sup.pc # "down"
    /\ core' = [core EXCEPT ![r] = NewCoreRow("queued")]
    /\ UNCHANGED <<pointer, sandboxd, sup, active, faults, crashes>>

\* A lease is long for one pass of the loop: that it runs out while the engine is
\* advancing the Run is an exception, and counted as a fault.
LeaseExpires(r) ==
    /\ Holds(core[r])
    /\ IF sup.run = r THEN Fault ELSE NoFault
    /\ core' = [core EXCEPT ![r].live = FALSE]
    /\ UNCHANGED <<pointer, sandboxd, sup, active, crashes>>

DeadlinePasses(r) ==
    /\ core[r].prepared /\ r \notin late
    /\ late' = late \cup {r}
    /\ UNCHANGED <<core, pointer, box, sessions, aged, offered, target, sup, active, faults, crashes>>

SessionAges(f) ==
    /\ sessions[f].root = f /\ f \notin aged
    /\ aged' = aged \cup {f}
    /\ UNCHANGED <<core, pointer, box, sessions, offered, target, late, sup, active, faults, crashes>>

AgentdCrash ==
    /\ sup.pc # "down" /\ crashes < MaxCrashes
    /\ crashes' = crashes + 1
    /\ sup' = At("down") /\ active' = NoRun
    /\ UNCHANGED <<core, pointer, sandboxd, faults>>

AgentdStart ==
    /\ sup.pc = "down"
    /\ sup' = At("list")
    /\ UNCHANGED <<core, pointer, sandboxd, active, faults, crashes>>

\* The offline tool, which needs agentd's process lock.
ResetSession(s) ==
    /\ sup.pc = "down" /\ pointer[s] # NoRef /\ ~ScopeBusy(s)
    /\ pointer' = [pointer EXCEPT ![s] = NoRef]
    /\ UNCHANGED <<core, sandboxd, sup, active, faults, crashes>>

\* sandboxd comes back, perhaps with another set of targets.
SandboxdRestart ==
    /\ crashes < MaxCrashes
    /\ crashes' = crashes + 1
    /\ offered' = {} /\ target' \in BOOLEAN
    /\ UNCHANGED <<core, pointer, box, sessions, aged, late, sup, active, faults>>

-----------------------------------------------------------------------------
Supervise ==
    \/ ListRunningRuns \/ ReadActive \/ ClaimQueuedRun \/ GetSession \/ PrepareRunStart
    \/ StartRun \/ ProveAbsence \/ MarkRunRunning \/ PollRun \/ FinishRun

Next ==
    \/ Supervise
    \/ \E r \in Runs : Ingest(r) \/ LeaseExpires(r) \/ DeadlinePasses(r) \/ Execute(r) \/ CancelRun(r)
    \/ \E f \in Refs : SessionAges(f)
    \/ \E s \in Scopes : ResetSession(s)
    \/ AgentdCrash \/ AgentdStart \/ SandboxdRestart

Spec == Init /\ [][Next]_vars

\* The supervisor's ticker runs on, time passes, and sandboxd's worker and
\* reconciler make progress.  Nobody has to start agentd again.
Fairness ==
    /\ WF_vars(Supervise)
    /\ \A r \in Runs : WF_vars(LeaseExpires(r)) /\ WF_vars(DeadlinePasses(r)) /\ WF_vars(Execute(r))

FairSpec == Spec /\ Fairness

-----------------------------------------------------------------------------
(* Properties *)

\* agentd never says anything of a Run that sandboxd contradicts: an outcome it
\* took from a snapshot is sandboxd's; a Run it failed because StartRun was
\* refused (target gone, deadline passed, session invalid) does not exist at
\* sandboxd and never will; and it never accuses sandboxd of a protocol
\* violation or conflict, however calls, crashes and state changes interleave.
CoreRepeatsSandbox ==
    \A r \in Runs :
        /\ core[r].cause # "violation"
        /\ core[r].cause = "snapshot" => box[r].state = core[r].state
        /\ core[r].cause = "refused" => box[r].state = "none"

\* A session reference is resumed by one Run at most, ever: not after that Run
\* failed, not after a lost StartRun, not after agentd or sandboxd restarted.
ResumedOnce ==
    \A r, q \in Runs : box[r].ref # NoRef /\ box[r].ref = box[q].ref => r = q

\* agentd's session pointer follows sandboxd's lineage: it names a reference
\* sandboxd bound, and one that was consumed only if the Run that consumed it
\* is not through or did not complete.  A completed turn is never lost.
PointerFollowsLineage ==
    \A s \in Scopes : pointer[s] # NoRef =>
        LET used == sessions[pointer[s]].used IN
        /\ sessions[pointer[s]].by # NoRun
        /\ used # NoRun => core[used].state # "completed"

\* Every admitted Run gets an outcome, while agentd is up or once it is up again:
\* no crash of either process, lost call, expired lease or forgotten offer leaves
\* it between the two.
EveryRunEnds ==
    \A r \in Runs : core[r].state \in {"queued", "dispatching", "running"} /\ sup.pc # "down" ~>
                        (core[r].state \in Outcome \/ sup.pc = "down")
=============================================================================
