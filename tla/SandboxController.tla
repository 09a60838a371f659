-------------------------- MODULE SandboxController --------------------------
(***************************************************************************)
(* sandboxd's runtime lifecycle: internal/sandboxcontroller over the rows  *)
(* of internal/sandboxstore and a container daemon.                        *)
(*                                                                         *)
(* Two goroutines act on Runs, the execution worker and the reconciler; an *)
(* API handler registers, offers and cancels them.  All of them interleave *)
(* at every store transaction and every daemon call, each of which may     *)
(* fail, or succeed and lose its answer (at most MaxFaults times).  The    *)
(* process may crash between any two steps and the host may reboot.        *)
(*                                                                         *)
(* A goroutine is the Run it works on and the `plan` of calls it still has *)
(* to make, named for them; a call that fails drops the plan (the code     *)
(* returns an error and leaves the rest to the reconciler) or replaces it. *)
(*                                                                         *)
(* The daemon keeps working on a Create after its caller has gone: `flight`*)
(* is such a request, which lands at any later time of the same host boot. *)
(* It dies with the boot; containers outlive both process and boot.        *)
(*                                                                         *)
(* The startup pass and the final pass of Close run as "reconciler" too:   *)
(* they run before its goroutine starts and after it has ended.            *)
(***************************************************************************)
EXTENDS SandboxRows, Sequences, FiniteSets

CONSTANTS
    Runs,
    NoRun,
    Writable,       \* the Runs that write the (one) workspace
    Cancellable,    \* the Runs somebody may cancel
    Expiring,       \* the Runs whose deadline may pass
    Duplicates,     \* the Runs that may have two StartRun calls in flight at once
    QueueCapacity,
    MaxFaults,      \* calls that fail or lose their answer
    MaxCrashes,     \* process crashes, reboots and shutdowns
    MaxBoots        \* host boots

ASSUME SandboxAssumption ==
    /\ NoRun \notin Runs
    /\ Writable \subseteq Runs /\ Cancellable \subseteq Runs /\ Expiring \subseteq Runs
    /\ Duplicates \subseteq Runs
    /\ QueueCapacity \in Nat \ {0}
    /\ MaxFaults \in Nat /\ MaxCrashes \in Nat /\ MaxBoots \in Nat \ {0}

VARIABLES
    rows,           \* the database
    container,      \* per Run: "none", "stopped" or "running" (the name is the Run's)
    flight,         \* per Run: a Create the daemon has not finished
    starts,         \* per Run: times its container was started, ever (history)
    late,           \* per Run: its deadline has passed
    boot,           \* host boot
    up,             \* "down", "startup", "up", "closing" or "final"
    offering,       \* Offers between their read and their enqueue
    queue,          \* accepted offers
    offered,        \* per Run: "none", "queued", "active" or "reconciling"
    memo,           \* per Run: desired outcome and what is known of the runtime
    proc,           \* the two goroutines
    todo,           \* what a startup or final pass has left
    failed,         \* whether that pass met an error
    faults,
    crashes

docker == <<container, flight, starts>>
budget == <<faults, crashes>>
lifecycle == <<up, todo, failed>>
offers == <<offering, queue, offered>>
vars == <<rows, docker, late, boot, lifecycle, offers, memo, proc, budget>>

Procs == {"worker", "reconciler"}

NoMemo == [kind |-> "none", spec |-> "none"]

\* What is left of a plan after an error that has no other handling.
Abandon == <<"failed">>

Idle == [run |-> NoRun, seen |-> NoRow, plan |-> <<>>, spec |-> "none", otherwise |-> Abandon]

Init ==
    /\ rows = [r \in Runs |-> NoRow]
    /\ container = [r \in Runs |-> "none"]
    /\ flight = [r \in Runs |-> FALSE]
    /\ starts = [r \in Runs |-> 0]
    /\ late = [r \in Runs |-> FALSE] /\ boot = 1
    /\ up = "down" /\ todo = {} /\ failed = FALSE
    /\ offering = {} /\ queue = <<>> /\ offered = [r \in Runs |-> "none"]
    /\ memo = [r \in Runs |-> NoMemo] /\ proc = [p \in Procs |-> Idle]
    /\ faults = 0 /\ crashes = 0

-----------------------------------------------------------------------------
(* Steps of a goroutine *)

At(p, op) == proc[p].plan # <<>> /\ Head(proc[p].plan) = op

Rest(p) == Tail(proc[p].plan)

\* The goroutine goes on with a plan, with a plan and an outcome in mind, or as planned.
Do(p, plan) == [proc[p] EXCEPT !.plan = plan]

AimOrElse(p, plan, spec, otherwise) ==
    [proc[p] EXCEPT !.plan = plan, !.spec = spec, !.otherwise = otherwise]

Aim(p, plan, spec) == AimOrElse(p, plan, spec, Abandon)

Continue(p) == Do(p, Rest(p))

Become(p, q) == proc' = [proc EXCEPT ![p] = q]

Fault == faults < MaxFaults /\ faults' = faults + 1

NoFault == UNCHANGED faults

\* One store transaction.  It commits and answers, commits and the answer is
\* lost, is refused, or fails.
Transact(p, can, row, then, else) ==
    /\ \/ can /\ NoFault /\ rows' = [rows EXCEPT ![proc[p].run] = row] /\ Become(p, then)
       \/ can /\ Fault /\ rows' = [rows EXCEPT ![proc[p].run] = row] /\ Become(p, else)
       \/ ~can /\ NoFault /\ UNCHANGED rows /\ Become(p, else)
       \/ can /\ Fault /\ UNCHANGED rows /\ Become(p, else)
    /\ UNCHANGED <<docker, late, boot, lifecycle, offers, memo, crashes>>

\* One read of the Run's row, or of the daemon.
Read(p, then, else) ==
    /\ \/ NoFault /\ Become(p, then)
       \/ Fault /\ Become(p, else)
    /\ UNCHANGED <<rows, docker, late, boot, lifecycle, offers, memo, crashes>>

\* A change of what the process remembers about its Run.
Note(p, m) ==
    /\ memo' = [memo EXCEPT ![proc[p].run] = m]
    /\ Become(p, Continue(p))
    /\ UNCHANGED <<rows, docker, late, boot, lifecycle, offers, budget>>

\* The execution context of a Run is done: cancelled, past its deadline, or closing.
ContextDone(r) == rows[r].state = "cancelling" \/ late[r] \/ up = "closing"

ClassifyFailure(r, cause) ==
    IF rows[r].state = "cancelling" THEN "cancelled"
    ELSE IF up = "closing" THEN "interrupted" ELSE cause

-----------------------------------------------------------------------------
(* Plans *)

FinishWithoutRuntime == <<"remember", "finish">>

FinishWithRuntime == <<"remember", "commit", "forget", "cleanup", "confirm">>

FinishCreateFailure == <<"remember", "finishCreate">>

FinishPredispatch == <<"prove", "clearProved", "commit", "confirm", "forget">>

\* Freeze the outcome, then remove what the authority is for, then publish.
UnderAuthority(row) ==
    (IF Decided(row) THEN <<>> ELSE <<"commit">>)
    \o <<"forget", IF row.ref THEN "cleanup" ELSE "lookup", "confirm">>

ReconcileDesired(row, m) ==
    CASE m.kind = "predispatch" -> Tail(FinishPredispatch)
      [] m.kind # "predispatch" /\ (row.ref \/ Pending(row)) -> UnderAuthority(row)
      [] OTHER ->
           IF m.kind = "certain" /\ (row.state # "running" \/ Decided(row))
             THEN <<"commit", "confirm", "forget">>
             ELSE <<"lookup", "commit", "confirm", "forget">>

ReconcileRun(row, isLate) ==
    IF Decided(row)
      THEN IF row.ref THEN <<"cleanup", "confirm">>
           ELSE IF Pending(row) \/ row.staged # "none" \/ row.lock THEN <<"lookup", "confirm">>
           ELSE <<"confirm">>
    ELSE IF row.ref THEN <<"commit", "cleanup", "confirm">>
    ELSE IF Pending(row) THEN <<"commit", "lookup", "confirm">>
    ELSE IF row.state = "accepted" /\ ~isLate THEN <<>>
    ELSE <<"lookup", "commit", "confirm">>

ReconcileSpec(row, isLate) ==
    IF row.state = "cancelling" THEN "cancelled"
    ELSE IF row.state = "accepted" /\ ~row.ref /\ isLate THEN "failed" ELSE "interrupted"

\* What the reconciler, or a pass, does about Run r given its row.
Reconcile(p, r, row) ==
    IF memo[r].kind # "none"
      THEN Aim(p, ReconcileDesired(row, memo[r]), memo[r].spec)
      ELSE Aim(p, ReconcileRun(row, late[r]), ReconcileSpec(row, late[r]))

-----------------------------------------------------------------------------
(* The API *)

\* StartRun registers the Run, or finds it registered, and passes the read of Offer.
StartRun(r) ==
    /\ up = "up" /\ ~late[r]
    /\ \/ /\ rows[r].state = "none"
          /\ r \in Writable => \A q \in Writable : ~rows[q].lock
          /\ rows' = [rows EXCEPT ![r] = Registered(r \in Writable)]
       \/ rows[r].state = "accepted" /\ rows[r].staged = "none" /\ UNCHANGED rows
    /\ offered[r] = "none"
    /\ offering' = offering \cup {r}
    /\ UNCHANGED <<docker, late, boot, lifecycle, queue, offered, memo, proc, budget>>

HasRoom == Len(queue) < QueueCapacity

\* The rest of Offer, under the lock.  Another call for the same Run may be
\* between its read and its enqueue as well.
Enqueue(r) ==
    /\ r \in offering
    /\ offering' = offering \ {r} \/ (r \in Duplicates /\ UNCHANGED offering)
    /\ IF up = "up" /\ offered[r] = "none" /\ HasRoom
         THEN queue' = Append(queue, r) /\ offered' = [offered EXCEPT ![r] = "queued"]
         ELSE UNCHANGED <<queue, offered>>
    /\ UNCHANGED <<rows, docker, late, boot, lifecycle, memo, proc, budget>>

CancelRun(r) ==
    /\ up \in {"up", "closing"} /\ r \in Cancellable
    /\ CanCancel(rows[r])
    /\ rows' = [rows EXCEPT ![r] = Cancelling(rows[r])]
    /\ UNCHANGED <<docker, late, boot, lifecycle, offers, memo, proc, budget>>

-----------------------------------------------------------------------------
(* The execution worker *)

\* Mutant: the gate opens when no reference is left, pending intent or not.
QuiescentWhenUnbound(row) == ~row.ref /\ row.state \notin {"running", "cancelling"}

\* waitForRuntimeQuiescence: no row may still stand for a live runtime.
Quiescent(row) ==
    ~row.ref /\ ~Pending(row) /\ row.staged = "none" /\ row.state \notin {"running", "cancelling"}

WaitForQuiescence ==
    /\ up = "up" /\ proc["worker"] = Idle
    /\ \A r \in Runs : Unreconciled(rows[r]) => Quiescent(rows[r])
    /\ Become("worker", [Idle EXCEPT !.plan = <<"dequeue">>])
    /\ UNCHANGED <<rows, docker, late, boot, lifecycle, offers, memo, budget>>

\* An offer the reconciler has taken over in the meantime is dropped.
ExecuteOffer ==
    /\ up = "up" /\ At("worker", "dequeue") /\ queue # <<>>
    /\ queue' = Tail(queue)
    /\ LET r == Head(queue) IN
       IF offered[r] \in {"none", "reconciling"}
         THEN Become("worker", Idle) /\ UNCHANGED offered
         ELSE /\ Become("worker", [Idle EXCEPT !.run = r, !.plan = <<"load">>])
              /\ offered' = [offered EXCEPT ![r] = "active"]
    /\ UNCHANGED <<rows, docker, late, boot, lifecycle, offering, memo, budget>>

\* Mutant: an offer does not look for an outcome that is remembered.
LoadUnremembered(p) ==
    LET r == proc[p].run IN
    /\ At(p, "load")
    /\ Read(p, IF Decided(rows[r]) THEN Do(p, <<>>)
               ELSE IF rows[r].state = "cancelling" THEN Aim(p, FinishWithoutRuntime, "cancelled")
               ELSE IF late[r] THEN Aim(p, FinishWithoutRuntime, "failed")
               ELSE Do(p, <<"begin">>),
            Do(p, Abandon))

\* The first half of execute: what is already decided, desired, cancelled or
\* too late is finished; the registry and the session may refuse the Run.
Load(p) ==
    LET r == proc[p].run IN
    /\ At(p, "load")
    /\ \/ Read(p, IF memo[r].kind # "none" THEN Reconcile(p, r, rows[r])
                  ELSE IF Decided(rows[r]) THEN Do(p, <<>>)
                  ELSE IF rows[r].state = "cancelling" THEN Aim(p, FinishWithoutRuntime, "cancelled")
                  ELSE IF late[r] THEN Aim(p, FinishWithoutRuntime, "failed")
                  ELSE Do(p, <<"begin">>),
               Do(p, Abandon))
       \/ /\ memo[r].kind = "none" /\ rows[r].state = "accepted" /\ ~Decided(rows[r]) /\ ~late[r]
          /\ Read(p, Aim(p, FinishWithoutRuntime, ClassifyFailure(r, "failed")), Do(p, Abandon))

Begin(p) ==
    LET r == proc[p].run
        predispatch == Aim(p, IF Pending(rows[r]) \/ rows[r].ref THEN FinishWithoutRuntime
                              ELSE FinishPredispatch, ClassifyFailure(r, "failed")) IN
    /\ At(p, "begin")
    /\ IF Pending(rows[r]) /\ rows[r].intent = boot
         THEN Read(p, Aim(p, FinishCreateFailure, "interrupted"), predispatch)
         ELSE Transact(p, CanBegin(rows[r]), Begun(rows[r], boot), Do(p, <<"recheck">>), predispatch)

\* Cancellation may have raced the intent: look once more before the sole Create.
Recheck(p) ==
    LET r == proc[p].run IN
    /\ At(p, "recheck")
    /\ Read(p, IF rows[r].ref \/ rows[r].intent # boot
                 THEN Aim(p, FinishCreateFailure, "interrupted")
               ELSE IF ContextDone(r)
                 THEN Aim(p, FinishPredispatch, ClassifyFailure(r, "failed"))
               ELSE Do(p, <<"create">>),
            Aim(p, FinishPredispatch, "interrupted"))

\* Create fails before anything is sent, or sends its request.
Create(p) ==
    LET r == proc[p].run IN
    /\ At(p, "create")
    /\ \/ /\ Fault \/ (NoFault /\ ContextDone(r))
          /\ Become(p, Aim(p, FinishPredispatch, ClassifyFailure(r, "failed")))
          /\ UNCHANGED flight
       \/ /\ NoFault
          /\ flight' = [flight EXCEPT ![r] = TRUE]
          /\ Become(p, Do(p, <<"await">>))
    /\ UNCHANGED <<rows, container, starts, late, boot, lifecycle, offers, memo, crashes>>

\* It returns the verified container, or does not know what became of it.
Await(p) ==
    LET r == proc[p].run IN
    /\ At(p, "await")
    /\ \/ container[r] # "none" /\ NoFault /\ Become(p, Do(p, <<"bind">>))
       \/ /\ \/ Fault
             \/ NoFault /\ (ContextDone(r) \/ (~flight[r] /\ container[r] = "none"))
          /\ Become(p, Aim(p, FinishCreateFailure, "interrupted"))
    /\ UNCHANGED <<rows, docker, late, boot, lifecycle, offers, memo, crashes>>

Bind(p) ==
    LET r == proc[p].run IN
    /\ At(p, "bind")
    /\ Transact(p, CanBind(rows[r]), Bound(rows[r]),
                IF rows[r].state = "cancelling"
                  THEN AimOrElse(p, FinishWithRuntime, "cancelled", <<"cleanup">>)
                  ELSE Do(p, <<"attach">>),
                Aim(p, <<"cleanup", "clear">> \o FinishWithoutRuntime, ClassifyFailure(r, "failed")))

\* The daemon starts the container.
Launch(r) ==
    /\ container' = [container EXCEPT ![r] = "running"]
    /\ starts' = [starts EXCEPT ![r] = @ + 1]

\* AttachStart; when it fails the container may or may not be running.
Attach(p) ==
    LET r == proc[p].run IN
    /\ At(p, "attach")
    /\ \/ NoFault /\ Launch(r) /\ Become(p, Do(p, <<"bridge">>))
       \/ /\ Fault \/ (NoFault /\ ContextDone(r))
          /\ Launch(r) \/ UNCHANGED <<container, starts>>
          /\ Become(p, AimOrElse(p, FinishWithRuntime, ClassifyFailure(r, "failed"), <<"cleanup">>))
    /\ UNCHANGED <<rows, flight, late, boot, lifecycle, offers, memo, crashes>>

\* The bridge records the Runner's events: run.started, then one outcome.  A
\* refused or failed append ends it, and it may end at any time without one.
BridgeStarted(p) ==
    LET r == proc[p].run IN
    /\ At(p, "bridge")
    /\ Transact(p, CanStart(rows[r]), Running(rows[r]), Do(p, <<"stream">>), Do(p, <<"settle">>))

BridgeOutcome(p) ==
    LET r == proc[p].run IN
    /\ At(p, "stream")
    /\ \E o \in {"completed", "failed", "cancelled"} :
           Transact(p, CanStage(rows[r], o), Staged(rows[r], o), Do(p, <<"settle">>), Do(p, <<"settle">>))

BridgeReturns(p) ==
    /\ At(p, "bridge") \/ At(p, "stream")
    /\ Become(p, Do(p, <<"settle">>))
    /\ UNCHANGED <<rows, docker, late, boot, lifecycle, offers, memo, budget>>

\* Whatever the bridge left undecided is decided here; the container goes in any case.
Settle(p) ==
    LET r == proc[p].run IN
    /\ At(p, "settle")
    /\ \E cause \in {"failed", "interrupted"} :
           Read(p, IF Decided(rows[r]) THEN Do(p, <<"forget", "cleanup", "confirm">>)
                   ELSE AimOrElse(p, FinishWithRuntime, ClassifyFailure(r, cause),
                                  <<"cleanup", "confirm">>),
                Do(p, <<"cleanup", "confirm">>))

-----------------------------------------------------------------------------
(* Calls both goroutines make *)

\* rememberDesiredTerminal and the proof of finishPredispatchFailure
Remember(p) == At(p, "remember") /\ Note(p, [kind |-> "desired", spec |-> proc[p].spec])

Prove(p) == At(p, "prove") /\ Note(p, [kind |-> "predispatch", spec |-> proc[p].spec])

Forget(p) == At(p, "forget") /\ Note(p, NoMemo)

Finish(p) ==
    LET row == rows[proc[p].run] IN
    /\ At(p, "finish")
    /\ Read(p, Do(p, IF row.ref \/ Pending(row) THEN UnderAuthority(row)
                     ELSE IF Decided(row) THEN <<"forget">>
                     ELSE <<"lookup", "commit", "forget", "confirm">>),
            Do(p, Abandon))

FinishCreate(p) ==
    /\ At(p, "finishCreate")
    /\ Read(p, Do(p, UnderAuthority(rows[proc[p].run])), Do(p, Abandon))

\* clearAmbiguousPredispatchIntent: the process itself knows that nothing was
\* sent.  Once the intent is gone, the memo says so.
ClearProved(p) ==
    LET r == proc[p].run
        row == rows[r]
        sound == /\ ~row.ref /\ row.intent \in {NoBoot, boot}
                 /\ row.state \in {"accepted", "cancelling"} \/ (Published(row) /\ ~Pending(row)) IN
    /\ At(p, "clearProved")
    /\ \/ /\ sound /\ NoFault
          /\ rows' = [rows EXCEPT ![r] = Cleared(row)]
          /\ memo' = [memo EXCEPT ![r].kind = "certain"]
          /\ Become(p, Continue(p))
       \/ /\ IF sound THEN Fault /\ rows' \in {rows, [rows EXCEPT ![r] = Cleared(row)]}
                       ELSE NoFault /\ UNCHANGED rows
          /\ Become(p, Do(p, Abandon))
          /\ UNCHANGED memo
    /\ UNCHANGED <<docker, late, boot, lifecycle, offers, crashes>>

\* Mutant: a cancellation takes precedence over a pending Create.
CancellationFirst(row, spec) ==
    IF row.state = "cancelling" THEN "cancelled"
    ELSE IF Pending(row) THEN "interrupted" ELSE spec

\* commitTerminal reads the row, lets a pending Create and then a cancellation
\* take precedence, and stages the outcome it has settled on.
Precedence(row, spec) ==
    IF Pending(row) THEN "interrupted"
    ELSE IF row.state = "cancelling" THEN "cancelled" ELSE spec

Commit(p) ==
    LET row == rows[proc[p].run] IN
    /\ At(p, "commit")
    /\ Read(p, IF Decided(row) THEN Continue(p)
               ELSE [Do(p, <<"stage">> \o Rest(p)) EXCEPT !.spec = Precedence(row, @)],
            Do(p, proc[p].otherwise))

Stage(p) ==
    LET row == rows[proc[p].run] IN
    /\ At(p, "stage")
    /\ Transact(p, CanStage(row, proc[p].spec), Staged(row, proc[p].spec),
                Continue(p), Do(p, proc[p].otherwise))

\* cleanupRuntime: stop, kill if need be, remove, and see it gone.
Cleanup(p) ==
    LET r == proc[p].run IN
    /\ At(p, "cleanup")
    /\ \/ /\ NoFault
          /\ container' = [container EXCEPT ![r] = "none"]
          /\ Become(p, Continue(p))
       \/ /\ Fault
          /\ \E c \in {container[r], "none"} \cup (IF container[r] = "running" THEN {"stopped"} ELSE {}) :
                 container' = [container EXCEPT ![r] = c]
          /\ Become(p, Do(p, Abandon))
    /\ UNCHANGED <<rows, flight, starts, late, boot, lifecycle, offers, memo, crashes>>

\* Mutant: not finding the container is proof.
AbsenceProves(row) == TRUE

\* No Create of an earlier host boot can still land.
AbsenceIsProof(row) == row.intent # boot

\* cleanupNoRefIntent.  Finding the container is proof; not finding it is
\* proof only when no Create was allowed, or none of this host boot.
Lookup(p) ==
    LET r == proc[p].run
        row == rows[r]
        proved == IF Pending(row) THEN <<"clear">> \o Rest(p) ELSE Rest(p) IN
    /\ At(p, "lookup")
    /\ Read(p, Do(p, IF container[r] # "none" THEN <<"cleanup">> \o proved
                     ELSE IF ~Pending(row) \/ AbsenceIsProof(row) THEN proved ELSE Abandon),
            Do(p, Abandon))

\* clearIntentAfterKnownCleanup and clearCertainRuntimeIntent.  A reference
\* that a lost SetRuntimeRef had bound after all is left to confirm.
Clear(p) ==
    LET row == rows[proc[p].run] IN
    /\ At(p, "clear")
    /\ IF Pending(row) THEN Transact(p, CanClear(row), Cleared(row), Continue(p), Do(p, Abandon))
                       ELSE Read(p, Continue(p), Do(p, Abandon))

Confirm(p) ==
    LET row == rows[proc[p].run] IN
    /\ At(p, "confirm")
    /\ Transact(p, CanConfirm(row), Confirmed(row), Continue(p), Do(p, Abandon))

\* The goroutine is through with its Run, or gives up on it for now.
Done(p) ==
    LET r == proc[p].run IN
    /\ r # NoRun /\ proc[p].plan \in {<<>>, Abandon}
    /\ Become(p, Idle)
    /\ offered' = IF p = "worker" \/ offered[r] = "reconciling"
                    THEN [offered EXCEPT ![r] = "none"] ELSE offered
    /\ todo' = IF p = "worker" THEN todo ELSE todo \ {r}
    /\ failed' = (failed \/ (r \in todo /\ p = "reconciler" /\ proc[p].plan = Abandon))
    /\ UNCHANGED <<rows, docker, late, boot, up, offering, queue, memo, budget>>

-----------------------------------------------------------------------------
(* The reconciler *)

\* A row of ListUnreconciled, looked at before the Run is claimed.
List(r) ==
    /\ up = "up" /\ proc["reconciler"] = Idle
    /\ Unreconciled(rows[r])
    /\ Become("reconciler", [Idle EXCEPT !.run = r, !.seen = rows[r], !.plan = <<"claim">>])
    /\ UNCHANGED <<rows, docker, late, boot, lifecycle, offers, memo, budget>>

\* Mutant: an active Run may be claimed.
ClaimableWhileActive(r) == offered[r] # "reconciling"

Claimable(r) == offered[r] \in {"none", "queued"}

\* claimReconciliation.  A fresh accepted Run is left to its offer, and an
\* active one to the worker; a queued offer is taken over.
ClaimReconciliation(p) ==
    LET r == proc[p].run
        seen == proc[p].seen
        fresh == /\ seen.state = "accepted" /\ ~seen.ref /\ ~Pending(seen) /\ seen.staged = "none"
                 /\ memo[r].kind = "none" /\ ~late[r] IN
    /\ At(p, "claim")
    /\ IF fresh \/ ~Claimable(r)
         THEN Become(p, Do(p, <<>>)) /\ UNCHANGED offered
         ELSE Become(p, Do(p, <<"refresh">>)) /\ offered' = [offered EXCEPT ![r] = "reconciling"]
    /\ UNCHANGED <<rows, docker, late, boot, lifecycle, offering, queue, memo, budget>>

\* The row is read again under ownership; the listed one may be old.
Refresh(p) ==
    LET r == proc[p].run IN
    /\ At(p, "refresh")
    /\ Read(p, [Reconcile(p, r, rows[r]) EXCEPT !.seen = NoRow], Do(p, Abandon))

\* Close cancels the context of a reconciliation under way.
Interrupt ==
    /\ up = "closing" /\ proc["reconciler"].run # NoRun /\ proc["reconciler"].plan # Abandon
    /\ Become("reconciler", Do("reconciler", Abandon))
    /\ UNCHANGED <<rows, docker, late, boot, lifecycle, offers, memo, budget>>

-----------------------------------------------------------------------------
(* Process lifecycle *)

Left == {r \in Runs : Unreconciled(rows[r])}

\* New: one pass over every unreconciled Run, then the sweep of what is left
\* at the daemon.  An error anywhere, and sandboxd does not start.
Start ==
    /\ up = "down"
    /\ up' = "startup" /\ todo' = Left /\ failed' = FALSE
    /\ UNCHANGED <<rows, docker, late, boot, offers, memo, proc, budget>>

ReconcilePass(r) ==
    /\ up \in {"startup", "final"} /\ proc["reconciler"] = Idle
    /\ r \in todo
    /\ Become("reconciler", [Reconcile("reconciler", r, rows[r]) EXCEPT !.run = r])
    /\ UNCHANGED <<rows, docker, late, boot, lifecycle, offers, memo, budget>>

PassDone == todo = {} /\ \A p \in Procs : proc[p] = Idle

\* The process is gone, and with it everything it only remembered.
Exit ==
    /\ up' = "down" /\ todo' = {} /\ failed' = FALSE
    /\ offering' = {} /\ queue' = <<>> /\ offered' = [r \in Runs |-> "none"]
    /\ memo' = [r \in Runs |-> NoMemo] /\ proc' = [p \in Procs |-> Idle]

ReconcileManaged ==
    /\ up = "startup" /\ PassDone /\ ~failed
    /\ \/ /\ NoFault /\ up' = "up"
          /\ container' = [r \in Runs |-> "none"]
          /\ UNCHANGED <<todo, failed, offers, memo, proc>>
       \/ Fault /\ Exit /\ UNCHANGED container
    /\ UNCHANGED <<rows, flight, starts, late, boot, crashes>>

StartupFails ==
    /\ up = "startup" /\ PassDone /\ failed
    /\ Exit
    /\ UNCHANGED <<rows, docker, late, boot, budget>>

\* BeginClose and Close: no new starts, contexts cancelled, goroutines waited
\* for, one final pass, exit.
BeginClose ==
    /\ up = "up" /\ crashes < MaxCrashes
    /\ crashes' = crashes + 1
    /\ up' = "closing"
    /\ UNCHANGED <<rows, docker, late, boot, todo, failed, offers, memo, proc, faults>>

StopWorker ==
    /\ up = "closing" /\ At("worker", "dequeue")
    /\ Become("worker", Idle)
    /\ UNCHANGED <<rows, docker, late, boot, lifecycle, offers, memo, budget>>

FinalPass ==
    /\ up = "closing" /\ offering = {} /\ PassDone
    /\ up' = "final" /\ todo' = Left /\ failed' = FALSE
    /\ UNCHANGED <<rows, docker, late, boot, offers, memo, proc, budget>>

Close ==
    /\ up = "final" /\ PassDone
    /\ Exit
    /\ UNCHANGED <<rows, docker, late, boot, budget>>

Crash ==
    /\ up # "down" /\ crashes < MaxCrashes
    /\ crashes' = crashes + 1
    /\ Exit
    /\ UNCHANGED <<rows, docker, late, boot, faults>>

-----------------------------------------------------------------------------
(* The daemon, the clock and the host *)

\* A Create in flight lands, or fails at the daemon.
Land(r) ==
    /\ flight[r]
    /\ flight' = [flight EXCEPT ![r] = FALSE]
    /\ \/ container' = [container EXCEPT ![r] = "stopped"] /\ NoFault
       \/ UNCHANGED container /\ Fault
    /\ UNCHANGED <<rows, starts, late, boot, lifecycle, offers, memo, proc, crashes>>

Expire(r) ==
    /\ r \in Expiring /\ rows[r].state \in Active /\ ~late[r]
    /\ late' = [late EXCEPT ![r] = TRUE]
    /\ UNCHANGED <<rows, docker, boot, lifecycle, offers, memo, proc, budget>>

Reboot ==
    /\ boot < MaxBoots /\ crashes < MaxCrashes
    /\ boot' = boot + 1 /\ crashes' = crashes + 1
    /\ flight' = [r \in Runs |-> FALSE]
    /\ container' = [r \in Runs |-> IF container[r] = "running" THEN "stopped" ELSE container[r]]
    /\ Exit
    /\ UNCHANGED <<rows, starts, late, faults>>

-----------------------------------------------------------------------------
Api == \E r \in Runs : StartRun(r) \/ Enqueue(r) \/ CancelRun(r)

Execute == \E p \in {"worker"} :
    \/ Load(p) \/ Begin(p) \/ Recheck(p) \/ Create(p) \/ Await(p) \/ Bind(p) \/ Attach(p)
    \/ BridgeStarted(p) \/ BridgeOutcome(p) \/ BridgeReturns(p) \/ Settle(p)

Wind(p) ==
    \/ Remember(p) \/ Prove(p) \/ Forget(p) \/ Finish(p) \/ FinishCreate(p) \/ ClearProved(p)
    \/ Commit(p) \/ Stage(p) \/ Cleanup(p) \/ Lookup(p) \/ Clear(p) \/ Confirm(p) \/ Done(p)

Reconciler ==
    \/ \E r \in Runs : List(r) \/ ReconcilePass(r)
    \/ ClaimReconciliation("reconciler") \/ Refresh("reconciler")

Lifecycle ==
    \/ Start \/ ReconcileManaged \/ StartupFails \/ BeginClose \/ Interrupt \/ StopWorker
    \/ FinalPass \/ Close \/ Crash

Environment == Reboot \/ \E r \in Runs : Land(r) \/ Expire(r)

Next ==
    \/ Api \/ WaitForQuiescence \/ ExecuteOffer \/ Execute
    \/ \E p \in Procs : Wind(p)
    \/ Reconciler \/ Lifecycle \/ Environment

Spec == Init /\ [][Next]_vars

-----------------------------------------------------------------------------
(* Properties *)

\* The worker and the reconciler never work on the same Run.
OneOwner ==
    \A r \in Runs :
        ~(/\ proc["worker"].run = r
          /\ proc["reconciler"].run = r
          /\ proc["reconciler"].plan \notin {<<"claim">>, <<>>, Abandon})

\* The workspace of a Run that may write it stays locked while its container
\* exists or may still appear: ConfirmRuntimeStopped is all that unlocks it.
WriterKeepsWorkspace ==
    \A r \in Writable : flight[r] \/ container[r] # "none" => rows[r].lock

\* A retained proof that no Create was sent is never wrong, though its Run may be
\* offered again, and a second attempt at it begun, while the proof is kept for what
\* failed after it.
ProofIsTrue ==
    \A r \in Runs : memo[r].kind \in {"predispatch", "certain"} =>
        ~flight[r] /\ container[r] = "none"

-----------------------------------------------------------------------------
(* Liveness, while sandboxd stays up: both goroutines keep making progress, *)
(* the daemon answers, deadlines pass.                                      *)

Fairness ==
    /\ WF_vars(WaitForQuiescence) /\ WF_vars(ExecuteOffer) /\ WF_vars(Execute)
    /\ \A p \in Procs : WF_vars(Wind(p))
    /\ WF_vars(Reconciler)
    /\ WF_vars(\E r \in Runs : Land(r)) /\ WF_vars(\E r \in Runs : Expire(r))
    /\ WF_vars(ReconcileManaged) /\ WF_vars(StartupFails)

FairSpec == Spec /\ Fairness

Unresolved(r) == rows[r].intent = boot /\ rows[r].staged = "interrupted"

\* Every registered Run is published in the end, unless its Create is
\* unresolved in this host boot (then only a reboot can tell) or sandboxd
\* stops.
EventuallyPublished ==
    \A r \in Runs : rows[r].state \in Active ~>
        (Published(rows[r]) \/ Unresolved(r) \/ up \notin {"up", "startup"})
=============================================================================
