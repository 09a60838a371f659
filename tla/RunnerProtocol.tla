--------------------------- MODULE RunnerProtocol ---------------------------
(***************************************************************************)
(* One Run from the moment its container is attached to the moment its     *)
(* outcome is public: the program in the container writes HRP/1 frames to   *)
(* a byte-bounded pipe, the bridge reads, checks and translates them, the   *)
(* store appends the events and stages the outcome, and the controller      *)
(* removes the container before the staged outcome is published.           *)
(*                                                                         *)
(* The program is the Codex adapter with its child process, the mock        *)
(* runner, or an image about which nothing is assumed.  A call that fails,  *)
(* or commits and loses its answer, is a fault; there are at most MaxFaults.*)
(* Crashes of the daemon are the subject of SandboxController.             *)
(***************************************************************************)
EXTENDS Integers, Sequences

CONSTANTS
    MaxEvents,   \* executionwire.MaxEvents = runnerwire.MaxEvents: 512
    Targets,     \* the target manifests and requests that are tried
    Programs,    \* which programs may run in the container
    MaxAhead,    \* bound on the frames written and not yet read
    MaxFaults    \* bound on failed or unanswered calls

\* A target: its session mode, its event limit (manifest.go accepts 1..MaxEvents), the
\* features it requires, and the request made of it.
ASSUME RunnerAssumption ==
    /\ MaxEvents \in Nat /\ MaxEvents >= 3 /\ MaxAhead \in Nat /\ MaxFaults \in Nat
    /\ Programs \subseteq {"codex", "mock", "untrusted"}
    /\ \A t \in Targets :
         /\ t.mode \in {"new_only", "opaque_resume"} /\ t.limit \in 1..MaxEvents
         /\ t.required \subseteq {"progress", "resume"}
         /\ t.request \in {"new", "resume", "oversized"}

VARIABLES
    target,      \* the target revision of the Run
    runner,      \* the program in the container and where it is
    child,       \* the Codex CLI the adapter starts
    container,   \* running, exited or gone
    said,        \* the frames written to stdout and not yet read
    heard,       \* the types of those the bridge has read, in order
    pipes,       \* what became of the three pipes
    late,        \* the deadline of the request has passed
    ctx,         \* the context the bridge runs under
    bridge,      \* the bridge and its Sequence
    row,         \* the Run in the sandbox store
    ctl,         \* the controller's plan for the Run
    faults

program == <<runner, child, container>>
stdio == <<said, heard, pipes>>
clocks == <<late, ctx>>
vars == <<target, program, stdio, clocks, bridge, row, ctl, faults>>

Outcomes == {"completed", "failed", "cancelled", "interrupted"}
\* A frame.  What Validate and DecodeFrame reject whatever the state is "garbage"; a ready frame of
\* another adapter is "impostor"; over is a text above the target's byte limit.
Frame(type, seq, token, over, offers) ==
    [type |-> type, seq |-> seq, token |-> token, over |-> over, offers |-> offers]

Ready(offers) == Frame("ready", 0, FALSE, FALSE, offers)

Event(type, seq) == Frame(type, seq, FALSE, FALSE, {})

Terminal(type) == type \in {"completed", "failed", "cancelled", "interrupted"}

\* The frames an image can write about event n: in or out of turn, within or above the limits.
Frames(n) ==
    {Ready({}), Ready({"progress", "resume"}), Frame("impostor", 0, FALSE, FALSE, {}), Frame("garbage", 0, FALSE, FALSE, {})}
    \cup {Event(t, s) : t \in {"started", "failed", "cancelled"}, s \in (n - 1)..(n + 1) \cap 1..MaxEvents}
    \cup {Frame("completed", n, token, over, {}) : token \in BOOLEAN, over \in BOOLEAN}
    \cup {Frame("progress", n, FALSE, over, {}) : over \in BOOLEAN}

NoOutcome == [type |-> "none", code |-> "none", token |-> FALSE]

Outcome(type, code) == [type |-> type, code |-> code, token |-> FALSE]

Quiet == [start |-> FALSE, flooded |-> "no", diagnostics |-> FALSE]

NewBridge == [pc |-> "start", last |-> 0, offers |-> {}, hold |-> Ready({}), class |-> "none"]

Init ==
    /\ target \in Targets
    /\ runner \in [program : Programs, pc : {"boot"}, termed : {FALSE}]
    /\ child = [state |-> "none", over |-> FALSE, file |-> "none"]
    /\ container = "running"
    /\ said = <<>> /\ heard = <<>>
    /\ pipes = Quiet
    /\ late = FALSE /\ ctx = "live"
    /\ bridge = NewBridge
    /\ row = [state |-> "accepted", events |-> <<>>, staged |-> NoOutcome]
    /\ ctl = [pc |-> "bridge", who |-> "worker", spec |-> NoOutcome]
    /\ faults = 0

Fault == faults < MaxFaults /\ faults' = faults + 1

NoFault == UNCHANGED faults

-----------------------------------------------------------------------------
(* The pipes *)

\* The pump takes a frame as soon as it is written; once the bridge has returned nobody reads it.
Say(f) ==
    /\ container = "running" /\ pipes.flooded = "no" /\ Len(said) < MaxAhead
    /\ said' = IF bridge.pc = "returned" THEN said ELSE Append(said, f)
    /\ UNCHANGED <<heard, pipes>>

\* Stdout passes its byte limit: the pump stops there, between two lines or within one.
Flood ==
    /\ runner.program = "untrusted" /\ container = "running" /\ pipes.flooded = "no"
    /\ bridge.pc # "returned"
    /\ \E where \in {"between", "within"} : pipes' = [pipes EXCEPT !.flooded = where]
    /\ UNCHANGED <<target, program, said, heard, clocks, bridge, row, ctl, faults>>

\* Stderr passes its byte limit: the drain reports it and cancels the bridge.
FloodDiagnostics ==
    /\ runner.program = "untrusted" /\ container = "running" /\ ~pipes.diagnostics
    /\ bridge.pc # "returned"
    /\ pipes' = [pipes EXCEPT !.diagnostics = TRUE]
    /\ ctx' = IF ctx = "live" THEN "cancelled" ELSE ctx
    /\ UNCHANGED <<target, program, said, heard, late, bridge, row, ctl, faults>>

StreamEnds == said = <<>> /\ (pipes.flooded # "no" \/ container # "running")

-----------------------------------------------------------------------------
(* The programs *)

AtRunner(p, pc) == runner.program = p /\ runner.pc = pc /\ container = "running"

Goto(pc) == runner' = [runner EXCEPT !.pc = pc]

\* How many frames were written: the ready frame has number 0.
Written == Len(heard) + Len(said)

ProgramOnly == UNCHANGED <<target, container, clocks, bridge, row, ctl, faults>>

\* The adapter's own context: SIGTERM, its deadline, or a diagnostic limit its child passed.
AdapterStopped == runner.termed \/ late \/ child.over

AdapterReady ==
    /\ AtRunner("codex", "boot") /\ Say(Ready({})) /\ Goto("await")
    /\ ProgramOnly /\ UNCHANGED child

\* A syntactically valid start is accepted into the lifecycle before anything else is decided.
\* The refusal of a session to resume that follows is left out: the bridge sends no such start
\* to a new-only target, and a target that resumes requires a feature the adapter lacks.
AdapterAccepts ==
    /\ AtRunner("codex", "await") /\ pipes.start /\ Say(Event("started", 1))
    /\ Goto("prepare")
    /\ ProgramOnly /\ UNCHANGED child

\* Directories and files are prepared and the child is started; each can fail.
AdapterPrepares ==
    /\ AtRunner("codex", "prepare") /\ ProgramOnly
    /\ \/ /\ AdapterStopped /\ Say(Event("cancelled", 2)) /\ Goto("done") /\ UNCHANGED child
       \/ /\ ~AdapterStopped /\ Say(Event("failed", 2)) /\ Goto("done") /\ UNCHANGED child
       \/ /\ ~AdapterStopped /\ child' = [child EXCEPT !.state = "running"]
          /\ Goto("wait") /\ UNCHANGED stdio

ChildFloods ==
    /\ AtRunner("codex", "wait") /\ child.state = "running" /\ ~child.over
    /\ child' = [child EXCEPT !.over = TRUE]
    /\ ProgramOnly /\ UNCHANGED <<runner, stdio>>

\* The child exits, on its own or after TERM.  Its final message cannot be read or is above the
\* protocol's limit, is above the target's, which the adapter does not know, or fits.
ChildExits ==
    /\ AtRunner("codex", "wait") /\ child.state = "running"
    /\ \E s \in {"ok", "bad"}, file \in {"none", "long", "fits"} : child' = [child EXCEPT !.state = s, !.file = file]
    /\ ProgramOnly /\ UNCHANGED <<runner, stdio>>

\* TERM, and KILL after the grace, to the child's process group.
ChildKilled ==
    /\ AtRunner("codex", "wait") /\ child.state = "running" /\ AdapterStopped
    /\ child' = [child EXCEPT !.state = "bad"]
    /\ ProgramOnly /\ UNCHANGED <<runner, stdio>>

\* Mutant: the verdict numbers its events from the child's start.
VerdictFromOne ==
    IF child.state = "ok" /\ child.file # "none" THEN Event("completed", 1) ELSE Event("failed", 2)

\* A diagnostic overrun is worse than a stop, and a stop explains a failed child.
Verdict ==
    CASE child.over -> Event("failed", 2)
      [] ~child.over /\ AdapterStopped -> Event("cancelled", 2)
      [] ~child.over /\ ~AdapterStopped /\ child.state = "ok" /\ child.file # "none" ->
            Frame("completed", 2, FALSE, child.file = "long", {})
      [] OTHER -> Event("failed", 2)

AdapterReports ==
    /\ AtRunner("codex", "wait") /\ child.state \in {"ok", "bad"}
    /\ Say(Verdict) /\ Goto("done")
    /\ ProgramOnly /\ UNCHANGED child

MockReady ==
    /\ AtRunner("mock", "boot") /\ Goto("await")
    /\ Say(Ready({"progress"} \cup (IF target.mode = "opaque_resume" THEN {"resume"} ELSE {})))
    /\ ProgramOnly /\ UNCHANGED child

\* started, progress, and completed with a successor token where sessions resume.
MockWorks ==
    /\ runner.program = "mock" /\ runner.pc \in {"await", "work"} /\ pipes.start
    /\ LET n == Written IN
         /\ Say(CASE n = 1 -> Event("started", 1)
                  [] n = 2 -> Event("progress", 2)
                  [] OTHER -> Frame("completed", 3, target.mode = "opaque_resume", FALSE, {}))
         /\ Goto(IF n >= 3 THEN "done" ELSE "work")
    /\ ProgramOnly /\ UNCHANGED child

\* An image about which nothing is assumed writes what it likes.
ImageWrites ==
    /\ runner.program = "untrusted" /\ bridge.pc # "returned"
    /\ \E f \in Frames(Written) : Say(f)
    /\ ProgramOnly /\ UNCHANGED <<runner, child>>

Leaves == IF child.state = "running" THEN [child EXCEPT !.state = "bad"] ELSE child

\* The main process ends; an image may end at any time, and so may a program that is killed.
ProgramExits ==
    /\ container = "running"
    /\ \/ (runner.pc = "done" \/ runner.program = "untrusted") /\ NoFault
       \/ runner.pc # "done" /\ Fault
    /\ container' = "exited" /\ child' = Leaves
    /\ UNCHANGED <<target, runner, stdio, clocks, bridge, row, ctl>>

-----------------------------------------------------------------------------
(* The store *)

Decided(r) == r.staged.type # "none" \/ r.state \in Outcomes

\* Mutant: only the end of the Run changes its state.
NextStateAtEnd(state, type) == IF Terminal(type) THEN type ELSE state

\* transition: what an event makes of the state.
NextState(state, type) ==
    CASE type = "started" -> "running"
      [] type = "progress" -> state
      [] OTHER -> type

Transition(state, type) ==
    CASE type = "started" -> state = "accepted"
      [] type \in {"progress", "completed"} -> state \in {"running", "cancelling"}
      [] OTHER -> state \in {"accepted", "running", "cancelling"}

\* Mutant: the last slot is not kept for the terminal event.
AnySlot(type, seq) == seq <= MaxEvents

\* An event that does not end the Run leaves room for one that does.
FitsHistory(type, seq) == seq <= MaxEvents /\ (Terminal(type) \/ seq < MaxEvents)

\* A completion binds a successor session exactly where the target resumes sessions.
SessionFits(f) == f.type = "completed" => f.token = (target.mode = "opaque_resume")

Valid(f) ==
    /\ f.seq = Len(row.events) + 1 /\ FitsHistory(f.type, f.seq)
    /\ Transition(row.state, f.type) /\ SessionFits(f)

\* AppendEvent for started and progress, StageTerminal for the rest: the sink chooses.
Appended(f) ==
    IF Terminal(f.type)
      THEN [row EXCEPT !.staged = [type |-> f.type, token |-> f.token,
                                   code |-> IF f.type = "failed" THEN "runner" ELSE "none"]]
      ELSE [row EXCEPT !.events = Append(@, f.type), !.state = NextState(@, f.type)]

\* The first durable terminal decision wins over a cancellation.
Cancellable == ~Decided(row) /\ row.state \in {"accepted", "running"}

\* MarkCancelling, before the worker's context is cancelled.
MarkCancelling ==
    /\ Cancellable /\ row' = [row EXCEPT !.state = "cancelling"]
    /\ UNCHANGED <<target, program, stdio, clocks, bridge, ctl, faults>>

CancelContext ==
    /\ row.state = "cancelling" /\ ctx = "live" /\ bridge.pc # "returned" /\ ctx' = "cancelled"
    /\ UNCHANGED <<target, program, stdio, late, bridge, row, ctl, faults>>

\* The deadline of the request passes: the adapter's timer and the bridge's are not the same.
DeadlinePasses ==
    /\ ~late /\ ctl.pc = "bridge" /\ late' = TRUE
    /\ UNCHANGED <<target, program, stdio, ctx, bridge, row, ctl, faults>>

\* The bridge's timer: the deadline of the request, or the manifest's timeout before it.
ContextExpires ==
    /\ ctx = "live" /\ bridge.pc # "returned" /\ ctx' = "expired"
    /\ UNCHANGED <<target, program, stdio, late, bridge, row, ctl, faults>>

-----------------------------------------------------------------------------
(* The bridge *)

BridgeOnly == UNCHANGED <<target, program, clocks, ctl>>

Return(class) == [bridge EXCEPT !.pc = "returned", !.class = class]

\* What a call made under the context returns once the context is done.
OrContext(b) == IF ctx = "live" THEN b ELSE Return(ctx)

\* Requests the target does not take are denied before anything is read.
BridgeStarts ==
    /\ bridge.pc = "start"
    /\ bridge' = IF target.request = "oversized" \/ (target.request = "resume" /\ target.mode = "new_only")
                   THEN Return("denied")
                   ELSE OrContext([bridge EXCEPT !.pc = "ready"])
    /\ BridgeOnly /\ UNCHANGED <<stdio, row, faults>>

Take ==
    /\ said # <<>> /\ said' = Tail(said)
    /\ heard' = Append(heard, Head(said).type) /\ UNCHANGED pipes

\* DecodeFrame: one known frame, valid by itself, of this protocol version.
Decodes(f) == f.type # "garbage"

BridgeReadsReady ==
    /\ bridge.pc = "ready" /\ Take
    /\ LET f == Head(said) IN
         bridge' = IF Decodes(f) /\ f.type = "ready" /\ target.required \subseteq f.offers
                     THEN OrContext([bridge EXCEPT !.pc = "send", !.offers = f.offers])
                     ELSE [Return("protocol") EXCEPT !.hold = f]
    /\ BridgeOnly /\ UNCHANGED <<row, faults>>

\* run.start is the only frame to the program; its pipe is closed behind it.
BridgeSends ==
    /\ bridge.pc = "send"
    /\ IF ctx = "live" /\ container = "running"
         THEN pipes' = [pipes EXCEPT !.start = TRUE] /\ bridge' = [bridge EXCEPT !.pc = "reading"]
         ELSE bridge' = OrContext(Return("runner")) /\ UNCHANGED pipes
    /\ BridgeOnly /\ UNCHANGED <<said, heard, row, faults>>

\* Sequence.Accept: started once and first, contiguous, nothing after a terminal event.
InSequence(f) ==
    /\ f.seq = bridge.last + 1
    /\ (f.type = "started") = (bridge.last = 0)

\* The manifest's event limit, before the sequence is looked at.
OverEvents(f) == f.seq > target.limit

\* Why a frame is refused after start, or "none".
Refusal(f) ==
    CASE ~Decodes(f) \/ f.type \in {"ready", "impostor"} -> "protocol"
      [] OverEvents(f) -> "limit"
      [] ~OverEvents(f) /\ f.seq > 0 /\ ~InSequence(f) -> "protocol"
      [] OTHER ->
           IF f.type = "progress" /\ "progress" \notin bridge.offers THEN "protocol"
           ELSE IF f.over THEN "limit"
           ELSE IF f.type = "completed" /\ f.token /\ target.mode = "new_only" THEN "denied"
           ELSE IF f.type = "completed" /\ ~f.token /\ target.mode = "opaque_resume" THEN "protocol"
           ELSE "none"

\* A refused frame is fatal for the stream: nothing resynchronises.
Refused(f, class) == [Return(class) EXCEPT !.hold = f]

BridgeReads ==
    /\ bridge.pc = "reading" /\ Take
    /\ LET f == Head(said)
           class == Refusal(f) IN
         bridge' = IF class = "none" THEN [bridge EXCEPT !.pc = "emit", !.hold = f, !.last = f.seq]
                                     ELSE Refused(f, class)
    /\ BridgeOnly /\ UNCHANGED <<row, faults>>

\* The stream ends first: EOF, a line that was cut, or the byte limit between two lines.
BridgeReadsEnd ==
    /\ bridge.pc \in {"ready", "reading"} /\ StreamEnds
    /\ bridge' = OrContext(Return(IF pipes.flooded = "between" THEN "limit" ELSE "ended"))
    /\ BridgeOnly /\ UNCHANGED <<stdio, row, faults>>

BridgeInterrupted ==
    /\ bridge.pc \in {"ready", "reading", "emit"} /\ ctx # "live"
    /\ bridge' = Return(ctx)
    /\ BridgeOnly /\ UNCHANGED <<stdio, row, faults>>

\* The sink commits the event; a lost answer is an error although the event stands.
BridgeEmits ==
    /\ bridge.pc = "emit" /\ ctx = "live"
    /\ LET f == bridge.hold
           ok == ~Decided(row) /\ Valid(f) IN
         \/ /\ ok /\ row' = Appended(f) /\ NoFault
            /\ bridge' = IF Terminal(f.type) THEN Return("none") ELSE [bridge EXCEPT !.pc = "reading"]
         \/ /\ ~ok /\ UNCHANGED <<row, faults>> /\ bridge' = Return("internal")
         \/ /\ Fault /\ bridge' = Return("internal")
            /\ row' \in {row} \cup (IF ok THEN {Appended(f)} ELSE {})
    /\ BridgeOnly /\ UNCHANGED stdio

-----------------------------------------------------------------------------
(* The controller, after the bridge *)

CtlOnly == UNCHANGED <<target, stdio, clocks, bridge>>

CtlTo(pc) == ctl' = [ctl EXCEPT !.pc = pc]

\* Mutant: a pass that failed is not taken up again.
AbandonForGood == CtlTo("done")

\* What a pass could not finish is left to the next one.
Abandon == ctl' = [ctl EXCEPT !.pc = "reconcile", !.who = "reconciler"]

\* The worker goes on to cleanup when its commit fails; the reconciler gives the pass up.
CommitFails == IF ctl.who = "worker" THEN CtlTo("stop") ELSE Abandon

\* The drain's error goes before the bridge's.  The drain is still reading when its pipe is closed under
\* it, and whether its complaint about that arrives before the result is polled is a race.
Causes == IF pipes.diagnostics THEN {"limit"} ELSE {bridge.class, "closed"}

\* Mutant: a cancelled or expired context is taken for a limit.
ContextIsLimit(cause) ==
    CASE row.state = "cancelling" -> Outcome("cancelled", "none")
      [] row.state # "cancelling" /\ cause \in {"cancelled", "expired"} -> Outcome("failed", "limit")
      [] OTHER -> Outcome("failed", "internal")

\* A cancellation explains a failure, and then the deadline does.
ClassifyFailure(cause) ==
    CASE row.state = "cancelling" -> Outcome("cancelled", "none")
      [] row.state # "cancelling" /\ (late \/ cause = "expired") -> Outcome("failed", "deadline")
      [] OTHER ->
           IF cause = "cancelled" THEN Outcome("interrupted", "none")
           ELSE IF cause = "ended" THEN Outcome("failed", "protocol")
           ELSE IF cause = "closed" THEN Outcome("failed", "internal")
           ELSE Outcome("failed", cause)

\* The bridge returned and the pipes are closed.  Without a decision the failure is classified
\* and remembered.
Settle ==
    /\ ctl.pc = "bridge" /\ bridge.pc = "returned"
    /\ \/ /\ NoFault
          /\ IF Decided(row) THEN CtlTo("stop")
             ELSE \E cause \in Causes :
                    ctl' = [ctl EXCEPT !.pc = "commit", !.spec = ClassifyFailure(cause)]
       \/ Fault /\ CtlTo("stop")
    /\ said' = <<>> /\ pipes' = Quiet /\ bridge' = [NewBridge EXCEPT !.pc = "returned"]
    /\ UNCHANGED <<target, program, heard, clocks, row>>

\* commitTerminal reads the row: a decision stands, and a cancellation goes first.
Commit ==
    /\ ctl.pc = "commit" /\ CtlOnly
    /\ \/ /\ NoFault
          /\ IF Decided(row) THEN CtlTo("stop")
             ELSE ctl' = [ctl EXCEPT !.pc = "stage",
                            !.spec = IF row.state = "cancelling" THEN Outcome("cancelled", "none") ELSE @]
       \/ Fault /\ CommitFails
    /\ UNCHANGED <<program, row>>

\* StageTerminal at the next sequence number.
Stage ==
    /\ ctl.pc = "stage" /\ CtlOnly
    /\ LET ok == ~Decided(row) /\ FitsHistory(ctl.spec.type, Len(row.events) + 1)
           staged == [row EXCEPT !.staged = ctl.spec] IN
         \/ ok /\ row' = staged /\ NoFault /\ CtlTo("stop")
         \/ ~ok /\ UNCHANGED row /\ NoFault /\ CommitFails
         \/ Fault /\ CommitFails /\ row' \in {row} \cup (IF ok THEN {staged} ELSE {})
    /\ UNCHANGED program

\* Stop: SIGTERM reaches the program, which may go, or finish on its own first.
Stop ==
    /\ ctl.pc = "stop" /\ CtlOnly
    /\ \/ container = "gone" /\ CtlTo("confirm") /\ NoFault /\ UNCHANGED program
       \/ container = "exited" /\ CtlTo("remove") /\ NoFault /\ UNCHANGED program
       \/ container = "running" /\ CtlTo("kill") /\ NoFault
          /\ runner' = [runner EXCEPT !.termed = TRUE]
          /\ \/ container' = "exited" /\ child' = Leaves
             \/ UNCHANGED <<container, child>>
       \/ Fault /\ Abandon /\ UNCHANGED program
    /\ UNCHANGED row

\* Still active after the grace: Kill, and look again.
Kill ==
    /\ ctl.pc = "kill" /\ CtlOnly
    /\ \/ NoFault /\ CtlTo("remove") /\ container' = "exited" /\ child' = Leaves /\ UNCHANGED runner
       \/ Fault /\ Abandon /\ UNCHANGED program
    /\ UNCHANGED row

\* RemoveStopped.  A removal whose answer is lost is seen by the inspection that follows.
Remove ==
    /\ ctl.pc = "remove" /\ CtlOnly
    /\ \/ NoFault /\ CtlTo("confirm") /\ container' = "gone" /\ UNCHANGED <<runner, child>>
       \/ Fault /\ Abandon /\ UNCHANGED program
    /\ UNCHANGED row

\* The candidate becomes the last event and the state, and is retired.
Published ==
    [row EXCEPT !.events = Append(@, row.staged.type), !.state = row.staged.type, !.staged = NoOutcome]

\* ConfirmRuntimeStopped: publishes what was staged, and is idempotent afterwards.
Confirm ==
    /\ ctl.pc = "confirm" /\ CtlOnly
    /\ \/ ~Decided(row) /\ NoFault /\ Abandon /\ UNCHANGED row
       \/ Decided(row) /\ NoFault /\ CtlTo("done")
          /\ row' = IF row.staged.type # "none" THEN Published ELSE row
       \/ Decided(row) /\ Fault /\ Abandon
          /\ row' \in {row, IF row.staged.type # "none" THEN Published ELSE row}
    /\ UNCHANGED program

\* The reconciler takes the Run up: what was remembered, or interrupted.
ReconcileRun ==
    /\ ctl.pc = "reconcile" /\ CtlOnly /\ NoFault
    /\ ctl' = IF Decided(row) THEN [ctl EXCEPT !.pc = "stop"]
              ELSE [ctl EXCEPT !.pc = "commit",
                      !.spec = IF @.type = "none" THEN Outcome("interrupted", "none") ELSE @]
    /\ UNCHANGED <<program, row>>

-----------------------------------------------------------------------------
Adapter ==
    \/ AdapterReady \/ AdapterAccepts \/ AdapterPrepares
    \/ ChildFloods \/ ChildExits \/ ChildKilled \/ AdapterReports

Program == Adapter \/ MockReady \/ MockWorks \/ ImageWrites \/ Flood \/ FloodDiagnostics \/ ProgramExits

Bridge ==
    \/ BridgeStarts \/ BridgeReadsReady \/ BridgeSends \/ BridgeReads \/ BridgeReadsEnd
    \/ BridgeInterrupted \/ BridgeEmits

Controller == Settle \/ Commit \/ Stage \/ Stop \/ Kill \/ Remove \/ Confirm \/ ReconcileRun

Environment == MarkCancelling \/ CancelContext \/ DeadlinePasses \/ ContextExpires

Next == Program \/ Bridge \/ Controller \/ Environment

Spec == Init /\ [][Next]_vars

\* The worker and the reconciler are running goroutines and the bridge's timer fires; nothing is
\* asked of the program.
FairSpec == Spec /\ WF_vars(Bridge) /\ WF_vars(Controller) /\ WF_vars(ContextExpires)

-----------------------------------------------------------------------------
(* Properties *)

\* Whatever the program wrote and whenever it was cancelled, stopped or retried, the snapshot
\* GetSnapshot assembles passes GetRunResponse.Validate, so agentd can always read the Run.
SnapshotAlwaysValid ==
    LET final == row.events[Len(row.events)] IN
    IF row.events = <<>>
      THEN row.state \in {"accepted", "cancelling"}
      ELSE CASE row.state \in {"running", "cancelling"} -> final \in {"started", "progress"}
             [] row.state \in Outcomes -> final = row.state
             [] OTHER -> FALSE

\* However many events a program writes, and whatever event limit its target allows, a Run without an
\* outcome has room in its history for one.
RoomForTheOutcome == ~Decided(row) => Len(row.events) < MaxEvents

\* Whether the frame read last, the pipes and the clocks bear a failure code out.
Deserved(code) ==
    LET f == bridge.hold
        n == Len(heard) - 1
        broken == \/ f.type \in {"impostor", "garbage"}
                  \/ (f.type = "ready") # (n = 0)
                  \/ n = 0 /\ ~(target.required \subseteq f.offers)
                  \/ n > 0 /\ (f.seq # n \/ (f.type = "started") # (n = 1))
                  \/ f.type = "progress" /\ "progress" \notin bridge.offers
                  \/ f.type = "completed" /\ ~f.token /\ target.mode = "opaque_resume"
        over == pipes.flooded # "no" \/ pipes.diagnostics \/ f.over \/ f.seq > target.limit
    IN CASE code = "deadline" -> late \/ ctx = "expired"
         [] code = "limit" -> over
         [] code = "protocol" -> broken \/ over \/ container # "running"
         [] OTHER -> TRUE

\* A failure blames the cause that happened: the deadline only when a deadline passed, a limit only
\* when the program went over one, the protocol only when the stream was broken or ended early.
BlameFits == [][ctl.pc = "bridge" => Deserved(ctl'.spec.code)]_vars

\* The runners of this repository never break the protocol, and never pass the event limit of a
\* target that leaves them room, however they are stopped or cut short.  The one frame the bridge
\* refuses of theirs is the adapter's last: the final message of a child that ended well, when it is
\* longer than the target allows.
OurRunnersConform ==
    runner.program # "untrusted" /\ bridge.pc = "returned" =>
        /\ bridge.class # "protocol"
        /\ bridge.class = "limit" =>
              /\ runner.program = "codex" /\ child = [state |-> "ok", over |-> FALSE, file |-> "long"]
              /\ bridge.hold.type = "completed" /\ bridge.hold.over

\* A silent, endless or stubborn program does not keep a Run open.
EveryRunEnds == <>(row.state \in Outcomes)

\* TestEveryBridgeFailureClassMapsToFixedRedactedTerminal: a bridge that returns a protocol violation
\* fails the Run with protocol_violation, unless a cancellation, the deadline or the diagnostics explain
\* more.
ProtocolViolationIsNamed ==
    [][ctl.pc = "bridge" /\ ctl'.pc = "commit" /\ bridge.class = "protocol" =>
         \/ row.state = "cancelling" \/ late \/ pipes.diagnostics
         \/ ctl'.spec = Outcome("failed", "protocol")]_vars

=============================================================================
