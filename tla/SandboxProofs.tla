---------------------------- MODULE SandboxProofs -----------------------------
(***************************************************************************)
(* The inductive invariant of SandboxController, and what the proofs of    *)
(* its steps have in common: which plans are sound, what is known when a   *)
(* call is made, and what a transaction may do to a row. The handlers of   *)
(* the API and the wait for quiescence are the first steps proved with it. *)
(*                                                                         *)
(* OneOwner, WriterKeepsWorkspace, ProofIsTrue and the refinement of       *)
(* RuntimeAuthority are not inductive. Whether a call of a goroutine is    *)
(* safe depends on the calls that came before it, and the database, the    *)
(* daemon, the memos and the other goroutine may have moved on since. IInv *)
(* therefore relates the row of every Run to what the daemon has of it     *)
(* (RowFits), every memo to the daemon (MemoFits), the calls a goroutine   *)
(* still has to make to all of them (Sound), and the worker's next call to *)
(* the database (Standing).                                                *)
(***************************************************************************)
EXTENDS SandboxController, TLAPS

\* The calls that a plan may hold: the steps of execute, of the reconciler, and of
\* the ways a Run is brought to its end.
Ops == {"failed", "dequeue", "load", "begin", "recheck", "create", "await", "bind", "attach",
        "bridge", "stream", "settle", "remember", "prove", "forget", "finish", "finishCreate",
        "clearProved", "commit", "stage", "cleanup", "lookup", "clear", "confirm", "claim", "refresh"}

\* The calls a goroutine makes one at a time, choosing the next when it is done.
Stations == {"dequeue", "load", "begin", "recheck", "create", "await", "bind", "attach",
             "bridge", "stream", "settle", "claim", "refresh"}

\* The calls that need an outcome.
Deciding == {"commit", "stage", "remember", "prove", "finish", "finishCreate"}

\* What a row may have staged: an outcome, or nothing yet.
Terminal == Outcome \cup {"none"}

\* A row of the runs table.
RowType == [state : Active \cup Terminal, intent : 0..MaxBoots, ref : BOOLEAN, staged : Terminal,
            lock : BOOLEAN]

\* What a goroutine carries: its Run, the row it read, the calls it still has to
\* make, the outcome it aims at and the calls it makes if that cannot be had.
GoroutineType ==
    [run : Runs \cup {NoRun}, seen : RowType, plan : Seq(Ops), spec : Terminal,
     otherwise : {Abandon, <<"cleanup">>, <<"cleanup", "confirm">>}]

\* The type of every variable of the controller.
TypeOK ==
    /\ rows \in [Runs -> RowType]
    /\ container \in [Runs -> {"none", "stopped", "running"}]
    /\ flight \in [Runs -> BOOLEAN] /\ starts \in [Runs -> Nat] /\ late \in [Runs -> BOOLEAN]
    /\ boot \in 1..MaxBoots
    /\ up \in {"down", "startup", "up", "closing", "final"}
    /\ queue \in Seq(Runs)
    /\ offered \in [Runs -> {"none", "queued", "active", "reconciling"}]
    /\ memo \in [Runs -> [kind : {"none", "desired", "predispatch", "certain"}, spec : Terminal]]
    /\ proc \in [Procs -> GoroutineType]
    /\ todo \subseteq Runs

\* Something of the Run is at the daemon, or may still turn up there.
Live(r) == flight[r] \/ container[r] # "none"

\* The row claims a container: an intent of this boot or earlier, or a reference.
Held(row) == Pending(row) \/ row.ref

\* A row agrees with what the daemon has of its Run, and with itself.
RowFits(row, r) ==
    /\ row.state = "none" => row = NoRow
    /\ Published(row) => ~Held(row) /\ row.staged = "none" /\ ~row.lock
    /\ ~(Pending(row) /\ row.ref)
    /\ row.intent \in 0..boot
    /\ r \in Writable /\ row.state \in Active => row.lock
    /\ starts[r] > 0 => row.ref \/ Published(row)
    /\ flight[r] => row.intent = boot /\ container[r] = "none"
    /\ container[r] # "none" => Held(row)

\* A memo has an outcome to publish, and one that proves there is no container is right.
MemoFits(r) ==
    /\ memo[r].kind # "none" => memo[r].spec \in Outcome
    /\ memo[r].kind \in {"predispatch", "certain"} => ~Live(r)

\* The database, the memos and the daemon agree about a Run.
RowOK(r) == RowFits(rows[r], r) /\ MemoFits(r)

\* What makes a plan of calls safe to follow for a Run: whether something of the
\* Run may be left at the daemon, whether a Create is in flight, and what kind of
\* memo is kept, decide which calls may come when.
Sound(plan, spec, live, inFlight, kind) ==
    \A i \in 1..Len(plan) :
        /\ plan[i] \in {"confirm", "clear"} =>
               ~live \/ \E j \in 1..(i - 1) : plan[j] \in {"cleanup", "lookup"}
        /\ plan[i] \in {"cleanup", "clear"} => ~inFlight
        /\ plan[i] = "prove" => i = 1 /\ ~live
        /\ plan[i] = "clearProved" =>
               (i = 1 /\ kind = "predispatch") \/ (i = 2 /\ plan[1] = "prove")
        /\ plan[i] \in Deciding => spec \in Outcome
        /\ plan[i] \in Stations => i = 1

\* Whatever a goroutine still has to do is safe where its Run now stands.
PlanOK(p) ==
    LET q == proc[p] IN
    q.run # NoRun =>
        /\ Sound(q.plan, q.spec, Live(q.run), flight[q.run], memo[q.run].kind)
        /\ q.otherwise # Abandon => ~flight[q.run]

\* The worker at its stations
Standing(op) ==
    LET r == proc["worker"].run IN
    /\ op \in {"load", "begin"} => \A q \in Runs : ~Held(rows[q])
    /\ op \in {"begin", "recheck", "create"} => ~Live(r) /\ memo[r].kind = "none"
    /\ op \in {"load", "begin", "recheck", "create"} => proc["worker"].otherwise = Abandon
    /\ op \in {"recheck", "create", "await", "bind"} =>
           /\ rows[r].intent = boot /\ rows[r].state \in Active /\ rows[r].staged = "none"
    /\ op \in {"bind", "attach"} => container[r] # "none"
    /\ op = "attach" => starts[r] = 0 /\ rows[r].state \in Active /\ rows[r].staged = "none"
    /\ op \in {"attach", "bridge", "stream", "settle"} => rows[r].ref

\* The worker is idle, waits for work while no row claims a container, or has
\* what the call before it relies on.
WorkerOK ==
    /\ proc["worker"].run = NoRun =>
           \/ proc["worker"] = Idle
           \/ proc["worker"].plan = <<"dequeue">> /\ \A q \in Runs : ~Held(rows[q])
    /\ proc["worker"].run # NoRun /\ proc["worker"].plan # <<>> =>
          /\ Standing(Head(proc["worker"].plan))
          /\ Head(proc["worker"].plan) \notin {"dequeue", "claim", "refresh"}

\* The goroutine has the Run to itself: it is past the claim and has not let go.
Owned(p) == proc[p].plan \notin {<<"claim">>, <<>>, Abandon}

\* Who works when: the worker only between startup and shutdown and only on a Run
\* whose offer is active, the reconciler outside those times or on an offer it has
\* taken over.
Owners ==
    /\ up \in {"down", "startup", "final"} => proc["worker"] = Idle
    /\ up = "down" => proc["reconciler"] = Idle
    /\ proc["worker"].run # NoRun => offered[proc["worker"].run] = "active"
    /\ proc["reconciler"].run = NoRun => proc["reconciler"] = Idle
    /\ proc["reconciler"].otherwise = Abandon
    /\ proc["reconciler"].run # NoRun /\ up \notin {"startup", "final"} /\ Owned("reconciler") =>
           offered[proc["reconciler"].run] = "reconciling"
    /\ proc["reconciler"].plan # <<>> /\ Head(proc["reconciler"].plan) \in Stations => Head(proc["reconciler"].plan) \in {"claim", "refresh"}

\* The inductive invariant.
IInv == TypeOK /\ (\A r \in Runs : RowOK(r)) /\ (\A p \in Procs : PlanOK(p)) /\ WorkerOK /\ Owners

-----------------------------------------------------------------------------

\* Nothing in the plan that only the goroutine's own loop puts there.
Plain(plan) == \A i \in 1..Len(plan) : plan[i] \notin Stations \cup {"prove", "clearProved"}

\* Once its first call is made, the rest of a sound plan is sound; after a removal or
\* a lookup it is so even for a Run with nothing left at the daemon.
LEMMA SoundTail ==
    ASSUME NEW plan \in Seq(Ops), NEW spec, NEW live \in BOOLEAN, NEW inFlight, NEW kind, NEW kind2,
           plan # <<>>, Sound(plan, spec, live, inFlight, kind),
           Head(plan) = "prove" => kind2 = "predispatch"
    PROVE  /\ Head(plan) \notin {"cleanup", "lookup"} => Sound(Tail(plan), spec, live, inFlight, kind2)
           /\ Sound(Tail(plan), spec, FALSE, inFlight, kind2)
           /\ Tail(plan) \in Seq(Ops)
           /\ Tail(plan) # <<>> => Head(Tail(plan)) \notin Stations
           /\ Head(plan) # "prove" => Plain(Tail(plan))
<1> DEFINE t == Tail(plan)
<1>1. /\ t \in Seq(Ops) /\ Len(plan) \in Nat \ {0} /\ Len(t) = Len(plan) - 1
      /\ Head(plan) = plan[1]
      /\ \A i \in 1..Len(t) : t[i] = plan[i + 1] /\ i + 1 \in 1..Len(plan)
      /\ t # <<>> => Head(t) = t[1] /\ 1 \in 1..Len(t)
  OBVIOUS
<1> HIDE DEF t
<1>2. ASSUME NEW i \in 1..Len(t), t[i] \in {"confirm", "clear"},
             live, Head(plan) \notin {"cleanup", "lookup"}
      PROVE  \E j \in 1..(i - 1) : t[j] \in {"cleanup", "lookup"}
  <2>1. PICK k \in 1..i : plan[k] \in {"cleanup", "lookup"}
    BY <1>1, <1>2 DEF Sound
  <2>2. k # 1 /\ k - 1 \in 1..(i - 1) /\ k - 1 \in 1..Len(t) /\ (k - 1) + 1 = k
    BY <1>1, <1>2, <2>1
  <2> QED BY <1>1, <2>1, <2>2, Zenon
<1>3. Head(plan) \notin {"cleanup", "lookup"} => Sound(t, spec, live, inFlight, kind2)
  BY <1>1, <1>2 DEF Sound
<1>4. Sound(t, spec, FALSE, inFlight, kind2)
  BY <1>1 DEF Sound
<1>5. /\ t # <<>> => Head(t) \notin Stations
      /\ Head(plan) # "prove" => Plain(t)
  BY <1>1 DEF Sound, Plain
<1> QED BY <1>1, <1>3, <1>4, <1>5, Zenon DEF t

\* The calls of a plan that one more call was put in front of.
LEMMA MoreShape ==
    ASSUME NEW plan \in Seq(Ops), NEW op \in Ops, op \notin Stations \cup {"prove", "clearProved"}, Plain(plan)
    PROVE  LET t == <<op>> \o plan IN
           /\ t \in Seq(Ops) /\ t # <<>> /\ Head(t) = op /\ t[1] = op /\ Len(t) \in Nat \ {0}
           /\ \A i \in 2..Len(t) : i - 1 \in 1..Len(plan) /\ t[i] = plan[i - 1]
           /\ \A i \in 1..Len(plan) : i + 1 \in 2..Len(t) /\ t[i + 1] = plan[i]
           /\ Plain(t)
<1> DEFINE t == <<op>> \o plan
<1>1. /\ t \in Seq(Ops) /\ t # <<>> /\ Head(t) = op /\ Len(t) = Len(plan) + 1 /\ t[1] = op /\ Len(plan) \in Nat
      /\ \A i \in 1..Len(plan) : t[i + 1] = plan[i]
  OBVIOUS
<1> HIDE DEF t
<1>2. \A i \in 2..Len(t) : i - 1 \in 1..Len(plan) /\ t[i] = plan[i - 1]
  BY <1>1
<1>3. ASSUME NEW i \in 1..Len(t) PROVE t[i] \notin Stations \cup {"prove", "clearProved"}
  <2>1. CASE i = 1
    BY <1>1, <2>1
  <2>2. CASE i # 1
    <3>1. i \in 2..Len(t)
      BY <1>1, <2>2
    <3> QED BY <1>2, <3>1, Zenon DEF Plain
  <2> QED BY <2>1, <2>2
<1> QED BY <1>1, <1>2, <1>3 DEF t, Plain

\* When a call may be put in front of a sound plan.
LEMMA SoundMore ==
    ASSUME NEW plan \in Seq(Ops), NEW op \in Ops, NEW spec, NEW live, NEW inFlight, NEW kind,
           op \notin Stations \cup {"prove", "clearProved"}, Plain(plan),
           op \in {"confirm", "clear"} => ~live, op \in {"cleanup", "clear"} => ~inFlight,
           op \in Deciding => spec \in Outcome,
           op \in {"cleanup", "lookup"} => Sound(plan, spec, FALSE, inFlight, kind),
           op \notin {"cleanup", "lookup"} => Sound(plan, spec, live, inFlight, kind)
    PROVE  Sound(<<op>> \o plan, spec, live, inFlight, kind)
<1> DEFINE t == <<op>> \o plan
<1>1. /\ t[1] = op /\ Len(t) \in Nat \ {0} /\ Len(plan) \in Nat /\ Plain(t)
      /\ \A i \in 2..Len(t) : i - 1 \in 1..Len(plan) /\ t[i] = plan[i - 1]
      /\ \A i \in 1..Len(plan) : i + 1 \in 2..Len(t) /\ t[i + 1] = plan[i]
  BY MoreShape
<1> HIDE DEF t
<1>2. ASSUME NEW i \in 1..Len(t), t[i] \in {"confirm", "clear"}, live
      PROVE  \E j \in 1..(i - 1) : t[j] \in {"cleanup", "lookup"}
  <2>1. i \in 2..Len(t) /\ i - 1 \in 1..Len(plan) /\ t[i] = plan[i - 1] /\ 1 \in 1..(i - 1)
    BY <1>1, <1>2
  <2>2. CASE op \in {"cleanup", "lookup"}
    BY <2>1, <2>2, <1>1, Zenon
  <2>3. CASE op \notin {"cleanup", "lookup"}
    <3>1. PICK k \in 1..(i - 2) : plan[k] \in {"cleanup", "lookup"}
      BY <1>2, <2>1, <2>3 DEF Sound
    <3>2. k + 1 \in 1..(i - 1) /\ k \in 1..Len(plan)
      BY <3>1, <2>1, <1>1
    <3> QED BY <3>1, <3>2, <1>1, Zenon
  <2> QED BY <2>2, <2>3
<1>3. ASSUME NEW i \in 1..Len(t)
      PROVE  /\ t[i] \in {"cleanup", "clear"} => ~inFlight
             /\ t[i] \in Deciding => spec \in Outcome
  <2>1. CASE i = 1
    BY <1>1, <2>1
  <2>2. CASE i # 1
    <3>1. i \in 2..Len(t)
      BY <1>1, <2>2
    <3> QED BY <1>1, <3>1, Zenon DEF Sound
  <2> QED BY <2>1, <2>2
<1>4. Sound(t, spec, live, inFlight, kind)
  BY <1>1, <1>2, <1>3, Zenon DEF Sound, Plain
<1> QED BY <1>4 DEF t

\* A plan stays sound when the daemon is left with less.
LEMMA SoundLess ==
    ASSUME NEW plan \in Seq(Ops), NEW spec, NEW live \in BOOLEAN, NEW inFlight \in BOOLEAN, NEW kind,
           NEW live2 \in BOOLEAN, NEW inFlight2 \in BOOLEAN, live2 => live, inFlight2 => inFlight,
           Sound(plan, spec, live, inFlight, kind)
    PROVE  Sound(plan, spec, live2, inFlight2, kind)
  BY Zenon DEF Sound

\* A plan a goroutine may take up.
Fit(plan, spec, live, inFlight, kind) ==
    /\ plan \in Seq(Ops)
    /\ Sound(plan, spec, live, inFlight, kind)
    /\ plan # <<>> => Head(plan) \notin Stations

\* The short plans: nothing, giving up, forgetting, removing, and a single station.
LEMMA FitShort ==
    ASSUME NEW spec, NEW live \in BOOLEAN, NEW inFlight \in BOOLEAN, NEW kind
    PROVE  /\ Fit(<<>>, spec, live, inFlight, kind)
           /\ Fit(Abandon, spec, live, inFlight, kind)
           /\ Fit(<<"forget">>, spec, live, inFlight, kind)
           /\ ~inFlight => /\ Fit(<<"cleanup">>, spec, live, inFlight, kind)
                           /\ Fit(<<"cleanup", "confirm">>, spec, live, inFlight, kind)
                           /\ Fit(<<"forget", "cleanup", "confirm">>, spec, live, inFlight, kind)
           /\ \A op \in Stations : <<op>> \in Seq(Ops) /\ Sound(<<op>>, spec, live, inFlight, kind)
                                   /\ <<op>> # <<>> /\ Head(<<op>>) = op
  BY DEF Fit, Sound, Abandon, Ops, Deciding, Stations

\* The plans that bring a Run to an end after a failure are sound at the point each
\* is chosen (controller.go's finishWithoutRuntime, finishCreateFailure,
\* finishWithRuntime and finishPredispatch).
LEMMA FitFinish ==
    ASSUME NEW spec \in Outcome, NEW live \in BOOLEAN, NEW inFlight \in BOOLEAN, NEW kind
    PROVE  /\ Fit(FinishWithoutRuntime, spec, live, inFlight, kind)
           /\ Fit(FinishCreateFailure, spec, live, inFlight, kind)
           /\ ~inFlight => Fit(FinishWithRuntime, spec, live, inFlight, kind)
           /\ ~live => Fit(FinishPredispatch, spec, live, inFlight, kind)
           /\ ~inFlight => Fit(<<"cleanup", "clear">> \o FinishWithoutRuntime, spec, live, inFlight, kind)
           /\ Fit(<<"lookup", "commit", "forget", "confirm">>, spec, live, inFlight, kind)
<1> USE DEF Fit, Sound, Ops, Deciding, Stations
<1>1. Fit(FinishWithoutRuntime, spec, live, inFlight, kind)
  BY DEF FinishWithoutRuntime
<1>2. Fit(FinishCreateFailure, spec, live, inFlight, kind)
  BY DEF FinishCreateFailure
<1>3. ~inFlight => Fit(FinishWithRuntime, spec, live, inFlight, kind)
  BY DEF FinishWithRuntime
<1>4. ~live => Fit(FinishPredispatch, spec, live, inFlight, kind)
  BY DEF FinishPredispatch
<1>5. ~inFlight => Fit(<<"cleanup", "clear">> \o FinishWithoutRuntime, spec, live, inFlight, kind)
  BY DEF FinishWithoutRuntime
<1>6. Fit(<<"lookup", "commit", "forget", "confirm">>, spec, live, inFlight, kind)
  OBVIOUS
<1> QED BY <1>1, <1>2, <1>3, <1>4, <1>5, <1>6, Zenon

\* The plan for a Run that holds runtime authority is sound for its row.
LEMMA FitUnderAuthority ==
    ASSUME NEW spec \in Outcome, NEW live \in BOOLEAN, NEW inFlight \in BOOLEAN, NEW kind,
           NEW row \in RowType, row.ref => ~inFlight
    PROVE  Fit(UnderAuthority(row), spec, live, inFlight, kind)
<1> USE DEF Fit, Sound, Ops, Deciding, Stations
<1>1. CASE Decided(row)
  BY <1>1 DEF UnderAuthority
<1>2. CASE ~Decided(row)
  BY <1>2 DEF UnderAuthority
<1> QED BY <1>1, <1>2, Zenon

\* The plan reconcileRun chooses from a row is sound, expired or not.
LEMMA FitReconcileRun ==
    ASSUME NEW spec \in Outcome, NEW live \in BOOLEAN, NEW inFlight \in BOOLEAN, NEW kind,
           NEW row \in RowType, row.ref => ~inFlight, ~Held(row) => ~live, NEW isLate \in BOOLEAN
    PROVE  Fit(ReconcileRun(row, isLate), spec, live, inFlight, kind)
<1>1. /\ Fit(<<>>, spec, live, inFlight, kind)
      /\ Fit(<<"lookup", "confirm">>, spec, live, inFlight, kind)
      /\ Fit(<<"commit", "lookup", "confirm">>, spec, live, inFlight, kind)
      /\ Fit(<<"lookup", "commit", "confirm">>, spec, live, inFlight, kind)
  BY DEF Fit, Sound, Ops, Deciding, Stations
<1>2. /\ row.ref => /\ Fit(<<"cleanup", "confirm">>, spec, live, inFlight, kind)
                    /\ Fit(<<"commit", "cleanup", "confirm">>, spec, live, inFlight, kind)
      /\ ~Held(row) => Fit(<<"confirm">>, spec, live, inFlight, kind)
  BY DEF Fit, Sound, Ops, Deciding, Stations
<1> QED BY <1>1, <1>2, Zenon DEF ReconcileRun, Held

\* The plan reconcileDesired chooses from a memo is sound, if the memo is right.
LEMMA FitReconcileDesired ==
    ASSUME NEW spec \in Outcome, NEW live \in BOOLEAN, NEW inFlight \in BOOLEAN,
           NEW row \in RowType, row.ref => ~inFlight, NEW m,
           m.kind \in {"predispatch", "certain"} => ~live
    PROVE  Fit(ReconcileDesired(row, m), spec, live, inFlight, m.kind)
<1>1. Tail(FinishPredispatch) = <<"clearProved", "commit", "confirm", "forget">>
  BY DEF FinishPredispatch
<1>2. /\ m.kind = "predispatch" =>
             Fit(<<"clearProved", "commit", "confirm", "forget">>, spec, live, inFlight, m.kind)
      /\ m.kind = "certain" => Fit(<<"commit", "confirm", "forget">>, spec, live, inFlight, m.kind)
      /\ Fit(<<"lookup", "commit", "confirm", "forget">>, spec, live, inFlight, m.kind)
  BY DEF Fit, Sound, Ops, Deciding, Stations
<1> QED BY <1>1, <1>2, FitUnderAuthority, Zenon DEF ReconcileDesired

\* A removal, or a clearing once nothing is left, may precede any plan that is sound
\* for a Run with nothing at the daemon.
LEMMA FitRemoval ==
    ASSUME NEW plan \in Seq(Ops), NEW spec, NEW live \in BOOLEAN, NEW inFlight \in BOOLEAN, NEW kind,
           NEW op \in {"cleanup", "clear"}, ~inFlight, op = "clear" => ~live,
           Plain(plan), Sound(plan, spec, FALSE, inFlight, kind)
    PROVE  Fit(<<op>> \o plan, spec, live, inFlight, kind) /\ Plain(<<op>> \o plan)
<1>1. op \in Ops /\ op \notin Stations \cup {"prove", "clearProved"} /\ op \notin Deciding
  BY DEF Ops, Stations, Deciding
<1>2. ~live => live = FALSE
  OBVIOUS
<1>3. Sound(<<op>> \o plan, spec, live, inFlight, kind)
  BY <1>1, <1>2, SoundMore, Zenon
<1> QED BY <1>1, <1>3, MoreShape, Zenon DEF Fit

-----------------------------------------------------------------------------

\* A goroutine that is not at one of the stations.
Quiet(q) == q.plan # <<>> => Head(q.plan) \notin Stations

\* A step of goroutine p on its Run.
LEMMA Turn ==
    ASSUME IInv, TypeOK', NEW p \in Procs,
           proc[p].run # NoRun, p = "worker" \/ Owned(p),
           proc'[p].run = proc[p].run, \A x \in Procs : x # p => proc'[x] = proc[x],
           \A x \in Runs : x # proc[p].run =>
               /\ rows'[x] = rows[x] /\ container'[x] = container[x] /\ flight'[x] = flight[x]
               /\ starts'[x] = starts[x] /\ memo'[x] = memo[x],
           UNCHANGED <<boot, up, offered>>,
           \A x \in Runs : x = proc[p].run => RowOK(x)',
           PlanOK(p)',
           \/ Quiet(proc'[p]) /\ (p = "worker" \/ \A x \in Runs : Held(rows'[x]) => Held(rows[x]))
           \/ p = "worker" /\ WorkerOK',
           p = "reconciler" => Quiet(proc'[p]) /\ proc'[p].otherwise = Abandon
    PROVE  IInv'
<1> USE DEF Procs
<1>1. ASSUME NEW x \in Runs PROVE RowOK(x)'
  <2>1. CASE x = proc[p].run
    BY <2>1, Zenon
  <2>2. CASE x # proc[p].run
    <3>1. RowOK(x)
      BY Zenon DEF IInv
    <3> QED BY <2>2, <3>1 DEF RowOK, RowFits, MemoFits, Live
  <2> QED BY <2>1, <2>2, Zenon
<1>2. ASSUME NEW x \in Procs, x # p, proc[x].run # NoRun
      PROVE  proc[x].run \in Runs /\ (proc[x].run # proc[p].run \/ (~Owned(x) /\ x = "reconciler"))
  <2>1. proc[x].run \in Runs /\ Idle.run = NoRun
    BY <1>2 DEF IInv, TypeOK, GoroutineType, Idle
  <2> QED BY <1>2, <2>1, Zenon DEF IInv, Owners
<1>3. ASSUME NEW x \in Procs PROVE PlanOK(x)'
  <2>1. CASE x = p
    BY <2>1, Zenon
  <2>2. CASE x # p /\ ~Owned(x) /\ x = "reconciler"
    <3>1. /\ proc'[x] = proc[x] /\ proc[x].otherwise = Abandon
          /\ proc[x].plan \in {<<"claim">>, <<>>, <<"failed">>}
      BY <2>2, Zenon DEF IInv, Owners, Owned, Abandon
    <3>2. ASSUME NEW spec, NEW live, NEW inFlight, NEW kind, NEW plan \in {<<"claim">>, <<>>, <<"failed">>}
          PROVE  Sound(plan, spec, live, inFlight, kind)
      BY DEF Sound, Deciding
    <3> QED BY <3>1, <3>2, Zenon DEF PlanOK
  <2>3. CASE x # p /\ proc[x].run # NoRun /\ proc[x].run # proc[p].run
    <3>1. PlanOK(x)
      BY Zenon DEF IInv
    <3> QED BY <1>2, <2>3, <3>1, SMTT(30) DEF PlanOK, Live
  <2>4. CASE x # p /\ proc[x].run = NoRun
    BY <2>4, Zenon DEF PlanOK
  <2> QED BY <1>2, <2>1, <2>2, <2>3, <2>4, Zenon
<1>4. WorkerOK'
  <2>1. CASE p = "worker" /\ Quiet(proc'[p])
    BY <2>1, Zenon DEF WorkerOK, Quiet, Standing, Stations
  <2>2. CASE p = "reconciler"
    <3>1. \A x \in Runs : Held(rows'[x]) => Held(rows[x])
      BY <2>2, Zenon
    <3>2. proc'["worker"] = proc["worker"] /\ boot' = boot
      BY <2>2, Zenon
    <3>3. CASE proc["worker"].run = NoRun
      BY <3>1, <3>2, <3>3, Zenon DEF IInv, WorkerOK, Idle
    <3>4. CASE proc["worker"].run # NoRun
      <4>1. /\ proc["worker"].run \in Runs /\ proc["worker"].run # proc[p].run
        BY <1>2, <2>2, <3>4, Zenon
      <4>2. WorkerOK
        BY Zenon DEF IInv
      <4>3. ASSUME NEW op, Standing(op) PROVE Standing(op)'
        BY <3>1, <3>2, <4>1, <4>3 DEF Standing, Live
      <4> QED BY <3>2, <3>4, <4>2, <4>3, Zenon DEF WorkerOK
    <3> QED BY <3>3, <3>4, Zenon
  <2> QED BY <2>1, <2>2, Zenon
<1>5. Owners'
  <2>1. Idle.run = NoRun
    BY Zenon DEF Idle
  <2>2. CASE p = "worker"
    BY <2>1, <2>2, Zenon DEF IInv, Owners, Owned
  <2>3. CASE p = "reconciler"
    BY <2>1, <2>3, Zenon DEF IInv, Owners, Quiet
  <2> QED BY <2>2, <2>3, Zenon
<1> QED BY <1>1, <1>3, <1>4, <1>5, Zenon DEF IInv

\* What Do and Aim make of a goroutine, field by field.
LEMMA Fields ==
    ASSUME TypeOK, NEW p \in Procs, NEW plan \in Seq(Ops), NEW spec \in Terminal
    PROVE  /\ LET q == Do(p, plan) IN
              /\ q \in GoroutineType /\ q.run = proc[p].run /\ q.plan = plan /\ q.spec = proc[p].spec
              /\ q.otherwise = proc[p].otherwise
           /\ LET q == Aim(p, plan, spec) IN
              /\ q \in GoroutineType /\ q.run = proc[p].run /\ q.plan = plan /\ q.spec = spec
              /\ q.otherwise = Abandon
<1>1. proc[p] \in GoroutineType
  BY Zenon DEF TypeOK
<1> QED BY <1>1, Zenon DEF GoroutineType, Do, Aim, AimOrElse

\* A goroutine that aims at an outcome and keeps a plan for when it cannot be had.
LEMMA AimWith ==
    ASSUME TypeOK, NEW p \in Procs, NEW plan \in Seq(Ops), NEW spec \in Terminal,
           NEW other \in {<<"cleanup">>, <<"cleanup", "confirm">>}
    PROVE  LET q == AimOrElse(p, plan, spec, other) IN
           /\ q \in GoroutineType /\ q.run = proc[p].run /\ q.plan = plan /\ q.spec = spec
           /\ q.otherwise = other
<1>1. proc[p] \in GoroutineType
  BY Zenon DEF TypeOK
<1> QED BY <1>1, Zenon DEF GoroutineType, AimOrElse

\* What is known when goroutine p is about to make a call.
LEMMA AtCall ==
    ASSUME IInv, NEW p \in Procs, NEW op \in Ops, At(p, op), op # "dequeue"
    PROVE  /\ proc[p] \in GoroutineType /\ proc[p].run \in Runs /\ proc[p].run # NoRun
           /\ proc[p].plan \in Seq(Ops) /\ proc[p].plan # <<>> /\ Head(proc[p].plan) = op
           /\ 1 \in 1..Len(proc[p].plan) /\ proc[p].plan[1] = op
           /\ RowOK(proc[p].run) /\ rows[proc[p].run] \in RowType
           /\ PlanOK(p)
           /\ op \notin {"claim", "failed"} => p = "worker" \/ Owned(p)
           /\ p = "worker" => Standing(op)
           /\ op \in Deciding => proc[p].spec \in Outcome
<1>1. /\ proc[p] \in GoroutineType /\ proc[p].plan \in Seq(Ops) /\ proc[p].plan # <<>>
      /\ proc[p].run \in Runs \cup {NoRun} /\ Head(proc[p].plan) = op
  BY Zenon DEF IInv, TypeOK, GoroutineType, At
<1>2. 1 \in 1..Len(proc[p].plan) /\ proc[p].plan[1] = op
  BY <1>1
<1>3. proc[p].run # NoRun
  <2>1. WorkerOK /\ Owners
    BY Zenon DEF IInv
  <2> QED BY <1>1, <1>2, <2>1 DEF WorkerOK, Owners, Idle, Procs
<1>4. RowOK(proc[p].run) /\ rows[proc[p].run] \in RowType /\ PlanOK(p)
  BY <1>1, <1>3, Zenon DEF IInv, TypeOK
<1>5. op \notin {"claim", "failed"} => p = "worker" \/ Owned(p)
  BY <1>1, <1>2 DEF Owned, Abandon
<1>6. p = "worker" => Standing(op)
  BY <1>1, <1>3, Zenon DEF IInv, WorkerOK
<1>7. op \in Deciding => proc[p].spec \in Outcome
  BY <1>2, <1>3, <1>4, Zenon DEF PlanOK, Sound
<1> QED BY <1>1, <1>2, <1>3, <1>4, <1>5, <1>6, <1>7, Zenon

\* What the invariant says of one Run, in the form the actions ask for it.
LEMMA RowFacts ==
    ASSUME IInv, NEW r \in Runs
    PROVE  /\ Live(r) \in BOOLEAN /\ flight[r] \in BOOLEAN /\ late[r] \in BOOLEAN
           /\ rows[r] \in RowType /\ rows[r].ref \in BOOLEAN
           /\ rows[r].ref => ~flight[r]
           /\ rows[r].intent # boot => ~flight[r]
           /\ ~Pending(rows[r]) => ~flight[r]
           /\ ~Held(rows[r]) => ~Live(r)
           /\ container[r] # "none" => ~flight[r]
           /\ memo[r].kind # "none" => memo[r].spec \in Outcome
           /\ memo[r].kind \in {"predispatch", "certain"} => ~Live(r)
  BY DEF IInv, TypeOK, RowOK, RowFits, MemoFits, RowType, Live, Held, Pending, NoBoot

\* What is left of a plan, and what is done in its place after an error.
LEMMA FitRest ==
    ASSUME IInv, NEW p \in Procs, NEW op \in Ops, At(p, op), op # "dequeue"
    PROVE  LET r == proc[p].run IN
           /\ op \notin {"cleanup", "lookup", "prove"} =>
                 Fit(Rest(p), proc[p].spec, Live(r), flight[r], memo[r].kind)
           /\ ~Live(r) /\ op # "prove" =>
                 Fit(Rest(p), proc[p].spec, Live(r), flight[r], memo[r].kind)
           /\ op \notin {"prove"} =>
                 /\ Fit(Rest(p), proc[p].spec, FALSE, flight[r], memo[r].kind)
                 /\ Plain(Rest(p))
           /\ Fit(proc[p].otherwise, proc[p].spec, Live(r), flight[r], memo[r].kind)
<1> DEFINE r == proc[p].run
<1>1. /\ r \in Runs /\ r # NoRun /\ PlanOK(p) /\ proc[p] \in GoroutineType /\ proc[p].plan \in Seq(Ops)
      /\ proc[p].plan # <<>> /\ Head(proc[p].plan) = op
  BY AtCall, Zenon
<1>2. Live(r) \in BOOLEAN /\ flight[r] \in BOOLEAN
  BY <1>1, RowFacts, Zenon
<1>3. Sound(proc[p].plan, proc[p].spec, Live(r), flight[r], memo[r].kind)
  BY <1>1, Zenon DEF PlanOK
<1>4. op \notin {"cleanup", "lookup", "prove"} =>
          Fit(Rest(p), proc[p].spec, Live(r), flight[r], memo[r].kind)
  BY <1>1, <1>2, <1>3, SoundTail, Zenon DEF Rest, Fit
<1>5. op # "prove" =>
                 /\ Fit(Rest(p), proc[p].spec, FALSE, flight[r], memo[r].kind)
                 /\ Plain(Rest(p))
  BY <1>1, <1>2, <1>3, SoundTail, Zenon DEF Rest, Fit
<1>6. Fit(proc[p].otherwise, proc[p].spec, Live(r), flight[r], memo[r].kind)
  <2>1. /\ proc[p].otherwise \in {Abandon, <<"cleanup">>, <<"cleanup", "confirm">>}
        /\ proc[p].otherwise # Abandon => ~flight[r]
    BY <1>1, Zenon DEF PlanOK, GoroutineType
  <2> QED BY <1>2, <2>1, FitShort, ZenonT(60)
<1>7. ~Live(r) => Live(r) = FALSE
  BY <1>2, Zenon
<1> QED BY <1>4, <1>5, <1>6, <1>7, Zenon

\* A step that changes only what the goroutine is about to do.
LEMMA Rethink ==
    ASSUME IInv, NEW p \in Procs, proc[p].run \in Runs, p = "worker" \/ Owned(p),
           NEW q \in GoroutineType, proc' = [proc EXCEPT ![p] = q], q.run = proc[p].run,
           Fit(q.plan, q.spec, Live(q.run), flight[q.run], memo[q.run].kind),
           q.otherwise # Abandon => p = "worker" /\ ~flight[q.run],
           UNCHANGED <<rows, docker, late, boot, lifecycle, offers, memo>>
    PROVE  IInv'
<1>1. /\ proc' \in [Procs -> GoroutineType] /\ proc'[p] = q /\ \A x \in Procs : x # p => proc'[x] = proc[x]
      /\ UNCHANGED <<rows, container, flight, starts, late, boot, up, todo, queue, offered, memo>>
  BY Zenon DEF IInv, TypeOK, docker, lifecycle, offers
<1>2. TypeOK'
  BY <1>1, Zenon DEF IInv, TypeOK
<1>3. \A x \in Runs : RowOK(x)'
  <2>1. \A x \in Runs : RowOK(x)
    BY Zenon DEF IInv
  <2> QED BY <1>1, <2>1 DEF RowOK, RowFits, MemoFits, Live
<1>4. PlanOK(p)'
  BY <1>1, Zenon DEF PlanOK, Live, Fit
<1>5. Quiet(proc'[p])
  BY <1>1, Zenon DEF Quiet, Fit
<1>6. proc[p].run # NoRun
  BY SandboxAssumption, Zenon
<1> QED BY <1>1, <1>2, <1>3, <1>4, <1>5, <1>6, Turn, Zenon DEF Procs

\* A goroutine that goes on with a plan, or with a plan and an outcome in mind.
LEMMA RethinkDo ==
    ASSUME IInv, NEW p \in Procs, proc[p].run \in Runs, p = "worker" \/ Owned(p),
           NEW plan, Become(p, Do(p, plan)), PlanOK(p),
           Fit(plan, proc[p].spec, Live(proc[p].run), flight[proc[p].run], memo[proc[p].run].kind),
           UNCHANGED <<rows, docker, late, boot, lifecycle, offers, memo>>
    PROVE  IInv'
<1>1. TypeOK /\ plan \in Seq(Ops) /\ "none" \in Terminal
  BY Zenon DEF IInv, Fit, Terminal
<1> DEFINE q == Do(p, plan)
<1>2. /\ q \in GoroutineType /\ q.run = proc[p].run /\ q.plan = plan /\ q.spec = proc[p].spec
      /\ q.otherwise = proc[p].otherwise
  BY <1>1, Fields, Zenon
<1>3. proc' = [proc EXCEPT ![p] = q]
  BY Zenon DEF Become
<1>4. q.otherwise # Abandon => p = "worker" /\ ~flight[q.run]
  BY <1>2, SandboxAssumption, Zenon DEF IInv, PlanOK, Owners, Procs
<1> HIDE DEF q
<1> QED BY <1>2, <1>3, <1>4, Rethink, Zenon

\* A goroutine that goes on with a plan towards an outcome.
LEMMA RethinkAim ==
    ASSUME IInv, NEW p \in Procs, proc[p].run \in Runs, p = "worker" \/ Owned(p),
           NEW plan, NEW spec \in Terminal, Become(p, Aim(p, plan, spec)),
           Fit(plan, spec, Live(proc[p].run), flight[proc[p].run], memo[proc[p].run].kind),
           UNCHANGED <<rows, docker, late, boot, lifecycle, offers, memo>>
    PROVE  IInv'
<1>1. TypeOK /\ plan \in Seq(Ops)
  BY Zenon DEF IInv, Fit
<1> DEFINE q == Aim(p, plan, spec)
<1>2. /\ q \in GoroutineType /\ q.run = proc[p].run /\ q.plan = plan /\ q.spec = spec
      /\ q.otherwise = Abandon
  BY <1>1, Fields, SMTT(30)
<1>3. proc' = [proc EXCEPT ![p] = q]
  BY Zenon DEF Become
<1> HIDE DEF q
<1> QED BY <1>2, <1>3, Rethink, Zenon

\* A failure is always classified as an outcome.
LEMMA Classified ==
    ASSUME NEW r, NEW cause \in Outcome
    PROVE  ClassifyFailure(r, cause) \in Outcome
  BY Zenon DEF ClassifyFailure, Outcome

\* Whatever the reconciler decides about a row it has read is sound.
LEMMA Reconciling ==
    ASSUME IInv, NEW p \in Procs, NEW r \in Runs
    PROVE  LET q == Reconcile(p, r, rows[r]) IN
           /\ q \in GoroutineType /\ q.run = proc[p].run /\ q.otherwise = Abandon
           /\ Fit(q.plan, q.spec, Live(r), flight[r], memo[r].kind)
<1> DEFINE q == Reconcile(p, r, rows[r])
<1>1. TypeOK
  BY DEF IInv
<1>2. CASE memo[r].kind # "none"
  <2> DEFINE plan == ReconcileDesired(rows[r], memo[r])
  <2>1. Fit(plan, memo[r].spec, Live(r), flight[r], memo[r].kind) /\ memo[r].spec \in Terminal
    BY <1>2, RowFacts, FitReconcileDesired DEF Terminal
  <2>2. plan \in Seq(Ops)
    BY <2>1, Zenon DEF Fit
  <2>3. q = Aim(p, plan, memo[r].spec)
    BY <1>2, Zenon DEF Reconcile
  <2> HIDE DEF q, plan
  <2>4. q \in GoroutineType /\ q.run = proc[p].run /\ q.otherwise = Abandon /\ q.plan = plan
        /\ q.spec = memo[r].spec
    BY <1>1, <2>1, <2>2, <2>3, Fields
  <2> QED BY <2>1, <2>4, Zenon DEF q
<1>3. CASE memo[r].kind = "none"
  <2> DEFINE plan == ReconcileRun(rows[r], late[r])
             spec == ReconcileSpec(rows[r], late[r])
  <2>1. spec \in Outcome
    BY Zenon DEF ReconcileSpec, Outcome
  <2> HIDE DEF spec
  <2>2. Fit(plan, spec, Live(r), flight[r], memo[r].kind) /\ spec \in Terminal
    BY <2>1, RowFacts, FitReconcileRun, Zenon DEF Terminal
  <2>3. plan \in Seq(Ops)
    BY <2>2, Zenon DEF Fit
  <2>4. q = Aim(p, plan, spec)
    BY <1>3, Zenon DEF Reconcile, spec
  <2> HIDE DEF q, plan
  <2>5. q \in GoroutineType /\ q.run = proc[p].run /\ q.otherwise = Abandon /\ q.plan = plan
        /\ q.spec = spec
    BY <1>1, <2>2, <2>3, <2>4, Fields
  <2> QED BY <2>2, <2>5, Zenon DEF q
<1> QED BY <1>2, <1>3, Zenon

\* The idle goroutine and the absent row.
LEMMA IdleFacts ==
    /\ Idle \in GoroutineType /\ Idle.run = NoRun /\ Idle.plan = <<>> /\ Idle.otherwise = Abandon
    /\ NoRow \in RowType /\ ~Held(NoRow)
<1>1. NoRow \in RowType /\ ~Held(NoRow)
  BY SandboxAssumption DEF NoRow, RowType, Terminal, NoBoot, Held, Pending
<1> QED BY <1>1 DEF Idle, GoroutineType, Terminal

-----------------------------------------------------------------------------

\* What a transaction may write.
Writes(row, r) == row \in RowType /\ RowFits(row, r)

\* The row that clearing an intent, and that binding a container, leaves.
LEMMA Shapes ==
    ASSUME NEW row \in RowType
    PROVE  /\ Cleared(row) \in RowType /\ Cleared(row).state = row.state /\ Cleared(row).ref = row.ref
           /\ Cleared(row).intent = 0 /\ Cleared(row).staged = row.staged /\ Cleared(row).lock = row.lock
           /\ row = NoRow => Cleared(row) = NoRow
           /\ Bound(row) \in RowType /\ Bound(row).state = row.state /\ Bound(row).ref
           /\ Bound(row).intent = 0 /\ Bound(row).staged = row.staged /\ Bound(row).lock = row.lock
<1>1. /\ Cleared(row) \in RowType /\ Cleared(row).state = row.state /\ Cleared(row).ref = row.ref
      /\ Cleared(row).intent = 0 /\ Cleared(row).staged = row.staged /\ Cleared(row).lock = row.lock
  BY SandboxAssumption DEF RowType, Cleared, NoBoot
<1>2. Cleared(NoRow) = NoRow
  BY DEF Cleared, NoRow, NoBoot
<1>3. Bound(row) \in RowType
  <2>1. ASSUME NEW b \in BOOLEAN PROVE [row EXCEPT !.ref = b] \in RowType
    BY DEF RowType
  <2>2. ASSUME NEW t \in RowType PROVE [t EXCEPT !.intent = NoBoot] \in RowType
    BY SandboxAssumption DEF RowType, NoBoot
  <2> QED BY <2>1, <2>2, Zenon DEF Bound
<1>4. /\ Bound(row).state = row.state /\ Bound(row).ref
      /\ Bound(row).intent = 0 /\ Bound(row).staged = row.staged /\ Bound(row).lock = row.lock
  BY Zenon DEF RowType, Bound, NoBoot
<1> QED BY <1>1, <1>2, <1>3, <1>4, Zenon

\* Each transaction leaves a row that fits its Run, and none but Begin lets a Run
\* claim a container that it did not claim before.
LEMMA RowMoves ==
    ASSUME IInv, NEW r \in Runs
    PROVE  LET row == rows[r] IN
           /\ \A o \in Outcome : CanStage(row, o) => Writes(Staged(row, o), r) /\ (Held(Staged(row, o)) => Held(row))
           /\ ~Live(r) => Writes(Cleared(row), r) /\ (Held(Cleared(row)) => Held(row))
           /\ ~Live(r) /\ CanConfirm(row) => Writes(Confirmed(row), r) /\ ~Held(Confirmed(row))
           /\ ~Live(r) /\ CanBegin(row) => Writes(Begun(row, boot), r)
           /\ ~flight[r] /\ CanBind(row) => Writes(Bound(row), r)
           /\ CanCancel(row) => Writes(Cancelling(row), r) /\ (Held(Cancelling(row)) <=> Held(row))
           /\ CanStart(row) => Writes(Running(row), r) /\ (Held(Running(row)) <=> Held(row))
<1> DEFINE row == rows[r]
<1>1. /\ row \in RowType /\ RowFits(row, r) /\ boot \in 1..MaxBoots /\ MaxBoots \in Nat
      /\ row = [state |-> row.state, intent |-> row.intent, ref |-> row.ref, staged |-> row.staged, lock |-> row.lock]
      /\ starts[r] \in Nat
  BY SandboxAssumption, Zenon DEF IInv, TypeOK, RowOK, RowType
<1> HIDE DEF row
<1> USE DEF Writes, RowFits, RowType, Held, Pending, NoBoot, Published, Terminal, Outcome, Active
<1>2. ASSUME NEW o \in Outcome, CanStage(row, o)
      PROVE  Writes(Staged(row, o), r) /\ (Held(Staged(row, o)) => Held(row))
  BY <1>1, <1>2, Zenon DEF CanStage, Staged, Reaches
<1>3. ~Live(r) => Writes(Cleared(row), r) /\ (Held(Cleared(row)) => Held(row))
  BY <1>1, Shapes DEF Live
<1>4. ~Live(r) /\ CanConfirm(row) => Writes(Confirmed(row), r) /\ ~Held(Confirmed(row))
  BY <1>1, Zenon DEF CanConfirm, Confirmed, Live, NoRow, Decided
<1>5. ~Live(r) /\ CanBegin(row) => Writes(Begun(row, boot), r)
  BY <1>1 DEF CanBegin, Begun, Live
<1>6. ~flight[r] /\ CanBind(row) => Writes(Bound(row), r)
  <2>1. CanBind(row) => row.state \in Active /\ Held(row)
    BY <1>1, Zenon DEF CanBind
  <2> HIDE DEF RowType
  <2> QED BY <1>1, <2>1, Shapes
<1>7. CanCancel(row) => Writes(Cancelling(row), r) /\ (Held(Cancelling(row)) <=> Held(row))
  BY <1>1, Zenon DEF CanCancel, Cancelling
<1>8. CanStart(row) => Writes(Running(row), r) /\ (Held(Running(row)) <=> Held(row))
  BY <1>1, Zenon DEF CanStart, Running
<1> QED BY <1>2, <1>3, <1>4, <1>5, <1>6, <1>7, <1>8, Zenon DEF row

\* A transaction on the row of the goroutine's Run.
LEMMA Transaction ==
    ASSUME IInv, NEW p \in Procs, proc[p].run \in Runs, p = "worker" \/ Owned(p),
           NEW row \in RowType, RowFits(row, proc[p].run),
           p = "worker" \/ (Held(row) => Held(rows[proc[p].run])),
           rows' = [rows EXCEPT ![proc[p].run] = row],
           NEW q \in GoroutineType, proc' = [proc EXCEPT ![p] = q], q.run = proc[p].run,
           Fit(q.plan, q.spec, Live(q.run), flight[q.run], memo[q.run].kind),
           q.otherwise # Abandon => p = "worker" /\ ~flight[q.run],
           UNCHANGED <<docker, late, boot, lifecycle, offers, memo>>
    PROVE  IInv'
<1>1. /\ proc' \in [Procs -> GoroutineType] /\ proc'[p] = q /\ \A x \in Procs : x # p => proc'[x] = proc[x]
      /\ UNCHANGED <<container, flight, starts, late, boot, up, todo, queue, offered, memo>>
      /\ rows' \in [Runs -> RowType] /\ rows'[q.run] = row
      /\ \A x \in Runs : x # proc[p].run => rows'[x] = rows[x]
  BY Zenon DEF IInv, TypeOK, docker, lifecycle, offers
<1>2. TypeOK'
  BY <1>1, Zenon DEF IInv, TypeOK
<1>3. \A x \in Runs : x = proc[p].run => RowOK(x)'
  BY <1>1, ZenonT(60) DEF IInv, RowOK, RowFits, MemoFits, Live
<1>4. PlanOK(p)'
  BY <1>1, Zenon DEF PlanOK, Live, Fit
<1>5. Quiet(proc'[p])
  BY <1>1, Zenon DEF Quiet, Fit
<1>6. proc[p].run # NoRun
  BY SandboxAssumption, Zenon
<1>7. p = "worker" \/ \A x \in Runs : Held(rows'[x]) => Held(rows[x])
  BY <1>1, Zenon
<1> QED BY <1>1, <1>2, <1>3, <1>4, <1>5, <1>6, <1>7, Turn, Zenon DEF Procs

\* One that commits and answers, commits and loses the answer, is refused, or fails.
LEMMA TransactInv ==
    ASSUME IInv, NEW p \in Procs, proc[p].run \in Runs, p = "worker" \/ Owned(p), PlanOK(p),
           NEW can, NEW row, NEW then, NEW else,
           Transact(p, can, row, Do(p, then), Do(p, else)),
           can => row \in RowType /\ RowFits(row, proc[p].run) /\ (Held(row) => Held(rows[proc[p].run])),
           Fit(then, proc[p].spec, Live(proc[p].run), flight[proc[p].run], memo[proc[p].run].kind),
           Fit(else, proc[p].spec, Live(proc[p].run), flight[proc[p].run], memo[proc[p].run].kind)
    PROVE  IInv'
<1>1. PICK plan \in {then, else} : Become(p, Do(p, plan))
  BY Zenon DEF Transact
<1>2. /\ Fit(plan, proc[p].spec, Live(proc[p].run), flight[proc[p].run], memo[proc[p].run].kind)
      /\ plan \in Seq(Ops) /\ "none" \in Terminal
  BY <1>1, Zenon DEF Fit, Terminal
<1>3. CASE UNCHANGED rows
  BY <1>1, <1>2, <1>3, RethinkDo, Zenon DEF Transact
<1>4. CASE can /\ rows' = [rows EXCEPT ![proc[p].run] = row]
  <2> DEFINE q == Do(p, plan)
  <2>1. /\ q \in GoroutineType /\ q.run = proc[p].run /\ q.plan = plan /\ q.spec = proc[p].spec
        /\ q.otherwise = proc[p].otherwise
    BY <1>2, Fields, Zenon DEF IInv
  <2>2. proc' = [proc EXCEPT ![p] = q] /\ UNCHANGED <<docker, late, boot, lifecycle, offers, memo>>
    BY <1>1, Zenon DEF Become, Transact
  <2>3. q.otherwise # Abandon => p = "worker" /\ ~flight[q.run]
    BY <2>1, SandboxAssumption, Zenon DEF IInv, PlanOK, Owners, Procs
  <2> HIDE DEF q
  <2> QED BY <1>2, <1>4, <2>1, <2>2, <2>3, Transaction, Zenon
<1> QED BY <1>3, <1>4, Zenon DEF Transact

\* When a plan has come to clearing or confirming, nothing of the Run is left at the
\* daemon: the removal or the lookup came before.
LEMMA AtRelease ==
    ASSUME IInv, NEW p \in Procs, NEW op \in {"clear", "confirm"}, At(p, op)
    PROVE  LET r == proc[p].run IN
           /\ op \in Ops /\ r \in Runs /\ (p = "worker" \/ Owned(p)) /\ PlanOK(p) /\ ~Live(r)
           /\ Fit(Rest(p), proc[p].spec, Live(r), flight[r], memo[r].kind)
           /\ Fit(Abandon, proc[p].spec, Live(r), flight[r], memo[r].kind)
<1> DEFINE r == proc[p].run
<1>1. op \in Ops /\ op # "dequeue" /\ op \notin {"claim", "failed", "cleanup", "lookup", "prove"}
  BY Zenon DEF Ops
<1>2. /\ r \in Runs /\ r # NoRun /\ (p = "worker" \/ Owned(p)) /\ PlanOK(p)
      /\ 1 \in 1..Len(proc[p].plan) /\ proc[p].plan[1] = op
  BY <1>1, AtCall, Zenon
<1>3. ~Live(r)
  BY <1>2 DEF PlanOK, Sound
<1>4. Fit(Rest(p), proc[p].spec, Live(r), flight[r], memo[r].kind)
  BY <1>1, FitRest, Zenon
<1>5. Fit(Abandon, proc[p].spec, Live(r), flight[r], memo[r].kind)
  BY <1>2, RowFacts, FitShort, ZenonT(60)
<1> QED BY <1>1, <1>2, <1>3, <1>4, <1>5, Zenon

\* The calls of execute.
Steps == Stations \ {"dequeue", "claim", "refresh"}

\* What is known when the worker is about to make a call of execute.
LEMMA AtStep ==
    ASSUME IInv, NEW op \in Steps, At("worker", op)
    PROVE  LET r == proc["worker"].run IN
           /\ r \in Runs /\ PlanOK("worker") /\ RowOK(r) /\ Standing(op) /\ rows[r] \in RowType
           /\ Fit(Abandon, proc["worker"].spec, Live(r), flight[r], memo[r].kind)
           /\ Live(r) \in BOOLEAN /\ flight[r] \in BOOLEAN
           /\ "worker" \in Procs /\ op \in Ops
<1>1. "worker" \in Procs /\ op \in Ops /\ op # "dequeue" /\ op \in Stations
  BY Zenon DEF Procs, Steps, Stations, Ops
<1>2. proc["worker"].run \in Runs /\ PlanOK("worker") /\ RowOK(proc["worker"].run) /\ Standing(op)
      /\ rows[proc["worker"].run] \in RowType
  BY <1>1, AtCall, Zenon
<1> QED BY <1>1, <1>2, RowFacts, FitShort, ZenonT(60)

-----------------------------------------------------------------------------

\* A handler that changes a row, but nothing a goroutine relies on.
LEMMA HandlerInv ==
    ASSUME IInv, NEW r \in Runs, NEW row, Writes(row, r), rows' = [rows EXCEPT ![r] = row],
           row.intent = rows[r].intent, row.ref = rows[r].ref, row.staged = rows[r].staged,
           rows[r].state \in Active => row.state \in Active,
           UNCHANGED <<docker, late, boot, lifecycle, queue, offered, memo, proc>>
    PROVE  IInv'
<1>1. /\ UNCHANGED <<container, flight, starts, late, boot, up, todo, queue, offered, memo, proc>>
      /\ rows' \in [Runs -> RowType] /\ rows'[r] = row /\ \A x \in Runs : x # r => rows'[x] = rows[x]
  BY Zenon DEF docker, lifecycle, IInv, TypeOK, Writes
<1>2. TypeOK'
  BY <1>1, Zenon DEF IInv, TypeOK
<1>3. \A x \in Runs : RowOK(x)'
  <2>1. \A x \in Runs : RowOK(x)
    BY Zenon DEF IInv
  <2> QED BY <1>1, <2>1, SMTT(30) DEF RowOK, RowFits, MemoFits, Live, Writes
<1>4. \A p \in Procs : PlanOK(p)'
  BY <1>1, Zenon DEF IInv, PlanOK, Live
<1>5. \A x \in Runs : Held(rows'[x]) => Held(rows[x])
  BY <1>1, Zenon DEF Held, Pending
<1>6. WorkerOK'
  <2>1. CASE proc["worker"].run = NoRun
    BY <1>1, <1>5, <2>1, Zenon DEF IInv, WorkerOK, Idle
  <2>2. CASE proc["worker"].run # NoRun
    <3>1. proc["worker"].run \in Runs
      BY <2>2, Zenon DEF IInv, TypeOK, GoroutineType, Procs
    <3>2. WorkerOK
      BY Zenon DEF IInv
    <3>3. ASSUME NEW op, Standing(op) PROVE Standing(op)'
      BY <1>1, <1>5, <3>1, <3>3, SMTT(30) DEF Standing, Live
    <3> QED BY <1>1, <2>2, <3>2, <3>3, Zenon DEF WorkerOK
  <2> QED BY <2>1, <2>2, Zenon
<1>7. Owners'
  BY <1>1, Zenon DEF IInv, Owners, Owned
<1> QED BY <1>2, <1>3, <1>4, <1>6, <1>7, Zenon DEF IInv

\* Registering a Run, or finding it registered.
LEMMA StartRunInv ==
    ASSUME IInv, NEW r \in Runs, StartRun(r)
    PROVE  IInv'
<1>1. UNCHANGED <<docker, late, boot, lifecycle, queue, offered, memo, proc>>
  BY Zenon DEF StartRun
<1>2. rows[r] \in RowType /\ RowFits(rows[r], r) /\ rows \in [Runs -> RowType]
  BY Zenon DEF IInv, TypeOK, RowOK
<1>3. CASE UNCHANGED rows
  <2>1. rows' = [rows EXCEPT ![r] = rows[r]]
    BY <1>2, <1>3, Zenon
  <2> QED BY <1>1, <1>2, <2>1, HandlerInv, Zenon DEF Writes
<1>4. CASE rows[r].state = "none" /\ rows' = [rows EXCEPT ![r] = Registered(r \in Writable)]
  <2> DEFINE row == Registered(r \in Writable)
  <2>1. rows[r] = NoRow
    BY <1>2, <1>4, Zenon DEF RowFits
  <2>2. /\ row.state = "accepted" /\ row.intent = 0 /\ row.ref = FALSE /\ row.staged = "none"
        /\ r \in Writable => row.lock
    BY Zenon DEF Registered, NoRow, NoBoot
  <2>3. row \in RowType
    <3>1. ASSUME NEW b \in BOOLEAN PROVE Registered(b) \in RowType
      <4> DEFINE row1 == [NoRow EXCEPT !.state = "accepted"]
      <4>1. NoRow \in RowType
        BY IdleFacts, Zenon
      <4>2. row1 \in RowType
        BY <4>1, Zenon DEF RowType, Active
      <4>3. [row1 EXCEPT !.lock = b] \in RowType
        <5> HIDE DEF row1
        <5> QED BY <4>2, Zenon DEF RowType
      <4>4. Registered(b) = [row1 EXCEPT !.lock = b]
        BY Zenon DEF Registered
      <4> QED BY <4>3, <4>4
    <3>2. (r \in Writable) \in BOOLEAN
      OBVIOUS
    <3> QED BY <3>1, <3>2, Zenon
  <2>4. ~Live(r) /\ starts[r] = 0 /\ boot \in Nat
    BY <1>2, <2>1, SandboxAssumption
       DEF IInv, TypeOK, RowFits, Live, NoRow, NoBoot, Held, Pending, Published, Outcome
  <2> HIDE DEF row
  <2>5. RowFits(row, r)
    BY <2>2, <2>4 DEF RowFits, Live, Held, Pending, NoBoot, Published, Outcome
  <2>6. rows[r].state \notin Active /\ rows[r].intent = 0 /\ rows[r].ref = FALSE /\ rows[r].staged = "none"
    BY <2>1 DEF NoRow, NoBoot, Active
  <2> QED BY <1>1, <1>4, <2>2, <2>3, <2>5, <2>6, HandlerInv, Zenon DEF Writes, row
<1> QED BY <1>3, <1>4, Zenon DEF StartRun

\* A request for cancellation.
LEMMA CancelRunInv ==
    ASSUME IInv, NEW r \in Runs, CancelRun(r)
    PROVE  IInv'
<1> DEFINE row == Cancelling(rows[r])
<1>1. /\ UNCHANGED <<docker, late, boot, lifecycle, queue, offered, memo, proc>>
      /\ rows' = [rows EXCEPT ![r] = row] /\ CanCancel(rows[r])
  BY Zenon DEF CancelRun, offers
<1>2. Writes(row, r)
  BY <1>1, RowMoves, Zenon
<1>3. /\ row.intent = rows[r].intent /\ row.ref = rows[r].ref /\ row.staged = rows[r].staged
      /\ row.state \in Active
  BY DEF Cancelling, Active, IInv, TypeOK, RowType
<1> HIDE DEF row
<1> QED BY <1>1, <1>2, <1>3, HandlerInv, Zenon

\* Steps that leave the database, the daemon and the memos alone.
LEMMA ElsewhereInv ==
    ASSUME IInv, UNCHANGED <<rows, container, flight, starts, boot, memo>>, late' \in [Runs -> BOOLEAN],
           proc' \in [Procs -> GoroutineType], todo' \subseteq Runs, queue' \in Seq(Runs),
           offered' \in [Runs -> {"none", "queued", "active", "reconciling"}],
           up' \in {"down", "startup", "up", "closing", "final"},
           \A p \in Procs : proc'[p] = proc[p] \/ PlanOK(p)',
           proc'["worker"] = proc["worker"] \/ WorkerOK', Owners'
    PROVE  IInv'
<1>1. TypeOK'
  BY Zenon DEF IInv, TypeOK
<1>2. \A x \in Runs : RowOK(x)'
  BY Zenon DEF IInv, RowOK, RowFits, MemoFits, Live
<1>3. \A p \in Procs : PlanOK(p)'
  <2>1. \A p \in Procs : PlanOK(p)
    BY Zenon DEF IInv
  <2> QED BY <2>1, Zenon DEF PlanOK, Live
<1>4. WorkerOK'
  BY Zenon DEF IInv, WorkerOK, Standing, Live
<1> QED BY <1>1, <1>2, <1>3, <1>4, Zenon DEF IInv

\* Offering a Run to the worker.
LEMMA EnqueueInv ==
    ASSUME IInv, NEW r \in Runs, Enqueue(r)
    PROVE  IInv'
<1>1. UNCHANGED <<rows, container, flight, starts, late, boot, memo, up, todo, proc>>
  BY Zenon DEF Enqueue, docker, lifecycle
<1>2. /\ queue' \in Seq(Runs) /\ offered' \in [Runs -> {"none", "queued", "active", "reconciling"}]
      /\ \A x \in Runs : offered[x] # "none" => offered'[x] = offered[x]
  <2>1. Append(queue, r) \in Seq(Runs) /\ queue \in Seq(Runs)
    BY DEF IInv, TypeOK
  <2>2. queue' \in Seq(Runs)
    BY <2>1, Zenon DEF Enqueue
  <2>3. CASE offered[r] = "none" /\ offered' = [offered EXCEPT ![r] = "queued"]
    BY <2>2, <2>3, Zenon DEF IInv, TypeOK
  <2>4. CASE UNCHANGED offered
    BY <2>2, <2>4, Zenon DEF IInv, TypeOK
  <2> QED BY <2>3, <2>4, Zenon DEF Enqueue
<1>3. \A p \in Procs : proc[p].run \in Runs \cup {NoRun}
  BY Zenon DEF IInv, TypeOK, GoroutineType
<1>4. Owners'
  BY <1>1, <1>2, <1>3, Zenon DEF IInv, Owners, Owned, Procs
<1> QED BY <1>1, <1>2, <1>4, ElsewhereInv, Zenon DEF IInv, TypeOK

\* The worker waiting until no row claims a container.
LEMMA WaitForQuiescenceInv ==
    ASSUME IInv, WaitForQuiescence
    PROVE  IInv'
<1> DEFINE q == [Idle EXCEPT !.plan = <<"dequeue">>]
<1>1. /\ UNCHANGED <<rows, container, flight, starts, late, boot, memo, up, todo, queue, offered>>
      /\ proc' = [proc EXCEPT !["worker"] = q] /\ up = "up"
  BY Zenon DEF WaitForQuiescence, docker, lifecycle, offers, Become
<1>2. /\ q \in GoroutineType /\ q.run = NoRun /\ q.plan = <<"dequeue">>
  <2>1. <<"dequeue">> \in Seq(Ops)
    BY DEF Ops
  <2> QED BY <2>1, IdleFacts, Zenon DEF Idle, GoroutineType
<1> HIDE DEF q
<1>3. /\ proc' \in [Procs -> GoroutineType] /\ proc'["worker"] = q
      /\ \A x \in Procs : x # "worker" => proc'[x] = proc[x]
  BY <1>1, <1>2, Zenon DEF IInv, TypeOK, Procs
<1>4. \A x \in Runs : ~Held(rows[x])
  BY Zenon DEF WaitForQuiescence, Unreconciled, Quiescent, Held
<1>5. WorkerOK'
  BY <1>1, <1>2, <1>3, <1>4, Zenon DEF WorkerOK
<1>6. \A p \in Procs : proc'[p] = proc[p] \/ PlanOK(p)'
  BY <1>2, <1>3, Zenon DEF PlanOK
<1>7. Owners'
  BY <1>1, <1>2, <1>3, Zenon DEF IInv, Owners, Owned, Procs
<1> QED BY <1>1, <1>3, <1>5, <1>6, <1>7, ElsewhereInv, Zenon DEF IInv, TypeOK
=============================================================================
