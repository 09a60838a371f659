------------------------- MODULE SandboxWorkerProofs --------------------------
(***************************************************************************)
(* The calls of execute, made by the worker alone, and its taking of an    *)
(* offer preserve the inductive invariant.                                 *)
(***************************************************************************)
EXTENDS SandboxProofs

\* The worker goes on to the next call of execute.
LEMMA Stand ==
    ASSUME IInv, TypeOK', proc["worker"].run \in Runs, NEW op \in Steps,
           Become("worker", Do("worker", <<op>>)),
           \A x \in Runs : x # proc["worker"].run =>
               /\ rows'[x] = rows[x] /\ container'[x] = container[x] /\ flight'[x] = flight[x]
               /\ starts'[x] = starts[x] /\ memo'[x] = memo[x],
           UNCHANGED <<boot, up, offered>>,
           \A x \in Runs : x = proc["worker"].run => RowOK(x)',
           Standing(op)',
           proc["worker"].otherwise # Abandon => ~flight'[proc["worker"].run]
    PROVE  IInv'
<1> DEFINE p == "worker"
           q == Do(p, <<op>>)
<1>1. /\ p \in Procs /\ proc[p].run # NoRun /\ "none" \in Terminal /\ op \in Stations
      /\ op \notin {"dequeue", "claim", "refresh"} /\ op \in Ops
  BY SandboxAssumption, Zenon DEF Procs, Terminal, Steps, Stations, Ops
<1>2. <<op>> \in Seq(Ops) /\ <<op>> # <<>> /\ Head(<<op>>) = op
  BY <1>1
<1>3. /\ q.run = proc[p].run /\ q.plan = <<op>> /\ q.spec = proc[p].spec
      /\ q.otherwise = proc[p].otherwise
  <2>1. TypeOK
    BY Zenon DEF IInv
  <2> QED BY ONLY <1>1, <1>2, <2>1, Fields, Zenon
<1> HIDE DEF q
<1>4. proc'[p] = q /\ \A x \in Procs : x # p => proc'[x] = proc[x]
  BY <1>1, Zenon DEF IInv, TypeOK, Become, q
<1>5. PlanOK(p)'
  <2>1. proc'[p].plan = <<op>> /\ (proc'[p].otherwise # Abandon => ~flight'[proc'[p].run])
    BY <1>3, <1>4, Zenon
  <2>2. /\ Len(<<op>>) = 1 /\ <<op>>[1] = op
        /\ op \notin {"confirm", "clear", "cleanup", "prove", "clearProved"} \cup Deciding
    BY <1>1, Zenon DEF Stations, Deciding
  <2> QED BY <2>1, <2>2 DEF PlanOK, Sound
<1>6. WorkerOK'
  BY <1>1, <1>2, <1>3, <1>4 DEF WorkerOK
<1>7. p # "reconciler"
  BY Zenon
<1> HIDE DEF p
<1>8. p = "worker"
  BY Zenon DEF p
<1> QED BY <1>1, <1>3, <1>4, <1>5, <1>6, <1>7, <1>8, Turn

\* The worker goes on after a transaction.
LEMMA StandRow ==
    ASSUME IInv, proc["worker"].run \in Runs, PlanOK("worker"), NEW op \in Steps,
           Become("worker", Do("worker", <<op>>)),
           NEW row, Writes(row, proc["worker"].run), rows' = [rows EXCEPT ![proc["worker"].run] = row],
           UNCHANGED <<docker, late, boot, lifecycle, offers, memo>>,
           proc'["worker"].run = proc["worker"].run /\ proc'["worker"].otherwise = proc["worker"].otherwise
               => Standing(op)'
    PROVE  IInv'
<1> DEFINE p == "worker"
           r == proc["worker"].run
           q == Do(p, <<op>>)
<1>1. p \in Procs /\ r # NoRun /\ "none" \in Terminal /\ <<op>> \in Seq(Ops)
  BY SandboxAssumption DEF Procs, Terminal, Steps, Stations, Ops
<1>2. /\ q \in GoroutineType /\ q.run = r /\ q.otherwise = proc[p].otherwise
  BY <1>1, Fields, Zenon DEF IInv
<1> HIDE DEF q
<1>3. /\ proc' \in [Procs -> GoroutineType] /\ proc'[p] = q
      /\ UNCHANGED <<container, flight, starts, late, boot, up, todo, queue, offered, memo>>
      /\ rows' \in [Runs -> RowType] /\ rows'[r] = row /\ \A x \in Runs : x # r => rows'[x] = rows[x]
  BY <1>1, <1>2, Zenon DEF IInv, TypeOK, docker, lifecycle, offers, Become, q, Writes
<1>4. TypeOK'
  BY <1>3, Zenon DEF IInv, TypeOK
<1>5. \A x \in Runs : x = proc["worker"].run => RowOK(x)'
  BY <1>3, SMTT(30) DEF IInv, RowOK, RowFits, MemoFits, Live, Writes
<1>6. Standing(op)'
  BY <1>2, <1>3, Zenon
<1>7. proc[p].otherwise # Abandon => ~flight'[proc[p].run]
  BY <1>1, <1>3, Zenon DEF PlanOK
<1> QED BY <1>3, <1>4, <1>5, <1>6, <1>7, Stand, Zenon

\* When nothing but the worker changes.
LEMMA Pass ==
    ASSUME IInv, proc["worker"].run \in Runs, NEW op \in Steps,
           Become("worker", Do("worker", <<op>>)), PlanOK("worker"), Standing(op),
           UNCHANGED <<rows, docker, late, boot, lifecycle, offers, memo>>
    PROVE  IInv'
<1> DEFINE p == "worker"
           q == Do(p, <<op>>)
<1>1. p \in Procs /\ proc[p].run # NoRun /\ "none" \in Terminal /\ <<op>> \in Seq(Ops)
  BY SandboxAssumption DEF Procs, Terminal, Steps, Stations, Ops
<1>2. /\ q \in GoroutineType /\ q.run = proc[p].run /\ q.otherwise = proc[p].otherwise
  BY <1>1, Fields, Zenon DEF IInv
<1> HIDE DEF q
<1>3. /\ proc' \in [Procs -> GoroutineType] /\ proc'[p] = q
      /\ UNCHANGED <<rows, container, flight, starts, late, boot, up, todo, queue, offered, memo>>
  BY <1>1, <1>2, Zenon DEF IInv, TypeOK, docker, lifecycle, offers, Become, q
<1>4. TypeOK'
  BY <1>3, Zenon DEF IInv, TypeOK
<1>5. \A x \in Runs : RowOK(x)'
  BY <1>3 DEF IInv, RowOK, RowFits, MemoFits, Live
<1>6. Standing(op)'
  BY <1>2, <1>3, Zenon DEF Standing, Live
<1>7. proc[p].otherwise # Abandon => ~flight'[proc[p].run]
  BY <1>1, <1>3, Zenon DEF PlanOK
<1> QED BY <1>3, <1>4, <1>5, <1>6, <1>7, Stand, Zenon

\* The worker gives up before or after the container.
LEMMA GiveUp ==
    ASSUME IInv, proc["worker"].run \in Runs, NEW plan, NEW spec \in Outcome,
           Become("worker", Aim("worker", plan, spec)),
           UNCHANGED <<rows, docker, late, boot, lifecycle, offers, memo>>,
           \/ plan \in {FinishWithoutRuntime, FinishCreateFailure}
           \/ plan = FinishPredispatch /\ ~Live(proc["worker"].run)
    PROVE  IInv'
<1> DEFINE r == proc["worker"].run
<1>1. "worker" \in Procs /\ spec \in Terminal
  BY DEF Procs, Terminal
<1>2. Fit(plan, spec, Live(r), flight[r], memo[r].kind)
  BY RowFacts, FitFinish
<1> QED BY <1>1, <1>2, RethinkAim, Zenon

-----------------------------------------------------------------------------

\* Reading the row of the Run that was dequeued.
LEMMA LoadInv ==
    ASSUME IInv, Load("worker")
    PROVE  IInv'
<1> DEFINE p == "worker"
           r == proc[p].run
<1>1. At(p, "load") /\ UNCHANGED <<rows, docker, late, boot, lifecycle, offers, memo>> /\ "load" \in Steps
  BY Zenon DEF Load, Read, Steps, Stations
<1>2. /\ r \in Runs /\ PlanOK(p) /\ RowOK(r) /\ Standing("load") /\ p \in Procs
      /\ Fit(Abandon, proc[p].spec, Live(r), flight[r], memo[r].kind)
      /\ Live(r) \in BOOLEAN /\ flight[r] \in BOOLEAN
  BY <1>1, AtStep, Zenon
<1>3. CASE Become(p, Do(p, Abandon))
  BY <1>1, <1>2, <1>3, RethinkDo, Zenon
<1>4. CASE \E spec \in Outcome : Become(p, Aim(p, FinishWithoutRuntime, spec))
  BY <1>1, <1>2, <1>4, GiveUp, Zenon
<1>5. CASE Become(p, Do(p, <<>>))
  BY <1>1, <1>2, <1>5, RethinkDo, FitShort, Zenon
<1>6. CASE Become(p, Reconcile(p, r, rows[r]))
  <2> DEFINE q == Reconcile(p, r, rows[r])
  <2>1. /\ q \in GoroutineType /\ q.run = proc[p].run /\ q.otherwise = Abandon
        /\ Fit(q.plan, q.spec, Live(r), flight[r], memo[r].kind)
    BY <1>2, Reconciling, Zenon
  <2>2. proc' = [proc EXCEPT ![p] = q]
    BY <1>6, Zenon DEF Become
  <2> HIDE DEF q
  <2> QED BY <1>1, <1>2, <2>1, <2>2, Rethink, Zenon
<1>7. CASE Become(p, Do(p, <<"begin">>)) /\ memo[r].kind = "none"
  <2>1. "begin" \in Steps
    BY Zenon DEF Steps, Stations
  <2>2. Standing("begin")
    BY <1>2, <1>7, RowFacts, Zenon DEF Standing
  <2> QED BY <1>1, <1>2, <1>7, <2>1, <2>2, Pass, Zenon
<1>8. /\ "failed" \in Outcome /\ "cancelled" \in Outcome
      /\ ClassifyFailure(r, "failed") \in Outcome
  BY Classified, Zenon DEF Outcome
<1> QED BY <1>3, <1>4, <1>5, <1>6, <1>7, <1>8, Zenon DEF Load, Read

\* Recording the intent to create a container.
LEMMA BeginInv ==
    ASSUME IInv, Begin("worker")
    PROVE  IInv'
<1> DEFINE p == "worker"
           r == proc[p].run
           plan == IF Pending(rows[r]) \/ rows[r].ref THEN FinishWithoutRuntime ELSE FinishPredispatch
           spec == ClassifyFailure(r, "failed")
<1>1. At(p, "begin") /\ UNCHANGED <<docker, late, boot, lifecycle, offers, memo>> /\ "begin" \in Steps
  BY Zenon DEF Begin, Read, Transact, Steps, Stations
<1>2. /\ r \in Runs /\ PlanOK(p) /\ RowOK(r) /\ Standing("begin") /\ p \in Procs
      /\ Live(r) \in BOOLEAN /\ flight[r] \in BOOLEAN /\ rows[r] \in RowType
  BY <1>1, AtStep, Zenon
<1>3. ~Live(r) /\ memo[r].kind = "none" /\ proc[p].otherwise = Abandon
  BY <1>2, Zenon DEF Standing
<1>4. /\ spec \in Outcome /\ "interrupted" \in Outcome
      /\ plan \in {FinishWithoutRuntime, FinishCreateFailure} \/ (plan = FinishPredispatch /\ ~Live(r))
  BY <1>3, Classified, Zenon DEF Outcome
<1> HIDE DEF plan, spec
<1>5. CASE UNCHANGED rows /\ \/ Become(p, Aim(p, FinishCreateFailure, "interrupted"))
                             \/ Become(p, Aim(p, plan, spec))
  BY <1>1, <1>2, <1>4, <1>5, GiveUp, Zenon
<1>6. CASE /\ CanBegin(rows[r]) /\ rows' = [rows EXCEPT ![r] = Begun(rows[r], boot)]
           /\ Become(p, Do(p, <<"recheck">>)) \/ Become(p, Aim(p, plan, spec))
  <2> DEFINE row == Begun(rows[r], boot)
  <2>1. Writes(row, r)
    BY <1>2, <1>3, <1>6, RowMoves, Zenon
  <2>2. row.intent = boot /\ row.state \in Active /\ row.staged = "none"
    BY <1>2, <1>6, Zenon DEF CanBegin, Begun, RowType, Active
  <2>3. rows'[r] = row
    BY <1>2, <1>6, Zenon DEF IInv, TypeOK
  <2> HIDE DEF row
  <2>4. CASE Become(p, Do(p, <<"recheck">>))
    <3>1. "recheck" \in Steps
      BY Zenon DEF Steps, Stations
    <3>2. ASSUME proc'["worker"].run = r, proc'["worker"].otherwise = proc["worker"].otherwise
          PROVE  Standing("recheck")'
      BY <1>1, <1>3, <2>2, <2>3, <3>2, Zenon DEF Standing, Live, docker
    <3> QED BY <1>1, <1>2, <1>6, <2>1, <2>4, <3>1, <3>2, StandRow, Zenon DEF row
  <2>5. CASE Become(p, Aim(p, plan, spec))
    <3>1. Fit(plan, spec, Live(r), flight[r], memo[r].kind)
      BY <1>2, <1>4, FitFinish
    <3>2. plan \in Seq(Ops) /\ spec \in Terminal
      BY <1>4, <3>1, Zenon DEF Fit, Terminal
    <3> DEFINE q == Aim(p, plan, spec)
    <3>3. /\ q \in GoroutineType /\ q.run = r /\ q.plan = plan /\ q.spec = spec
          /\ q.otherwise = Abandon
      BY <1>2, <3>2, Fields DEF IInv
    <3>4. proc' = [proc EXCEPT ![p] = q]
      BY <2>5 DEF Become
    <3> HIDE DEF q
    <3> QED BY <1>1, <1>2, <1>6, <2>1, <3>1, <3>3, <3>4, Transaction, Zenon DEF Writes, row
  <2> QED BY <1>6, <2>4, <2>5, Zenon
<1> QED BY <1>5, <1>6, Zenon DEF Begin, Read, Transact, plan, spec

\* Reading the row again before the Create.
LEMMA RecheckInv ==
    ASSUME IInv, Recheck("worker")
    PROVE  IInv'
<1> DEFINE p == "worker"
           r == proc[p].run
<1>1. /\ At(p, "recheck") /\ UNCHANGED <<rows, docker, late, boot, lifecycle, offers, memo>>
      /\ "recheck" \in Steps /\ "create" \in Steps
  BY Zenon DEF Recheck, Read, Steps, Stations
<1>2. r \in Runs /\ PlanOK(p) /\ Standing("recheck")
  BY <1>1, AtStep, Zenon
<1>3. ~Live(r) /\ Standing("create")
  BY <1>2, Zenon DEF Standing
<1>4. ClassifyFailure(r, "failed") \in Outcome /\ "interrupted" \in Outcome
  BY Classified, Zenon DEF Outcome
<1>5. CASE \E plan \in {FinishCreateFailure, FinishPredispatch}, spec \in Outcome : Become(p, Aim(p, plan, spec))
  BY <1>1, <1>2, <1>3, <1>5, GiveUp, Zenon
<1>6. CASE Become(p, Do(p, <<"create">>))
  BY <1>1, <1>2, <1>3, <1>6, Pass, Zenon
<1> QED BY <1>4, <1>5, <1>6, Zenon DEF Recheck, Read

\* Asking the daemon for a container.
LEMMA CreateInv ==
    ASSUME IInv, Create("worker")
    PROVE  IInv'
<1> DEFINE p == "worker"
           r == proc[p].run
<1>1. /\ At(p, "create") /\ UNCHANGED <<rows, container, starts, late, boot, lifecycle, offers, memo>>
      /\ "create" \in Steps /\ "await" \in Steps
  BY Zenon DEF Create, Steps, Stations
<1>2. r \in Runs /\ PlanOK(p) /\ RowOK(r) /\ Standing("create") /\ p \in Procs
  BY <1>1, AtStep, Zenon
<1>3. CASE UNCHANGED flight /\ Become(p, Aim(p, FinishPredispatch, ClassifyFailure(r, "failed")))
  <2>1. ClassifyFailure(r, "failed") \in Outcome /\ ~Live(r)
    BY <1>2, Classified, Zenon DEF Outcome, Standing
  <2> QED BY <1>1, <1>2, <1>3, <2>1, GiveUp DEF docker
<1>4. CASE flight' = [flight EXCEPT ![r] = TRUE] /\ Become(p, Do(p, <<"await">>))
  <2> DEFINE q == Do(p, <<"await">>)
  <2>1. <<"await">> \in Seq(Ops) /\ "none" \in Terminal
    BY DEF Ops, Terminal
  <2>2. q \in GoroutineType /\ q.run = r /\ q.otherwise = proc[p].otherwise
    BY <1>2, <2>1, Fields DEF IInv
  <2> HIDE DEF q
  <2>3. /\ proc' \in [Procs -> GoroutineType] /\ proc'[p] = q
        /\ UNCHANGED <<rows, container, starts, late, boot, up, todo, queue, offered, memo>>
        /\ flight' \in [Runs -> BOOLEAN] /\ flight'[r] /\ \A x \in Runs : x # r => flight'[x] = flight[x]
    BY <1>1, <1>2, <1>4, <2>2, Zenon DEF IInv, TypeOK, lifecycle, offers, Become, q
  <2>4. TypeOK'
    BY <2>3, Zenon DEF IInv, TypeOK
  <2>5. /\ ~Live(r) /\ memo[r].kind = "none" /\ rows[r].intent = boot /\ rows[r].state \in Active
        /\ rows[r].staged = "none" /\ proc[p].otherwise = Abandon
    BY <1>2, Zenon DEF Standing
  <2>6. \A x \in Runs : x = proc["worker"].run => RowOK(x)'
    BY <1>2, <2>3, <2>5, Zenon DEF RowOK, RowFits, MemoFits, Live
  <2>7. Standing("await")'
    BY <2>2, <2>3, <2>5, Zenon DEF Standing
  <2> QED BY <1>1, <1>2, <1>4, <2>3, <2>4, <2>5, <2>6, <2>7, Stand
<1> QED BY <1>3, <1>4, Zenon DEF Create

\* Waiting for a Create whose answer was lost.
LEMMA AwaitInv ==
    ASSUME IInv, Await("worker")
    PROVE  IInv'
<1> DEFINE p == "worker"
           r == proc[p].run
<1>1. /\ At(p, "await") /\ UNCHANGED <<rows, docker, late, boot, lifecycle, offers, memo>>
      /\ "await" \in Steps /\ "bind" \in Steps /\ "interrupted" \in Outcome
  BY Zenon DEF Await, Steps, Stations, Outcome
<1>2. r \in Runs /\ PlanOK(p) /\ Standing("await")
  BY <1>1, AtStep, Zenon
<1>3. CASE Become(p, Aim(p, FinishCreateFailure, "interrupted"))
  BY <1>1, <1>2, <1>3, GiveUp, Zenon
<1>4. CASE container[r] # "none" /\ Become(p, Do(p, <<"bind">>))
  <2>1. Standing("bind")
    BY <1>2, <1>4, Zenon DEF Standing
  <2> QED BY <1>1, <1>2, <1>4, <2>1, Pass, Zenon
<1> QED BY <1>3, <1>4, Zenon DEF Await

\* Recording the reference of the container.
LEMMA BindInv ==
    ASSUME IInv, Bind("worker")
    PROVE  IInv'
<1> DEFINE p == "worker"
           r == proc[p].run
           plan == <<"cleanup", "clear">> \o FinishWithoutRuntime
           spec == ClassifyFailure(r, "failed")
           done == AimOrElse(p, FinishWithRuntime, "cancelled", <<"cleanup">>)
           undone == Aim(p, plan, spec)
<1>1. At(p, "bind") /\ UNCHANGED <<docker, late, boot, lifecycle, offers, memo>> /\ "bind" \in Steps
  BY Zenon DEF Bind, Transact, Steps, Stations
<1>2. /\ r \in Runs /\ PlanOK(p) /\ RowOK(r) /\ Standing("bind") /\ p \in Procs
      /\ Live(r) \in BOOLEAN /\ flight[r] \in BOOLEAN /\ rows[r] \in RowType
  BY <1>1, AtStep, Zenon
<1>3. /\ container[r] # "none" /\ rows[r].intent = boot /\ rows[r].state \in Active /\ rows[r].staged = "none"
      /\ ~flight[r] /\ spec \in Outcome /\ "cancelled" \in Outcome
  BY <1>2, RowFacts, Classified, Zenon DEF Standing, Outcome
<1>4. /\ Fit(plan, spec, Live(r), flight[r], memo[r].kind)
      /\ Fit(FinishWithRuntime, "cancelled", Live(r), flight[r], memo[r].kind)
  BY <1>2, <1>3, FitFinish, Zenon
<1>5. plan \in Seq(Ops) /\ spec \in Terminal /\ FinishWithRuntime \in Seq(Ops) /\ "cancelled" \in Terminal
  BY <1>3, <1>4, Zenon DEF Fit, Terminal
<1> HIDE DEF plan, spec
<1>6. /\ undone \in GoroutineType /\ undone.run = r /\ undone.plan = plan /\ undone.spec = spec
      /\ undone.otherwise = Abandon
  BY <1>2, <1>5, Fields DEF IInv
<1>7. /\ done \in GoroutineType /\ done.run = r /\ done.plan = FinishWithRuntime /\ done.spec = "cancelled"
  BY <1>2, <1>5, AimWith DEF IInv
<1>8. PICK q \in {done, undone, Do(p, <<"attach">>)} :
          /\ proc' = [proc EXCEPT ![p] = q]
          /\ \/ rows' = [rows EXCEPT ![r] = Bound(rows[r])] /\ CanBind(rows[r])
             \/ UNCHANGED rows /\ q = undone
  BY Zenon DEF Bind, Transact, Become, plan, spec
<1>9. CanBind(rows[r]) => Writes(Bound(rows[r]), r)
  BY <1>2, <1>3, RowMoves, Zenon
<1> HIDE DEF done, undone
<1>10. CASE UNCHANGED rows /\ q = undone
  BY <1>1, <1>2, <1>4, <1>6, <1>8, <1>10, Rethink, Zenon
<1>11. CASE rows' = [rows EXCEPT ![r] = Bound(rows[r])] /\ CanBind(rows[r])
  <2>1. CASE q = undone
    BY <1>1, <1>2, <1>4, <1>6, <1>8, <1>9, <1>11, <2>1, Transaction, Zenon DEF Writes
  <2>2. CASE q = done
    BY <1>1, <1>2, <1>3, <1>4, <1>7, <1>8, <1>9, <1>11, <2>2, Transaction, Zenon DEF Writes
  <2>3. CASE q = Do(p, <<"attach">>)
    <3>1. rows'[r] = Bound(rows[r]) /\ "attach" \in Steps
      BY <1>2, <1>11, Zenon DEF IInv, TypeOK, Steps, Stations
    <3>2. starts[r] = 0
      BY <1>2, <1>3, SandboxAssumption DEF RowOK, RowFits, Pending, NoBoot, Published, Outcome, Active, IInv, TypeOK
    <3>3. Bound(rows[r]).ref /\ Bound(rows[r]).state = rows[r].state /\ Bound(rows[r]).staged = rows[r].staged
      BY <1>2, Shapes, Zenon
    <3>4. ASSUME proc'["worker"].run = r PROVE Standing("attach")'
      BY <1>1, <1>3, <3>1, <3>2, <3>3, <3>4, Zenon DEF Standing, docker
    <3> QED BY <1>1, <1>2, <1>8, <1>9, <1>11, <2>3, <3>1, <3>4, StandRow, Zenon DEF Become
  <2> QED BY <1>8, <2>1, <2>2, <2>3
<1> QED BY <1>8, <1>10, <1>11, Zenon

\* Attaching to the container and starting it.
LEMMA AttachInv ==
    ASSUME IInv, Attach("worker")
    PROVE  IInv'
<1> DEFINE p == "worker"
           r == proc[p].run
           spec == ClassifyFailure(r, "failed")
           other == <<"cleanup">>
           q == AimOrElse(p, FinishWithRuntime, spec, other)
<1>1. /\ At(p, "attach") /\ UNCHANGED <<rows, flight, late, boot, lifecycle, offers, memo>>
      /\ "attach" \in Steps /\ "bridge" \in Steps
  BY Zenon DEF Attach, Steps, Stations
<1>2. /\ r \in Runs /\ r # NoRun /\ PlanOK(p) /\ RowOK(r) /\ Standing("attach") /\ p \in Procs
      /\ Live(r) \in BOOLEAN /\ flight[r] \in BOOLEAN /\ rows[r] \in RowType
  BY <1>1, AtStep, SandboxAssumption, Zenon
<1>3. /\ container[r] # "none" /\ rows[r].ref /\ ~flight[r] /\ Live(r) = TRUE
      /\ spec \in Outcome
  BY <1>2, RowFacts, Classified, Zenon DEF Standing, Outcome, Live
<1>4. Fit(FinishWithRuntime, spec, Live(r), flight[r], memo[r].kind)
  BY <1>2, <1>3, FitFinish, Zenon
<1>5. FinishWithRuntime \in Seq(Ops) /\ spec \in Terminal /\ other \in {<<"cleanup">>, <<"cleanup", "confirm">>}
  BY <1>3, <1>4, Zenon DEF Fit, Terminal
<1> HIDE DEF spec, other
<1>6. /\ q \in GoroutineType /\ q.run = r /\ q.plan = FinishWithRuntime /\ q.spec = spec
  BY <1>2, <1>5, AimWith DEF IInv
<1> HIDE DEF q
<1>7. CASE UNCHANGED <<container, starts>> /\ proc' = [proc EXCEPT ![p] = q]
  BY <1>1, <1>2, <1>3, <1>4, <1>6, <1>7, Rethink, Zenon DEF docker
<1>8. CASE Launch(r)
  <2>1. /\ UNCHANGED <<rows, flight, late, boot, up, todo, queue, offered, memo>>
        /\ container' \in [Runs -> {"none", "stopped", "running"}] /\ starts' \in [Runs -> Nat]
        /\ container'[r] = "running"
        /\ \A x \in Runs : x # r => container'[x] = container[x] /\ starts'[x] = starts[x]
    BY <1>1, <1>2, <1>8 DEF Launch, IInv, TypeOK, lifecycle, offers
  <2>2. \A x \in Runs : x = proc["worker"].run => RowOK(x)'
    BY <1>2, <1>3, <2>1, Zenon DEF RowOK, RowFits, MemoFits, Live
  <2>3. CASE Become(p, Do(p, <<"bridge">>))
    <3>1. <<"bridge">> \in Seq(Ops) /\ "none" \in Terminal
      BY DEF Ops, Terminal
    <3>2. Do(p, <<"bridge">>) \in GoroutineType /\ Do(p, <<"bridge">>).run = r
      BY <1>2, <3>1, Fields, Zenon DEF IInv
    <3>3. proc' \in [Procs -> GoroutineType] /\ proc'[p].run = r
      BY <1>2, <2>3, <3>2, Zenon DEF Become, IInv, TypeOK
    <3>4. TypeOK'
      BY <2>1, <3>3, Zenon DEF IInv, TypeOK
    <3>5. Standing("bridge")'
      BY <1>3, <2>1, <3>3, Zenon DEF Standing
    <3> QED BY <1>1, <1>2, <1>3, <2>1, <2>2, <2>3, <3>4, <3>5, Stand, Zenon
  <2>4. CASE proc' = [proc EXCEPT ![p] = q]
    <3>1. proc' \in [Procs -> GoroutineType] /\ proc'[p] = q /\ \A x \in Procs : x # p => proc'[x] = proc[x]
      BY <1>2, <1>6, <2>4, Zenon DEF IInv, TypeOK
    <3>2. TypeOK'
      BY <2>1, <3>1, Zenon DEF IInv, TypeOK
    <3>3. PlanOK(p)'
      <4>1. (flight'[r] \/ container'[r] # "none") = TRUE /\ flight'[r] = flight[r] /\ memo'[r] = memo[r]
        BY <1>2, <2>1, Zenon
      <4> QED BY <1>2, <1>3, <1>4, <1>6, <3>1, <4>1, Zenon DEF PlanOK, Live, Fit
    <3>4. Quiet(proc'[p])
      BY <1>4, <1>6, <3>1, Zenon DEF Quiet, Fit
    <3>5. p # "reconciler"
      OBVIOUS
    <3> QED BY <1>2, <1>6, <2>1, <2>2, <3>1, <3>2, <3>3, <3>4, <3>5, Turn
  <2> QED BY <1>8, <2>3, <2>4, Zenon DEF Attach, Become, q, spec, other
<1> QED BY <1>7, <1>8, Zenon DEF Attach, Become, q, spec, other

\* The bridge: the first frame, the outcome frame, and its return.
LEMMA BridgeInv ==
    ASSUME IInv, BridgeStarted("worker") \/ BridgeOutcome("worker") \/ BridgeReturns("worker")
    PROVE  IInv'
<1> DEFINE p == "worker"
           r == proc[p].run
<1>1. /\ UNCHANGED <<docker, late, boot, lifecycle, offers, memo>>
      /\ {"bridge", "stream", "settle"} \subseteq Steps
  BY Zenon DEF BridgeStarted, BridgeOutcome, BridgeReturns, Transact, Steps, Stations
<1>2. PICK op \in {"bridge", "stream"} : At(p, op)
  BY Zenon DEF BridgeStarted, BridgeOutcome, BridgeReturns
<1>3. /\ r \in Runs /\ PlanOK(p) /\ rows[r].ref /\ rows[r] \in RowType
  BY <1>1, <1>2, AtStep, Zenon DEF Standing
<1>4. PICK op2 \in {"stream", "settle"} : Become(p, Do(p, <<op2>>))
  BY Zenon DEF BridgeStarted, BridgeOutcome, BridgeReturns, Transact
<1>5. CASE UNCHANGED rows
  <2>1. Standing(op2)
    BY <1>3, Zenon DEF Standing
  <2> QED BY <1>1, <1>3, <1>4, <1>5, <2>1, Pass, Zenon
<1>6. CASE \E row : Writes(row, r) /\ row.ref /\ rows' = [rows EXCEPT ![r] = row]
  <2>1. PICK row : Writes(row, r) /\ row.ref /\ rows' = [rows EXCEPT ![r] = row]
    BY <1>6, Zenon
  <2>2. rows'[r] = row
    BY <1>3, <2>1, Zenon DEF IInv, TypeOK
  <2>3. ASSUME proc'["worker"].run = r PROVE Standing(op2)'
    BY <2>1, <2>2, <2>3, Zenon DEF Standing
  <2> QED BY <1>1, <1>3, <1>4, <2>1, <2>3, StandRow, Zenon
<1>7. /\ CanStart(rows[r]) => Writes(Running(rows[r]), r) /\ Running(rows[r]).ref
      /\ \A o \in Outcome : CanStage(rows[r], o) => Writes(Staged(rows[r], o), r) /\ Staged(rows[r], o).ref
  BY <1>3, RowMoves, Zenon DEF Running, Staged, RowType
<1> QED BY <1>5, <1>6, <1>7, Zenon DEF BridgeStarted, BridgeOutcome, BridgeReturns, Transact, Outcome

\* Deciding the outcome after the bridge.
LEMMA SettleInv ==
    ASSUME IInv, Settle("worker")
    PROVE  IInv'
<1> DEFINE p == "worker"
           r == proc[p].run
           other == <<"cleanup", "confirm">>
<1>1. /\ At(p, "settle") /\ UNCHANGED <<rows, docker, late, boot, lifecycle, offers, memo>>
      /\ "settle" \in Steps
  BY Zenon DEF Settle, Read, Steps, Stations
<1>2. /\ r \in Runs /\ PlanOK(p) /\ Standing("settle") /\ p \in Procs
      /\ Live(r) \in BOOLEAN /\ flight[r] \in BOOLEAN
  BY <1>1, AtStep, Zenon
<1>3. ~flight[r]
  BY <1>2, RowFacts, Zenon DEF Standing
<1>4. \/ Become(p, Do(p, <<"forget", "cleanup", "confirm">>))
      \/ Become(p, Do(p, <<"cleanup", "confirm">>))
      \/ \E cause \in {"failed", "interrupted"} :
             Become(p, AimOrElse(p, FinishWithRuntime, ClassifyFailure(r, cause), other))
  BY Zenon DEF Settle, Read
<1>5. CASE Become(p, Do(p, <<"forget", "cleanup", "confirm">>)) \/ Become(p, Do(p, <<"cleanup", "confirm">>))
  BY <1>1, <1>2, <1>3, <1>5, FitShort, RethinkDo, Zenon
<1>6. ASSUME NEW cause \in {"failed", "interrupted"},
             Become(p, AimOrElse(p, FinishWithRuntime, ClassifyFailure(r, cause), other))
      PROVE  IInv'
  <2> DEFINE spec == ClassifyFailure(r, cause)
             q == AimOrElse(p, FinishWithRuntime, spec, other)
  <2>1. spec \in Outcome
    BY Classified, Zenon DEF Outcome
  <2>2. Fit(FinishWithRuntime, spec, Live(r), flight[r], memo[r].kind)
    BY <1>2, <1>3, <2>1, FitFinish, Zenon
  <2>3. FinishWithRuntime \in Seq(Ops) /\ spec \in Terminal /\ other \in {<<"cleanup">>, <<"cleanup", "confirm">>}
    BY <2>1, <2>2, Zenon DEF Fit, Terminal
  <2> HIDE DEF spec, other
  <2>4. /\ q \in GoroutineType /\ q.run = r /\ q.plan = FinishWithRuntime /\ q.spec = spec
    BY <1>2, <2>3, AimWith DEF IInv
  <2>5. proc' = [proc EXCEPT ![p] = q]
    BY <1>6, Zenon DEF Become, spec
  <2> HIDE DEF q
  <2> QED BY <1>1, <1>2, <1>3, <2>2, <2>4, <2>5, Rethink, Zenon
<1> QED BY <1>4, <1>5, <1>6, Zenon

-----------------------------------------------------------------------------

\* The worker taking a Run from the queue.
LEMMA ExecuteOfferInv ==
    ASSUME IInv, ExecuteOffer
    PROVE  IInv'
<1>1. /\ UNCHANGED <<rows, container, flight, starts, late, boot, memo, up, todo>>
      /\ up = "up" /\ At("worker", "dequeue") /\ queue # <<>> /\ queue' = Tail(queue)
  BY Zenon DEF ExecuteOffer, docker, lifecycle
<1>2. Head(queue) \in Runs /\ queue' \in Seq(Runs)
  BY <1>1 DEF IInv, TypeOK
<1> PICK r \in Runs : r = Head(queue)
  BY <1>2, Zenon
<1> DEFINE q1 == [Idle EXCEPT !.run = r]
           q == [q1 EXCEPT !.plan = <<"load">>]
<1>3. proc["worker"].run = NoRun /\ \A x \in Runs : ~Held(rows[x])
  BY <1>1, IdleFacts, Zenon DEF IInv, WorkerOK, At
<1>4. /\ q \in GoroutineType /\ q.run = r /\ q.plan = <<"load">> /\ q.otherwise = Abandon
      /\ q.plan # <<>> /\ Head(q.plan) = "load"
  <2>1. q1 \in GoroutineType /\ q1.run = r /\ q1.otherwise = Abandon
    BY IdleFacts, Zenon DEF GoroutineType
  <2>2. <<"load">> \in Seq(Ops) /\ <<"load">> # <<>> /\ Head(<<"load">>) = "load"
    BY DEF Ops
  <2> HIDE DEF q1
  <2>3. q \in GoroutineType /\ q.run = r /\ q.plan = <<"load">> /\ q.otherwise = Abandon
    BY <2>1, <2>2, Zenon DEF GoroutineType
  <2> HIDE DEF q
  <2> QED BY <2>2, <2>3, Zenon
<1> HIDE DEF q
<1>5. \A x \in Runs : ~Held(rows'[x])
  BY <1>1, <1>3, Zenon
<1>6. CASE offered[r] \in {"none", "reconciling"}
  <2>1. /\ proc' \in [Procs -> GoroutineType] /\ proc'["worker"] = Idle /\ UNCHANGED offered
        /\ \A x \in Procs : x # "worker" => proc'[x] = proc[x]
    BY <1>6, IdleFacts DEF ExecuteOffer, Become, IInv, TypeOK, Procs
  <2>2. WorkerOK'
    BY <2>1, IdleFacts, Zenon DEF WorkerOK
  <2>3. \A p \in Procs : proc'[p] = proc[p] \/ PlanOK(p)'
    BY <2>1, IdleFacts, Zenon DEF PlanOK
  <2>4. Owners'
    BY <1>1, <2>1, IdleFacts, Zenon DEF IInv, Owners, Owned, Procs
  <2> QED BY <1>1, <1>2, <2>1, <2>2, <2>3, <2>4, ElsewhereInv, SMTT(30) DEF IInv, TypeOK
<1>7. CASE offered[r] \notin {"none", "reconciling"}
  <2>1. /\ proc' \in [Procs -> GoroutineType] /\ proc'["worker"] = q
        /\ \A x \in Procs : x # "worker" => proc'[x] = proc[x]
        /\ offered' = [offered EXCEPT ![r] = "active"]
    BY <1>4, <1>7 DEF ExecuteOffer, Become, IInv, TypeOK, Procs, q, q1
  <2>2. /\ offered' \in [Runs -> {"none", "queued", "active", "reconciling"}]
        /\ offered'[r] = "active" /\ \A x \in Runs : x # r => offered'[x] = offered[x]
    BY <1>2, <2>1, Zenon DEF IInv, TypeOK
  <2>3. WorkerOK'
    BY <1>2, <1>4, <1>5, <2>1, SandboxAssumption, Zenon DEF WorkerOK, Standing
  <2>4. PlanOK("worker")'
    <3>1. Sound(<<"load">>, q.spec, Live(r), flight[r], memo[r].kind)
      BY RowFacts, FitShort DEF Stations
    <3>2. Sound(q.plan, q.spec, Live(r), flight[r], memo[r].kind)
      BY <1>4, <3>1, Zenon
    <3> QED BY <1>1, <1>4, <2>1, <3>2, Zenon DEF PlanOK, Live
  <2>5. Owners'
    <3>1. proc["reconciler"].run \in Runs \cup {NoRun}
      BY Zenon DEF IInv, TypeOK, GoroutineType, Procs
    <3> QED BY <1>1, <1>2, <1>4, <1>7, <2>1, <2>2, <3>1, Zenon DEF IInv, Owners, Owned, Procs
  <2>6. \A p \in Procs : proc'[p] = proc[p] \/ PlanOK(p)'
    BY <2>1, <2>4, Zenon
  <2> QED BY <1>1, <1>2, <2>1, <2>2, <2>3, <2>5, <2>6, ElsewhereInv, SMTT(30) DEF IInv, TypeOK
<1> QED BY <1>6, <1>7, Zenon
=============================================================================
