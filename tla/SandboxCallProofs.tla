-------------------------- MODULE SandboxCallProofs ---------------------------
(***************************************************************************)
(* The calls that both goroutines make to bring a Run to its end, and the  *)
(* passes of the reconciler, preserve the inductive invariant.             *)
(***************************************************************************)
EXTENDS SandboxProofs

\* Deciding how to end a Run with or without a container.
LEMMA FinishInv ==
    ASSUME IInv, NEW p \in Procs, Finish(p)
    PROVE  IInv'
<1> DEFINE r == proc[p].run
           plan == IF rows[r].ref \/ Pending(rows[r]) THEN UnderAuthority(rows[r])
                   ELSE IF Decided(rows[r]) THEN <<"forget">>
                   ELSE <<"lookup", "commit", "forget", "confirm">>
<1>1. /\ "finish" \in Ops /\ At(p, "finish") /\ "finish" \in Deciding
      /\ Become(p, Do(p, plan)) \/ Become(p, Do(p, Abandon))
      /\ UNCHANGED <<rows, docker, late, boot, lifecycle, offers, memo>>
  BY Zenon DEF Finish, Read, Ops, Deciding
<1>2. r \in Runs /\ (p = "worker" \/ Owned(p)) /\ PlanOK(p) /\ proc[p].spec \in Outcome
  BY <1>1, AtCall, Zenon
<1>3. /\ Live(r) \in BOOLEAN /\ flight[r] \in BOOLEAN /\ rows[r] \in RowType
      /\ rows[r].ref => ~flight[r]
  BY <1>2, RowFacts, Zenon
<1>4. /\ Fit(UnderAuthority(rows[r]), proc[p].spec, Live(r), flight[r], memo[r].kind)
      /\ Fit(<<"lookup", "commit", "forget", "confirm">>, proc[p].spec, Live(r), flight[r], memo[r].kind)
      /\ Fit(<<"forget">>, proc[p].spec, Live(r), flight[r], memo[r].kind)
      /\ Fit(Abandon, proc[p].spec, Live(r), flight[r], memo[r].kind)
  BY <1>2, <1>3, FitShort, FitFinish, FitUnderAuthority, Zenon
<1>5. Fit(plan, proc[p].spec, Live(r), flight[r], memo[r].kind)
  BY <1>4, Zenon
<1> HIDE DEF plan
<1> QED BY <1>1, <1>2, <1>4, <1>5, RethinkDo, Zenon

\* Deciding how to end a Run whose Create failed.
LEMMA FinishCreateInv ==
    ASSUME IInv, NEW p \in Procs, FinishCreate(p)
    PROVE  IInv'
<1> DEFINE r == proc[p].run
           plan == UnderAuthority(rows[r])
<1>1. /\ "finishCreate" \in Ops /\ At(p, "finishCreate") /\ "finishCreate" \in Deciding
      /\ Become(p, Do(p, plan)) \/ Become(p, Do(p, Abandon))
      /\ UNCHANGED <<rows, docker, late, boot, lifecycle, offers, memo>>
  BY Zenon DEF FinishCreate, Read, Ops, Deciding
<1>2. r \in Runs /\ (p = "worker" \/ Owned(p)) /\ PlanOK(p) /\ proc[p].spec \in Outcome
  BY <1>1, AtCall, Zenon
<1>3. Fit(plan, proc[p].spec, Live(r), flight[r], memo[r].kind)
  BY <1>2, RowFacts, FitUnderAuthority, Zenon
<1>4. Fit(Abandon, proc[p].spec, Live(r), flight[r], memo[r].kind)
  BY <1>2, RowFacts, FitShort, Zenon
<1> HIDE DEF plan
<1> QED BY <1>1, <1>2, <1>3, <1>4, RethinkDo, Zenon

\* Looking for the container of an uncertain Create.
LEMMA LookupInv ==
    ASSUME IInv, NEW p \in Procs, Lookup(p)
    PROVE  IInv'
<1> DEFINE r == proc[p].run
           proved == IF Pending(rows[r]) THEN <<"clear">> \o Rest(p) ELSE Rest(p)
           plan == IF container[r] # "none" THEN <<"cleanup">> \o proved
                   ELSE IF ~Pending(rows[r]) \/ AbsenceIsProof(rows[r]) THEN proved ELSE Abandon
<1>1. /\ "lookup" \in Ops /\ At(p, "lookup")
      /\ Become(p, Do(p, plan)) \/ Become(p, Do(p, Abandon))
      /\ UNCHANGED <<rows, docker, late, boot, lifecycle, offers, memo>>
  BY Zenon DEF Lookup, Read, Ops
<1>2. r \in Runs /\ (p = "worker" \/ Owned(p)) /\ PlanOK(p)
  BY <1>1, AtCall, Zenon
<1>3. Fit(Abandon, proc[p].spec, Live(r), flight[r], memo[r].kind)
  BY <1>2, RowFacts, FitShort, ZenonT(60)
<1>4. Fit(plan, proc[p].spec, Live(r), flight[r], memo[r].kind)
  <2>1. /\ Fit(Rest(p), proc[p].spec, FALSE, flight[r], memo[r].kind)
        /\ Plain(Rest(p))
    BY <1>1, FitRest, Zenon
  <2>2. ~flight[r] => /\ Fit(proved, proc[p].spec, FALSE, flight[r], memo[r].kind)
                      /\ Plain(proved)
    BY <1>2, <2>1, RowFacts, FitRemoval, ZenonT(60) DEF Fit
  <2> HIDE DEF proved
  <2>4. CASE container[r] # "none"
    <3>1. ~flight[r] /\ flight[r] \in BOOLEAN /\ Live(r) \in BOOLEAN
      BY <1>2, <2>4, RowFacts, Zenon
    <3> QED BY <2>2, <2>4, <3>1, FitRemoval, Zenon DEF Fit
  <2>5. CASE container[r] = "none"
    BY <1>2, <1>3, <2>2, <2>5, RowFacts, Zenon DEF AbsenceIsProof, Live
  <2> QED BY <2>4, <2>5, Zenon
<1> HIDE DEF plan
<1> QED BY <1>1, <1>2, <1>3, <1>4, RethinkDo, Zenon

\* Choosing how an outcome is committed.
LEMMA CommitInv ==
    ASSUME IInv, NEW p \in Procs, Commit(p)
    PROVE  IInv'
<1> DEFINE r == proc[p].run
           spec == Precedence(rows[r], proc[p].spec)
           plan == <<"stage">> \o Rest(p)
           q == [Do(p, plan) EXCEPT !.spec = Precedence(rows[r], @)]
<1>1. /\ "commit" \in Ops /\ At(p, "commit") /\ "commit" \in Deciding
      /\ Become(p, Continue(p)) \/ Become(p, q) \/ Become(p, Do(p, proc[p].otherwise))
      /\ UNCHANGED <<rows, docker, late, boot, lifecycle, offers, memo>>
  BY DEF Commit, Read, Ops, Deciding
<1>2. /\ r \in Runs /\ (p = "worker" \/ Owned(p)) /\ PlanOK(p) /\ proc[p].spec \in Outcome
      /\ proc[p] \in GoroutineType
  BY <1>1, AtCall, Zenon
<1>3. /\ Fit(Rest(p), proc[p].spec, Live(r), flight[r], memo[r].kind)
      /\ Plain(Rest(p))
      /\ Fit(proc[p].otherwise, proc[p].spec, Live(r), flight[r], memo[r].kind)
  BY <1>1, FitRest, Zenon
<1>4. CASE Become(p, Continue(p))
  BY <1>1, <1>2, <1>3, <1>4, RethinkDo, Zenon DEF Continue
<1>5. CASE Become(p, Do(p, proc[p].otherwise))
  BY <1>1, <1>2, <1>3, <1>5, RethinkDo, Zenon
<1>6. CASE Become(p, q)
  <2>1. spec \in Outcome
    BY <1>2, Zenon DEF Precedence, Outcome
  <2>2. Sound(Rest(p), spec, Live(r), flight[r], memo[r].kind)
    BY <1>3, <2>1, Zenon DEF Fit, Sound
  <2>3. "stage" \in Ops /\ "stage" \notin Stations
    BY DEF Ops, Stations
  <2> HIDE DEF spec
  <2>4. Fit(plan, spec, Live(r), flight[r], memo[r].kind)
    BY <1>3, <2>1, <2>2, <2>3, SoundMore, MoreShape, ZenonT(60) DEF Fit
  <2>5. plan \in Seq(Ops)
    BY <2>4, Zenon DEF Fit
  <2> HIDE DEF plan
  <2>6. /\ q \in GoroutineType /\ q.run = r /\ q.plan = plan /\ q.spec = spec
        /\ q.otherwise = proc[p].otherwise
    BY <1>2, <2>1, <2>5, Zenon DEF GoroutineType, Do, spec, Terminal
  <2>7. q.otherwise # Abandon => p = "worker" /\ ~flight[q.run]
    BY <1>2, <2>6, SandboxAssumption, Zenon DEF IInv, PlanOK, Owners, Procs
  <2>8. proc' = [proc EXCEPT ![p] = q]
    BY <1>6 DEF Become
  <2> HIDE DEF q
  <2> QED BY <1>1, <1>2, <2>4, <2>6, <2>7, <2>8, Rethink, Zenon
<1> QED BY <1>1, <1>4, <1>5, <1>6

\* Writing or dropping the memo of a Run.
LEMMA NoteInv ==
    ASSUME IInv, NEW p \in Procs, NEW op \in {"remember", "prove", "forget"}, At(p, op),
           NEW m, Note(p, m),
           \/ op = "forget" /\ m = NoMemo
           \/ op = "remember" /\ m = [kind |-> "desired", spec |-> proc[p].spec]
           \/ op = "prove" /\ m = [kind |-> "predispatch", spec |-> proc[p].spec]
    PROVE  IInv'
<1> DEFINE r == proc[p].run
<1>1. op \in Ops /\ op # "dequeue" /\ op \notin Stations /\ (op # "forget" => op \in Deciding)
  BY Zenon DEF Ops, Deciding, Stations
<1>2. /\ r \in Runs /\ r # NoRun /\ (p = "worker" \/ Owned(p)) /\ PlanOK(p) /\ RowOK(r)
      /\ op # "forget" => proc[p].spec \in Outcome
      /\ proc[p].plan \in Seq(Ops) /\ proc[p].plan # <<>> /\ Head(proc[p].plan) = op
      /\ 1 \in 1..Len(proc[p].plan) /\ proc[p].plan[1] = op
  BY <1>1, AtCall, Zenon
<1>3. Sound(proc[p].plan, proc[p].spec, Live(r), flight[r], memo[r].kind)
  BY <1>2, Zenon DEF PlanOK
<1>4. /\ m.kind # "none" => m.spec \in Outcome
      /\ m.kind \in {"predispatch", "certain"} => ~Live(r)
      /\ op = "prove" => m.kind = "predispatch"
      /\ m \in [kind : {"none", "desired", "predispatch", "certain"}, spec : Terminal]
  BY <1>2, <1>3 DEF Sound, NoMemo, Terminal
<1>5. /\ Rest(p) \in Seq(Ops) /\ Sound(Rest(p), proc[p].spec, Live(r), flight[r], m.kind)
      /\ Rest(p) # <<>> => Head(Rest(p)) \notin Stations
  <2>1. Live(r) \in BOOLEAN
    BY <1>2, RowFacts, Zenon
  <2>2. Head(proc[p].plan) \notin {"cleanup", "lookup"} /\ (Head(proc[p].plan) = "prove" => m.kind = "predispatch")
    BY <1>2, <1>4, Zenon
  <2> QED BY <1>2, <1>3, <2>1, <2>2, SoundTail, Zenon DEF Rest
<1> DEFINE q == Continue(p)
<1>6. /\ q \in GoroutineType /\ q.run = r /\ q.plan = Rest(p) /\ q.spec = proc[p].spec
      /\ q.otherwise = proc[p].otherwise
  BY <1>5, Fields, Zenon DEF Continue, IInv, Terminal
<1> HIDE DEF q
<1>7. /\ proc' \in [Procs -> GoroutineType] /\ proc'[p] = q /\ \A x \in Procs : x # p => proc'[x] = proc[x]
      /\ UNCHANGED <<rows, container, flight, starts, late, boot, up, todo, queue, offered>>
      /\ memo' \in [Runs -> [kind : {"none", "desired", "predispatch", "certain"}, spec : Terminal]]
      /\ memo'[r] = m /\ \A x \in Runs : x # r => memo'[x] = memo[x]
  BY <1>2, <1>4, <1>6, Zenon DEF IInv, TypeOK, Note, Become, docker, lifecycle, offers, q
<1>8. TypeOK'
  BY <1>7, Zenon DEF IInv, TypeOK
<1>9. \A x \in Runs : x = proc[p].run => RowOK(x)'
  BY <1>2, <1>4, <1>7, Zenon DEF RowOK, RowFits, MemoFits, Live
<1>10. PlanOK(p)'
  BY <1>2, <1>5, <1>6, <1>7, Zenon DEF PlanOK, Live
<1>11. Quiet(proc'[p])
  BY <1>5, <1>6, <1>7, Zenon DEF Quiet
<1>12. p = "reconciler" => proc'[p].otherwise = Abandon
  BY <1>6, <1>7, Zenon DEF IInv, Owners
<1> HIDE DEF r
<1> QED BY <1>2, <1>6, <1>7, <1>8, <1>9, <1>10, <1>11, <1>12, Turn DEF Procs, r

\* The three calls that write a memo.
LEMMA NotedInv ==
    ASSUME IInv, NEW p \in Procs, Remember(p) \/ Prove(p) \/ Forget(p)
    PROVE  IInv'
<1> DEFINE desired == [kind |-> "desired", spec |-> proc[p].spec]
           proved == [kind |-> "predispatch", spec |-> proc[p].spec]
<1>1. CASE At(p, "remember") /\ Note(p, desired)
  BY <1>1, NoteInv, Zenon
<1>2. CASE At(p, "prove") /\ Note(p, proved)
  BY <1>2, NoteInv, Zenon
<1>3. CASE At(p, "forget") /\ Note(p, NoMemo)
  BY <1>3, NoteInv, Zenon
<1> QED BY <1>1, <1>2, <1>3, Zenon DEF Remember, Prove, Forget

\* Staging the outcome in the database.
LEMMA StageInv ==
    ASSUME IInv, NEW p \in Procs, Stage(p)
    PROVE  IInv'
<1> DEFINE r == proc[p].run
           spec == proc[p].spec
<1>1. /\ "stage" \in Ops /\ At(p, "stage") /\ "stage" \in Deciding
      /\ Transact(p, CanStage(rows[r], spec), Staged(rows[r], spec), Do(p, Rest(p)), Do(p, proc[p].otherwise))
  BY Zenon DEF Stage, Ops, Deciding, Continue
<1>2. r \in Runs /\ (p = "worker" \/ Owned(p)) /\ PlanOK(p) /\ spec \in Outcome
  BY <1>1, AtCall, Zenon
<1>3. /\ Fit(Rest(p), spec, Live(r), flight[r], memo[r].kind)
      /\ Fit(proc[p].otherwise, spec, Live(r), flight[r], memo[r].kind)
  BY <1>1, FitRest, Zenon
<1>4. CanStage(rows[r], spec) =>
          /\ Staged(rows[r], spec) \in RowType /\ RowFits(Staged(rows[r], spec), r)
          /\ Held(Staged(rows[r], spec)) => Held(rows[r])
  BY <1>2, RowMoves, Zenon DEF Writes
<1> QED BY <1>1, <1>2, <1>3, <1>4, TransactInv, Zenon

\* Clearing the intent of a Run.
LEMMA ClearInv ==
    ASSUME IInv, NEW p \in Procs, Clear(p)
    PROVE  IInv'
<1> DEFINE r == proc[p].run
<1>1. At(p, "clear")
  BY Zenon DEF Clear
<1>2. /\ r \in Runs /\ (p = "worker" \/ Owned(p)) /\ PlanOK(p) /\ ~Live(r)
      /\ Fit(Rest(p), proc[p].spec, Live(r), flight[r], memo[r].kind)
      /\ Fit(Abandon, proc[p].spec, Live(r), flight[r], memo[r].kind)
  BY <1>1, AtRelease, Zenon
<1>3. Cleared(rows[r]) \in RowType /\ RowFits(Cleared(rows[r]), r) /\ (Held(Cleared(rows[r])) => Held(rows[r]))
  BY <1>2, RowMoves, Zenon DEF Writes
<1>4. CASE Pending(rows[r])
  <2>1. Transact(p, CanClear(rows[r]), Cleared(rows[r]), Do(p, Rest(p)), Do(p, Abandon))
    BY <1>4, Zenon DEF Clear, Continue
  <2> QED BY <1>2, <1>3, <2>1, TransactInv, Zenon
<1>5. CASE ~Pending(rows[r])
  <2>1. /\ Become(p, Do(p, Rest(p))) \/ Become(p, Do(p, Abandon))
        /\ UNCHANGED <<rows, docker, late, boot, lifecycle, offers, memo>>
    BY <1>5, Zenon DEF Clear, Continue, Read
  <2> QED BY <1>2, <2>1, RethinkDo, Zenon
<1> QED BY <1>4, <1>5, Zenon

\* Confirming the removal and publishing.
LEMMA ConfirmInv ==
    ASSUME IInv, NEW p \in Procs, Confirm(p)
    PROVE  IInv'
<1> DEFINE r == proc[p].run
<1>1. /\ At(p, "confirm")
      /\ Transact(p, CanConfirm(rows[r]), Confirmed(rows[r]), Do(p, Rest(p)), Do(p, Abandon))
  BY Zenon DEF Confirm, Continue
<1>2. /\ r \in Runs /\ (p = "worker" \/ Owned(p)) /\ PlanOK(p) /\ ~Live(r)
      /\ Fit(Rest(p), proc[p].spec, Live(r), flight[r], memo[r].kind)
      /\ Fit(Abandon, proc[p].spec, Live(r), flight[r], memo[r].kind)
  BY <1>1, AtRelease, Zenon
<1>3. CanConfirm(rows[r]) => /\ Confirmed(rows[r]) \in RowType /\ RowFits(Confirmed(rows[r]), r)
                             /\ Held(Confirmed(rows[r])) => Held(rows[r])
  BY <1>2, RowMoves, Zenon DEF Writes
<1> QED BY <1>1, <1>2, <1>3, TransactInv, Zenon

\* Removing the container.
LEMMA CleanupInv ==
    ASSUME IInv, NEW p \in Procs, Cleanup(p)
    PROVE  IInv'
<1> DEFINE r == proc[p].run
<1>1. "cleanup" \in Ops /\ At(p, "cleanup")
  BY Zenon DEF Cleanup, Ops
<1>2. /\ r \in Runs /\ r # NoRun /\ (p = "worker" \/ Owned(p)) /\ PlanOK(p) /\ RowOK(r)
      /\ 1 \in 1..Len(proc[p].plan) /\ proc[p].plan[1] = "cleanup"
  BY <1>1, AtCall, Zenon
<1>3. ~flight[r]
  BY <1>2, Zenon DEF PlanOK, Sound
<1>4. PICK c \in {"none", "stopped", "running"}, plan \in {Rest(p), Abandon} :
          /\ container' = [container EXCEPT ![r] = c]
          /\ Become(p, Do(p, plan))
          /\ plan # Abandon => c = "none"
          /\ c # "none" => container[r] # "none"
  <2>1. container[r] \in {"none", "stopped", "running"}
    BY <1>2, Zenon DEF IInv, TypeOK
  <2> QED BY <2>1, Zenon DEF Cleanup, Continue
<1>5. Fit(plan, proc[p].spec, c # "none", FALSE, memo[r].kind)
  <2>1. Fit(Rest(p), proc[p].spec, FALSE, flight[r], memo[r].kind)
    BY <1>1, FitRest, Zenon
  <2>2. flight[r] = FALSE
    BY <1>2, <1>3, RowFacts, Zenon
  <2>3. Fit(Abandon, proc[p].spec, c # "none", FALSE, memo[r].kind)
    BY FitShort, Zenon
  <2>4. (c # "none") \in BOOLEAN /\ (c = "none" => (c # "none") = FALSE)
    OBVIOUS
  <2> QED BY <1>4, <2>1, <2>2, <2>3, <2>4, Zenon
<1>6. plan \in Seq(Ops) /\ "none" \in Terminal
  BY <1>5, Zenon DEF Fit, Terminal
<1> DEFINE q == Do(p, plan)
<1>7. /\ q \in GoroutineType /\ q.run = r /\ q.plan = plan /\ q.spec = proc[p].spec
      /\ q.otherwise = proc[p].otherwise
  BY <1>6, Fields DEF IInv
<1> HIDE DEF q
<1>8. /\ proc' \in [Procs -> GoroutineType] /\ proc'[p] = q /\ \A x \in Procs : x # p => proc'[x] = proc[x]
      /\ UNCHANGED <<rows, flight, starts, late, boot, up, todo, queue, offered, memo>>
      /\ container' \in [Runs -> {"none", "stopped", "running"}] /\ container'[r] = c
      /\ \A x \in Runs : x # r => container'[x] = container[x]
  BY <1>2, <1>4, <1>7, Zenon DEF IInv, TypeOK, Cleanup, Become, lifecycle, offers, q
<1>9. TypeOK'
  BY <1>8, Zenon DEF IInv, TypeOK
<1>10. \A x \in Runs : x = proc[p].run => RowOK(x)'
  BY <1>2, <1>3, <1>4, <1>8, Zenon DEF RowOK, RowFits, MemoFits, Live
<1>11. PlanOK(p)'
  <2>1. flight'[r] = FALSE /\ (flight'[r] \/ container'[r] # "none") = (c # "none") /\ memo'[r] = memo[r]
    BY <1>2, <1>3, <1>8, RowFacts, Zenon
  <2>2. proc'[p].run = r /\ proc'[p].plan = plan /\ proc'[p].spec = proc[p].spec
    BY <1>7, <1>8, Zenon
  <2> QED BY <1>5, <2>1, <2>2, Zenon DEF PlanOK, Fit, Live
<1>12. Quiet(proc'[p])
  BY <1>5, <1>7, <1>8, Zenon DEF Quiet, Fit
<1>13. p = "reconciler" => proc'[p].otherwise = Abandon
  BY <1>7, <1>8, Zenon DEF IInv, Owners
<1> HIDE DEF r
<1> QED BY <1>2, <1>7, <1>8, <1>9, <1>10, <1>11, <1>12, <1>13, Turn, Zenon DEF Procs, r

\* Clearing the intent of a Run that was never dispatched.
LEMMA ClearProvedInv ==
    ASSUME IInv, NEW p \in Procs, ClearProved(p)
    PROVE  IInv'
<1> DEFINE r == proc[p].run
<1>1. "clearProved" \in Ops /\ At(p, "clearProved")
  BY Zenon DEF ClearProved, Ops
<1>2. /\ r \in Runs /\ r # NoRun /\ (p = "worker" \/ Owned(p)) /\ PlanOK(p) /\ RowOK(r)
      /\ proc[p].plan \in Seq(Ops) /\ proc[p].plan # <<>> /\ Head(proc[p].plan) = "clearProved"
      /\ 1 \in 1..Len(proc[p].plan) /\ proc[p].plan[1] = "clearProved"
  BY <1>1, AtCall, Zenon
<1>3. /\ Sound(proc[p].plan, proc[p].spec, Live(r), flight[r], memo[r].kind)
      /\ memo[r].kind = "predispatch"
  BY <1>2, Zenon DEF PlanOK, Sound
<1>4. ~Live(r) /\ Live(r) \in BOOLEAN /\ flight[r] \in BOOLEAN /\ memo[r].spec \in Outcome
  BY <1>2, <1>3, RowFacts, Zenon
<1>5. Cleared(rows[r]) \in RowType /\ RowFits(Cleared(rows[r]), r) /\ (Held(Cleared(rows[r])) => Held(rows[r]))
  BY <1>2, <1>4, RowMoves, Zenon DEF Writes
<1>6. CASE memo' = memo
  <2>1. /\ Become(p, Do(p, Abandon)) /\ rows' \in {rows, [rows EXCEPT ![r] = Cleared(rows[r])]}
        /\ UNCHANGED <<docker, late, boot, lifecycle, offers, memo>>
    <3>1. memo[r] \in [kind : {"none", "desired", "predispatch", "certain"}, spec : Terminal]
          /\ memo \in [Runs -> [kind : {"none", "desired", "predispatch", "certain"}, spec : Terminal]]
      BY <1>2, Zenon DEF IInv, TypeOK
    <3>2. memo # [memo EXCEPT ![r].kind = "certain"]
      BY <1>2, <1>3, <3>1
    <3> QED BY <1>6, <3>2, Zenon DEF ClearProved
  <2>2. Fit(Abandon, proc[p].spec, Live(r), flight[r], memo[r].kind) /\ Abandon \in Seq(Ops)
    BY <1>4, FitShort, Zenon DEF Fit
  <2>3. CASE UNCHANGED rows
    BY <1>2, <2>1, <2>2, <2>3, RethinkDo, Zenon
  <2>4. CASE rows' = [rows EXCEPT ![r] = Cleared(rows[r])]
    <3> DEFINE q == Do(p, Abandon)
    <3>1. /\ q \in GoroutineType /\ q.run = r /\ q.plan = Abandon /\ q.spec = proc[p].spec
          /\ q.otherwise = proc[p].otherwise
      BY <2>2, Fields DEF IInv, Terminal
    <3>2. proc' = [proc EXCEPT ![p] = q]
      BY <2>1, Zenon DEF Become
    <3>3. q.otherwise # Abandon => p = "worker" /\ ~flight[q.run]
      BY <1>2, <3>1, Zenon DEF IInv, PlanOK, Owners, Procs
    <3> HIDE DEF q
    <3> QED BY <1>2, <1>5, <2>1, <2>2, <2>4, <3>1, <3>2, <3>3, Transaction, Zenon
  <2> QED BY <2>1, <2>3, <2>4, Zenon
<1>7. CASE /\ rows' = [rows EXCEPT ![r] = Cleared(rows[r])]
           /\ memo' = [memo EXCEPT ![r].kind = "certain"]
           /\ Become(p, Continue(p))
  <2>1. /\ Rest(p) \in Seq(Ops) /\ Sound(Rest(p), proc[p].spec, Live(r), flight[r], "certain")
        /\ Rest(p) # <<>> => Head(Rest(p)) \notin Stations
    BY <1>2, <1>3, <1>4, SoundTail, Zenon DEF Rest
  <2> DEFINE q == Continue(p)
  <2>2. /\ q \in GoroutineType /\ q.run = r /\ q.plan = Rest(p) /\ q.spec = proc[p].spec
        /\ q.otherwise = proc[p].otherwise
    BY <2>1, Fields, Zenon DEF Continue, IInv, Terminal
  <2> HIDE DEF q
  <2>3. /\ proc' \in [Procs -> GoroutineType] /\ proc'[p] = q /\ \A x \in Procs : x # p => proc'[x] = proc[x]
        /\ UNCHANGED <<container, flight, starts, late, boot, up, todo, queue, offered>>
        /\ rows' \in [Runs -> RowType] /\ rows'[r] = Cleared(rows[r])
        /\ \A x \in Runs : x # r => rows'[x] = rows[x]
    BY <1>2, <1>5, <1>7, <2>2, SMTT(30) DEF IInv, TypeOK, ClearProved, Become, docker, lifecycle, offers, q
  <2>4. /\ memo' \in [Runs -> [kind : {"none", "desired", "predispatch", "certain"}, spec : Terminal]]
        /\ memo'[r].kind = "certain" /\ memo'[r].spec = memo[r].spec
        /\ \A x \in Runs : x # r => memo'[x] = memo[x]
    <3>1. memo \in [Runs -> [kind : {"none", "desired", "predispatch", "certain"}, spec : Terminal]]
      BY Zenon DEF IInv, TypeOK
    <3> QED BY <1>2, <1>7, <3>1, Zenon
  <2>5. TypeOK'
    BY <2>3, <2>4, Zenon DEF IInv, TypeOK
  <2>6. \A x \in Runs : x = proc[p].run => RowOK(x)'
    <3> SUFFICES ASSUME NEW x \in Runs, x = r PROVE RowOK(x)'
      BY Zenon
    <3>1. RowFits(rows[x], x)'
      BY <1>5, <2>3, Zenon DEF RowFits
    <3>2. MemoFits(x)'
      BY <1>4, <2>3, <2>4, Zenon DEF MemoFits, Live
    <3> QED BY <3>1, <3>2, Zenon DEF RowOK
  <2>7. PlanOK(p)'
    BY <1>2, <2>1, <2>2, <2>3, <2>4, ZenonT(60) DEF PlanOK, Live
  <2>8. Quiet(proc'[p]) /\ (p = "reconciler" => proc'[p].otherwise = Abandon)
    BY <2>1, <2>2, <2>3, Zenon DEF Quiet, IInv, Owners
  <2>9. \A x \in Runs : Held(rows'[x]) => Held(rows[x])
    BY <1>5, <2>3, Zenon
  <2> HIDE DEF r
  <2> QED BY <1>2, <2>2, <2>3, <2>4, <2>5, <2>6, <2>7, <2>8, <2>9, Turn, Zenon DEF Procs, r
<1> QED BY <1>6, <1>7, Zenon DEF ClearProved

\* Letting go of a Run when the plan is done.
LEMMA DoneInv ==
    ASSUME IInv, NEW p \in Procs, Done(p)
    PROVE  IInv'
<1> DEFINE r == proc[p].run
<1>1. r \in Runs /\ r # NoRun
  BY Zenon DEF Done, IInv, TypeOK, GoroutineType
<1>2. /\ UNCHANGED <<rows, container, flight, starts, late, boot, up, queue, memo>>
      /\ proc' \in [Procs -> GoroutineType] /\ proc'[p] = Idle /\ \A x \in Procs : x # p => proc'[x] = proc[x]
      /\ todo' \subseteq Runs
      /\ offered' \in [Runs -> {"none", "queued", "active", "reconciling"}]
      /\ \A x \in Runs : offered'[x] # offered[x] => x = r /\ (p = "reconciler" => offered[x] = "reconciling")
  BY <1>1, IdleFacts, Zenon DEF Done, Become, docker, IInv, TypeOK
<1>3. TypeOK'
  BY <1>2, Zenon DEF IInv, TypeOK
<1>4. \A x \in Runs : RowOK(x)'
  BY <1>2, Zenon DEF IInv, RowOK, RowFits, MemoFits, Live
<1>5. \A x \in Procs : PlanOK(x)'
  BY <1>2, IdleFacts, ZenonT(60) DEF IInv, PlanOK, Live
<1>6. WorkerOK'
  BY <1>2, IdleFacts, ZenonT(60) DEF IInv, WorkerOK, Standing, Live, Procs
<1>7. Owners'
  <2>1. CASE p = "worker"
    <3>1. offered[r] = "active"
      BY <1>1, <2>1, Zenon DEF IInv, Owners
    <3> QED BY <1>1, <1>2, <2>1, <3>1, IdleFacts DEF IInv, Owners, Owned, Procs, TypeOK, GoroutineType
  <2>2. CASE p = "reconciler"
    BY <1>1, <1>2, <2>2, IdleFacts DEF IInv, Owners, Owned, Procs, TypeOK, GoroutineType
  <2> QED BY <2>1, <2>2, Zenon DEF Procs
<1> QED BY <1>3, <1>4, <1>5, <1>6, <1>7, Zenon DEF IInv

\* Reading the row again and deciding afresh.
LEMMA RefreshInv ==
    ASSUME IInv, NEW p \in Procs, Refresh(p)
    PROVE  IInv'
<1> DEFINE r == proc[p].run
           aimed == Reconcile(p, r, rows[r])
           q == [aimed EXCEPT !.seen = NoRow]
<1>1. /\ "refresh" \in Ops /\ At(p, "refresh")
      /\ Become(p, q) \/ Become(p, Do(p, Abandon))
      /\ UNCHANGED <<rows, docker, late, boot, lifecycle, offers, memo>>
  BY Zenon DEF Refresh, Read, Ops
<1>2. r \in Runs /\ (p = "worker" \/ Owned(p)) /\ PlanOK(p)
  BY <1>1, AtCall, Zenon
<1>3. Fit(Abandon, proc[p].spec, Live(r), flight[r], memo[r].kind)
  BY <1>2, RowFacts, FitShort, Zenon
<1>4. /\ aimed \in GoroutineType /\ aimed.run = proc[p].run /\ aimed.otherwise = Abandon
      /\ Fit(aimed.plan, aimed.spec, Live(r), flight[r], memo[r].kind)
  BY <1>2, Reconciling, Zenon
<1> HIDE DEF aimed
<1>5. NoRow \in RowType
  BY SandboxAssumption DEF NoRow, RowType, Terminal, NoBoot
<1>6. /\ q \in GoroutineType /\ q.run = r /\ q.otherwise = Abandon
      /\ q.plan = aimed.plan /\ q.spec = aimed.spec
  BY <1>4, <1>5, Zenon DEF GoroutineType
<1> HIDE DEF q
<1>7. CASE Become(p, q)
  BY <1>1, <1>2, <1>4, <1>6, <1>7, Rethink, Zenon DEF Become
<1> QED BY <1>1, <1>2, <1>3, <1>7, RethinkDo, Zenon

-----------------------------------------------------------------------------

\* The reconciler takes up, or puts down, a Run.
LEMMA TakeUp ==
    ASSUME IInv, UNCHANGED <<rows, container, flight, starts, late, boot, memo, up, todo, queue>>,
           NEW q \in GoroutineType, proc' = [proc EXCEPT !["reconciler"] = q], q.run \in Runs,
           Sound(q.plan, q.spec, Live(q.run), flight[q.run], memo[q.run].kind), q.otherwise = Abandon,
           q.plan # <<>> /\ Head(q.plan) \in Stations => Head(q.plan) \in {"claim", "refresh"},
           offered' \in [Runs -> {"none", "queued", "active", "reconciling"}],
           \A x \in Runs : offered[x] = "active" => offered'[x] = "active",
           \/ up \in {"startup", "final"} \/ q.plan \in {<<"claim">>, <<>>, Abandon}
           \/ offered'[q.run] = "reconciling",
           up # "down"
    PROVE  IInv'
<1>1. /\ proc' \in [Procs -> GoroutineType] /\ proc'["reconciler"] = q
      /\ \A x \in Procs : x # "reconciler" => proc'[x] = proc[x]
  BY Zenon DEF IInv, TypeOK, Procs
<1>2. PlanOK("reconciler")'
  BY <1>1, Zenon DEF PlanOK, Live
<1>3. Owners'
  <2>1. proc["worker"].run \in Runs \cup {NoRun} /\ q.run # NoRun
    BY SandboxAssumption DEF IInv, TypeOK, GoroutineType, Procs
  <2> QED BY <1>1, <2>1, Zenon DEF IInv, Owners, Owned, Procs
<1>4. \A p \in Procs : proc'[p] = proc[p] \/ PlanOK(p)'
  BY <1>1, <1>2, Zenon
<1>5. proc'["worker"] = proc["worker"]
  BY <1>1, Zenon DEF Procs
<1> QED BY <1>1, <1>3, <1>4, <1>5, ElsewhereInv, Zenon DEF IInv, TypeOK

\* The reconciler reading the list of Runs to look at.
LEMMA ListInv ==
    ASSUME IInv, NEW r \in Runs, List(r)
    PROVE  IInv'
<1> DEFINE q1 == [Idle EXCEPT !.run = r]
           q2 == [q1 EXCEPT !.seen = rows[r]]
           q == [q2 EXCEPT !.plan = <<"claim">>]
<1>1. /\ UNCHANGED <<rows, container, flight, starts, late, boot, memo, up, todo, queue, offered>>
      /\ up = "up" /\ proc' = [proc EXCEPT !["reconciler"] = q]
  BY Zenon DEF List, docker, lifecycle, offers, Become
<1>2. q1 \in GoroutineType /\ q1.run = r /\ q1.otherwise = Abandon
  BY IdleFacts, Zenon DEF GoroutineType
<1> HIDE DEF q1
<1>3. q2 \in GoroutineType /\ q2.run = r /\ q2.otherwise = Abandon
  BY <1>2, Zenon DEF GoroutineType, IInv, TypeOK
<1> HIDE DEF q2
<1>4. q \in GoroutineType /\ q.run = r /\ q.otherwise = Abandon /\ q.plan = <<"claim">>
  <2>1. <<"claim">> \in Seq(Ops)
    BY DEF Ops
  <2> QED BY <1>3, <2>1, Zenon DEF GoroutineType
<1> HIDE DEF q
<1>5. Sound(q.plan, q.spec, Live(r), flight[r], memo[r].kind) /\ Head(q.plan) = "claim"
  <2>1. Sound(<<"claim">>, q.spec, Live(r), flight[r], memo[r].kind) /\ Head(<<"claim">>) = "claim"
    BY RowFacts, FitShort, Zenon DEF Stations
  <2> QED BY <1>4, <2>1, Zenon
<1> QED BY <1>1, <1>4, <1>5, TakeUp, Zenon DEF IInv, TypeOK

\* The startup and shutdown passes taking up the next Run.
LEMMA ReconcilePassInv ==
    ASSUME IInv, NEW r \in Runs, ReconcilePass(r)
    PROVE  IInv'
<1> DEFINE aimed == Reconcile("reconciler", r, rows[r])
           q == [aimed EXCEPT !.run = r]
<1>1. /\ UNCHANGED <<rows, container, flight, starts, late, boot, memo, up, todo, queue, offered>>
      /\ up \in {"startup", "final"} /\ proc' = [proc EXCEPT !["reconciler"] = q]
  BY Zenon DEF ReconcilePass, docker, lifecycle, offers, Become
<1>2. "reconciler" \in Procs
  BY Zenon DEF Procs
<1>3. /\ aimed \in GoroutineType /\ aimed.otherwise = Abandon
      /\ Fit(aimed.plan, aimed.spec, Live(r), flight[r], memo[r].kind)
  BY <1>2, Reconciling, Zenon
<1> HIDE DEF aimed
<1>4. /\ q \in GoroutineType /\ q.run = r /\ q.otherwise = Abandon /\ q.plan = aimed.plan
      /\ q.spec = aimed.spec
  BY <1>3, Zenon DEF GoroutineType
<1> HIDE DEF q
<1>5. /\ Sound(q.plan, q.spec, Live(r), flight[r], memo[r].kind)
      /\ q.plan # <<>> => Head(q.plan) \notin Stations
  BY <1>3, <1>4, Zenon DEF Fit
<1> QED BY <1>1, <1>4, <1>5, TakeUp, Zenon DEF IInv, TypeOK

\* The running reconciler claiming a Run from the worker.
LEMMA ClaimReconciliationInv ==
    ASSUME IInv, ClaimReconciliation("reconciler")
    PROVE  IInv'
<1> DEFINE r == proc["reconciler"].run
<1>1. /\ UNCHANGED <<rows, container, flight, starts, late, boot, memo, up, todo, queue>>
      /\ "claim" \in Ops /\ At("reconciler", "claim") /\ "reconciler" \in Procs
  BY Zenon DEF ClaimReconciliation, docker, lifecycle, Ops, Procs
<1>2. r \in Runs /\ r # NoRun
  BY <1>1, AtCall, SandboxAssumption, Zenon
<1>3. up # "down" /\ proc["reconciler"].otherwise = Abandon /\ proc["reconciler"].spec \in Terminal
  BY <1>1, <1>2, IdleFacts, Zenon DEF IInv, Owners, TypeOK, GoroutineType, Procs
<1>4. ASSUME NEW plan \in Seq(Ops), Sound(plan, proc["reconciler"].spec, Live(r), flight[r], memo[r].kind),
             Become("reconciler", Do("reconciler", plan)),
             plan # <<>> /\ Head(plan) \in Stations => Head(plan) \in {"claim", "refresh"},
             offered' \in [Runs -> {"none", "queued", "active", "reconciling"}],
             \A x \in Runs : offered[x] = "active" => offered'[x] = "active",
             plan = <<>> \/ offered'[r] = "reconciling"
      PROVE  IInv'
  <2> DEFINE q == Do("reconciler", plan)
  <2>1. /\ q \in GoroutineType /\ q.run = r /\ q.plan = plan /\ q.spec = proc["reconciler"].spec
        /\ q.otherwise = Abandon
    BY <1>1, <1>3, <1>4, Fields DEF IInv
  <2>2. proc' = [proc EXCEPT !["reconciler"] = q]
    BY <1>4, Zenon DEF Become
  <2> HIDE DEF q
  <2> QED BY <1>1, <1>2, <1>3, <1>4, <2>1, <2>2, TakeUp, Zenon
<1>5. /\ Fit(<<>>, proc["reconciler"].spec, Live(r), flight[r], memo[r].kind)
      /\ <<"refresh">> \in Seq(Ops)
      /\ Sound(<<"refresh">>, proc["reconciler"].spec, Live(r), flight[r], memo[r].kind)
      /\ Head(<<"refresh">>) = "refresh"
  BY <1>2, RowFacts, FitShort, Zenon DEF Stations
<1>6. offered \in [Runs -> {"none", "queued", "active", "reconciling"}]
  BY Zenon DEF IInv, TypeOK
<1>7. CASE Become("reconciler", Do("reconciler", <<>>)) /\ UNCHANGED offered
  BY <1>4, <1>5, <1>6, <1>7, Zenon DEF Fit
<1>8. CASE Claimable(r) /\ Become("reconciler", Do("reconciler", <<"refresh">>))
           /\ offered' = [offered EXCEPT ![r] = "reconciling"]
  <2>1. /\ offered' \in [Runs -> {"none", "queued", "active", "reconciling"}]
        /\ offered'[r] = "reconciling" /\ \A x \in Runs : offered[x] = "active" => offered'[x] = "active"
    BY <1>2, <1>6, <1>8, Zenon DEF Claimable
  <2> QED BY <1>4, <1>5, <1>8, <2>1, Zenon
<1> QED BY <1>7, <1>8, Zenon DEF ClaimReconciliation

\* Startup interrupting a Run that an earlier process left.
LEMMA InterruptInv ==
    ASSUME IInv, Interrupt
    PROVE  IInv'
<1> DEFINE q == Do("reconciler", Abandon)
<1>1. /\ UNCHANGED <<rows, container, flight, starts, late, boot, memo, up, todo, queue, offered>>
      /\ "reconciler" \in Procs /\ up = "closing" /\ proc["reconciler"].run # NoRun
      /\ proc' = [proc EXCEPT !["reconciler"] = q]
  BY Zenon DEF Interrupt, docker, lifecycle, offers, Become, Procs
<1>2. proc["reconciler"].run \in Runs /\ proc["reconciler"].otherwise = Abandon
  BY <1>1, Zenon DEF IInv, TypeOK, GoroutineType, Owners
<1>3. Fit(Abandon, proc["reconciler"].spec, Live(proc["reconciler"].run), flight[proc["reconciler"].run],
          memo[proc["reconciler"].run].kind)
  BY <1>2, RowFacts, FitShort, Zenon
<1>4. Abandon \in Seq(Ops) /\ "none" \in Terminal
  BY <1>3, Zenon DEF Fit, Terminal
<1>5. /\ q \in GoroutineType /\ q.run = proc["reconciler"].run /\ q.plan = Abandon
      /\ q.spec = proc["reconciler"].spec /\ q.otherwise = Abandon
  BY <1>1, <1>2, <1>4, Fields DEF IInv
<1> HIDE DEF q
<1>6. /\ Sound(q.plan, q.spec, Live(q.run), flight[q.run], memo[q.run].kind)
      /\ q.plan # <<>> => Head(q.plan) \notin Stations
  BY <1>3, <1>5, Zenon DEF Fit
<1> QED BY <1>1, <1>2, <1>5, <1>6, TakeUp, Zenon DEF IInv, TypeOK
=============================================================================
