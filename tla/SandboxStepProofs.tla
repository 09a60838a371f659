-------------------------- MODULE SandboxStepProofs ---------------------------
(***************************************************************************)
(* The theorems about SandboxController, for any set of Runs and any       *)
(* bounds: startup, shutdown, the daemon and the host preserve the         *)
(* inductive invariant, so every step does; what follows from it; and that *)
(* the controller implements RuntimeAuthority.                             *)
(***************************************************************************)
EXTENDS SandboxCallProofs, SandboxWorkerProofs, SandboxAuthorityProofs

\* A change of the process's mode alone.
LEMMA ModeInv ==
    ASSUME IInv, UNCHANGED <<rows, container, flight, starts, late, boot, memo, queue, offered, proc>>,
           up' \in {"down", "startup", "up", "closing", "final"}, todo' \subseteq Runs,
           up' # "down", \/ \A p \in Procs : proc[p] = Idle
                         \/ up = "up" /\ up' = "closing"
    PROVE  IInv'
<1>1. Owners'
  BY IdleFacts, Zenon DEF IInv, Owners, Owned, Procs
<1> QED BY <1>1, ElsewhereInv, SMTT(30) DEF IInv, TypeOK

\* Shutdown waiting for the worker.
LEMMA StopWorkerInv ==
    ASSUME IInv, StopWorker
    PROVE  IInv'
<1>1. /\ UNCHANGED <<rows, container, flight, starts, late, boot, memo, up, todo, queue, offered>>
      /\ proc' = [proc EXCEPT !["worker"] = Idle] /\ up = "closing"
  BY Zenon DEF StopWorker, docker, lifecycle, offers, Become
<1>2. /\ proc' \in [Procs -> GoroutineType] /\ proc'["worker"] = Idle
      /\ \A x \in Procs : x # "worker" => proc'[x] = proc[x]
  BY <1>1, IdleFacts, Zenon DEF IInv, TypeOK, Procs
<1>3. WorkerOK'
  BY <1>2, IdleFacts DEF WorkerOK
<1>4. \A p \in Procs : proc'[p] = proc[p] \/ PlanOK(p)'
  BY <1>2, IdleFacts DEF PlanOK
<1>5. Owners'
  BY <1>1, <1>2, IdleFacts, Zenon DEF IInv, Owners, Owned, Procs
<1> QED BY <1>1, <1>2, <1>3, <1>4, <1>5, ElsewhereInv DEF IInv, TypeOK

\* With no process there are no goroutines and no memos to be wrong.
LEMMA ExitInv ==
    ASSUME IInv, Exit, UNCHANGED <<rows, starts, late>>, boot' \in boot..MaxBoots,
           container' \in [Runs -> {"none", "stopped", "running"}], flight' \in [Runs -> BOOLEAN],
           \A x \in Runs : /\ container'[x] = "none" <=> container[x] = "none"
                           /\ flight'[x] => flight[x] /\ boot' = boot
    PROVE  IInv'
<1>1. /\ up' = "down" /\ todo' = {} /\ queue' = <<>> /\ offered' = [r \in Runs |-> "none"]
      /\ memo' = [r \in Runs |-> NoMemo] /\ proc' = [p \in Procs |-> Idle]
      /\ \A x \in Runs : memo'[x].kind = "none"
      /\ proc'["worker"] = Idle /\ proc'["reconciler"] = Idle /\ \A p \in Procs : proc'[p] = Idle
  BY Zenon DEF Exit, NoMemo, Procs
<1>2. TypeOK'
  BY <1>1, IdleFacts DEF IInv, TypeOK, NoMemo, Terminal
<1>3. ASSUME NEW x \in Runs PROVE RowOK(x)'
  <2>1. MemoFits(x)'
    BY <1>1 DEF MemoFits
  <2>2. RowFits(rows[x], x) /\ rows[x] \in RowType /\ boot \in Nat
    BY SandboxAssumption DEF IInv, RowOK, TypeOK
  <2>3. RowFits(rows[x], x)'
    BY <2>2 DEF RowFits, RowType
  <2> QED BY <2>1, <2>3, Zenon DEF RowOK
<1>4. \A p \in Procs : PlanOK(p)'
  BY <1>1, IdleFacts, Zenon DEF PlanOK
<1>5. WorkerOK' /\ Owners'
  BY <1>1, IdleFacts, Zenon DEF WorkerOK, Owners, Owned
<1> QED BY <1>2, <1>3, <1>4, <1>5, Zenon DEF IInv

\* The process ending, the daemon staying as it is.
LEMMA QuitInv ==
    ASSUME IInv, Exit, UNCHANGED <<rows, container, flight, starts, late, boot>>
    PROVE  IInv'
<1>1. boot \in boot..MaxBoots
  BY SandboxAssumption DEF IInv, TypeOK
<1> QED BY <1>1, ExitInv DEF IInv, TypeOK

\* The machine going down and up again.
LEMMA RebootInv ==
    ASSUME IInv, Reboot
    PROVE  IInv'
<1>1. boot' \in boot..MaxBoots /\ boot' # boot
  BY SandboxAssumption DEF Reboot, IInv, TypeOK
<1>2. /\ container' \in [Runs -> {"none", "stopped", "running"}] /\ flight' \in [Runs -> BOOLEAN]
      /\ \A x \in Runs : (container'[x] = "none" <=> container[x] = "none") /\ ~flight'[x]
  BY Zenon DEF Reboot, IInv, TypeOK
<1> QED BY <1>1, <1>2, ExitInv, Zenon DEF Reboot

\* The daemon drops or settles something without sandboxd.
LEMMA DaemonInv ==
    ASSUME IInv, UNCHANGED <<rows, starts, late, boot, memo, proc, queue, offered, todo>>,
           container' \in [Runs -> {"none", "stopped", "running"}], flight' \in [Runs -> BOOLEAN],
           \A x \in Runs : /\ container'[x] # "none" => container[x] # "none" \/ (flight[x] /\ ~flight'[x])
                           /\ flight'[x] => flight[x]
                           /\ container'[x] # container[x] => ~(container[x] # "none" /\ x = proc["worker"].run),
           up' = up \/ ((\A p \in Procs : proc[p] = Idle) /\ up' = "up")
    PROVE  IInv'
<1>1. TypeOK'
  BY Zenon DEF IInv, TypeOK
<1>2. ASSUME NEW x \in Runs PROVE RowOK(x)'
  <2>1. RowOK(x) /\ boot \in Nat \ {0} /\ rows[x] \in RowType
    BY SandboxAssumption DEF IInv, TypeOK
  <2>2. MemoFits(x)'
    BY <2>1, Zenon DEF RowOK, MemoFits, Live
  <2>3. RowFits(rows[x], x)'
    BY <2>1, Zenon DEF RowOK, RowFits, Held, Pending, NoBoot
  <2> QED BY <2>2, <2>3, Zenon DEF RowOK
<1>3. ASSUME NEW p \in Procs PROVE PlanOK(p)'
  <2>1. CASE proc[p].run = NoRun
    BY <2>1, Zenon DEF PlanOK
  <2>2. CASE proc[p].run # NoRun
    <3>1. PICK r \in Runs : r = proc[p].run
      BY <2>2 DEF IInv, TypeOK, GoroutineType
    <3>2. /\ Live(r) \in BOOLEAN /\ flight[r] \in BOOLEAN /\ Live(r)' \in BOOLEAN /\ flight'[r] \in BOOLEAN
          /\ Live(r)' => Live(r)
          /\ flight'[r] => flight[r]
      BY Zenon DEF IInv, TypeOK, Live
    <3>3. proc[p].plan \in Seq(Ops) /\ Sound(proc[p].plan, proc[p].spec, Live(r), flight[r], memo[r].kind)
      BY <2>2, <3>1 DEF IInv, PlanOK, TypeOK, GoroutineType
    <3>4. Sound(proc[p].plan, proc[p].spec, Live(r)', flight'[r], memo[r].kind)
      BY <3>2, <3>3, SoundLess
    <3> QED BY <2>2, <3>1, <3>2, <3>4, Zenon DEF IInv, PlanOK, Live
  <2> QED BY <2>1, <2>2, Zenon
<1>4. WorkerOK'
  <2>1. CASE proc["worker"].run = NoRun
    BY <2>1, Zenon DEF IInv, WorkerOK
  <2>2. CASE proc["worker"].run # NoRun
    <3>1. PICK r \in Runs : r = proc["worker"].run
      BY <2>2, Zenon DEF IInv, TypeOK, GoroutineType, Procs
    <3>2. Live(r)' => Live(r)
      BY Zenon DEF Live
    <3>3. container[r] # "none" => container'[r] # "none"
      BY <3>1, Zenon
    <3> QED BY <2>2, <3>1, <3>2, <3>3, Zenon DEF IInv, WorkerOK, Standing, Live
  <2> QED BY <2>1, <2>2, Zenon
<1>5. Owners'
  BY IdleFacts, SMTT(30) DEF IInv, Owners, Owned, Procs
<1> QED BY <1>1, <1>2, <1>3, <1>4, <1>5, Zenon DEF IInv

\* A Create in flight taking effect.
LEMMA LandInv ==
    ASSUME IInv, NEW r \in Runs, Land(r)
    PROVE  IInv'
<1>1. UNCHANGED <<rows, starts, late, boot, memo, proc, queue, offered, todo, up>>
  BY Zenon DEF Land, lifecycle, offers
<1>2. container[r] = "none"
  BY Zenon DEF Land, IInv, RowOK, RowFits
<1>3. /\ flight' \in [Runs -> BOOLEAN] /\ flight[r] /\ ~flight'[r]
      /\ \A x \in Runs : x # r => flight'[x] = flight[x]
  BY Zenon DEF Land, IInv, TypeOK
<1>4. /\ container' \in [Runs -> {"none", "stopped", "running"}]
      /\ \A x \in Runs : x # r => container'[x] = container[x]
  BY Zenon DEF Land, IInv, TypeOK
<1> QED BY <1>1, <1>2, <1>3, <1>4, DaemonInv, Zenon

\* Startup removing every managed container that no row claims.
LEMMA ReconcileManagedInv ==
    ASSUME IInv, ReconcileManaged
    PROVE  IInv'
<1>1. CASE up' = "up" /\ container' = [r \in Runs |-> "none"] /\ UNCHANGED <<todo, failed, offers, memo, proc>>
  <2>1. /\ UNCHANGED <<rows, starts, late, boot, memo, proc, queue, offered, todo, flight>>
        /\ \A p \in Procs : proc[p] = Idle
    BY <1>1, Zenon DEF ReconcileManaged, offers, PassDone
  <2>2. proc["worker"].run \notin Runs
    BY <2>1, IdleFacts, SandboxAssumption DEF Procs
  <2>3. /\ container' \in [Runs -> {"none", "stopped", "running"}] /\ flight' \in [Runs -> BOOLEAN]
        /\ \A x \in Runs : container'[x] = "none" /\ flight'[x] = flight[x]
    BY <1>1, <2>1 DEF IInv, TypeOK
  <2> QED BY <1>1, <2>1, <2>2, <2>3, DaemonInv
<1>2. CASE Exit /\ UNCHANGED container
  BY <1>2, QuitInv, Zenon DEF ReconcileManaged
<1> QED BY <1>1, <1>2, Zenon DEF ReconcileManaged

\* A deadline passing.
LEMMA ExpireInv ==
    ASSUME IInv, NEW r \in Runs, Expire(r)
    PROVE  IInv'
<1>1. UNCHANGED <<rows, container, flight, starts, boot, memo, proc, queue, offered, todo, up>>
  BY Zenon DEF Expire, docker, lifecycle, offers
<1>2. late' \in [Runs -> BOOLEAN]
  BY Zenon DEF Expire, IInv, TypeOK
<1>3. Owners'
  BY <1>1, SMTT(30) DEF IInv, Owners, Owned
<1> QED BY <1>1, <1>2, <1>3, ElsewhereInv DEF IInv, TypeOK

\* Every step of startup and shutdown.
LEMMA LifecycleInv ==
    ASSUME IInv, Lifecycle
    PROVE  IInv'
<1>1. Left \subseteq Runs
  BY Zenon DEF Left
<1>2. CASE Start
  <2>1. \A p \in Procs : proc[p] = Idle
    BY <1>2 DEF Start, IInv, Owners, Procs
  <2> QED BY <1>1, <1>2, <2>1, ModeInv DEF Start, docker, offers
<1>3. CASE BeginClose
  BY <1>3, ModeInv, SMTT(30) DEF BeginClose, docker, offers, IInv, TypeOK
<1>4. CASE FinalPass
  BY <1>1, <1>4, ModeInv DEF FinalPass, docker, offers, PassDone
<1>5. CASE StartupFails \/ Close \/ Crash
  BY <1>5, QuitInv DEF StartupFails, Close, Crash, docker
<1> QED BY <1>2, <1>3, <1>4, <1>5, ReconcileManagedInv, InterruptInv, StopWorkerInv DEF Lifecycle

-----------------------------------------------------------------------------

\* No step of the worker, the reconciler, a handler, the process or the daemon breaks
\* the invariant.
LEMMA SandboxStep ==
    ASSUME IInv, [Next]_vars
    PROVE  IInv'
<1>1. CASE Api
  BY <1>1, StartRunInv, EnqueueInv, CancelRunInv DEF Api
<1>2. CASE Execute
  BY <1>2, LoadInv, BeginInv, RecheckInv, CreateInv, AwaitInv, BindInv, AttachInv, BridgeInv, SettleInv
     DEF Execute, Procs
<1>3. ASSUME NEW p \in Procs, Wind(p) PROVE IInv'
  <2>1. CASE Remember(p) \/ Prove(p) \/ Forget(p)
    BY <2>1, NotedInv
  <2> QED BY <1>3, <2>1, FinishInv, FinishCreateInv, ClearProvedInv, CommitInv, StageInv, CleanupInv,
     LookupInv, ClearInv, ConfirmInv, DoneInv DEF Wind
<1>4. CASE Reconciler
  BY <1>4, ListInv, ReconcilePassInv, ClaimReconciliationInv, RefreshInv DEF Reconciler, Procs
<1>5. CASE Environment
  BY <1>5, RebootInv, LandInv, ExpireInv DEF Environment
<1>6. CASE UNCHANGED vars
  <2>1. UNCHANGED <<rows, container, flight, starts, late, boot, memo, proc, queue, offered, todo, up>>
    BY <1>6 DEF vars, docker, lifecycle, offers
  <2>2. Owners'
    BY <2>1, SMTT(30) DEF IInv, Owners, Owned
  <2> QED BY <2>1, <2>2, ElsewhereInv, SMTT(30) DEF IInv, TypeOK
<1> QED BY <1>1, <1>2, <1>3, <1>4, <1>5, <1>6, WaitForQuiescenceInv, ExecuteOfferInv, LifecycleInv DEF Next

\* An empty database, a daemon without containers and no process satisfy it.
LEMMA SandboxInit ==
    ASSUME Init
    PROVE  IInv
<1>1. TypeOK
  BY IdleFacts, SandboxAssumption DEF Init, TypeOK, NoMemo, Terminal
<1>2. \A r \in Runs : RowOK(r)
  BY DEF Init, RowOK, RowFits, MemoFits, NoMemo, Live, NoRow, NoBoot, Held, Pending, Published, Outcome, Active
<1>3. \A p \in Procs : proc[p] = Idle
  BY Zenon DEF Init
<1>4. (\A p \in Procs : PlanOK(p)) /\ WorkerOK /\ Owners
  BY <1>3, IdleFacts, Zenon DEF PlanOK, WorkerOK, Owners, Owned, Procs
<1> QED BY <1>1, <1>2, <1>4 DEF IInv

\* IInv holds throughout.
THEOREM SandboxInvariance == Spec => []IInv
  BY SandboxInit, SandboxStep, PTL DEF Spec

\* The worker and the reconciler never work on the same Run: the offers of
\* controller.go hand it from one to the other.
THEOREM SandboxOneOwner == Spec => []OneOwner
<1>1. IInv => OneOwner
  <2> SUFFICES ASSUME IInv, NEW r \in Runs, proc["worker"].run = r, proc["reconciler"].run = r,
                      Owned("reconciler")
               PROVE  FALSE
    BY Zenon DEF OneOwner, Owned
  <2>1. r # NoRun /\ proc["worker"] # Idle
    BY SandboxAssumption, IdleFacts
  <2> QED BY <2>1, Zenon DEF IInv, Owners
<1> QED BY <1>1, SandboxInvariance, PTL

\* The workspace of a Run that may write it stays locked while a container of the Run
\* exists or may still appear.
THEOREM SandboxWriterKeepsWorkspace == Spec => []WriterKeepsWorkspace
<1>1. IInv => WriterKeepsWorkspace
  <2> SUFFICES ASSUME IInv, NEW r \in Writable, Live(r)
               PROVE  rows[r].lock
    BY Zenon DEF WriterKeepsWorkspace, Live
  <2>1. r \in Runs
    BY SandboxAssumption, Zenon
  <2>2. rows[r] \in RowType /\ RowFits(rows[r], r) /\ boot \in Nat \ {0}
    BY <2>1, SandboxAssumption DEF IInv, TypeOK, RowOK
  <2>3. Held(rows[r])
    BY <2>2, Zenon DEF RowFits, Live, Held, Pending, NoBoot
  <2>4. rows[r].state \in Active
    BY <2>2, <2>3, IdleFacts DEF RowFits, RowType, Terminal, Published
  <2> QED BY <2>2, <2>4, Zenon DEF RowFits
<1> QED BY <1>1, SandboxInvariance, PTL

\* A memo that says there is no container is never wrong, however late the answer of
\* a Create or of a transaction comes (controller.go's proof of absence).
THEOREM SandboxProofIsTrue == Spec => []ProofIsTrue
<1>1. IInv => ProofIsTrue
  BY Zenon DEF IInv, RowOK, MemoFits, Live, ProofIsTrue
<1> QED BY <1>1, SandboxInvariance, PTL

\* The controller implements RuntimeAuthority: under the mapping of its rows and of
\* the daemon to phases, authority and runtimes, every behaviour of worker,
\* reconciler, handlers, crashes and lost answers is one of the protocol.
THEOREM SandboxImplementsAuthority == Spec => ImplementsAuthority
<1>1. IInv /\ [Next]_vars => [Authority!Next]_(Authority!vars)
  BY StepMaps, Zenon DEF Maps
<1> QED BY <1>1, InitMaps, SandboxInvariance, PTL DEF Spec, ImplementsAuthority, Authority!Spec
=============================================================================
