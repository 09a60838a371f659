------------------------ MODULE TargetAuthorityProofs -------------------------
(***************************************************************************)
(* For all configurations, policies and numbers of processes and Runs:     *)
(* what the store pins before sandboxd serves makes a revision mean one    *)
(* thing and a directory belong to one revision for ever; who may use the  *)
(* store; which directories a start can refuse; and what a Run is executed *)
(* with.                                                                   *)
(*                                                                         *)
(* The first argument is about the two tables alone. Rows are only added;  *)
(* a row is added only when no row disagrees with it; a process that has   *)
(* registered its configuration finds every target of it in the tables     *)
(* from then on; and a Run is executed with a target of a process that has *)
(* registered. Nothing in it depends on the lock: two processes that       *)
(* shared the store would still agree on what revisions mean.              *)
(***************************************************************************)
EXTENDS TargetAuthority, TLAPS

Pin(c, e) == [key |-> Key(e), pin |-> Fingerprint(c, e)]
Claim(c, e) == [key |-> Key(e), state |-> e.state, directory |-> Directory(c, e)]

\* A process that got past Load has a valid configuration.
ConfigsValid ==
    \A p \in Procs : ~At(p, "off") => proc[p].config \in Configs /\ Valid(proc[p].config)

\* target_revisions has one row for a revision.
PinsUnique == \A x, y \in pins : x.key = y.key => x.pin = y.pin

\* Rows of target_revisions describe a target of some configuration.
PinsFormed == \A x \in pins : \E c \in Configs : \E e \in c.targets : Valid(c) /\ x = Pin(c, e)

\* Rows of runner_state_owners belong to persistent revisions, and every such revision has its row.
ClaimsPinned == \A o \in owners : o.state # None /\ \E x \in pins : x.key = o.key
PinsClaimed ==
    \A x \in pins : x.pin.state # None =>
        [key |-> x.key, state |-> x.pin.state, directory |-> x.pin.directory] \in owners

\* A name and a directory have one owner.
ClaimsUnique == \A o, q \in owners : o.state = q.state \/ o.directory = q.directory => o.key = q.key

\* The phases of a process that has registered its configuration.
Registered(p) == proc[p].pc \in {"registered", "serving", "closing"}

\* What a process serves is pinned, and so is what was executed.
ServesPinned ==
    \A p \in Procs : Registered(p) =>
        \A e \in proc[p].config.targets : Pin(proc[p].config, e) \in pins
ExecutedPinned == \A x \in executed : [key |-> x.key, pin |-> x.pin] \in pins

Phases == {"off", "loaded", "locked", "listening", "resolved", "registered", "serving", "closing"}

\* The type of a process.
Processes == [pc : Phases, config : Configs \cup {None}, todo : SUBSET Directories,
              offers : SUBSET Runs, refused : SUBSET Directories]
TypeProc == proc \in [Procs -> Processes]

TablesInv ==
    /\ TypeProc /\ ConfigsValid
    /\ PinsUnique /\ PinsFormed /\ ClaimsPinned /\ PinsClaimed /\ ClaimsUnique
    /\ ServesPinned /\ ExecutedPinned

-----------------------------------------------------------------------------

\* A target with a runner state has a directory, and only such a target has one.
LEMMA DirectoryOfState ==
    ASSUME NEW c \in Configs, NEW e \in c.targets, Valid(c)
    PROVE  e.state # None <=> Directory(c, e) # None
  BY AuthorityAssumption DEF Valid, Directory

\* Two targets of a configuration share neither name nor directory.
LEMMA TargetsApart ==
    ASSUME NEW c \in Configs, Valid(c), NEW e \in c.targets, NEW f \in c.targets,
           e.state # None, f.state # None,
           e.state = f.state \/ Directory(c, e) = Directory(c, f)
    PROVE  e = f
  BY DEF Valid, ValidStorage, IsInjective, Directory

\* Two targets of a configuration have different keys.
LEMMA KeysApart ==
    ASSUME NEW c \in Configs, Valid(c), NEW e \in c.targets, NEW f \in c.targets, Key(e) = Key(f)
    PROVE  e = f
  BY DEF Valid, ValidRegistry, Key

\* The state directories of a valid configuration are directories.
LEMMA StateDirectoriesType ==
    ASSUME NEW c \in Configs, Valid(c)
    PROVE  StateDirectories(c) \in SUBSET Directories
  BY AuthorityAssumption DEF Valid, Directory, StateDirectories

\* Empty tables satisfy the invariant.
LEMMA TablesInit == Init => TablesInv
  <1> SUFFICES ASSUME Init PROVE TablesInv
    OBVIOUS
  <1>1. TypeProc /\ ConfigsValid /\ ServesPinned
    BY DEF Init, TypeProc, ConfigsValid, ServesPinned, Registered, At, Off, Processes, Phases
  <1>2. PinsUnique /\ PinsFormed /\ ClaimsPinned /\ PinsClaimed /\ ClaimsUnique /\ ExecutedPinned
    BY DEF Init, PinsUnique, PinsFormed, ClaimsPinned, PinsClaimed, ClaimsUnique, ExecutedPinned
  <1> QED BY <1>1, <1>2 DEF TablesInv

-----------------------------------------------------------------------------
(* Steps that leave the tables alone.                                      *)

\* A process moves on with the configuration it has, or stops.
Moves ==
    /\ TypeProc'
    /\ \A p \in Procs : proc'[p].pc # "off" =>
          \/ proc'[p].config \in Configs /\ Valid(proc'[p].config) /\ proc'[p].pc = "loaded"
          \/ proc'[p].config = proc[p].config /\ proc[p].pc # "off" /\ (Registered(p)' => Registered(p))

\* A step that adds no row and executes no Run, and registers no process's targets.
LEMMA QuietStep ==
    ASSUME TablesInv, Moves, UNCHANGED <<pins, owners, executed>>
    PROVE  TablesInv'
  <1>1. TypeProc' /\ ConfigsValid'
    BY DEF TablesInv, Moves, ConfigsValid, At
  <1>2. ServesPinned'
    <2> SUFFICES ASSUME NEW p \in Procs, Registered(p)', NEW e \in proc'[p].config.targets
                 PROVE  Pin(proc'[p].config, e) \in pins'
      BY DEF ServesPinned
    <2>1. proc'[p].config = proc[p].config /\ Registered(p)
      BY DEF Moves, Registered
    <2> QED BY <2>1 DEF TablesInv, ServesPinned, Pin
  <1>3. PinsUnique' /\ PinsFormed' /\ ClaimsPinned' /\ PinsClaimed' /\ ClaimsUnique' /\ ExecutedPinned'
    BY Zenon DEF TablesInv, PinsUnique, PinsFormed, ClaimsPinned, PinsClaimed, ClaimsUnique, ExecutedPinned
  <1> QED BY <1>1, <1>2, <1>3 DEF TablesInv

\* A process goes on to another phase with other directories in hand.
LEMMA GoesOn ==
    ASSUME TypeProc, NEW p \in Procs, NEW phase \in Phases, NEW todo \in SUBSET Directories,
           proc' = [proc EXCEPT ![p].pc = phase, ![p].todo = todo]
    PROVE  /\ TypeProc' /\ proc'[p].pc = phase /\ proc'[p].config = proc[p].config
           /\ \A q \in Procs : q # p => proc'[q] = proc[q]
  <1> DEFINE new == [proc[p] EXCEPT !.pc = phase, !.todo = todo]
  <1>1. proc[p] \in Processes
    BY DEF TypeProc
  <1>2. new \in Processes /\ new.pc = phase /\ new.config = proc[p].config
    BY <1>1, Zenon DEF Processes
  <1>3. proc' = [q \in Procs |-> IF q = p THEN new ELSE proc[q]]
    BY Zenon DEF TypeProc
  <1> HIDE DEF new
  <1> QED BY <1>2, <1>3, ZenonT(60) DEF TypeProc

\* A start that fails.
LEMMA ExitsMoves ==
    ASSUME TablesInv, NEW p \in Procs, NEW d \in SUBSET Directories, Exits(p, d)
    PROVE  Moves
  BY AuthorityAssumption, Zenon DEF TablesInv, Exits, Moves, TypeProc, Processes, Phases, Off, Registered

\* The steps of a starting or stopping process, other than the registration.
LEMMA ProcessMoves ==
    ASSUME TablesInv, NEW p \in Procs,
           \/ \E c \in Configs : Load(p, c)
           \/ AcquireLock(p) \/ AcquireSocket(p) \/ ResolveAuthority(p)
           \/ \E d \in Directories : MakeDirectory(p, d)
           \/ Reconcile(p) \/ BeginClose(p) \/ Close(p) \/ Crash(p)
    PROVE  Moves /\ UNCHANGED <<pins, owners, executed>>
  <1> USE DEF TablesInv, Moves, TypeProc, Processes, Phases, Off, At, Registered
  <1>1. ASSUME NEW c \in Configs, Load(p, c) PROVE Moves /\ UNCHANGED <<pins, owners, executed>>
    BY <1>1, AuthorityAssumption, Zenon DEF Load, store, runs
  <1>2. CASE AcquireLock(p)
    BY <1>2, ExitsMoves DEF AcquireLock, store, runs
  <1>3. CASE AcquireSocket(p)
    BY <1>3, ExitsMoves DEF AcquireSocket, store, runs
  <1>4. CASE ResolveAuthority(p)
    <2>1. StateDirectories(proc[p].config) \in SUBSET Directories
      BY <1>4, StateDirectoriesType DEF ConfigsValid, ResolveAuthority
    <2>2. PICK todo \in SUBSET Directories :
             proc' = [proc EXCEPT ![p].pc = "resolved", ![p].todo = todo]
      BY <1>4, <2>1, Zenon DEF ResolveAuthority
    <2>3. /\ TypeProc' /\ proc'[p].pc = "resolved" /\ proc'[p].config = proc[p].config
          /\ \A q \in Procs : q # p => proc'[q] = proc[q]
      BY <2>2, GoesOn, Zenon DEF Phases
    <2> QED BY <1>4, <2>3, Zenon DEF ResolveAuthority, store, runs
  <1>5. ASSUME NEW d \in Directories, MakeDirectory(p, d) PROVE Moves /\ UNCHANGED <<pins, owners, executed>>
    BY <1>5 DEF MakeDirectory, store, runs
  <1>6. CASE Reconcile(p)
    BY <1>6, ExitsMoves DEF Reconcile, store, runs
  <1>7. CASE BeginClose(p)
    BY <1>7 DEF BeginClose, store, runs
  <1>8. CASE Close(p) \/ Crash(p)
    BY <1>8, AuthorityAssumption DEF Close, Crash, store, runs
  <1> QED BY <1>1, <1>2, <1>3, <1>4, <1>5, <1>6, <1>7, <1>8, Zenon

\* The steps of the operator, of the clock and of Runs, other than Execute.
LEMMA OtherMoves ==
    ASSUME TablesInv,
           \/ Operator \/ RestartAgentd
           \/ \E r \in Runs : Expire(r) \/ \E a \in Actors, v \in Conversations : Ingest(r, a, v)
           \/ \E p \in Procs, r \in Runs : Dispatch(p, r) \/ Advance(p, r)
           \/ UNCHANGED vars
    PROVE  Moves /\ UNCHANGED <<pins, owners, executed>>
  <1> USE DEF TablesInv, Moves, TypeProc, Processes, Phases, At, Registered, ConfigsValid
  <1>1. CASE UNCHANGED proc /\ UNCHANGED <<pins, owners, executed>>
    BY <1>1, Zenon
  <1>2. ASSUME NEW p \in Procs, NEW r \in Runs, Dispatch(p, r)
        PROVE  Moves /\ UNCHANGED <<pins, owners, executed>>
    BY <1>2 DEF Dispatch, store
  <1>3. ASSUME NEW p \in Procs, NEW r \in Runs, Advance(p, r)
        PROVE  UNCHANGED <<proc, pins, owners, executed>>
    BY <1>3, Zenon DEF Advance, store
  <1>4. ASSUME NEW r \in Runs, Expire(r) \/ \E a \in Actors, v \in Conversations : Ingest(r, a, v)
        PROVE  UNCHANGED <<proc, pins, owners, executed>>
    BY <1>4, Zenon DEF Expire, Ingest, store
  <1>5. CASE Operator \/ RestartAgentd \/ UNCHANGED vars
    BY <1>5, <1>1, Zenon DEF Operator, RestartAgentd, store, runs, vars
  <1> QED BY <1>1, <1>2, <1>3, <1>4, <1>5, Zenon

-----------------------------------------------------------------------------
(* The steps that write the tables or read them for a Run.                 *)

\* A container is created with what the process has registered.
LEMMA ExecuteStep ==
    ASSUME TablesInv, NEW p \in Procs, NEW r \in Runs, Execute(p, r)
    PROVE  TablesInv'
  <1>1. UNCHANGED <<proc, pins, owners>>
    BY Zenon DEF Execute, store
  <1>2. PICK e \in Resolve(proc[p].config, core[r].key) :
           executed' = executed \cup {[run |-> r, key |-> Key(e), pin |-> Fingerprint(proc[p].config, e)]}
    BY Zenon DEF Execute
  <1>3. Pin(proc[p].config, e) \in pins
    BY <1>2, Zenon DEF Execute, Resolve, TablesInv, ServesPinned, Registered
  <1>4. ExecutedPinned'
    <2> SUFFICES ASSUME NEW x \in executed' PROVE [key |-> x.key, pin |-> x.pin] \in pins'
      BY Zenon DEF ExecutedPinned
    <2>1. CASE x \in executed
      BY <1>1, <2>1, Zenon DEF TablesInv, ExecutedPinned
    <2>2. CASE x \notin executed
      BY <1>1, <1>2, <1>3, <2>2 DEF Pin
    <2> QED BY <2>1, <2>2, Zenon
  <1>5. TypeProc' /\ ConfigsValid' /\ ServesPinned'
    BY <1>1, Zenon DEF TablesInv, TypeProc, ConfigsValid, ServesPinned, At, Registered
  <1>6. PinsUnique' /\ PinsFormed' /\ ClaimsPinned' /\ PinsClaimed' /\ ClaimsUnique'
    BY <1>1, Zenon DEF TablesInv, PinsUnique, PinsFormed, ClaimsPinned, PinsClaimed, ClaimsUnique
  <1> QED BY <1>4, <1>5, <1>6, Zenon DEF TablesInv

\* A registration that is accepted: every target's rows are in the tables, or nothing there disagrees.
LEMMA AcceptedStep ==
    ASSUME TablesInv, NEW p \in Procs, NEW c \in Configs, Valid(c), c = proc[p].config, At(p, "resolved"),
           \A e \in c.targets : ~Conflicts(c, e) /\ ~Unowned(c, e, proc[p].todo),
           pins' = pins \cup {Pin(c, e) : e \in c.targets},
           owners' = owners \cup {Claim(c, e) : e \in {f \in c.targets : f.state # None}},
           proc' = [proc EXCEPT ![p].pc = "registered", ![p].todo = StateDirectories(c)],
           UNCHANGED executed
    PROVE  TablesInv'
  <1>1. StateDirectories(c) \in SUBSET Directories
    BY StateDirectoriesType
  <1>2. /\ TypeProc' /\ proc'[p].config = c /\ proc'[p].pc = "registered"
        /\ \A q \in Procs : q # p => proc'[q] = proc[q]
    BY <1>1, GoesOn, Zenon DEF TablesInv, Phases
  <1>3. ConfigsValid'
    BY <1>2, Zenon DEF TablesInv, ConfigsValid, At
  <1>4. ServesPinned'
    <2> SUFFICES ASSUME NEW q \in Procs, Registered(q)', NEW e \in proc'[q].config.targets
                 PROVE  Pin(proc'[q].config, e) \in pins'
      BY Zenon DEF ServesPinned
    <2>1. CASE q = p
      <3>1. proc'[q].config = c
        BY <1>2, <2>1, Zenon
      <3>2. e \in c.targets
        BY <3>1, Zenon
      <3>3. Pin(c, e) \in pins'
        BY <3>2, Zenon
      <3> QED BY <3>1, <3>3, Zenon
    <2>2. CASE q # p
      <3>1. proc'[q] = proc[q] /\ Registered(q)
        BY <1>2, <2>2, Zenon DEF Registered
      <3>2. Pin(proc[q].config, e) \in pins
        BY <3>1, Zenon DEF TablesInv, ServesPinned
      <3> QED BY <3>1, <3>2
    <2> QED BY <2>1, <2>2, Zenon
  <1>5. PinsFormed' /\ ExecutedPinned'
    BY Zenon DEF TablesInv, PinsFormed, ExecutedPinned
  <1>6. \A e \in c.targets, x \in pins : x.key = Key(e) => x.pin = Fingerprint(c, e)
    BY DEF Conflicts
  <1>7. PinsUnique'
    <2> SUFFICES ASSUME NEW x \in pins', NEW y \in pins', x.key = y.key PROVE x.pin = y.pin
      BY Zenon DEF PinsUnique
    <2>1. CASE x \in pins /\ y \in pins
      BY <2>1, Zenon DEF TablesInv, PinsUnique
    <2>2. CASE x \in pins /\ y \notin pins
      BY <2>2, <1>6 DEF Pin
    <2>3. CASE x \notin pins /\ y \in pins
      BY <2>3, <1>6 DEF Pin
    <2>4. CASE x \notin pins /\ y \notin pins
      <3>1. PICK e \in c.targets, f \in c.targets : x = Pin(c, e) /\ y = Pin(c, f)
        BY <2>4, Zenon
      <3> QED BY <3>1, KeysApart, Zenon DEF Pin
    <2> QED BY <2>1, <2>2, <2>3, <2>4, Zenon
  <1>8. ClaimsPinned'
    <2> SUFFICES ASSUME NEW o \in owners' PROVE o.state # None /\ \E x \in pins' : x.key = o.key
      BY Zenon DEF ClaimsPinned
    <2>1. CASE o \in owners
      BY <2>1, Zenon DEF TablesInv, ClaimsPinned
    <2>2. ASSUME NEW e \in c.targets, e.state # None, o = Claim(c, e)
          PROVE  o.state # None /\ \E x \in pins' : x.key = o.key
      <3>1. Pin(c, e) \in pins' /\ Pin(c, e).key = o.key
        BY <2>2, Zenon DEF Pin, Claim
      <3> QED BY <2>2, <3>1, Zenon DEF Claim
    <2> QED BY <2>1, <2>2, Zenon
  <1>9. PinsClaimed'
    <2> SUFFICES ASSUME NEW x \in pins', x.pin.state # None
                 PROVE  [key |-> x.key, state |-> x.pin.state, directory |-> x.pin.directory] \in owners'
      BY Zenon DEF PinsClaimed
    <2>1. CASE x \in pins
      BY <2>1, Zenon DEF TablesInv, PinsClaimed
    <2>2. ASSUME NEW e \in c.targets, x = Pin(c, e)
          PROVE  [key |-> x.key, state |-> x.pin.state, directory |-> x.pin.directory] \in owners'
      <3>1. e.state # None
        BY <2>2, Zenon DEF Pin, Fingerprint
      <3>2. Claim(c, e) \in owners'
        BY <3>1, Zenon
      <3> QED BY <2>2, <3>2, Zenon DEF Pin, Claim, Fingerprint
    <2> QED BY <2>1, <2>2, Zenon
  <1>10. ClaimsUnique'
    <2>1. ASSUME NEW e \in c.targets, e.state # None, NEW o \in owners,
                 o.state = e.state \/ o.directory = Directory(c, e)
          PROVE  o.key = Key(e)
      <3>1. CASE \E x \in pins : x.key = Key(e)
        <4>1. PICK x \in pins : x.key = Key(e)
          BY <3>1
        <4>2. x.pin = Fingerprint(c, e)
          BY <4>1, <1>6, Zenon
        <4>3. Claim(c, e) \in owners
          BY <4>1, <4>2, <2>1 DEF TablesInv, PinsClaimed, Claim, Fingerprint
        <4> QED BY <4>3, <2>1, Zenon DEF TablesInv, ClaimsUnique, Claim
      <3>2. CASE ~ \E x \in pins : x.key = Key(e)
        BY <3>2, <2>1, Zenon DEF Conflicts
      <3> QED BY <3>1, <3>2
    <2> SUFFICES ASSUME NEW o \in owners', NEW q \in owners', o.state = q.state \/ o.directory = q.directory
                 PROVE  o.key = q.key
      BY Zenon DEF ClaimsUnique
    <2>2. CASE o \in owners /\ q \in owners
      BY <2>2, Zenon DEF TablesInv, ClaimsUnique
    <2>3. CASE o \in owners /\ q \notin owners
      BY <2>3, <2>1 DEF Claim
    <2>4. CASE o \notin owners /\ q \in owners
      BY <2>4, <2>1 DEF Claim
    <2>5. CASE o \notin owners /\ q \notin owners
      <3>1. PICK e \in c.targets, f \in c.targets :
               e.state # None /\ f.state # None /\ o = Claim(c, e) /\ q = Claim(c, f)
        BY <2>5, Zenon
      <3> QED BY <3>1, TargetsApart, Zenon DEF Claim
    <2> QED BY <2>2, <2>3, <2>4, <2>5, Zenon
  <1> QED BY <1>2, <1>3, <1>4, <1>5, <1>7, <1>8, <1>9, <1>10, Zenon DEF TablesInv
\* RegisterTargets refuses, or is accepted.
LEMMA RegisterStep ==
    ASSUME TablesInv, NEW p \in Procs, RegisterTargets(p)
    PROVE  TablesInv'
  <1> DEFINE c == proc[p].config
  <1>1. At(p, "resolved") /\ UNCHANGED executed
    BY Zenon DEF RegisterTargets, runs
  <1>2. c \in Configs /\ Valid(c)
    BY <1>1, Zenon DEF TablesInv, ConfigsValid, At
  <1>3. ASSUME NEW d \in SUBSET Directories, Exits(p, d), UNCHANGED store PROVE TablesInv'
    BY <1>1, <1>3, ExitsMoves, QuietStep DEF store
  <1>4. CASE /\ \A e \in c.targets : ~Conflicts(c, e) /\ ~Unowned(c, e, proc[p].todo)
             /\ pins' = pins \cup {[key |-> Key(e), pin |-> Fingerprint(c, e)] : e \in c.targets}
             /\ owners' = owners \cup {[key |-> Key(e), state |-> e.state, directory |-> Directory(c, e)] :
                                          e \in {f \in c.targets : f.state # None}}
             /\ proc' = [proc EXCEPT ![p].pc = "registered", ![p].todo = StateDirectories(c)]
    BY <1>1, <1>2, <1>4, AcceptedStep, Zenon DEF Pin, Claim
  <1>5. {} \in SUBSET Directories /\ StateDirectories(c) \in SUBSET Directories
    BY <1>2, StateDirectoriesType
  <1> QED BY <1>3, <1>4, <1>5, Zenon DEF RegisterTargets

\* Every step preserves the invariant of the tables.
LEMMA TablesStep == TablesInv /\ [Next]_vars => TablesInv'
  <1> SUFFICES ASSUME TablesInv, [Next]_vars PROVE TablesInv'
    OBVIOUS
  <1>1. ASSUME NEW p \in Procs, RegisterTargets(p) PROVE TablesInv'
    BY <1>1, RegisterStep
  <1>2. ASSUME NEW p \in Procs, NEW r \in Runs, Execute(p, r) PROVE TablesInv'
    BY <1>2, ExecuteStep
  <1>3. ASSUME NEW p \in Procs,
               \/ \E c \in Configs : Load(p, c)
               \/ AcquireLock(p) \/ AcquireSocket(p) \/ ResolveAuthority(p)
               \/ \E d \in Directories : MakeDirectory(p, d)
               \/ Reconcile(p) \/ BeginClose(p) \/ Close(p) \/ Crash(p)
        PROVE  TablesInv'
    BY <1>3, ProcessMoves, QuietStep, Zenon
  <1>4. CASE \/ Operator \/ RestartAgentd
             \/ \E r \in Runs : Expire(r) \/ \E a \in Actors, v \in Conversations : Ingest(r, a, v)
             \/ \E p \in Procs, r \in Runs : Dispatch(p, r) \/ Advance(p, r)
             \/ UNCHANGED vars
    BY <1>4, OtherMoves, QuietStep, Zenon
  <1> QED BY <1>1, <1>2, <1>3, <1>4, Zenon DEF Next

\* Over all starts and configurations, the two tables agree with each other and with what was executed.
THEOREM Tables == Spec => []TablesInv
  BY TablesInit, TablesStep, PTL DEF Spec

\* Whatever configurations sandboxd is started with, Runs of one target revision are executed with one
\* manifest, one set of paths and one runner state.
THEOREM OneMeaning == Spec => []RevisionMeansOneThing
  <1>1. TablesInv => RevisionMeansOneThing
    BY Zenon DEF TablesInv, ExecutedPinned, PinsUnique, RevisionMeansOneThing
  <1> QED BY <1>1, Tables, PTL

\* Whatever configurations sandboxd is started with and whatever happens to its directories, a runner-state
\* directory serves the Runs of one target revision only.
THEOREM OneRevision == Spec => []OneRevisionPerDirectory
  <1>1. TablesInv => OneRevisionPerDirectory
    <2> SUFFICES ASSUME TablesInv, NEW x \in executed, NEW y \in executed,
                        x.pin.directory = y.pin.directory, x.pin.directory # None
                 PROVE  x.key = y.key
      BY Zenon DEF OneRevisionPerDirectory
    <2> DEFINE claim(z) == [key |-> z.key, state |-> z.pin.state, directory |-> z.pin.directory]
    <2>1. ASSUME NEW z \in executed, z.pin.directory # None PROVE claim(z) \in owners
      <3>1. PICK c \in Configs : \E e \in c.targets : Valid(c) /\ [key |-> z.key, pin |-> z.pin] = Pin(c, e)
        BY Zenon DEF TablesInv, ExecutedPinned, PinsFormed
      <3>2. PICK e \in c.targets : Valid(c) /\ z.pin = Fingerprint(c, e)
        BY <3>1, Zenon DEF Pin
      <3>3. z.pin.state # None
        BY <2>1, <3>2, DirectoryOfState DEF Fingerprint
      <3> QED BY <3>3, Zenon DEF TablesInv, ExecutedPinned, PinsClaimed
    <2>2. claim(x) \in owners /\ claim(y) \in owners
      BY <2>1, Zenon
    <2> QED BY <2>2, Zenon DEF TablesInv, ClaimsUnique
  <1> QED BY <1>1, Tables, PTL

(* The lock outlives the socket, and a process that has neither has        *)
(* nothing open.                                                           *)

Holding == Phases \ {"off", "loaded"}
Listening == {"listening", "resolved", "registered", "serving"}

\* The process behind the lock is past AcquireLock; the one behind a live socket holds the lock too.
LockInv ==
    /\ TypeProc
    /\ lock \in Procs \cup {NoProc}
    /\ \A p \in Procs : lock = p <=> proc[p].pc \in Holding
    /\ socket = "live" => lock \in Procs /\ proc[lock].pc \in Listening

\* Nobody holds the lock file at the beginning.
LEMMA LockInit == Init => LockInv
  BY AuthorityAssumption DEF Init, LockInv, TypeProc, Processes, Phases, Off, Holding

\* A start that fails gives up the lock and the socket it has, and no other.
LEMMA LockExits ==
    ASSUME LockInv, TypeProc', NEW p \in Procs, NEW d, Exits(p, d), proc[p].pc \in {"loaded"} \cup Listening \cup {"locked"}
    PROVE  LockInv'
  <1>1. proc'[p].pc = "off" /\ \A q \in Procs : q # p => proc'[q] = proc[q]
    BY DEF Exits, LockInv, TypeProc, Off
  <1>2. lock' = (IF lock = p THEN NoProc ELSE lock)
    BY DEF Exits
  <1>3. lock' \in Procs \cup {NoProc} /\ \A q \in Procs : lock' = q <=> proc'[q].pc \in Holding
    BY <1>1, <1>2, AuthorityAssumption, Zenon DEF LockInv, Holding
  <1>4. ASSUME socket' = "live" PROVE lock' \in Procs /\ proc'[lock'].pc \in Listening
    <2>1. proc[p].pc \in {"loaded", "locked"} /\ socket = "live"
      BY <1>4 DEF Exits, At, Listening
    <2>2. lock \in Procs /\ lock # p
      BY <2>1, Zenon DEF LockInv, Listening
    <2> QED BY <1>1, <1>2, <2>1, <2>2, Zenon DEF LockInv
  <1> QED BY <1>3, <1>4, Zenon DEF LockInv

\* Every step keeps the store open in the holder of the lock file only.
LEMMA LockStep == TablesInv /\ TypeProc' /\ LockInv /\ [Next]_vars => LockInv'
  <1> SUFFICES ASSUME TablesInv, TypeProc', LockInv, [Next]_vars PROVE LockInv'
    OBVIOUS
  <1>1. ASSUME NEW p \in Procs, NEW c \in Configs, Load(p, c) PROVE LockInv'
    BY <1>1 DEF Load, LockInv, TypeProc, Off, At, Holding, Listening
  <1>2. ASSUME NEW p \in Procs, AcquireLock(p) PROVE LockInv'
    <2>1. CASE lock = NoProc
      BY <1>2, <2>1, AuthorityAssumption DEF AcquireLock, LockInv, TypeProc, Processes, At, Holding, Phases, Listening
    <2>2. CASE lock # NoProc
      BY <1>2, <2>2, LockExits DEF AcquireLock, At
    <2> QED BY <2>1, <2>2
  <1>3. ASSUME NEW p \in Procs, AcquireSocket(p) PROVE LockInv'
    <2>1. CASE socket = "live"
      BY <1>3, <2>1, LockExits DEF AcquireSocket, At
    <2>2. CASE socket # "live"
      BY <1>3, <2>2 DEF AcquireSocket, LockInv, TypeProc, Processes, At, Holding, Phases, Listening
    <2> QED BY <2>1, <2>2
  <1>4. ASSUME NEW p \in Procs, ResolveAuthority(p) PROVE LockInv'
    BY <1>4 DEF ResolveAuthority, LockInv, TypeProc, Processes, At, Holding, Phases, Listening
  <1>5. ASSUME NEW p \in Procs, RegisterTargets(p) PROVE LockInv'
    <2>1. ASSUME NEW d, Exits(p, d) PROVE LockInv'
      BY <1>5, <2>1, LockExits, Zenon DEF RegisterTargets, At, Listening
    <2>2. CASE /\ proc' = [proc EXCEPT ![p].pc = "registered", ![p].todo = StateDirectories(proc[p].config)]
               /\ UNCHANGED <<lock, socket>>
      BY <1>5, <2>2 DEF RegisterTargets, LockInv, TypeProc, Processes, At, Holding, Phases, Listening
    <2> QED BY <1>5, <2>1, <2>2, Zenon DEF RegisterTargets
  <1>6. ASSUME NEW p \in Procs, NEW d \in Directories, MakeDirectory(p, d) PROVE LockInv'
    BY <1>6, Zenon DEF MakeDirectory, LockInv, TypeProc, Processes
  <1>7. ASSUME NEW p \in Procs, Reconcile(p) PROVE LockInv'
    <2>1. ASSUME NEW d, Exits(p, d) PROVE LockInv'
      BY <1>7, <2>1, LockExits DEF Reconcile, At, Listening
    <2>2. CASE proc' = [proc EXCEPT ![p].pc = "serving"] /\ UNCHANGED <<lock, socket>>
      BY <1>7, <2>2 DEF Reconcile, LockInv, TypeProc, Processes, At, Holding, Phases, Listening
    <2> QED BY <1>7, <2>1, <2>2 DEF Reconcile
  <1>8. ASSUME NEW p \in Procs, BeginClose(p) PROVE LockInv'
    BY <1>8 DEF BeginClose, LockInv, TypeProc, Processes, At, Holding, Phases
  <1>9. ASSUME NEW p \in Procs, Close(p) PROVE LockInv'
    BY <1>9, AuthorityAssumption, Zenon DEF Close, LockInv, TypeProc, Processes, At, Off, Holding, Phases, Listening
  <1>10. ASSUME NEW p \in Procs, Crash(p) PROVE LockInv'
    BY <1>10, AuthorityAssumption DEF Crash, LockInv, TypeProc, Processes, At, Off, Holding, Phases, Listening
  <1>11. ASSUME NEW p \in Procs, NEW r \in Runs, Dispatch(p, r) PROVE LockInv'
    BY <1>11 DEF Dispatch, LockInv, TypeProc, Processes
  <1>12. CASE UNCHANGED <<proc, lock, socket>>
    BY <1>12, Zenon DEF LockInv
  <1>13. CASE \/ Operator \/ RestartAgentd \/ UNCHANGED vars
              \/ \E r \in Runs : Expire(r) \/ \E a \in Actors, v \in Conversations : Ingest(r, a, v)
              \/ \E p \in Procs, r \in Runs : Execute(p, r) \/ Advance(p, r)
    BY <1>12, <1>13, Zenon DEF Operator, RestartAgentd, vars, Expire, Ingest, Execute, Advance
  <1> QED BY <1>1, <1>2, <1>3, <1>4, <1>5, <1>6, <1>7, <1>8, <1>9, <1>10, <1>11, <1>13, Zenon DEF Next

\* However many processes are started and whenever they die, the store is open in the process that holds
\* the lock file and in no other.
THEOREM LockDecides == Spec => []OneAuthority
  <1>1. LockInv => OneAuthority
    BY DEF LockInv, OneAuthority, Holding, TypeProc, Processes
  <1>2. TablesInv => TypeProc
    BY DEF TablesInv
  <1> QED BY <1>1, <1>2, Tables, LockInit, LockStep, PTL DEF Spec

-----------------------------------------------------------------------------
(* A directory that exists was made by hand or has an owner: sandboxd      *)
(* makes one only after the owner's row has been committed.                *)

Accounted(d) == d \in byHand \/ \E o \in owners : o.directory = d

DirsInv ==
    /\ \A d \in dirs : Accounted(d)
    /\ \A p \in Procs : At(p, "resolved") =>
          \A d \in StateDirectories(proc[p].config) : d \notin proc[p].todo => Accounted(d)
    /\ \A p \in Procs : At(p, "registered") =>
          \A d \in proc[p].todo : \E o \in owners : o.directory = d
    /\ RefusesOnlyHandMade

\* There is no directory at the beginning without an account.
LEMMA DirsInit == Init => DirsInv
  BY DEF Init, DirsInv, RefusesOnlyHandMade, At, Off

\* Steps under which nothing loses its account, and no process takes up new directories.
LEMMA DirsQuiet ==
    ASSUME DirsInv, byHand \subseteq byHand', owners \subseteq owners',
           \A d \in dirs' : d \in dirs \/ Accounted(d)',
           \A p \in Procs :
              \/ proc'[p] = proc[p]
              \/ /\ proc'[p].pc \notin {"resolved", "registered"}
                 /\ proc'[p].refused \in {{}, proc[p].refused}
    PROVE  DirsInv'
  <1>1. \A d : Accounted(d) => Accounted(d)'
    BY Zenon DEF Accounted
  <1>2. RefusesOnlyHandMade'
    BY Zenon DEF DirsInv, RefusesOnlyHandMade
  <1>3. \A d \in dirs' : Accounted(d)'
    BY <1>1, Zenon DEF DirsInv
  <1>4. ASSUME NEW p \in Procs, At(p, "resolved")', NEW d \in StateDirectories(proc'[p].config), d \notin proc'[p].todo
        PROVE  Accounted(d)'
    BY <1>1, <1>4, Zenon DEF DirsInv, At
  <1>5. ASSUME NEW p \in Procs, At(p, "registered")', NEW d \in proc'[p].todo
        PROVE  \E o \in owners' : o.directory = d
    BY <1>5, Zenon DEF DirsInv, At
  <1> QED BY <1>2, <1>3, <1>4, <1>5, Zenon DEF DirsInv

\* An owner's row of a target is there, or nobody owns its directory.
LEMMA RefusedByHand ==
    ASSUME TablesInv, NEW c \in Configs, Valid(c), NEW e \in c.targets, NEW todo,
           ~Conflicts(c, e), Unowned(c, e, todo), Directory(c, e) \notin todo => Accounted(Directory(c, e))
    PROVE  Directory(c, e) \in byHand /\ Directory(c, e) # None
  <1>1. e.state # None /\ Directory(c, e) # None
    BY DirectoryOfState, Zenon DEF Unowned
  <1>2. ~ \E x \in pins : x.key = Key(e)
    <2> SUFFICES ASSUME NEW x \in pins, x.key = Key(e) PROVE FALSE
      BY Zenon
    <2>1. x.pin = Fingerprint(c, e)
      BY Zenon DEF Conflicts
    <2>2. [key |-> x.key, state |-> x.pin.state, directory |-> x.pin.directory] \in owners
      BY <1>1, <2>1 DEF TablesInv, PinsClaimed, Fingerprint
    <2> QED BY <2>2, Zenon DEF Unowned
  <1>3. Accounted(Directory(c, e))
    BY <1>2, Zenon DEF Unowned
  <1>4. ~ \E o \in owners : o.directory = Directory(c, e)
    BY <1>1, <1>2, Zenon DEF Conflicts
  <1> QED BY <1>1, <1>3, <1>4, Zenon DEF Accounted

\* RegisterTargets gives each directory that is about to be made an owner.
LEMMA DirsRegister ==
    ASSUME TablesInv, DirsInv, NEW p \in Procs, RegisterTargets(p), TablesInv'
    PROVE  DirsInv'
  <1> DEFINE c == proc[p].config
  <1>1. At(p, "resolved") /\ UNCHANGED <<dirs, byHand>>
    BY Zenon DEF RegisterTargets, host
  <1>2. c \in Configs /\ Valid(c)
    BY <1>1, Zenon DEF TablesInv, ConfigsValid, At
  <1>3. CASE Exits(p, {}) /\ UNCHANGED store
    <2>1. \A q \in Procs : proc'[q] = proc[q] \/ (proc'[q].pc = "off" /\ proc'[q].refused = {})
      BY <1>3 DEF Exits, Off, TablesInv, TypeProc
    <2> QED BY <1>1, <1>3, <2>1, DirsQuiet, Zenon DEF store
  <1>4. ASSUME NEW e \in c.targets, ~Conflicts(c, e), Unowned(c, e, proc[p].todo),
               Exits(p, StateDirectories(c)), UNCHANGED store
        PROVE  DirsInv'
    <2>1. Directory(c, e) \notin proc[p].todo /\ Directory(c, e) # None => Accounted(Directory(c, e))
      BY <1>1, <1>4, Zenon DEF DirsInv, StateDirectories
    <2>2. Directory(c, e) # None
      BY <1>2, <1>4, DirectoryOfState, Zenon DEF Unowned
    <2>3. Directory(c, e) \in byHand
      BY <1>2, <1>4, <2>1, <2>2, RefusedByHand
    <2>4. Directory(c, e) \in StateDirectories(c)
      BY <1>4, <2>2, Zenon DEF StateDirectories
    <2>5. /\ proc'[p].pc = "off" /\ proc'[p].refused = StateDirectories(c)
          /\ \A q \in Procs : q # p => proc'[q] = proc[q]
      BY <1>4 DEF Exits, Off, TablesInv, TypeProc
    <2> QED BY <1>1, <1>4, <2>3, <2>4, <2>5 DEF DirsInv, RefusesOnlyHandMade, Accounted, At, store
  <1>5. CASE /\ owners' = owners \cup {[key |-> Key(e), state |-> e.state, directory |-> Directory(c, e)] :
                                          e \in {f \in c.targets : f.state # None}}
             /\ proc' = [proc EXCEPT ![p].pc = "registered", ![p].todo = StateDirectories(c)]
    <2>1. ASSUME NEW d \in StateDirectories(c) PROVE \E o \in owners' : o.directory = d
      <3>1. PICK e \in c.targets : d = Directory(c, e) /\ d # None
        BY Zenon DEF StateDirectories
      <3>2. e.state # None
        BY <1>2, <3>1, DirectoryOfState, Zenon
      <3>3. Claim(c, e) \in owners'
        BY <1>5, <3>2, Zenon DEF Claim
      <3> QED BY <3>1, <3>3 DEF Claim
    <2>2. /\ proc'[p].pc = "registered" /\ proc'[p].todo = StateDirectories(c) /\ proc'[p].refused = proc[p].refused
          /\ \A q \in Procs : q # p => proc'[q] = proc[q]
      BY <1>5, Zenon DEF TablesInv, TypeProc, Processes
    <2>3. \A d : Accounted(d) => Accounted(d)'
      BY <1>1, <1>5 DEF Accounted
    <2>4. RefusesOnlyHandMade'
      BY <1>1, <2>2, Zenon DEF DirsInv, RefusesOnlyHandMade
    <2>5. \A d \in dirs' : Accounted(d)'
      BY <1>1, <2>3, Zenon DEF DirsInv
    <2>6. ASSUME NEW q \in Procs, At(q, "resolved")', NEW d \in StateDirectories(proc'[q].config), d \notin proc'[q].todo
          PROVE  Accounted(d)'
      BY <2>2, <2>3, <2>6, Zenon DEF DirsInv, At
    <2>7. ASSUME NEW q \in Procs, At(q, "registered")', NEW d \in proc'[q].todo
          PROVE  \E o \in owners' : o.directory = d
      <3>1. CASE q = p
        BY <2>1, <2>2, <2>7, <3>1, Zenon
      <3>2. CASE q # p
        BY <1>5, <2>2, <2>7, <3>2, Zenon DEF DirsInv, At
      <3> QED BY <3>1, <3>2, Zenon
    <2> QED BY <2>4, <2>5, <2>6, <2>7 DEF DirsInv
  <1> QED BY <1>3, <1>4, <1>5, Zenon DEF RegisterTargets

\* Every step keeps an account of every directory.
LEMMA DirsStep == TablesInv /\ TablesInv' /\ DirsInv /\ [Next]_vars => DirsInv'
  <1> SUFFICES ASSUME TablesInv, TablesInv', DirsInv, [Next]_vars PROVE DirsInv'
    BY Zenon
  <1> USE DEF store, host
  <1>1. ASSUME NEW p \in Procs, RegisterTargets(p) PROVE DirsInv'
    BY <1>1, DirsRegister, Zenon
  <1>2. ASSUME NEW p \in Procs, ResolveAuthority(p) PROVE DirsInv'
    <2>1. /\ proc'[p].pc = "resolved" /\ proc'[p].config = proc[p].config
          /\ proc'[p].todo = StateDirectories(proc[p].config) \ dirs /\ proc'[p].refused = proc[p].refused
          /\ \A q \in Procs : q # p => proc'[q] = proc[q]
      BY <1>2, Zenon DEF ResolveAuthority, TablesInv, TypeProc, Processes
    <2>2. \A d \in dirs : Accounted(d)'
      BY <1>2 DEF ResolveAuthority, DirsInv, Accounted
    <2>3. RefusesOnlyHandMade'
      BY <1>2, <2>1, Zenon DEF ResolveAuthority, DirsInv, RefusesOnlyHandMade
    <2> QED BY <1>2, <2>1, <2>2, <2>3, ZenonT(60) DEF ResolveAuthority, DirsInv, Accounted, At
  <1>3. ASSUME NEW p \in Procs, NEW d \in Directories, MakeDirectory(p, d) PROVE DirsInv'
    <2>1. /\ proc'[p].pc = "registered" /\ proc'[p].todo = proc[p].todo \ {d} /\ proc'[p].refused = proc[p].refused
          /\ \A q \in Procs : q # p => proc'[q] = proc[q]
      BY <1>3, Zenon DEF MakeDirectory, At, TablesInv, TypeProc, Processes
    <2>2. Accounted(d)' /\ \A f \in dirs : Accounted(f)'
      BY <1>3 DEF MakeDirectory, DirsInv, Accounted
    <2>3. RefusesOnlyHandMade'
      BY <1>3, <2>1, Zenon DEF MakeDirectory, DirsInv, RefusesOnlyHandMade
    <2> QED BY <1>3, <2>1, <2>2, <2>3 DEF MakeDirectory, DirsInv, Accounted, At
  <1>4. CASE /\ UNCHANGED <<dirs, byHand, owners>>
             /\ \A p \in Procs : \/ proc'[p] = proc[p]
                                 \/ /\ proc'[p].pc \notin {"resolved", "registered"}
                                    /\ proc'[p].refused \in {{}, proc[p].refused}
    BY <1>4, DirsQuiet, Zenon
  <1>5. ASSUME NEW p \in Procs, Exits(p, {}), UNCHANGED <<dirs, byHand, owners>> PROVE DirsInv'
    BY <1>5, <1>4 DEF Exits, Off, TablesInv, TypeProc
  <1>6. ASSUME NEW p \in Procs, \/ \E c \in Configs : Load(p, c)
                                \/ AcquireLock(p) \/ AcquireSocket(p) \/ Reconcile(p)
        PROVE  DirsInv'
    <2>1. ASSUME NEW c \in Configs, Load(p, c) PROVE DirsInv'
      BY <1>4, <2>1 DEF Load, Off, TablesInv, TypeProc
    <2>2. CASE AcquireLock(p)
      BY <1>4, <1>5, <2>2 DEF AcquireLock, TablesInv, TypeProc, Processes
    <2>3. CASE AcquireSocket(p)
      BY <1>4, <1>5, <2>3 DEF AcquireSocket, TablesInv, TypeProc, Processes
    <2>4. CASE Reconcile(p)
      BY <1>4, <1>5, <2>4 DEF Reconcile, TablesInv, TypeProc, Processes
    <2> QED BY <1>6, <2>1, <2>2, <2>3, <2>4, Zenon
  <1>7. ASSUME NEW p \in Procs, BeginClose(p) \/ Close(p) \/ Crash(p) PROVE DirsInv'
    BY <1>4, <1>7 DEF BeginClose, Close, Crash, Off, TablesInv, TypeProc, Processes
  <1>8. ASSUME NEW p \in Procs, NEW r \in Runs, Dispatch(p, r) PROVE DirsInv'
    BY <1>4, <1>8 DEF Dispatch, At, TablesInv, TypeProc, Processes
  <1>9. CASE Operator
    BY <1>9, DirsQuiet, Zenon DEF Operator, Accounted
  <1>10. CASE \/ RestartAgentd \/ UNCHANGED vars
              \/ \E r \in Runs : Expire(r) \/ \E a \in Actors, v \in Conversations : Ingest(r, a, v)
              \/ \E p \in Procs, r \in Runs : Execute(p, r) \/ Advance(p, r)
    BY <1>4, <1>10, ZenonT(60) DEF RestartAgentd, vars, Expire, Ingest, Execute, Advance
  <1> QED BY <1>1, <1>2, <1>3, <1>6, <1>7, <1>8, <1>9, <1>10, Zenon DEF Next

\* Whatever configurations sandboxd is started with and wherever a start dies, only a directory that was
\* made by hand is ever refused as of unknown origin.
THEOREM OnlyHandMadeRefused == Spec => []RefusesOnlyHandMade
  <1>1. DirsInv => RefusesOnlyHandMade
    BY Zenon DEF DirsInv
  <1> QED BY <1>1, Tables, DirsInit, DirsStep, PTL DEF Spec

-----------------------------------------------------------------------------
(* A Run keeps what its admission decided, and the revision a container is *)
(* created with is the one the Run names.                                  *)

Grants == {b.target : b \in UNION Policies}

\* The Runs of agentd's store, and the types they have.
TypeCore ==
    /\ core \in [Runs -> [actor : Actors \cup {None}, conversation : Conversations \cup {None},
                          decided : Compiled \cup {None}, key : Grants \cup {None},
                          state : {"none", "queued", "failed", "ended"}]]
    /\ policy \in Compiled

Admitted(r) ==
    /\ core[r].state # "none" /\ core[r].actor # Self /\ core[r].key \in Grants
    /\ core[r].key = core[r].decided[<<core[r].actor, core[r].conversation>>]

GrantInv ==
    /\ TypeCore
    /\ \A r \in Runs : core[r].state # "none" => Admitted(r)
    /\ \A p \in Procs : \A r \in proc[p].offers : core[r].state # "none"
    /\ \A x \in executed : x.run \in Runs /\ core[x.run].state # "none" /\ x.key = core[x.run].key

\* A compiled policy decides for targets that the operator wrote.
LEMMA CompiledGrants ==
    ASSUME NEW f \in Compiled, NEW who \in DOMAIN f
    PROVE  f[who] \in Grants
  <1>1. PICK q \in Policies : f = Compile(q)
    BY Zenon DEF Compiled
  <1>2. who \in {<<b.actor, b.conversation>> : b \in q}
    BY <1>1, Zenon DEF Compile
  <1>3. f[who] = (CHOOSE b \in q : who = <<b.actor, b.conversation>>).target
    BY <1>1, <1>2, Zenon DEF Compile
  <1>4. (CHOOSE b \in q : who = <<b.actor, b.conversation>>) \in q
    BY <1>2, Zenon
  <1> QED BY <1>3, <1>4, Zenon DEF Grants

\* Registry.Resolve returns an entry of exactly the key it was asked for.
LEMMA ResolvesExactly ==
    ASSUME NEW c, NEW key \in Grants, NEW e \in Resolve(c, key)
    PROVE  Key(e) = key
  <1>1. key = <<key[1], key[2]>>
    BY AuthorityAssumption, Zenon DEF Grants
  <1> QED BY <1>1, Zenon DEF Resolve, Key

\* No Run has been admitted at the beginning.
LEMMA GrantInit == Init => GrantInv
  BY DEF Init, GrantInv, TypeCore, NoRun, Off

\* Every step keeps what the admission of a Run decided.
LEMMA GrantStep == TablesInv /\ GrantInv /\ [Next]_vars => GrantInv'
  <1> SUFFICES ASSUME TablesInv, GrantInv, [Next]_vars PROVE GrantInv'
    OBVIOUS
  <1> USE DEF runs
  <1>0. proc \in [Procs -> Processes] /\ policy \in Compiled
    BY Zenon DEF TablesInv, TypeProc, GrantInv, TypeCore
  <1>1. CASE /\ UNCHANGED <<core, executed>> /\ policy' \in Compiled
             /\ \A p \in Procs : proc'[p].offers \subseteq proc[p].offers
    BY <1>1, Zenon DEF GrantInv, TypeCore, Admitted
  <1>2. ASSUME NEW p \in Procs, NEW d, Exits(p, d), UNCHANGED <<core, executed, policy>> PROVE GrantInv'
    BY <1>0, <1>1, <1>2, Zenon DEF Exits, Off
  <1>3. ASSUME NEW p \in Procs, \/ \E c \in Configs : Load(p, c)
                                \/ AcquireLock(p) \/ AcquireSocket(p)
        PROVE  GrantInv'
    <2>1. ASSUME NEW c \in Configs, Load(p, c) PROVE GrantInv'
      BY <1>0, <1>1, <2>1, Zenon DEF Load, Off
    <2>2. CASE AcquireLock(p)
      BY <1>0, <1>1, <1>2, <2>2 DEF AcquireLock, Processes
    <2>3. CASE AcquireSocket(p)
      BY <1>0, <1>1, <1>2, <2>3 DEF AcquireSocket, Processes
    <2> QED BY <1>3, <2>1, <2>2, <2>3, Zenon
  <1>4. ASSUME NEW p \in Procs, ResolveAuthority(p) \/ \E d \in Directories : MakeDirectory(p, d) PROVE GrantInv'
    BY <1>0, <1>1, <1>4 DEF ResolveAuthority, MakeDirectory, Processes
  <1>5. ASSUME NEW p \in Procs, RegisterTargets(p) PROVE GrantInv'
    BY <1>0, <1>1, <1>2, <1>5 DEF RegisterTargets, Processes
  <1>6. ASSUME NEW p \in Procs, Reconcile(p) PROVE GrantInv'
    BY <1>0, <1>1, <1>2, <1>6 DEF Reconcile, Processes
  <1>7. ASSUME NEW p \in Procs, BeginClose(p) \/ Close(p) \/ Crash(p) PROVE GrantInv'
    BY <1>0, <1>1, <1>7 DEF BeginClose, Close, Crash, Off, Processes
  <1>8. ASSUME NEW r \in Runs, NEW a \in Actors, NEW v \in Conversations, Ingest(r, a, v) PROVE GrantInv'
    <2>1. policy[<<a, v>>] \in Grants /\ a # Self
      BY <1>8, CompiledGrants, Zenon DEF Ingest, Authorized, GrantInv, TypeCore
    <2>2. TypeCore'
      BY <1>8, <2>1, Zenon DEF Ingest, GrantInv, TypeCore
    <2>3. core[r].state = "none" /\ Admitted(r)' /\ \A q \in Runs : q # r => core'[q] = core[q]
      BY <1>8, <2>1 DEF Ingest, GrantInv, TypeCore, Admitted, NoRun
    <2>4. UNCHANGED <<proc, executed>>
      BY <1>8, Zenon DEF Ingest
    <2> QED BY <2>2, <2>3, <2>4, ZenonT(60) DEF GrantInv, Admitted, TablesInv, TypeProc, Processes
  <1>9. ASSUME NEW p \in Procs, NEW r \in Runs, Dispatch(p, r) PROVE GrantInv'
    <2>1. core[r].state = "queued" /\ UNCHANGED <<executed, policy>>
      BY <1>9, Zenon DEF Dispatch
    <2>2. \A q \in Procs : proc'[q].offers \subseteq proc[q].offers \cup {r}
      BY <1>9 DEF Dispatch, TablesInv, TypeProc, Processes
    <2>3. TypeCore'
      BY <1>9, <2>1 DEF Dispatch, GrantInv, TypeCore
    <2>4. \A q \in Runs : /\ core'[q].state = "none" <=> core[q].state = "none"
                          /\ core'[q].actor = core[q].actor /\ core'[q].conversation = core[q].conversation
                          /\ core'[q].decided = core[q].decided /\ core'[q].key = core[q].key
      BY <1>9, <2>1 DEF Dispatch, GrantInv, TypeCore
    <2>5. \A q \in Runs : core'[q].state # "none" => Admitted(q)'
      <3> SUFFICES ASSUME NEW q \in Runs, core'[q].state # "none" PROVE Admitted(q)'
        BY Zenon
      <3>1. Admitted(q)
        BY <2>4, Zenon DEF GrantInv
      <3> QED BY <2>4, <3>1, Zenon DEF Admitted
    <2>6. \A q \in Procs : \A s \in proc'[q].offers : core'[s].state # "none"
      <3> SUFFICES ASSUME NEW q \in Procs, NEW s \in proc'[q].offers PROVE core'[s].state # "none"
        BY Zenon
      <3>1. s \in Runs /\ (s = r \/ s \in proc[q].offers)
        BY <2>2, Zenon DEF TablesInv, TypeProc, Processes
      <3> QED BY <2>1, <2>4, <3>1, Zenon DEF GrantInv
    <2>7. \A x \in executed' : x.run \in Runs /\ core'[x.run].state # "none" /\ x.key = core'[x.run].key
      BY <2>1, <2>4 DEF GrantInv
    <2> QED BY <2>3, <2>5, <2>6, <2>7, Zenon DEF GrantInv
  <1>10. ASSUME NEW p \in Procs, NEW r \in Runs, Execute(p, r) PROVE GrantInv'
    <2>1. core[r].state # "none" /\ core[r].key \in Grants
      BY <1>10, Zenon DEF Execute, GrantInv, Admitted
    <2>2. PICK e \in Resolve(proc[p].config, core[r].key) :
             executed' = executed \cup {[run |-> r, key |-> Key(e), pin |-> Fingerprint(proc[p].config, e)]}
      BY <1>10, Zenon DEF Execute
    <2>3. Key(e) = core[r].key
      BY <2>1, <2>2, ResolvesExactly
    <2>4. UNCHANGED <<core, proc, policy>>
      BY <1>10, Zenon DEF Execute
    <2> QED BY <2>1, <2>2, <2>3, <2>4 DEF GrantInv, TypeCore, Admitted
  <1>11. CASE RestartAgentd
    BY <1>1, <1>11, Zenon DEF RestartAgentd
  <1>12. CASE \/ Operator \/ UNCHANGED vars \/ \E r \in Runs : Expire(r)
              \/ \E p \in Procs, r \in Runs : Advance(p, r)
    BY <1>1, <1>12, Zenon DEF Operator, vars, Expire, Advance, GrantInv, TypeCore
  <1> QED BY <1>3, <1>4, <1>5, <1>6, <1>7, <1>8, <1>9, <1>10, <1>11, <1>12, Zenon DEF Next

\* Whatever policies and configurations the daemons are started with, a Run is executed with the target
\* revision that the policy in force at its admission gave to its actor and conversation.
THEOREM GrantIsExecuted == Spec => []ExecutesTheGrant
  <1>1. GrantInv => ExecutesTheGrant
    BY DEF GrantInv, ExecutesTheGrant, Admitted
  <1> QED BY <1>1, Tables, GrantInit, GrantStep, PTL DEF Spec

====
