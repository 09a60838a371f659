----------------------- MODULE SandboxAuthorityProofs -----------------------
(***************************************************************************)
(* RuntimeAuthority, and the steps of SandboxController as steps of it.    *)
(*                                                                         *)
(* The first part proves what RuntimeAuthority promises, for any set of    *)
(* Runs, finite or not. OneRuntimeAtATime and PublishedMeansGone are not   *)
(* inductive: a Create under one Run's authority would break the first if  *)
(* another Run could hold authority too, and one under the authority of a  *)
(* published Run the second. Covered, and that authority is exclusive and  *)
(* ends with publication, complete the inductive invariant.                *)
(*                                                                         *)
(* The second part maps every step of the controller, from a state that    *)
(* satisfies its inductive invariant, to a step of RuntimeAuthority or to  *)
(* none.                                                                   *)
(***************************************************************************)
EXTENDS SandboxProofs, SandboxAuthority

VARIABLES phase, outcome, authority, started, runtime

RA == INSTANCE RuntimeAuthority

\* At most one Run holds authority, and only between admission and publication.
Exclusive ==
    /\ \A r, q \in Runs : authority[r] /\ authority[q] => r = q
    /\ \A r \in Runs : authority[r] => phase[r] \in {"open", "decided"}

\* The inductive invariant of the protocol.
AuthorityInv == RA!TypeOK /\ RA!Covered /\ Exclusive

\* The state before registration (an empty database and a daemon without
\* containers) satisfies the invariant.
LEMMA AuthorityInit == RA!Init => AuthorityInv
BY Zenon DEF RA!Init, AuthorityInv, RA!TypeOK, RA!Covered, Exclusive

\* No step of the protocol (registration, intent, Create, start, removal,
\* clearing, staging, publication) breaks the invariant.
LEMMA AuthorityStep == AuthorityInv /\ [RA!Next]_(RA!vars) => AuthorityInv'
<1> SUFFICES ASSUME AuthorityInv, [RA!Next]_(RA!vars) PROVE AuthorityInv'
    OBVIOUS
<1> USE DEF AuthorityInv
<1>1. ASSUME NEW r \in Runs, RA!Admit(r) PROVE AuthorityInv'
    BY <1>1, Zenon DEF RA!Admit, RA!TypeOK, RA!Covered, Exclusive
<1>2. ASSUME NEW r \in Runs, RA!Grant(r) PROVE AuthorityInv'
    BY <1>2 DEF RA!Grant, RA!TypeOK, RA!Covered, Exclusive
<1>3. ASSUME NEW r \in Runs, RA!Dispatch(r) PROVE AuthorityInv'
    BY <1>3, Zenon DEF RA!Dispatch, RA!TypeOK, RA!Covered, Exclusive
<1>4. ASSUME NEW r \in Runs, RA!Land(r) PROVE AuthorityInv'
    BY <1>4, Zenon DEF RA!Land, RA!TypeOK, RA!Covered, Exclusive
<1>5. ASSUME NEW r \in Runs, RA!Launch(r) PROVE AuthorityInv'
    BY <1>5, Zenon DEF RA!Launch, RA!TypeOK, RA!Covered, Exclusive
<1>6. CASE RA!Lose
    BY <1>6 DEF RA!Lose, RA!TypeOK, RA!Covered, Exclusive
<1>7. CASE RA!Remove
    BY <1>7 DEF RA!Remove, RA!TypeOK, RA!Covered, Exclusive
<1>8. ASSUME NEW r \in Runs, RA!Release(r) PROVE AuthorityInv'
    BY <1>8, Zenon DEF RA!Release, RA!TypeOK, RA!Covered, Exclusive
<1>9. ASSUME NEW r \in Runs, NEW o \in RA!Outcomes, RA!Decide(r, o) PROVE AuthorityInv'
    BY <1>9, Zenon DEF RA!Decide, RA!TypeOK, RA!Covered, Exclusive
<1>10. ASSUME NEW r \in Runs, RA!Publish(r) PROVE AuthorityInv'
    BY <1>10, Zenon DEF RA!Publish, RA!TypeOK, RA!Covered, Exclusive
<1>11. CASE UNCHANGED RA!vars
    BY <1>11, Zenon DEF RA!vars, RA!TypeOK, RA!Covered, Exclusive
<1>12. QED
    BY <1>1, <1>2, <1>3, <1>4, <1>5, <1>6, <1>7, <1>8, <1>9, <1>10, <1>11 DEF RA!Next

\* The invariant holds in every state of the protocol.
THEOREM AuthorityInvariance == RA!Spec => []AuthorityInv
BY AuthorityInit, AuthorityStep, PTL DEF RA!Spec

\* A container that exists, or that a Create in flight may still produce, is
\* always covered by a durable intent or reference.
THEOREM AuthorityCovers == RA!Spec => []RA!Covered
<1>1. AuthorityInv => RA!Covered
    BY Zenon DEF AuthorityInv
<1>2. QED
    BY <1>1, AuthorityInvariance, PTL

\* At most one Run has a container or may still get one: the promise behind
\* the quiescence gate of the execution worker.
THEOREM AuthorityIsExclusive == RA!Spec => []RA!OneRuntimeAtATime
<1>1. AuthorityInv => RA!OneRuntimeAtATime
    BY Zenon DEF AuthorityInv, RA!Covered, Exclusive, RA!OneRuntimeAtATime
<1>2. QED
    BY <1>1, AuthorityInvariance, PTL

\* When ConfirmRuntimeStopped has published a Run, nothing of it is left.
THEOREM PublicationIsLast == RA!Spec => []RA!PublishedMeansGone
<1>1. AuthorityInv => RA!PublishedMeansGone
    BY Zenon DEF AuthorityInv, RA!TypeOK, RA!Covered, Exclusive, RA!PublishedMeansGone
<1>2. QED
    BY <1>1, AuthorityInvariance, PTL

\* A Run that was started and whose container is gone never gets another
\* container, and what was published is never changed.
THEOREM StartedAtMostOnce == RA!Spec => RA!NeverAgain
<1> DEFINE Kept(r) ==
        /\ started[r] /\ runtime[r] = "none" => runtime'[r] = "none"
        /\ phase[r] = "published" => phase'[r] = "published" /\ outcome'[r] = outcome[r]
<1>1. ASSUME AuthorityInv, [RA!Next]_(RA!vars) PROVE [\A r \in Runs : Kept(r)]_(RA!vars)
    <2> USE <1>1 DEF AuthorityInv
    <2>1. ASSUME NEW r \in Runs, NEW q \in Runs,
                 RA!Admit(q) \/ RA!Grant(q) \/ RA!Release(q) \/ RA!Publish(q) \/ RA!Launch(q)
          PROVE Kept(r)
        BY <2>1, Zenon DEF RA!Admit, RA!Grant, RA!Release, RA!Publish, RA!Launch, RA!TypeOK
    <2>2. ASSUME NEW r \in Runs, NEW q \in Runs, RA!Dispatch(q) \/ RA!Land(q) PROVE Kept(r)
        BY <2>2, Zenon DEF RA!Dispatch, RA!Land, RA!TypeOK
    <2>3. ASSUME NEW r \in Runs, NEW q \in Runs, NEW o \in RA!Outcomes, RA!Decide(q, o) PROVE Kept(r)
        BY <2>3, Zenon DEF RA!Decide, RA!TypeOK
    <2>4. ASSUME NEW r \in Runs, RA!Lose \/ RA!Remove PROVE Kept(r)
        BY <2>4, Zenon DEF RA!Lose, RA!Remove, RA!TypeOK
    <2>5. QED
        BY <2>1, <2>2, <2>3, <2>4, Zenon DEF RA!Next
<1>2. QED
    BY <1>1, AuthorityInvariance, PTL DEF RA!Spec, RA!NeverAgain

-----------------------------------------------------------------------------

\* What RuntimeAuthority sees of a Run.
OutcomeOf(row) == IF Published(row) THEN row.state ELSE row.staged

RuntimeOf(r) == IF container[r] # "none" THEN "present" ELSE IF flight[r] THEN "pending" ELSE "none"

\* Run x looks the same after the step, apart from one component.
Same(x) ==
    /\ Phase(rows'[x]) = Phase(rows[x]) /\ OutcomeOf(rows'[x]) = OutcomeOf(rows[x])
    /\ Held(rows'[x]) = Held(rows[x]) /\ (starts'[x] > 0) = (starts[x] > 0)
    /\ RuntimeOf(x)' = RuntimeOf(x)

\* The abstract step taken for Run r: every other Run looks the same.
Only(r) == \A x \in Runs \ {r} : Same(x)

phases == [r \in Runs |-> Phase(rows[r])]

outcomes == [r \in Runs |-> OutcomeOf(rows[r])]

authorities == [r \in Runs |-> Held(rows[r])]

starteds == [r \in Runs |-> starts[r] > 0]

runtimes == [r \in Runs |-> RuntimeOf(r)]

\* A step that changes nothing of what RuntimeAuthority sees.
LEMMA StutterView ==
    ASSUME \A x \in Runs : Same(x)
    PROVE  UNCHANGED Authority!vars
<1>1. /\ phases' = phases /\ outcomes' = outcomes /\ authorities' = authorities /\ starteds' = starteds
      /\ runtimes' = runtimes
  BY Zenon DEF Same, phases, outcomes, authorities, starteds, runtimes
<1> QED BY <1>1, Zenon DEF phases, outcomes, authorities, starteds, runtimes, Authority!vars, OutcomeOf, RuntimeOf, Held

\* A row appears: Admit.
LEMMA AdmitView ==
    ASSUME NEW r \in Runs, Only(r), Phase(rows[r]) = "absent", Phase(rows'[r]) = "open",
           OutcomeOf(rows'[r]) = OutcomeOf(rows[r]), Held(rows'[r]) = Held(rows[r]),
           (starts'[r] > 0) = (starts[r] > 0), RuntimeOf(r)' = RuntimeOf(r)
    PROVE  Authority!Next
<1>1. /\ phases[r] = "absent" /\ phases' = [phases EXCEPT ![r] = "open"]
      /\ outcomes' = outcomes /\ authorities' = authorities /\ starteds' = starteds /\ runtimes' = runtimes
  BY Zenon DEF Same, Only, phases, outcomes, authorities, starteds, runtimes
<1>2. Authority!Admit(r)
  BY <1>1, Zenon DEF phases, outcomes, authorities, starteds, runtimes, Authority!Admit, OutcomeOf, RuntimeOf, Held
<1> QED BY <1>2, Zenon DEF Authority!Next

\* The one Run to claim a container: Grant.
LEMMA GrantView ==
    ASSUME NEW r \in Runs, Only(r), Phase(rows[r]) = "open", Phase(rows'[r]) = "open",
           OutcomeOf(rows'[r]) = OutcomeOf(rows[r]), \A q \in Runs : ~Held(rows[q]), Held(rows'[r]),
           (starts'[r] > 0) = (starts[r] > 0), RuntimeOf(r)' = RuntimeOf(r)
    PROVE  Authority!Next
<1>1. /\ phases[r] = "open" /\ (\A q \in Runs : ~authorities[q])
      /\ authorities' = [authorities EXCEPT ![r] = TRUE]
      /\ outcomes' = outcomes /\ phases' = phases /\ starteds' = starteds /\ runtimes' = runtimes
  BY Zenon DEF Same, Only, phases, outcomes, authorities, starteds, runtimes
<1>2. Authority!Grant(r)
  BY <1>1, Zenon DEF phases, outcomes, authorities, starteds, runtimes, Authority!Grant, OutcomeOf, RuntimeOf, Held
<1> QED BY <1>2, Zenon DEF Authority!Next

\* A Create is sent: Dispatch.
LEMMA DispatchView ==
    ASSUME NEW r \in Runs, Only(r),
           Phase(rows[r]) = "open", Held(rows[r]), RuntimeOf(r) = "none", ~(starts[r] > 0),
           Phase(rows'[r]) = Phase(rows[r]), OutcomeOf(rows'[r]) = OutcomeOf(rows[r]),
           Held(rows'[r]) = Held(rows[r]), (starts'[r] > 0) = (starts[r] > 0), RuntimeOf(r)' = "pending"
    PROVE  Authority!Next
<1>1. /\ phases[r] = "open" /\ authorities[r] /\ runtimes[r] = "none" /\ ~starteds[r]
      /\ runtimes' = [runtimes EXCEPT ![r] = "pending"]
      /\ phases' = phases /\ outcomes' = outcomes /\ authorities' = authorities /\ starteds' = starteds
  BY Zenon DEF Same, Only, phases, outcomes, authorities, starteds, runtimes
<1>2. Authority!Dispatch(r)
  BY <1>1, Zenon DEF phases, outcomes, authorities, starteds, runtimes, Authority!Dispatch, OutcomeOf, RuntimeOf, Held
<1> QED BY <1>2, Zenon DEF Authority!Next

\* A Create takes effect: Land.
LEMMA LandView ==
    ASSUME NEW r \in Runs, Only(r),
           RuntimeOf(r) = "pending", RuntimeOf(r)' = "present",
           Phase(rows'[r]) = Phase(rows[r]), OutcomeOf(rows'[r]) = OutcomeOf(rows[r]),
           Held(rows'[r]) = Held(rows[r]), (starts'[r] > 0) = (starts[r] > 0)
    PROVE  Authority!Next
<1>1. /\ runtimes[r] = "pending" /\ runtimes' = [runtimes EXCEPT ![r] = "present"]
      /\ phases' = phases /\ outcomes' = outcomes /\ authorities' = authorities /\ starteds' = starteds
  BY Zenon DEF Same, Only, phases, outcomes, authorities, starteds, runtimes
<1>2. Authority!Land(r)
  BY <1>1, Zenon DEF phases, outcomes, authorities, starteds, runtimes, Authority!Land, OutcomeOf, RuntimeOf, Held
<1> QED BY <1>2, Zenon DEF Authority!Next

\* A container is started: Launch.
LEMMA LaunchView ==
    ASSUME NEW r \in Runs, Only(r),
           Phase(rows[r]) = "open", Held(rows[r]), RuntimeOf(r) = "present", ~(starts[r] > 0),
           Phase(rows'[r]) = Phase(rows[r]), OutcomeOf(rows'[r]) = OutcomeOf(rows[r]),
           Held(rows'[r]) = Held(rows[r]), starts'[r] > 0, RuntimeOf(r)' = RuntimeOf(r)
    PROVE  Authority!Next
<1>1. /\ phases[r] = "open" /\ authorities[r] /\ runtimes[r] = "present" /\ ~starteds[r]
      /\ starteds' = [starteds EXCEPT ![r] = TRUE]
      /\ phases' = phases /\ outcomes' = outcomes /\ authorities' = authorities /\ runtimes' = runtimes
  BY Zenon DEF Same, Only, phases, outcomes, authorities, starteds, runtimes
<1>2. Authority!Launch(r)
  BY <1>1, Zenon DEF phases, outcomes, authorities, starteds, runtimes, Authority!Launch, OutcomeOf, RuntimeOf, Held
<1> QED BY <1>2, Zenon DEF Authority!Next

\* A claim is given up: Release.
LEMMA ReleaseView ==
    ASSUME NEW r \in Runs, Only(r),
           Held(rows[r]), Held(rows'[r]) = FALSE, RuntimeOf(r) = "none",
           Phase(rows'[r]) = Phase(rows[r]), OutcomeOf(rows'[r]) = OutcomeOf(rows[r]),
           (starts'[r] > 0) = (starts[r] > 0), RuntimeOf(r)' = RuntimeOf(r)
    PROVE  Authority!Next
<1>1. /\ authorities[r] /\ runtimes[r] = "none"
      /\ authorities' = [authorities EXCEPT ![r] = FALSE]
      /\ phases' = phases /\ outcomes' = outcomes /\ starteds' = starteds /\ runtimes' = runtimes
  BY Zenon DEF Same, Only, phases, outcomes, authorities, starteds, runtimes
<1>2. Authority!Release(r)
  BY <1>1, Zenon DEF phases, outcomes, authorities, starteds, runtimes, Authority!Release, OutcomeOf, RuntimeOf, Held
<1> QED BY <1>2, Zenon DEF Authority!Next

\* An outcome is published: Publish.
LEMMA PublishView ==
    ASSUME NEW r \in Runs, Only(r),
           Phase(rows[r]) = "decided", Phase(rows'[r]) = "published", RuntimeOf(r) = "none",
           Held(rows'[r]) = FALSE, OutcomeOf(rows'[r]) = OutcomeOf(rows[r]),
           (starts'[r] > 0) = (starts[r] > 0), RuntimeOf(r)' = RuntimeOf(r)
    PROVE  Authority!Next
<1>1. /\ phases[r] = "decided" /\ runtimes[r] = "none"
      /\ phases' = [phases EXCEPT ![r] = "published"]
      /\ authorities' = [authorities EXCEPT ![r] = FALSE]
      /\ outcomes' = outcomes /\ starteds' = starteds /\ runtimes' = runtimes
  BY Zenon DEF Same, Only, phases, outcomes, authorities, starteds, runtimes
<1>2. Authority!Publish(r)
  BY <1>1, Zenon DEF phases, outcomes, authorities, starteds, runtimes, Authority!Publish, OutcomeOf, RuntimeOf, Held
<1> QED BY <1>2, Zenon DEF Authority!Next

\* An outcome is staged: Decide.
LEMMA DecideView ==
    ASSUME NEW r \in Runs, Only(r), NEW o \in Outcome,
           Phase(rows[r]) = "open", Phase(rows'[r]) = "decided", OutcomeOf(rows'[r]) = o,
           Held(rows'[r]) = Held(rows[r]),
           (starts'[r] > 0) = (starts[r] > 0), RuntimeOf(r)' = RuntimeOf(r)
    PROVE  Authority!Next
<1>1. /\ phases[r] = "open" /\ phases' = [phases EXCEPT ![r] = "decided"]
      /\ outcomes' = [outcomes EXCEPT ![r] = o]
      /\ authorities' = authorities /\ starteds' = starteds /\ runtimes' = runtimes
  BY Zenon DEF Same, Only, phases, outcomes, authorities, starteds, runtimes
<1>2. Authority!Decide(r, o)
  BY <1>1, Zenon DEF phases, outcomes, authorities, starteds, runtimes, Authority!Decide, OutcomeOf, RuntimeOf, Held
<1> QED BY <1>2, Zenon DEF Authority!Next, Authority!Outcomes, Outcome

\* Creates in flight come to nothing: Lose.
LEMMA LoseView ==
    ASSUME UNCHANGED <<rows, starts>>,
           \A x \in Runs : RuntimeOf(x)' # RuntimeOf(x) => RuntimeOf(x) = "pending" /\ RuntimeOf(x)' = "none"
    PROVE  Authority!Next
<1> DEFINE S == {x \in Runs : RuntimeOf(x) = "pending" /\ RuntimeOf(x)' = "none"}
<1>1. /\ S \in SUBSET {x \in Runs : runtimes[x] = "pending"}
      /\ runtimes' = [x \in Runs |-> IF x \in S THEN "none" ELSE runtimes[x]]
      /\ phases' = phases /\ outcomes' = outcomes /\ authorities' = authorities /\ starteds' = starteds
  BY Zenon DEF phases, outcomes, authorities, starteds, runtimes
<1> HIDE DEF S
<1>2. Authority!Lose
  BY <1>1, Zenon DEF phases, outcomes, authorities, starteds, runtimes, Authority!Lose, OutcomeOf, RuntimeOf, Held
<1> QED BY <1>2, Zenon DEF Authority!Next

\* Containers disappear: Remove.
LEMMA RemoveView ==
    ASSUME UNCHANGED <<rows, starts>>,
           \A x \in Runs : RuntimeOf(x)' # RuntimeOf(x) => RuntimeOf(x) = "present" /\ RuntimeOf(x)' = "none"
    PROVE  Authority!Next
<1> DEFINE S == {x \in Runs : RuntimeOf(x) = "present" /\ RuntimeOf(x)' = "none"}
<1>1. /\ S \in SUBSET {x \in Runs : runtimes[x] = "present"}
      /\ runtimes' = [x \in Runs |-> IF x \in S THEN "none" ELSE runtimes[x]]
      /\ phases' = phases /\ outcomes' = outcomes /\ authorities' = authorities /\ starteds' = starteds
  BY Zenon DEF phases, outcomes, authorities, starteds, runtimes
<1> HIDE DEF S
<1>2. Authority!Remove
  BY <1>1, Zenon DEF phases, outcomes, authorities, starteds, runtimes, Authority!Remove, OutcomeOf, RuntimeOf, Held
<1> QED BY <1>2, Zenon DEF Authority!Next

-----------------------------------------------------------------------------

\* A step of sandboxd is one of RuntimeAuthority, or none at all.
Maps == [Authority!Next]_(Authority!vars)

\* A step that changes neither the database nor the daemon.
LEMMA RestMaps ==
    ASSUME UNCHANGED <<rows, container, flight, starts>>
    PROVE  Maps
<1>1. \A x \in Runs : Same(x)
  BY Zenon DEF Same, RuntimeOf
<1> QED BY <1>1, StutterView, Zenon DEF Maps

\* What RuntimeAuthority sees of a write to one row.
LEMMA RowWrite ==
    ASSUME IInv, NEW r \in Runs, NEW row, rows' = [rows EXCEPT ![r] = row], UNCHANGED docker
    PROVE  /\ Only(r) /\ rows'[r] = row /\ starts'[r] = starts[r] /\ RuntimeOf(r)' = RuntimeOf(r)
           /\ rows[r] \in RowType /\ RowFits(rows[r], r) /\ (~Live(r) => RuntimeOf(r) = "none")
  BY Zenon DEF IInv, TypeOK, RowOK, docker, Only, Same, RuntimeOf, Live

\* A write to one row of which it sees nothing.
LEMMA QuietWrite ==
    ASSUME IInv, NEW r \in Runs, NEW row, rows' = [rows EXCEPT ![r] = row], UNCHANGED docker,
           Phase(row) = Phase(rows[r]), OutcomeOf(row) = OutcomeOf(rows[r]), Held(row) = Held(rows[r])
    PROVE  Maps
<1>1. Only(r) /\ rows'[r] = row /\ starts'[r] = starts[r] /\ RuntimeOf(r)' = RuntimeOf(r)
  BY RowWrite, Zenon
<1>2. \A x \in Runs : Same(x)
  BY <1>1, Zenon DEF Only, Same
<1> QED BY <1>2, StutterView, Zenon DEF Maps

\* A request for cancellation is a stutter.
LEMMA CancellingMaps ==
    ASSUME IInv, NEW r \in Runs, CanCancel(rows[r]), rows' = [rows EXCEPT ![r] = Cancelling(rows[r])],
           UNCHANGED docker
    PROVE  Maps
<1> DEFINE row == Cancelling(rows[r])
<1>1. rows[r] \in RowType
  BY Zenon DEF IInv, TypeOK
<1>2. /\ row.state = "cancelling" /\ row.staged = rows[r].staged /\ row.intent = rows[r].intent
      /\ row.ref = rows[r].ref
  BY <1>1, Zenon DEF Cancelling, RowType
<1> HIDE DEF row
<1>3. Phase(row) = Phase(rows[r]) /\ OutcomeOf(row) = OutcomeOf(rows[r]) /\ Held(row) = Held(rows[r])
  BY <1>2, Zenon DEF CanCancel, Phase, OutcomeOf, Held, Pending, Published, Outcome, Active
<1> QED BY <1>3, QuietWrite, Zenon DEF row

\* So is recording that the Run has started.
LEMMA RunningMaps ==
    ASSUME IInv, NEW r \in Runs, CanStart(rows[r]), rows' = [rows EXCEPT ![r] = Running(rows[r])],
           UNCHANGED docker
    PROVE  Maps
<1> DEFINE row == Running(rows[r])
<1>1. rows[r] \in RowType
  BY Zenon DEF IInv, TypeOK
<1>2. /\ row.state = "running" /\ row.staged = rows[r].staged /\ row.intent = rows[r].intent
      /\ row.ref = rows[r].ref
  BY <1>1, Zenon DEF Running, RowType
<1> HIDE DEF row
<1>3. Phase(row) = Phase(rows[r]) /\ OutcomeOf(row) = OutcomeOf(rows[r]) /\ Held(row) = Held(rows[r])
  BY <1>2, Zenon DEF CanStart, Phase, OutcomeOf, Held, Pending, Published, Outcome
<1> QED BY <1>3, QuietWrite, Zenon DEF row

\* So is binding: the claim passes from the intent to the reference.
LEMMA BoundMaps ==
    ASSUME IInv, NEW r \in Runs, CanBind(rows[r]), rows' = [rows EXCEPT ![r] = Bound(rows[r])],
           UNCHANGED docker
    PROVE  Maps
<1> DEFINE row == Bound(rows[r])
<1>1. rows[r] \in RowType
  BY Zenon DEF IInv, TypeOK
<1>2. /\ row.state = rows[r].state /\ row.staged = rows[r].staged /\ row.ref
  BY <1>1, Shapes, Zenon
<1> HIDE DEF row
<1>3. Phase(row) = Phase(rows[r]) /\ OutcomeOf(row) = OutcomeOf(rows[r])
  BY <1>2, Zenon DEF Phase, OutcomeOf, Published
<1>4. Held(row) = Held(rows[r])
  BY <1>1, <1>2, Zenon DEF CanBind, Held, Pending, RowType
<1> QED BY <1>3, <1>4, QuietWrite, Zenon DEF row

\* Registration is Admit.
LEMMA RegisteredMaps ==
    ASSUME IInv, NEW r \in Runs, rows[r].state = "none", NEW b,
           rows' = [rows EXCEPT ![r] = Registered(b)], UNCHANGED docker
    PROVE  Maps
<1> DEFINE row == Registered(b)
<1>1. /\ Only(r) /\ rows'[r] = row /\ starts'[r] = starts[r] /\ RuntimeOf(r)' = RuntimeOf(r)
      /\ RowFits(rows[r], r)
  BY RowWrite, Zenon
<1>2. rows[r] = NoRow
  BY <1>1, Zenon DEF RowFits
<1>3. row.state = "accepted" /\ row.staged = "none" /\ row.intent = NoBoot /\ row.ref = FALSE
  BY Zenon DEF Registered, NoRow
<1> HIDE DEF row
<1>4. /\ Phase(rows[r]) = "absent" /\ Phase(row) = "open" /\ OutcomeOf(row) = OutcomeOf(rows[r])
      /\ Held(row) = Held(rows[r])
  BY <1>2, <1>3 DEF Phase, OutcomeOf, Held, Pending, Published, Outcome, NoRow
<1> QED BY <1>1, <1>4, AdmitView DEF Maps

\* Recording the intent is Grant: the worker has waited until no other row claims
\* a container, and no other goroutine makes one do so.
LEMMA BegunMaps ==
    ASSUME IInv, NEW r \in Runs, CanBegin(rows[r]), rows' = [rows EXCEPT ![r] = Begun(rows[r], boot)],
           UNCHANGED docker, \A q \in Runs : ~Held(rows[q])
    PROVE  Maps
<1> DEFINE row == Begun(rows[r], boot)
<1>1. /\ Only(r) /\ rows'[r] = row /\ starts'[r] = starts[r] /\ RuntimeOf(r)' = RuntimeOf(r)
      /\ rows[r] \in RowType
  BY RowWrite, Zenon
<1>2. row.state = rows[r].state /\ row.staged = rows[r].staged /\ row.intent = boot
  BY <1>1, Zenon DEF Begun, RowType
<1> HIDE DEF row
<1>3. /\ Phase(rows[r]) = "open" /\ Phase(row) = "open" /\ OutcomeOf(row) = OutcomeOf(rows[r])
  BY <1>2, Zenon DEF CanBegin, Phase, OutcomeOf, Published, Outcome
<1>4. Held(row)
  BY <1>2, SandboxAssumption DEF IInv, TypeOK, Held, Pending, NoBoot
<1> QED BY <1>1, <1>3, <1>4, GrantView DEF Maps

\* Clearing the intent is Release, or a stutter if there was none.
LEMMA ClearedMaps ==
    ASSUME IInv, NEW r \in Runs, ~rows[r].ref, rows' = [rows EXCEPT ![r] = Cleared(rows[r])],
           UNCHANGED docker, ~Live(r)
    PROVE  Maps
<1> DEFINE row == Cleared(rows[r])
<1>1. /\ Only(r) /\ rows'[r] = row /\ starts'[r] = starts[r] /\ RuntimeOf(r)' = RuntimeOf(r)
      /\ rows[r] \in RowType /\ RuntimeOf(r) = "none"
  BY RowWrite, Zenon
<1>2. row.state = rows[r].state /\ row.staged = rows[r].staged /\ row.intent = NoBoot /\ ~row.ref
  BY <1>1, Shapes, Zenon DEF NoBoot
<1> HIDE DEF row
<1>3. Phase(row) = Phase(rows[r]) /\ OutcomeOf(row) = OutcomeOf(rows[r]) /\ Held(row) = FALSE
  BY <1>2, Zenon DEF Phase, OutcomeOf, Published, Held, Pending
<1>4. CASE Held(rows[r])
  BY <1>1, <1>3, <1>4, ReleaseView, Zenon DEF Maps
<1>5. CASE ~Held(rows[r])
  <2>1. Held(row) = Held(rows[r])
    BY <1>3, <1>5, Zenon DEF Held
  <2> QED BY <1>3, <2>1, QuietWrite, Zenon DEF row
<1> QED BY <1>4, <1>5, Zenon

\* Staging is Decide, once.
LEMMA StagedMaps ==
    ASSUME IInv, NEW r \in Runs, NEW o \in Outcome, CanStage(rows[r], o),
           rows' = [rows EXCEPT ![r] = Staged(rows[r], o)], UNCHANGED docker
    PROVE  Maps
<1> DEFINE row == Staged(rows[r], o)
<1>1. /\ Only(r) /\ rows'[r] = row /\ starts'[r] = starts[r] /\ RuntimeOf(r)' = RuntimeOf(r)
      /\ rows[r] \in RowType
  BY RowWrite, Zenon
<1>2. /\ row.state = rows[r].state /\ row.staged = o /\ row.intent = rows[r].intent
      /\ row.ref = rows[r].ref
  BY <1>1, Zenon DEF Staged, RowType
<1> HIDE DEF row
<1>3. /\ Phase(rows[r]) = "open" /\ Phase(row) = "decided" /\ OutcomeOf(row) = o
      /\ Held(row) = Held(rows[r])
  BY <1>2, Zenon DEF CanStage, Reaches, Active, Phase, OutcomeOf, Published, Outcome, Held, Pending
<1> QED BY <1>1, <1>3, DecideView DEF Maps

\* Confirming is Publish, or a stutter if the Run is published already.
LEMMA ConfirmedMaps ==
    ASSUME IInv, NEW r \in Runs, CanConfirm(rows[r]), rows' = [rows EXCEPT ![r] = Confirmed(rows[r])],
           UNCHANGED docker, ~Live(r)
    PROVE  Maps
<1> DEFINE row == Confirmed(rows[r])
<1>1. /\ Only(r) /\ rows'[r] = row /\ starts'[r] = starts[r] /\ RuntimeOf(r)' = RuntimeOf(r)
      /\ rows[r] \in RowType /\ RowFits(rows[r], r) /\ RuntimeOf(r) = "none"
  BY RowWrite, Zenon
<1>2. /\ row.state = IF rows[r].staged # "none" THEN rows[r].staged ELSE rows[r].state
      /\ row.staged = "none" /\ row.intent = NoBoot /\ row.ref = FALSE
  BY Zenon DEF Confirmed, NoRow
<1> HIDE DEF row
<1>3. Published(row) /\ Phase(row) = "published" /\ OutcomeOf(row) = OutcomeOf(rows[r]) /\ Held(row) = FALSE
  BY <1>1, <1>2 DEF CanConfirm, Decided, RowType, RowFits, Terminal, Phase, OutcomeOf, Published, Outcome,
                    Held, Pending
<1>4. CASE rows[r].staged # "none"
  <2>1. rows[r].state # "none" /\ ~Published(rows[r])
    BY <1>1, <1>4 DEF RowFits, NoRow
  <2>2. Phase(rows[r]) = "decided"
    BY <1>4, <2>1, Zenon DEF Phase
  <2> QED BY <1>1, <1>3, <2>2, PublishView, Zenon DEF Maps
<1>5. CASE rows[r].staged = "none"
  <2>1. Published(rows[r]) /\ ~Held(rows[r])
    BY <1>1, <1>5, Zenon DEF CanConfirm, Decided, RowFits
  <2>2. Held(row) = Held(rows[r])
    BY <1>3, <2>1, Zenon DEF Held
  <2>3. Phase(row) = Phase(rows[r])
    BY <1>3, <2>1, Zenon DEF Phase, Published, Outcome
  <2> QED BY <1>3, <2>2, <2>3, QuietWrite, Zenon DEF row
<1> QED BY <1>4, <1>5, Zenon

\* A transaction that answers, loses its answer, is refused or fails maps to a step
\* or a stutter if its write does.
LEMMA TransactMaps ==
    ASSUME NEW p, NEW can, NEW row, NEW then, NEW else, Transact(p, can, row, then, else),
           (can /\ rows' = [rows EXCEPT ![proc[p].run] = row] /\ UNCHANGED docker) => Maps
    PROVE  Maps
<1>1. UNCHANGED docker
  BY Zenon DEF Transact
<1>2. CASE UNCHANGED rows
  BY <1>1, <1>2, RestMaps, Zenon DEF docker
<1>3. CASE can /\ rows' = [rows EXCEPT ![proc[p].run] = row]
  BY <1>1, <1>3, Zenon
<1> QED BY <1>2, <1>3, Zenon DEF Transact

\* A read is a stutter.
LEMMA ReadMaps ==
    ASSUME NEW p, NEW then, NEW else, Read(p, then, else)
    PROVE  Maps
  BY RestMaps, Zenon DEF Read, docker

-----------------------------------------------------------------------------

\* The handlers.
LEMMA ApiMaps ==
    ASSUME IInv, Api
    PROVE  Maps
<1>1. ASSUME NEW r \in Runs, StartRun(r) PROVE Maps
  <2>1. CASE UNCHANGED rows
    BY <1>1, <2>1, RestMaps, Zenon DEF StartRun, docker
  <2>2. CASE rows[r].state = "none" /\ rows' = [rows EXCEPT ![r] = Registered(r \in Writable)]
    <3> DEFINE b == r \in Writable
    <3>1. rows' = [rows EXCEPT ![r] = Registered(b)] /\ UNCHANGED docker
      BY <1>1, <2>2 DEF StartRun
    <3> HIDE DEF b
    <3> QED BY <2>2, <3>1, RegisteredMaps, Zenon
  <2> QED BY <1>1, <2>1, <2>2 DEF StartRun
<1>2. ASSUME NEW r \in Runs, Enqueue(r) PROVE Maps
  BY <1>2, RestMaps DEF Enqueue, docker
<1>3. ASSUME NEW r \in Runs, CancelRun(r) PROVE Maps
  BY <1>3, CancellingMaps, Zenon DEF CancelRun
<1> QED BY <1>1, <1>2, <1>3, Zenon DEF Api

\* Recording the intent, whatever the answer.
LEMMA BeginMaps ==
    ASSUME IInv, Begin("worker")
    PROVE  Maps
<1> DEFINE r == proc["worker"].run
<1>1. At("worker", "begin") /\ "begin" \in Steps
  BY Zenon DEF Begin, Steps, Stations
<1>2. r \in Runs /\ \A q \in Runs : ~Held(rows[q])
  BY <1>1, AtStep, Zenon DEF Standing
<1>3. (CanBegin(rows[r]) /\ rows' = [rows EXCEPT ![r] = Begun(rows[r], boot)] /\ UNCHANGED docker) => Maps
  BY <1>2, BegunMaps, Zenon
<1> QED BY <1>3, TransactMaps, ReadMaps DEF Begin

\* Binding, whatever the answer.
LEMMA BindMaps ==
    ASSUME IInv, Bind("worker")
    PROVE  Maps
<1> DEFINE r == proc["worker"].run
<1>1. At("worker", "bind") /\ "bind" \in Steps
  BY Zenon DEF Bind, Steps, Stations
<1>2. r \in Runs
  BY <1>1, AtStep, Zenon
<1>3. (CanBind(rows[r]) /\ rows' = [rows EXCEPT ![r] = Bound(rows[r])] /\ UNCHANGED docker) => Maps
  BY <1>2, BoundMaps, Zenon
<1> QED BY <1>3, TransactMaps, Zenon DEF Bind

\* The bridge.
LEMMA BridgeMaps ==
    ASSUME IInv, BridgeStarted("worker") \/ BridgeOutcome("worker") \/ BridgeReturns("worker")
    PROVE  Maps
<1> DEFINE r == proc["worker"].run
<1>1. CASE BridgeStarted("worker")
  <2>1. At("worker", "bridge") /\ "bridge" \in Steps
    BY <1>1, Zenon DEF BridgeStarted, Steps, Stations
  <2>2. r \in Runs
    BY <2>1, AtStep, Zenon
  <2>3. (CanStart(rows[r]) /\ rows' = [rows EXCEPT ![r] = Running(rows[r])] /\ UNCHANGED docker) => Maps
    BY <2>2, RunningMaps, Zenon
  <2> QED BY <1>1, <2>3, TransactMaps, Zenon DEF BridgeStarted
<1>2. CASE BridgeOutcome("worker")
  <2>1. At("worker", "stream") /\ "stream" \in Steps
    BY <1>2, Zenon DEF BridgeOutcome, Steps, Stations
  <2>2. r \in Runs
    BY <2>1, AtStep, Zenon
  <2>3. PICK o \in Outcome :
            Transact("worker", CanStage(rows[r], o), Staged(rows[r], o), Do("worker", <<"settle">>),
                     Do("worker", <<"settle">>))
    BY <1>2, Zenon DEF BridgeOutcome, Outcome
  <2>4. (CanStage(rows[r], o) /\ rows' = [rows EXCEPT ![r] = Staged(rows[r], o)] /\ UNCHANGED docker) => Maps
    BY <2>2, StagedMaps, Zenon
  <2> QED BY <2>3, <2>4, TransactMaps, Zenon
<1>3. CASE BridgeReturns("worker")
  BY <1>3, RestMaps, Zenon DEF BridgeReturns, docker
<1> QED BY <1>1, <1>2, <1>3, Zenon

\* Sending the Create is Dispatch; the daemon's part, Land, is a step of its own.
LEMMA CreateMaps ==
    ASSUME IInv, Create("worker")
    PROVE  Maps
<1> DEFINE r == proc["worker"].run
<1>1. At("worker", "create") /\ "create" \in Steps /\ UNCHANGED <<rows, container, starts>>
  BY Zenon DEF Create, Steps, Stations
<1>2. r \in Runs /\ Standing("create") /\ RowOK(r)
  BY <1>1, AtStep, Zenon
<1>3. CASE UNCHANGED flight
  BY <1>1, <1>3, RestMaps, Zenon
<1>4. CASE flight' = [flight EXCEPT ![r] = TRUE]
  <2>1. PICK x \in Runs : x = r
    BY <1>2, Zenon
  <2>2. /\ Only(x) /\ rows'[x] = rows[x] /\ starts'[x] = starts[x] /\ flight'[x] /\ container'[x] = container[x]
    BY <1>1, <1>4, <2>1, Zenon DEF Only, Same, RuntimeOf, IInv, TypeOK
  <2>3. /\ ~Live(x) /\ rows[x].intent = boot /\ rows[x].state \in Active /\ rows[x].staged = "none"
        /\ RowFits(rows[x], x)
    BY <1>2, <2>1, Zenon DEF Standing, RowOK
  <2>4. RuntimeOf(x) = "none" /\ RuntimeOf(x)' = "pending"
    BY <2>2, <2>3, Zenon DEF RuntimeOf, Live
  <2>5. Phase(rows[x]) = "open" /\ Held(rows[x]) /\ ~(starts[x] > 0)
    BY <2>3, SandboxAssumption
       DEF Phase, Held, Pending, NoBoot, Published, Outcome, Active, RowFits, IInv, TypeOK
  <2> QED BY <2>2, <2>4, <2>5, DispatchView, Zenon DEF Maps
<1> QED BY <1>3, <1>4, Zenon DEF Create

\* Starting the container is Launch.
LEMMA AttachMaps ==
    ASSUME IInv, Attach("worker")
    PROVE  Maps
<1> DEFINE r == proc["worker"].run
<1>1. At("worker", "attach") /\ "attach" \in Steps /\ UNCHANGED <<rows, flight>>
  BY Zenon DEF Attach, Steps, Stations
<1>2. r \in Runs /\ Standing("attach")
  BY <1>1, AtStep, Zenon
<1>3. CASE UNCHANGED <<container, starts>>
  BY <1>1, <1>3, RestMaps, Zenon
<1>4. CASE Launch(r)
  <2>1. PICK x \in Runs : x = r
    BY <1>2, Zenon
  <2>2. /\ Only(x) /\ rows'[x] = rows[x] /\ starts'[x] = starts[x] + 1 /\ container'[x] = "running"
    BY <1>1, <1>4, <2>1, Zenon DEF Launch, Only, Same, RuntimeOf, IInv, TypeOK
  <2>3. /\ container[x] # "none" /\ rows[x].ref /\ rows[x].state \in Active /\ rows[x].staged = "none"
        /\ starts[x] = 0
    BY <1>2, <2>1, Zenon DEF Standing
  <2>4. RuntimeOf(x) = "present" /\ RuntimeOf(x)' = "present" /\ ~(starts[x] > 0) /\ starts'[x] > 0
    BY <2>2, <2>3 DEF RuntimeOf
  <2>5. Phase(rows[x]) = "open" /\ Held(rows[x])
    BY <2>3, Zenon DEF Phase, Held, Published, Outcome, Active
  <2> QED BY <2>2, <2>4, <2>5, LaunchView, Zenon DEF Maps
<1> QED BY <1>3, <1>4, Zenon DEF Attach

\* Every call a goroutine makes towards the end of a Run.
LEMMA WindMaps ==
    ASSUME IInv, NEW p \in Procs, Wind(p)
    PROVE  Maps
<1> DEFINE r == proc[p].run
<1>1. CASE Remember(p) \/ Prove(p) \/ Forget(p) \/ Done(p)
  BY <1>1, RestMaps, Zenon DEF Remember, Prove, Forget, Note, Done, docker
<1>2. CASE Finish(p) \/ FinishCreate(p) \/ Commit(p) \/ Lookup(p)
  BY <1>2, ReadMaps, Zenon DEF Finish, FinishCreate, Commit, Lookup
<1>3. CASE Stage(p)
  <2>1. "stage" \in Ops /\ "stage" \in Deciding /\ At(p, "stage")
    BY <1>3, Zenon DEF Stage, Ops, Deciding
  <2>2. r \in Runs /\ proc[p].spec \in Outcome
    BY <2>1, AtCall, Zenon
  <2>3. (CanStage(rows[r], proc[p].spec) /\ rows' = [rows EXCEPT ![r] = Staged(rows[r], proc[p].spec)]
         /\ UNCHANGED docker) => Maps
    BY <2>2, StagedMaps, Zenon
  <2> QED BY <1>3, <2>3, TransactMaps, Zenon DEF Stage
<1>4. CASE Clear(p)
  <2>1. r \in Runs /\ ~Live(r)
    BY <1>4, AtRelease, Zenon DEF Clear
  <2>2. (CanClear(rows[r]) /\ rows' = [rows EXCEPT ![r] = Cleared(rows[r])] /\ UNCHANGED docker) => Maps
    BY <2>1, ClearedMaps, Zenon DEF CanClear
  <2> QED BY <1>4, <2>2, TransactMaps, ReadMaps, Zenon DEF Clear
<1>5. CASE Confirm(p)
  <2>1. r \in Runs /\ ~Live(r)
    BY <1>5, AtRelease, Zenon DEF Confirm
  <2>2. (CanConfirm(rows[r]) /\ rows' = [rows EXCEPT ![r] = Confirmed(rows[r])] /\ UNCHANGED docker) => Maps
    BY <2>1, ConfirmedMaps, Zenon
  <2> QED BY <1>5, <2>2, TransactMaps, Zenon DEF Confirm
<1>6. CASE ClearProved(p)
  <2>1. "clearProved" \in Ops /\ At(p, "clearProved") /\ UNCHANGED docker
    BY <1>6, Zenon DEF ClearProved, Ops
  <2>2. r \in Runs /\ r # NoRun /\ PlanOK(p) /\ 1 \in 1..Len(proc[p].plan) /\ proc[p].plan[1] = "clearProved"
    BY <2>1, AtCall, Zenon
  <2>3. ~Live(r)
    BY <2>2, RowFacts, Zenon DEF PlanOK, Sound
  <2>4. CASE UNCHANGED rows
    BY <2>1, <2>4, RestMaps, Zenon DEF docker
  <2>5. CASE ~rows[r].ref /\ rows' = [rows EXCEPT ![r] = Cleared(rows[r])]
    BY <2>1, <2>2, <2>3, <2>5, ClearedMaps, Zenon
  <2> QED BY <1>6, <2>4, <2>5, Zenon DEF ClearProved
<1>7. CASE Cleanup(p)
  <2>1. "cleanup" \in Ops /\ At(p, "cleanup") /\ UNCHANGED <<rows, flight, starts>>
    BY <1>7, Zenon DEF Cleanup, Ops
  <2>2. r \in Runs /\ r # NoRun /\ PlanOK(p) /\ 1 \in 1..Len(proc[p].plan) /\ proc[p].plan[1] = "cleanup"
    BY <2>1, AtCall, Zenon
  <2>3. ~flight[r]
    BY <2>2, Zenon DEF PlanOK, Sound
  <2>4. \A x \in Runs : /\ x # r => container'[x] = container[x]
                        /\ container'[x] # "none" => container[x] # "none"
    BY <1>7, <2>2, Zenon DEF Cleanup, IInv, TypeOK
  <2>5. \A x \in Runs : RuntimeOf(x)' # RuntimeOf(x) => RuntimeOf(x) = "present" /\ RuntimeOf(x)' = "none"
    BY <2>1, <2>3, <2>4, Zenon DEF RuntimeOf
  <2> QED BY <2>1, <2>5, RemoveView, Zenon DEF Maps
<1> QED BY <1>1, <1>2, <1>3, <1>4, <1>5, <1>6, <1>7 DEF Wind

\* The daemon and the machine: Land, Lose and Remove.
LEMMA DaemonMaps ==
    ASSUME IInv, Environment \/ ReconcileManaged
    PROVE  Maps
<1>1. ASSUME NEW r \in Runs, Land(r) PROVE Maps
  <2>1. container[r] = "none" /\ flight[r] /\ UNCHANGED <<rows, starts>>
    BY <1>1, Zenon DEF Land, IInv, RowOK, RowFits
  <2>2. ~flight'[r] /\ \A x \in Runs : x # r => flight'[x] = flight[x] /\ container'[x] = container[x]
    BY <1>1, Zenon DEF Land, IInv, TypeOK
  <2>3. CASE UNCHANGED container
    <3>1. \A x \in Runs : RuntimeOf(x)' # RuntimeOf(x) => RuntimeOf(x) = "pending" /\ RuntimeOf(x)' = "none"
      BY <2>1, <2>2, <2>3, Zenon DEF RuntimeOf
    <3> QED BY <2>1, <3>1, LoseView, Zenon DEF Maps
  <2>4. CASE container' = [container EXCEPT ![r] = "stopped"]
    <3>1. container'[r] = "stopped"
      BY <2>4, Zenon DEF IInv, TypeOK
    <3>2. RuntimeOf(r) = "pending" /\ RuntimeOf(r)' = "present" /\ Only(r)
      BY <2>1, <2>2, <3>1, Zenon DEF RuntimeOf, Only, Same
    <3> QED BY <2>1, <3>2, LandView, Zenon DEF Maps
  <2> QED BY <1>1, <2>3, <2>4, Zenon DEF Land
<1>2. CASE Reboot
  <2>1. \A x \in Runs : /\ flight[x] => container[x] = "none"
                        /\ ~flight'[x] /\ (container'[x] = "none" <=> container[x] = "none")
    BY <1>2, Zenon DEF Reboot, IInv, TypeOK, RowOK, RowFits
  <2>2. \A x \in Runs : RuntimeOf(x)' # RuntimeOf(x) => RuntimeOf(x) = "pending" /\ RuntimeOf(x)' = "none"
    BY <2>1, Zenon DEF RuntimeOf
  <2> QED BY <1>2, <2>2, LoseView, Zenon DEF Maps, Reboot
<1>3. ASSUME NEW r \in Runs, Expire(r) PROVE Maps
  BY <1>3, RestMaps, Zenon DEF Expire, docker
<1>4. CASE ReconcileManaged
  <2>1. UNCHANGED <<rows, flight, starts>>
    BY <1>4, Zenon DEF ReconcileManaged
  <2>2. \A x \in Runs : /\ flight[x] => container[x] = "none"
                        /\ container'[x] = container[x] \/ container'[x] = "none"
    BY <1>4, Zenon DEF ReconcileManaged, IInv, TypeOK, RowOK, RowFits
  <2>3. \A x \in Runs : RuntimeOf(x)' # RuntimeOf(x) => RuntimeOf(x) = "present" /\ RuntimeOf(x)' = "none"
    BY <2>1, <2>2, Zenon DEF RuntimeOf
  <2> QED BY <2>1, <2>3, RemoveView, Zenon DEF Maps
<1> QED BY <1>1, <1>2, <1>3, <1>4, Zenon DEF Environment

\* Every step of the controller is a step of RuntimeAuthority or a stutter.
LEMMA StepMaps ==
    ASSUME IInv, [Next]_vars
    PROVE  Maps
<1>1. CASE Execute
  <2>1. CASE Load("worker") \/ Recheck("worker") \/ Settle("worker")
    BY <2>1, ReadMaps, Zenon DEF Load, Recheck, Settle
  <2>2. CASE Await("worker")
    BY <2>2, RestMaps, Zenon DEF Await, docker
  <2> QED BY <1>1, <2>1, <2>2, BeginMaps, CreateMaps, BindMaps, AttachMaps, BridgeMaps DEF Execute
<1>2. CASE WaitForQuiescence \/ ExecuteOffer
  BY <1>2, RestMaps, Zenon DEF WaitForQuiescence, ExecuteOffer, docker
<1>3. CASE Reconciler
  <2>1. ASSUME NEW r \in Runs, List(r) \/ ReconcilePass(r) PROVE Maps
    BY <2>1, RestMaps, Zenon DEF List, ReconcilePass, docker
  <2>2. CASE ClaimReconciliation("reconciler")
    BY <2>2, RestMaps, Zenon DEF ClaimReconciliation, docker
  <2>3. CASE Refresh("reconciler")
    BY <2>3, ReadMaps, Zenon DEF Refresh
  <2> QED BY <1>3, <2>1, <2>2, <2>3, Zenon DEF Reconciler
<1>4. CASE Lifecycle
  <2>1. CASE Start \/ StartupFails \/ BeginClose \/ Interrupt \/ StopWorker \/ FinalPass \/ Close \/ Crash
    BY <2>1, RestMaps, Zenon DEF Start, StartupFails, BeginClose, Interrupt, StopWorker, FinalPass, Close, Crash, docker
  <2> QED BY <1>4, <2>1, DaemonMaps DEF Lifecycle
<1>5. CASE UNCHANGED vars
  BY <1>5, RestMaps, Zenon DEF vars, docker
<1> QED BY <1>1, <1>2, <1>3, <1>4, <1>5, ApiMaps, WindMaps, DaemonMaps DEF Next

\* The first state is one of RuntimeAuthority.
LEMMA InitMaps ==
    ASSUME Init
    PROVE  Authority!Init
<1>1. \A r \in Runs : /\ rows[r] = NoRow /\ container[r] = "none" /\ ~flight[r] /\ starts[r] = 0
  BY Zenon DEF Init
<1>2. \A r \in Runs : /\ Phase(rows[r]) = "absent" /\ OutcomeOf(rows[r]) = "none" /\ Held(rows[r]) = FALSE
                      /\ (starts[r] > 0) = FALSE /\ RuntimeOf(r) = "none"
  BY <1>1 DEF NoRow, NoBoot, Phase, OutcomeOf, Held, Pending, Published, Outcome, RuntimeOf
<1>3. /\ phases = [r \in Runs |-> "absent"] /\ outcomes = [r \in Runs |-> "none"]
      /\ authorities = [r \in Runs |-> FALSE] /\ starteds = [r \in Runs |-> FALSE]
      /\ runtimes = [r \in Runs |-> "none"]
  BY <1>2, Zenon DEF phases, outcomes, authorities, starteds, runtimes
<1> QED BY <1>3, Zenon DEF phases, outcomes, authorities, starteds, runtimes, Authority!Init, OutcomeOf, RuntimeOf, Held
=============================================================================
