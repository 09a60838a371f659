--------------------------- MODULE CredentialLease ---------------------------
(***************************************************************************)
(* The life of a credential in sandboxd: an operator enrols the file that  *)
(* is at the configured path as a generation of a slot, binds target       *)
(* revisions to that generation, and each Run of such a target occupies    *)
(* it, holds the file locked, mounts it in the Run's container and lets    *)
(* the container go only when the file it sees is the enrolled one.        *)
(*                                                                         *)
(* The file may be replaced at any moment, the process may die between any *)
(* two calls, and a call may fail or commit and lose its answer.  What     *)
(* dies with the process (handles, locks, the memory of what was decided)  *)
(* is kept apart from what is in the store and in Docker.  A Create that   *)
(* finishes after the daemon forgot it is the subject of SandboxController.*)
(***************************************************************************)
EXTENDS Naturals, FiniteSets

CONSTANTS
    Slots, MaxGeneration,   \* credential slots and the generations an operator numbers
    Objects, NoObject,      \* the files that can be at the configured path
    Revisions,              \* target revisions
    Configs,                \* the configurations an operator may start sandboxd with
    MaxRuns, NoRun,         \* Runs are numbered as they are admitted
    NoRef, NoTarget, NoSlot,
    MaxEdits, MaxSwaps, MaxFaults, MaxCrashes, MaxTrouble   \* bounds: each of them, all together

Runs == 1..MaxRuns
Refs == Slots \X (1..MaxGeneration)

\* A Codex configuration names the slot and generation to use, the target revision that uses them and
\* the scope (workspace, auth profile, disclosure scope) the operator approved.  A mock configuration
\* has no credential, and a target with a runner-state directory.
ASSUME ConfigAssumption ==
    /\ \A c \in Configs : c.ref \in Refs \cup {NoRef} /\ c.revision \in Revisions /\ c.scope \in {"w1", "w2"}
    /\ MaxRuns \in Nat /\ MaxEdits \in Nat /\ MaxSwaps \in Nat /\ MaxFaults \in Nat /\ MaxCrashes \in Nat /\ MaxTrouble \in Nat

VARIABLES
    disk,        \* the object at the configured path
    config,      \* the configuration file
    enrolled,    \* credential_generations: the object and the scope of a generation
    sources,     \* credential_sources: the slot that owns an object for good
    revoked,     \* credential_revocations
    targets,     \* target_revisions, target_credentials and runner_state_owners: the pinned generation
    stateDirs,   \* the revisions whose runner-state directory exists
    rows,        \* the Runs, as far as their credential depends on them
    occupancy,   \* credential_occupancy: the generation a Run occupies
    container,   \* the container of a Run and the object mounted in it
    mode,        \* what the sandboxd process is doing
    enrolment,   \* the handle of an enrolling process
    lane,        \* the Run that the worker or the reconciler has in hand, and where it is
    memo,        \* the outcomes decided and not yet carried out
    credential,  \* the runCredential of a Run
    tainted,     \* history: generations whose exclusive use was interrupted
    served,      \* history: configurations that have been served
    edits, swaps, faults, crashes

authority == <<enrolled, sources, revoked, targets, occupancy>>
store == <<authority, rows>>
volatile == <<lane, memo, credential>>
history == <<tainted, served>>
environment == <<disk, config, stateDirs, edits, swaps, crashes>>
vars == <<environment, store, container, mode, enrolment, volatile, history, faults>>

Trouble == edits + swaps + faults + crashes < MaxTrouble

Fault == Trouble /\ faults < MaxFaults /\ faults' = faults + 1
NoFault == UNCHANGED faults

NoCredential ==
    [open |-> FALSE, held |-> NoObject, latched |-> FALSE, invalid |-> FALSE, retired |-> FALSE,
     closeFailed |-> FALSE, handoff |-> "none"]

Idle == [run |-> NoRun, pc |-> "idle"]

Unreconciled(r) == rows[r].phase \in {"accepted", "staged"}

Init ==
    /\ disk = CHOOSE o \in Objects : TRUE
    /\ config \in Configs
    /\ enrolled = [ref \in Refs |-> [object |-> NoObject, scope |-> "w1"]]
    /\ sources = [o \in Objects |-> NoSlot]
    /\ revoked = {}
    /\ targets = [t \in Revisions |-> NoTarget] /\ stateDirs = {}
    /\ rows = [r \in Runs |-> [phase |-> "none", revision |-> config.revision, holds |-> "none"]]
    /\ occupancy = [r \in Runs |-> NoRef]
    /\ container = [r \in Runs |-> [at |-> "none", mount |-> NoObject]]
    /\ mode = "down" /\ enrolment = [pc |-> "idle", object |-> NoObject]
    /\ lane = Idle /\ memo = [r \in Runs |-> "none"] /\ credential = [r \in Runs |-> NoCredential]
    /\ tainted = {} /\ served = {}
    /\ edits = 0 /\ swaps = 0 /\ faults = 0 /\ crashes = 0

-----------------------------------------------------------------------------
(* The operator and the host.                                              *)

\* Somebody replaces, removes or restores the file.
Replace ==
    /\ Trouble /\ swaps < MaxSwaps /\ swaps' = swaps + 1
    /\ \E o \in Objects \cup {NoObject} : o # disk /\ disk' = o
    /\ UNCHANGED <<config, stateDirs, edits, crashes, store, container, mode, enrolment, volatile, history, faults>>

\* The configuration is edited while no sandboxd runs.
Configure ==
    /\ mode = "down" /\ Trouble /\ edits < MaxEdits /\ edits' = edits + 1
    /\ \E c \in Configs : c # config /\ config' = c
    /\ UNCHANGED <<disk, stateDirs, swaps, crashes, store, container, mode, enrolment, volatile, history, faults>>

\* A process that ends takes its handles and its memory with it; the containers stay.
Dies ==
    /\ mode' = "down"
    /\ enrolment' = [pc |-> "idle", object |-> NoObject]
    /\ lane' = Idle
    /\ memo' = [r \in Runs |-> "none"]
    /\ credential' = [r \in Runs |-> NoCredential]

Occupied == {occupancy[r] : r \in {q \in Runs : occupancy[q] # NoRef}}

Crash ==
    /\ Trouble /\ crashes < MaxCrashes /\ crashes' = crashes + 1
    /\ mode # "down" /\ Dies
    /\ tainted' = tainted \cup Occupied
    /\ UNCHANGED <<disk, config, stateDirs, edits, swaps, store, container, served, faults>>

\* A shutdown with nothing in hand.  One that has to leave a Run behind is a Crash here; how Close
\* drains the worker is in SandboxController.
Stop ==
    /\ mode = "serving" /\ lane = Idle /\ \A r \in Runs : ~Unreconciled(r)
    /\ Dies
    /\ UNCHANGED <<environment, store, container, history, faults>>

\* The host boots again: nothing runs any more, and no Create of the old boot can still finish.
Reboot ==
    /\ mode = "down"
    /\ \E r \in Runs : rows[r].holds = "intent"
    /\ rows' = [r \in Runs |-> [rows[r] EXCEPT !.holds = IF @ = "intent" THEN "old intent" ELSE @]]
    /\ container' = [r \in Runs |-> [container[r] EXCEPT !.at = IF @ = "none" THEN "none" ELSE "created"]]
    /\ UNCHANGED <<environment, authority, mode, enrolment, volatile, history, faults>>

-----------------------------------------------------------------------------
(* Enrolment: sandboxd -enroll-credential.                                 *)

Registered(ref) == enrolled[ref].object # NoObject

Live(ref) == ref \notin revoked

Newest(slot) == {g \in 1..MaxGeneration :
                   Registered(<<slot, g>>) /\ \A h \in (g + 1)..MaxGeneration : ~Registered(<<slot, h>>)}

\* A generation above all others of its slot, once the last is revoked and the slot is free; an
\* object stays with the slot that enrolled it first.
MayRegister(ref, object) ==
    /\ sources[object] \in {NoSlot, ref[1]}
    /\ \A g \in Newest(ref[1]) :
         /\ g < ref[2]
         /\ <<ref[1], g>> \in revoked
         /\ \A r \in Runs : occupancy[r] # NoRef => occupancy[r][1] # ref[1]

\* The enrolment is refused before anything is registered unless no Run is open, Docker shows no
\* container and the file can be held.
EnrolOpen ==
    /\ mode = "down" /\ config.ref # NoRef /\ mode' = "enrolling"
    /\ \A r \in Runs : ~Unreconciled(r) /\ container[r].at = "none"
    /\ disk # NoObject
    /\ enrolment' = [pc |-> "held", object |-> disk]
    /\ UNCHANGED <<environment, store, container, volatile, history, faults>>

\* RegisterCredentialEnrollment: an exact replay changes nothing, and never undoes a revocation.
\* An error ends the process with whatever the store kept.
EnrolRegister ==
    LET ref == config.ref
        object == enrolment.object
        generation == [object |-> object, scope |-> config.scope]
        replay == enrolled[ref] = generation
        Commits == enrolled' = [enrolled EXCEPT ![ref] = generation] /\ sources' = [sources EXCEPT ![object] = ref[1]]
    IN  /\ mode = "enrolling" /\ enrolment.pc = "held"
        /\ \/ /\ replay \/ (~Registered(ref) /\ MayRegister(ref, object))
              /\ Commits /\ NoFault
              /\ enrolment' = [enrolment EXCEPT !.pc = "registered"] /\ UNCHANGED <<mode, volatile>>
           \/ /\ ~replay /\ ~Registered(ref) /\ MayRegister(ref, object)
              /\ Fault /\ Dies
              /\ Commits \/ UNCHANGED <<enrolled, sources>>
           \/ /\ ~replay /\ (Registered(ref) \/ ~MayRegister(ref, object))
              /\ NoFault /\ Dies /\ UNCHANGED <<enrolled, sources>>
        /\ UNCHANGED <<environment, revoked, targets, occupancy, rows, container, history>>

\* The handle is checked once more and closed; a file that changed in between, or a close that
\* failed, revokes what was registered.
EnrolFinish ==
    /\ mode = "enrolling" /\ enrolment.pc = "registered" /\ Dies
    /\ \/ disk = enrolment.object /\ NoFault /\ UNCHANGED revoked
       \/ disk = enrolment.object /\ Fault /\ revoked' = revoked \cup {config.ref}
       \/ disk # enrolment.object /\ NoFault /\ revoked' = revoked \cup {config.ref}
       \/ disk # enrolment.object /\ Fault /\ UNCHANGED revoked
    /\ UNCHANGED <<environment, enrolled, sources, targets, occupancy, rows, container, history>>

-----------------------------------------------------------------------------
(* Startup: open the store, register the targets, retire what was occupied, *)
(* settle every Run the last process left.                                 *)

\* verifyCredentialIntegrity: a database that fails it is never served.
CredentialIntegrity ==
    /\ \A r \in Runs : occupancy[r] # NoRef =>
         /\ targets[rows[r].revision] # NoTarget
         /\ targets[rows[r].revision].ref = occupancy[r]
         /\ Registered(occupancy[r])
    /\ \A r \in Runs :
         /\ rows[r].phase # "none" /\ targets[rows[r].revision] # NoTarget
         /\ Unreconciled(r) \/ rows[r].holds # "none"
         => occupancy[r] # NoRef

\* The durable pin of a target: its own fingerprint with the generation and the enrolled object.
FingerprintEnrolledTarget(c) ==
    [ref |-> c.ref, object |-> IF c.ref = NoRef THEN NoObject ELSE enrolled[c.ref].object, scope |-> c.scope]

\* A generation that is enrolled, with the proof and for the scope the operator approved.
EnrolledFor(c) == Registered(c.ref) /\ enrolled[c.ref].scope = c.scope

\* Mutant: the runner-state directory must be absent at every start.
RegistersAbsent(c) ==
    IF c.ref = NoRef
      THEN /\ c.revision \notin stateDirs
           /\ targets[c.revision] # NoTarget => targets[c.revision] = FingerprintEnrolledTarget(c)
      ELSE /\ EnrolledFor(c)
           /\ IF targets[c.revision] = NoTarget THEN Live(c.ref) ELSE targets[c.revision] = FingerprintEnrolledTarget(c)

\* RegisterEnrolledTargetAuthorities accepts the configuration: a revision keeps its pin, a new one
\* needs a generation that is not revoked, or a runner-state directory that nobody has made.
Registers(c) ==
    IF targets[c.revision] # NoTarget
      THEN (c.ref # NoRef => EnrolledFor(c)) /\ targets[c.revision] = FingerprintEnrolledTarget(c)
      ELSE IF c.ref = NoRef THEN c.revision \notin stateDirs ELSE EnrolledFor(c) /\ Live(c.ref)

Open ==
    /\ mode = "down" /\ CredentialIntegrity /\ mode' = "registering"
    /\ UNCHANGED <<environment, store, container, enrolment, volatile, history, faults>>

RegisterTargets ==
    LET Commits == targets' = [targets EXCEPT ![config.revision] = FingerprintEnrolledTarget(config)]
    IN  /\ mode = "registering"
        /\ \/ Registers(config) /\ NoFault /\ Commits /\ mode' = "preparing" /\ UNCHANGED <<enrolment, volatile>>
           \/ Registers(config) /\ Fault /\ Dies /\ (Commits \/ UNCHANGED targets)
           \/ ~Registers(config) /\ NoFault /\ Dies /\ UNCHANGED targets
        /\ UNCHANGED <<environment, enrolled, sources, revoked, occupancy, rows, container, history>>

\* The runner-state directory is made once its owner is recorded.
PrepareRunnerState ==
    /\ mode = "preparing"
    /\ stateDirs' = IF config.ref = NoRef THEN stateDirs \cup {config.revision} ELSE stateDirs
    /\ \/ NoFault /\ mode' = "retiring" /\ UNCHANGED <<enrolment, volatile>>
       \/ Fault /\ Dies
    /\ UNCHANGED <<disk, config, edits, swaps, crashes, store, container, history>>

\* Mutant: only the generations of Runs that reached the runtime are retired.
RetireStarted ==
    /\ mode = "retiring"
    /\ \/ NoFault /\ mode' = "settling" /\ UNCHANGED <<enrolment, volatile>>
          /\ revoked' = revoked \cup {occupancy[r] : r \in {q \in Runs : occupancy[q] # NoRef /\ rows[q].holds # "none"}}
       \/ Fault /\ Dies /\ UNCHANGED revoked
    /\ UNCHANGED <<environment, enrolled, sources, targets, occupancy, rows, container, history>>

RetireOccupiedCredentialGenerations ==
    /\ mode = "retiring"
    /\ \/ NoFault /\ mode' = "settling" /\ UNCHANGED <<enrolment, volatile>> /\ revoked' = revoked \cup Occupied
       \/ Fault /\ Dies /\ revoked' \in {revoked, revoked \cup Occupied}
    /\ UNCHANGED <<environment, enrolled, sources, targets, occupancy, rows, container, history>>

\* Every Run the last process left is decided and released; only then do the workers start.
Serve ==
    /\ mode = "settling" /\ lane = Idle /\ \A r \in Runs : ~Unreconciled(r)
    /\ mode' = "serving" /\ served' = served \cup {config}
    /\ UNCHANGED <<environment, store, container, enrolment, volatile, tainted, faults>>

-----------------------------------------------------------------------------
(* Admission, and the Run in the worker's hands.                           *)

\* The Runs of a mock target, which need no credential, are in SandboxController.
\* acquireRunCredential, in the transaction that accepts the Run: the generation of its target, not
\* revoked, of its scope, and neither its slot nor its object in use.
Admit(r) ==
    LET target == targets[config.revision]
    IN  /\ mode = "serving" /\ config.ref # NoRef /\ rows[r].phase = "none" /\ \A q \in 1..(r - 1) : rows[q].phase # "none"
        /\ Live(target.ref)
        /\ \A q \in Runs : occupancy[q] # NoRef =>
             occupancy[q][1] # target.ref[1] /\ enrolled[occupancy[q]].object # enrolled[target.ref].object
        /\ rows' = [rows EXCEPT ![r] = [phase |-> "accepted", revision |-> config.revision, holds |-> "none"]]
        /\ occupancy' = [occupancy EXCEPT ![r] = target.ref]
        /\ UNCHANGED <<environment, enrolled, sources, revoked, targets, container, mode, enrolment, volatile, history, faults>>

At(r, pc) == lane.run = r /\ lane.pc = pc
Goto(r, pc) == lane' = [run |-> r, pc |-> pc]

Sets(r, c) == credential' = [credential EXCEPT ![r] = c]

\* The Run leaves the lane and is taken up again at pc; at startup the process gives up instead.
Abandon(r, pc, c) ==
    IF mode = "serving"
      THEN lane' = Idle /\ memo' = [memo EXCEPT ![r] = pc] /\ Sets(r, c) /\ UNCHANGED <<mode, enrolment>>
      ELSE Dies

\* waitForRuntimeQuiescence: nothing of an earlier Run is left, in Docker or in hand.
Quiescent ==
    /\ \A r \in Runs : ~credential[r].open
    /\ \A r \in Runs : Unreconciled(r) => rows[r].phase = "accepted" /\ rows[r].holds = "none"

\* The worker takes the Run: its outcome is known already (cancelled, past its deadline), or the
\* entry that owns its handles is opened.
Take(r) ==
    /\ mode = "serving" /\ lane = Idle /\ Quiescent
    /\ rows[r].phase = "accepted" /\ memo[r] = "none"
    /\ \/ Goto(r, "stage") /\ UNCHANGED credential
       \/ Goto(r, "enrolment") /\ Sets(r, [NoCredential EXCEPT !.open = TRUE])
    /\ UNCHANGED <<environment, store, container, mode, enrolment, memo, history, faults>>

\* requireRunCredential: the Run's own occupancy, joined to its target.
RequireRunCredential(r, allowRevoked) ==
    /\ occupancy[r] # NoRef
    /\ targets[rows[r].revision].ref = occupancy[r]
    /\ allowRevoked \/ Live(occupancy[r])

\* prepareCredential reads the enrolment of the Run and compares it with the configured binding.
ReadEnrolment(r) ==
    /\ At(r, "enrolment")
    /\ \/ NoFault /\ Goto(r, IF RequireRunCredential(r, FALSE) /\ config.ref = occupancy[r] THEN "hold" ELSE "invalidate")
       \/ Fault /\ Goto(r, "invalidate")
    /\ UNCHANGED <<environment, store, container, mode, enrolment, memo, credential, history>>

\* VerifyProof: the kernel's identity of the held file is the enrolled one.
VerifyProof(r, object) == object = enrolled[occupancy[r]].object

\* It opens and locks the file, compares it with the enrolled object and makes the handoff.
HoldSource(r) ==
    LET same == VerifyProof(r, disk)
    IN  /\ At(r, "hold")
        /\ \/ same /\ NoFault /\ Goto(r, "begin") /\ Sets(r, [credential[r] EXCEPT !.held = disk, !.handoff = "ready"])
           \/ ~same /\ NoFault /\ Goto(r, "invalidate") /\ Sets(r, [credential[r] EXCEPT !.held = disk, !.latched = TRUE])
           \/ Fault /\ Goto(r, "invalidate") /\ UNCHANGED credential
        /\ UNCHANGED <<environment, store, container, mode, enrolment, memo, history>>

\* invalidateCredential: the handoff is closed and one attempt is made to revoke the generation.
\* The Run is then finished from what it holds.
InvalidateCredential(r) ==
    LET c == [credential[r] EXCEPT !.invalid = TRUE, !.handoff = "closed"]
    IN  /\ At(r, "invalidate")
        /\ Goto(r, IF rows[r].holds = "intent" THEN "clear" ELSE "stage")
        /\ tainted' = tainted \cup {occupancy[r]}
        /\ RequireRunCredential(r, TRUE)
        /\ \/ NoFault /\ revoked' = revoked \cup {occupancy[r]} /\ Sets(r, [c EXCEPT !.retired = TRUE])
           \/ Fault /\ revoked' \in {revoked, revoked \cup {occupancy[r]}} /\ Sets(r, c)
        /\ UNCHANGED <<environment, enrolled, sources, targets, occupancy, rows, container, mode, enrolment, memo, served>>

\* BeginRuntimeIntent reads the revocation in its own transaction.
BeginRuntimeIntent(r) ==
    LET Commits == rows' = [rows EXCEPT ![r].holds = "intent"]
    IN  /\ At(r, "begin")
        /\ \/ NoFault /\ IF RequireRunCredential(r, FALSE) THEN Commits /\ Goto(r, "check") ELSE UNCHANGED rows /\ Goto(r, "clear")
           \/ Fault /\ (UNCHANGED rows \/ (RequireRunCredential(r, FALSE) /\ Commits)) /\ Goto(r, "clear")
        /\ UNCHANGED <<environment, authority, container, mode, enrolment, memo, credential, history>>

\* HeldSource.Validate: the path still leads to the held object; a failure is never forgotten.
Valid(r) == credential[r].held # NoObject /\ ~credential[r].latched /\ disk = credential[r].held

Latch(r) == IF Valid(r) THEN credential[r] ELSE [credential[r] EXCEPT !.latched = TRUE]

\* validateCredential, before Create and again once the container is bound.
ValidateCredential(r) ==
    /\ \E pc \in {"check", "recheck"} :
         /\ At(r, pc)
         /\ Goto(r, IF ~Valid(r) THEN "invalidate" ELSE IF pc = "check" THEN "claim" ELSE "attach")
    /\ Sets(r, Latch(r))
    /\ UNCHANGED <<environment, store, container, mode, enrolment, memo, history, faults>>

\* The handoff is consumed before Docker is asked: one Create for one handle.
ClaimHandoff(r) ==
    LET c == Latch(r)
    IN  /\ At(r, "claim")
        /\ IF ~c.latched /\ c.handoff = "ready" /\ VerifyProof(r, c.held)
             THEN Goto(r, "create") /\ Sets(r, [c EXCEPT !.handoff = "claimed"])
             ELSE Goto(r, "clear") /\ Sets(r, c)
        /\ UNCHANGED <<environment, store, container, mode, enrolment, memo, history, faults>>

\* Docker mounts whatever is at the path then.  A call that fails before the CLI is invoked is certain
\* to have sent nothing; after that no failure is, a missing file's included, and an answer that is
\* lost leaves the container, if any, to be found by its name.
CreateWithCredential(r) ==
    LET Creates == disk # NoObject /\ container' = [container EXCEPT ![r] = [at |-> "created", mount |-> disk]]
    IN  /\ At(r, "create")
        /\ \/ Creates /\ NoFault /\ Goto(r, "bind")
           \/ disk = NoObject /\ NoFault /\ Goto(r, "stage") /\ UNCHANGED container
           \/ Fault /\ Goto(r, "stage") /\ (Creates \/ UNCHANGED container)
           \/ Fault /\ Goto(r, "clear") /\ UNCHANGED container
        /\ UNCHANGED <<environment, store, mode, enrolment, memo, credential, history>>

\* SetRuntimeRef; when its answer is lost the container is removed and the row read again.
SetRuntimeRef(r) ==
    LET Commits == rows' = [rows EXCEPT ![r].holds = "ref"]
    IN  /\ At(r, "bind")
        /\ \/ NoFault /\ Commits /\ Goto(r, "recheck")
           \/ Fault /\ (Commits \/ UNCHANGED rows) /\ Goto(r, "cleanup")
        /\ UNCHANGED <<environment, authority, container, mode, enrolment, memo, credential, history>>

\* AttachStart: the launch is claimed and checked, and the container starts in its inert bootstrap.
AttachStart(r) ==
    /\ At(r, "attach") /\ Sets(r, Latch(r))
    /\ \/ Valid(r) /\ NoFault /\ Goto(r, "release") /\ container' = [container EXCEPT ![r].at = "inert"]
       \/ ~Valid(r) /\ NoFault /\ Goto(r, "stage") /\ UNCHANGED container
       \/ Fault /\ Goto(r, "stage") /\ container' \in {container, [container EXCEPT ![r].at = "inert"]}
    /\ UNCHANGED <<environment, store, mode, enrolment, memo, history>>

\* Mutant: any file will do.
MountsSomething(r) == container[r].mount # NoObject

\* The file that the inert process in the container sees is the held object.
MountsHeld(r) == container[r].mount = credential[r].held

\* The receiver is opened once, and the source checked before and after.
Releases(r) == Valid(r) /\ credential[r].handoff = "claimed" /\ MountsHeld(r)

ReleaseBootstrap(r) ==
    /\ At(r, "release")
    /\ \/ Releases(r) /\ NoFault /\ Goto(r, "run") /\ container' = [container EXCEPT ![r].at = "released"]
          /\ UNCHANGED credential
       \/ ~Releases(r) /\ NoFault /\ Goto(r, "stage") /\ UNCHANGED container
          /\ Sets(r, [credential[r] EXCEPT !.latched = TRUE])
       \/ Fault /\ Goto(r, "stage") /\ UNCHANGED <<container, credential>>
    /\ UNCHANGED <<environment, store, mode, enrolment, memo, history>>

Ends(r) ==
    /\ At(r, "run") /\ Goto(r, "stage")
    /\ UNCHANGED <<environment, store, container, mode, enrolment, memo, credential, history, faults>>

-----------------------------------------------------------------------------
(* The end of a Run: its outcome is staged, its container removed, its      *)
(* handle closed, and only then is the outcome public and the lease free.  *)

\* Mutant: what was left is settled at the next start only.
ResumeAtStartup(r) ==
    /\ lane = Idle /\ Unreconciled(r)
    /\ mode = "settling" /\ Goto(r, "stage")
    /\ UNCHANGED <<environment, store, container, mode, enrolment, memo, credential, history, faults>>

\* The worker or the reconciler takes up what was left; at startup the Runs of the last process.
Resume(r) ==
    /\ lane = Idle /\ Unreconciled(r)
    /\ \/ mode = "settling" /\ Goto(r, "stage")
       \/ mode = "serving" /\ memo[r] # "none" /\ Goto(r, memo[r])
    /\ UNCHANGED <<environment, store, container, mode, enrolment, memo, credential, history, faults>>

\* The intent is withdrawn on the proof that no Create was sent.
ClearRuntimeIntent(r) ==
    LET Commits == rows' = [rows EXCEPT ![r].holds = "none"]
    IN  /\ At(r, "clear")
        /\ \/ NoFault /\ Commits /\ Goto(r, "stage") /\ UNCHANGED <<mode, enrolment, memo, credential>>
           \/ Fault /\ (Commits \/ UNCHANGED rows) /\ Abandon(r, "clear", credential[r])
        /\ UNCHANGED <<environment, authority, container, history>>

\* Mutant: the lease is given back with the decision, before the container is gone.
StageAndRelease(r) ==
    /\ At(r, "stage")
    /\ rows' = [rows EXCEPT ![r].phase = "staged"] /\ occupancy' = [occupancy EXCEPT ![r] = NoRef]
    /\ NoFault /\ Goto(r, "cleanup")
    /\ UNCHANGED <<environment, enrolled, sources, revoked, targets, container, mode, enrolment, memo, credential, history>>

CommitTerminal(r) ==
    LET Commits == rows' = [rows EXCEPT ![r].phase = "staged"]
    IN  /\ At(r, "stage")
        /\ \/ NoFault /\ Commits /\ Goto(r, "cleanup") /\ UNCHANGED <<mode, enrolment, memo, credential>>
           \/ Fault /\ (Commits \/ UNCHANGED rows) /\ Abandon(r, "stage", credential[r])
        /\ UNCHANGED <<environment, authority, container, history>>

\* The container is removed and inspected.  Without a reference it is looked up by the target's
\* manifest, and an intent of this boot whose container is not found proves nothing.
Findable(r) ==
    \/ rows[r].holds = "ref"
    \/ rows[r].revision = config.revision /\ (rows[r].holds = "intent" => container[r].at # "none")

CleanupRuntime(r) ==
    /\ At(r, "cleanup")
    /\ \/ /\ Findable(r) /\ NoFault
          /\ container' = [container EXCEPT ![r] = [at |-> "none", mount |-> NoObject]]
          /\ rows' = [rows EXCEPT ![r].holds = IF @ = "ref" THEN @ ELSE "none"]
          /\ Goto(r, IF rows[r].phase = "staged" THEN "close" ELSE "stage")
          /\ UNCHANGED <<mode, enrolment, memo, credential>>
       \/ /\ (~Findable(r) /\ NoFault) \/ Fault
          /\ Abandon(r, "stage", credential[r]) /\ UNCHANGED <<rows, container>>
    /\ UNCHANGED <<environment, authority, history>>

\* closeCredential: a file that changed retires its generation, nothing is closed before that is
\* recorded, and a close that failed is never taken for done while the process lives.
CloseCredential(r) ==
    LET c == IF credential[r].held # NoObject THEN Latch(r) ELSE credential[r]
        invalid == c.invalid \/ c.latched
    IN  /\ At(r, "close")
        /\ IF credential[r].open /\ invalid /\ ~c.retired
             THEN \* retireCredential
                  /\ tainted' = tainted \cup {occupancy[r]}
                  /\ \/ NoFault /\ revoked' = revoked \cup {occupancy[r]}
                        /\ Sets(r, [c EXCEPT !.invalid = TRUE, !.retired = TRUE])
                        /\ UNCHANGED <<lane, memo, mode, enrolment>>
                     \/ Fault /\ revoked' \in {revoked, revoked \cup {occupancy[r]}}
                        /\ Abandon(r, "stage", [c EXCEPT !.invalid = TRUE])
             ELSE /\ UNCHANGED <<revoked, tainted>>
                  /\ \/ ~c.closeFailed /\ NoFault /\ Goto(r, "confirm") /\ Sets(r, NoCredential)
                        /\ UNCHANGED <<mode, enrolment, memo>>
                     \/ c.held # NoObject /\ ~c.closeFailed /\ Fault
                        /\ Sets(r, [c EXCEPT !.invalid = TRUE, !.closeFailed = TRUE])
                        /\ UNCHANGED <<lane, memo, mode, enrolment>>
                     \/ c.closeFailed /\ NoFault /\ Abandon(r, "stage", c)
        /\ UNCHANGED <<environment, enrolled, sources, targets, occupancy, rows, container, served>>

\* ConfirmRuntimeStopped publishes the outcome and deletes the occupancy in one transaction.
ConfirmRuntimeStopped(r) ==
    LET Commits == rows' = [rows EXCEPT ![r].phase = "ended", ![r].holds = "none"] /\ occupancy' = [occupancy EXCEPT ![r] = NoRef]
    IN  /\ At(r, "confirm")
        /\ \/ NoFault /\ Commits /\ lane' = Idle /\ memo' = [memo EXCEPT ![r] = "none"]
              /\ UNCHANGED <<mode, enrolment, credential>>
           \/ Fault /\ (Commits \/ UNCHANGED <<rows, occupancy>>) /\ Abandon(r, "stage", credential[r])
        /\ UNCHANGED <<environment, enrolled, sources, revoked, targets, container, history>>

-----------------------------------------------------------------------------

Works(r) ==
    \/ Take(r) \/ Resume(r)
    \/ ReadEnrolment(r) \/ HoldSource(r) \/ InvalidateCredential(r)
    \/ BeginRuntimeIntent(r) \/ ValidateCredential(r) \/ ClaimHandoff(r) \/ CreateWithCredential(r)
    \/ SetRuntimeRef(r) \/ AttachStart(r) \/ ReleaseBootstrap(r) \/ Ends(r)
    \/ ClearRuntimeIntent(r) \/ CommitTerminal(r) \/ CleanupRuntime(r) \/ CloseCredential(r) \/ ConfirmRuntimeStopped(r)

Starts == RegisterTargets \/ PrepareRunnerState \/ RetireOccupiedCredentialGenerations \/ Serve

Next ==
    \/ Replace \/ Configure \/ Stop \/ Crash \/ Reboot
    \/ EnrolOpen \/ EnrolRegister \/ EnrolFinish
    \/ Open \/ Starts
    \/ \E r \in Runs : Admit(r) \/ Works(r)

Spec == Init /\ [][Next]_vars

\* A process that is up keeps working: the worker, the reconciler and the startup code.
FairSpec == Spec /\ WF_vars(\E r \in Runs : Works(r)) /\ WF_vars(Starts)

-----------------------------------------------------------------------------
(* Properties.                                                             *)

\* A program let go inside its container sees the object that was enrolled for the generation its
\* Run occupies, no other container has that object mounted, and this stays so when the daemon dies
\* under it, whatever was done to the file (releaseCredentialBootstrap, acquireRunCredential).
ReleasedSeesEnrolled ==
    \A r \in Runs : container[r].at = "released" =>
        /\ occupancy[r] # NoRef
        /\ container[r].mount = enrolled[occupancy[r]].object
        /\ \A q \in Runs \ {r} : container[q].at # "none" => container[q].mount # container[r].mount

\* A generation whose exclusive use was interrupted, by the death of the process, by a file that
\* changed or by a handle that would not close, is given to no Run and to no Create again
\* (RetireOccupiedCredentialGenerations, retireCredential, BeginRuntimeIntent).
NoWorkOnTainted ==
    [][\A r \in Runs :
         /\ occupancy[r] = NoRef /\ occupancy'[r] # NoRef => occupancy'[r] \notin tainted
         /\ rows[r].holds = "none" /\ rows'[r].holds = "intent" => occupancy[r] \notin tainted]_vars

\* The check of a database at Open never refuses one that this code has written, at whatever call
\* the process died (verifyCredentialIntegrity).
EveryDatabaseOpens == CredentialIntegrity

\* A configuration that has been served is accepted at every later start, its generation revoked or
\* not: the Runs it left behind can be settled (RegisterEnrolledTargetAuthorities).
ServedStaysAccepted == \A c \in served : Registers(c)

\* A Run that was admitted gives its lease back, unless the process is gone, a handle would not
\* close, or a Create was sent in this boot and nobody knows what became of it.
LeaseReleased ==
    \A r \in Runs :
        Unreconciled(r) ~> \/ rows[r].phase = "ended" \/ mode = "down" \/ credential[r].closeFailed
                           \/ rows[r].holds = "intent" /\ container[r].at = "none"

=============================================================================
