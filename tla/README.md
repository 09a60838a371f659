# Formal model of the harness security gateway

TLA+ specifications of the gateway's state machines, the TLC instances that
model-check them, and TLAPS proofs of their central properties. Paths below are
relative to the repository (`src/`). `PROJECT.json` maps every definition to the
lines it models and lists components, runs, hazards, findings and theorems.

## The system

| Part | State it keeps | What happens to it |
|---|---|---|
| Discord Connector (`internal/discordconnector`) | cursor, sent chunks and deliveries (SQLite) | polls messages and ingests them into Core; claims replies, sends them in chunks, completes them |
| agentd, "Core" (`internal/agentservice`, `agentpolicy`, `corestore`, `agentdispatch`, `agentdaemon`) | events, Runs, sessions, deliveries, horizons (SQLite); the compiled policy | admits events as Runs, claims one Run at a time, prepares a frozen start, follows it at sandboxd, finishes it together with its reply |
| sandboxd (`internal/sandboxservice`, `sandboxstore`, `sandboxcontroller`, `cmd/sandboxd`) | Run rows, staged outcomes, workspace locks, session lineage, credential generations, target revisions and directory owners (SQLite); offers, held files and retained proofs in memory | registers targets, registers Runs, executes one at a time in a container, reconciles what is left over |
| container runtime (`internal/dockerruntime`) | the daemon's containers | create, find by intent, attach, start, stop, remove |
| Runner (`internal/runnerbridge`, `runnerwire`, `codexadapter`, `cmd/mock-runner`) | the event sequence of one Run | streams `run.started`, progress and one outcome over a bounded pipe |
| credential and provider (`internal/credentialsource`, `codexprovider`) | the credential file; a Run's endpoint, relay and native process | holds and mounts the enrolled file; or keeps it outside and sends the container's requests on, refreshing the token |

Each daemon is one process with one database; they talk over local sockets, so
any answer can be lost. Any process can die between two steps; containers and
Creates in flight outlive sandboxd. What makes the system hard:

* leases expire while their holder is still working, and clock readings are
  taken before the transaction they are used in;
* a call may be repeated after its first answer was lost (ingest, start,
  completion, SetRuntimeRef, Create, SendMessage, a token refresh);
* a Create that timed out may still produce a container until the host reboots;
* the worker and the reconciler of sandboxd meet on the same Run;
* receipts, replies and Runs are compacted while they may still be needed;
* files, directories and configurations change under a running or a stopped
  daemon, while Runs that were admitted earlier still refer to them.

## Modules

Each component has a module, and an `MC` module that instantiates it for TLC.
Interfaces are modelled on both sides: `AgentDispatch` and `DiscordConnector`
compose two processes each, and what one module assumes of a neighbour is what
the neighbour's module checks.

### Core: `CoreStore`, `DeliveryBackoff`

`CoreStore` models `internal/corestore`. The store uses one connection with
immediate transactions, so a transaction is one action: `IngestTextRun` with
receipt eviction and quotas, `ClaimQueuedRun` with the requeueing of expired
leases, `PrepareRunStart`, `MarkRunRunning`, `FinishRun` with the insertion of
the reply, `ClaimTextDeliveries`, `CompleteDelivery`, and `ResetSession`. The
tables are the variables `runs`, `receipts`, `horizon`, `sessions` and
`deliveries`. `clock` may be set back, and every call except ingestion may use
an earlier reading (`Readings`). The module puts no order on its callers: any
token may be presented at any time, which covers every dispatcher and every
connector. Message text, codes and timestamps that no decision reads are left
out; a lease token is the number of the attempt it was drawn for.

`DeliveryBackoff` is the doubling loop of `retryBackoff`; the assumption
`BackoffIsExponential` compares it with the closed form on a grid whenever a
Core run is checked.

### agentd and sandboxd: `AgentDispatch`

The supervisor loop of `agentdaemon` driving `agentdispatch` against
`sandboxservice` and sandboxd's admission and session tables. The supervisor
makes one call at a time; `sup.pc` names the next (`ListRunningRuns` to
`FinishRun`). A transaction may fail or commit and report an error, a request or
its answer may be lost, and either process may crash. `core` and `pointer` are
agentd's tables, `box` and `sessions` sandboxd's, `offered` what its worker has
in memory. The runtime behind an accepted Run is one step, `Execute`
(`SandboxController` is about it). Time is relative: leases, deadlines and
lineages run out at any moment. A restart of sandboxd is one step, which may
also change its targets. A StartRun whose caller gave up takes effect before the
next call is served or not at all.

### Discord Connector: `DiscordConnector`

One loop alternates `PollOnce` (read, adopt or advance the cursor, ingest) and
`DeliverOnce` (claim, send, record the chunk, record the delivery, complete);
each call is an action, and a crash, which here includes the restart, may fall
between any two. Core is what `CoreStore` shows it to be: an event becomes at
most one Run, one Run of the conversation at a time, a lease runs out. An ingest
is answered in the order of `agentservice` and `corestore`: a known event is a
duplicate, or a conflict when the message was edited since; then expired,
forbidden under a policy without the binding, busy, accepted. Expired and
conflict are about the event and let the cursor pass; the others hold it
(`docs/discord-connector.md:244-249`). `RestartAgentd` brings agentd back with
another policy. Discord is external: it returns the oldest messages after a
cursor, and their authors may edit them. `posts` is what appeared on the channel.
A text is its version; the splitting of replies and pacing are left out.

### sandboxd: `SandboxRows`, `SandboxController`, `RuntimeAuthority`, `SandboxAuthority`

`SandboxRows` is the row of a Run and, for each transaction of
`internal/sandboxstore`, what it accepts and what it leaves.
`SandboxController` models `internal/sandboxcontroller`: the API handlers
(`StartRun`, `Enqueue`, `CancelRun`), the worker (`WaitForQuiescence` to
`Settle`), the calls both goroutines make (`Commit`, `Stage`, `Cleanup`,
`Lookup`, `Clear`, `Confirm` and so on), the reconciler (`List`,
`ClaimReconciliation`, `Refresh`), and start, shutdown, crash and reboot. A
goroutine is the Run it works on and the *plan*, the sequence of calls it still
has to make. Each call can fail, or take effect and lose its answer. `flight` is
a Create the daemon has not finished; it may land at any time in the same boot.

`RuntimeAuthority` says what sandboxd promises about containers without saying
how: authority first, one Run at a time, one start for ever, the first decision
final, publication last. `SandboxAuthority` holds the mapping (`Phase`,
`Authority`) under which `SandboxController` implements it, which is both checked
and proved.

Abstractions: Runs need no credential, resume no session and record no progress
events (the modules below are about those); a deadline that has passed stays
passed; the stop, kill, remove and inspect calls of `cleanupRuntimeContext` are
one step that either removes the container or fails leaving it running, stopped
or gone; the four attempts of `commitTerminal` and `clearCertainRuntimeIntent`
are one attempt, which fails only if all four would; BeginClose and the
cancellation in Close are one step; of the rows a reconciliation pass listed, the
one it works on is remembered.

### One attached Run: `RunnerProtocol`

From attach to publication: the program writes frames to a byte-bounded pipe, the
bridge reads, checks and translates them (`runnerwire` sequence and limits,
`runnerbridge`), the store appends events and stages the outcome, the controller
classifies the failure, stops and removes the container and publishes. The
program is the Codex adapter with its child, the mock runner, or an image about
which nothing is assumed. A frame is its type, sequence number and what the
bridge checks of it. The adapter bounds its child's final message by its own
limit, not by the target's, so its completed frame may be over the target's. The
drain of the diagnostic stream, the worker's Close and its poll of the drain
interleave as in the code. Crashes are left to `SandboxController`.

### Credentials: `CredentialLease`

Enrolment of a file as a generation of a slot, registration of target revisions
that use it, and a Run that occupies it, holds and proves the file, hands it over
to Create, and lets the program go only when the file it sees is the enrolled
one. The file may be replaced and the configuration edited at any moment; what
dies with the process (handles, locks, decisions) is kept apart from the store
and from Docker. A file is the object it is (`Objects`), not its bytes.

### Provider: `OwnerProvider`

The provider of a Run whose credential never enters the container: endpoint and
connections, upstream requests with the owner's token, the refresh after a 401 by
a native process through a relay, the commit of the new token to the file, and
cleanup by the controller. A request takes three steps: `Admit` (the
endpoint counts it against its budget), `Authorize` (the provider compares the
local token and takes the owner's token with its version, under its lock) and
`Send`, which the endpoint's end may forestall. A 401 to another connection, a
recovery or the cleanup may fall between any two. `account` is the token
the service takes next. `Operations` bounds what the container asks for;
`run = "stuck"` stands for the close errors the code keeps.

### Configuration: `TargetAuthority`

agentd compiles bindings into the policy that decides on which target revision a
Run is made. sandboxd validates its configuration, takes the lock file and the
socket, pins what each revision means and who owns each directory, makes the
directories, and serves. Several processes may be started, each may die between
two steps, and both configurations change between starts; an operator may make
or remove directories by hand. Directories are atoms: a runner-state root inside
another root is left out.

## Runs

| Run | Instance | What it checks |
|---|---|---|
| `core_runs` | 2 Runs in 2 scopes, 1 reference, queue quota 1, stale clock samples | `GlobalOneExecution`, `StartedRunNeverRestarts`, `PreparedStartFrozen`, `LiveDispatchLeaseKept` |
| `core_replies` | 3 Runs in turn, all quotas 1, replies leased twice, clock set back | `AtMostOneRunPerEvent`, `RetainsOnlyWhatIsNeeded`, `ReplyKeptUntilSettled`, `LiveDeliveryLeaseKept` |
| `dispatch` | a conversation's second and third Run, 2 turns per lineage, 1 fault, 1 crash of either side | agentd and sandboxd never contradict each other (`CoreRepeatsSandbox`); `ResumedOnce`; `PointerFollowsLineage`; `EveryRunEnds` |
| `discord` | 3 messages, replies of 2 chunks, one of them unpostable, 2 faults or crashes, 1 edit or change of policy | `NothingSkipped`; `RepetitionsArePaidFor`; `DeliveredIsPosted`; `NothingWedged` |
| `prune_resends` | the same with an agentd that is away for long, 1 fault, no edit | **violated**: see findings |
| `sandbox_one_run` | 1 Run, 2 faults, 1 crash, shutdown or reboot, cancel, deadline | `ImplementsAuthority`; retained proofs are true (`ProofIsTrue`); `EventuallyPublished` |
| `sandbox_two_runs` | a writer with repeated StartRun calls and a reader, 1 queue slot, 1 fault | `ImplementsAuthority`; `OneOwner`; `WriterKeepsWorkspace` |
| `runner` | Codex adapter, mock runner or any image; targets that resume and do not, event limits 2 and 3; 1 fault | `SnapshotAlwaysValid`; `RoomForTheOutcome`; `OurRunnersConform`; `BlameFits`; `EveryRunEnds` |
| `runner_blame` | any image, no fault | **violated**: see findings |
| `credentials` | 2 slots, 2 generations, 2 files, 3 revisions, 2 Runs; edits, replacements, 1 fault, 1 crash | `ReleasedSeesEnrolled`; `NoWorkOnTainted`; `EveryDatabaseOpens`; `ServedStaysAccepted`; `LeaseReleased` |
| `provider` | 3 connections, 2 at a time, 2 relay requests, 1 failure, timeout or cancellation | `KeptTokenIsCurrent`; `FenceHolds`; `ReleasedMeansJoined`; `CleanupEnds` |
| `authority` | 2 processes, 2 starts, 5 configurations, 4 policies, 2 Runs, 1 death | `ExecutesTheGrant`; `RevisionMeansOneThing`; `OneRevisionPerDirectory`; `RefusesOnlyHandMade` |

**Bounds.** `MaxClock`, `MaxDispatches` and `MaxSends` cap Core. Where a run is
about a lease, they leave room for it to be taken, expire and be taken again
while its first holder still acts: two dispatches in `core_runs`, two sends in
`core_replies`. `core_runs` is about dispatch alone and sends no reply, `core_replies`
dispatches each Run once. Two Runs are enough for every pairwise
property of the runs table; replies use three, so that a quota of one is filled
and freed while an older reply is unsettled. `MaxFaults`, `MaxCrashes`,
`MaxBoots`, `MaxTrouble`, `MaxStarts`, `MaxEdits`, `MaxSwaps` and `MaxLate` bound
the environment. One fault together with one crash meets each step of a handler
and each step of its recovery. The Connector has two faults or crashes in all,
because a repeated chunk takes a lost answer and a lost record; a Run of sandboxd
has two and a crash, because a retained proof is trusted only after a first call
has failed, and a second decides whether it was true. Two Runs suffice for
exclusion in sandboxd: the worker handles one Run at a time and the reconciler
another. `MaxEvents` is 3 instead of the protocol's limit: started, one progress
event and the outcome, so the reserve is met at once; target limits at and below
it are tried. `MaxMessage` leaves one message before the adopted cursor and two
behind it. Symmetry is used for events and scopes in `core_runs` and for
processes and Runs in `authority`, whose instances do not tell them apart; no run
with a liveness property uses it.

**Initial states.** `dispatch` starts after a first turn that completed
(`SecondTurn`), because the interesting cases need a session to resume.

**Deadlock** is checked in `dispatch`; elsewhere instances end, with every event
used up or every Run published, and nothing left to do.

**Fairness.** In all modules weak fairness is given to loops that are running and
to time, and to nothing a person, a program in a container or a service manager
would have to do.

* `SandboxController`: worker, both goroutines' calls, reconciler (a ticker
  starts it again and again), the daemon finishing a Create, deadlines, and the
  end of startup. The service unit does not restart sandboxd, so
  `EventuallyPublished` excuses a process that is not serving; it also excuses an
  unresolved Create of the current boot, which the code deliberately keeps until
  a reboot.
* `AgentDispatch`: the supervisor's ticker, leases and deadlines, and sandboxd's
  work on an accepted Run (what `EventuallyPublished` is about). agentd's unit
  does not restart it either, so `EveryRunEnds` excuses an agentd that is down.
* `DiscordConnector`: the loop, the end of Core's Runs and of leases. `Crash`
  takes the loop back to its beginning: `NothingWedged` speaks of a Connector
  that is started again. It excuses a policy without the binding, which refuses
  every event until an operator replaces it; the refused messages are then still
  in front of the cursor (`NothingSkipped`).
* `RunnerProtocol`: bridge, controller and the timer of the bridge's context;
  nothing is asked of the program.
* `CredentialLease`: the worker and the startup code of a process that is up.
* `OwnerProvider`: goroutines, each of whose calls has a deadline, and the end of
  a native process whose input is closed or that is killed. Nobody has to
  connect, to cancel or to take a refresh.

## Findings

* `runner_blame`: `controller_test.go` expects that a protocol violation found by
  the bridge fails the Run with `protocol_violation`. The worker closes the
  diagnostic stream before it polls the drain; when the drain reports the closed
  pipe first, that error becomes the cause and the Run fails with `internal`. The
  test's stream ignores Close. `BlameFits` shows that no wrong cause is named.
* `prune_resends`: comments in `discordconnector` say that a recorded delivery is
  never sent again, because Core keeps a delivery only while the receipt of its
  Run lives. Core keeps unsettled deliveries longer; after seven days without
  agentd the record is pruned and the delivery is sent again.

Two more observations, on which no property rests. A comment at
`corestore/runs.go:378` has a requeued Run selected first; random ids order the
Runs of one millisecond, so another may come first. `docs/architecture.md:414`
rules out a second Create; when SetRuntimeRef fails, the container is removed and
the intent cleared before an outcome is staged, and after a crash there the Run
is accepted and created again. The first container never ran, and
`ImplementsAuthority` shows that a Run is still started at most once.

## Proofs

**Core.** For all sets of events, scopes and ids (ids finite), and all windows,
quotas and leases that satisfy the named assumptions of `CoreStore` (those
`validateAdmissionOptions` enforces, and typing). `CoreStoreProofs` proves
typing and the steps of the induction, one lemma per operation, and
`CoreStoreStepProofs` the induction and its consequences `AdmissionOnce`, `OneExecution`, `OneRunPerScope`,
`PreparedSessionStays` and `ReplyWithOutcome`. The invariant `IInv` adds to these
properties that rows are consistent, that a receipt names its Run, and that an
admitted event has its receipt or lies behind its connector's horizon. The last
is why replay protection survives eviction: the horizon never moves back, even if
the clock does, and ingestion refuses what lies behind it. One Run per scope is
what keeps the session pointer of a prepared start still.

The action properties follow from `IInv` and a classification of steps.
`ReplyStep` lists the ways a step can change a reply (`ReplySteps` proves that
there are no others); `ReplyStays` and `LiveReplyLeaseStays` are read off it.
`RowStep` does the same for a Run, with the invariant
`SInv`, which adds that unused ids are blank; `StartIsFrozen`, `StartedOnce` and
`LiveLeaseStays` follow. `NothingElseIsRetained` combines it with `EvictedReply`,
what eviction leaves. `QuotaBoundsUnfinished` is a counting argument: admission
finds fewer queued Runs than the quota, at most one Run executes, and requeueing
only moves Runs within the unfinished ones.

**Runtime authority.** `SandboxAuthorityProofs` proves the abstract protocol, for
any set of Runs: `AuthorityCovers`, `AuthorityIsExclusive`, `PublicationIsLast`
and the action property `StartedAtMostOnce`. The invariant adds that authority is
exclusive and ends with publication.

**sandboxd.** For any set of Runs, any queue capacity and any number of faults,
crashes and boots (`SandboxAssumption` is typing only), `SandboxStepProofs` proves
`SandboxOneOwner`, `SandboxWriterKeepsWorkspace`, `SandboxProofIsTrue` and
`SandboxImplementsAuthority`. None of these is inductive: whether a call of a
goroutine is safe depends on the calls before it, and the database, the daemon,
the memos and the other goroutine may have moved on since. `IInv`
(`SandboxProofs`) therefore relates four things.

* `RowFits`: what a Run's row says of intent, reference, lock and outcome fits
  what the daemon has of it, a Create in flight included.
* `MemoFits`: a retained proof of absence is retained only while nothing of the
  Run is at the daemon or on its way there.
* `PlanOK`: the calls a goroutine still has to make are `Sound`. It clears an
  intent or confirms an absence only after it has removed or looked up the
  container, unless nothing is left; it cleans up only when no Create is in
  flight; it proves an absence only at once.
* `WorkerOK` and `Owners`: the next call of `execute` finds the row and the
  container that it relies on; the worker has an active offer, and the reconciler
  one that it has taken over.

The proof has one lemma per action: the API and the worker's wait in
`SandboxProofs`, the shared calls and the reconciler in `SandboxCallProofs`, the
calls of `execute` in `SandboxWorkerProofs`, startup, shutdown, crash, reboot and
the daemon in `SandboxStepProofs`. For the refinement, each action from a state in
`IInv` is shown to be a step of `RuntimeAuthority` or a stutter. So what is proved
of the abstract protocol holds of the controller: a Run is started at most once,
and one container exists at a time.

**Configuration.** For all configurations, policies, processes and Runs.
`TargetAuthorityProofs` proves `OneMeaning` and `OneRevision` from `TablesInv`,
which is about the two tables alone: rows are only added, and only when none
disagrees; what a process has registered stays in the tables; a Run is executed
with what its process registered. It does not use the lock. The module
also proves `LockDecides` (the store is open in the holder of the lock file only) from
`LockInv`, `OnlyHandMadeRefused` from `DirsInv` (a directory has an owner's row
or was made by hand, since rows are committed before directories are made), and
`GrantIsExecuted` from `GrantInv` (a Run keeps what its admission decided).

**Only model-checked:** the properties of `AgentDispatch`, `DiscordConnector`,
`RunnerProtocol`, `CredentialLease` and `OwnerProvider`; all liveness, which is
outside the prover's reach; and the backoff loop (what a recursive definition
computes for all inputs would need induction over data).

## Not modelled

* Database migrations and integrity pragmas: each is a transaction of DDL and
  copying over a schema the models do not represent. The integrity check of
  credentials at Open is modelled (`EveryDatabaseOpens`).
* Parsing, encoding, HTTP, file modes and command lines, which have no state of
  their own; their outcomes (accepted, refused, uncertain) are inputs.
* What a message says (only whether it changed), the splitting of replies, and the
  pacing of the Connector. Refusals of an ingest that a correct Connector cannot
  get (a malformed request, another Connector's identity).
* A StartRun request that is served after a later call of the same client;
  runner-state roots inside one another; credentials and sessions within
  `SandboxController`, whose three views of a Run (`SandboxController`,
  `RunnerProtocol`, `CredentialLease`) are not composed into one state space.
* Static Codex profiles, the relay of the older provider profiles, the inspection
  of response bodies, canaries, demonstrations and fakes: no durable state, or
  harnesses around operations that are modelled.
* That shutdown of sandboxd ends: it rests on the timeout of its context.
