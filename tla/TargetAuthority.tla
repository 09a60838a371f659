--------------------------- MODULE TargetAuthority ---------------------------
(***************************************************************************)
(* What an operator's two configuration files grant, over many starts of   *)
(* the daemons that read them.                                             *)
(*                                                                         *)
(* agentd compiles its bindings into a table that decides, for the actor   *)
(* and conversation of an event, on which target revision a Run is made    *)
(* (internal/agentpolicy).  sandboxd is started with a configuration of    *)
(* targets and of directories that hold what a target's runner keeps from  *)
(* one Run to the next; before it serves, it pins in its store what every  *)
(* revision means and who owns every directory, and only then creates the  *)
(* directories (cmd/sandboxd, internal/sandboxconfig, sandboxservice,      *)
(* sandboxstore/targets.go).  Both files change between starts, so a Run   *)
(* outlives the policy that admitted it and the revision it names.         *)
(*                                                                         *)
(* Several sandboxd processes may be started; a lock file and the socket   *)
(* decide which one serves.  A process may die between any two steps.      *)
(* Directories are atoms: a root inside another root is left out.          *)
(***************************************************************************)
EXTENDS Naturals, FiniteSets, Functions

CONSTANTS
    Configs,                \* configurations sandboxd may be started with
    Policies,               \* the sets of bindings agentd may be started with
    Actors, Conversations,
    Self,                   \* the Connector's own actor
    Directories,
    Procs, NoProc,          \* sandboxd processes
    Runs,
    None,                   \* no runner state, no directory, no configuration
    MaxStarts, MaxEdits, MaxCrashes, MaxLate    \* bounds: starts of sandboxd, acts of the operator, deaths, deadlines that pass

\* A configuration has the directory of each runner-state name and a set of targets.  The body of a target
\* stands for its manifest and the local paths that serve it, its state for a name or None.
ASSUME AuthorityAssumption ==
    /\ \A c \in Configs : \A s \in DOMAIN c.states : c.states[s] \in Directories
    /\ \A q \in Policies : \A b \in q : b.target = <<b.target[1], b.target[2]>>
    /\ None \notin Directories /\ None \notin Configs /\ NoProc \notin Procs
    /\ MaxStarts \in Nat /\ MaxEdits \in Nat /\ MaxCrashes \in Nat /\ MaxLate \in Nat

VARIABLES
    proc,       \* per process: where it is, its configuration, the directories it saw absent or has still
                \* to make, the requests it holds in memory, and the directories its last start refused
    lock,       \* the process that holds the lock file
    socket,     \* "none", "stale" (nobody listens) or "live"
    pins,       \* target_revisions: what a target revision means
    owners,     \* runner_state_owners: the target revision a name and a directory belong to
    dirs,       \* the directories that exist
    policy,     \* the decisions agentd has compiled
    core,       \* the Runs in agentd's store
    rows,       \* the Runs in sandboxd's store
    late,       \* the Runs whose deadline has passed
    byHand,     \* history: directories the operator ever made
    executed,   \* history: the key and fingerprint a Run's container was created with
    starts, edits, crashes

host == <<dirs, byHand>>
store == <<pins, owners>>
runs == <<core, rows, late, executed>>
vars == <<proc, lock, socket, pins, owners, dirs, policy, core, rows, late, byHand, executed, starts, edits, crashes>>

-----------------------------------------------------------------------------
(* Configurations and policies.                                            *)

Key(e) == <<e.id, e.revision>>

Directory(c, e) == IF e.state = None THEN None ELSE c.states[e.state]

\* The directories a configuration's targets keep their state in.
StateDirectories(c) == {Directory(c, e) : e \in c.targets} \ {None}

\* validateStorageEntries: every directory is configured under one name.
ValidStorage(c) == IsInjective(c.states)

\* NewDefinitions: there is a target, and one revision of each.
ValidRegistry(c) == c.targets # {} /\ \A e, f \in c.targets : e.id = f.id => e = f

\* Config.Validate: a target keeps its state under a configured name that no other target uses.
Valid(c) ==
    /\ ValidStorage(c) /\ ValidRegistry(c)
    /\ \A e \in c.targets : e.state # None => e.state \in DOMAIN c.states
    /\ \A e, f \in c.targets : e # f /\ e.state # None => e.state # f.state

\* Mutant: the revision the request expects is not compared.
ResolveAny(c, key) == {e \in c.targets : e.id = key[1]}

\* Registry.Resolve: the one entry of that target, if it is of that revision.
Resolve(c, key) == {e \in c.targets : e.id = key[1] /\ e.revision = key[2]}

\* RevisionSecurityFingerprint: a digest of the manifest and of the paths that serve it.
Fingerprint(c, e) == [body |-> e.body, state |-> e.state, directory |-> Directory(c, e)]

\* agentconfig's Validate: one binding for an actor and a conversation, none for the Connector itself.
ValidPolicy(p) ==
    /\ p # {}
    /\ \A b \in p : b.actor # Self
    /\ \A a, b \in p : a.actor = b.actor /\ a.conversation = b.conversation => a = b

\* Compile: the decisions of a policy.  Its keys are an actor and a conversation.
Compile(p) ==
    [who \in {<<b.actor, b.conversation>> : b \in p} |->
        (CHOOSE b \in p : who = <<b.actor, b.conversation>>).target]

Compiled == {Compile(p) : p \in {q \in Policies : ValidPolicy(q)}}

-----------------------------------------------------------------------------

Off == [pc |-> "off", config |-> None, todo |-> {}, offers |-> {}, refused |-> {}]

NoRun == [actor |-> None, conversation |-> None, decided |-> None, key |-> None, state |-> "none"]

Init ==
    /\ proc = [p \in Procs |-> Off] /\ lock = NoProc /\ socket = "none"
    /\ pins = {} /\ owners = {} /\ dirs = {} /\ byHand = {}
    /\ policy \in Compiled
    /\ core = [r \in Runs |-> NoRun] /\ rows = [r \in Runs |-> "none"] /\ late = {}
    /\ executed = {}
    /\ starts = 0 /\ edits = 0 /\ crashes = 0

At(p, pc) == proc[p].pc = pc

\* serve returns an error: its deferred calls close the store, unlink the socket it listens on and
\* release the lock.
Exits(p, refused) ==
    /\ proc' = [proc EXCEPT ![p] = [Off EXCEPT !.refused = refused]]
    /\ lock' = IF lock = p THEN NoProc ELSE lock
    /\ socket' = IF At(p, "loaded") \/ At(p, "locked") THEN socket ELSE "none"

-----------------------------------------------------------------------------
(* The start of sandboxd.                                                  *)

\* Load and Validate the configuration file.
Load(p, c) ==
    /\ At(p, "off") /\ starts < MaxStarts /\ starts' = starts + 1
    /\ proc' = [proc EXCEPT ![p] = IF Valid(c) THEN [Off EXCEPT !.pc = "loaded", !.config = c]
                                   ELSE Off]
    /\ UNCHANGED <<lock, socket, store, host, policy, runs, edits, crashes>>

\* processlock.Acquire: one process of this user, whatever its configuration.
AcquireLock(p) ==
    /\ At(p, "loaded")
    /\ \/ /\ lock = NoProc
          /\ lock' = p /\ proc' = [proc EXCEPT ![p].pc = "locked"]
          /\ UNCHANGED socket
       \/ lock # NoProc /\ Exits(p, {})
    /\ UNCHANGED <<store, host, policy, runs, starts, edits, crashes>>

\* acquireOwnership: a socket on which somebody listens is left alone, a stale one is removed.
AcquireSocket(p) ==
    /\ At(p, "locked")
    /\ IF socket = "live" THEN Exits(p, {})
       ELSE socket' = "live" /\ proc' = [proc EXCEPT ![p].pc = "listening"] /\ UNCHANGED lock
    /\ UNCHANGED <<store, host, policy, runs, starts, edits, crashes>>

\* Mutant: the directories are made as soon as their absence has been observed.
ResolveAuthorityAndMake(p) ==
    /\ At(p, "listening")
    /\ proc' = [proc EXCEPT ![p].pc = "resolved", ![p].todo = StateDirectories(proc[p].config) \ dirs]
    /\ dirs' = dirs \cup StateDirectories(proc[p].config)
    /\ UNCHANGED <<lock, socket, store, byHand, policy, runs, starts, edits, crashes>>

\* sandboxservice.New resolves every entry: which of the directories do not exist yet.
ResolveAuthority(p) ==
    /\ At(p, "listening")
    /\ proc' = [proc EXCEPT ![p].pc = "resolved", ![p].todo = StateDirectories(proc[p].config) \ dirs]
    /\ UNCHANGED <<lock, socket, store, host, policy, runs, starts, edits, crashes>>

\* Mutant: a revision that is known is not compared with its pin.
ConflictsUnpinned(c, e) ==
    /\ ~ \E row \in pins : row.key = Key(e)
    /\ \E row \in owners : e.state # None /\ (row.state = e.state \/ row.directory = Directory(c, e))

\* registerTargetAuthority, ErrConflict: the revision means something else, or its name or directory
\* belongs to another revision.
Conflicts(c, e) ==
    \/ \E row \in pins : row.key = Key(e) /\ row.pin # Fingerprint(c, e)
    \/ /\ ~ \E row \in pins : row.key = Key(e)
       /\ \E row \in owners : e.state # None /\ (row.state = e.state \/ row.directory = Directory(c, e))

\* registerTargetAuthority, ErrRunnerStateOwnershipUnknown: no owner, and the directory was there before.
Unowned(c, e, absent) ==
    /\ e.state # None
    /\ ~ \E row \in owners : row.key = Key(e)
    /\ (\E row \in pins : row.key = Key(e)) \/ Directory(c, e) \notin absent

\* Mutant: which directory a name stands for is left to the configuration.
RegisterNames(p) ==
    LET c == proc[p].config
        free(e) == \A row \in owners : row.state = e.state => row.key = Key(e) IN
    /\ At(p, "resolved") /\ \A e \in c.targets : free(e) /\ \A row \in pins : row.key = Key(e) => row.pin = Fingerprint(c, e)
    /\ pins' = pins \cup {[key |-> Key(e), pin |-> Fingerprint(c, e)] : e \in c.targets}
    /\ owners' = owners \cup {[key |-> Key(e), state |-> e.state, directory |-> Directory(c, e)] :
                                  e \in {f \in c.targets : f.state # None}}
    /\ proc' = [proc EXCEPT ![p].pc = "registered", ![p].todo = StateDirectories(c)]
    /\ UNCHANGED <<lock, socket, host, policy, runs, starts, edits, crashes>>

\* RegisterEnrolledTargetAuthorities: all of them in one transaction, or none.
RegisterTargets(p) ==
    LET c == proc[p].config IN
    /\ At(p, "resolved")
    /\ \/ (\E e \in c.targets : Conflicts(c, e)) /\ Exits(p, {}) /\ UNCHANGED store
       \/ (\E e \in c.targets : ~Conflicts(c, e) /\ Unowned(c, e, proc[p].todo)) /\ Exits(p, StateDirectories(c)) /\ UNCHANGED store
       \/ /\ \A e \in c.targets : ~Conflicts(c, e) /\ ~Unowned(c, e, proc[p].todo)
          /\ pins' = pins \cup {[key |-> Key(e), pin |-> Fingerprint(c, e)] : e \in c.targets}
          /\ owners' = owners \cup {[key |-> Key(e), state |-> e.state, directory |-> Directory(c, e)] :
                                        e \in {f \in c.targets : f.state # None}}
          /\ proc' = [proc EXCEPT ![p].pc = "registered", ![p].todo = StateDirectories(c)]
          /\ UNCHANGED <<lock, socket>>
    /\ UNCHANGED <<host, policy, runs, starts, edits, crashes>>

\* prepareRunnerStateFilesystem: one directory after the other.
MakeDirectory(p, d) ==
    /\ At(p, "registered") /\ d \in proc[p].todo
    /\ dirs' = dirs \cup {d}
    /\ proc' = [proc EXCEPT ![p].todo = @ \ {d}]
    /\ UNCHANGED <<lock, socket, store, byHand, policy, runs, starts, edits, crashes>>

\* A Run whose container may exist without being known by a reference, or that is to be ended without a
\* container, is looked up by the manifest of its revision.
NeedsManifest(r) == rows[r] = "intent" \/ (rows[r] = "accepted" /\ r \in late)

\* controller.New reconciles what the last process left: every Run is tried, and one that cannot be
\* resolved any more keeps sandboxd from serving.
Reconcile(p) ==
    LET stuck == {r \in Runs : NeedsManifest(r) /\ Resolve(proc[p].config, core[r].key) = {}} IN
    /\ At(p, "registered") /\ proc[p].todo = {}
    /\ rows' = [r \in Runs |-> IF rows[r] = "bound" \/ (NeedsManifest(r) /\ r \notin stuck) THEN "ended" ELSE rows[r]]
    /\ IF stuck = {} THEN proc' = [proc EXCEPT ![p].pc = "serving"] /\ UNCHANGED <<lock, socket>>
       ELSE Exits(p, {})
    /\ UNCHANGED <<store, host, policy, core, late, executed, starts, edits, crashes>>

-----------------------------------------------------------------------------
(* The end of a process, the operator, and the clock.                      *)

\* serve is told to stop: it fences new Starts and unlinks the socket while Runs are still going.
BeginClose(p) ==
    /\ At(p, "serving")
    /\ proc' = [proc EXCEPT ![p].pc = "closing"] /\ socket' = "none"
    /\ UNCHANGED <<lock, store, host, policy, runs, starts, edits, crashes>>

\* Controller.Close returned, or gave up waiting; the deferred calls follow and the lock goes last.
Close(p) ==
    /\ At(p, "closing")
    /\ proc' = [proc EXCEPT ![p] = Off]
    /\ lock' = IF lock = p THEN NoProc ELSE lock
    /\ UNCHANGED <<socket, store, host, policy, runs, starts, edits, crashes>>

\* The process dies: the kernel frees its lock, and its socket file stays.
Crash(p) ==
    /\ ~At(p, "off") /\ crashes < MaxCrashes /\ crashes' = crashes + 1
    /\ proc' = [proc EXCEPT ![p] = Off]
    /\ lock' = IF lock = p THEN NoProc ELSE lock
    /\ socket' = IF proc[p].pc \in {"loaded", "locked", "closing"} THEN socket ELSE "stale"
    /\ UNCHANGED <<store, host, policy, runs, starts, edits>>

\* The operator makes or removes a directory under the runner-state root.
Operator ==
    /\ edits < MaxEdits /\ edits' = edits + 1
    /\ \E d \in Directories :
          \/ d \notin dirs /\ dirs' = dirs \cup {d} /\ byHand' = byHand \cup {d}
          \/ d \in dirs /\ dirs' = dirs \ {d} /\ UNCHANGED byHand
    /\ UNCHANGED <<proc, lock, socket, store, policy, runs, starts, crashes>>

\* agentd is restarted with another policy.
RestartAgentd ==
    /\ edits < MaxEdits /\ edits' = edits + 1
    /\ policy' \in Compiled \ {policy}
    /\ UNCHANGED <<proc, lock, socket, store, host, runs, starts, crashes>>

\* The deadline agentd froze for a Run passes.
Expire(r) ==
    /\ core[r].state = "queued" /\ r \notin late /\ Cardinality(late) < MaxLate
    /\ late' = late \cup {r}
    /\ UNCHANGED <<proc, lock, socket, store, host, policy, core, rows, executed, starts, edits, crashes>>

-----------------------------------------------------------------------------
(* Runs.                                                                   *)

\* Endpoint.Authorize: the Connector's own events and those without an exact binding are refused.
Authorized(actor, conversation) == actor # Self /\ <<actor, conversation>> \in DOMAIN policy

\* Ingest an event: the decision is frozen in the Run.
Ingest(r, actor, conversation) ==
    /\ core[r] = NoRun /\ Authorized(actor, conversation)
    /\ core' = [core EXCEPT ![r] = [actor |-> actor, conversation |-> conversation, decided |-> policy,
                                    key |-> policy[<<actor, conversation>>], state |-> "queued"]]
    /\ UNCHANGED <<proc, lock, socket, store, host, policy, rows, late, executed, starts, edits, crashes>>

\* advanceDispatching against the serving process.  A Start that is refused ends the Run only when
\* sandboxd has no row of it; a row that is accepted takes the request into memory again.
Dispatch(p, r) ==
    /\ At(p, "serving") /\ core[r].state = "queued"
    /\ \/ /\ rows[r] \in {"none", "accepted"} /\ r \notin late /\ Resolve(proc[p].config, core[r].key) # {}
          /\ rows' = [rows EXCEPT ![r] = "accepted"]
          /\ proc' = [proc EXCEPT ![p].offers = @ \cup {r}]
          /\ UNCHANGED core
       \/ /\ rows[r] = "none" /\ (r \in late \/ Resolve(proc[p].config, core[r].key) = {})
          /\ core' = [core EXCEPT ![r].state = "failed"]
          /\ UNCHANGED <<rows, proc>>
       \/ /\ rows[r] = "ended"
          /\ core' = [core EXCEPT ![r].state = "ended"]
          /\ UNCHANGED <<rows, proc>>
    /\ UNCHANGED <<lock, socket, store, host, policy, late, executed, starts, edits, crashes>>

\* The worker: execute resolves the request again, and creates the container with what it resolved.
Execute(p, r) ==
    /\ proc[p].pc \in {"serving", "closing"} /\ r \in proc[p].offers
    /\ rows[r] = "accepted" /\ r \notin late
    /\ \E e \in Resolve(proc[p].config, core[r].key) :
          executed' = executed \cup {[run |-> r, key |-> Key(e), pin |-> Fingerprint(proc[p].config, e)]}
    /\ rows' = [rows EXCEPT ![r] = "intent"]
    /\ UNCHANGED <<proc, lock, socket, store, host, policy, core, late, starts, edits, crashes>>

\* SetRuntimeRef after Create, and the end of the Run.  The row of an expired Run that never ran is
\* ended by the worker or by reconcileLoop, which needs its manifest.
Advance(p, r) ==
    /\ proc[p].pc \in {"serving", "closing"}
    /\ \/ rows[r] = "intent" /\ r \in proc[p].offers /\ rows' = [rows EXCEPT ![r] = "bound"]
       \/ rows[r] = "bound" /\ r \in proc[p].offers /\ rows' = [rows EXCEPT ![r] = "ended"]
       \/ /\ rows[r] = "accepted" /\ r \in late /\ Resolve(proc[p].config, core[r].key) # {}
          /\ rows' = [rows EXCEPT ![r] = "ended"]
    /\ UNCHANGED <<proc, lock, socket, store, host, policy, core, late, executed, starts, edits, crashes>>

-----------------------------------------------------------------------------

Next ==
    \/ \E p \in Procs :
          \/ \E c \in Configs : Load(p, c)
          \/ AcquireLock(p) \/ AcquireSocket(p) \/ ResolveAuthority(p) \/ RegisterTargets(p)
          \/ \E d \in Directories : MakeDirectory(p, d)
          \/ Reconcile(p) \/ BeginClose(p) \/ Close(p) \/ Crash(p)
          \/ \E r \in Runs : Dispatch(p, r) \/ Execute(p, r) \/ Advance(p, r)
    \/ Operator \/ RestartAgentd
    \/ \E r \in Runs : Expire(r) \/ \E a \in Actors, v \in Conversations : Ingest(r, a, v)

Spec == Init /\ [][Next]_vars

-----------------------------------------------------------------------------
(* Properties.                                                             *)

\* Every container was created with the target revision that the policy in force when the event was
\* admitted gave to its actor and conversation, whatever agentd's policy and sandboxd's configuration
\* have become since (agentpolicy Authorize, targetregistry Resolve, execute).
ExecutesTheGrant ==
    \A x \in executed :
        LET run == core[x.run] IN
        /\ run.actor # Self
        /\ x.key = run.decided[<<run.actor, run.conversation>>]

\* A target revision means one thing for ever: the manifest, the paths and the runner state with which
\* its Runs were executed never differ, over all starts and configurations (registerTargetAuthority).
RevisionMeansOneThing == \A x, y \in executed : x.key = y.key => x.pin = y.pin

\* A runner-state directory, once a Run has used it, is never given to a Run of another target or
\* revision, even after its owner left the configuration and the directory was removed and made again
\* (the conflict query of registerTargetAuthority).
OneRevisionPerDirectory ==
    \A x, y \in executed : x.pin.directory = y.pin.directory /\ x.pin.directory # None => x.key = y.key

\* Only a process that holds the lock file has the store open or executes Runs, also while it is
\* stopping and its socket is gone, and nobody else's socket is being listened on (serve).
OneAuthority ==
    /\ \A p \in Procs : proc[p].pc \notin {"off", "loaded"} => lock = p
    /\ socket = "live" => \E p \in Procs : lock = p

\* sandboxd refuses a directory as of unknown origin only when an operator made one by hand: a death at
\* any step of an earlier start leaves no directory without an owner (prepareRunnerStateFilesystem runs
\* after the registration has been committed).
RefusesOnlyHandMade ==
    \A p \in Procs : proc[p].refused # {} => proc[p].refused \cap byHand # {}

=============================================================================
