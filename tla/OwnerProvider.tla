---------------------------- MODULE OwnerProvider ----------------------------
(***************************************************************************)
(* The provider of one Codex Run whose credential never enters the         *)
(* container.  The program inside reaches a local endpoint with a throwaway *)
(* local token; the endpoint sends its requests on with the owner's token,  *)
(* and when the service answers 401 the owner's token is refreshed once, by *)
(* a native process that gets at the token service through a relay.         *)
(*                                                                         *)
(* A refresh consumes the token that is in the enrolled file: from then on  *)
(* the file is worthless unless the new token is written to it, and every   *)
(* step between can be cancelled, time out, fail or be cut short by the     *)
(* cleanup of the Run.                                                     *)
(***************************************************************************)
EXTENDS Naturals, FiniteSets

CONSTANTS
    MaxConnections, MaxConcurrent,   \* connections an endpoint accepts in its life, and at a time
    Operations,                      \* what the program asks the service for: catalog, inference
    NativeCalls,                     \* requests a native process makes to its relay
    MaxFaults                        \* bound: calls that fail or time out, and the Run's own cancellation

ASSUME ProviderAssumption ==
    /\ MaxConnections \in Nat \ {0} /\ MaxConcurrent \in 1..MaxConnections
    /\ Operations \subseteq {"catalog", "inference"} /\ NativeCalls \in Nat \ {0} /\ MaxFaults \in Nat

Conns == 1..MaxConcurrent
Calls == 1..NativeCalls

\* The owner's tokens are numbered as the token service hands them out.  A Run refreshes at most once
\* for each of its two native invocations; the third number is there to be found out.
Tokens == 0..3
Torn == 9     \* a file that was written in part, or by nobody's rules
None == 8

VARIABLES
    run,         \* where the worker is with the Run
    cancelled,   \* its context is done: cancelled, past its deadline, or the daemon closing
    file,        \* the enrolled credential file, held by the controller
    invalid,     \* HeldSource.invalid
    access,      \* the OwnerAccess borrowed from it
    account,     \* external: the token the token service will take next
    wire,        \* external: the refresh request on its way to it
    provider,    \* isolatedProvider
    endpoint,    \* Endpoint
    conn,        \* its connections
    owner,       \* ownerNativeConsumer
    invocation,  \* ownerNativeInvocation, and where resolve is with it
    relay,       \* ownerRefresh
    native,      \* the native process and the file in its home
    service,     \* OwnerService: the borrows of the pinned executables
    retired,     \* the generation is revoked in the store
    fenced,      \* history: the versions of the owner's token that a verified 401 has ended
    faults

upstream == <<account, wire>>
held == <<file, invalid, access>>
vars == <<run, cancelled, held, upstream, provider, endpoint, conn, owner, invocation, relay, native, service, retired, fenced, faults>>

Fault == faults < MaxFaults /\ faults' = faults + 1
NoFault == UNCHANGED faults

NoConn == [pc |-> "none", op |-> "none", token |-> 0, auth |-> None, version |-> 0]
NoRelay == [closed |-> TRUE, attempt |-> FALSE, rejected |-> FALSE, receipt |-> None, calls |-> [q \in Calls |-> "none"]]
NewProvider ==
    [state |-> "new", closed |-> FALSE, local |-> 0, used |-> FALSE, auth |-> None, version |-> 0, recovered |-> FALSE]
NewEndpoint ==
    [opened |-> FALSE, closed |-> FALSE, done |-> FALSE, failed |-> FALSE, accepted |-> 0,
     counts |-> [refresh |-> 0, catalog |-> 0], rejected |-> {}]
NoNative == [at |-> "none", clean |-> TRUE, auth |-> None]
NoInvocation == [pc |-> "idle", by |-> 0, force |-> FALSE, before |-> None, ok |-> FALSE, auth |-> None, expired |-> FALSE]

Init ==
    /\ run = "create" /\ cancelled = FALSE
    /\ file = 0 /\ invalid = FALSE /\ access = "borrowed"
    /\ account = 0 /\ wire = "none"
    /\ provider = NewProvider /\ endpoint = NewEndpoint
    /\ conn = [c \in Conns |-> NoConn]
    /\ owner = [closed |-> FALSE, failed |-> FALSE, active |-> FALSE]
    /\ invocation = NoInvocation /\ relay = NoRelay
    /\ native = NoNative
    /\ service = [borrowed |-> FALSE, closed |-> FALSE]
    /\ retired = FALSE /\ fenced = {} /\ faults = 0

-----------------------------------------------------------------------------
(* Contexts.  A connection's ends with the endpoint, the endpoint's with    *)
(* the provider, the provider's with the Run.                              *)

ProviderDead == cancelled \/ provider.closed
EndpointDead == ProviderDead \/ endpoint.closed

InvocationDead ==
    \/ ProviderDead \/ owner.closed \/ invocation.expired
    \/ invocation.by # 0 /\ endpoint.closed

\* The endpoint stops itself when the context it was made with is done.
Cancel ==
    /\ ~cancelled /\ run # "done" /\ cancelled' = TRUE /\ Fault
    /\ endpoint' = [endpoint EXCEPT !.closed = @ \/ run # "create"]
    /\ UNCHANGED <<run, held, upstream, provider, conn, owner, invocation, relay, native, service, retired, fenced>>

\* The invocation's own limit, or the idle limit of the connection it works for.
Expire ==
    /\ invocation.pc \notin {"idle", "returned"} /\ ~invocation.expired /\ Fault
    /\ invocation' = [invocation EXCEPT !.expired = TRUE]
    /\ UNCHANGED <<run, cancelled, held, upstream, provider, endpoint, conn, owner, relay, native, service, retired, fenced>>

-----------------------------------------------------------------------------
(* The native invocation: resolve and invoke.                              *)

\* resolve is called for the Run itself (by = 0) or for a connection.
StartResolve(by, force) ==
    IF owner.closed \/ owner.failed \/ owner.active
      THEN invocation' = [NoInvocation EXCEPT !.pc = "returned", !.by = by] /\ UNCHANGED owner
      ELSE invocation' = [NoInvocation EXCEPT !.pc = "read", !.by = by, !.force = force] /\ owner' = [owner EXCEPT !.active = TRUE]

InvAt(pc) == invocation.pc = pc
InvGoto(pc) == invocation' = [invocation EXCEPT !.pc = pc]

\* OwnerAccess.Read gives the file of a source that is valid and borrowed; it parses if it is whole.
Readable == ~invalid /\ access # "closed"
Whole(content) == content \in Tokens

\* A process with the pinned executables, and the copy of the file in its home.
Started == [at |-> "up", clean |-> TRUE, auth |-> file]

\* The file is read; then a fresh home with a copy of it, the relay, and the process
\* are made.
Launch ==
    LET good == Readable /\ Whole(file)
    IN  /\ InvAt("read")
        /\ \/ good /\ Fault /\ InvGoto("fail") /\ invalid' = TRUE /\ UNCHANGED <<relay, native>>
           \/ (~good \/ InvocationDead) /\ NoFault /\ InvGoto("fail") /\ UNCHANGED <<invalid, relay, native>>
           \/ /\ good /\ ~InvocationDead /\ relay' = [NoRelay EXCEPT !.closed = FALSE] /\ native' = Started /\ UNCHANGED invalid
              /\ \/ NoFault /\ invocation' = [invocation EXCEPT !.pc = "account", !.before = file]
                 \/ Fault /\ InvGoto("fail")
        /\ UNCHANGED <<run, cancelled, file, access, upstream, provider, endpoint, conn, owner, service, retired, fenced>>

\* The account exchange over its standard streams.
Account ==
    /\ InvAt("account")
    /\ \/ native.at = "up" /\ NoFault /\ InvGoto("finish")
       \/ (InvocationDead \/ native.at = "gone") /\ NoFault /\ InvGoto("fail")
       \/ Fault /\ InvGoto("fail")
    /\ UNCHANGED <<run, cancelled, held, upstream, provider, endpoint, conn, owner, relay, native, service, retired, fenced>>

\* finish closes its input and waits for it, unless the context ends or the grace is over; then the relay is closed.
Finish ==
    /\ InvAt("finish")
    /\ \/ native.at = "gone" /\ NoFault /\ InvGoto("join") /\ relay' = [relay EXCEPT !.closed = TRUE] /\ UNCHANGED native
       \/ native.at = "up" /\ ((InvocationDead /\ NoFault) \/ Fault)
          /\ native' = [native EXCEPT !.at = "gone", !.clean = FALSE] /\ UNCHANGED <<invocation, relay>>
    /\ UNCHANGED <<run, cancelled, held, upstream, provider, endpoint, conn, owner, service, retired, fenced>>

Joined == \A q \in Calls : relay.calls[q] \in {"none", "ended"}

\* Mutant: a refresh that brought no receipt is taken for none.
CandidateUnlessRotated ==
    IF relay.attempt /\ relay.receipt # None
      THEN native.auth = relay.receipt
      ELSE ~invocation.force /\ native.auth = invocation.before

\* What the process left in its home.
HomeFile == native.auth
CleanExit == native.clean

\* candidate: without an attempt the very bytes that were read; after one the tokens of its receipt.
Candidate ==
    /\ ~relay.rejected /\ (relay.attempt => relay.receipt # None)
    /\ IF relay.attempt THEN HomeFile = relay.receipt ELSE ~invocation.force /\ HomeFile = invocation.before

\* With the relay joined the exit, the context and the file in the home decide.
JoinRelay ==
    /\ InvAt("join")
    /\ \/ Joined /\ NoFault /\ InvGoto(IF CleanExit /\ ~InvocationDead /\ Candidate THEN "commit" ELSE "fail")
       \/ ~Joined /\ Fault /\ InvGoto("fail")
    /\ UNCHANGED <<run, cancelled, held, upstream, provider, endpoint, conn, owner, relay, native, service, retired, fenced>>

\* OwnerAccess.Commit under the consumer's lock: compared with what was read, written over, synced
\* and read back.  What fails leaves the file in some state, and invalid.
Commit ==
    LET good == ~owner.closed /\ ~InvocationDead /\ Readable
    IN  /\ InvAt("commit")
        /\ \/ good /\ file = invocation.before /\ NoFault
              /\ file' = native.auth /\ UNCHANGED invalid /\ invocation' = [invocation EXCEPT !.pc = "stopping", !.ok = TRUE, !.auth = native.auth]
           \/ good /\ Fault /\ InvGoto("fail") /\ invalid' = TRUE /\ file' \in {file, Torn, native.auth}
           \/ ~good /\ NoFault /\ InvGoto("fail") /\ UNCHANGED <<file, invalid>>
        /\ UNCHANGED <<run, cancelled, access, upstream, provider, endpoint, conn, owner, relay, native, service, retired, fenced>>

\* The credential is given up before the cleanup; its stop closes the relay first.
Fail ==
    /\ InvAt("fail") /\ InvGoto("stopping") /\ invalid' = TRUE /\ owner' = [owner EXCEPT !.failed = TRUE]
    /\ relay' = [relay EXCEPT !.closed = TRUE]
    /\ UNCHANGED <<run, cancelled, file, access, upstream, provider, endpoint, conn, native, service, retired, fenced, faults>>

Killed == [native EXCEPT !.at = IF @ = "up" THEN "gone" ELSE @]

\* Everything of an invocation is stopped, and it is forgotten.
Forget == relay' = NoRelay /\ native' = NoNative /\ owner' = [owner EXCEPT !.active = FALSE]

\* The invocation's stop: the relay is joined, the process killed, the home removed.  It may return
\* before the owner is closed, if after the endpoint.  One that does not finish keeps the invocation
\* for close, and the credential is given up.
StopInvocation ==
    /\ InvAt("stopping")
    /\ \/ Joined /\ NoFault /\ Forget /\ UNCHANGED invalid
          /\ \E overtaken \in {FALSE, owner.closed} : invocation' = [invocation EXCEPT !.pc = "returned", !.ok = @ /\ ~overtaken]
       \/ Fault /\ native' \in {native, Killed} /\ owner' = [owner EXCEPT !.failed = TRUE] /\ invalid' = TRUE
          /\ invocation' = [invocation EXCEPT !.pc = "returned", !.ok = FALSE] /\ UNCHANGED relay
    /\ UNCHANGED <<run, cancelled, file, access, upstream, provider, endpoint, conn, service, retired, fenced>>

Invokes == Launch \/ Account \/ Finish \/ JoinRelay \/ Commit \/ Fail \/ StopInvocation

-----------------------------------------------------------------------------
(* The native process and its relay.                                       *)

Denies(q) == relay' = [relay EXCEPT !.calls[q] = "ended", !.rejected = TRUE]

Asks(q) == native.at = "up" /\ ~relay.closed /\ relay.calls[q] = "none" /\ \A other \in 1..(q - 1) : relay.calls[other] # "none"

\* ServeHTTP: a request of the wrong form, a second one, or one that close overtakes is denied, and
\* with it the candidate; the attempt is latched before it is sent.
CallRelay(q) ==
    /\ Asks(q)
    /\ \/ Denies(q) /\ UNCHANGED wire
       \/ ~relay.attempt /\ ~relay.rejected /\ wire' = "sent"
          /\ relay' = [relay EXCEPT !.calls[q] = "sent", !.attempt = TRUE]
    /\ UNCHANGED <<run, cancelled, held, account, provider, endpoint, conn, owner, invocation, native, service, retired, fenced, faults>>

\* The token service takes the request, or refuses it, whether or not somebody still waits.
TakeRefresh ==
    /\ wire = "sent"
    /\ \/ account < 3 /\ account' = account + 1 /\ wire' = "granted"
       \/ UNCHANGED account /\ wire' = "refused"
    /\ UNCHANGED <<run, cancelled, held, provider, endpoint, conn, owner, invocation, relay, native, service, retired, fenced, faults>>

\* What a complete answer of the token service says.
Receipt == account

\* A complete answer is a receipt, and is written to the process, which puts it in its home, well or
\* not; everything else is denied.
Receive(q) ==
    /\ relay.calls[q] = "sent"
    /\ \/ /\ wire = "granted" /\ wire' = "none"
          /\ \E written \in BOOLEAN, kept \in IF native.at = "up" THEN {native.auth, Receipt} ELSE {native.auth} :
                /\ IF written \/ native.at = "gone" THEN NoFault ELSE Fault
                /\ relay' = [relay EXCEPT !.calls[q] = "ended", !.receipt = Receipt, !.rejected = @ \/ ~written]
                /\ native' = [native EXCEPT !.auth = kept]
       \/ wire = "refused" /\ NoFault /\ wire' = "none" /\ Denies(q) /\ UNCHANGED native
       \/ (InvocationDead \/ relay.closed) /\ NoFault /\ UNCHANGED <<wire, native>> /\ Denies(q)
       \/ Fault /\ UNCHANGED <<wire, native>> /\ Denies(q)
    /\ UNCHANGED <<run, cancelled, held, account, provider, endpoint, conn, owner, invocation, service, retired, fenced>>

\* It ends by itself: well, badly, or leaving something else in its home.
Exit ==
    /\ native.at = "up"
    /\ \/ NoFault /\ native' = [native EXCEPT !.at = "gone"]
       \/ Fault /\ native' = [native EXCEPT !.at = "gone", !.clean = FALSE]
       \/ Fault /\ native' = [native EXCEPT !.at = "gone", !.auth = Torn]
    /\ UNCHANGED <<run, cancelled, held, upstream, provider, endpoint, conn, owner, invocation, relay, service, retired, fenced>>

Serves == \E q \in Calls : Receive(q)

-----------------------------------------------------------------------------
(* Connections of the program inside the container.                        *)

ConnAt(c, pc) == conn[c].pc = pc
ConnGoto(c, pc) == conn' = [conn EXCEPT ![c] = IF pc \in {"closing", "none"} THEN [NoConn EXCEPT !.pc = pc] ELSE [@ EXCEPT !.pc = pc]]
Active == {c \in Conns : conn[c].pc # "none"}

\* serve: a connection that cannot be served is closed, and counts.  (The inert bootstrap makes none.)
Accept ==
    /\ run = "running" /\ ~endpoint.closed /\ endpoint.accepted < MaxConnections
    /\ endpoint' = [endpoint EXCEPT !.accepted = @ + 1]
    /\ IF endpoint.opened /\ Active # Conns
         THEN ConnGoto(CHOOSE c \in Conns \ Active : \A d \in Conns \ Active : c <= d, "reading")
         ELSE UNCHANGED conn
    /\ UNCHANGED <<run, cancelled, held, upstream, provider, owner, invocation, relay, native, service, retired, fenced, faults>>

\* Mutant: a listener that is closed from outside is not noticed.
ServeExhausted ==
    /\ endpoint.accepted = MaxConnections
    /\ Active = {} /\ ~endpoint.done /\ run # "create"
    /\ endpoint' = [endpoint EXCEPT !.closed = TRUE, !.done = TRUE]
    /\ UNCHANGED <<run, cancelled, held, upstream, provider, conn, owner, invocation, relay, native, service, retired, fenced, faults>>

\* Every connection was closed, or the last one ended after the listener was.
ServeEnds ==
    /\ endpoint.closed \/ endpoint.accepted = MaxConnections
    /\ Active = {} /\ ~endpoint.done /\ run # "create"
    /\ endpoint' = [endpoint EXCEPT !.closed = TRUE, !.done = TRUE]
    /\ UNCHANGED <<run, cancelled, held, upstream, provider, conn, owner, invocation, relay, native, service, retired, fenced, faults>>

\* The operations with a budget of their own; inference has that of the connections.
Bound == [refresh |-> 1, catalog |-> 2]
Within(op) == op \in DOMAIN Bound => endpoint.counts[op] < Bound[op]

\* A request that is not read in time, or that the policy does not project on an operation.
Refuse(c) ==
    /\ ConnAt(c, "reading") /\ ConnGoto(c, "closing")
    /\ UNCHANGED <<run, cancelled, held, upstream, provider, endpoint, owner, invocation, relay, native, service, retired, fenced, faults>>

\* What the budget admits is counted, whatever becomes of it, and authorized unless its operation
\* was rejected.
Admitted(op) == endpoint.opened /\ ~EndpointDead /\ Within(op) /\ op \notin endpoint.rejected
Counted(op) ==
    IF endpoint.opened /\ ~EndpointDead /\ Within(op) /\ op \in DOMAIN Bound THEN [endpoint EXCEPT !.counts[op] = @ + 1] ELSE endpoint

\* The local tokens are numbered as they are given out; a request carries the last one, which may be
\* replaced before it is looked at, or another, which is never right again.
Presented == {provider.local, None}

\* exchange: the operation is counted and authorized, though a refresh may wait for a recovery and
\* a request be overtaken by one.  (The two locks are taken one after the other; no step of another
\* goroutine between them makes a difference.)
Admit(c, op) ==
    /\ ConnAt(c, "reading") /\ endpoint' = Counted(op)
    /\ \E token \in Presented :
          conn' = [conn EXCEPT ![c] =
              IF Admitted(op) THEN [NoConn EXCEPT !.pc = IF op = "refresh" THEN "refreshing" ELSE "admitted", !.op = op, !.token = token]
                              ELSE [NoConn EXCEPT !.pc = "closing"]]
    /\ UNCHANGED <<run, cancelled, held, upstream, provider, owner, invocation, relay, native, service, retired, fenced, faults>>

\* Mutant: a request is authorized while the recovery it waits for is not yet acknowledged.
AuthorizeUnacknowledged(c) ==
    LET authorized == ~EndpointDead /\ provider.state \in {"ready", "recovering", "await"} /\ conn[c].token = provider.local
    IN  /\ ConnAt(c, "admitted")
        /\ conn' = [conn EXCEPT ![c] =
               IF authorized THEN [@ EXCEPT !.pc = "authorized", !.token = 0, !.auth = provider.auth, !.version = provider.version]
                             ELSE [NoConn EXCEPT !.pc = "closing"]]
        /\ UNCHANGED <<run, cancelled, held, upstream, provider, endpoint, owner, invocation, relay, native, service, retired, fenced, faults>>

\* respond takes the owner's token with its version under the provider's lock, which is not held for
\* the call: other connections go on until the token is sent, and while it is used.
Authorize(c) ==
    LET authorized == ~EndpointDead /\ provider.state = "ready" /\ conn[c].token = provider.local
    IN  /\ ConnAt(c, "admitted")
        /\ conn' = [conn EXCEPT ![c] =
               IF authorized THEN [@ EXCEPT !.pc = "authorized", !.token = 0, !.auth = provider.auth, !.version = provider.version]
                             ELSE [NoConn EXCEPT !.pc = "closing"]]
        /\ UNCHANGED <<run, cancelled, held, upstream, provider, endpoint, owner, invocation, relay, native, service, retired, fenced, faults>>

\* The request goes out with the token that was taken, unless the call is cancelled first.
Send(c) ==
    /\ ConnAt(c, "authorized") /\ ConnGoto(c, IF EndpointDead THEN "closing" ELSE "sent")
    /\ UNCHANGED <<run, cancelled, held, upstream, provider, endpoint, owner, invocation, relay, native, service, retired, fenced, faults>>

\* External: the service answers, or the call fails.  An answer that is not what such a request
\* gets rejects the operation, for all that is not yet authorized.
Answer(c) ==
    /\ ConnAt(c, "sent") /\ ConnGoto(c, "closing")
    /\ endpoint' \in {endpoint, [endpoint EXCEPT !.rejected = @ \cup {conn[c].op}]}
    /\ UNCHANGED <<run, cancelled, held, upstream, provider, owner, invocation, relay, native, service, retired, fenced, faults>>

Blocked == [provider EXCEPT !.state = "blocked", !.auth = None]

\* The service answers with a complete 401.  recoverOwner: one to a replaced token, or one that comes
\* while recovery is under way, asks for nothing.  The one recovery of a Run needs the local refresh
\* still to come.
Recover(c) ==
    LET late == EndpointDead \/ conn[c].version # provider.version \/ provider.state # "ready"
        spent == provider.recovered \/ provider.used \/ endpoint.counts["refresh"] # 0
    IN  /\ ConnAt(c, "sent")
        /\ \/ late /\ ConnGoto(c, "closing") /\ UNCHANGED <<provider, owner, invocation, invalid, fenced>>
           \/ ~late /\ spent /\ ConnGoto(c, "closing") /\ provider' = Blocked /\ fenced' = fenced \cup {provider.version}
              /\ invalid' = (invalid \/ provider.recovered) /\ owner' = [owner EXCEPT !.failed = @ \/ provider.recovered]
              /\ UNCHANGED invocation
           \/ ~late /\ ~spent /\ ConnGoto(c, "recovering") /\ fenced' = fenced \cup {provider.version}
              /\ provider' = [provider EXCEPT !.state = "recovering", !.recovered = TRUE]
              /\ StartResolve(c, TRUE) /\ UNCHANGED invalid
        /\ UNCHANGED <<run, cancelled, file, access, upstream, endpoint, relay, native, service, retired, faults>>

\* The recovered token waits for the program to fetch its new local one.
Recovered(c) ==
    LET good == invocation.ok   \* a forced one that succeeded has refreshed
    IN  /\ ConnAt(c, "recovering") /\ InvAt("returned")
        /\ ConnGoto(c, "closing") /\ invocation' = NoInvocation
        /\ invalid' = (invalid \/ ~good) /\ owner' = [owner EXCEPT !.failed = @ \/ ~good]
        /\ provider' = IF ~good \/ EndpointDead THEN Blocked
                       ELSE [provider EXCEPT !.state = "await", !.auth = invocation.auth, !.version = @ + 1]
        /\ UNCHANGED <<run, cancelled, file, access, upstream, endpoint, relay, native, service, retired, fenced, faults>>

\* refreshLocal: the one rotation of the local token waits out a recovery.
RefreshLocal(c) ==
    LET refused == EndpointDead \/ provider.state = "blocked" \/ provider.used \/ conn[c].token # provider.local
    IN  /\ ConnAt(c, "refreshing") /\ (refused \/ provider.state # "recovering") /\ ConnGoto(c, "closing")
        /\ \/ refused /\ NoFault /\ UNCHANGED provider
           \/ ~refused /\ NoFault /\ provider' = [provider EXCEPT !.local = @ + 1, !.used = TRUE, !.state = "ready"]
           \/ ~refused /\ Fault /\ provider' = Blocked
        /\ UNCHANGED <<run, cancelled, held, upstream, endpoint, owner, invocation, relay, native, service, retired, fenced>>

\* The answer is written, its body closed; a body that will not close is never forgotten.
CloseConn(c) ==
    /\ ConnAt(c, "closing") /\ ConnGoto(c, "none")
    /\ \/ NoFault /\ UNCHANGED endpoint
       \/ Fault /\ endpoint' = [endpoint EXCEPT !.failed = TRUE]
    /\ UNCHANGED <<run, cancelled, held, upstream, provider, owner, invocation, relay, native, service, retired, fenced>>

Exchanges == \E c \in Conns :
    \/ Refuse(c) \/ (\E op \in Operations \cup {"refresh"} : Admit(c, op)) \/ Authorize(c) \/ Send(c) \/ Answer(c)
    \/ Recover(c) \/ Recovered(c) \/ RefreshLocal(c) \/ CloseConn(c)

-----------------------------------------------------------------------------
(* The worker: the runtime creates the provider, opens it when the          *)
(* container's inert bootstrap has been verified, and closes it.           *)

RunGoto(pc) == run' = pc

\* The one use of the access, and the borrow of the executables.
Claim == access = "borrowed" /\ access' = "claimed"
Borrow == ~service.closed /\ service' = [service EXCEPT !.borrowed = TRUE]

\* prepareProviderOwner: claimed, constructed and registered; what fails here leaves no provider.
CreateProvider ==
    /\ run = "create" /\ Claim
    /\ \/ ~cancelled /\ NoFault /\ RunGoto("prepare") /\ Borrow
       \/ (cancelled \/ service.closed) /\ NoFault /\ RunGoto("credential") /\ UNCHANGED service
       \/ Fault /\ RunGoto("credential") /\ UNCHANGED service
    /\ UNCHANGED <<cancelled, file, invalid, upstream, provider, endpoint, conn, owner, invocation, relay, native, retired, fenced>>

\* isolatedRun.Prepare seeds the local token, then the owner's is read and brought up to date.
Prepare ==
    /\ run = "prepare"
    /\ \/ ~ProviderDead /\ NoFault /\ RunGoto("resolving") /\ StartResolve(0, FALSE) /\ provider' = [provider EXCEPT !.state = "opening"]
       \/ ProviderDead /\ NoFault /\ RunGoto("stop") /\ UNCHANGED <<provider, owner, invocation>>
       \/ Fault /\ RunGoto("stop") /\ UNCHANGED <<provider, owner, invocation>>
    /\ UNCHANGED <<cancelled, held, upstream, endpoint, conn, relay, native, service, retired, fenced>>

Prepared ==
    /\ run = "resolving" /\ InvAt("returned") /\ invocation' = NoInvocation
    /\ invalid' = (invalid \/ ~invocation.ok) /\ owner' = [owner EXCEPT !.failed = @ \/ ~invocation.ok]
    /\ IF invocation.ok /\ ~ProviderDead
         THEN RunGoto("release") /\ provider' = [provider EXCEPT !.state = "prepared", !.auth = invocation.auth]
         ELSE RunGoto("stop") /\ provider' = [provider EXCEPT !.state = "blocked"]
    /\ UNCHANGED <<cancelled, file, access, upstream, endpoint, conn, relay, native, service, retired, fenced, faults>>

ValidClaimed == access = "claimed" /\ ~invalid

\* The container is created with the endpoint mounted; its bootstrap is verified (the source still
\* valid, the mounts, the seed), and the endpoint opened before the bootstrap is let go.
Release ==
    LET good == ValidClaimed /\ ~EndpointDead /\ provider.state = "prepared"
    IN  /\ run = "release"
        /\ \/ good /\ NoFault /\ RunGoto("running")
              /\ provider' = [provider EXCEPT !.state = "ready"] /\ endpoint' = [endpoint EXCEPT !.opened = TRUE]
           \/ ~good /\ NoFault /\ RunGoto("stop") /\ UNCHANGED <<provider, endpoint>>
           \/ Fault /\ RunGoto("stop") /\ UNCHANGED <<provider, endpoint>>
        /\ UNCHANGED <<cancelled, held, upstream, conn, owner, invocation, relay, native, service, retired, fenced>>

\* The program ends or is stopped, or an earlier attempt has failed.  isolatedProvider.Close: closed and
\* cancelled, the endpoint stopped, the owner closed, then both joined.  What times out keeps
\* everything for the next attempt.
CloseProvider ==
    /\ run \in {"running", "stop"} /\ RunGoto("joining")
    /\ provider' = [provider EXCEPT !.closed = TRUE, !.auth = None]
    /\ endpoint' = [endpoint EXCEPT !.closed = TRUE] /\ owner' = [owner EXCEPT !.closed = TRUE]
    /\ UNCHANGED <<cancelled, held, upstream, conn, invocation, relay, native, service, retired, fenced, faults>>

\* The resolve under way has returned; what it could not clean up is stopped here.
JoinOwner ==
    /\ run = "joining" /\ invocation.pc \in {"idle", "returned"}
    /\ \/ Joined /\ NoFault /\ Forget /\ RunGoto("draining")
       \/ Fault /\ RunGoto("stop") /\ UNCHANGED <<owner, relay, native>>
    /\ UNCHANGED <<cancelled, held, upstream, provider, endpoint, conn, invocation, service, retired, fenced>>

InCall == {c \in Conns : conn[c].pc \in {"refreshing", "authorized", "sent", "recovering"}}

\* Mutant: what the endpoint has under way is not waited for, beyond the calls into the provider.
ReleaseUndrained ==
    /\ run = "draining"
    /\ \/ InCall = {} /\ ~endpoint.failed /\ NoFault /\ RunGoto("remove") /\ service' = [service EXCEPT !.borrowed = FALSE]
       \/ endpoint.failed /\ NoFault /\ RunGoto("stuck") /\ UNCHANGED service
       \/ Fault /\ RunGoto("stop") /\ UNCHANGED service
    /\ UNCHANGED <<cancelled, held, upstream, provider, endpoint, conn, owner, invocation, relay, native, retired, fenced>>

\* The endpoint has ended and every call into the provider returned.  A close error of the endpoint
\* is for good: the Run keeps its resources until the daemon is replaced.
ReleaseProvider ==
    /\ run = "draining"
    /\ \/ endpoint.done /\ InCall = {} /\ ~endpoint.failed /\ NoFault
          /\ RunGoto("remove") /\ service' = [service EXCEPT !.borrowed = FALSE]
       \/ endpoint.done /\ endpoint.failed /\ NoFault /\ RunGoto("stuck") /\ UNCHANGED service
       \/ Fault /\ RunGoto("stop") /\ UNCHANGED service
    /\ UNCHANGED <<cancelled, held, upstream, provider, endpoint, conn, owner, invocation, relay, native, retired, fenced>>

\* isolatedRun.Finalize closes the local files and the access to the owner's.
CloseAccess == access' = "closed"

\* CloseRunResources: the container is removed; only then the local files and the access to the owner's are closed.
Finalize ==
    /\ run = "remove"
    /\ \/ NoFault /\ RunGoto("credential") /\ CloseAccess
       \/ Fault /\ RunGoto("stop") /\ UNCHANGED access
       \/ Fault /\ RunGoto("stuck") /\ UNCHANGED access
    /\ UNCHANGED <<cancelled, file, invalid, upstream, provider, endpoint, conn, owner, invocation, relay, native, service, retired, fenced>>

\* closeCredential: a source that is not valid is retired before the Run lets go of it.
CloseCredential ==
    /\ run = "credential" /\ RunGoto("done") /\ access' = "closed" /\ retired' = invalid
    /\ UNCHANGED <<cancelled, file, invalid, upstream, provider, endpoint, conn, owner, invocation, relay, native, service, fenced, faults>>

\* The daemon ends, and gives the executables back if nobody has them.
CloseService ==
    /\ cancelled /\ ~service.closed /\ ~service.borrowed /\ service' = [service EXCEPT !.closed = TRUE]
    /\ UNCHANGED <<run, cancelled, held, upstream, provider, endpoint, conn, owner, invocation, relay, native, retired, fenced, faults>>

Works == \/ CreateProvider \/ Prepare \/ Prepared \/ Release
         \/ CloseProvider \/ JoinOwner \/ ReleaseProvider \/ Finalize \/ CloseCredential

Next == \/ Cancel \/ Expire \/ Invokes \/ Serves \/ (\E q \in Calls : CallRelay(q)) \/ TakeRefresh \/ Exit
        \/ Accept \/ ServeEnds \/ Exchanges \/ Works \/ CloseService

Spec == Init /\ [][Next]_vars

(***************************************************************************)
(* The goroutines go on: each call one of them waits for has a deadline, a  *)
(* program in the container that neither ends nor asks anything runs into   *)
(* the deadline of its Run, and a native process whose input is closed ends *)
(* or is killed.  Nobody has to connect, to cancel, or to take a refresh.  *)
(***************************************************************************)
Progress == Invokes \/ Serves \/ Exchanges \/ Works \/ ServeEnds \/ Exit
Fairness == WF_vars(Progress)

FairSpec == Spec /\ Fairness

-----------------------------------------------------------------------------
(* Properties                                                              *)

\* A credential whose token the service no longer takes is never left for the next Run: once no
\* native invocation is under way, the file that is not marked invalid holds the token the service
\* takes next, whole, and no request is on its way that would change that.  It can be broken by a
\* receipt that is lost, by a commit that is cut short, by cancellation and cleanup between them.
KeptTokenIsCurrent ==
    ~owner.active /\ ~invalid => file = account /\ wire # "sent"

\* What the comment in respond promises, with calls that were authorized earlier and finish late.
\* No call is authorized with a token that is being replaced or whose version a verified 401 has
\* ended: it is the one on file and the one the service takes.  And only a 401 to the token in force
\* ends it: one to a token that was replaced while its call was under way costs neither the one
\* recovery of the Run nor the credential.
FenceHolds ==
    [][\A c \in Conns :
          /\ conn[c].pc = "admitted" /\ conn'[c].pc = "authorized" =>
                provider.auth = account /\ file = account /\ conn'[c].version \notin fenced
          /\ conn[c].pc = "sent" /\ conn'[c].pc # "sent" /\ fenced' # fenced => conn[c].auth = provider.auth]_vars

\* When the provider is released, and with it the executables' last use, nothing of it is left: no
\* connection, no relay request, no native process, no invocation.  Close returns only then, however
\* it was reached and however often it was tried.
ReleasedMeansJoined ==
    run \in {"remove", "credential", "done"} \/ service.closed =>
        Active = {} /\ Joined /\ native.at # "up" /\ ~owner.active /\ invocation.pc \in {"idle", "returned"}

\* Cleanup ends: from the first attempt on, the credential is let go of, unless a close error that
\* the code keeps for good was met.
CleanupEnds == provider.closed ~> run \in {"done", "stuck"}

=============================================================================
