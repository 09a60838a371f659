------------------------------ MODULE CoreStore ------------------------------
(***************************************************************************)
(* The durable store of agentd ("Core"): internal/corestore.               *)
(*                                                                         *)
(* One SQLite database on one connection, every transaction opened with    *)
(* BEGIN IMMEDIATE, so a transaction is one atomic step of this module.    *)
(* What is not atomic is the caller: a worker holds a dispatch token while *)
(* its lease runs out, a connector completes a delivery whose lease has    *)
(* been given away, and all operations but IngestTextRun sample the clock  *)
(* BEFORE they wait for the writer, so they may run with an old `now`.     *)
(*                                                                         *)
(* Rows are functions of the Run id.  A Run has at most one delivery (the  *)
(* table's UNIQUE run_id; the id is derived from the Run's), so deliveries *)
(* are indexed by the Run as well.  A compacted Run keeps its `event` as   *)
(* history: ids are random and never drawn twice.                          *)
(*                                                                         *)
(* A lease token is random and fresh; here it is the attempt number it was *)
(* drawn for, which is as fresh, and NoToken is SQL NULL.                  *)
(*                                                                         *)
(* Left out: message text, output text, provider references and failure    *)
(* codes (compared only to tell a replay from a conflict, and both leave   *)
(* the database as it is), updated_at.                                     *)
(***************************************************************************)
EXTENDS Integers, FiniteSets

CONSTANTS
    Connectors,         \* endpoint-bound connectors
    Events,             \* normalized inbound events
    Scopes,             \* six-field session scopes
    Refs,               \* opaque session references
    NoRef,              \* no session reference (SQL NULL)
    NoEvent,            \* the event of an id that names no Run
    NoScope,            \* the scope of an id that names no Run
    RunIds,             \* Run ids; only their order matters
    Details,            \* output texts and failure codes
    NoDetail,           \* neither output nor a choice of code
    EventConnector,     \* [Events -> Connectors]
    ScopeConnector,     \* [Scopes -> Connectors]
    OccurredAt,         \* [Events -> Nat \ {0}], the stable platform time
    AcceptWindow, ReceiptWindow, FutureSkew,
    MaxReceipts, MaxQueued, MaxNonTerminal, MaxPending, MaxRetained,
    DispatchLease, RunTimeout,
    DeliveryLease, ClaimLimit,
    RetryBackoff,       \* [attempt -> delay], see DeliveryBackoff
    ClockStepsBack,     \* may the host clock be set back?
    StaleSamples,       \* may a call wait for the writer after it read the clock?
    MaxClock,           \* bound: the last reading of the clock
    MaxDispatches,      \* bound: dispatch attempts per Run
    MaxSends            \* bound: delivery attempts per reply

\* Constants are of their types; validateAdmissionOptions (store.go) requires
\* the window order and the quota order.
ASSUME IdAssumption == RunIds \subseteq Nat \ {0} /\ IsFiniteSet(RunIds)
ASSUME NullAssumption ==
    /\ NoRef \notin Refs
    /\ NoEvent \notin Events
    /\ NoScope \notin Scopes
    /\ NoDetail \notin Details
ASSUME FactAssumption ==
    /\ EventConnector \in [Events -> Connectors]
    /\ ScopeConnector \in [Scopes -> Connectors]
    /\ OccurredAt \in [Events -> Nat \ {0}]
ASSUME WindowAssumption ==
    /\ AcceptWindow \in Nat \ {0}
    /\ ReceiptWindow \in Nat
    /\ ReceiptWindow > AcceptWindow
    /\ FutureSkew \in Nat
ASSUME QuotaAssumption ==
    /\ MaxReceipts \in Nat \ {0}
    /\ MaxQueued \in Nat \ {0}
    /\ MaxNonTerminal \in Nat
    /\ MaxNonTerminal >= MaxQueued
    /\ MaxPending \in Nat \ {0}
    /\ MaxRetained \in Nat \ {0}
ASSUME LeaseAssumption ==
    /\ DispatchLease \in Nat \ {0}
    /\ RunTimeout \in Nat \ {0}
    /\ DeliveryLease \in Nat \ {0}
    /\ ClaimLimit \in Nat \ {0}
ASSUME BoundAssumption ==
    /\ ClockStepsBack \in BOOLEAN
    /\ StaleSamples \in BOOLEAN
    /\ MaxClock \in Nat \ {0}
    /\ MaxDispatches \in Nat \ {0}
    /\ MaxSends \in Nat
ASSUME BackoffAssumption == RetryBackoff \in [0..MaxSends -> Nat \ {0}]

VARIABLES
    clock,      \* what the host clock reads now
    high,       \* the latest reading it ever gave
    horizon,    \* inbound_event_horizons.evicted_through_ms
    receipts,   \* inbound_events: the Run an event was admitted as
    runs,       \* runs
    sessions,   \* sessions: the current reference of a scope
    deliveries  \* text_deliveries

vars == <<clock, high, horizon, receipts, runs, sessions, deliveries>>

-----------------------------------------------------------------------------
(***************************************************************************)
(* Rows.                                                                   *)
(***************************************************************************)
NoRun == 0
NoToken == 0
NoTime == 0

Executing == {"dispatching", "running"}
NonTerminal == {"queued"} \cup Executing
Terminal == {"completed", "failed", "cancelled", "interrupted"}
Stored == NonTerminal \cup Terminal
RunState == Stored \cup {"none", "compacted"}

Settled == {"delivered", "permanent_failed"}
Unsettled == {"pending", "leased"}
DeliveryState == Settled \cup Unsettled \cup {"none"}

RunRow ==
    [state : RunState, event : Events \cup {NoEvent}, scope : Scopes \cup {NoScope},
     created : Nat, token : Nat, expires : Nat, attempts : Nat,
     prepared : BOOLEAN, startRef : Refs \cup {NoRef}, deadline : Nat,
     detail : Details \cup {NoDetail}, resultRef : Refs \cup {NoRef}]

DeliveryRow ==
    [state : DeliveryState, token : Nat, expires : Nat, attempts : 0..MaxSends,
     available : Nat]

BlankRun(st, e, s, now) ==
    [state |-> st, event |-> e, scope |-> s,
     created |-> now, token |-> NoToken, expires |-> NoTime, attempts |-> 0,
     prepared |-> FALSE, startRef |-> NoRef, deadline |-> NoTime,
     detail |-> NoDetail, resultRef |-> NoRef]

NewRun(e, s, now) == BlankRun("queued", e, s, now)
EmptyRun == BlankRun("none", NoEvent, NoScope, NoTime)
CompactedRun(e) == BlankRun("compacted", e, NoScope, NoTime)

BlankDelivery(st, now) ==
    [state |-> st, token |-> NoToken, expires |-> NoTime, attempts |-> 0, available |-> now]

NewDelivery(now) == BlankDelivery("pending", now)
EmptyDelivery == BlankDelivery("none", NoTime)

\* What validateFinish lets through: a reference only with a completed Run, and
\* cancelled and interrupted Runs carry nothing that could differ.
FinishInput ==
    [state : {"completed"}, detail : Details, ref : Refs \cup {NoRef}]
        \cup [state : {"failed"}, detail : Details, ref : {NoRef}]
        \cup [state : {"cancelled", "interrupted"}, detail : {NoDetail}, ref : {NoRef}]

\* A clock sample taken at some point before the transaction began.
Readings == IF StaleSamples THEN 1..high ELSE {clock}

Connector(r) == ScopeConnector[runs[r].scope]

UnsettledOf(c) ==
    {r \in RunIds : runs[r].state \in Stored /\ Connector(r) = c
                        /\ deliveries[r].state \in Unsettled}

-----------------------------------------------------------------------------
(***************************************************************************)
(* Inbound admission.                                                      *)
(***************************************************************************)

\* The eviction horizon of connector c never moves back, whatever the clock does.
NewHorizon(c, now) ==
    LET cutoff == now - ReceiptWindow
    IN  IF cutoff > horizon[c] THEN cutoff ELSE horizon[c]

ReceiptsAfter(c, h) ==
    [e \in Events |->
        IF EventConnector[e] = c /\ OccurredAt[e] <= h THEN NoRun ELSE receipts[e]]

HasReceipt(rc, r) == \E e \in Events : rc[e] = r

\* Mutant: only the Runs whose receipt goes in this eviction.
ForgottenNow(c, rc) ==
    {r \in RunIds : runs[r].state \in Terminal /\ Connector(r) = c
                        /\ HasReceipt(receipts, r) /\ ~HasReceipt(rc, r)}

\* Terminal Runs of c that a replay can no longer name.
Forgotten(c, rc) ==
    {r \in RunIds : runs[r].state \in Terminal /\ Connector(r) = c /\ ~HasReceipt(rc, r)}

\* Mutant: the replies of forgotten Runs go whether or not they were sent.
RepliesGoWithReceipts(c, rc) ==
    [r \in RunIds |-> IF r \in Forgotten(c, rc) THEN EmptyDelivery ELSE deliveries[r]]

DeliveriesAfter(c, rc) ==
    [r \in RunIds |->
        IF r \in Forgotten(c, rc) /\ deliveries[r].state \in Settled
        THEN EmptyDelivery ELSE deliveries[r]]

RunsAfter(c, rc) ==
    [r \in RunIds |->
        IF r \in Forgotten(c, rc) /\ DeliveriesAfter(c, rc)[r].state = "none"
        THEN CompactedRun(runs[r].event) ELSE runs[r]]

\* evictInboundReceipts, whose work every ingest commits, the rejected one too.
EvictInboundReceipts(c, now) ==
    LET h == NewHorizon(c, now)
        rc == ReceiptsAfter(c, h)
    IN  [horizon |-> h, receipts |-> rc,
         runs |-> RunsAfter(c, rc), deliveries |-> DeliveriesAfter(c, rc)]

ScopeBusy(s) == \E r \in RunIds : runs[r].state \in NonTerminal /\ runs[r].scope = s

\* checkInboundCapacity over what eviction left; a Run retains one unit of input.
HasCapacity(c, ev) ==
    LET kept == {r \in RunIds : ev.runs[r].state \in Stored
                                    /\ ScopeConnector[ev.runs[r].scope] = c}
    IN  /\ Cardinality({e \in Events : EventConnector[e] = c /\ ev.receipts[e] # NoRun})
               < MaxReceipts
        /\ Cardinality({r \in kept : ev.runs[r].state = "queued"}) < MaxQueued
        /\ Cardinality({r \in kept : ev.runs[r].state \in NonTerminal}) < MaxNonTerminal
        /\ Cardinality({r \in kept : ev.deliveries[r].state \in Unsettled}) < MaxPending
        /\ Cardinality(kept) < MaxRetained

\* Mutant: only the acceptance window is checked, not the horizon.
TimelyByWindow(e, now, h) ==
    /\ OccurredAt[e] <= now + FutureSkew
    /\ OccurredAt[e] >= now - AcceptWindow

\* The time checks a key without a receipt has to pass.
Timely(e, now, h) ==
    /\ OccurredAt[e] <= now + FutureSkew
    /\ OccurredAt[e] > h
    /\ OccurredAt[e] >= now - AcceptWindow

\* IngestTextRun when it admits event e in scope s as the new Run r.  The clock
\* is read inside the transaction.
IngestTextRun(e, s, r) ==
    LET c == EventConnector[e]
        ev == EvictInboundReceipts(c, clock)
    IN  /\ ScopeConnector[s] = c
        /\ ev.receipts[e] = NoRun
        /\ Timely(e, clock, ev.horizon)
        /\ ~ScopeBusy(s)
        /\ HasCapacity(c, ev)
        /\ ev.runs[r].state = "none"
        /\ horizon' = [horizon EXCEPT ![c] = ev.horizon]
        /\ receipts' = [ev.receipts EXCEPT ![e] = r]
        /\ runs' = [ev.runs EXCEPT ![r] = NewRun(e, s, clock)]
        /\ deliveries' = ev.deliveries
        /\ UNCHANGED <<clock, high, sessions>>

\* IngestTextRun when it creates nothing: a retained replay, a changed payload,
\* an expired event, a denial, a busy scope or a quota (database pages and the
\* authorizer can refuse at any time).  What eviction did is committed.
IngestWithoutRun(c) ==
    LET ev == EvictInboundReceipts(c, clock)
    IN  /\ horizon' = [horizon EXCEPT ![c] = ev.horizon]
        /\ receipts' = ev.receipts
        /\ runs' = ev.runs
        /\ deliveries' = ev.deliveries
        /\ UNCHANGED <<clock, high, sessions>>

-----------------------------------------------------------------------------
(***************************************************************************)
(* Dispatch.  tok ranges over every token ever handed out for the Run: a   *)
(* worker that lost its lease still calls with its old one.                *)
(***************************************************************************)
Tokens(r) == 1..runs[r].attempts

\* The UPDATE statements, on the row they match.
Unprepared(row) ==      \* Mutant: requeueing forgets the prepared start.
    [row EXCEPT !.state = "queued", !.token = NoToken, !.expires = NoTime,
                !.prepared = FALSE]

Requeued(row) == [row EXCEPT !.state = "queued", !.token = NoToken, !.expires = NoTime]

Dispatched(row, now) ==
    [row EXCEPT !.state = "dispatching", !.token = row.attempts + 1,
                !.expires = now + DispatchLease, !.attempts = row.attempts + 1]

Prepared(row, ref, now) ==
    [row EXCEPT !.prepared = TRUE, !.startRef = ref, !.deadline = now + RunTimeout]

Started(row) == [row EXCEPT !.state = "running", !.expires = NoTime]

Finished(row, f) ==
    [row EXCEPT !.state = f.state, !.expires = NoTime,
                !.detail = f.detail, !.resultRef = f.ref]

\* Mutants: the release matches running Runs too (they have no expiry), or live leases.
ReleaseExecuting(now) ==
    [r \in RunIds |->
        IF runs[r].state \in Executing /\ runs[r].expires <= now
        THEN Requeued(runs[r]) ELSE runs[r]]

ReleaseDispatching(now) ==
    [r \in RunIds |->
        IF runs[r].state = "dispatching" THEN Requeued(runs[r]) ELSE runs[r]]

\* The first statement of ClaimQueuedRun.  The prepared start is kept.
ReleaseExpired(now) ==
    [r \in RunIds |->
        IF runs[r].state = "dispatching" /\ runs[r].expires <= now
        THEN Requeued(runs[r]) ELSE runs[r]]

\* Mutant: a running Run does not gate the queue.
GatedByDispatching(rows) == \E r \in RunIds : rows[r].state = "dispatching"

\* A dispatching or running Run gates the queue.
Gated(rows) == \E r \in RunIds : rows[r].state \in Executing

\* ORDER BY created_at_ms, id
Oldest(rows, r) ==
    \A q \in RunIds : rows[q].state = "queued" =>
        \/ rows[r].created < rows[q].created
        \/ rows[r].created = rows[q].created /\ r <= q

ClaimQueuedRun(r, now) ==
    LET rows == ReleaseExpired(now)
    IN  /\ ~Gated(rows)
        /\ rows[r].state = "queued"
        /\ Oldest(rows, r)
        /\ rows[r].attempts < MaxDispatches
        /\ runs' = [rows EXCEPT ![r] = Dispatched(rows[r], now)]
        /\ UNCHANGED <<clock, high, horizon, receipts, sessions, deliveries>>

\* PrepareRunStart freezes the session reference the worker read before and the
\* deadline it proposes; a start that is already prepared is only read back.
PrepareRunStart(r, tok, ref, now) ==
    /\ runs[r].state = "dispatching"
    /\ runs[r].token = tok
    /\ runs[r].expires > now
    /\ ~runs[r].prepared
    /\ sessions[runs[r].scope] = ref
    /\ runs' = [runs EXCEPT ![r] = Prepared(runs[r], ref, now)]
    /\ UNCHANGED <<clock, high, horizon, receipts, sessions, deliveries>>

MarkRunRunning(r, tok, now) ==
    /\ runs[r].state = "dispatching"
    /\ runs[r].token = tok
    /\ runs[r].expires > now
    /\ runs[r].prepared
    /\ runs' = [runs EXCEPT ![r] = Started(runs[r])]
    /\ UNCHANGED <<clock, high, horizon, receipts, sessions, deliveries>>

SameFinish(row, f) ==
    row.state = f.state /\ row.detail = f.detail /\ row.resultRef = f.ref

\* insertDeliveryTx: an existing reply stands; at the quota the transaction fails.
InsertDelivery(r, now) ==
    \/ /\ deliveries[r].state # "none"
       /\ UNCHANGED deliveries
    \/ /\ deliveries[r].state = "none"
       /\ Cardinality(UnsettledOf(Connector(r))) < MaxPending
       /\ deliveries' = [deliveries EXCEPT ![r] = NewDelivery(now)]

\* FinishRun, always with a reply (agentdispatch's commitFinish is its only
\* caller).  A repeated finish must be the same and changes nothing.
FinishRun(r, tok, f, now) ==
    LET fresh == runs[r].state \in Executing
    IN  /\ runs[r].token = tok
        /\ runs[r].prepared
        /\ fresh \/ SameFinish(runs[r], f)
        /\ runs[r].state = "dispatching" => runs[r].expires > now
        /\ runs' = IF fresh THEN [runs EXCEPT ![r] = Finished(runs[r], f)] ELSE runs
        /\ sessions' = IF fresh /\ f.ref # NoRef
                       THEN [sessions EXCEPT ![runs[r].scope] = f.ref]
                       ELSE sessions
        /\ InsertDelivery(r, now)
        /\ UNCHANGED <<clock, high, horizon, receipts>>

\* ResetSession of the offline maintenance tool, with the reference it expects.
ResetSession(s) ==
    /\ sessions[s] # NoRef
    /\ ~ScopeBusy(s)
    /\ sessions' = [sessions EXCEPT ![s] = NoRef]
    /\ UNCHANGED <<clock, high, horizon, receipts, runs, deliveries>>

-----------------------------------------------------------------------------
(***************************************************************************)
(* The outbox.                                                             *)
(***************************************************************************)

\* The UPDATE statements, on the row they match.
Released(row) == [row EXCEPT !.state = "pending", !.token = NoToken, !.expires = NoTime]

Leased(row, now) ==
    [row EXCEPT !.state = "leased", !.token = row.attempts + 1,
                !.expires = now + DeliveryLease, !.attempts = row.attempts + 1]

Retried(row, now) ==
    [row EXCEPT !.state = "pending", !.expires = NoTime,
                !.available = now + RetryBackoff[row.attempts]]

Closed(row, outcome) == [row EXCEPT !.state = outcome, !.expires = NoTime]

\* Mutant: live leases are released as well.
ReleaseAllLeases(c, now) ==
    [r \in RunIds |->
        IF r \in UnsettledOf(c) /\ deliveries[r].state = "leased"
        THEN Released(deliveries[r]) ELSE deliveries[r]]

\* The first statement of ClaimTextDeliveries.
ReleaseLeases(c, now) ==
    [r \in RunIds |->
        IF r \in UnsettledOf(c) /\ deliveries[r].state = "leased"
               /\ deliveries[r].expires <= now
        THEN Released(deliveries[r]) ELSE deliveries[r]]

\* ClaimTextDeliveries leases the first ClaimLimit available replies; the order
\* of replies that became available in the same instant is left open.
ClaimTextDeliveries(c, now, batch) ==
    LET rows == ReleaseLeases(c, now)
        ready == {r \in UnsettledOf(c) : rows[r].state = "pending"
                                            /\ rows[r].available <= now}
    IN  /\ batch \subseteq ready
        /\ Cardinality(batch) = IF Cardinality(ready) < ClaimLimit
                                THEN Cardinality(ready) ELSE ClaimLimit
        /\ \A r \in batch, q \in ready \ batch : rows[r].available <= rows[q].available
        /\ \A r \in batch : rows[r].attempts < MaxSends
        /\ deliveries' =
               [r \in RunIds |-> IF r \in batch THEN Leased(rows[r], now) ELSE rows[r]]
        /\ UNCHANGED <<clock, high, horizon, receipts, runs, sessions>>

\* CompleteDelivery on a lease that is held: the outcomes that settle, and the
\* retry, which keeps its token to recognise its own repetition.  With any other
\* token, or on a row that is not leased, nothing changes.
CompleteDelivery(r, tok, outcome, now) ==
    /\ deliveries[r].state = "leased"
    /\ deliveries[r].token = tok
    /\ deliveries[r].expires > now
    /\ deliveries' = [deliveries EXCEPT ![r] =
                         IF outcome = "retry" THEN Retried(deliveries[r], now)
                                              ELSE Closed(deliveries[r], outcome)]
    /\ UNCHANGED <<clock, high, horizon, receipts, runs, sessions>>

-----------------------------------------------------------------------------
(***************************************************************************)
(* The host clock, and the specification.                                  *)
(***************************************************************************)
Tick ==
    /\ clock < MaxClock
    /\ clock' = clock + 1
    /\ high' = IF clock + 1 > high THEN clock + 1 ELSE high
    /\ UNCHANGED <<horizon, receipts, runs, sessions, deliveries>>

StepBack ==
    /\ ClockStepsBack
    /\ clock > 1
    /\ clock' = clock - 1
    /\ UNCHANGED <<high, horizon, receipts, runs, sessions, deliveries>>

Init ==
    /\ clock = 1
    /\ high = 1
    /\ horizon = [c \in Connectors |-> 0]
    /\ receipts = [e \in Events |-> NoRun]
    /\ runs = [r \in RunIds |-> EmptyRun]
    /\ sessions = [s \in Scopes |-> NoRef]
    /\ deliveries = [r \in RunIds |-> EmptyDelivery]

Ingest ==
    \/ \E e \in Events, s \in Scopes, r \in RunIds : IngestTextRun(e, s, r)
    \/ \E c \in Connectors : IngestWithoutRun(c)

Dispatch ==
    \E r \in RunIds, now \in Readings :
        \/ ClaimQueuedRun(r, now)
        \/ \E tok \in Tokens(r), ref \in Refs \cup {NoRef} : PrepareRunStart(r, tok, ref, now)
        \/ \E tok \in Tokens(r) : MarkRunRunning(r, tok, now)
        \/ \E tok \in Tokens(r), f \in FinishInput : FinishRun(r, tok, f, now)

Deliver ==
    \E now \in Readings :
        \/ \E c \in Connectors : \E batch \in SUBSET UnsettledOf(c) :
               ClaimTextDeliveries(c, now, batch)
        \/ \E r \in RunIds : \E tok \in 1..deliveries[r].attempts :
               \E outcome \in Settled \cup {"retry"} : CompleteDelivery(r, tok, outcome, now)

Next ==
    \/ Ingest
    \/ Dispatch
    \/ Deliver
    \/ \E s \in Scopes : ResetSession(s)
    \/ Tick
    \/ StepBack

Spec == Init /\ [][Next]_vars

-----------------------------------------------------------------------------
(***************************************************************************)
(* Properties.                                                             *)
(***************************************************************************)

\* Every column holds a value of its type.
TypeOK ==
    /\ clock \in 1..MaxClock
    /\ high \in clock..MaxClock
    /\ horizon \in [Connectors -> Nat]
    /\ receipts \in [Events -> RunIds \cup {NoRun}]
    /\ runs \in [RunIds -> RunRow]
    /\ sessions \in [Scopes -> Refs \cup {NoRef}]
    /\ deliveries \in [RunIds -> DeliveryRow]

\* An inbound event is admitted as at most one Run for ever: not while its receipt
\* is kept, not after the receipt and the Run were compacted, and not when the host
\* clock is set back behind the acceptance window (IngestTextRun's replay lookup and
\* the monotone horizon of evictInboundReceipts).
AtMostOneRunPerEvent ==
    \A r, q \in RunIds :
        runs[r].event = runs[q].event /\ runs[r].event # NoEvent => r = q

\* "the store, not an in-memory supervisor, enforces the MVP's global-one execution
\* invariant": lease expiry, requeueing and stale clock samples included.
GlobalOneExecution ==
    \A r, q \in RunIds :
        runs[r].state \in Executing /\ runs[q].state \in Executing => r = q

\* A scope never has two Runs that are not terminal (sessionScopeBusy and the unique
\* index runs_one_nonterminal_session_scope).
OneNonTerminalPerScope ==
    \A r, q \in RunIds :
        /\ runs[r].state \in NonTerminal
        /\ runs[q].state \in NonTerminal
        /\ runs[r].scope = runs[q].scope
        => r = q

\* The session reference frozen by PrepareRunStart stays the current one of its scope
\* until the Run is terminal, however often the Run is requeued: neither another Run's
\* FinishRun nor ResetSession moves the pointer under a start that may be resent.
PreparedSessionIsCurrent ==
    \A r \in RunIds :
        runs[r].state \in NonTerminal /\ runs[r].prepared =>
            sessions[runs[r].scope] = runs[r].startRef

\* The terminal transition and the reply are one transaction: a Run has a delivery
\* exactly when it is stored as terminal, so no answer is lost and none precedes it.
ReplyIffTerminal ==
    \A r \in RunIds : runs[r].state \in Terminal <=> deliveries[r].state # "none"

\* The queue quota is checked on admission only, and a Run whose dispatch lease expired
\* rejoins the queue without a check.  Since at most one Run has left the queue at a
\* time, a connector never has more unfinished Runs than the quota and that one.
QueueQuotaBoundsUnfinished ==
    \A c \in Connectors :
        Cardinality({r \in RunIds : runs[r].state \in NonTerminal /\ Connector(r) = c})
            <= MaxQueued + 1

\* A Run outlives its receipt only while it is not terminal or while its reply is to
\* be sent, and a reply may be settled long after the receipt went: whenever a Run is
\* admitted, eviction has compacted every Run of the connector that nothing needs, so
\* the tables stay within the pools that checkInboundCapacity bounds.
RetainsOnlyWhatIsNeeded ==
    [][\A r \in RunIds :
           runs[r].state \notin Stored /\ runs'[r].state = "queued" =>
               \A q \in RunIds :
                   runs'[q].state \in Terminal /\ Connector(q)' = Connector(r)' =>
                       HasReceipt(receipts', q) \/ deliveries'[q].state \in Unsettled]_vars

\* The two StartRun fingerprint fields that PrepareRunStart adds never change again,
\* over requeues and new dispatch attempts: a resent StartRun is byte for byte the
\* first one, or sandboxd would answer conflict.
PreparedStartFrozen ==
    [][\A r \in RunIds :
           runs[r].prepared =>
               \/ runs'[r].state = "compacted"
               \/ /\ runs'[r].prepared
                  /\ runs'[r].startRef = runs[r].startRef
                  /\ runs'[r].deadline = runs[r].deadline]_vars

\* A Run that crossed MarkRunRunning is never dispatched again, keeps the token of the
\* worker that started it, and its terminal row stays as it is until it is compacted:
\* a late or repeated FinishRun cannot change an outcome that was already replied.
StartedRunNeverRestarts ==
    [][\A r \in RunIds :
           /\ runs[r].state = "running" =>
                  /\ runs'[r].state \in {"running"} \cup Terminal
                  /\ runs'[r].token = runs[r].token
           /\ runs[r].state \in Terminal =>
                  runs'[r] = runs[r] \/ runs'[r].state = "compacted"]_vars

\* A dispatch lease that no reading of the clock has passed yet is not taken away: only
\* its holder moves the Run on, although claims may run with a stale clock sample.
LiveDispatchLeaseKept ==
    [][\A r \in RunIds :
           runs[r].state = "dispatching" /\ runs[r].expires > high =>
               runs'[r].state # "queued" /\ runs'[r].token = runs[r].token]_vars

\* The same for the lease on a reply: while it lasts no second connector cycle is
\* handed the reply, so it is not sent twice by two live leases.
LiveDeliveryLeaseKept ==
    [][\A r \in RunIds :
           deliveries[r].state = "leased" /\ deliveries[r].expires > high =>
               /\ deliveries'[r].token = deliveries[r].token
               /\ deliveries'[r].attempts = deliveries[r].attempts]_vars

\* A reply leaves the outbox only when it was delivered or failed for good, and then
\* only with its Run and after the receipt: compaction never drops an answer that is
\* still to be sent, and a settled reply is never offered again.
ReplyKeptUntilSettled ==
    [][\A r \in RunIds :
           /\ deliveries[r].state \in Unsettled => deliveries'[r].state # "none"
           /\ deliveries[r].state \in Settled =>
                  \/ deliveries'[r] = deliveries[r]
                  \/ runs'[r].state = "compacted" /\ ~HasReceipt(receipts', r)]_vars

-----------------------------------------------------------------------------
(***************************************************************************)
(* The inductive invariant behind the invariants above.                    *)
(***************************************************************************)

\* A stored Run carries the event and the scope it was admitted with, both of one
\* connector, and an unused id carries nothing.
RowsConsistent ==
    \A r \in RunIds :
        /\ runs[r].state \in Stored =>
               /\ runs[r].event \in Events
               /\ runs[r].scope \in Scopes
               /\ Connector(r) = EventConnector[runs[r].event]
        /\ runs[r].state = "none" => runs[r].event = NoEvent

\* A receipt names the Run its event was admitted as.
ReceiptNamesItsRun ==
    \A e \in Events : receipts[e] # NoRun => runs[receipts[e]].event = e

\* An admitted event has its receipt or lies behind the horizon of its connector.
AdmittedStaysKnown ==
    \A r \in RunIds, e \in Events :
        runs[r].event = e =>
            receipts[e] = r \/ OccurredAt[e] <= horizon[EventConnector[e]]

\* Each part below needs the ones above it: the horizon keeps events from coming back,
\* one Run per scope keeps the session pointer still.
IInv ==
    /\ TypeOK
    /\ RowsConsistent
    /\ ReceiptNamesItsRun
    /\ AdmittedStaysKnown
    /\ AtMostOneRunPerEvent
    /\ GlobalOneExecution
    /\ OneNonTerminalPerScope
    /\ PreparedSessionIsCurrent
    /\ ReplyIffTerminal
=============================================================================
