--------------------------- MODULE CoreStoreProofs ----------------------------
(***************************************************************************)
(* CoreStore for every value of its constants: every table keeps its       *)
(* column types, and the operations on Runs (claim, prepare, mark running, *)
(* finish, reset, and ingestion with the receipts it evicts and the Runs   *)
(* it compacts) preserve the inductive invariant.                          *)
(***************************************************************************)
EXTENDS CoreStore, TLAPS

\* Rows built from scratch are rows.
LEMMA NewRowsTyped ==
    /\ \A e \in Events \cup {NoEvent}, s \in Scopes \cup {NoScope}, now \in Nat :
           NewRun(e, s, now) \in RunRow
    /\ EmptyRun \in RunRow
    /\ \A e \in Events \cup {NoEvent} : CompactedRun(e) \in RunRow
    /\ \A now \in Nat : NewDelivery(now) \in DeliveryRow
    /\ EmptyDelivery \in DeliveryRow
<1>1. \A st \in RunState, e \in Events \cup {NoEvent}, s \in Scopes \cup {NoScope}, now \in Nat :
          BlankRun(st, e, s, now) \in RunRow
    BY DEF BlankRun, RunRow, NoToken, NoTime
<1>2. \A st \in DeliveryState, now \in Nat : BlankDelivery(st, now) \in DeliveryRow
    BY BoundAssumption DEF BlankDelivery, DeliveryRow, NoToken, NoTime
<1>3. {"queued", "none", "compacted"} \subseteq RunState
    BY DEF RunState, Stored, NonTerminal
<1>4. {"pending", "none"} \subseteq DeliveryState
    BY DEF DeliveryState, Unsettled
<1>5. NoTime \in Nat
    BY DEF NoTime
<1> QED
    BY <1>1, <1>2, <1>3, <1>4, <1>5, Zenon
    DEF NewRun, EmptyRun, CompactedRun, NewDelivery, EmptyDelivery

\* What eviction computes has the types of what it replaces.
LEMMA EvictionTyped ==
    ASSUME TypeOK, NEW c \in Connectors, NEW now \in Nat
    PROVE  LET ev == EvictInboundReceipts(c, now)
           IN  /\ ev.horizon \in Nat
               /\ ev.receipts \in [Events -> RunIds \cup {NoRun}]
               /\ ev.runs \in [RunIds -> RunRow]
               /\ ev.deliveries \in [RunIds -> DeliveryRow]
<1> DEFINE h == NewHorizon(c, now)
           rc == ReceiptsAfter(c, h)
<1>1. h \in Nat
    BY WindowAssumption DEF TypeOK, NewHorizon
<1>2. rc \in [Events -> RunIds \cup {NoRun}]
    BY DEF TypeOK, ReceiptsAfter
<1>3. DeliveriesAfter(c, rc) \in [RunIds -> DeliveryRow]
    BY NewRowsTyped DEF TypeOK, DeliveriesAfter
<1>4. \A r \in RunIds : CompactedRun(runs[r].event) \in RunRow
    <2> SUFFICES ASSUME NEW r \in RunIds
                 PROVE  CompactedRun(runs[r].event) \in RunRow
        OBVIOUS
    <2>1. runs[r].event \in Events \cup {NoEvent}
        BY DEF TypeOK, RunRow
    <2> QED BY <2>1, NewRowsTyped
<1>5. RunsAfter(c, rc) \in [RunIds -> RunRow]
    BY <1>4 DEF TypeOK, RunsAfter
<1> QED BY <1>1, <1>2, <1>3, <1>5 DEF EvictInboundReceipts

-----------------------------------------------------------------------------
(***************************************************************************)
(* Type correctness.                                                       *)
(***************************************************************************)
LEMMA ReadingsAreTimes == TypeOK => Readings \subseteq Nat
    BY BoundAssumption DEF TypeOK, Readings

\* The empty store is well typed.
LEMMA TypeInit == Init => TypeOK
<1> SUFFICES ASSUME Init PROVE TypeOK
    OBVIOUS
<1>1. clock \in 1..MaxClock /\ high \in clock..MaxClock
    BY BoundAssumption DEF Init
<1> QED BY <1>1, NewRowsTyped DEF Init, TypeOK

\* The UPDATE statements make rows of rows.
LEMMA RunUpdatesTyped ==
    ASSUME NEW row \in RunRow, NEW now \in Nat
    PROVE  /\ Requeued(row) \in RunRow
           /\ Dispatched(row, now) \in RunRow
           /\ \A ref \in Refs \cup {NoRef} : Prepared(row, ref, now) \in RunRow
           /\ Started(row) \in RunRow
           /\ \A f \in FinishInput : Finished(row, f) \in RunRow
<1>1. Requeued(row) \in RunRow
    BY Zenon DEF Requeued, RunRow, RunState, Stored, NonTerminal, NoToken, NoTime
<1>2. Dispatched(row, now) \in RunRow
    <2>1. row.attempts + 1 \in Nat /\ now + DispatchLease \in Nat
        BY LeaseAssumption DEF RunRow
    <2>2. "dispatching" \in RunState
        BY DEF RunState, Stored, NonTerminal, Executing
    <2> QED BY <2>1, <2>2, Zenon DEF Dispatched, RunRow
<1>3. ASSUME NEW ref \in Refs \cup {NoRef} PROVE Prepared(row, ref, now) \in RunRow
    <2>1. now + RunTimeout \in Nat
        BY LeaseAssumption
    <2> QED BY <2>1, Zenon DEF Prepared, RunRow
<1>4. Started(row) \in RunRow
    BY Zenon DEF Started, RunRow, RunState, Stored, NonTerminal, Executing, NoTime
<1>5. ASSUME NEW f \in FinishInput PROVE Finished(row, f) \in RunRow
    <2>1. /\ f.state \in RunState
          /\ f.detail \in Details \cup {NoDetail}
          /\ f.ref \in Refs \cup {NoRef}
        BY DEF FinishInput, RunState, Stored, Terminal
    <2> QED BY <2>1, Zenon DEF Finished, RunRow, NoTime
<1> QED BY <1>1, <1>2, <1>3, <1>4, <1>5

\* The operations on one Run of the dispatcher keep every row well typed.
LEMMA DispatchTyped ==
    ASSUME TypeOK, NEW r \in RunIds, NEW now \in Readings, NEW tok,
           NEW ref \in Refs \cup {NoRef}, NEW f \in FinishInput,
           \/ ClaimQueuedRun(r, now)
           \/ PrepareRunStart(r, tok, ref, now)
           \/ MarkRunRunning(r, tok, now)
           \/ FinishRun(r, tok, f, now)
    PROVE  TypeOK'
<1>1. now \in Nat
    BY ReadingsAreTimes
<1>2. \A q \in RunIds : runs[q] \in RunRow
    BY DEF TypeOK
<1>3. CASE ClaimQueuedRun(r, now)
    <2> DEFINE rows == ReleaseExpired(now)
    <2>1. rows \in [RunIds -> RunRow]
        BY <1>1, <1>2, RunUpdatesTyped, Zenon DEF ReleaseExpired
    <2>2. Dispatched(rows[r], now) \in RunRow
        BY <1>1, <2>1, RunUpdatesTyped
    <2>3. runs' \in [RunIds -> RunRow]
        BY <1>3, <2>1, <2>2, Zenon DEF ClaimQueuedRun
    <2> QED BY <1>3, <2>3, Zenon DEF ClaimQueuedRun, TypeOK
<1>4. CASE PrepareRunStart(r, tok, ref, now)
    <2>1. Prepared(runs[r], ref, now) \in RunRow
        BY <1>1, <1>2, RunUpdatesTyped, Zenon
    <2> QED BY <1>4, <2>1, Zenon DEF PrepareRunStart, TypeOK
<1>5. CASE MarkRunRunning(r, tok, now)
    <2>1. Started(runs[r]) \in RunRow
        BY <1>1, <1>2, RunUpdatesTyped
    <2> QED BY <1>5, <2>1, Zenon DEF MarkRunRunning, TypeOK
<1>6. CASE FinishRun(r, tok, f, now)
    <2>1. Finished(runs[r], f) \in RunRow
        BY <1>1, <1>2, RunUpdatesTyped, Zenon
    <2>2. runs' \in [RunIds -> RunRow]
        BY <1>6, <2>1, Zenon DEF TypeOK, FinishRun
    <2>3. f.ref \in Refs \cup {NoRef}
        BY Zenon DEF FinishInput
    <2>4. sessions' \in [Scopes -> Refs \cup {NoRef}]
        BY <1>6, <2>3, Zenon DEF TypeOK, FinishRun
    <2>5. deliveries' \in [RunIds -> DeliveryRow]
        BY <1>1, <1>6, NewRowsTyped, Zenon DEF TypeOK, FinishRun, InsertDelivery
    <2> QED BY <1>6, <2>2, <2>4, <2>5, Zenon DEF FinishRun, TypeOK
<1> QED BY <1>3, <1>4, <1>5, <1>6

\* An ingest, with the eviction that precedes it, keeps every row well typed.
LEMMA IngestTyped ==
    ASSUME TypeOK, Ingest
    PROVE  TypeOK'
<1>1. clock \in Nat
    BY BoundAssumption DEF TypeOK
<1>2. CASE \E e \in Events, s \in Scopes, r \in RunIds : IngestTextRun(e, s, r)
    <2> PICK e \in Events, s \in Scopes, r \in RunIds : IngestTextRun(e, s, r)
        BY <1>2
    <2> DEFINE c == EventConnector[e]
               ev == EvictInboundReceipts(c, clock)
    <2>1. c \in Connectors
        BY FactAssumption
    <2>2. /\ ev.horizon \in Nat
          /\ ev.receipts \in [Events -> RunIds \cup {NoRun}]
          /\ ev.runs \in [RunIds -> RunRow]
          /\ ev.deliveries \in [RunIds -> DeliveryRow]
        BY <1>1, <2>1, EvictionTyped, Zenon
    <2>3. NewRun(e, s, clock) \in RunRow
        BY <1>1, NewRowsTyped
    <2> HIDE DEF ev, c
    <2>4. /\ horizon' = [horizon EXCEPT ![c] = ev.horizon]
          /\ receipts' = [ev.receipts EXCEPT ![e] = r]
          /\ runs' = [ev.runs EXCEPT ![r] = NewRun(e, s, clock)]
          /\ deliveries' = ev.deliveries
          /\ UNCHANGED <<clock, high, sessions>>
        BY Zenon DEF IngestTextRun, ev, c
    <2> QED BY <2>1, <2>2, <2>3, <2>4, Zenon DEF TypeOK
<1>3. CASE \E c \in Connectors : IngestWithoutRun(c)
    <2> PICK c \in Connectors : IngestWithoutRun(c)
        BY <1>3
    <2> DEFINE ev == EvictInboundReceipts(c, clock)
    <2>1. /\ ev.horizon \in Nat
          /\ ev.receipts \in [Events -> RunIds \cup {NoRun}]
          /\ ev.runs \in [RunIds -> RunRow]
          /\ ev.deliveries \in [RunIds -> DeliveryRow]
        BY <1>1, EvictionTyped, Zenon
    <2> HIDE DEF ev
    <2>2. /\ horizon' = [horizon EXCEPT ![c] = ev.horizon]
          /\ receipts' = ev.receipts
          /\ runs' = ev.runs
          /\ deliveries' = ev.deliveries
          /\ UNCHANGED <<clock, high, sessions>>
        BY DEF IngestWithoutRun, ev
    <2> QED BY <2>1, <2>2, Zenon DEF TypeOK
<1> QED BY <1>2, <1>3 DEF Ingest

\* Releasing, leasing, retrying and settling a reply make a reply.
LEMMA DeliveryUpdatesTyped ==
    ASSUME NEW row \in DeliveryRow, NEW now \in Nat
    PROVE  /\ Released(row) \in DeliveryRow
           /\ row.attempts < MaxSends => Leased(row, now) \in DeliveryRow
           /\ Retried(row, now) \in DeliveryRow
           /\ \A outcome \in Settled : Closed(row, outcome) \in DeliveryRow
<1>1. Released(row) \in DeliveryRow
    BY Zenon DEF Released, DeliveryRow, DeliveryState, Unsettled, NoToken, NoTime
<1>2. ASSUME row.attempts < MaxSends PROVE Leased(row, now) \in DeliveryRow
    <2>1. /\ row.attempts + 1 \in 0..MaxSends
          /\ row.attempts + 1 \in Nat
          /\ now + DeliveryLease \in Nat
        BY <1>2, LeaseAssumption, BoundAssumption DEF DeliveryRow
    <2>2. "leased" \in DeliveryState
        BY DEF DeliveryState, Unsettled
    <2> QED BY <2>1, <2>2, Zenon DEF Leased, DeliveryRow
<1>3. Retried(row, now) \in DeliveryRow
    <2>1. row.attempts \in 0..MaxSends
        BY DEF DeliveryRow
    <2>2. now + RetryBackoff[row.attempts] \in Nat
        BY <2>1, BackoffAssumption
    <2>3. "pending" \in DeliveryState
        BY DEF DeliveryState, Unsettled
    <2> QED BY <2>2, <2>3, Zenon DEF Retried, DeliveryRow, NoTime
<1>4. ASSUME NEW outcome \in Settled PROVE Closed(row, outcome) \in DeliveryRow
    BY Zenon DEF Closed, DeliveryRow, DeliveryState, NoTime
<1> QED BY <1>1, <1>2, <1>3, <1>4

\* Claiming and completing replies keeps every row well typed.
LEMMA DeliverTyped ==
    ASSUME TypeOK, Deliver
    PROVE  TypeOK'
<1> PICK now \in Readings :
        \/ \E c \in Connectors : \E batch \in SUBSET UnsettledOf(c) :
               ClaimTextDeliveries(c, now, batch)
        \/ \E r \in RunIds : \E tok \in 1..deliveries[r].attempts :
               \E outcome \in Settled \cup {"retry"} : CompleteDelivery(r, tok, outcome, now)
    BY DEF Deliver
<1>1. now \in Nat
    BY ReadingsAreTimes
<1>2. \A r \in RunIds : deliveries[r] \in DeliveryRow
    BY Zenon DEF TypeOK
<1>3. ASSUME NEW c \in Connectors, NEW batch \in SUBSET UnsettledOf(c),
             ClaimTextDeliveries(c, now, batch)
      PROVE  TypeOK'
    <2> DEFINE rows == ReleaseLeases(c, now)
    <2>1. rows \in [RunIds -> DeliveryRow]
        BY <1>1, <1>2, DeliveryUpdatesTyped, Zenon DEF ReleaseLeases
    <2>2. \A r \in RunIds : r \in batch => Leased(rows[r], now) \in DeliveryRow
        BY <1>1, <1>3, <2>1, DeliveryUpdatesTyped, Zenon DEF ClaimTextDeliveries
    <2>3. deliveries' \in [RunIds -> DeliveryRow]
        BY <1>3, <2>1, <2>2, Zenon DEF ClaimTextDeliveries
    <2> QED BY <1>3, <2>3, Zenon DEF ClaimTextDeliveries, TypeOK
<1>4. ASSUME NEW r \in RunIds, NEW tok, NEW outcome \in Settled \cup {"retry"},
             CompleteDelivery(r, tok, outcome, now)
      PROVE  TypeOK'
    <2>1. Retried(deliveries[r], now) \in DeliveryRow
        BY <1>1, <1>2, DeliveryUpdatesTyped, Zenon
    <2>2. outcome # "retry" => Closed(deliveries[r], outcome) \in DeliveryRow
        BY <1>1, <1>2, DeliveryUpdatesTyped, Zenon
    <2>3. deliveries' \in [RunIds -> DeliveryRow]
        BY <1>4, <2>1, <2>2, Zenon DEF CompleteDelivery, TypeOK
    <2> QED BY <1>4, <2>3, Zenon DEF CompleteDelivery, TypeOK
<1> QED BY <1>3, <1>4

\* Every step keeps every row well typed.
LEMMA TypeNext == TypeOK /\ [Next]_vars => TypeOK'
<1> SUFFICES ASSUME TypeOK, [Next]_vars PROVE TypeOK'
    OBVIOUS
<1>1. CASE Ingest
    BY <1>1, IngestTyped
<1>2. CASE Dispatch
    <2> PICK r \in RunIds, now \in Readings :
            \/ ClaimQueuedRun(r, now)
            \/ \E tok \in Tokens(r), ref \in Refs \cup {NoRef} :
                   PrepareRunStart(r, tok, ref, now)
            \/ \E tok \in Tokens(r) : MarkRunRunning(r, tok, now)
            \/ \E tok \in Tokens(r), f \in FinishInput : FinishRun(r, tok, f, now)
        BY <1>2, Zenon DEF Dispatch
    <2>1. [state |-> "cancelled", detail |-> NoDetail, ref |-> NoRef] \in FinishInput
        BY Zenon DEF FinishInput
    <2> QED BY <2>1, DispatchTyped, Zenon
<1>3. CASE Deliver
    BY <1>3, DeliverTyped
<1>4. CASE \E s \in Scopes : ResetSession(s)
    BY <1>4, Zenon DEF ResetSession, TypeOK
<1>5. CASE Tick
    BY <1>5, BoundAssumption DEF Tick, TypeOK
<1>6. CASE StepBack
    BY <1>6, BoundAssumption DEF StepBack, TypeOK
<1>7. CASE UNCHANGED vars
    BY <1>7, Zenon DEF vars, TypeOK
<1> QED BY <1>1, <1>2, <1>3, <1>4, <1>5, <1>6, <1>7 DEF Next

\* Every table of Core keeps its column types in every reachable state, for any
\* windows, quotas, leases and clock behaviour.
THEOREM TypeCorrect == Spec => []TypeOK
<1>1. Init => TypeOK
    BY TypeInit
<1>2. TypeOK /\ [Next]_vars => TypeOK'
    BY TypeNext
<1> QED BY <1>1, <1>2, PTL DEF Spec

\* What the UPDATE statements of a Run leave alone and what they set.
LEMMA RunUpdateFields ==
    ASSUME NEW row \in RunRow, NEW now, NEW ref, NEW f
    PROVE  /\ /\ Requeued(row).state = "queued"
              /\ Requeued(row).event = row.event
              /\ Requeued(row).scope = row.scope
              /\ Requeued(row).prepared = row.prepared
              /\ Requeued(row).startRef = row.startRef
           /\ /\ Dispatched(row, now).state = "dispatching"
              /\ Dispatched(row, now).event = row.event
              /\ Dispatched(row, now).scope = row.scope
              /\ Dispatched(row, now).prepared = row.prepared
              /\ Dispatched(row, now).startRef = row.startRef
           /\ /\ Prepared(row, ref, now).state = row.state
              /\ Prepared(row, ref, now).event = row.event
              /\ Prepared(row, ref, now).scope = row.scope
              /\ Prepared(row, ref, now).startRef = ref
           /\ /\ Started(row).state = "running"
              /\ Started(row).event = row.event
              /\ Started(row).scope = row.scope
              /\ Started(row).prepared = row.prepared
              /\ Started(row).startRef = row.startRef
           /\ /\ Finished(row, f).state = f.state
              /\ Finished(row, f).event = row.event
              /\ Finished(row, f).scope = row.scope
    BY DEF Requeued, Dispatched, Prepared, Started, Finished, RunRow

\* Nothing of the replay protection changes when no event is ingested.
LEMMA EventsFramed ==
    ASSUME RowsConsistent, ReceiptNamesItsRun, AdmittedStaysKnown, AtMostOneRunPerEvent,
           UNCHANGED <<horizon, receipts>>,
           \A r \in RunIds : /\ runs'[r].event = runs[r].event
                             /\ runs'[r].scope = runs[r].scope
                             /\ runs'[r].state \in Stored <=> runs[r].state \in Stored
                             /\ runs'[r].state = "none" <=> runs[r].state = "none",
           receipts \in [Events -> RunIds \cup {NoRun}]
    PROVE  /\ RowsConsistent'
           /\ ReceiptNamesItsRun'
           /\ AdmittedStaysKnown'
           /\ AtMostOneRunPerEvent'
<1>1. RowsConsistent'
    BY Zenon DEF RowsConsistent, Connector
<1>2. ReceiptNamesItsRun'
    BY Zenon DEF ReceiptNamesItsRun
<1>3. AdmittedStaysKnown'
    BY Zenon DEF AdmittedStaysKnown
<1>4. AtMostOneRunPerEvent'
    BY DEF AtMostOneRunPerEvent
<1> QED BY <1>1, <1>2, <1>3, <1>4, Zenon

\* ClaimQueuedRun requeues expired leases first, and claims only if no Run executes
\* then.
LEMMA ClaimInv ==
    ASSUME IInv, NEW r \in RunIds, NEW now \in Readings, ClaimQueuedRun(r, now)
    PROVE  IInv'
<1> DEFINE rows == ReleaseExpired(now)
<1>1. TypeOK'
    <2>1. [state |-> "cancelled", detail |-> NoDetail, ref |-> NoRef] \in FinishInput
        BY Zenon DEF FinishInput
    <2> QED BY <2>1, DispatchTyped, Zenon DEF IInv
<1>2. \A q \in RunIds : runs[q] \in RunRow
    BY Zenon DEF IInv, TypeOK
<1>3. rows \in [RunIds -> RunRow]
    BY <1>2, ReadingsAreTimes, RunUpdatesTyped, Zenon DEF ReleaseExpired, IInv
<1>4. \A q \in RunIds :
          /\ rows[q].event = runs[q].event
          /\ rows[q].scope = runs[q].scope
          /\ rows[q].prepared = runs[q].prepared
          /\ rows[q].startRef = runs[q].startRef
          /\ \/ rows[q].state = runs[q].state
             \/ runs[q].state = "dispatching" /\ rows[q].state = "queued"
    BY <1>2, RunUpdateFields, Zenon DEF ReleaseExpired
<1>5. /\ runs' = [rows EXCEPT ![r] = Dispatched(rows[r], now)]
      /\ ~Gated(rows)
      /\ rows[r].state = "queued"
      /\ UNCHANGED <<horizon, receipts, sessions, deliveries>>
    BY Zenon DEF ClaimQueuedRun
<1> HIDE DEF rows
<1>6. \A q \in RunIds :
          /\ runs'[q].event = runs[q].event
          /\ runs'[q].scope = runs[q].scope
          /\ runs'[q].prepared = runs[q].prepared
          /\ runs'[q].startRef = runs[q].startRef
          /\ IF q = r THEN runs'[q].state = "dispatching" ELSE runs'[q].state = rows[q].state
    <2> DEFINE row == Dispatched(rows[r], now)
    <2>1. /\ row.state = "dispatching"
          /\ row.event = rows[r].event
          /\ row.scope = rows[r].scope
          /\ row.prepared = rows[r].prepared
          /\ row.startRef = rows[r].startRef
        BY <1>3, RunUpdateFields
    <2> HIDE DEF row
    <2>2. \A q \in RunIds : runs'[q] = IF q = r THEN row ELSE rows[q]
        BY <1>3, <1>5, Zenon DEF row
    <2> QED BY <1>4, <2>1, <2>2
<1>7. \A q \in RunIds :
          /\ runs'[q].state \in NonTerminal <=> runs[q].state \in NonTerminal
          /\ runs'[q].state \in Terminal <=> runs[q].state \in Terminal
          /\ runs'[q].state \in Stored <=> runs[q].state \in Stored
          /\ runs'[q].state = "none" <=> runs[q].state = "none"
    BY <1>4, <1>5, <1>6 DEF NonTerminal, Terminal, Stored, Executing
<1>8. GlobalOneExecution'
    BY <1>5, <1>6 DEF GlobalOneExecution, Gated
<1>9. OneNonTerminalPerScope'
    BY <1>6, <1>7 DEF OneNonTerminalPerScope, IInv
<1>10. PreparedSessionIsCurrent'
    BY <1>5, <1>6, <1>7 DEF PreparedSessionIsCurrent, IInv
<1>11. ReplyIffTerminal'
    BY <1>5, <1>7, Zenon DEF ReplyIffTerminal, IInv
<1>12. /\ RowsConsistent'
       /\ ReceiptNamesItsRun'
       /\ AdmittedStaysKnown'
       /\ AtMostOneRunPerEvent'
    BY <1>5, <1>6, <1>7, EventsFramed, Zenon DEF IInv, TypeOK
<1> QED BY <1>1, <1>8, <1>9, <1>10, <1>11, <1>12, Zenon DEF IInv

\* PrepareRunStart freezes the session pointer that the scope has now.
LEMMA PrepareInv ==
    ASSUME IInv, NEW r \in RunIds, NEW now \in Readings, NEW tok,
           NEW ref \in Refs \cup {NoRef}, PrepareRunStart(r, tok, ref, now)
    PROVE  IInv'
<1> DEFINE row == Prepared(runs[r], ref, now)
<1>1. TypeOK'
    <2>1. [state |-> "cancelled", detail |-> NoDetail, ref |-> NoRef] \in FinishInput
        BY Zenon DEF FinishInput
    <2> QED BY <2>1, DispatchTyped, Zenon DEF IInv
<1>2. /\ row.state = runs[r].state
      /\ row.event = runs[r].event
      /\ row.scope = runs[r].scope
      /\ row.startRef = ref
    <2>1. runs[r] \in RunRow
        BY Zenon DEF IInv, TypeOK
    <2> QED BY <2>1 DEF Prepared, RunRow
<1>3. /\ runs' = [runs EXCEPT ![r] = row]
      /\ sessions[runs[r].scope] = ref
      /\ UNCHANGED <<horizon, receipts, sessions, deliveries>>
    BY Zenon DEF PrepareRunStart
<1> HIDE DEF row
<1>4. \A q \in RunIds : runs'[q] = IF q = r THEN row ELSE runs[q]
    BY <1>3, Zenon DEF IInv, TypeOK
<1>5. \A q \in RunIds : /\ runs'[q].state = runs[q].state
                        /\ runs'[q].event = runs[q].event
                        /\ runs'[q].scope = runs[q].scope
    BY <1>2, <1>4, Zenon
<1>6. GlobalOneExecution' /\ OneNonTerminalPerScope'
    BY <1>5, Zenon DEF GlobalOneExecution, OneNonTerminalPerScope, IInv
<1>7. PreparedSessionIsCurrent'
    BY <1>2, <1>3, <1>4 DEF PreparedSessionIsCurrent, IInv
<1>8. ReplyIffTerminal'
    BY <1>3, <1>5, Zenon DEF ReplyIffTerminal, IInv
<1>9. /\ RowsConsistent'
      /\ ReceiptNamesItsRun'
      /\ AdmittedStaysKnown'
      /\ AtMostOneRunPerEvent'
    BY <1>3, <1>5, EventsFramed, Zenon DEF IInv, TypeOK
<1> QED BY <1>1, <1>6, <1>7, <1>8, <1>9, Zenon DEF IInv

\* MarkRunRunning moves a prepared Run on and leaves its start as it is.
LEMMA MarkRunningInv ==
    ASSUME IInv, NEW r \in RunIds, NEW now \in Readings, NEW tok,
           MarkRunRunning(r, tok, now)
    PROVE  IInv'
<1> DEFINE row == Started(runs[r])
<1>1. TypeOK'
    <2>1. [state |-> "cancelled", detail |-> NoDetail, ref |-> NoRef] \in FinishInput
        BY Zenon DEF FinishInput
    <2> QED BY <2>1, DispatchTyped, Zenon DEF IInv
<1>2. /\ row.state = "running"
      /\ row.event = runs[r].event
      /\ row.scope = runs[r].scope
      /\ row.prepared = runs[r].prepared
      /\ row.startRef = runs[r].startRef
    BY RunUpdateFields, Zenon DEF IInv, TypeOK
<1>3. /\ runs' = [runs EXCEPT ![r] = row]
      /\ runs[r].state = "dispatching"
      /\ UNCHANGED <<horizon, receipts, sessions, deliveries>>
    BY Zenon DEF MarkRunRunning
<1> HIDE DEF row
<1>4. \A q \in RunIds : runs'[q] = IF q = r THEN row ELSE runs[q]
    BY <1>3, Zenon DEF IInv, TypeOK
<1>5. \A q \in RunIds : /\ runs'[q].event = runs[q].event
                        /\ runs'[q].scope = runs[q].scope
                        /\ runs'[q].prepared = runs[q].prepared
                        /\ runs'[q].startRef = runs[q].startRef
    BY <1>2, <1>4, Zenon
<1>6. \A q \in RunIds :
          /\ runs'[q].state \in Executing <=> runs[q].state \in Executing
          /\ runs'[q].state \in NonTerminal <=> runs[q].state \in NonTerminal
          /\ runs'[q].state \in Terminal <=> runs[q].state \in Terminal
          /\ runs'[q].state \in Stored <=> runs[q].state \in Stored
          /\ runs'[q].state = "none" <=> runs[q].state = "none"
    BY <1>2, <1>3, <1>4, Zenon DEF NonTerminal, Terminal, Stored, Executing
<1>7. GlobalOneExecution' /\ OneNonTerminalPerScope'
    BY <1>5, <1>6 DEF GlobalOneExecution, OneNonTerminalPerScope, IInv
<1>8. PreparedSessionIsCurrent'
    BY <1>3, <1>5, <1>6 DEF PreparedSessionIsCurrent, IInv
<1>9. ReplyIffTerminal'
    BY <1>3, <1>6, Zenon DEF ReplyIffTerminal, IInv
<1>10. /\ RowsConsistent'
       /\ ReceiptNamesItsRun'
       /\ AdmittedStaysKnown'
       /\ AtMostOneRunPerEvent'
    BY <1>3, <1>5, <1>6, EventsFramed, Zenon DEF IInv, TypeOK
<1> QED BY <1>1, <1>7, <1>8, <1>9, <1>10, Zenon DEF IInv

\* FinishRun ends the scope's one Run, inserts its reply, and may move the session
\* pointer.
LEMMA FinishInv ==
    ASSUME IInv, NEW r \in RunIds, NEW now \in Readings, NEW tok,
           NEW f \in FinishInput, FinishRun(r, tok, f, now)
    PROVE  IInv'
<1> DEFINE row == Finished(runs[r], f)
<1>1. TypeOK'
    BY DispatchTyped, SMTT(30) DEF IInv
<1>2. f.state \in Terminal
    BY Zenon DEF FinishInput, Terminal
<1>3. UNCHANGED <<horizon, receipts>>
    BY Zenon DEF FinishRun
<1>4. CASE runs[r].state \notin Executing
    \* A repetition: the reply is there, and nothing changes.
    <2>1. runs[r].state \in Terminal
        BY <1>2, <1>4 DEF FinishRun, SameFinish
    <2>2. deliveries[r].state # "none"
        BY <2>1 DEF IInv, ReplyIffTerminal
    <2>3. UNCHANGED <<runs, sessions, deliveries>>
        BY <1>4, <2>2, Zenon DEF FinishRun, InsertDelivery
    <2> QED
        BY <1>1, <1>3, <2>3, SMTT(30)
        DEF IInv, RowsConsistent, ReceiptNamesItsRun, AdmittedStaysKnown,
            AtMostOneRunPerEvent, GlobalOneExecution, OneNonTerminalPerScope,
            PreparedSessionIsCurrent, ReplyIffTerminal, Connector
<1>5. CASE runs[r].state \in Executing
    <2>1. /\ row.state = f.state
          /\ row.event = runs[r].event
          /\ row.scope = runs[r].scope
        <3>1. runs[r] \in RunRow
            BY Zenon DEF IInv, TypeOK
        <3> QED BY <3>1 DEF Finished, RunRow
    <2>2. /\ runs' = [runs EXCEPT ![r] = row]
          /\ sessions' = IF f.ref # NoRef
                         THEN [sessions EXCEPT ![runs[r].scope] = f.ref] ELSE sessions
        BY <1>5, Zenon DEF FinishRun
    <2> HIDE DEF row
    <2>3. \A q \in RunIds : runs'[q] = IF q = r THEN row ELSE runs[q]
        BY <2>2, Zenon DEF IInv, TypeOK
    <2>4. \A q \in RunIds : /\ runs'[q].event = runs[q].event
                            /\ runs'[q].scope = runs[q].scope
        BY <2>1, <2>3, Zenon
    <2>5. \A q \in RunIds :
              /\ runs'[q].state \in Stored <=> runs[q].state \in Stored
              /\ runs'[q].state = "none" <=> runs[q].state = "none"
              /\ runs'[q].state \in NonTerminal <=> runs[q].state \in NonTerminal /\ q # r
              /\ runs'[q].state \in Executing <=> runs[q].state \in Executing /\ q # r
              /\ runs'[q].state \in Terminal <=> runs[q].state \in Terminal \/ q = r
        BY <1>2, <1>5, <2>1, <2>3, Zenon DEF Stored, NonTerminal, Terminal, Executing
    <2>6. runs[r].state \in NonTerminal /\ runs[r].state \notin Terminal
        BY <1>5, Zenon DEF NonTerminal, Terminal, Executing
    <2>7. GlobalOneExecution' /\ OneNonTerminalPerScope'
        BY <2>4, <2>5 DEF GlobalOneExecution, OneNonTerminalPerScope, IInv
    <2>8. PreparedSessionIsCurrent'
        \* A prepared Run that is still to finish has another scope.
        <3> SUFFICES ASSUME NEW q \in RunIds, runs'[q].state \in NonTerminal,
                            runs'[q].prepared
                     PROVE  sessions'[runs'[q].scope] = runs'[q].startRef
            BY Zenon DEF PreparedSessionIsCurrent
        <3>1. q # r /\ runs[q].state \in NonTerminal /\ runs'[q] = runs[q]
            BY <2>3, <2>5, Zenon
        <3>2. runs[q].scope # runs[r].scope
            BY <2>6, <3>1, Zenon DEF OneNonTerminalPerScope, IInv
        <3>3. runs[q].scope \in Scopes
            BY <3>1, Zenon DEF RowsConsistent, Stored, IInv
        <3>4. sessions'[runs[q].scope] = sessions[runs[q].scope]
            BY <2>2, <3>2, <3>3, Zenon DEF IInv, TypeOK
        <3> QED BY <3>1, <3>4, Zenon DEF PreparedSessionIsCurrent, IInv
    <2>9. ReplyIffTerminal'
        <3>1. deliveries[r].state = "none"
            BY <2>6, Zenon DEF ReplyIffTerminal, IInv
        <3>2. deliveries' = [deliveries EXCEPT ![r] = NewDelivery(now)]
            BY <3>1, Zenon DEF FinishRun, InsertDelivery
        <3>3. NewDelivery(now).state # "none"
            BY Zenon DEF NewDelivery, BlankDelivery
        <3>4. \A q \in RunIds :
                  deliveries'[q] = IF q = r THEN NewDelivery(now) ELSE deliveries[q]
            BY <3>2, Zenon DEF IInv, TypeOK
        <3> QED BY <2>5, <3>3, <3>4 DEF ReplyIffTerminal, IInv
    <2>10. /\ RowsConsistent'
           /\ ReceiptNamesItsRun'
           /\ AdmittedStaysKnown'
           /\ AtMostOneRunPerEvent'
        BY <1>3, <2>4, <2>5, EventsFramed, Zenon DEF IInv, TypeOK
    <2> QED BY <1>1, <2>7, <2>8, <2>9, <2>10, Zenon DEF IInv
<1> QED BY <1>4, <1>5

\* ResetSession finds no unfinished Run in its scope, so it moves no prepared start.
LEMMA ResetInv ==
    ASSUME IInv, NEW s \in Scopes, ResetSession(s)
    PROVE  IInv'
<1>1. TypeOK'
    BY Zenon DEF ResetSession, TypeOK, IInv
<1>2. PreparedSessionIsCurrent'
    BY DEF PreparedSessionIsCurrent, ResetSession, ScopeBusy, IInv, TypeOK, RowsConsistent,
           Stored
<1> QED
    BY <1>1, <1>2, Zenon
    DEF ResetSession, IInv, RowsConsistent, ReceiptNamesItsRun, AdmittedStaysKnown,
        AtMostOneRunPerEvent, GlobalOneExecution, OneNonTerminalPerScope, ReplyIffTerminal,
        Connector

\* What eviction does to a row: a Run is kept as it is, with its reply, or compacted
\* together with it; a receipt goes only behind the horizon, which never moves back.
LEMMA EvictionFacts ==
    ASSUME IInv, NEW c \in Connectors, NEW now \in Nat
    PROVE  LET ev == EvictInboundReceipts(c, now)
           IN  /\ ev.horizon >= horizon[c]
               /\ \A e \in Events :
                      \/ ev.receipts[e] = receipts[e]
                      \/ /\ ev.receipts[e] = NoRun
                         /\ EventConnector[e] = c
                         /\ OccurredAt[e] <= ev.horizon
               /\ \A r \in RunIds :
                      /\ ev.runs[r].event = runs[r].event
                      /\ \/ /\ ev.runs[r] = runs[r]
                            /\ runs[r].state \in Terminal <=> ev.deliveries[r].state # "none"
                         \/ /\ ev.runs[r].state = "compacted"
                            /\ runs[r].state \in Terminal
                            /\ ev.deliveries[r].state = "none"
<1> DEFINE h == NewHorizon(c, now)
           rc == ReceiptsAfter(c, h)
           rs == RunsAfter(c, rc)
           ds == DeliveriesAfter(c, rc)
           ev == EvictInboundReceipts(c, now)
<1>1. ev.horizon = h /\ ev.receipts = rc /\ ev.runs = rs /\ ev.deliveries = ds
    BY DEF EvictInboundReceipts
<1>2. h >= horizon[c]
    BY WindowAssumption DEF NewHorizon, IInv, TypeOK
<1>3. \A e \in Events : \/ rc[e] = receipts[e]
                        \/ rc[e] = NoRun /\ EventConnector[e] = c /\ OccurredAt[e] <= h
    BY Zenon DEF ReceiptsAfter
<1>4. ASSUME NEW r \in RunIds
      PROVE  /\ rs[r].event = runs[r].event
             /\ \/ rs[r] = runs[r] /\ (runs[r].state \in Terminal <=> ds[r].state # "none")
                \/ rs[r].state = "compacted" /\ runs[r].state \in Terminal
                                             /\ ds[r].state = "none"
    <2>1. CompactedRun(runs[r].event).event = runs[r].event
          /\ CompactedRun(runs[r].event).state = "compacted"
        BY Zenon DEF CompactedRun, BlankRun
    <2>2. EmptyDelivery.state = "none"
        BY Zenon DEF EmptyDelivery, BlankDelivery
    <2>3. runs[r].state \in Terminal <=> deliveries[r].state # "none"
        BY Zenon DEF IInv, ReplyIffTerminal
    <2> HIDE DEF rc
    <2>4. ds[r] = IF r \in Forgotten(c, rc) /\ deliveries[r].state \in Settled
                  THEN EmptyDelivery ELSE deliveries[r]
        BY Zenon DEF DeliveriesAfter
    <2>5. rs[r] = IF r \in Forgotten(c, rc) /\ ds[r].state = "none"
                  THEN CompactedRun(runs[r].event) ELSE runs[r]
        BY Zenon DEF RunsAfter
    <2>6. r \in Forgotten(c, rc) => runs[r].state \in Terminal
        BY Zenon DEF Forgotten
    <2> HIDE DEF rs, ds
    <2>7. CASE r \in Forgotten(c, rc) /\ ds[r].state = "none"
        BY <2>1, <2>5, <2>6, <2>7, Zenon
    <2>8. CASE ~(r \in Forgotten(c, rc) /\ ds[r].state = "none")
        BY <2>2, <2>3, <2>4, <2>5, <2>8, Zenon
    <2> QED BY <2>7, <2>8, Zenon
<1> HIDE DEF h, rc, rs, ds
<1> QED BY <1>1, <1>2, <1>3, <1>4

\* An ingest that makes no Run still evicts receipts, behind the horizon it leaves.
LEMMA IngestWithoutRunInv ==
    ASSUME IInv, NEW c \in Connectors, IngestWithoutRun(c)
    PROVE  IInv'
<1> DEFINE ev == EvictInboundReceipts(c, clock)
<1>1. clock \in Nat
    BY BoundAssumption DEF IInv, TypeOK
<1>2. TypeOK'
    BY IngestTyped, Zenon DEF IInv, Ingest
<1>3. /\ horizon' = [horizon EXCEPT ![c] = ev.horizon]
      /\ receipts' = ev.receipts
      /\ runs' = ev.runs
      /\ deliveries' = ev.deliveries
      /\ sessions' = sessions
    BY Zenon DEF IngestWithoutRun
<1>4. /\ ev.horizon >= horizon[c]
      /\ \A e \in Events : \/ ev.receipts[e] = receipts[e]
                           \/ /\ ev.receipts[e] = NoRun
                              /\ EventConnector[e] = c
                              /\ OccurredAt[e] <= ev.horizon
      /\ \A r \in RunIds :
             /\ ev.runs[r].event = runs[r].event
             /\ \/ /\ ev.runs[r] = runs[r]
                   /\ runs[r].state \in Terminal <=> ev.deliveries[r].state # "none"
                \/ /\ ev.runs[r].state = "compacted"
                   /\ runs[r].state \in Terminal
                   /\ ev.deliveries[r].state = "none"
    BY <1>1, EvictionFacts
<1> HIDE DEF ev
<1>5. \A d \in Connectors : /\ horizon'[d] >= horizon[d] /\ horizon'[c] = ev.horizon
                            /\ horizon[d] \in Nat /\ horizon'[d] \in Nat
    <2>1. horizon \in [Connectors -> Nat] /\ horizon' \in [Connectors -> Nat]
        BY <1>2, Zenon DEF IInv, TypeOK
    <2> QED BY <1>3, <1>4, <2>1
<1>6. \A r \in RunIds : runs'[r].state # "compacted" => runs'[r] = runs[r]
    BY <1>3, <1>4
<1>7. "compacted" \notin Stored \cup NonTerminal \cup Executing \cup Terminal \cup {"none"}
    BY Zenon DEF Stored, NonTerminal, Executing, Terminal
<1>8. RowsConsistent'
    BY <1>6, <1>7 DEF RowsConsistent, Connector, IInv
<1>9. ReceiptNamesItsRun'
    <2> SUFFICES ASSUME NEW e \in Events, receipts'[e] # NoRun
                 PROVE  runs'[receipts'[e]].event = e
        BY Zenon DEF ReceiptNamesItsRun
    <2>1. receipts'[e] = receipts[e]
        BY <1>3, <1>4
    <2>2. receipts[e] \in RunIds /\ runs[receipts[e]].event = e
        BY <2>1, Zenon DEF ReceiptNamesItsRun, IInv, TypeOK
    <2> QED BY <1>3, <1>4, <2>1, <2>2
<1>10. AdmittedStaysKnown'
    <2> SUFFICES ASSUME NEW r \in RunIds, NEW e \in Events, runs'[r].event = e,
                        receipts'[e] # r
                 PROVE  OccurredAt[e] <= horizon'[EventConnector[e]]
        BY Zenon DEF AdmittedStaysKnown
    <2>1. EventConnector[e] \in Connectors /\ OccurredAt[e] \in Int
        BY FactAssumption
    <2>2. runs[r].event = e
        BY <1>3, <1>4, Zenon
    <2>3. CASE receipts'[e] = receipts[e]
        <3>1. OccurredAt[e] <= horizon[EventConnector[e]]
            BY <2>2, <2>3, Zenon DEF AdmittedStaysKnown, IInv
        <3> QED BY <1>5, <2>1, <3>1
    <2>4. CASE receipts'[e] # receipts[e]
        BY <1>3, <1>4, <1>5, <2>4, Zenon
    <2> QED BY <2>3, <2>4, Zenon
<1>11. AtMostOneRunPerEvent'
    BY <1>3, <1>4 DEF AtMostOneRunPerEvent, IInv
<1>12. GlobalOneExecution' /\ OneNonTerminalPerScope'
    BY <1>6, <1>7, Zenon DEF GlobalOneExecution, OneNonTerminalPerScope, IInv
<1>13. PreparedSessionIsCurrent'
    BY <1>3, <1>6, <1>7, Zenon DEF PreparedSessionIsCurrent, IInv
<1>14. ReplyIffTerminal'
    BY <1>3, <1>4, <1>7, Zenon DEF ReplyIffTerminal
<1> QED
    BY <1>2, <1>8, <1>9, <1>10, <1>11, <1>12, <1>13, <1>14, Zenon DEF IInv

\* IngestTextRun admits an event that has no receipt and is not behind the horizon, in a
\* scope without an unfinished Run.
LEMMA IngestTextRunInv ==
    ASSUME IInv, NEW x \in Events, NEW s \in Scopes, NEW n \in RunIds,
           IngestTextRun(x, s, n)
    PROVE  IInv'
<1> DEFINE c == EventConnector[x]
           ev == EvictInboundReceipts(c, clock)
           row == NewRun(x, s, clock)
<1>1. clock \in Nat /\ c \in Connectors
    BY BoundAssumption, FactAssumption DEF IInv, TypeOK
<1>2. TypeOK'
    BY IngestTyped DEF IInv, Ingest
<1>3. /\ horizon' = [horizon EXCEPT ![c] = ev.horizon]
      /\ receipts' = [ev.receipts EXCEPT ![x] = n]
      /\ runs' = [ev.runs EXCEPT ![n] = row]
      /\ deliveries' = ev.deliveries
      /\ sessions' = sessions
      /\ ScopeConnector[s] = c
      /\ ev.receipts[x] = NoRun
      /\ OccurredAt[x] > ev.horizon
      /\ ~ScopeBusy(s)
      /\ ev.runs[n].state = "none"
    BY DEF IngestTextRun, Timely
<1>4. /\ ev.receipts \in [Events -> RunIds \cup {NoRun}]
      /\ ev.runs \in [RunIds -> RunRow]
      /\ ev.horizon \in Nat
    BY <1>1, EvictionTyped DEF IInv
<1>5. /\ ev.horizon >= horizon[c]
      /\ \A e \in Events : \/ ev.receipts[e] = receipts[e]
                           \/ /\ ev.receipts[e] = NoRun
                              /\ EventConnector[e] = c
                              /\ OccurredAt[e] <= ev.horizon
      /\ \A r \in RunIds :
             /\ ev.runs[r].event = runs[r].event
             /\ \/ /\ ev.runs[r] = runs[r]
                   /\ runs[r].state \in Terminal <=> ev.deliveries[r].state # "none"
                \/ /\ ev.runs[r].state = "compacted"
                   /\ runs[r].state \in Terminal
                   /\ ev.deliveries[r].state = "none"
    BY <1>1, EvictionFacts
<1>6. row.state = "queued" /\ row.event = x /\ row.scope = s /\ row.prepared = FALSE
    BY Zenon DEF NewRun, BlankRun
<1> HIDE DEF ev, row, c
<1>7. \A r \in RunIds : runs'[r] = IF r = n THEN row ELSE ev.runs[r]
    BY <1>3, <1>4
<1>8. \A d \in Connectors : /\ horizon'[d] >= horizon[d] /\ horizon'[c] = ev.horizon
                            /\ horizon[d] \in Nat /\ horizon'[d] \in Nat
    <2>1. horizon \in [Connectors -> Nat] /\ horizon' \in [Connectors -> Nat]
        BY <1>2, Zenon DEF IInv, TypeOK
    <2>2. horizon' = [horizon EXCEPT ![c] = ev.horizon] /\ ev.horizon >= horizon[c]
        BY <1>3, <1>5, Zenon
    <2> QED BY <1>1, <2>1, <2>2
<1>9. \A r \in RunIds : r # n /\ runs'[r].state # "compacted" => runs'[r] = runs[r]
    BY <1>5, <1>7, Zenon
<1>10. "compacted" \notin Stored \cup NonTerminal \cup Executing \cup Terminal \cup {"none"}
    BY Zenon DEF Stored, NonTerminal, Executing, Terminal
<1>11. /\ "queued" \in Stored \cap NonTerminal
       /\ "queued" \notin Executing \cup Terminal \cup {"none"}
       /\ "none" \notin Stored \cup Terminal
    BY Zenon DEF Stored, NonTerminal, Executing, Terminal
<1>12. runs[n].state = "none" /\ runs[n].event = NoEvent
    <2>1. runs[n].state = "none"
        BY <1>3, <1>5
    <2> QED BY <2>1, Zenon DEF RowsConsistent, IInv
\* The event is new: a known one has its receipt or lies behind the horizon.
<1>13. \A r \in RunIds : runs[r].event # x
    <2> SUFFICES ASSUME NEW r \in RunIds, runs[r].event = x PROVE FALSE
        BY Zenon
    <2>1. receipts[x] = r \/ OccurredAt[x] <= horizon[c]
        BY Zenon DEF AdmittedStaysKnown, IInv, c
    <2>2. OccurredAt[x] \in Nat /\ horizon[c] \in Nat
        BY <1>1, FactAssumption, Zenon DEF IInv, TypeOK
    <2>3. OccurredAt[x] > horizon[c]
        <3>1. OccurredAt[x] > ev.horizon /\ ev.horizon >= horizon[c] /\ ev.horizon \in Nat
            BY <1>3, <1>4, <1>5, Zenon
        <3> QED BY <2>2, <3>1
    <2>4. receipts[x] = r
        BY <2>1, <2>2, <2>3
    <2>5. receipts[x] # ev.receipts[x]
        BY <1>3, <2>4, IdAssumption, Zenon DEF NoRun
    <2>6. OccurredAt[x] <= ev.horizon
        BY <1>5, <2>5, Zenon
    <2> QED BY <1>3, <1>4, <2>2, <2>6
<1>14. RowsConsistent'
    <2>1. RowsConsistent
        BY Zenon DEF IInv
    <2>2. row.event \in Events /\ row.scope \in Scopes /\ ScopeConnector[row.scope] = EventConnector[row.event]
        BY <1>3, <1>6, Zenon DEF c
    <2>3. row.state # "none"
        BY <1>6, <1>11, Zenon
    <2> SUFFICES ASSUME NEW r \in RunIds
                 PROVE  /\ runs'[r].state \in Stored =>
                               /\ runs'[r].event \in Events
                               /\ runs'[r].scope \in Scopes
                               /\ ScopeConnector[runs'[r].scope] = EventConnector[runs'[r].event]
                        /\ runs'[r].state = "none" => runs'[r].event = NoEvent
        BY Zenon DEF RowsConsistent, Connector
    <2>4. CASE r = n
        BY <1>7, <2>2, <2>3, <2>4, Zenon
    <2>5. CASE r # n /\ runs'[r].state # "compacted"
        BY <1>9, <2>1, <2>5, Zenon DEF RowsConsistent, Connector
    <2>6. CASE runs'[r].state = "compacted"
        BY <1>10, <2>6, Zenon
    <2> QED BY <2>4, <2>5, <2>6, Zenon
<1>15. ReceiptNamesItsRun'
    <2> SUFFICES ASSUME NEW e \in Events, receipts'[e] # NoRun
                 PROVE  runs'[receipts'[e]].event = e
        BY DEF ReceiptNamesItsRun
    <2>1. CASE e = x
        BY <1>3, <1>4, <1>6, <1>7, <2>1, Zenon
    <2>2. CASE e # x
        <3>1. receipts'[e] = receipts[e] /\ receipts[e] # NoRun
            BY <1>3, <1>4, <1>5, <2>2
        <3>2. receipts[e] \in RunIds /\ runs[receipts[e]].event = e
            BY <3>1 DEF ReceiptNamesItsRun, IInv, TypeOK
        <3>3. receipts[e] # n
            BY <1>12, <3>2, NullAssumption, Zenon
        <3>4. runs'[receipts[e]] = ev.runs[receipts[e]]
            BY <1>7, <3>2, <3>3
        <3>5. ev.runs[receipts[e]].event = runs[receipts[e]].event
            BY <1>5, <3>2, SMTT(30)
        <3> QED BY <3>1, <3>2, <3>4, <3>5, Zenon
    <2> QED BY <2>1, <2>2, Zenon
<1>16. AdmittedStaysKnown'
    <2> SUFFICES ASSUME NEW r \in RunIds, NEW e \in Events, runs'[r].event = e,
                        receipts'[e] # r
                 PROVE  OccurredAt[e] <= horizon'[EventConnector[e]]
        BY Zenon DEF AdmittedStaysKnown
    <2>1. EventConnector[e] \in Connectors /\ OccurredAt[e] \in Nat
        BY FactAssumption, Zenon
    <2>2. r # n
        BY <1>3, <1>4, <1>6, <1>7
    <2>3. runs[r].event = e
        BY <1>5, <1>7, <2>2, Zenon
    <2>4. e # x
        BY <1>13, <2>3
    <2>5. receipts'[e] = ev.receipts[e]
        BY <1>3, <1>4, <2>4
    <2>6. CASE ev.receipts[e] = receipts[e]
        <3>1. OccurredAt[e] <= horizon[EventConnector[e]]
            BY <2>3, <2>5, <2>6, SMTT(30) DEF AdmittedStaysKnown, IInv
        <3> QED BY <1>8, <2>1, <3>1
    <2>7. CASE ev.receipts[e] # receipts[e]
        BY <1>1, <1>5, <1>8, <2>7
    <2> QED BY <2>6, <2>7, SMTT(30)
<1>17. AtMostOneRunPerEvent'
    <2>1. \A r \in RunIds : r # n => runs'[r].event = runs[r].event
        BY <1>5, <1>7, Zenon
    <2>2. runs'[n].event = x
        BY <1>6, <1>7, Zenon
    <2> QED BY <1>13, <2>1, <2>2 DEF AtMostOneRunPerEvent, IInv
<1>18. GlobalOneExecution'
    BY <1>6, <1>7, <1>9, <1>10, <1>11 DEF GlobalOneExecution, IInv
<1>19. OneNonTerminalPerScope'
    <2>1. \A r \in RunIds : runs[r].state \in NonTerminal => runs[r].scope # s
        BY <1>3, Zenon DEF ScopeBusy
    <2>2. \A r \in RunIds : r # n /\ runs'[r].state \in NonTerminal => runs'[r] = runs[r]
        BY <1>9, <1>10, Zenon
    <2>3. runs'[n].scope = s
        BY <1>6, <1>7, Zenon
    <2> QED BY <2>1, <2>2, <2>3, Zenon DEF OneNonTerminalPerScope, IInv
<1>20. PreparedSessionIsCurrent'
    BY <1>3, <1>6, <1>7, <1>9, <1>10, SMTT(30) DEF PreparedSessionIsCurrent, IInv
<1>21. ReplyIffTerminal'
    <2> SUFFICES ASSUME NEW r \in RunIds
                 PROVE  runs'[r].state \in Terminal <=> deliveries'[r].state # "none"
        BY Zenon DEF ReplyIffTerminal
    <2>1. deliveries'[r].state = ev.deliveries[r].state
        BY <1>3, Zenon
    <2>2. CASE r = n
        <3>1. runs'[r].state \notin Terminal
            BY <1>6, <1>7, <1>11, <2>2, Zenon
        <3>2. ev.deliveries[r].state = "none"
            BY <1>5, <1>11, <1>12, <2>2, Zenon
        <3> QED BY <2>1, <3>1, <3>2, Zenon
    <2>3. CASE r # n
        <3>1. runs'[r] = ev.runs[r]
            BY <1>7, <2>3, Zenon
        <3> QED BY <1>5, <1>10, <2>1, <3>1, Zenon
    <2> QED BY <2>2, <2>3
<1> QED
    BY <1>2, <1>14, <1>15, <1>16, <1>17, <1>18, <1>19, <1>20, <1>21, Zenon DEF IInv

====
