------------------------- MODULE CoreStoreStepProofs --------------------------
(***************************************************************************)
(* The invariants and action properties of CoreStore, for every value of   *)
(* its constants: the delivery of replies, the induction and what follows  *)
(* from it; what a step may do to a reply and to a Run; the bound that the *)
(* queue quota puts on unfinished Runs; and what eviction leaves.          *)
(***************************************************************************)
EXTENDS CoreStoreProofs, FiniteSetTheorems

\* What the UPDATE statements do to the state of a reply: no reply disappears.
LEMMA DeliveryUpdateStates ==
    ASSUME NEW row \in DeliveryRow, NEW now, NEW outcome
    PROVE  /\ Released(row).state = "pending"
           /\ Leased(row, now).state = "leased"
           /\ Retried(row, now).state = "pending"
           /\ Closed(row, outcome).state = outcome
    BY Zenon DEF Released, Leased, Retried, Closed, DeliveryRow

\* Deliveries change replies alone, and no reply comes or goes.
LEMMA DeliverInv ==
    ASSUME IInv, Deliver
    PROVE  IInv'
<1>1. TypeOK'
    BY DeliverTyped DEF IInv
<1>2. UNCHANGED <<horizon, receipts, runs, sessions>>
    BY ZenonT(60) DEF Deliver, ClaimTextDeliveries, CompleteDelivery
<1>3. \A r \in RunIds : deliveries[r] \in DeliveryRow
    BY DEF IInv, TypeOK
<1>4. \A r \in RunIds : deliveries'[r].state = "none" <=> deliveries[r].state = "none"
    <2> PICK now \in Readings :
            \/ \E c \in Connectors : \E batch \in SUBSET UnsettledOf(c) :
                   ClaimTextDeliveries(c, now, batch)
            \/ \E r \in RunIds : \E tok \in 1..deliveries[r].attempts :
                   \E outcome \in Settled \cup {"retry"} :
                       CompleteDelivery(r, tok, outcome, now)
        BY DEF Deliver
    <2>1. ASSUME NEW c \in Connectors, NEW batch \in SUBSET UnsettledOf(c),
                 ClaimTextDeliveries(c, now, batch), NEW r \in RunIds
          PROVE  deliveries'[r].state = "none" <=> deliveries[r].state = "none"
        <3> DEFINE old == ReleaseLeases(c, now)[r]
        <3>1. now \in Nat
            BY ReadingsAreTimes DEF IInv
        <3>2. old = IF r \in UnsettledOf(c) /\ deliveries[r].state = "leased"
                           /\ deliveries[r].expires <= now
                    THEN Released(deliveries[r]) ELSE deliveries[r]
            BY Zenon DEF ReleaseLeases
        <3>3. deliveries'[r] = IF r \in batch THEN Leased(old, now) ELSE old
            BY <2>1, Zenon DEF ClaimTextDeliveries
        <3>4. r \in batch => deliveries[r].state # "none"
            BY Zenon DEF UnsettledOf, Unsettled
        <3> HIDE DEF old
        <3>5. old \in DeliveryRow
            BY <1>3, <3>1, <3>2, DeliveryUpdatesTyped, Zenon
        <3>6. old.state = "none" <=> deliveries[r].state = "none"
            BY <1>3, <3>2, DeliveryUpdateStates, Zenon
        <3> QED BY <3>3, <3>4, <3>5, <3>6, DeliveryUpdateStates, Zenon
    <2>2. ASSUME NEW q \in RunIds, NEW tok, NEW outcome \in Settled \cup {"retry"},
                 CompleteDelivery(q, tok, outcome, now), NEW r \in RunIds
          PROVE  deliveries'[r].state = "none" <=> deliveries[r].state = "none"
        <3> DEFINE row == IF outcome = "retry" THEN Retried(deliveries[q], now)
                                               ELSE Closed(deliveries[q], outcome)
        <3>1. row.state # "none"
            BY <1>3, DeliveryUpdateStates, Zenon DEF Settled
        <3>2. deliveries' = [deliveries EXCEPT ![q] = row] /\ deliveries[q].state = "leased"
            BY <2>2, Zenon DEF CompleteDelivery
        <3> HIDE DEF row
        <3> QED BY <3>1, <3>2, Zenon DEF IInv, TypeOK
    <2> QED BY <2>1, <2>2
<1>5. ReplyIffTerminal'
    BY <1>2, <1>4, Zenon DEF ReplyIffTerminal, IInv
<1> QED
    BY <1>1, <1>2, <1>5, Zenon
    DEF IInv, RowsConsistent, ReceiptNamesItsRun, AdmittedStaysKnown,
        AtMostOneRunPerEvent, GlobalOneExecution, OneNonTerminalPerScope,
        PreparedSessionIsCurrent, Connector

\* The empty store satisfies the invariant.
LEMMA InvInit == Init => IInv
<1> SUFFICES ASSUME Init PROVE IInv
    OBVIOUS
<1>1. TypeOK
    BY TypeInit
<1>2. \A r \in RunIds : /\ runs[r].state = "none"
                        /\ runs[r].event = NoEvent
                        /\ deliveries[r].state = "none"
    BY Zenon DEF Init, EmptyRun, BlankRun, EmptyDelivery, BlankDelivery
<1>3. "none" \notin Stored \cup NonTerminal \cup Executing \cup Terminal
    BY DEF Stored, NonTerminal, Executing, Terminal
<1>4. \A e \in Events : receipts[e] = NoRun
    BY DEF Init
<1> QED
    BY <1>1, <1>2, <1>3, <1>4, NullAssumption
    DEF IInv, RowsConsistent, ReceiptNamesItsRun, AdmittedStaysKnown,
        AtMostOneRunPerEvent, GlobalOneExecution, OneNonTerminalPerScope,
        PreparedSessionIsCurrent, ReplyIffTerminal

\* Every step preserves the invariant.
LEMMA InvNext == IInv /\ [Next]_vars => IInv'
<1> SUFFICES ASSUME IInv, [Next]_vars PROVE IInv'
    OBVIOUS
<1>1. CASE Ingest
    BY <1>1, IngestTextRunInv, IngestWithoutRunInv, Zenon DEF Ingest
<1>2. CASE Dispatch
    BY <1>2, ClaimInv, PrepareInv, MarkRunningInv, FinishInv, Zenon DEF Dispatch
<1>3. CASE Deliver
    BY <1>3, DeliverInv, Zenon
<1>4. CASE \E s \in Scopes : ResetSession(s)
    BY <1>4, ResetInv, Zenon
<1>5. ASSUME Tick \/ StepBack \/ UNCHANGED vars PROVE IInv'
    <2>1. TypeOK'
        BY <1>5, TypeNext, Zenon DEF IInv, Next, vars
    <2>2. UNCHANGED <<horizon, receipts, runs, sessions, deliveries>>
        BY <1>5, Zenon DEF Tick, StepBack, vars
    <2> QED
        BY <2>1, <2>2, Zenon
        DEF IInv, RowsConsistent, ReceiptNamesItsRun, AdmittedStaysKnown,
            AtMostOneRunPerEvent, GlobalOneExecution, OneNonTerminalPerScope,
            PreparedSessionIsCurrent, ReplyIffTerminal, Connector
<1> QED BY <1>1, <1>2, <1>3, <1>4, <1>5 DEF Next

\* The conjunction of Core's invariants is inductive, and so holds in every state.
THEOREM Invariance == Spec => []IInv
<1>1. Init => IInv
    BY InvInit
<1>2. IInv /\ [Next]_vars => IInv'
    BY InvNext, Zenon
<1> QED BY <1>1, <1>2, PTL DEF Spec

\* No event is ever admitted twice, whatever the clock and the retention do
\* (IngestTextRun, evictInboundReceipts).
THEOREM AdmissionOnce == Spec => []AtMostOneRunPerEvent
<1>1. IInv => AtMostOneRunPerEvent
    BY DEF IInv
<1> QED BY <1>1, Invariance, PTL

\* At most one Run of the whole deployment is dispatching or running
\* (ClaimQueuedRun's gate).
THEOREM OneExecution == Spec => []GlobalOneExecution
<1>1. IInv => GlobalOneExecution
    BY DEF IInv
<1> QED BY <1>1, Invariance, PTL

\* A scope has at most one Run that is not terminal (sessionScopeBusy).
THEOREM OneRunPerScope == Spec => []OneNonTerminalPerScope
<1>1. IInv => OneNonTerminalPerScope
    BY Zenon DEF IInv
<1> QED BY <1>1, Invariance, PTL

\* The session a prepared start continues stays the current one until the Run is
\* terminal (PrepareRunStart, FinishRun, ResetSession).
THEOREM PreparedSessionStays == Spec => []PreparedSessionIsCurrent
<1>1. IInv => PreparedSessionIsCurrent
    BY DEF IInv
<1> QED BY <1>1, Invariance, PTL

\* Outcome and reply are stored and compacted together (FinishRun, insertDeliveryTx,
\* evictInboundReceipts).
THEOREM ReplyWithOutcome == Spec => []ReplyIffTerminal
<1>1. IInv => ReplyIffTerminal
    BY DEF IInv
<1> QED BY <1>1, Invariance, PTL

\* The ways in which one step changes a reply.
ReplyStep(r) ==
    \/ deliveries'[r] = deliveries[r]
    \/ deliveries[r].state = "none" /\ deliveries'[r].state = "pending"
    \/ /\ deliveries[r].state \in Settled
       /\ runs'[r].state = "compacted" /\ ~HasReceipt(receipts', r)
    \/ \E now \in Readings :
           /\ \/ deliveries[r].state = "pending"
              \/ deliveries[r].state = "leased" /\ deliveries[r].expires <= now
           /\ deliveries'[r].state \in Unsettled
    \/ /\ deliveries[r].state = "leased" /\ deliveries'[r].state # "none"
       /\ deliveries'[r].token = deliveries[r].token
       /\ deliveries'[r].attempts = deliveries[r].attempts

\* Eviction removes a reply only when it is settled, with its Run, and when no receipt
\* names the Run any more; every other Run it leaves is needed.
LEMMA EvictedReply ==
    ASSUME IInv, NEW c \in Connectors, NEW r \in RunIds
    PROVE  LET ev == EvictInboundReceipts(c, clock)
           IN  /\ \/ ev.deliveries[r] = deliveries[r]
                  \/ /\ deliveries[r].state \in Settled
                     /\ ev.runs[r].state = "compacted" /\ ~HasReceipt(ev.receipts, r)
               /\ ev.runs[r].state \in Terminal /\ Connector(r) = c =>
                      HasReceipt(ev.receipts, r) \/ ev.deliveries[r].state \in Unsettled
<1> DEFINE rc == ReceiptsAfter(c, NewHorizon(c, clock))
           ds == DeliveriesAfter(c, rc)
           rs == RunsAfter(c, rc)
           ev == EvictInboundReceipts(c, clock)
<1>1. ev.receipts = rc /\ ev.runs = rs /\ ev.deliveries = ds
    BY Zenon DEF EvictInboundReceipts
<1> HIDE DEF rc
<1>2. ds[r] = IF r \in Forgotten(c, rc) /\ deliveries[r].state \in Settled
              THEN EmptyDelivery ELSE deliveries[r]
    BY Zenon DEF DeliveriesAfter
<1>3. rs[r] = IF r \in Forgotten(c, rc) /\ ds[r].state = "none"
              THEN CompactedRun(runs[r].event) ELSE runs[r]
    BY Zenon DEF RunsAfter
<1>4. EmptyDelivery.state = "none" /\ CompactedRun(runs[r].event).state = "compacted"
    BY Zenon DEF EmptyDelivery, BlankDelivery, CompactedRun, BlankRun
<1>5. deliveries[r].state \in Settled \cup Unsettled \cup {"none"}
    BY Zenon DEF IInv, TypeOK, DeliveryRow, DeliveryState
<1>6. "none" \notin Settled /\ "compacted" \notin Terminal
    BY Zenon DEF Settled, Terminal
<1>7. r \in Forgotten(c, rc) => ~HasReceipt(rc, r)
    BY Zenon DEF Forgotten
<1>8. runs[r].state \in Terminal /\ Connector(r) = c /\ ~HasReceipt(rc, r) => r \in Forgotten(c, rc)
    BY Zenon DEF Forgotten
<1> HIDE DEF ds, rs, ev
<1>9. \/ ds[r] = deliveries[r]
      \/ deliveries[r].state \in Settled /\ rs[r].state = "compacted" /\ ~HasReceipt(rc, r)
    BY <1>2, <1>3, <1>4, <1>7, Zenon
<1>10. rs[r].state \in Terminal /\ Connector(r) = c => HasReceipt(rc, r) \/ ds[r].state \in Unsettled
    <2> SUFFICES ASSUME rs[r].state \in Terminal, Connector(r) = c, ~HasReceipt(rc, r)
                 PROVE  ds[r].state \in Unsettled
        BY Zenon
    <2>1. rs[r] = runs[r]
        BY <1>3, <1>4, <1>6, Zenon
    <2>2. r \in Forgotten(c, rc)
        BY <1>8, <2>1, Zenon
    <2>3. ds[r].state # "none"
        BY <1>3, <1>4, <1>6, <2>2, Zenon
    <2> QED BY <1>2, <1>4, <1>5, <2>2, <2>3, Zenon
<1> QED BY <1>1, <1>9, <1>10, Zenon DEF ev

\* ReplyStep is complete: a step changes a reply in no other way.
LEMMA ReplySteps ==
    ASSUME IInv, [Next]_vars, NEW r \in RunIds
    PROVE  ReplyStep(r)
<1>0. deliveries \in [RunIds -> DeliveryRow] /\ runs \in [RunIds -> RunRow]
    BY Zenon DEF IInv, TypeOK
<1>1. ASSUME NEW e \in Events, NEW s \in Scopes, NEW n \in RunIds, IngestTextRun(e, s, n)
      PROVE  ReplyStep(r)
    <2> DEFINE ev == EvictInboundReceipts(EventConnector[e], clock)
    <2>1. EventConnector[e] \in Connectors /\ clock \in Nat
        BY FactAssumption, BoundAssumption DEF IInv, TypeOK
    <2>2. \/ ev.deliveries[r] = deliveries[r]
          \/ /\ deliveries[r].state \in Settled
             /\ ev.runs[r].state = "compacted" /\ ~HasReceipt(ev.receipts, r)
        BY <2>1, EvictedReply, Zenon
    <2>3. ev.runs \in [RunIds -> RunRow] /\ ev.receipts \in [Events -> RunIds \cup {NoRun}]
        BY <2>1, EvictionTyped, Zenon DEF IInv
    <2>4. /\ runs' = [ev.runs EXCEPT ![n] = NewRun(e, s, clock)] /\ ev.runs[n].state = "none"
          /\ receipts' = [ev.receipts EXCEPT ![e] = n] /\ deliveries' = ev.deliveries
        BY <1>1, Zenon DEF IngestTextRun
    <2> HIDE DEF ev
    <2>5. CASE ev.deliveries[r] = deliveries[r]
        BY <2>4, <2>5, Zenon DEF ReplyStep
    <2>6. CASE /\ deliveries[r].state \in Settled
               /\ ev.runs[r].state = "compacted" /\ ~HasReceipt(ev.receipts, r)
        <3>1. r # n
            BY <2>4, <2>6, Zenon
        <3>2. runs'[r].state = "compacted" /\ ~HasReceipt(receipts', r)
            BY <2>3, <2>4, <2>6, <3>1, Zenon DEF HasReceipt
        <3> QED BY <2>6, <3>2, Zenon DEF ReplyStep
    <2> QED BY <2>2, <2>5, <2>6, Zenon
<1>2. ASSUME NEW c \in Connectors, IngestWithoutRun(c) PROVE ReplyStep(r)
    BY <1>2, EvictedReply, Zenon DEF IngestWithoutRun, ReplyStep
<1>3. ASSUME NEW q \in RunIds, NEW now, InsertDelivery(q, now) PROVE ReplyStep(r)
    BY <1>0, <1>3 DEF InsertDelivery, NewDelivery, BlankDelivery, ReplyStep
<1>4. ASSUME NEW now \in Readings, NEW c \in Connectors, NEW batch \in SUBSET UnsettledOf(c),
             ClaimTextDeliveries(c, now, batch)
      PROVE  ReplyStep(r)
    <2> DEFINE rows == ReleaseLeases(c, now)
    <2>1. rows[r] = IF r \in UnsettledOf(c) /\ deliveries[r].state = "leased"
                         /\ deliveries[r].expires <= now
                    THEN Released(deliveries[r]) ELSE deliveries[r]
        BY Zenon DEF ReleaseLeases
    <2>2. deliveries'[r] = IF r \in batch THEN Leased(rows[r], now) ELSE rows[r]
        BY <1>4, Zenon DEF ClaimTextDeliveries
    <2>3. r \in batch => rows[r].state = "pending"
        BY <1>4, Zenon DEF ClaimTextDeliveries
    <2>4. now \in Nat
        BY ReadingsAreTimes, Zenon DEF IInv
    <2> HIDE DEF rows
    <2>5. rows[r] \in DeliveryRow
        BY <1>0, <2>1, <2>4, DeliveryUpdatesTyped, Zenon
    <2>6. CASE r \in batch
        <3>1. deliveries'[r].state = "leased"
            BY <2>2, <2>5, <2>6, DeliveryUpdateStates
        <3>2. \/ deliveries[r].state = "pending"
              \/ deliveries[r].state = "leased" /\ deliveries[r].expires <= now
            BY <2>1, <2>3, <2>6, Zenon
        <3> QED BY <3>1, <3>2, Zenon DEF ReplyStep, Unsettled
    <2>7. CASE r \notin batch
        BY <1>0, <2>1, <2>2, <2>7, DeliveryUpdateStates DEF ReplyStep, Unsettled
    <2> QED BY <2>6, <2>7, Zenon
<1>5. ASSUME NEW now, NEW q \in RunIds, NEW tok, NEW outcome \in Settled \cup {"retry"},
             CompleteDelivery(q, tok, outcome, now)
      PROVE  ReplyStep(r)
    <2> DEFINE row == IF outcome = "retry" THEN Retried(deliveries[q], now)
                                           ELSE Closed(deliveries[q], outcome)
    <2>1. row.state # "none"
        BY <1>0, DeliveryUpdateStates, Zenon DEF Settled
    <2>2. row.token = deliveries[q].token /\ row.attempts = deliveries[q].attempts
        BY <1>0 DEF Retried, Closed, DeliveryRow
    <2>3. deliveries' = [deliveries EXCEPT ![q] = row] /\ deliveries[q].state = "leased"
        BY <1>5, Zenon DEF CompleteDelivery
    <2> HIDE DEF row
    <2> QED BY <1>0, <2>1, <2>2, <2>3, Zenon DEF ReplyStep
<1>6. ASSUME UNCHANGED deliveries PROVE ReplyStep(r)
    BY <1>6, Zenon DEF ReplyStep
<1>7. CASE Dispatch
    BY <1>3, <1>6, <1>7 DEF Dispatch, ClaimQueuedRun, PrepareRunStart, MarkRunRunning, FinishRun
<1>8. CASE (\E s \in Scopes : ResetSession(s)) \/ Tick \/ StepBack \/ UNCHANGED vars
    BY <1>6, <1>8, Zenon DEF ResetSession, Tick, StepBack, vars
<1> QED BY <1>1, <1>2, <1>4, <1>5, <1>7, <1>8, Zenon DEF Next, Ingest, Deliver

\* No step loses a reply that is still to be sent, and a settled reply leaves the outbox
\* only with its Run and after its receipt (evictInboundReceipts, completeDelivery).
THEOREM ReplyStays == Spec => ReplyKeptUntilSettled
<1>1. ASSUME IInv, [Next]_vars
      PROVE  [\A r \in RunIds :
                 /\ deliveries[r].state \in Unsettled => deliveries'[r].state # "none"
                 /\ deliveries[r].state \in Settled =>
                        \/ deliveries'[r] = deliveries[r]
                        \/ runs'[r].state = "compacted" /\ ~HasReceipt(receipts', r)]_vars
    BY <1>1, ReplySteps, Zenon DEF ReplyStep, Settled, Unsettled
<1> QED BY <1>1, Invariance, PTL DEF Spec, ReplyKeptUntilSettled

\* ClaimTextDeliveries hands no reply to a second cycle while no reading of the clock
\* has passed its lease.
THEOREM LiveReplyLeaseStays == Spec => LiveDeliveryLeaseKept
<1>1. ASSUME IInv, [Next]_vars
      PROVE  [\A r \in RunIds :
                 deliveries[r].state = "leased" /\ deliveries[r].expires > high =>
                     /\ deliveries'[r].token = deliveries[r].token
                     /\ deliveries'[r].attempts = deliveries[r].attempts]_vars
    <2> SUFFICES ASSUME NEW r \in RunIds, deliveries[r].state = "leased",
                        deliveries[r].expires > high
                 PROVE  /\ deliveries'[r].token = deliveries[r].token
                        /\ deliveries'[r].attempts = deliveries[r].attempts
        BY Zenon
    <2>1. \A now \in Readings : ~(deliveries[r].expires <= now)
        <3>1. high \in Nat /\ deliveries[r].expires \in Nat
            BY <1>1, BoundAssumption DEF IInv, TypeOK, DeliveryRow
        <3>2. \A now \in Readings : now \in Nat /\ now <= high
            BY <1>1, BoundAssumption DEF IInv, TypeOK, Readings
        <3> QED BY <3>1, <3>2
    <2> QED BY <1>1, <2>1, ReplySteps, Zenon DEF ReplyStep, Settled
<1> QED BY <1>1, Invariance, PTL DEF Spec, LiveDeliveryLeaseKept

\* The ways in which one step changes the row of a Run.
RowStep(r) ==
    \/ runs'[r] = runs[r]
    \/ /\ runs[r].state = "none"
       /\ runs'[r].state = "queued"
       /\ ~runs[r].prepared
       /\ \E e \in Events, s \in Scopes : IngestTextRun(e, s, r)
    \/ runs[r].state \in Terminal /\ runs'[r].state = "compacted"
    \/ \E now \in Readings :
           /\ runs[r].state = "dispatching" /\ runs[r].expires <= now
           /\ runs'[r] \in {Requeued(runs[r]), Dispatched(Requeued(runs[r]), now)}
    \/ runs[r].state = "queued" /\ \E now \in Readings : runs'[r] = Dispatched(runs[r], now)
    \/ /\ runs[r].state = "dispatching" /\ ~runs[r].prepared
       /\ \E ref \in Refs \cup {NoRef}, now \in Readings : runs'[r] = Prepared(runs[r], ref, now)
    \/ runs[r].state = "dispatching" /\ runs'[r] = Started(runs[r])
    \/ runs[r].state \in Executing /\ \E f \in FinishInput : runs'[r] = Finished(runs[r], f)

\* An id that was never used has a blank row.
UnusedIsBlank == \A r \in RunIds : runs[r].state = "none" => ~runs[r].prepared

\* Eviction compacts a finished Run or leaves it alone.
LEMMA EvictedRow ==
    ASSUME IInv, NEW c \in Connectors, NEW r \in RunIds
    PROVE  LET ev == EvictInboundReceipts(c, clock)
           IN  \/ ev.runs[r] = runs[r]
               \/ ev.runs[r].state = "compacted" /\ runs[r].state \in Terminal
<1>1. clock \in Nat
    BY BoundAssumption DEF IInv, TypeOK
<1> QED BY <1>1, EvictionFacts

\* RowStep is complete: a step changes a Run in no other way.
LEMMA RowSteps ==
    ASSUME IInv, UnusedIsBlank, [Next]_vars, NEW r \in RunIds
    PROVE  RowStep(r)
<1>0. runs \in [RunIds -> RunRow]
    BY Zenon DEF IInv, TypeOK
<1>1. ASSUME NEW e \in Events, NEW s \in Scopes, NEW n \in RunIds, IngestTextRun(e, s, n)
      PROVE  RowStep(r)
    <2> DEFINE ev == EvictInboundReceipts(EventConnector[e], clock)
    <2>1. EventConnector[e] \in Connectors /\ clock \in Nat
        BY FactAssumption, BoundAssumption DEF IInv, TypeOK
    <2>2. ev.runs \in [RunIds -> RunRow]
        BY <2>1, EvictionTyped, Zenon DEF IInv
    <2>3. \/ ev.runs[r] = runs[r]
          \/ ev.runs[r].state = "compacted" /\ runs[r].state \in Terminal
        BY <2>1, EvictedRow, Zenon
    <2>4. runs' = [ev.runs EXCEPT ![n] = NewRun(e, s, clock)] /\ ev.runs[n].state = "none"
        BY <1>1 DEF IngestTextRun
    <2> HIDE DEF ev
    <2>5. CASE r = n
        <3>1. runs[r].state = "none"
            BY <2>3, <2>4, <2>5, Zenon
        <3>2. runs'[r].state = "queued"
            BY <2>2, <2>4, <2>5, Zenon DEF NewRun, BlankRun
        <3> QED BY <1>1, <2>5, <3>1, <3>2, Zenon DEF RowStep, UnusedIsBlank
    <2>6. CASE r # n
        BY <2>2, <2>3, <2>4, <2>6, Zenon DEF RowStep
    <2> QED BY <2>5, <2>6, Zenon
<1>2. ASSUME NEW c \in Connectors, IngestWithoutRun(c) PROVE RowStep(r)
    BY <1>2, EvictedRow, Zenon DEF IngestWithoutRun, RowStep
<1>3. ASSUME NEW q \in RunIds, NEW now \in Readings, ClaimQueuedRun(q, now) PROVE RowStep(r)
    <2> DEFINE rows == ReleaseExpired(now)
    <2>1. rows[r] = IF runs[r].state = "dispatching" /\ runs[r].expires <= now
                    THEN Requeued(runs[r]) ELSE runs[r]
        BY Zenon DEF ReleaseExpired
    <2>2. /\ runs' = [rows EXCEPT ![q] = Dispatched(rows[q], now)]
          /\ rows[q].state = "queued"
          /\ DOMAIN rows = RunIds
        BY <1>3 DEF ClaimQueuedRun, ReleaseExpired
    <2>3. runs'[r] = IF r = q THEN Dispatched(rows[r], now) ELSE rows[r]
        BY <2>2, Zenon
    <2> HIDE DEF rows
    <2> QED BY <2>1, <2>2, <2>3 DEF RowStep
<1>4. ASSUME NEW q \in RunIds, NEW now \in Readings, NEW tok, NEW ref \in Refs \cup {NoRef},
             PrepareRunStart(q, tok, ref, now)
      PROVE  RowStep(r)
    <2>1. /\ runs' = [runs EXCEPT ![q] = Prepared(runs[q], ref, now)]
          /\ runs[q].state = "dispatching" /\ ~runs[q].prepared
        BY <1>4 DEF PrepareRunStart
    <2> QED BY <1>0, <2>1, Zenon DEF RowStep
<1>5. ASSUME NEW q \in RunIds, NEW now, NEW tok, MarkRunRunning(q, tok, now) PROVE RowStep(r)
    <2>1. runs' = [runs EXCEPT ![q] = Started(runs[q])] /\ runs[q].state = "dispatching"
        BY <1>5, Zenon DEF MarkRunRunning
    <2> QED BY <1>0, <2>1, Zenon DEF RowStep
<1>6. ASSUME NEW q \in RunIds, NEW now, NEW tok, NEW f \in FinishInput, FinishRun(q, tok, f, now)
      PROVE  RowStep(r)
    <2>1. \/ runs' = runs
          \/ runs' = [runs EXCEPT ![q] = Finished(runs[q], f)] /\ runs[q].state \in Executing
        BY <1>6, Zenon DEF FinishRun
    <2> QED BY <1>0, <2>1, Zenon DEF RowStep
<1>7. ASSUME \/ Deliver \/ (\E s \in Scopes : ResetSession(s)) \/ Tick \/ StepBack
             \/ UNCHANGED vars
      PROVE  RowStep(r)
    <2>1. runs' = runs
        BY <1>7, ZenonT(60) DEF Deliver, ClaimTextDeliveries, CompleteDelivery, ResetSession, Tick, StepBack,
                    vars
    <2> QED BY <2>1, Zenon DEF RowStep
<1> QED BY <1>1, <1>2, <1>3, <1>4, <1>5, <1>6, <1>7 DEF Next, Ingest, Dispatch

\* The columns that the statements on a Run write and leave alone.
KeepsStart(x, row) ==
    /\ x.scope = row.scope
    /\ x.prepared = row.prepared /\ x.startRef = row.startRef /\ x.deadline = row.deadline

\* What each operation on a row does to its state, its start and its lease.
LEMMA RowStepFields ==
    ASSUME NEW row \in RunRow
    PROVE  /\ Requeued(row).state = "queued" /\ KeepsStart(Requeued(row), row)
           /\ \A now \in Nat :
                  /\ Dispatched(row, now).state = "dispatching"
                  /\ KeepsStart(Dispatched(row, now), row)
                  /\ Dispatched(Requeued(row), now).state = "dispatching"
                  /\ KeepsStart(Dispatched(Requeued(row), now), row)
           /\ \A ref, now :
                  /\ Prepared(row, ref, now).state = row.state
                  /\ Prepared(row, ref, now).token = row.token
                  /\ Prepared(row, ref, now).scope = row.scope
           /\ Started(row).state = "running" /\ Started(row).token = row.token
           /\ KeepsStart(Started(row), row)
           /\ \A f \in FinishInput :
                  /\ Finished(row, f).state \in Terminal
                  /\ Finished(row, f).token = row.token
                  /\ KeepsStart(Finished(row, f), row)
<1>1. Requeued(row).state = "queued" /\ KeepsStart(Requeued(row), row)
    BY Zenon DEF Requeued, RunRow, KeepsStart
<1>2. ASSUME NEW now \in Nat, NEW x \in RunRow
      PROVE  Dispatched(x, now).state = "dispatching" /\ KeepsStart(Dispatched(x, now), x)
    BY Zenon DEF Dispatched, RunRow, KeepsStart
<1>3. Requeued(row) \in RunRow
    BY RunUpdatesTyped, Zenon
<1>4. ASSUME NEW now \in Nat
      PROVE  /\ Dispatched(row, now).state = "dispatching"
             /\ KeepsStart(Dispatched(row, now), row)
             /\ Dispatched(Requeued(row), now).state = "dispatching"
             /\ KeepsStart(Dispatched(Requeued(row), now), row)
    BY <1>1, <1>2, <1>3, Zenon DEF KeepsStart
<1>5. ASSUME NEW ref, NEW now
      PROVE  /\ Prepared(row, ref, now).state = row.state
             /\ Prepared(row, ref, now).token = row.token
             /\ Prepared(row, ref, now).scope = row.scope
    BY Zenon DEF Prepared, RunRow
<1>6. Started(row).state = "running" /\ Started(row).token = row.token /\ KeepsStart(Started(row), row)
    BY Zenon DEF Started, RunRow, KeepsStart
<1>7. ASSUME NEW f \in FinishInput
      PROVE  /\ Finished(row, f).state \in Terminal
             /\ Finished(row, f).token = row.token
             /\ KeepsStart(Finished(row, f), row)
    <2>1. f.state \in Terminal
        BY Zenon DEF FinishInput, Terminal
    <2> QED BY <2>1 DEF Finished, RunRow, KeepsStart
<1> QED BY <1>1, <1>4, <1>5, <1>6, <1>7, Zenon

\* Core's invariant with the blank rows of ids that were never used.
SInv == IInv /\ UnusedIsBlank

\* No id is used at the beginning.
LEMMA SInvInit == Init => SInv
<1> SUFFICES ASSUME Init PROVE SInv
    BY Zenon
<1>1. IInv
    BY InvInit
<1>2. UnusedIsBlank
    BY Zenon DEF Init, UnusedIsBlank, EmptyRun, BlankRun
<1> QED BY <1>1, <1>2 DEF SInv

\* An unused id stays blank until a Run is made under it.
LEMMA SInvNext == SInv /\ [Next]_vars => SInv'
<1> SUFFICES ASSUME SInv, [Next]_vars PROVE SInv'
    BY Zenon
<1>1. IInv'
    BY InvNext, Zenon DEF SInv
<1>2. ASSUME NEW r \in RunIds, runs'[r].state = "none" PROVE ~runs'[r].prepared
    <2>1. RowStep(r)
        BY RowSteps, Zenon DEF SInv
    <2>2. runs[r] \in RunRow /\ Readings \subseteq Nat
        BY ReadingsAreTimes, Zenon DEF SInv, IInv, TypeOK
    <2>3. "none" \notin Terminal \cup Executing
        BY Zenon DEF Terminal, Executing
    <2>4. runs'[r] = runs[r]
        BY <1>2, <2>1, <2>2, <2>3, RowStepFields DEF RowStep
    <2> QED BY <1>2, <2>4, Zenon DEF SInv, UnusedIsBlank
<1> QED BY <1>1, <1>2, Zenon DEF SInv, UnusedIsBlank

\* The invariant the action properties rest on always holds.
LEMMA StepInvariance == Spec => []SInv
<1> QED BY SInvInit, SInvNext, PTL DEF Spec

\* A step changes the start of no prepared Run, moves a started Run only to its outcome
\* and leaves live leases alone; and it makes no Run unfinished but a new one.
LEMMA RunKept ==
    ASSUME SInv, [Next]_vars, NEW r \in RunIds
    PROVE  /\ runs[r].prepared =>
                  \/ runs'[r].state = "compacted"
                  \/ /\ runs'[r].prepared
                     /\ runs'[r].startRef = runs[r].startRef
                     /\ runs'[r].deadline = runs[r].deadline
           /\ runs[r].state = "running" =>
                  runs'[r].state \in {"running"} \cup Terminal /\ runs'[r].token = runs[r].token
           /\ runs[r].state \in Terminal => runs'[r] = runs[r] \/ runs'[r].state = "compacted"
           /\ runs[r].state = "dispatching" /\ runs[r].expires > high =>
                  runs'[r].state # "queued" /\ runs'[r].token = runs[r].token
           /\ runs'[r].state \in NonTerminal =>
                  \/ runs[r].state \in NonTerminal /\ runs'[r].scope = runs[r].scope
                  \/ \E e \in Events, s \in Scopes : IngestTextRun(e, s, r)
<1>1. RowStep(r)
    BY RowSteps, Zenon DEF SInv
<1>2. runs[r] \in RunRow /\ Readings \subseteq Nat
    BY ReadingsAreTimes, Zenon DEF SInv, IInv, TypeOK
<1>3. \A now \in Readings : now <= high
    BY BoundAssumption DEF SInv, IInv, TypeOK, Readings
<1>4. high \in Nat /\ runs[r].expires \in Nat
    BY <1>2, BoundAssumption DEF SInv, IInv, TypeOK, RunRow
<1>5. CASE runs'[r] = runs[r]
    BY <1>5, <1>2, Zenon
<1>6. CASE /\ runs[r].state = "none" /\ runs'[r].state = "queued" /\ ~runs[r].prepared
           /\ \E e \in Events, s \in Scopes : IngestTextRun(e, s, r)
    BY <1>6 DEF Terminal
<1>7. CASE runs[r].state \in Terminal /\ runs'[r].state = "compacted"
    BY <1>7 DEF Terminal, NonTerminal, Executing
<1>8. ASSUME NEW now \in Readings, runs[r].state = "dispatching", runs[r].expires <= now,
             runs'[r] \in {Requeued(runs[r]), Dispatched(Requeued(runs[r]), now)}
      PROVE  /\ ~(runs[r].expires > high)
             /\ runs'[r].state \in {"queued", "dispatching"} /\ KeepsStart(runs'[r], runs[r])
    BY <1>2, <1>3, <1>4, <1>8, RowStepFields
<1>9. ASSUME NEW now \in Readings, runs[r].state = "queued", runs'[r] = Dispatched(runs[r], now)
      PROVE  runs'[r].state = "dispatching" /\ KeepsStart(runs'[r], runs[r])
    BY <1>2, <1>9, RowStepFields
<1>10. ASSUME NEW ref, NEW now, runs[r].state = "dispatching", ~runs[r].prepared,
              runs'[r] = Prepared(runs[r], ref, now)
       PROVE  /\ runs'[r].state = "dispatching" /\ runs'[r].token = runs[r].token
              /\ runs'[r].scope = runs[r].scope
    BY <1>2, <1>10, RowStepFields
<1>11. ASSUME runs[r].state = "dispatching", runs'[r] = Started(runs[r])
       PROVE  /\ runs'[r].state = "running" /\ runs'[r].token = runs[r].token
              /\ KeepsStart(runs'[r], runs[r])
    BY <1>2, <1>11, RowStepFields
<1>12. ASSUME NEW f \in FinishInput, runs[r].state \in Executing, runs'[r] = Finished(runs[r], f)
       PROVE  /\ runs'[r].state \in Terminal /\ runs'[r].token = runs[r].token
              /\ KeepsStart(runs'[r], runs[r])
    BY <1>2, <1>12, RowStepFields
<1>13. Terminal \cap NonTerminal = {} /\ Executing \subseteq NonTerminal
       /\ Executing = {"dispatching", "running"} /\ {"queued", "dispatching", "running"} = NonTerminal
    BY Zenon DEF Terminal, NonTerminal, Executing
<1>14. CASE \E now \in Readings :
                /\ runs[r].state = "dispatching" /\ runs[r].expires <= now
                /\ runs'[r] \in {Requeued(runs[r]), Dispatched(Requeued(runs[r]), now)}
    BY <1>8, <1>13, <1>14, Zenon DEF KeepsStart
<1>15. CASE runs[r].state = "queued" /\ \E now \in Readings : runs'[r] = Dispatched(runs[r], now)
    BY <1>9, <1>13, <1>15, Zenon DEF KeepsStart
<1>16. CASE /\ runs[r].state = "dispatching" /\ ~runs[r].prepared
            /\ \E ref \in Refs \cup {NoRef}, now \in Readings : runs'[r] = Prepared(runs[r], ref, now)
    BY <1>10, <1>13, <1>16, Zenon
<1>17. CASE runs[r].state = "dispatching" /\ runs'[r] = Started(runs[r])
    BY <1>11, <1>13, <1>17 DEF KeepsStart
<1>18. CASE runs[r].state \in Executing /\ \E f \in FinishInput : runs'[r] = Finished(runs[r], f)
    BY <1>12, <1>13, <1>18 DEF KeepsStart
<1> QED BY <1>1, <1>5, <1>6, <1>7, <1>14, <1>15, <1>16, <1>17, <1>18, Zenon DEF RowStep

\* A resent StartRun is the first one: what PrepareRunStart added never changes.
THEOREM StartIsFrozen == Spec => PreparedStartFrozen
<1>1. ASSUME SInv, [Next]_vars
      PROVE  [\A r \in RunIds :
                 runs[r].prepared =>
                     \/ runs'[r].state = "compacted"
                     \/ /\ runs'[r].prepared
                        /\ runs'[r].startRef = runs[r].startRef
                        /\ runs'[r].deadline = runs[r].deadline]_vars
    BY <1>1, RunKept, Zenon
<1> QED BY <1>1, StepInvariance, PTL DEF Spec, PreparedStartFrozen

\* A Run that MarkRunRunning started is not dispatched again, and an outcome that
\* FinishRun stored stays as it is until eviction compacts it.
THEOREM StartedOnce == Spec => StartedRunNeverRestarts
<1>1. ASSUME SInv, [Next]_vars
      PROVE  [\A r \in RunIds :
                 /\ runs[r].state = "running" =>
                        /\ runs'[r].state \in {"running"} \cup Terminal
                        /\ runs'[r].token = runs[r].token
                 /\ runs[r].state \in Terminal =>
                        runs'[r] = runs[r] \/ runs'[r].state = "compacted"]_vars
    BY <1>1, RunKept, Zenon
<1> QED BY <1>1, StepInvariance, PTL DEF Spec, StartedRunNeverRestarts

\* ClaimQueuedRun takes no dispatch lease away that no reading of the clock has passed.
THEOREM LiveLeaseStays == Spec => LiveDispatchLeaseKept
<1>1. ASSUME SInv, [Next]_vars
      PROVE  [\A r \in RunIds :
                 runs[r].state = "dispatching" /\ runs[r].expires > high =>
                     runs'[r].state # "queued" /\ runs'[r].token = runs[r].token]_vars
    BY <1>1, RunKept, Zenon
<1> QED BY <1>1, StepInvariance, PTL DEF Spec, LiveDispatchLeaseKept

Unfinished(c) == {r \in RunIds : runs[r].state \in NonTerminal /\ Connector(r) = c}

\* Sets of Runs are finite, and a subset has no more members.
LEMMA UnfinishedFinite ==
    ASSUME NEW S \in SUBSET RunIds, NEW T \in SUBSET S
    PROVE  /\ IsFiniteSet(S) /\ Cardinality(S) \in Nat /\ Cardinality(T) \in Nat
           /\ Cardinality(T) <= Cardinality(S)
<1>1. IsFiniteSet(S)
    BY IdAssumption, FS_Subset, Zenon
<1>2. IsFiniteSet(T) /\ Cardinality(T) <= Cardinality(S)
    BY <1>1, FS_Subset, Zenon
<1> QED BY <1>1, <1>2, FS_CardinalityType, Zenon

\* Admission finds fewer queued Runs than the quota, and one Run at most has left the
\* queue: with the new one they are within the quota and one.
LEMMA AdmissionWithinQuota ==
    ASSUME SInv, NEW e \in Events, NEW s \in Scopes, NEW n \in RunIds, IngestTextRun(e, s, n)
    PROVE  Cardinality(Unfinished(EventConnector[e])') <= MaxQueued + 1
<1> DEFINE c == EventConnector[e]
           ev == EvictInboundReceipts(c, clock)
           kept == {r \in RunIds : ev.runs[r].state \in Stored /\ ScopeConnector[ev.runs[r].scope] = c}
           Q == {r \in kept : ev.runs[r].state = "queued"}
           X == {r \in RunIds : runs[r].state \in Executing}
<1>1. c \in Connectors /\ clock \in Nat
    BY FactAssumption, BoundAssumption DEF SInv, IInv, TypeOK
<1>2. Cardinality(Q) < MaxQueued
    BY Zenon DEF IngestTextRun, HasCapacity
<1>3. runs' = [ev.runs EXCEPT ![n] = NewRun(e, s, clock)] /\ ev.runs \in [RunIds -> RunRow]
    BY <1>1, EvictionTyped, Zenon DEF IngestTextRun, SInv, IInv
<1>4. \A r \in RunIds :
          \/ ev.runs[r] = runs[r]
          \/ ev.runs[r].state = "compacted" /\ runs[r].state \in Terminal
    BY <1>1, EvictedRow, Zenon DEF SInv
<1>5. Unfinished(c)' \subseteq (Q \cup {n}) \cup X
    <2> HIDE DEF ev
    <2> SUFFICES ASSUME NEW r \in RunIds, runs'[r].state \in NonTerminal,
                        ScopeConnector[runs'[r].scope] = c, r # n, r \notin X
                 PROVE  r \in Q
        BY DEF Unfinished, Connector
    <2>1. runs'[r] = ev.runs[r]
        BY <1>3, Zenon
    <2>2. "compacted" \notin NonTerminal
        BY Zenon DEF NonTerminal, Executing
    <2>3. ev.runs[r] = runs[r]
        BY <1>4, <2>1, <2>2, Zenon
    <2> QED BY <2>1, <2>3, Zenon DEF NonTerminal, Stored
<1> HIDE DEF ev
<1>6. \A r, q \in X : r = q
    BY Zenon DEF SInv, IInv, GlobalOneExecution
<1>7. Q \in SUBSET RunIds /\ Q \cup {n} \in SUBSET RunIds /\ X \in SUBSET RunIds
      /\ Unfinished(c)' \in SUBSET RunIds
    BY Zenon DEF Unfinished
<1> HIDE DEF Q, X, c
<1>8. /\ IsFiniteSet(Q) /\ Cardinality(Q) \in Nat
      /\ IsFiniteSet(Q \cup {n}) /\ Cardinality(Q \cup {n}) \in Nat
    BY <1>7, UnfinishedFinite, Zenon
<1>9. Cardinality(Q \cup {n}) <= MaxQueued
    <2>1. Cardinality(Q \cup {n}) = IF n \in Q THEN Cardinality(Q) ELSE Cardinality(Q) + 1
        BY <1>8, FS_AddElement, Zenon
    <2> QED BY <1>2, <1>8, <2>1, QuotaAssumption
<1>10. CASE X = {}
    <2>1. Unfinished(c)' \in SUBSET (Q \cup {n})
        BY <1>5, <1>10, Zenon
    <2>2. Cardinality(Unfinished(c)') <= Cardinality(Q \cup {n}) /\ Cardinality(Unfinished(c)') \in Nat
        BY <1>7, <2>1, UnfinishedFinite, Zenon
    <2> QED BY <1>8, <1>9, <2>2, QuotaAssumption DEF c
<1>11. CASE X # {}
    <2> PICK x \in X : TRUE
        BY <1>11, Zenon
    <2>1. Unfinished(c)' \in SUBSET ((Q \cup {n}) \cup {x}) /\ (Q \cup {n}) \cup {x} \in SUBSET RunIds
        BY <1>5, <1>6, <1>7, Zenon
    <2>2. /\ Cardinality(Unfinished(c)') <= Cardinality((Q \cup {n}) \cup {x})
          /\ Cardinality(Unfinished(c)') \in Nat
        BY <2>1, UnfinishedFinite, Zenon
    <2>3. Cardinality((Q \cup {n}) \cup {x}) =
              IF x \in Q \cup {n} THEN Cardinality(Q \cup {n}) ELSE Cardinality(Q \cup {n}) + 1
        BY <1>8, FS_AddElement, Zenon
    <2> QED BY <1>8, <1>9, <2>2, <2>3, QuotaAssumption DEF c
<1> QED BY <1>10, <1>11, Zenon

\* The quota on queued Runs, which only admission checks and which a requeued Run may
\* pass, bounds the unfinished Runs of a connector all the same.
THEOREM QuotaBoundsUnfinished == Spec => []QueueQuotaBoundsUnfinished
<1>1. Init => QueueQuotaBoundsUnfinished
    <2> SUFFICES ASSUME Init, NEW c \in Connectors
                 PROVE  Cardinality(Unfinished(c)) <= MaxQueued + 1
        BY Zenon DEF QueueQuotaBoundsUnfinished, Unfinished
    <2>1. Unfinished(c) = {}
        BY DEF Init, Unfinished, EmptyRun, BlankRun, NonTerminal, Executing
    <2> QED BY <2>1, FS_EmptySet, QuotaAssumption
<1>2. SInv /\ QueueQuotaBoundsUnfinished /\ [Next]_vars => QueueQuotaBoundsUnfinished'
    <2> SUFFICES ASSUME SInv, QueueQuotaBoundsUnfinished, [Next]_vars, NEW c \in Connectors
                 PROVE  Cardinality(Unfinished(c)') <= MaxQueued + 1
        BY Zenon DEF QueueQuotaBoundsUnfinished, Unfinished, Connector
    <2>1. Cardinality(Unfinished(c)) <= MaxQueued + 1
        BY Zenon DEF QueueQuotaBoundsUnfinished, Unfinished
    <2>2. CASE Unfinished(c)' \in SUBSET Unfinished(c)
        <3>1. Unfinished(c) \in SUBSET RunIds
            BY Zenon DEF Unfinished
        <3>2. /\ Cardinality(Unfinished(c)') <= Cardinality(Unfinished(c))
              /\ Cardinality(Unfinished(c)') \in Nat /\ Cardinality(Unfinished(c)) \in Nat
            BY <2>2, <3>1, UnfinishedFinite
        <3> QED BY <2>1, <3>2, QuotaAssumption
    <2>3. CASE Unfinished(c)' \notin SUBSET Unfinished(c)
        <3>1. PICK r \in RunIds :
                  /\ runs'[r].state \in NonTerminal
                  /\ ScopeConnector[runs'[r].scope] = c
                  /\ r \notin Unfinished(c)
            BY <2>3, Zenon DEF Unfinished, Connector
        <3>2. PICK e \in Events, s \in Scopes : IngestTextRun(e, s, r)
            BY <3>1, RunKept DEF Unfinished, Connector
        <3>3. runs'[r].scope = s /\ ScopeConnector[s] = EventConnector[e]
            <4>1. EventConnector[e] \in Connectors /\ clock \in Nat
                BY FactAssumption, BoundAssumption DEF SInv, IInv, TypeOK
            <4>2. EvictInboundReceipts(EventConnector[e], clock).runs \in [RunIds -> RunRow]
                BY <4>1, EvictionTyped DEF SInv, IInv
            <4> QED BY <3>2, <4>2, Zenon DEF IngestTextRun, NewRun, BlankRun
        <3> QED BY <3>1, <3>2, <3>3, AdmissionWithinQuota
    <2> QED BY <2>2, <2>3, Zenon
<1> QED BY <1>1, <1>2, StepInvariance, PTL DEF Spec

\* Whenever IngestTextRun admits a Run, evictInboundReceipts has left no terminal Run of
\* the connector that neither a receipt nor a reply to be sent still needs.
THEOREM NothingElseIsRetained == Spec => RetainsOnlyWhatIsNeeded
<1>1. ASSUME SInv, [Next]_vars
      PROVE  [\A r \in RunIds :
                 runs[r].state \notin Stored /\ runs'[r].state = "queued" =>
                     \A q \in RunIds :
                         runs'[q].state \in Terminal /\ Connector(q)' = Connector(r)' =>
                             HasReceipt(receipts', q) \/ deliveries'[q].state \in Unsettled]_vars
    <2> SUFFICES ASSUME NEW r \in RunIds, runs[r].state \notin Stored, runs'[r].state = "queued",
                        NEW q \in RunIds, runs'[q].state \in Terminal,
                        ScopeConnector[runs'[q].scope] = ScopeConnector[runs'[r].scope]
                 PROVE  HasReceipt(receipts', q) \/ deliveries'[q].state \in Unsettled
        BY DEF Connector
    <2>1. PICK e \in Events, s \in Scopes : IngestTextRun(e, s, r)
        BY <1>1, RunKept DEF NonTerminal, Stored
    <2> DEFINE c == EventConnector[e]
               ev == EvictInboundReceipts(c, clock)
    <2>2. c \in Connectors /\ clock \in Nat
        BY <1>1, FactAssumption, BoundAssumption DEF SInv, IInv, TypeOK
    <2>3. /\ ev.runs \in [RunIds -> RunRow]
          /\ ev.receipts \in [Events -> RunIds \cup {NoRun}]
        BY <1>1, <2>2, EvictionTyped, Zenon DEF SInv, IInv
    <2>4. /\ runs' = [ev.runs EXCEPT ![r] = NewRun(e, s, clock)] /\ ScopeConnector[s] = c
          /\ receipts' = [ev.receipts EXCEPT ![e] = r] /\ ev.receipts[e] = NoRun
          /\ deliveries' = ev.deliveries
        BY <2>1, Zenon DEF IngestTextRun
    <2>5. \/ ev.runs[q] = runs[q]
          \/ ev.runs[q].state = "compacted" /\ runs[q].state \in Terminal
        BY <1>1, <2>2, EvictedRow, Zenon DEF SInv
    <2>6. ev.runs[q].state \in Terminal /\ Connector(q) = c =>
              HasReceipt(ev.receipts, q) \/ ev.deliveries[q].state \in Unsettled
        BY <1>1, <2>2, EvictedReply, Zenon DEF SInv
    <2> HIDE DEF ev, c
    <2>7. q # r
        BY DEF Terminal
    <2>8. ev.runs[q] = runs[q] /\ runs'[q] = runs[q]
        BY <2>3, <2>4, <2>5, <2>7, Zenon DEF Terminal
    <2>9. runs'[r].scope = s
        BY <2>3, <2>4, Zenon DEF NewRun, BlankRun
    <2>10. HasReceipt(ev.receipts, q) => HasReceipt(receipts', q)
        BY <2>3, <2>4, IdAssumption, Zenon DEF HasReceipt, NoRun
    <2> QED BY <2>4, <2>6, <2>8, <2>9, <2>10, Zenon DEF Connector
<1> QED BY <1>1, StepInvariance, PTL DEF Spec, RetainsOnlyWhatIsNeeded

====
