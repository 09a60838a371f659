-------------------------- MODULE DiscordConnector --------------------------
(***************************************************************************)
(* internal/discordconnector: one loop that alternates an ingress pass     *)
(* (PollOnce: the channel's messages, in order, into Core behind a durable *)
(* cursor) and a delivery pass (DeliverOnce: Core's leased replies, chunk  *)
(* by chunk, onto the channel behind a durable record of what was sent),   *)
(* against Core as internal/agentservice offers it and against Discord.    *)
(*                                                                         *)
(* Every call of the loop is a step; a crash may fall between any two.  A  *)
(* call may fail, or take effect and lose its answer (with the crashes     *)
(* MaxFaults in all).  The Discord side is external: `after` returns the   *)
(* oldest messages behind the cursor, and identifiers grow with posting.   *)
(*                                                                         *)
(* Core is what CoreStore proves it to be, seen by its one Connector: an   *)
(* event becomes at most one Run, one Run of the conversation at a time, a *)
(* terminal Run has one reply, a lease runs out.  A message that is older  *)
(* than Core's acceptance window is refused for good, and so is one whose  *)
(* text was edited after Core got it.  A policy of agentd without a        *)
(* binding for the conversation refuses every event, which the Connector   *)
(* must sit out.  Left out: what messages say and the splitting of a       *)
(* reply, the pacing of the loop, counters and logging.                    *)
(***************************************************************************)
EXTENDS Naturals, FiniteSets, FiniteSetsExt, SequencesExt

CONSTANTS
    MaxMessage,     \* bound: messages 1..MaxMessage are posted to the channel
    Admissible,     \* messages that Normalize turns into an event
    Unpostable,     \* events whose reply cannot be split into allowed chunks
    CatchUpLimit, ClaimLimit,
    Parts,          \* chunks of a reply
    NoCursor,
    LongOutage,     \* agentd may be away for longer than sentRetention
    MaxEdits,       \* bound: edits of a message, and restarts of agentd with another policy
    MaxFaults       \* bound: calls that fail or lose their answer, and crashes

Messages == 1..MaxMessage

ASSUME ConnectorAssumption ==
    /\ Unpostable \subseteq Admissible /\ Admissible \subseteq Messages
    /\ {CatchUpLimit, ClaimLimit, Parts} \subseteq Nat \ {0}
    /\ LongOutage \in BOOLEAN /\ {MaxEdits, MaxFaults} \subseteq Nat

VARIABLES
    head,       \* Discord: the newest message of the channel
    text,       \* Discord: the version of each message's text
    posts,      \* Discord: the chunks of each reply, in the order they appeared
    cursor,     \* Connector, durable: the ingress cursor, NoCursor before adoption
    sent,       \* Connector, durable: sent_deliveries
    chunks,     \* Connector, durable: the length of each prefix of sent_chunks
    svc,        \* Connector, in memory: the loop
    receipts,   \* Core: the events with an inbound receipt, as they were admitted
    old,        \* Core: messages that are behind the acceptance window
    out,        \* Core: the reply to each event
    bound,      \* Core: the policy has a binding for the conversation
    ever,       \* history: events that became a Run
    refused,    \* history: events that Core refused for good
    recorded,   \* history: deliveries that were recorded as sent
    edits, faults

discord == <<head, text, posts>>
local == <<cursor, sent, chunks>>
corevars == <<receipts, old, out, bound>>
history == <<ever, refused, recorded>>
vars == <<discord, local, svc, corevars, history, edits, faults>>

-----------------------------------------------------------------------------
\* The loop: its next call, the rest of the window and of the batch, the chunk
\* being sent, and the outcome to complete with.
At(pc) == [pc |-> pc, window |-> <<>>, batch |-> <<>>, part |-> 0, outcome |-> "none"]

\* A channel that has a history when the Connector is deployed, or none.
Init ==
    /\ head \in 0..1 /\ text = [m \in Messages |-> 0] /\ posts = [m \in Messages |-> <<>>]
    /\ cursor = NoCursor /\ sent = {} /\ chunks = [m \in Messages |-> 0]
    /\ svc = At("poll")
    /\ receipts = {} /\ old = {} /\ out = [m \in Messages |-> "none"] /\ bound \in BOOLEAN
    /\ ever = {} /\ refused = {} /\ recorded = {}
    /\ edits = 0 /\ faults = 0

Fault == faults < MaxFaults /\ faults' = faults + 1

NoFault == UNCHANGED faults

\* The two ways a pass ends early: PollOnce goes on to DeliverOnce, which goes on
\* to the next cycle.
EndPoll == svc' = At("claim")
EndDeliver == svc' = At("poll")

-----------------------------------------------------------------------------
(* PollOnce *)

\* The oldest CatchUpLimit messages after the cursor, as they read now (external).
Window(after) ==
    LET last == Min({head, after + CatchUpLimit}) IN
    [i \in 1..last - after |-> [id |-> after + i, text |-> text[after + i]]]

ReadChannel ==
    /\ svc.pc = "poll"
    /\ \/ /\ NoFault
          /\ IF cursor = NoCursor
               THEN svc' = [At("adopt") EXCEPT !.window = <<head>>]
               ELSE svc' = [At("ingest") EXCEPT !.window = Window(cursor)]
       \/ Fault /\ EndPoll
    /\ UNCHANGED <<discord, local, corevars, history, edits>>

\* SetCursor moves only forward.
Forward(id) == IF cursor = NoCursor THEN id ELSE Max({cursor, id})

SetCursor(id) == cursor' = Forward(id) /\ UNCHANGED <<sent, chunks>>

\* adoptCursor: the newest message, or zero in an empty channel
AdoptCursor ==
    /\ svc.pc = "adopt"
    /\ \/ NoFault /\ SetCursor(svc.window[1])
       \/ Fault /\ (SetCursor(svc.window[1]) \/ UNCHANGED local)
    /\ EndPoll
    /\ UNCHANGED <<discord, corevars, history, edits>>

RunInProgress == \E m \in ever : out[m] = "none"

HasReceipt(m) == \E event \in receipts : event.id = m

\* Core's answer to an event: a repetition is recognised by its receipt, before
\* anything else, and refused if it is not the event that was admitted; then come
\* its age, the policy, and a busy conversation, which like a quota refuses for now.
IngestAnswer(event) ==
    IF event \in receipts THEN "duplicate"
    ELSE IF HasReceipt(event.id) THEN "conflict"
    ELSE IF event.id \in old THEN "expired"
    ELSE IF ~bound THEN "forbidden"
    ELSE IF RunInProgress THEN "busy" ELSE "accepted"

\* Mutant: a refusal of the configuration is taken for one of the event.
AnyConfiguration(answer) == answer \in {"expired", "conflict", "forbidden"}

\* Mutant: an event that conflicts with its receipt is presented again.
ExpiredOnly(answer) == answer = "expired"

RefusedForGood(answer) == answer \in {"expired", "conflict"}

Admit(event, answer) ==
    /\ receipts' = IF answer = "accepted" THEN receipts \cup {event} ELSE receipts
    /\ ever' = IF answer = "accepted" THEN ever \cup {event.id} ELSE ever
    /\ refused' = IF answer \in {"expired", "conflict"} THEN refused \cup {event.id} ELSE refused
    /\ UNCHANGED <<old, out, bound, recorded>>

\* One message of the window: filtered out, or offered to Core.
IngestMessage ==
    /\ svc.pc = "ingest" /\ svc.window # <<>>
    /\ LET event == Head(svc.window)
           answer == IngestAnswer(event)
       IN  \/ /\ event.id \notin Admissible /\ NoFault
              /\ svc' = [svc EXCEPT !.pc = "advance"] /\ UNCHANGED <<corevars, history>>
           \/ /\ event.id \in Admissible /\ NoFault
              /\ Admit(event, answer)
              /\ IF answer \in {"accepted", "duplicate"} \/ RefusedForGood(answer)
                   THEN svc' = [svc EXCEPT !.pc = "advance"] ELSE EndPoll
           \/ /\ event.id \in Admissible /\ Fault
              /\ Admit(event, answer) \/ UNCHANGED <<corevars, history>>
              /\ EndPoll
    /\ UNCHANGED <<discord, local, edits>>

WindowDone ==
    /\ svc.pc = "ingest" /\ svc.window = <<>>
    /\ EndPoll
    /\ UNCHANGED <<discord, local, corevars, history, faults, edits>>

AdvanceCursor ==
    LET m == Head(svc.window).id IN
    /\ svc.pc = "advance"
    /\ \/ /\ NoFault /\ SetCursor(m)
          /\ svc' = [svc EXCEPT !.pc = "ingest", !.window = Tail(@)]
       \/ /\ Fault /\ (SetCursor(m) \/ UNCHANGED local)
          /\ EndPoll
    /\ UNCHANGED <<discord, corevars, history, edits>>

-----------------------------------------------------------------------------
(* DeliverOnce *)

Claimable == {m \in Messages : out[m] \in {"pending", "expired"}}

Lease(batch) ==
    out' = [m \in Messages |-> IF m \in Range(batch) THEN "leased" ELSE out[m]]

Claim ==
    /\ svc.pc = "claim"
    /\ LET n == Min({ClaimLimit, Cardinality(Claimable)}) IN
       \E batch \in SetToAllKPermutations(Claimable) :
           /\ Len(batch) = n
           /\ \/ /\ NoFault /\ Lease(batch)
                 /\ svc' = IF n = 0 THEN At("poll") ELSE [At("deliver") EXCEPT !.batch = batch]
              \/ Fault /\ (Lease(batch) \/ UNCHANGED out) /\ EndDeliver
    /\ UNCHANGED <<discord, local, receipts, old, bound, history, edits>>

NextDelivery ==
    svc' = IF Len(svc.batch) = 1 THEN At("poll") ELSE [At("deliver") EXCEPT !.batch = Tail(svc.batch)]

Completing(outcome) == [svc EXCEPT !.pc = "complete", !.outcome = outcome]

\* Mutant: the chunks that were acknowledged are not looked up.
FromTheStart(m) == 1

\* SentChunks: the first chunk without a receipt
FirstUnsent(m) == chunks[m] + 1

\* deliver, up to its first call outside: what was sent already, and how much.
Deliver ==
    LET m == Head(svc.batch) IN
    /\ svc.pc = "deliver"
    /\ \/ /\ NoFault
          /\ svc' = IF m \in sent THEN Completing("delivered")
                    ELSE IF m \in Unpostable THEN Completing("rejected")
                    ELSE IF FirstUnsent(m) > Parts THEN [svc EXCEPT !.pc = "record"]
                    ELSE [svc EXCEPT !.pc = "send", !.part = FirstUnsent(m)]
       \/ Fault /\ EndDeliver
    /\ UNCHANGED <<discord, local, corevars, history, edits>>

Post(m) == posts' = [posts EXCEPT ![m] = Append(@, svc.part)] /\ UNCHANGED <<head, text>>

\* Mutant: a send without an answer counts as sent.
AssumeSent == [svc EXCEPT !.pc = "ack"]

\* APIError.Outcome for a failure before a response
SendUnanswered == Completing("retry")

\* SendMessage.  Without an answer the chunk may be on the channel; a status
\* says it is not; an answer without an identifier ends the pass.
SendMessage ==
    LET m == Head(svc.batch) IN
    /\ svc.pc = "send"
    /\ \/ NoFault /\ Post(m) /\ svc' = [svc EXCEPT !.pc = "ack"]
       \/ Fault /\ (Post(m) \/ UNCHANGED discord) /\ svc' = SendUnanswered
       \/ Fault /\ UNCHANGED discord /\ svc' = Completing("failed")
       \/ Fault /\ Post(m) /\ EndDeliver
    /\ UNCHANGED <<local, corevars, history, edits>>

Recorded(m) == [chunks EXCEPT ![m] = svc.part]

RecordChunk ==
    LET m == Head(svc.batch)
        insert == chunks' = Recorded(m) /\ UNCHANGED <<cursor, sent>> IN
    /\ svc.pc = "ack"
    /\ \/ /\ NoFault /\ insert
          /\ svc' = IF svc.part = Parts THEN [svc EXCEPT !.pc = "record"]
                    ELSE [svc EXCEPT !.pc = "send", !.part = @ + 1]
       \/ Fault /\ (insert \/ UNCHANGED local) /\ EndDeliver
    /\ UNCHANGED <<discord, corevars, history, edits>>

RecordSent ==
    LET m == Head(svc.batch)
        insert == /\ sent' = sent \cup {m} /\ recorded' = recorded \cup {m}
                  /\ UNCHANGED <<cursor, chunks>> IN
    /\ svc.pc = "record"
    /\ \/ NoFault /\ insert /\ svc' = Completing("delivered")
       \/ Fault /\ (insert \/ UNCHANGED <<local, recorded>>) /\ EndDeliver
    /\ UNCHANGED <<discord, corevars, ever, refused, edits>>

\* Complete.  Core refuses when the lease has run out.  After a failure of the
\* platform ("retry", "failed") the pass ends; after a reply that cannot be
\* posted ("rejected") it goes on.
Complete ==
    LET m == Head(svc.batch)
        state == CASE svc.outcome = "delivered" -> "delivered"
                   [] svc.outcome = "retry" -> "pending"
                   [] OTHER -> "failed"
        completed == out' = [out EXCEPT ![m] = state] IN
    /\ svc.pc = "complete"
    /\ \/ /\ NoFault /\ out[m] = "leased" /\ completed
          /\ IF svc.outcome \in {"delivered", "rejected"} THEN NextDelivery ELSE EndDeliver
       \/ NoFault /\ out[m] # "leased" /\ UNCHANGED out /\ EndDeliver
       \/ Fault /\ (UNCHANGED out \/ (out[m] = "leased" /\ completed)) /\ EndDeliver
    /\ UNCHANGED <<discord, local, receipts, old, bound, history, edits>>

-----------------------------------------------------------------------------
(* Retention, Core, Discord, time and crashes *)

Settled(m) == out[m] \in {"delivered", "failed"}

\* PruneSent drops records older than sentRetention.  Core has settled a reply
\* long before, unless it was away.
PruneSent ==
    \E m \in Messages :
        /\ m \in sent \/ chunks[m] > 0
        /\ LongOutage \/ Settled(m)
        /\ svc.pc = "poll"
        /\ sent' = sent \ {m} /\ chunks' = [chunks EXCEPT ![m] = 0]
        /\ UNCHANGED <<discord, cursor, svc, corevars, history, faults, edits>>

PostMessage ==
    /\ head < MaxMessage
    /\ head' = head + 1
    /\ UNCHANGED <<text, posts, local, svc, corevars, history, faults, edits>>

\* The author edits a message.
EditMessage(m) ==
    /\ m \in Admissible /\ m <= head /\ edits < MaxEdits /\ edits' = edits + 1
    /\ text' = [text EXCEPT ![m] = @ + 1]
    /\ UNCHANGED <<head, posts, local, svc, corevars, history, faults>>

\* agentd is restarted with a policy that binds the conversation, or one that does not.
RestartAgentd ==
    /\ edits < MaxEdits /\ edits' = edits + 1
    /\ bound' = ~bound
    /\ UNCHANGED <<discord, local, svc, receipts, old, out, history, faults>>

RunEnds(m) ==
    /\ m \in ever /\ out[m] = "none"
    /\ out' = [out EXCEPT ![m] = "pending"]
    /\ UNCHANGED <<discord, local, svc, receipts, old, bound, history, faults, edits>>

\* A lease is long for a pass: that it runs out under the pass is a fault.
LeaseExpires(m) ==
    /\ out[m] = "leased"
    /\ IF m \in Range(svc.batch) THEN Fault ELSE NoFault
    /\ out' = [out EXCEPT ![m] = "expired"]
    /\ UNCHANGED <<discord, local, svc, receipts, old, bound, history, edits>>

\* Messages grow old in order; Core then drops their receipts, though not a Run or
\* a reply that is not through.
GrowOld ==
    \/ \E m \in Messages :
           /\ m \notin old /\ m <= head /\ \A k \in 1..m - 1 : k \in old
           /\ old' = old \cup {m} /\ UNCHANGED <<receipts, out, bound>>
           /\ UNCHANGED <<discord, local, svc, history, faults, edits>>
    \/ \E event \in receipts :
           /\ event.id \in old /\ receipts' = receipts \ {event} /\ UNCHANGED <<old, out, bound>>
           /\ UNCHANGED <<discord, local, svc, history, faults, edits>>

Crash ==
    /\ Fault
    /\ svc' = At("poll")
    /\ UNCHANGED <<discord, local, corevars, history, edits>>

-----------------------------------------------------------------------------
Loop ==
    \/ ReadChannel \/ AdoptCursor \/ IngestMessage \/ WindowDone \/ AdvanceCursor
    \/ Claim \/ Deliver \/ SendMessage \/ RecordChunk \/ RecordSent \/ Complete

Next ==
    \/ Loop \/ PruneSent \/ PostMessage \/ RestartAgentd \/ GrowOld \/ Crash
    \/ \E m \in Messages : RunEnds(m) \/ LeaseExpires(m) \/ EditMessage(m)

Spec == Init /\ [][Next]_vars

\* The loop runs on, Core's Runs end, and leases run out.
Fairness ==
    /\ WF_vars(Loop)
    /\ \A m \in Messages : WF_vars(RunEnds(m)) /\ WF_vars(LeaseExpires(m))

FairSpec == Spec /\ Fairness

-----------------------------------------------------------------------------
(* Properties *)

\* The cursor never passes a message Core has not decided: every admissible
\* message behind it became a Run, was refused for good, or was there before the
\* Connector was deployed (the history an adopted cursor leaves out).  A lost
\* answer, a crash, a busy conversation or a policy without a binding never drops
\* a message.
NothingSkipped ==
    [][\A m \in Admissible :
           cursor # NoCursor /\ cursor' # cursor /\ m > cursor /\ m <= cursor' => m \in ever \cup refused]_vars

Doubled(m) == Len(posts[m]) - Cardinality(Range(posts[m]))

\* A chunk appears twice on the channel only where its acknowledgement was lost:
\* over all replies there are no more repetitions than mishaps (lost answers,
\* failed writes, crashes).  A chunk that was recorded is never sent again, nor a
\* delivery that is leased again.
RepetitionsArePaidFor == MapThenSumSet(Doubled, Messages) <= faults

\* A reply that Core calls delivered is on the channel, whole, and its chunks
\* first appeared in order, however many leases and restarts it took.
DeliveredIsPosted ==
    \A m \in Messages : out[m] = "delivered" =>
        /\ Range(posts[m]) = 1..Parts
        /\ \A i, j \in 1..Len(posts[m]) :
               i < j /\ posts[m][i] > posts[m][j] => \E k \in 1..i - 1 : posts[m][k] = posts[m][j]

\* While the policy binds the conversation, every admissible message posted behind
\* the cursor becomes a Run or is refused for good, and every reply settles: no
\* refusal, lost lease, edit or crash wedges the loop, and a policy without the
\* binding holds the cursor only until it is replaced.
NothingWedged ==
    \A m \in Admissible :
        /\ (cursor # NoCursor /\ cursor < m /\ m <= head) ~> (m \in ever \cup refused \/ ~bound)
        /\ out[m] = "pending" ~> Settled(m)

\* What the comment on deliver says of a delivery that was recorded as sent:
\* "complete the re-leased attempt, never resend".
RecordedNeverResent == [][\A m \in recorded : posts'[m] = posts[m]]_vars
=============================================================================
