----------------------------- MODULE MessageStream -----------------------------
(***************************************************************************)
(* The ordered stream of one XAACP actor (xaacp_stream.py) and the calls   *)
(* that take from it: parked wait_next calls, reads by id and the rail     *)
(* that adds pointers to tool results (conductor_comms.py).                *)
(*                                                                         *)
(* A message the actor is sent is an incoming event; the acknowledgement,  *)
(* decision or expiry of a message it sent is an outcome.  wait_next       *)
(* claims every event that is open, hands them out in one reply, and hands *)
(* an incoming one out again when no receipt came back in time.  The park  *)
(* log names the one call that may claim.                                  *)
(*                                                                         *)
(* A pass of wait_next reads its first candidate outside the transaction   *)
(* its claims are in, an expiry its due messages, a read by id the rows it *)
(* stamps: each is two steps.  Calls die, replies are lost, leases run out *)
(* at any moment.                                                          *)
(*                                                                         *)
(* A token is fresh on every claim and a replaced one proves nothing, so   *)
(* holds records who has the current token of a message, and no token.     *)
(* Outcomes are never redelivered: their receipts are not followed, nor    *)
(* the claim of an event once it is delivered.  Left out: lanes, the       *)
(* routes of cross-project messages, a batch that is full (20 events), and *)
(* confirm_surfaced, which no caller reaches with a claim.                 *)
(***************************************************************************)
EXTENDS Naturals, FiniteSets

CONSTANTS
    Incoming,       \* messages sent to the actor
    Sent,           \* messages it sent
    Call,           \* tool calls that can be in flight at once
    Reader,         \* those that may read a message by id
    MaxReclaims,    \* MAX_RECLAIMS
    MaxMessage      \* bound: messages sent

ASSUME MessageAssumption == Incoming \cap Sent = {} /\ "none" \notin Incoming \cup Sent
ASSUME CallAssumption == {"agent", "none"} \cap Call = {} /\ Reader \subseteq Call
ASSUME BoundAssumption == MaxReclaims \in Nat /\ MaxMessage \in Nat

Message == Incoming \cup Sent
Outcome == Sent \X {"acked", "decided", "expired"}
In(m) == <<m, "incoming">>
Event == {In(m) : m \in Incoming} \cup Outcome
NoEvent == <<"none", "none">>

VARIABLES
    \* the messages table
    status,     \* [Message -> Status], decision_status or status
    acked,      \* [Message -> BOOLEAN], acked_at
    due,        \* messages an expiry found due and has not stamped yet
    \* the stream: one row for each event
    seq,        \* [Event -> Nat], 0 until appended
    last,       \* the highest seq
    delivered,  \* [Event -> BOOLEAN], delivered_at
    received,   \* [Incoming -> BOOLEAN], received_at
    void,       \* [Event -> BOOLEAN], superseded_at
    claim,      \* [Event -> {"none", "live", "lapsed"}]: a rail's claim, its lease
    reclaims,   \* [Event -> 0..MaxReclaims], reclaim_count up to the limit
    receipt,    \* [Incoming -> {"none", "fresh", "lapsed"}], the receipt lease
    cursor,     \* the stored receive cursor, 0 when there is none
    \* the park log
    current,    \* the call of the newest park, or "none"
    \* the calls
    pc,         \* [Call -> Phase]
    pick,       \* [Call -> Event or NoEvent], the candidate a pass read
    rowset,     \* [Call -> SUBSET Event], the rows a read is to stamp
    keeps,      \* [Call -> SUBSET Event], those it saw with a token to keep
    carries,    \* [Call -> SUBSET Incoming], the messages in its reply
    \* the agent, and what is remembered of the past
    holds,      \* [Incoming -> SUBSET (Call, "agent")], who has its token
    seen,       \* messages whose text reached the agent
    handed      \* outcomes wait_next handed out

messages == <<status, acked, due>>
rows == <<seq, last, delivered, received, void, claim, reclaims, receipt>>
calls == <<pc, pick, rowset, keeps, carries>>
vars == <<messages, rows, cursor, current, calls, holds, seen, handed>>

Status == {"unsent", "pending", "decided", "expired", "canceled"}
Phase == {"idle", "parked", "looked", "reading", "reply"}
MessageOf(e) == e[1]

(***************************************************************************)
(* What the rows say.                                                      *)
(***************************************************************************)
Open(e) == seq[e] > 0 /\ ~delivered[e] /\ ~void[e]

\* Mutant: a claim is not given up when its lease runs out.
ClaimableOnce(e) == Open(e) /\ claim[e] = "none"

Claimable(e) == Open(e) /\ claim[e] # "live"

Redeliverable(m) ==
    /\ delivered[In(m)] /\ ~received[m]
    /\ receipt[m] = "lapsed" /\ ~void[In(m)]

\* What a message's state says to its sender now.
OutcomeState(m) ==
    IF status[m] \in {"decided", "expired"} THEN status[m]
    ELSE IF status[m] = "pending" /\ acked[m] THEN "acked"
    ELSE ""

\* Mutant: every outcome is news.
NeverOvertaken(e) == FALSE

Overtaken(e) == e \in Outcome /\ e[2] # OutcomeState(MessageOf(e))

Oldest(S) == CHOOSE e \in S : \A f \in S : seq[e] <= seq[f]
Newest(S) == CHOOSE e \in S : \A f \in S : seq[f] <= seq[e]

\* Mutant: a stored cursor only moves up.
NeverHealed(open, stored) ==
    IF open # {} /\ stored < seq[Oldest(open)] THEN seq[Oldest(open)] - 1
    ELSE IF open = {} /\ stored < last THEN last ELSE stored

\* The receive cursor: just below the oldest open event, wherever the stored
\* one is.
LowWater(open, stored) ==
    IF open # {} THEN seq[Oldest(open)] - 1
    ELSE IF stored > last THEN stored ELSE last

ReceiveCursor == LowWater({e \in Event : Open(e)}, cursor)

\* The cursor stored by a transaction that closed some events.
CursorWithout(closed) ==
    LowWater({e \in Event : Open(e)} \ closed, ReceiveCursor)

Redeliveries == {In(m) : m \in {x \in Incoming : Redeliverable(x)}}
Scan(floor) == {e \in Event : Claimable(e) /\ seq[e] > floor}

\* A batch goes on behind what it redelivered.
Floor == IF Redeliveries = {} THEN ReceiveCursor ELSE seq[Newest(Redeliveries)]

\* The store may come from an older build, with an open event at or below
\* the stored cursor.
Init ==
    \E old \in Incoming \cup {"none"} :
        /\ status = [m \in Message |-> IF m = old THEN "pending" ELSE "unsent"]
        /\ seq = [e \in Event |-> IF MessageOf(e) = old THEN 1 ELSE 0]
        /\ last = IF old \in Incoming THEN 1 ELSE 0
        /\ cursor = last
        /\ acked = [m \in Message |-> FALSE] /\ due = {}
        /\ delivered = [e \in Event |-> FALSE]
        /\ received = [m \in Incoming |-> FALSE]
        /\ void = [e \in Event |-> FALSE]
        /\ claim = [e \in Event |-> "none"]
        /\ reclaims = [e \in Event |-> 0]
        /\ receipt = [m \in Incoming |-> "none"]
        /\ current = "none"
        /\ pc = [h \in Call |-> "idle"]
        /\ pick = [h \in Call |-> NoEvent]
        /\ rowset = [h \in Call |-> {}] /\ keeps = [h \in Call |-> {}]
        /\ carries = [h \in Call |-> {}]
        /\ holds = [m \in Incoming |-> {}]
        /\ seen = {} /\ handed = {}

(***************************************************************************)
(* Messages: sent, acted on, cancelled, expired.                           *)
(***************************************************************************)
\* INSERT OR IGNORE: an event is appended once.
Append(e) ==
    IF seq[e] = 0
    THEN seq' = [seq EXCEPT ![e] = last + 1] /\ last' = last + 1
    ELSE UNCHANGED <<seq, last>>

Undelivered(e) == seq[e] > 0 /\ ~delivered[e]

Send(m) ==
    /\ status[m] = "unsent"
    /\ Cardinality({x \in Message : status[x] # "unsent"}) < MaxMessage
    /\ status' = [status EXCEPT ![m] = "pending"]
    /\ IF m \in Incoming THEN Append(In(m)) ELSE UNCHANGED <<seq, last>>
    /\ UNCHANGED <<acked, due, delivered, received, void, claim, reclaims, receipt>>
    /\ UNCHANGED <<cursor, current, calls, holds, seen, handed>>

\* The addressee acted.  Acting proves that an incoming event arrived; the
\* sender of the message is told by an outcome.
RecordAction(m, state) ==
    IF m \in Incoming
    THEN /\ delivered' = [delivered EXCEPT ![In(m)] = TRUE]
         /\ claim' = [claim EXCEPT ![In(m)] = "none"]
         /\ received' = [received EXCEPT ![m] = TRUE]
         /\ UNCHANGED <<seq, last>>
    ELSE /\ Append(<<m, state>>)
         /\ UNCHANGED <<delivered, claim, received>>

\* An ack reads that the message is pending; its statement, which may come
\* when the message was decided meanwhile, asks only whether it was acked.
Ack(m) ==
    /\ status[m] # "unsent" /\ ~acked[m]
    /\ acked' = [acked EXCEPT ![m] = TRUE]
    /\ RecordAction(m, "acked")
    /\ UNCHANGED <<status, due, void, reclaims, receipt>>
    /\ UNCHANGED <<cursor, current, calls, holds, seen, handed>>

Reply(m) ==
    /\ status[m] = "pending"
    /\ status' = [status EXCEPT ![m] = "decided"]
    /\ RecordAction(m, "decided")
    /\ UNCHANGED <<acked, due, void, reclaims, receipt>>
    /\ UNCHANGED <<cursor, current, calls, holds, seen, handed>>

\* News of m that was never delivered is void.
Supersede(m) ==
    void' = [e \in Event |->
        void[e] \/ (m \in Incoming /\ e = In(m) /\ Undelivered(e))]

Cancel(m) ==
    /\ status[m] = "pending"
    /\ status' = [status EXCEPT ![m] = "canceled"]
    /\ Supersede(m)
    /\ UNCHANGED <<acked, due, seq, last, delivered, received, claim, reclaims, receipt>>
    /\ UNCHANGED <<cursor, current, calls, holds, seen, handed>>

\* Any call that touches the store first expires what is due: it selects,
\* and stamps what is then still pending,
ExpireLook(m) ==
    /\ status[m] = "pending" /\ m \notin due
    /\ due' = due \cup {m}
    /\ UNCHANGED <<status, acked, rows, cursor, current, calls, holds, seen, handed>>

\* but announces everything it selected.
ExpireStamp(m) ==
    /\ m \in due
    /\ due' = due \ {m}
    /\ status' = [status EXCEPT ![m] = IF @ = "pending" THEN "expired" ELSE @]
    /\ Supersede(m)
    /\ IF m \in Sent THEN Append(<<m, "expired">>) ELSE UNCHANGED <<seq, last>>
    /\ UNCHANGED <<acked, delivered, received, claim, reclaims, receipt>>
    /\ UNCHANGED <<cursor, current, calls, holds, seen, handed>>

(***************************************************************************)
(* wait_next.                                                              *)
(***************************************************************************)
\* A new park takes over from any older one.
Park(h) ==
    /\ pc[h] = "idle"
    /\ pc' = [pc EXCEPT ![h] = "parked"]
    /\ current' = h
    /\ UNCHANGED <<messages, rows, cursor, pick, rowset, keeps, carries, holds, seen, handed>>

\* The full pass of a park that is current: it reads its first candidate.  An
\* overtaken event before it is voided with the claims.
Look(h) ==
    LET scan == Scan(Floor)
        news == {e \in scan : ~Overtaken(e)}
    IN  /\ pc[h] = "parked" /\ current = h
        /\ Redeliveries \cup scan # {}
        /\ pick' = [pick EXCEPT ![h] =
               IF Redeliveries # {} THEN Oldest(Redeliveries)
               ELSE IF news # {} THEN Oldest(news) ELSE NoEvent]
        /\ pc' = [pc EXCEPT ![h] = "looked"]
        /\ UNCHANGED <<messages, rows, cursor, current, rowset, keeps, carries, holds, seen, handed>>

\* What the claims of a pass take, and what they void: the first candidate is
\* taken as it was judged when it was read, if it is still there to take.
Dropped(h) == {e \in Scan(Floor) : Overtaken(e)} \ {pick[h]}
Batch(h) == Redeliveries \cup (Scan(Floor) \ Dropped(h))

\* Mutant: the park is checked before the claim only.
Unguarded(h) == TRUE

\* The park is still the current one, in the statement of the claim.
Guarded(h) == current = h

\* Mutant: whatever is handed out counts as received.
Handed(e) == TRUE

\* An outcome is received when it is handed out, a message is not.
ReceivedOnHandOut(e) == e \in Outcome

\* The claims of wait_next deliver.
Claim(h) ==
    LET batch == Batch(h)
        mail == {m \in Incoming : In(m) \in batch}
    IN  /\ pc[h] = "looked" /\ Guarded(h)
        /\ delivered' = [e \in Event |-> delivered[e] \/ e \in batch]
        /\ received' = [m \in Incoming |->
               received[m] \/ (m \in mail /\ ReceivedOnHandOut(In(m)))]
        /\ void' = [e \in Event |-> void[e] \/ e \in Dropped(h)]
        /\ claim' = [e \in Event |-> IF e \in batch THEN "none" ELSE claim[e]]
        /\ receipt' = [m \in Incoming |-> IF m \in mail THEN "fresh" ELSE receipt[m]]
        /\ holds' = [m \in Incoming |-> IF m \in mail THEN {h} ELSE holds[m]]
        /\ cursor' = CursorWithout(batch \cup Dropped(h))
        /\ handed' = handed \cup (batch \cap Outcome)
        /\ carries' = [carries EXCEPT ![h] = mail]
        /\ pc' = [pc EXCEPT ![h] = IF batch = {} THEN "parked" ELSE "reply"]
        /\ pick' = [pick EXCEPT ![h] = NoEvent]
        /\ UNCHANGED <<messages, seq, last, reclaims, current, rowset, keeps, seen>>

\* At its deadline, with nothing to take: the pass stores the cursor.
Timeout(h) ==
    /\ pc[h] = "parked" /\ current = h
    /\ Redeliveries \cup Scan(Floor) = {}
    /\ cursor' = ReceiveCursor
    /\ pc' = [pc EXCEPT ![h] = "idle"]
    /\ UNCHANGED <<messages, rows, current, pick, rowset, keeps, carries>>
    /\ UNCHANGED <<holds, seen, handed>>

\* An overtaken park returns with nothing, before its pass or out of it.
Superseded(h) ==
    /\ pc[h] \in {"parked", "looked"} /\ current # h
    /\ pc' = [pc EXCEPT ![h] = "idle"]
    /\ pick' = [pick EXCEPT ![h] = NoEvent]
    /\ UNCHANGED <<messages, rows, cursor, current, rowset, keeps, carries, holds, seen, handed>>

\* The request is cancelled, or its process dies before it commits.
Gone(h) ==
    /\ pc[h] \in {"parked", "looked", "reading"}
    /\ pc' = [pc EXCEPT ![h] = "idle"]
    /\ pick' = [pick EXCEPT ![h] = NoEvent]
    /\ rowset' = [rowset EXCEPT ![h] = {}] /\ keeps' = [keeps EXCEPT ![h] = {}]
    /\ UNCHANGED <<messages, rows, cursor, current, carries, holds, seen, handed>>

(***************************************************************************)
(* The pointer rail: it claims and never delivers.  An event it claimed    *)
(* MaxReclaims times over it steps over.                                   *)
(***************************************************************************)
\* Mutant: the rail never gives up.
PointedForever == {e \in Scan(ReceiveCursor) : ~Overtaken(e)}

Pointed ==
    {e \in Scan(ReceiveCursor) :
        ~Overtaken(e) /\ (claim[e] = "none" \/ reclaims[e] < MaxReclaims)}

Rail ==
    LET overtaken == {e \in Scan(ReceiveCursor) : Overtaken(e)}
    IN  /\ Pointed \cup overtaken # {}
        /\ void' = [e \in Event |-> void[e] \/ e \in overtaken]
        /\ claim' = [e \in Event |-> IF e \in Pointed THEN "live" ELSE claim[e]]
        /\ reclaims' = [e \in Event |->
               IF e \in Pointed /\ claim[e] # "none" THEN reclaims[e] + 1 ELSE reclaims[e]]
        /\ cursor' = CursorWithout(overtaken)
        /\ UNCHANGED <<messages, seq, last, delivered, received, receipt>>
        /\ UNCHANGED <<current, calls, holds, seen, handed>>

(***************************************************************************)
(* Reading a message in full: its rows are read, then stamped.             *)
(***************************************************************************)
Unproven(e) == e \in Outcome \/ ~received[MessageOf(e)]

ReadLook(h, m) ==
    LET found == {e \in Event : MessageOf(e) = m /\ seq[e] > 0 /\ ~void[e] /\ Unproven(e)}
    IN  /\ h \in Reader /\ pc[h] = "idle" /\ found # {}
        /\ pc' = [pc EXCEPT ![h] = "reading"]
        /\ rowset' = [rowset EXCEPT ![h] = found]
        /\ keeps' = [keeps EXCEPT ![h] = {e \in found : delivered[e]}]
        /\ UNCHANGED <<messages, rows, cursor, current, pick, carries, holds, seen, handed>>

\* A delivered row keeps the token it was seen with, any other gets a new one.
\* A token replaced since it was seen is put back: who else had it is not
\* followed.
Stamp(h) ==
    LET stamped == {e \in rowset[h] : Unproven(e)}
        mail == {m \in Incoming : In(m) \in stamped}
    IN  /\ pc[h] = "reading"
        /\ delivered' = [e \in Event |-> delivered[e] \/ e \in stamped]
        /\ claim' = [e \in Event |-> IF e \in stamped THEN "none" ELSE claim[e]]
        /\ receipt' = [m \in Incoming |-> IF m \in mail THEN "fresh" ELSE receipt[m]]
        /\ holds' = [m \in Incoming |->
               IF m \notin mail THEN holds[m]
               ELSE IF In(m) \in keeps[h] THEN holds[m] \cup {h} ELSE {h}]
        /\ carries' = [carries EXCEPT ![h] = {m \in Incoming : In(m) \in rowset[h]}]
        /\ pc' = [pc EXCEPT ![h] = "reply"]
        /\ rowset' = [rowset EXCEPT ![h] = {}] /\ keeps' = [keeps EXCEPT ![h] = {}]
        /\ UNCHANGED <<messages, seq, last, received, void, reclaims>>
        /\ UNCHANGED <<cursor, current, pick, seen, handed>>

(***************************************************************************)
(* Replies and receipts.                                                   *)
(***************************************************************************)
Arrive(h) ==
    /\ pc[h] = "reply"
    /\ seen' = seen \cup carries[h]
    /\ holds' = [m \in Incoming |->
           IF h \in holds[m] THEN (holds[m] \ {h}) \cup {"agent"} ELSE holds[m]]
    /\ carries' = [carries EXCEPT ![h] = {}]
    /\ pc' = [pc EXCEPT ![h] = "idle"]
    /\ UNCHANGED <<messages, rows, cursor, current, pick, rowset, keeps, handed>>

Lose(h) ==
    /\ pc[h] = "reply"
    /\ holds' = [m \in Incoming |-> holds[m] \ {h}]
    /\ carries' = [carries EXCEPT ![h] = {}]
    /\ pc' = [pc EXCEPT ![h] = "idle"]
    /\ UNCHANGED <<messages, rows, cursor, current, pick, rowset, keeps, seen, handed>>

\* The agent echoes the receipt of a message on its next call.
Confirm(m) ==
    /\ "agent" \in holds[m] /\ delivered[In(m)] /\ ~received[m]
    /\ received' = [received EXCEPT ![m] = TRUE]
    /\ UNCHANGED <<messages, seq, last, delivered, void, claim, reclaims, receipt>>
    /\ UNCHANGED <<cursor, current, calls, holds, seen, handed>>

ClaimLapses(e) ==
    /\ claim[e] = "live"
    /\ claim' = [claim EXCEPT ![e] = "lapsed"]
    /\ UNCHANGED <<messages, seq, last, delivered, received, void, reclaims, receipt>>
    /\ UNCHANGED <<cursor, current, calls, holds, seen, handed>>

ReceiptLapses(m) ==
    /\ receipt[m] = "fresh"
    /\ receipt' = [receipt EXCEPT ![m] = "lapsed"]
    /\ UNCHANGED <<messages, seq, last, delivered, received, void, claim, reclaims>>
    /\ UNCHANGED <<cursor, current, calls, holds, seen, handed>>

Next ==
    \/ \E m \in Message :
        Send(m) \/ Ack(m) \/ Reply(m) \/ Cancel(m) \/ ExpireLook(m) \/ ExpireStamp(m)
    \/ \E h \in Call :
        \/ Park(h) \/ Look(h) \/ Claim(h) \/ Timeout(h) \/ Superseded(h) \/ Gone(h)
        \/ Stamp(h) \/ Arrive(h) \/ Lose(h)
        \/ \E m \in Message : ReadLook(h, m)
    \/ Rail
    \/ \E m \in Incoming : Confirm(m) \/ ReceiptLapses(m)
    \/ \E e \in Event : ClaimLapses(e)

Spec == Init /\ [][Next]_vars

(***************************************************************************)
(* Fairness: the actor keeps parking and a park is not for ever overtaken  *)
(* before its first pass, replies are not lost for ever, the agent echoes  *)
(* the receipts it was given, and leases run out.                          *)
(***************************************************************************)
Attentive ==
    /\ SF_vars(\E h \in Call : Park(h))
    /\ SF_vars(\E h \in Call : Look(h)) /\ SF_vars(\E h \in Call : Claim(h))
    /\ \A h \in Call :
        WF_vars(Superseded(h)) /\ WF_vars(Stamp(h)) /\ WF_vars(Arrive(h) \/ Lose(h))
    /\ \A m \in Incoming :
        /\ SF_vars(\E h \in Call : Arrive(h) /\ h \in holds[m])
        /\ SF_vars(Confirm(m)) /\ WF_vars(ReceiptLapses(m))
    /\ \A e \in Event : WF_vars(ClaimLapses(e))
    /\ \A m \in Message : WF_vars(ExpireStamp(m))

FairSpec == Spec /\ Attentive

(***************************************************************************)
(* Properties.                                                             *)
(***************************************************************************)
TypeOK ==
    /\ status \in [Message -> Status] /\ acked \in [Message -> BOOLEAN]
    /\ due \subseteq Message
    /\ last \in Nat /\ seq \in [Event -> 0..last] /\ cursor \in Nat
    /\ delivered \in [Event -> BOOLEAN] /\ received \in [Incoming -> BOOLEAN]
    /\ void \in [Event -> BOOLEAN]
    /\ claim \in [Event -> {"none", "live", "lapsed"}]
    /\ reclaims \in [Event -> 0..MaxReclaims]
    /\ receipt \in [Incoming -> {"none", "fresh", "lapsed"}]
    /\ current \in Call \cup {"none"}
    /\ pc \in [Call -> Phase] /\ pick \in [Call -> Event \cup {NoEvent}]
    /\ rowset \in [Call -> SUBSET Event] /\ keeps \in [Call -> SUBSET Event]
    /\ carries \in [Call -> SUBSET Incoming]
    /\ holds \in [Incoming -> SUBSET (Call \cup {"agent"})]
    /\ seen \subseteq Incoming /\ handed \subseteq Outcome

\* A message is marked received only when its text reached the agent or the
\* agent acted on it: a reply that was lost leaves it in flight, whatever
\* token was minted, kept or replaced since (confirm_by_tokens,
\* mark_delivered_by_action).
ReceivedIsProven ==
    \A m \in Incoming : received[m] => m \in seen \/ acked[m] \/ status[m] = "decided"

\* The sender is never told of an expiry that did not happen, though an
\* expiry announces what was decided after it looked (the test for an
\* overtaken outcome in claim_next).
NewsIsTrue ==
    \A m \in Sent : <<m, "expired">> \in handed => status[m] = "expired"

\* News is not told backwards: once wait_next told how a message ended, it
\* does not go on to tell that it was acknowledged.
NewsInOrder ==
    [][\A m \in Sent :
        <<m, "acked">> \in handed' \ handed =>
            handed \cap {<<m, "decided">>, <<m, "expired">>} = {}]_vars

\* Nothing is hidden: an actor that keeps parking is told of every message
\* until it proves that it got it, or the message is void.  No stored cursor,
\* rail that gave up, lost reply or overtaken park stops that.
EveryMessageArrives ==
    \A m \in Incoming :
        (status[m] = "pending") ~>
            (received[m] \/ status[m] \in {"expired", "canceled"})

\* Every outcome is handed out, read or overtaken in the end.
EveryOutcomeIsTold ==
    \A e \in Outcome : (seq[e] > 0) ~> (delivered[e] \/ void[e])
===============================================================================
