-------------------------- MODULE MessageStreamProofs --------------------------
(***************************************************************************)
(* Theorems about MessageStream, for any number of messages and calls.     *)
(*                                                                         *)
(* The arguments.  A message is received because its text was seen: who    *)
(* holds its token is the agent, or a reply that carries the text          *)
(* (HoldsCarry).  News is true and in order: an outcome is handed out if   *)
(* it was current at one of two moments, when it was picked or when it was *)
(* claimed; what a message came to is never undone (HandedTrue), and the   *)
(* one that picked an acknowledgement is alone until it claims             *)
(* (PickCurrent, AckBefore).                                               *)
(***************************************************************************)
EXTENDS MessageStream, WellFoundedInduction, TLAPS

USE MessageAssumption, CallAssumption, BoundAssumption

LEMMA Events ==
  /\ \A m \in Incoming : In(m) \in Event /\ In(m) \notin Outcome /\ MessageOf(In(m)) = m
  /\ \A m \in Sent, s \in {"acked", "decided", "expired"} : <<m, s>> \in Outcome
  /\ Outcome \subseteq Event
  /\ \A e \in Outcome : MessageOf(e) \in Sent /\ e = <<MessageOf(e), e[2]>>
  /\ \A e \in Event \ Outcome : MessageOf(e) \in Incoming /\ e = In(MessageOf(e))
  BY DEF In, Event, Outcome, MessageOf

-----------------------------------------------------------------------------
(* The oldest and the newest of some events.                                 *)

LEMMA LeastExists ==
  ASSUME NEW T \in SUBSET Nat, T # {}
  PROVE  \E n \in T : \A k \in T : n <= k
<1>1. PICK n \in T : \A k \in T : ~(<<k, n>> \in OpToRel(<, Nat))
  BY WFMin, NatLessThanWellFounded
<1>2. \A k \in T : ~(k < n)
  BY <1>1 DEF OpToRel
<1> QED
  BY <1>2

LEMMA OldestIn ==
  ASSUME TypeOK, NEW S \in SUBSET Event, S # {}
  PROVE  Oldest(S) \in S
<1> DEFINE T == {seq[e] : e \in S}
<1>1. T \in SUBSET Nat /\ T # {}
  BY DEF TypeOK
<1>2. \E e \in S : \A f \in S : seq[e] <= seq[f]
  <2>1. PICK n \in T : \A k \in T : n <= k
    BY <1>1, LeastExists
  <2> QED
    BY <2>1
<1> QED
  BY <1>2 DEF Oldest

LEMMA NewestIn ==
  ASSUME TypeOK, NEW S \in SUBSET Event, S # {}
  PROVE  Newest(S) \in S
<1> DEFINE T == {last - seq[e] : e \in S}
<1>1. T \in SUBSET Nat /\ T # {}
  BY DEF TypeOK
<1>2. \E e \in S : \A f \in S : seq[f] <= seq[e]
  <2>1. PICK n \in T : \A k \in T : n <= k
    BY <1>1, LeastExists
  <2>2. PICK e \in S : n = last - seq[e]
    BY <2>1
  <2>3. \A f \in S : last - seq[e] <= last - seq[f]
    BY <2>1, <2>2
  <2>4. \A f \in S : seq[f] \in Nat /\ last \in Nat
    BY DEF TypeOK
  <2> QED
    BY <2>3, <2>4
<1> QED
  BY <1>2 DEF Newest
-----------------------------------------------------------------------------
(* Types.                                                                    *)

LEMMA InitType == Init => TypeOK
<1> SUFFICES ASSUME NEW old \in Incoming \cup {"none"},
                    status = [m \in Message |-> IF m = old THEN "pending" ELSE "unsent"],
                    seq = [e \in Event |-> IF MessageOf(e) = old THEN 1 ELSE 0],
                    last = IF old \in Incoming THEN 1 ELSE 0,
                    cursor = last,
                    Init
             PROVE  TypeOK
  BY DEF Init
<1>1. status \in [Message -> Status]
  BY DEF Status
<1>2. seq \in [Event -> 0..last] /\ last \in Nat /\ cursor \in Nat
  <2>1. CASE old \in Incoming
    BY <2>1
  <2>2. CASE old = "none"
    <3>1. \A e \in Event : MessageOf(e) # old
      BY <2>2, Events
    <3> QED
      BY <2>2, <3>1
  <2> QED
    BY <2>1, <2>2
<1>3. /\ acked \in [Message -> BOOLEAN] /\ due \subseteq Message
      /\ delivered \in [Event -> BOOLEAN] /\ received \in [Incoming -> BOOLEAN]
      /\ void \in [Event -> BOOLEAN]
      /\ claim \in [Event -> {"none", "live", "lapsed"}]
      /\ reclaims \in [Event -> 0..MaxReclaims]
      /\ receipt \in [Incoming -> {"none", "fresh", "lapsed"}]
  BY DEF Init
<1>4. /\ current \in Call \cup {"none"}
      /\ pc \in [Call -> Phase] /\ pick \in [Call -> Event \cup {NoEvent}]
      /\ rowset \in [Call -> SUBSET Event] /\ keeps \in [Call -> SUBSET Event]
      /\ carries \in [Call -> SUBSET Incoming]
      /\ holds \in [Incoming -> SUBSET (Call \cup {"agent"})]
      /\ seen \subseteq Incoming /\ handed \subseteq Outcome
  BY DEF Init, Phase
<1> QED
  BY <1>1, <1>2, <1>3, <1>4 DEF TypeOK

LEMMA LowWaterType ==
  ASSUME TypeOK, NEW S \in SUBSET {e \in Event : Open(e)}, NEW c \in Nat
  PROVE  LowWater(S, c) \in Nat
<1>1. CASE S = {}
  BY <1>1 DEF LowWater, TypeOK
<1>2. CASE S # {}
  <2>1. Oldest(S) \in S
    BY <1>2, OldestIn
  <2>2. seq[Oldest(S)] \in Nat /\ seq[Oldest(S)] > 0
    BY <2>1 DEF Open, TypeOK
  <2> QED
    BY <1>2, <2>2 DEF LowWater
<1> QED
  BY <1>1, <1>2

LEMMA CursorType ==
  ASSUME TypeOK, NEW C
  PROVE  ReceiveCursor \in Nat /\ CursorWithout(C) \in Nat
<1>1. ReceiveCursor \in Nat
  BY LowWaterType DEF ReceiveCursor, TypeOK
<1> QED
  BY <1>1, LowWaterType DEF CursorWithout

LEMMA AppendType ==
  ASSUME TypeOK, NEW e \in Event, Append(e) \/ UNCHANGED <<seq, last>>
  PROVE  last' \in Nat /\ seq' \in [Event -> 0..last']
<1>1. CASE seq[e] = 0 /\ Append(e)
  <2>1. last' = last + 1 /\ last \in Nat
    BY <1>1 DEF Append, TypeOK
  <2>2. \A f \in Event : seq[f] \in 0..last'
    BY <2>1 DEF TypeOK
  <2> QED
    BY <1>1, <2>1, <2>2 DEF Append, TypeOK
<1>2. CASE UNCHANGED <<seq, last>>
  BY <1>2 DEF TypeOK
<1> QED
  BY <1>1, <1>2 DEF Append

LEMMA BatchType ==
  ASSUME TypeOK, NEW h \in Call
  PROVE  Batch(h) \subseteq Event /\ Dropped(h) \subseteq Event /\ Redeliveries \subseteq Event
  BY Events DEF Batch, Dropped, Scan, Redeliveries
LEMMA MessagesType ==
  ASSUME TypeOK, NEW m \in Message,
         Send(m) \/ Ack(m) \/ Reply(m) \/ Cancel(m) \/ ExpireLook(m) \/ ExpireStamp(m)
  PROVE  TypeOK'
<1> USE Events
<1>1. CASE Send(m)
  <2>1. status' \in [Message -> Status]
    BY <1>1 DEF Send, TypeOK, Status
  <2>2. last' \in Nat /\ seq' \in [Event -> 0..last']
    <3>1. CASE m \in Incoming
      <4>1. In(m) \in Event /\ Append(In(m))
        BY <1>1, <3>1 DEF Send
      <4> QED
        BY <4>1, AppendType
    <3>2. CASE m \notin Incoming
      BY <1>1, <3>2 DEF Send, TypeOK
    <3> QED
      BY <3>1, <3>2
  <2> QED
    BY <1>1, <2>1, <2>2 DEF Send, TypeOK, calls
<1>2. ASSUME NEW s \in {"acked", "decided"}, RecordAction(m, s)
      PROVE  /\ last' \in Nat /\ seq' \in [Event -> 0..last']
             /\ delivered' \in [Event -> BOOLEAN] /\ received' \in [Incoming -> BOOLEAN]
             /\ claim' \in [Event -> {"none", "live", "lapsed"}]
  <2>1. last' \in Nat /\ seq' \in [Event -> 0..last']
    <3>1. CASE m \in Incoming
      BY <1>2, <3>1 DEF RecordAction, TypeOK
    <3>2. CASE m \in Sent
      <4>1. <<m, s>> \in Event /\ Append(<<m, s>>)
        BY <1>2, <3>2 DEF RecordAction
      <4> QED
        BY <4>1, AppendType
    <3> QED
      BY <3>1, <3>2 DEF Message
  <2> QED
    BY <1>2, <2>1 DEF RecordAction, TypeOK
<1>3. CASE Ack(m)
  BY <1>3, <1>2 DEF Ack, TypeOK, calls
<1>4. CASE Reply(m)
  <2>1. status' \in [Message -> Status]
    BY <1>4 DEF Reply, TypeOK, Status
  <2> QED
    BY <1>4, <1>2, <2>1 DEF Reply, TypeOK, calls
<1>5. ASSUME Supersede(m) PROVE void' \in [Event -> BOOLEAN]
  BY <1>5, Zenon DEF Supersede, TypeOK
<1>6. CASE Cancel(m)
  <2>1. status' \in [Message -> Status]
    BY <1>6 DEF Cancel, TypeOK, Status
  <2> QED
    BY <1>6, <1>5, <2>1 DEF Cancel, TypeOK, calls
<1>7. CASE ExpireLook(m)
  BY <1>7 DEF ExpireLook, TypeOK, rows, calls
<1>8. CASE ExpireStamp(m)
  <2>1. status' \in [Message -> Status] /\ due' \subseteq Message
    BY <1>8 DEF ExpireStamp, TypeOK, Status
  <2>2. last' \in Nat /\ seq' \in [Event -> 0..last']
    <3>1. CASE m \in Sent
      <4>1. <<m, "expired">> \in Event /\ Append(<<m, "expired">>)
        BY <1>8, <3>1 DEF ExpireStamp
      <4> QED
        BY <4>1, AppendType
    <3>2. CASE m \notin Sent
      BY <1>8, <3>2 DEF ExpireStamp, TypeOK
    <3> QED
      BY <3>1, <3>2
  <2> QED
    BY <1>8, <1>5, <2>1, <2>2 DEF ExpireStamp, TypeOK, calls
<1> QED
  BY <1>1, <1>3, <1>4, <1>6, <1>7, <1>8

LEMMA ParksType ==
  ASSUME TypeOK, NEW h \in Call,
         \/ Park(h) \/ Look(h) \/ Claim(h) \/ Timeout(h) \/ Superseded(h) \/ Gone(h)
  PROVE  TypeOK'
<1> USE Events
<1>1. CASE Park(h)
  BY <1>1 DEF Park, TypeOK, Phase, messages, rows
<1>2. CASE Look(h)
  <2>1. pc' \in [Call -> Phase]
    BY <1>2 DEF Look, TypeOK, Phase
  <2> DEFINE news == {e \in Scan(Floor) : ~Overtaken(e)}
  <2>2. Redeliveries # {} => Oldest(Redeliveries) \in Event
    BY OldestIn, BatchType
  <2>3. news # {} => Oldest(news) \in Event
    BY OldestIn DEF Scan
  <2>4. pick' \in [Call -> Event \cup {NoEvent}]
    BY <1>2, <2>2, <2>3 DEF Look, TypeOK
  <2> QED
    BY <1>2, <2>1, <2>4 DEF Look, TypeOK, messages, rows
<1>3. CASE Claim(h)
  <2> USE <1>3 DEF Claim
  <2>1. Batch(h) \subseteq Event
    BY BatchType
  <2>2. delivered' \in [Event -> BOOLEAN] /\ void' \in [Event -> BOOLEAN]
    BY Zenon DEF TypeOK
  <2>3. received' \in [Incoming -> BOOLEAN]
    BY Zenon DEF TypeOK
  <2>4. /\ claim' \in [Event -> {"none", "live", "lapsed"}]
        /\ receipt' \in [Incoming -> {"none", "fresh", "lapsed"}]
    BY DEF TypeOK
  <2>5. /\ holds' \in [Incoming -> SUBSET (Call \cup {"agent"})]
        /\ carries' \in [Call -> SUBSET Incoming]
    BY DEF TypeOK
  <2>6. cursor' \in Nat
    BY CursorType
  <2>7. handed' \subseteq Outcome
    BY DEF TypeOK
  <2>8. pc' \in [Call -> Phase] /\ pick' \in [Call -> Event \cup {NoEvent}]
    BY DEF TypeOK, Phase
  <2> QED
    BY <2>2, <2>3, <2>4, <2>5, <2>6, <2>7, <2>8 DEF TypeOK, messages
<1>4. CASE Timeout(h)
  <2>1. cursor' \in Nat
    BY <1>4, CursorType DEF Timeout
  <2> QED
    BY <1>4, <2>1 DEF Timeout, TypeOK, Phase, messages, rows
<1>5. CASE Superseded(h)
  BY <1>5 DEF Superseded, TypeOK, Phase, messages, rows
<1>6. CASE Gone(h)
  BY <1>6 DEF Gone, TypeOK, Phase, messages, rows
<1> QED
  BY <1>1, <1>2, <1>3, <1>4, <1>5, <1>6

LEMMA RailType == TypeOK /\ Rail => TypeOK'
<1> SUFFICES ASSUME TypeOK, Rail PROVE TypeOK'
  OBVIOUS
<1> USE DEF Rail
<1>1. void' \in [Event -> BOOLEAN]
  BY Zenon DEF TypeOK
<1>2. claim' \in [Event -> {"none", "live", "lapsed"}]
  BY DEF TypeOK
<1>3. reclaims' \in [Event -> 0..MaxReclaims]
  BY DEF Pointed, TypeOK
<1>4. cursor' \in Nat
  BY CursorType
<1> QED
  BY <1>1, <1>2, <1>3, <1>4 DEF TypeOK, messages, calls

LEMMA RepliesType ==
  ASSUME TypeOK, NEW h \in Call,
         \/ Stamp(h) \/ Arrive(h) \/ Lose(h) \/ \E m \in Message : ReadLook(h, m)
  PROVE  TypeOK'
<1> USE Events
<1>1. CASE Stamp(h)
  <2> USE <1>1 DEF Stamp
  <2>1. delivered' \in [Event -> BOOLEAN]
    BY Zenon DEF TypeOK
  <2>2. /\ claim' \in [Event -> {"none", "live", "lapsed"}]
        /\ receipt' \in [Incoming -> {"none", "fresh", "lapsed"}]
    BY DEF TypeOK
  <2>3. holds' \in [Incoming -> SUBSET (Call \cup {"agent"})]
    BY DEF TypeOK
  <2>4. carries' \in [Call -> SUBSET Incoming]
    BY DEF TypeOK
  <2>5. /\ pc' \in [Call -> Phase] /\ rowset' \in [Call -> SUBSET Event]
        /\ keeps' \in [Call -> SUBSET Event]
    BY DEF TypeOK, Phase
  <2> QED
    BY <2>1, <2>2, <2>3, <2>4, <2>5 DEF TypeOK, messages
<1>2. CASE Arrive(h)
  <2>1. holds' \in [Incoming -> SUBSET (Call \cup {"agent"})] /\ seen' \subseteq Incoming
    BY <1>2 DEF Arrive, TypeOK
  <2>2. pc' \in [Call -> Phase] /\ carries' \in [Call -> SUBSET Incoming]
    BY <1>2 DEF Arrive, TypeOK, Phase
  <2> QED
    BY <1>2, <2>1, <2>2 DEF Arrive, TypeOK, messages, rows
<1>3. CASE Lose(h)
  <2>1. holds' \in [Incoming -> SUBSET (Call \cup {"agent"})]
    BY <1>3 DEF Lose, TypeOK
  <2>2. pc' \in [Call -> Phase] /\ carries' \in [Call -> SUBSET Incoming]
    BY <1>3 DEF Lose, TypeOK, Phase
  <2> QED
    BY <1>3, <2>1, <2>2 DEF Lose, TypeOK, messages, rows
<1>4. ASSUME NEW m \in Message, ReadLook(h, m) PROVE TypeOK'
  BY <1>4 DEF ReadLook, TypeOK, Phase, messages, rows
<1> QED
  BY <1>1, <1>2, <1>3, <1>4

LEMMA TypeStep == TypeOK /\ [Next]_vars => TypeOK'
<1> SUFFICES ASSUME TypeOK, [Next]_vars PROVE TypeOK'
  OBVIOUS
<1>1. ASSUME NEW m \in Incoming, Confirm(m) \/ ReceiptLapses(m) PROVE TypeOK'
  BY <1>1 DEF Confirm, ReceiptLapses, TypeOK, messages, calls
<1>2. ASSUME NEW e \in Event, ClaimLapses(e) PROVE TypeOK'
  BY <1>2 DEF ClaimLapses, TypeOK, messages, calls
<1>3. CASE UNCHANGED vars
  BY <1>3 DEF vars, TypeOK, messages, rows, calls
<1> QED
  BY <1>1, <1>2, <1>3, MessagesType, ParksType, RailType, RepliesType DEF Next

-----------------------------------------------------------------------------
(* Receipts.                                                                 *)

\* Who holds the token of a message: the agent, which has seen it, or a reply
\* that carries it.
HoldsCarry ==
    \A m \in Incoming : /\ "agent" \in holds[m] => m \in seen
                        /\ \A h \in holds[m] \ {"agent"} : pc[h] = "reply" /\ m \in carries[h]

LEMMA HoldsStep == TypeOK /\ HoldsCarry /\ [Next]_vars => HoldsCarry'
<1> SUFFICES ASSUME TypeOK, HoldsCarry, [Next]_vars PROVE HoldsCarry'
  OBVIOUS
<1> USE DEF HoldsCarry
<1>1. ASSUME UNCHANGED <<pc, carries, holds, seen>> PROVE HoldsCarry'
  BY <1>1
<1>2. ASSUME NEW m \in Message, \/ Send(m) \/ Ack(m) \/ Reply(m) \/ Cancel(m)
                               \/ ExpireLook(m) \/ ExpireStamp(m)
      PROVE  HoldsCarry'
  BY <1>1, <1>2 DEF Send, Ack, Reply, Cancel, ExpireLook, ExpireStamp, calls
<1>3. ASSUME NEW h \in Call, pc[h] # "reply", pc' = [pc EXCEPT ![h] = pc'[h]],
             UNCHANGED <<carries, holds, seen>>
      PROVE  HoldsCarry'
  BY <1>3 DEF TypeOK
<1>4. ASSUME NEW h \in Call,
             \/ Park(h) \/ Look(h) \/ Timeout(h) \/ Superseded(h) \/ Gone(h)
             \/ \E m \in Message : ReadLook(h, m)
      PROVE  HoldsCarry'
  BY <1>3, <1>4 DEF Park, Look, Timeout, Superseded, Gone, ReadLook, TypeOK
<1>5. ASSUME NEW h \in Call, Claim(h) PROVE HoldsCarry'
  <2> DEFINE mail == {m \in Incoming : In(m) \in Batch(h)}
  <2>1. /\ pc[h] = "looked" /\ carries' = [carries EXCEPT ![h] = mail]
        /\ holds' = [m \in Incoming |-> IF m \in mail THEN {h} ELSE holds[m]]
        /\ pc' = [pc EXCEPT ![h] = IF Batch(h) = {} THEN "parked" ELSE "reply"]
        /\ seen' = seen
    BY <1>5 DEF Claim
  <2>2. mail # {} => pc'[h] = "reply"
    BY <2>1 DEF TypeOK
  <2>3. ASSUME NEW m \in mail PROVE holds'[m] = {h} /\ pc'[h] = "reply" /\ m \in carries'[h]
    BY <2>1, <2>2 DEF TypeOK
  <2>4. ASSUME NEW m \in Incoming \ mail
        PROVE  holds'[m] = holds[m] /\ h \notin holds[m]
    BY <2>1
  <2> QED
    BY <2>1, <2>3, <2>4 DEF TypeOK
<1>6. ASSUME NEW h \in Call, Stamp(h) PROVE HoldsCarry'
  <2> DEFINE mail == {m \in Incoming : In(m) \in {e \in rowset[h] : Unproven(e)}}
  <2>1. /\ pc[h] = "reading" /\ pc' = [pc EXCEPT ![h] = "reply"]
        /\ carries' = [carries EXCEPT ![h] = {m \in Incoming : In(m) \in rowset[h]}]
        /\ \A m \in Incoming : holds'[m] \subseteq holds[m] \cup (IF m \in mail THEN {h} ELSE {})
        /\ seen' = seen
    BY <1>6 DEF Stamp
  <2>2. \A m \in Incoming : h \notin holds[m]
    BY <2>1
  <2>3. \A m \in mail : m \in carries'[h]
    BY <2>1 DEF TypeOK
  <2> QED
    BY <2>1, <2>2, <2>3 DEF TypeOK
<1>7. ASSUME NEW h \in Call, Arrive(h) \/ Lose(h) PROVE HoldsCarry'
  <2>1. /\ pc' = [pc EXCEPT ![h] = "idle"] /\ carries' = [carries EXCEPT ![h] = {}]
        /\ \A m \in Incoming : holds'[m] \ {"agent"} \subseteq holds[m] \ {h}
    BY <1>7 DEF Arrive, Lose
  <2>2. \A m \in Incoming : "agent" \in holds'[m] => m \in seen'
    BY <1>7 DEF Arrive, Lose
  <2> QED
    BY <2>1, <2>2 DEF TypeOK
<1>8. CASE Rail
  BY <1>1, <1>8 DEF Rail, calls
<1>9. ASSUME NEW m \in Incoming, Confirm(m) \/ ReceiptLapses(m) PROVE HoldsCarry'
  BY <1>1, <1>9 DEF Confirm, ReceiptLapses, calls
<1>10. ASSUME NEW e \in Event, ClaimLapses(e) PROVE HoldsCarry'
  BY <1>1, <1>10 DEF ClaimLapses, calls
<1>11. CASE UNCHANGED vars
  BY <1>1, <1>11 DEF vars, calls
<1> QED
  BY <1>2, <1>4, <1>5, <1>6, <1>7, <1>8, <1>9, <1>10, <1>11 DEF Next
\* What proves that a message arrived.
Proven(m) == m \in seen \/ acked[m] \/ status[m] = "decided"

\* Nothing takes such a proof back.
LEMMA ProofStays ==
  ASSUME TypeOK, [Next]_vars, NEW m \in Incoming, Proven(m)
  PROVE  Proven(m)'
<1> USE DEF Proven
<1>1. ASSUME UNCHANGED <<status, acked>>, seen \subseteq seen' PROVE Proven(m)'
  BY <1>1
<1>2. ASSUME NEW n \in Message, Send(n) \/ Ack(n) \/ Reply(n) \/ Cancel(n)
                               \/ ExpireLook(n) \/ ExpireStamp(n)
      PROVE  Proven(m)'
  BY <1>2 DEF Send, Ack, Reply, Cancel, ExpireLook, ExpireStamp, TypeOK, Message
<1>3. ASSUME NEW h \in Call, \/ Park(h) \/ Look(h) \/ Claim(h) \/ Timeout(h) \/ Superseded(h)
                            \/ Gone(h) \/ Stamp(h) \/ Arrive(h) \/ Lose(h)
                            \/ \E n \in Message : ReadLook(h, n)
      PROVE  Proven(m)'
  BY <1>1, <1>3 DEF Park, Look, Claim, Timeout, Superseded, Gone, Stamp, Arrive, Lose,
     ReadLook, messages
<1>4. CASE Rail
  BY <1>1, <1>4 DEF Rail, messages
<1>5. ASSUME NEW n \in Incoming, Confirm(n) \/ ReceiptLapses(n) PROVE Proven(m)'
  BY <1>1, <1>5 DEF Confirm, ReceiptLapses, messages
<1>6. ASSUME NEW e \in Event, ClaimLapses(e) PROVE Proven(m)'
  BY <1>1, <1>6 DEF ClaimLapses, messages
<1>7. CASE UNCHANGED vars
  BY <1>1, <1>7 DEF vars, messages
<1> QED
  BY <1>2, <1>3, <1>4, <1>5, <1>6, <1>7 DEF Next

\* A message becomes received with a proof of its arrival.
LEMMA ReceivedStep ==
  ASSUME TypeOK, HoldsCarry, [Next]_vars, NEW m \in Incoming, received'[m], ~received[m]
  PROVE  Proven(m)'
<1> USE DEF Proven
<1>1. ASSUME UNCHANGED received PROVE FALSE
  BY <1>1
<1>2. ASSUME NEW n \in Message, Ack(n) \/ Reply(n) PROVE Proven(m)'
  <2>1. n = m
    BY <1>2 DEF Ack, Reply, RecordAction, TypeOK
  <2> QED
    BY <1>2, <2>1 DEF Ack, Reply, TypeOK, Message
<1>3. ASSUME NEW n \in Message, Send(n) \/ Cancel(n) \/ ExpireLook(n) \/ ExpireStamp(n) PROVE FALSE
  BY <1>1, <1>3 DEF Send, Cancel, ExpireLook, ExpireStamp, rows
<1>4. ASSUME NEW h \in Call, Claim(h) PROVE FALSE
  BY <1>4, Events DEF Claim, ReceivedOnHandOut
<1>5. ASSUME NEW h \in Call, \/ Park(h) \/ Look(h) \/ Timeout(h) \/ Superseded(h)
                            \/ Gone(h) \/ Stamp(h) \/ Arrive(h) \/ Lose(h)
                            \/ \E n \in Message : ReadLook(h, n)
      PROVE  FALSE
  BY <1>1, <1>5 DEF Park, Look, Timeout, Superseded, Gone, Stamp, Arrive, Lose, ReadLook, rows
<1>6. CASE Rail
  BY <1>1, <1>6 DEF Rail
<1>7. ASSUME NEW n \in Incoming, Confirm(n) PROVE Proven(m)'
  <2>1. n = m
    BY <1>7 DEF Confirm, TypeOK
  <2> QED
    BY <1>7, <2>1 DEF Confirm, HoldsCarry
<1>8. ASSUME NEW n \in Incoming, ReceiptLapses(n) PROVE FALSE
  BY <1>1, <1>8 DEF ReceiptLapses
<1>9. ASSUME NEW e \in Event, ClaimLapses(e) PROVE FALSE
  BY <1>1, <1>9 DEF ClaimLapses
<1>10. CASE UNCHANGED vars
  BY <1>1, <1>10 DEF vars, rows
<1> QED
  BY <1>2, <1>3, <1>4, <1>5, <1>6, <1>7, <1>8, <1>9, <1>10 DEF Next

-----------------------------------------------------------------------------
(* News.                                                                     *)

Final == {"decided", "expired"}

\* What was handed out of how a message ended is how it ended.
HandedTrue ==
    \A m \in Sent, s \in Final : <<m, s>> \in handed => status[m] = s

\* What a pass picked was current then, and an end still is.
PickCurrent ==
    \A h \in Call, m \in Sent, s \in Final : pick[h] = <<m, s>> => status[m] = s

\* While the newest park is in a pass that picked an acknowledgement, no end
\* of that message was handed out.
AckBefore ==
    \A h \in Call, m \in Sent, s \in Final :
        pc[h] = "looked" /\ current = h /\ pick[h] = <<m, "acked">> => <<m, s>> \notin handed

\* How a message ended stays so.
LEMMA EndStays ==
  ASSUME TypeOK, [Next]_vars, NEW m \in Sent, status[m] \in Final
  PROVE  status'[m] = status[m]
<1>1. ASSUME UNCHANGED status PROVE status'[m] = status[m]
  BY <1>1
<1>2. ASSUME NEW n \in Message, Send(n) \/ Ack(n) \/ Reply(n) \/ Cancel(n)
                               \/ ExpireLook(n) \/ ExpireStamp(n)
      PROVE  status'[m] = status[m]
  BY <1>2 DEF Send, Ack, Reply, Cancel, ExpireLook, ExpireStamp, TypeOK, Message, Final
<1>3. ASSUME NEW h \in Call, \/ Park(h) \/ Look(h) \/ Claim(h) \/ Timeout(h) \/ Superseded(h)
                            \/ Gone(h) \/ Stamp(h) \/ Arrive(h) \/ Lose(h)
                            \/ \E n \in Message : ReadLook(h, n)
      PROVE  status'[m] = status[m]
  BY <1>1, <1>3 DEF Park, Look, Claim, Timeout, Superseded, Gone, Stamp, Arrive, Lose,
     ReadLook, messages
<1>4. CASE Rail \/ \E n \in Incoming : Confirm(n) \/ ReceiptLapses(n)
  BY <1>1, <1>4 DEF Rail, Confirm, ReceiptLapses, messages
<1>5. ASSUME NEW e \in Event, ClaimLapses(e) PROVE status'[m] = status[m]
  BY <1>1, <1>5 DEF ClaimLapses, messages
<1>6. CASE UNCHANGED vars
  BY <1>1, <1>6 DEF vars, messages
<1> QED
  BY <1>2, <1>3, <1>4, <1>5, <1>6 DEF Next

\* What a claim hands out is current, or what its pass picked.
LEMMA HandedOut ==
  ASSUME TypeOK, NEW h \in Call, Claim(h), NEW e \in Outcome, e \in handed', e \notin handed
  PROVE  pc[h] = "looked" /\ current = h /\ (e = pick[h] \/ e[2] = OutcomeState(MessageOf(e)))
<1>1. e \in Batch(h) /\ pc[h] = "looked" /\ current = h
  BY DEF Claim, Guarded
<1>2. e \notin Redeliveries
  BY Events DEF Redeliveries
<1> QED
  BY <1>1, <1>2 DEF Batch, Dropped, Overtaken

LEMMA StateOf ==
  ASSUME NEW m \in Sent
  PROVE  /\ \A s \in Final : OutcomeState(m) = s => status[m] = s
         /\ OutcomeState(m) = "acked" => status[m] = "pending"
  BY DEF OutcomeState, Final

NewsInv == HandedTrue /\ PickCurrent /\ AckBefore

\* A pass picks what is current.
LEMMA Picked ==
  ASSUME TypeOK, NEW h \in Call, Look(h), NEW m \in Sent, NEW s, pick'[h] = <<m, s>>, <<m, s>> \in Outcome
  PROVE  s = OutcomeState(m)
<1> DEFINE news == {e \in Scan(Floor) : ~Overtaken(e)}
<1>1. Redeliveries # {} => Oldest(Redeliveries) \in Redeliveries
  BY OldestIn, BatchType
<1>2. news # {} => Oldest(news) \in news
  BY OldestIn DEF Scan
<1>3. <<m, s>> \notin Redeliveries
  BY Events DEF Redeliveries
<1>4. <<m, s>> # NoEvent
  BY DEF NoEvent, Message
<1>5. pick'[h] = IF Redeliveries # {} THEN Oldest(Redeliveries)
                 ELSE IF news # {} THEN Oldest(news) ELSE NoEvent
  BY DEF Look, TypeOK
<1>6. <<m, s>> \in news
  BY <1>1, <1>2, <1>3, <1>4, <1>5
<1> QED
  BY <1>6 DEF Overtaken, MessageOf
LEMMA NewsStep == TypeOK /\ NewsInv /\ [Next]_vars => NewsInv'
<1> SUFFICES ASSUME TypeOK, NewsInv, [Next]_vars PROVE NewsInv'
  OBVIOUS
<1> USE DEF NewsInv
<1>0. \A m \in Sent, s \in Final : <<m, s>> \in Outcome /\ <<m, s>> # NoEvent
  BY DEF Outcome, NoEvent, Final, Message
<1>1. ASSUME UNCHANGED <<pc, pick, current, handed>> PROVE NewsInv'
  BY <1>1, EndStays DEF HandedTrue, PickCurrent, AckBefore
<1>2. ASSUME NEW m \in Message, \/ Send(m) \/ Ack(m) \/ Reply(m) \/ Cancel(m)
                               \/ ExpireLook(m) \/ ExpireStamp(m)
      PROVE  NewsInv'
  BY <1>1, <1>2 DEF Send, Ack, Reply, Cancel, ExpireLook, ExpireStamp, calls
<1>3. ASSUME NEW h \in Call, Park(h) PROVE NewsInv'
  <2>1. HandedTrue' /\ PickCurrent'
    BY <1>3, EndStays DEF Park, HandedTrue, PickCurrent
  <2>2. AckBefore'
    BY <1>3 DEF Park, AckBefore, TypeOK
  <2> QED
    BY <2>1, <2>2
<1>4. ASSUME NEW h \in Call, Look(h) PROVE NewsInv'
  <2>1. HandedTrue'
    BY <1>4, EndStays DEF Look, HandedTrue
  <2>2. PickCurrent'
    <3> SUFFICES ASSUME NEW g \in Call, NEW m \in Sent, NEW s \in Final, pick'[g] = <<m, s>>
                 PROVE  status'[m] = s
      BY DEF PickCurrent
    <3>1. CASE g = h
      BY <1>0, <1>4, <3>1, Picked, StateOf DEF Look, messages
    <3>2. CASE g # h
      BY <1>4, <3>2, EndStays DEF Look, PickCurrent, TypeOK
    <3> QED
      BY <3>1, <3>2
  <2>3. AckBefore'
    <3> SUFFICES ASSUME NEW g \in Call, NEW m \in Sent, NEW s \in Final,
                        pc'[g] = "looked", current' = g, pick'[g] = <<m, "acked">>,
                        <<m, s>> \in handed'
                 PROVE  FALSE
      BY DEF AckBefore
    <3>1. CASE g = h
      <4>1. <<m, "acked">> \in Outcome
        BY DEF Outcome
      <4>2. status[m] = "pending"
        BY <4>1, <1>4, <3>1, Picked, StateOf
      <4>3. status[m] = s
        BY <1>4 DEF Look, HandedTrue
      <4> QED
        BY <4>2, <4>3 DEF Final
    <3>2. CASE g # h
      BY <1>4, <3>2 DEF Look, AckBefore, TypeOK
    <3> QED
      BY <3>1, <3>2
  <2> QED
    BY <2>1, <2>2, <2>3
<1>5. ASSUME NEW h \in Call, Claim(h) PROVE NewsInv'
  <2>1. HandedTrue'
    <3> SUFFICES ASSUME NEW m \in Sent, NEW s \in Final, <<m, s>> \in handed'
                 PROVE  status'[m] = s
      BY DEF HandedTrue
    <3>1. CASE <<m, s>> \in handed
      BY <3>1, EndStays DEF HandedTrue
    <3>2. CASE <<m, s>> \notin handed
      <4>1. pick[h] = <<m, s>> \/ s = OutcomeState(m)
        BY <1>0, <1>5, <3>2, HandedOut DEF MessageOf
      <4>2. status[m] = s
        BY <4>1, StateOf DEF PickCurrent
      <4> QED
        BY <4>2, EndStays
    <3> QED
      BY <3>1, <3>2
  <2>2. PickCurrent'
    <3> SUFFICES ASSUME NEW g \in Call, NEW m \in Sent, NEW s \in Final, pick'[g] = <<m, s>>
                 PROVE  status'[m] = s
      BY DEF PickCurrent
    <3>1. pick' = [pick EXCEPT ![h] = NoEvent]
      BY <1>5 DEF Claim
    <3>2. pick[g] = <<m, s>>
      BY <1>0, <3>1 DEF TypeOK
    <3> QED
      BY <3>2, EndStays DEF PickCurrent
  <2>3. AckBefore'
    <3>1. \A g \in Call : pc'[g] = "looked" => g # h
      BY <1>5 DEF Claim, TypeOK
    <3> QED
      BY <1>5, <3>1 DEF Claim, Guarded, AckBefore
  <2> QED
    BY <2>1, <2>2, <2>3
<1>6. ASSUME NEW h \in Call, Superseded(h) \/ Gone(h) PROVE NewsInv'
  <2>1. HandedTrue'
    BY <1>6, EndStays DEF Superseded, Gone, HandedTrue
  <2>2. PickCurrent'
    <3> SUFFICES ASSUME NEW g \in Call, NEW m \in Sent, NEW s \in Final, pick'[g] = <<m, s>>
                 PROVE  status'[m] = s
      BY DEF PickCurrent
    <3>1. pick' = [pick EXCEPT ![h] = NoEvent]
      BY <1>6 DEF Superseded, Gone
    <3>2. pick[g] = <<m, s>>
      BY <1>0, <3>1 DEF TypeOK
    <3> QED
      BY <3>2, EndStays DEF PickCurrent
  <2>3. AckBefore'
    BY <1>6 DEF Superseded, Gone, AckBefore, TypeOK
  <2> QED
    BY <2>1, <2>2, <2>3
<1>7. ASSUME NEW h \in Call, \/ Timeout(h) \/ Stamp(h) \/ Arrive(h) \/ Lose(h)
                            \/ \E m \in Message : ReadLook(h, m)
      PROVE  NewsInv'
  <2>1. UNCHANGED <<pick, current, handed>>
    BY <1>7 DEF Timeout, Stamp, Arrive, Lose, ReadLook
  <2>2. \A g \in Call : pc'[g] = "looked" => pc[g] = "looked"
    BY <1>7 DEF Timeout, Stamp, Arrive, Lose, ReadLook, TypeOK
  <2> QED
    BY <2>1, <2>2, EndStays DEF HandedTrue, PickCurrent, AckBefore
<1>8. CASE Rail \/ \E m \in Incoming : Confirm(m) \/ ReceiptLapses(m)
  BY <1>1, <1>8 DEF Rail, Confirm, ReceiptLapses, calls
<1>9. ASSUME NEW e \in Event, ClaimLapses(e) PROVE NewsInv'
  BY <1>1, <1>9 DEF ClaimLapses, calls
<1>10. CASE UNCHANGED vars
  BY <1>1, <1>10 DEF vars, calls
<1> QED
  BY <1>2, <1>3, <1>4, <1>5, <1>6, <1>7, <1>8, <1>9, <1>10 DEF Next

-----------------------------------------------------------------------------
(* Theorems.                                                                 *)

IInv == TypeOK /\ HoldsCarry /\ ReceivedIsProven /\ NewsInv

\* The inductive invariant: who holds a token, what was received, and what news
\* was handed out (confirm_by_tokens, claim_next).
THEOREM Invariant == Spec => []IInv
<1>1. Init => IInv
  <2> SUFFICES ASSUME Init PROVE IInv
    OBVIOUS
  <2>1. HoldsCarry /\ ReceivedIsProven /\ HandedTrue
    BY DEF Init, HoldsCarry, ReceivedIsProven, HandedTrue
  <2>2. PickCurrent /\ AckBefore
    <3>1. \A h \in Call : pick[h] = NoEvent
      BY DEF Init
    <3>2. \A m \in Sent : m # "none"
      OBVIOUS
    <3> QED
      BY <3>1, <3>2 DEF PickCurrent, AckBefore, NoEvent
  <2> QED
    BY <2>1, <2>2, InitType DEF IInv, NewsInv
<1>2. IInv /\ [Next]_vars => IInv'
  <2> SUFFICES ASSUME IInv, [Next]_vars PROVE IInv'
    OBVIOUS
  <2>1. TypeOK' /\ HoldsCarry' /\ NewsInv'
    BY TypeStep, HoldsStep, NewsStep DEF IInv
  <2>2. ASSUME NEW m \in Incoming, received'[m] PROVE Proven(m)'
    BY <2>2, ProofStays, ReceivedStep DEF IInv, ReceivedIsProven, Proven
  <2>3. ReceivedIsProven'
    BY <2>2 DEF ReceivedIsProven, Proven
  <2> QED
    BY <2>1, <2>3 DEF IInv
<1> QED
  BY <1>1, <1>2, PTL DEF Spec

\* The tables, the park log and the calls are typed.
THEOREM TypeCorrect == Spec => []TypeOK
<1>1. IInv => TypeOK
  BY DEF IInv
<1> QED
  BY Invariant, <1>1, PTL

\* A message is marked received only when the agent saw its text or acted on it,
\* whatever replies were lost and tokens kept, replaced or confirmed.
THEOREM ReceiptsAreProofs == Spec => []ReceivedIsProven
<1>1. IInv => ReceivedIsProven
  BY DEF IInv
<1> QED
  BY Invariant, <1>1, PTL

\* No sender is told of an expiry that did not happen.
THEOREM NewsIsNeverFalse == Spec => []NewsIsTrue
<1>1. IInv => NewsIsTrue
  BY DEF IInv, NewsInv, HandedTrue, NewsIsTrue, Final
<1> QED
  BY Invariant, <1>1, PTL

\* No acknowledgement is told after the end of its message.
THEOREM NewsGoesForward == Spec => NewsInOrder
<1> DEFINE Forward == \A m \in Sent :
        <<m, "acked">> \in handed' \ handed =>
            handed \cap {<<m, "decided">>, <<m, "expired">>} = {}
<1>1. IInv /\ [Next]_vars => [Forward]_vars
  <2> SUFFICES ASSUME IInv, [Next]_vars, NEW m \in Sent, NEW s \in Final,
                      <<m, "acked">> \in handed', <<m, "acked">> \notin handed,
                      <<m, s>> \in handed
               PROVE  FALSE
    BY DEF Final
  <2>1. PICK h \in Call : Claim(h)
    <3>1. handed' # handed
      OBVIOUS
    <3> QED
      BY <3>1 DEF Next, vars, calls, Send, Ack, Reply, Cancel, ExpireLook, ExpireStamp,
         Park, Look, Timeout, Superseded, Gone, Stamp, Arrive, Lose, ReadLook, Rail,
         Confirm, ReceiptLapses, ClaimLapses
  <2>2. <<m, "acked">> \in Outcome
    BY DEF Outcome
  <2>3. status[m] = s
    BY DEF IInv, NewsInv, HandedTrue
  <2>4. "acked" # OutcomeState(m)
    BY <2>3, StateOf DEF Final
  <2>5. pc[h] = "looked" /\ current = h /\ pick[h] = <<m, "acked">>
    BY <2>1, <2>2, <2>4, HandedOut DEF IInv, MessageOf
  <2> QED
    BY <2>5 DEF IInv, NewsInv, AckBefore
<1> QED
  BY Invariant, <1>1, PTL DEF Spec, NewsInOrder

================================================================================
