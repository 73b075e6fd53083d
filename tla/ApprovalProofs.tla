----------------------------- MODULE ApprovalProofs -----------------------------
(***************************************************************************)
(* Theorems about Approval, for any number of actors, calls, requests,     *)
(* messages and rows.                                                      *)
(*                                                                         *)
(* The argument: who asked, a verdict and an accepted message last (Lasts),*)
(* so what a call read of them is still true when it uses it, whatever     *)
(* happened in between (Knows).  An approval is written by a call whose    *)
(* reply accepted a message about it (OnAnswer), and a row is stored by a  *)
(* call that read an approval of the seat.                                 *)
(***************************************************************************)
EXTENDS Approval, TLAPS

\* An accepted answer of `who` to a message about request a.
AcceptedBy(a, who) ==
    \E m \in Message : message[m].of = a /\ message[m].to = who /\ message[m].decision = "accepted"

\* What a call carries is fit for its next step.
Carries(c) ==
    LET f == call[c]
    IN  /\ f.pc # "idle" => f.who \in Actor
        /\ f.pc \in {"request", "insert", "announce", "redeliver", "putback"} => f.other \in Actor
        /\ f.pc \in {"request", "insert"} => f.other # f.who
        /\ f.pc \notin {"idle", "request", "insert"} => f.at \in Approval
        /\ f.pc \in {"bind", "rebound"} => f.got \in Message /\ message[f.got].of = f.at
        /\ f.pc = "reply" => f.got \in 0..MaxMessage /\ (f.got # 0 => message[f.got].of = f.at)
        /\ f.pc \in {"reply", "write"} => f.want \in Decision

\* What a call read of its request is still true.
Knows(c) ==
    LET f == call[c]  r == row[f.at]
    IN  /\ f.pc \notin {"idle", "request", "insert"} => r.state # "none"
        /\ f.pc \in {"redeliver", "putback", "rebound", "decide", "reply", "write"} =>
              r.requester # f.who
        /\ f.pc = "write" /\ f.want = "accepted" => AcceptedBy(f.at, f.who)
        /\ f.pc \in {"claim", "store", "record", "release"} => r.state = "approved" /\ r.beta
        /\ f.pc = "record" => f.got \in admitted[f.at]

\* A row's message is about it, a row was approved by an accepted answer, and
\* what was never requested produced nothing.
OnAnswer(a) ==
    /\ row[a].state = "none" => row[a].ref = 0
    /\ row[a].message # 0 => message[row[a].message].of = a
    /\ row[a].state = "approved" =>
          row[a].decider # row[a].requester /\ AcceptedBy(a, row[a].decider)
    /\ admitted[a] # {} => row[a].state = "approved" /\ row[a].beta

OneOpen == \A a, b \in Open(row) : a = b

IInv ==
    /\ TypeOK /\ OneOpen
    /\ \A c \in Call : Carries(c) /\ Knows(c)
    /\ \A a \in Approval : OnAnswer(a)

\* What no step takes back.
Lasts ==
    /\ \A a \in Approval : row[a].state # "none" =>
          row'[a].state # "none" /\ row'[a].requester = row[a].requester
    /\ \A a \in Approval : row[a].state = "approved" =>
          row'[a].state = "approved" /\ row'[a].beta = row[a].beta /\ row'[a].decider = row[a].decider
    /\ \A m \in Message : message[m].of # 0 =>
          /\ message'[m].of = message[m].of /\ message'[m].to = message[m].to
          /\ message[m].decision = "accepted" => message'[m].decision = "accepted"
    /\ \A a \in Approval : admitted[a] \subseteq admitted'[a]

USE ApprovalBounds, ActorAssumption DEF Approval, Message, BacklogRow

-----------------------------------------------------------------------------
(* The sweep.                                                                *)

\* The sweep only lets pending requests expire.
LEMMA SweptKeeps ==
  ASSUME TypeOK, NEW r \in Swept
  PROVE  /\ r \in [Approval -> Row]
         /\ \A a \in Approval :
               /\ r[a].requester = row[a].requester /\ r[a].approver = row[a].approver
               /\ r[a].message = row[a].message /\ r[a].ref = row[a].ref
               /\ r[a].decider = row[a].decider /\ r[a].beta = row[a].beta
               /\ r[a].claim = row[a].claim
               /\ r[a].state = row[a].state \/ (row[a].state = "pending" /\ r[a].state = "expired")
<1>1. PICK late \in SUBSET {a \in Approval : row[a].state = "pending"} :
         r = [a \in Approval |-> IF a \in late THEN [row[a] EXCEPT !.state = "expired"] ELSE row[a]]
  BY DEF Swept
<1>2. row \in [Approval -> Row]
  BY DEF TypeOK
<1>3. ASSUME NEW a \in Approval, a \in late PROVE
          r[a] = [row[a] EXCEPT !.state = "expired"] /\ row[a].state = "pending"
  BY <1>1, <1>3
<1>4. ASSUME NEW a \in Approval, a \notin late PROVE r[a] = row[a]
  BY <1>1, <1>4
<1>5. ASSUME NEW a \in Approval PROVE r[a] \in Row
  <2>1. row[a] \in Row
    BY <1>2
  <2>2. CASE a \in late
    BY <2>1, <2>2, <1>3 DEF Row
  <2>3. CASE a \notin late
    BY <2>1, <2>3, <1>4
  <2> QED
    BY <2>2, <2>3
<1>6. r \in [Approval -> Row]
  BY <1>1, <1>5
<1> QED
  BY <1>2, <1>3, <1>4, <1>6 DEF Row

\* Rows that are swept are typed.
LEMMA SweptTyped ==
  ASSUME TypeOK, NEW r \in Swept
  PROVE  \A a \in Approval : r[a].state # "none" =>
            r[a].requester \in Actor /\ r[a].approver \in Actor
BY SweptKeeps DEF TypeOK

-----------------------------------------------------------------------------
(* Types.                                                                    *)

\* A frame or a row with some fields replaced by values of their types is one.
LEMMA FrameUpdates ==
  ASSUME NEW f \in Frame,
         NEW p \in {"announce", "undo", "bind", "rebound", "record", "redeliver", "decide", "reply",
                     "write"}
  PROVE  /\ \A n \in Nat : [f EXCEPT !.pc = p, !.got = n] \in Frame
         /\ \A x \in AnActor : [f EXCEPT !.pc = p, !.other = x] \in Frame
         /\ \A a \in Approval : [f EXCEPT !.pc = p, !.at = a] \in Frame
         /\ \A x \in AnActor, n \in Nat : [f EXCEPT !.pc = p, !.other = x, !.got = n] \in Frame
         /\ \A n \in Nat, d \in Decision, b \in BOOLEAN :
               [f EXCEPT !.pc = p, !.got = n, !.want = d, !.beta = b] \in Frame
<1>1. p \in {"idle", "request", "insert", "announce", "bind", "undo", "claim", "store", "record",
             "release", "rebind", "redeliver", "rebound", "putback", "decide", "reply", "write"}
  OBVIOUS
<1>2. ASSUME NEW n \in Nat PROVE [f EXCEPT !.pc = p, !.got = n] \in Frame
  BY <1>1, Zenon DEF Frame
<1>3. ASSUME NEW x \in AnActor PROVE [f EXCEPT !.pc = p, !.other = x] \in Frame
  BY <1>1, Zenon DEF Frame
<1>4. ASSUME NEW a \in Approval PROVE [f EXCEPT !.pc = p, !.at = a] \in Frame
  <2>1. a \in 0..MaxApproval
    OBVIOUS
  <2> QED
    BY <1>1, <2>1, Zenon DEF Frame
<1>5. ASSUME NEW x \in AnActor, NEW n \in Nat
      PROVE  [f EXCEPT !.pc = p, !.other = x, !.got = n] \in Frame
  BY <1>1, Zenon DEF Frame
<1>6. ASSUME NEW n \in Nat, NEW d \in Decision, NEW b \in BOOLEAN
      PROVE  [f EXCEPT !.pc = p, !.got = n, !.want = d, !.beta = b] \in Frame
  BY <1>1, Zenon DEF Frame
<1> QED
  BY <1>2, <1>3, <1>4, <1>5, <1>6

LEMMA NoFrame == Idle \in Frame
<1>1. "none" \in AnActor /\ 0 \in 0..MaxApproval
  BY DEF AnActor
<1> QED
  BY <1>1, Zenon DEF Idle, Frame

LEMMA FirstFrames ==
  ASSUME NEW who \in AnActor, NEW a \in Approval
  PROVE  /\ [Idle EXCEPT !.pc = "claim", !.who = who, !.at = a] \in Frame
         /\ [Idle EXCEPT !.pc = "rebind", !.who = who, !.at = a] \in Frame
<1>1. a \in 0..MaxApproval
  OBVIOUS
<1>2. [Idle EXCEPT !.pc = "claim", !.who = who, !.at = a] \in Frame
  BY <1>1, NoFrame, Zenon DEF Frame
<1>3. [Idle EXCEPT !.pc = "rebind", !.who = who, !.at = a] \in Frame
  BY <1>1, NoFrame, Zenon DEF Frame
<1> QED
  BY <1>2, <1>3

LEMMA RowUpdates ==
  ASSUME NEW r \in Row
  PROVE  /\ \A x \in AnActor : [r EXCEPT !.approver = x] \in Row /\ [r EXCEPT !.claim = x] \in Row
         /\ [r EXCEPT !.state = "withdrawn"] \in Row
         /\ \A m \in 0..MaxMessage : [r EXCEPT !.message = m] \in Row
         /\ \A n \in 0..MaxRow : [r EXCEPT !.ref = n, !.claim = "none"] \in Row
         /\ \A d \in Decision, x \in AnActor, b \in BOOLEAN :
               [r EXCEPT !.state = Verdict(d), !.decider = x, !.beta = b] \in Row
<1>1. ASSUME NEW x \in AnActor
      PROVE  [r EXCEPT !.approver = x] \in Row /\ [r EXCEPT !.claim = x] \in Row
  BY DEF Row
<1>2. ASSUME NEW m \in 0..MaxMessage PROVE [r EXCEPT !.message = m] \in Row
  BY DEF Row
<1>3. ASSUME NEW n \in 0..MaxRow PROVE [r EXCEPT !.ref = n, !.claim = "none"] \in Row
  <2>1. "none" \in AnActor
    BY DEF AnActor
  <2> QED
    BY <2>1, Zenon DEF Row
<1>4. ASSUME NEW d \in Decision, NEW x \in AnActor, NEW b \in BOOLEAN
      PROVE  [r EXCEPT !.state = Verdict(d), !.decider = x, !.beta = b] \in Row
  <2>1. Verdict(d) \in {"none", "pending", "approved", "rejected", "expired", "withdrawn"}
    BY DEF Verdict
  <2> QED
    BY <2>1, Zenon DEF Row
<1>5. [r EXCEPT !.state = "withdrawn"] \in Row
  BY Zenon DEF Row
<1> QED
  BY <1>1, <1>2, <1>3, <1>4, <1>5

LEMMA NewRowTyped ==
  ASSUME NEW x \in AnActor, NEW y \in AnActor
  PROVE  NoRow \in Row /\ [NoRow EXCEPT !.state = "pending", !.requester = x, !.approver = y] \in Row
<1>1. "none" \in AnActor /\ 0 \in 0..MaxMessage /\ 0 \in 0..MaxRow
  BY DEF AnActor
<1>2. NoRow \in Row
  BY <1>1, Zenon DEF NoRow, Row
<1> QED
  BY <1>2, Zenon DEF Row

\* The table with one row replaced is typed, if the row is.
LEMMA TableTyped ==
  ASSUME NEW r \in [Approval -> Row], NEW a \in Approval, NEW v \in Row,
         \A b \in Approval : r[b].state # "none" => r[b].requester \in Actor /\ r[b].approver \in Actor,
         v.state # "none" => v.requester \in Actor /\ v.approver \in Actor,
         row' = [r EXCEPT ![a] = v]
  PROVE  row' \in [Approval -> Row] /\ \A b \in Approval : row'[b].state # "none" =>
            row'[b].requester \in Actor /\ row'[b].approver \in Actor
OBVIOUS

\* The ways a step leaves the frame of a call.
LEMMA FrameTyped ==
  ASSUME TypeOK, NEW c \in Call
  PROVE  /\ Ends(c) => call' \in [Call -> Frame]
         /\ \A pc \in {"insert", "store", "release", "decide", "putback"} :
               Goes(c, pc) => call' \in [Call -> Frame]
         /\ \A f \in Frame : call' = [call EXCEPT ![c] = f] => call' \in [Call -> Frame]
<1> USE DEF TypeOK
<1>1. Idle \in Frame
  BY NoFrame
<1>2. ASSUME NEW pc \in {"insert", "store", "release", "decide", "putback"}, Goes(c, pc)
      PROVE call' \in [Call -> Frame]
  <2>1. call[c] \in Frame
    OBVIOUS
  <2>2. [call[c] EXCEPT !.pc = pc] \in Frame
    BY <2>1 DEF Frame
  <2> QED
    BY <1>2, <2>2 DEF Goes
<1> QED
  BY <1>1, <1>2 DEF Ends

LEMMA InitIInv == Init => IInv
<1> SUFFICES ASSUME Init PROVE IInv
  OBVIOUS
<1> USE DEF Init
<1>1. TypeOK
  <2>a. "none" \in AnActor
    BY DEF AnActor
  <2>b. NoMail \in Mail
    <3>1. 0 \in 0..MaxApproval
      OBVIOUS
    <3> QED
      BY <2>a, <3>1, Zenon DEF NoMail, Mail
  <2>1. NoRow \in Row /\ NoMail \in Mail /\ Idle \in Frame
    BY <2>a, <2>b, NewRowTyped, NoFrame
  <2>2. \A a \in Approval : row[a].state = "none"
    BY DEF NoRow
  <2> QED
    BY <2>1, <2>2 DEF TypeOK
<1>2. OneOpen
  BY DEF OneOpen, Open, NoRow
<1>3. ASSUME NEW c \in Call PROVE Carries(c) /\ Knows(c)
  BY DEF Carries, Knows, Idle
<1>4. ASSUME NEW a \in Approval PROVE OnAnswer(a)
  BY DEF OnAnswer, NoRow
<1> QED
  BY <1>1, <1>2, <1>3, <1>4 DEF IInv

\* A send keeps messages and frames typed.
LEMMA SendTyped ==
  ASSUME TypeOK, NEW c \in Call, NEW to \in Actor, NEW next \in {"bind", "rebound"},
         call[c].at \in Approval, Send(c, to, next)
  PROVE  message' \in [Message -> Mail] /\ call' \in [Call -> Frame]
<1> USE DEF TypeOK
<1>1. PICK m \in Message :
        /\ message' = [message EXCEPT ![m] = [of |-> call[c].at, to |-> to, decision |-> "pending"]]
        /\ call' = [call EXCEPT ![c].pc = next, ![c].other = "none", ![c].got = m]
  BY DEF Send
<1>2. [of |-> call[c].at, to |-> to, decision |-> "pending"] \in Mail
  BY DEF Mail, AnActor
<1>3. call[c] \in Frame
  OBVIOUS
<1>4. [call[c] EXCEPT !.pc = next, !.other = "none", !.got = m] \in Frame
  <2>1. m \in Nat /\ "none" \in AnActor
    BY DEF AnActor
  <2>2. next \in {"announce", "undo", "bind", "rebound", "record", "redeliver", "decide", "reply",
                 "write"}
    OBVIOUS
  <2> QED
    BY <1>3, <2>1, <2>2, FrameUpdates, Zenon
<1> QED
  BY <1>1, <1>2, <1>4

LEMMA TypeStep == IInv /\ [Next]_vars => TypeOK'
<1> SUFFICES ASSUME IInv, [Next]_vars PROVE TypeOK'
  OBVIOUS
<1>i. TypeOK /\ \A c \in Call : Carries(c) /\ Knows(c)
  BY DEF IInv
<1>a. ASSUME NEW c \in Call, Asks(c) PROVE TypeOK'
  <2>1. row' \in Swept /\ UNCHANGED <<seat, message, admitted>>
    BY <1>a DEF Asks, AskRefused, AskSpends, AskRequests
  <2>2. CASE AskRefused(c)
    BY <1>i, <2>1, <2>2, SweptKeeps, SweptTyped DEF TypeOK, AskRefused
  <2>3. ASSUME NEW who \in Actor, AskSpends(c, who) PROVE TypeOK'
    <3>1. PICK a \in Approval :
            call' = [call EXCEPT ![c] = [Idle EXCEPT !.pc = "claim", !.who = who, !.at = a]]
      BY <2>3 DEF AskSpends
    <3>2. [Idle EXCEPT !.pc = "claim", !.who = who, !.at = a] \in Frame
      BY <3>1, FirstFrames DEF AnActor
    <3> QED
      BY <1>i, <2>1, <3>1, <3>2, FrameTyped, SweptKeeps, SweptTyped DEF TypeOK
  <2>4. ASSUME NEW who \in Actor, AskRequests(c, who) PROVE TypeOK'
    <3>1. [Idle EXCEPT !.pc = "request", !.who = who, !.other = seat] \in Frame
      <4>1. seat \in AnActor
        BY <1>i DEF TypeOK
      <4>2. who \in AnActor /\ "none" \in AnActor
        BY DEF AnActor
      <4>3. "none" \in Decision \cup {"none"} /\ Idle \in Frame
        BY <4>2, NoFrame
      <4> QED
        BY <4>1, <4>2, <4>3, Zenon DEF Frame
    <3> QED
      BY <1>i, <2>1, <2>4, <3>1, FrameTyped, SweptKeeps, SweptTyped DEF TypeOK, AskRequests
  <2> QED
    BY <1>a, <2>2, <2>3, <2>4 DEF Asks
<1>b. ASSUME NEW c \in Call, Requests(c) PROVE TypeOK'
  <2>1. CASE Look(c)
    BY <1>i, <2>1, FrameTyped, SweptKeeps, SweptTyped DEF TypeOK, Look
  <2>2. CASE Insert(c)
    <3>1. PICK a \in Fresh :
            /\ row' = [row EXCEPT ![a] = [NoRow EXCEPT !.state = "pending",
                             !.requester = call[c].who, !.approver = call[c].other]]
            /\ call' = [call EXCEPT ![c].pc = "announce", ![c].at = a]
      BY <2>2 DEF Insert
    <3>2. a \in Approval /\ call[c].who \in Actor /\ call[c].other \in Actor /\ call[c] \in Frame
      BY <1>i, <2>2, <3>1 DEF Fresh, TypeOK, Insert, At, Carries
    <3>3. [NoRow EXCEPT !.state = "pending", !.requester = call[c].who,
                        !.approver = call[c].other] \in Row
      <4>1. call[c].who \in AnActor /\ call[c].other \in AnActor
        BY <3>2 DEF AnActor
      <4> QED
        BY <4>1, NewRowTyped
    <3>4. [call[c] EXCEPT !.pc = "announce", !.at = a] \in Frame
      BY <3>2, FrameUpdates DEF AnActor
    <3>5. row' \in [Approval -> Row] /\ call' \in [Call -> Frame]
      BY <1>i, <3>1, <3>2, <3>3, <3>4 DEF TypeOK
    <3>6. ASSUME NEW b \in Approval, row'[b].state # "none"
          PROVE row'[b].requester \in Actor /\ row'[b].approver \in Actor
      BY <1>i, <3>1, <3>2, <3>6 DEF TypeOK, NoRow
    <3> QED
      BY <1>i, <2>2, <3>5, <3>6 DEF TypeOK, Insert
  <2>3. CASE InsertRaced(c)
    BY <1>i, <2>3, FrameTyped DEF TypeOK, InsertRaced
  <2>4. CASE Announce(c)
    <3>1. call[c].other \in Actor /\ call[c].at \in Approval
      BY <1>i, <2>4 DEF Announce, At, Carries
    <3>2. message' \in [Message -> Mail] /\ call' \in [Call -> Frame]
      BY <1>i, <2>4, <3>1, SendTyped DEF Announce
    <3> QED
      BY <1>i, <2>4, <3>2 DEF TypeOK, Announce
  <2>5. CASE AnnounceFails(c)
    <3>1. [call[c] EXCEPT !.pc = "undo", !.other = "none"] \in Frame
      <4>1. call[c] \in Frame /\ "none" \in AnActor
        BY <1>i DEF TypeOK, AnActor
      <4> QED
        BY <4>1, FrameUpdates
    <3>2. call' \in [Call -> Frame]
      BY <1>i, <2>5, <3>1 DEF TypeOK, AnnounceFails
    <3> QED
      BY <1>i, <2>5, <3>2 DEF TypeOK, AnnounceFails
  <2>6. CASE Undo(c)
    <3>1. ASSUME NEW a \in Approval PROVE [row[a] EXCEPT !.state = "withdrawn"] \in Row
      <4>1. row[a] \in Row
        BY <1>i DEF TypeOK
      <4> QED
        BY <4>1, RowUpdates
    <3>2. row' \in [Approval -> Row] /\ \A b \in Approval : row'[b].state # "none" =>
             row'[b].requester \in Actor /\ row'[b].approver \in Actor
      BY <1>i, <2>6, <3>1 DEF TypeOK, Undo, Open, Row
    <3> QED
      BY <1>i, <2>6, <3>2, FrameTyped DEF TypeOK, Undo
  <2>7. CASE Bind(c)
    <3>1. call[c].at \in Approval /\ call[c].got \in Message
      BY <1>i, <2>7 DEF Bind, At, Carries
    <3>2. [row[call[c].at] EXCEPT !.message = call[c].got] \in Row
      <4>1. row[call[c].at] \in Row /\ call[c].got \in 0..MaxMessage
        BY <1>i, <3>1 DEF TypeOK
      <4> QED
        BY <4>1, RowUpdates DEF AnActor
    <3>3. row' \in [Approval -> Row] /\ \A b \in Approval : row'[b].state # "none" =>
             row'[b].requester \in Actor /\ row'[b].approver \in Actor
      BY <1>i, <2>7, <3>1, <3>2 DEF TypeOK, Bind, Row
    <3> QED
      BY <1>i, <2>7, <3>3, FrameTyped DEF TypeOK, Bind
  <2> QED
    BY <1>b, <2>1, <2>2, <2>3, <2>4, <2>5, <2>6, <2>7 DEF Requests
<1>c. ASSUME NEW c \in Call, Consumes(c) PROVE TypeOK'
  <2>a. call[c] \in Frame
    BY <1>i DEF TypeOK
  <2>1. CASE Claim(c)
    <3>1. PICK r \in Swept :
            \/ /\ row' = [r EXCEPT ![call[c].at].claim = call[c].who] /\ Goes(c, "store")
            \/ row' = r /\ Ends(c)
      BY <2>1 DEF Claim
    <3>2. call[c].at \in Approval /\ call[c].who \in Actor
      BY <1>i, <2>1 DEF Claim, At, Carries
    <3>3. r \in [Approval -> Row] /\ \A a \in Approval : r[a].state # "none" =>
            r[a].requester \in Actor /\ r[a].approver \in Actor
      BY <1>i, SweptKeeps, SweptTyped
    <3>4. [r[call[c].at] EXCEPT !.claim = call[c].who] \in Row
      <4>1. r[call[c].at] \in Row /\ call[c].who \in AnActor
        BY <3>2, <3>3 DEF AnActor
      <4> QED
        BY <4>1, RowUpdates
    <3>5. row' \in [Approval -> Row] /\ \A a \in Approval : row'[a].state # "none" =>
            row'[a].requester \in Actor /\ row'[a].approver \in Actor
      <4>1. r[call[c].at] \in Row
        BY <3>2, <3>3
      <4>2. LET v == [r[call[c].at] EXCEPT !.claim = call[c].who]
            IN  v.state # "none" => v.requester \in Actor /\ v.approver \in Actor
        BY <3>2, <3>3, <4>1 DEF Row
      <4> QED
        BY <3>1, <3>2, <3>3, <3>4, <4>2, TableTyped
    <3> QED
      BY <1>i, <2>1, <3>1, <3>5, FrameTyped DEF TypeOK, Claim
  <2>2. CASE Store(c)
    <3>1. PICK n \in BacklogRow :
            /\ admitted' = [admitted EXCEPT ![call[c].at] = @ \cup {n}]
            /\ call' = [call EXCEPT ![c].pc = "record", ![c].got = n]
      BY <2>2 DEF Store
    <3>2. [call[c] EXCEPT !.pc = "record", !.got = n] \in Frame
      <4>1. n \in Nat
        OBVIOUS
      <4> QED
        BY <2>a, <4>1, FrameUpdates, Zenon
    <3>3. call' \in [Call -> Frame] /\ admitted' \in [Approval -> SUBSET BacklogRow]
      BY <1>i, <3>1, <3>2 DEF TypeOK
    <3> QED
      BY <1>i, <2>2, <3>3 DEF TypeOK, Store
  <2>3. CASE StoreFails(c)
    BY <1>i, <2>3, FrameTyped DEF TypeOK, StoreFails
  <2>4. CASE Record(c)
    <3>1. call[c].at \in Approval /\ call[c].got \in BacklogRow
      BY <1>i, <2>4 DEF Record, At, Carries, Knows, TypeOK
    <3>2. [row[call[c].at] EXCEPT !.ref = call[c].got, !.claim = "none"] \in Row
      <4>1. row[call[c].at] \in Row /\ call[c].got \in 0..MaxRow
        BY <1>i, <3>1 DEF TypeOK
      <4> QED
        BY <4>1, RowUpdates DEF AnActor
    <3>3. row' \in [Approval -> Row] /\ \A b \in Approval : row'[b].state # "none" =>
             row'[b].requester \in Actor /\ row'[b].approver \in Actor
      BY <1>i, <2>4, <3>1, <3>2 DEF TypeOK, Record, Row
    <3> QED
      BY <1>i, <2>4, <3>3, FrameTyped DEF TypeOK, Record
  <2>5. CASE Release(c)
    <3>1. call[c].at \in Approval
      BY <1>i, <2>5 DEF Release, At, Carries
    <3>2. [row[call[c].at] EXCEPT !.claim = "none"] \in Row
      <4>1. row[call[c].at] \in Row
        BY <1>i, <3>1 DEF TypeOK
      <4> QED
        BY <4>1, RowUpdates DEF AnActor
    <3>3. row' \in [Approval -> Row] /\ \A b \in Approval : row'[b].state # "none" =>
             row'[b].requester \in Actor /\ row'[b].approver \in Actor
      BY <1>i, <2>5, <3>1, <3>2 DEF TypeOK, Release, Row
    <3> QED
      BY <1>i, <2>5, <3>3, FrameTyped DEF TypeOK, Release
  <2> QED
    BY <1>c, <2>1, <2>2, <2>3, <2>4, <2>5 DEF Consumes
<1>d. ASSUME NEW c \in Call, Rules(c) PROVE TypeOK'
  <2>a. call[c] \in Frame
    BY <1>i DEF TypeOK
  <2>b. /\ call[c].at \in Approval /\ call[c].who \in Actor
        /\ call[c].pc \in {"reply", "write"} => call[c].want \in Decision
    <3>1. call[c].pc \in {"rebind", "redeliver", "putback", "rebound", "decide", "reply", "write"}
      BY <1>d DEF Rules, Rebind, Redeliver, RedeliverFails, PutBack, Rebound, Decide, Reply,
         Write, At
    <3>2. Carries(c)
      BY <1>i
    <3> QED
      BY <3>1, <3>2 DEF Carries
  <2>1. CASE Rebind(c)
    <3>1. PICK r \in Swept :
            \/ row' = r /\ Ends(c)
            \/ row' = r /\ Goes(c, "decide")
            \/ /\ row' = [r EXCEPT ![call[c].at].approver = call[c].who]
               /\ r[call[c].at].state = "pending"
               /\ call' = [call EXCEPT ![c].pc = "redeliver", ![c].other = r[call[c].at].approver]
      BY <2>1 DEF Rebind, Open
    <3>2. r \in [Approval -> Row] /\ \A a \in Approval : r[a].state # "none" =>
            r[a].requester \in Actor /\ r[a].approver \in Actor
      BY <1>i, SweptKeeps, SweptTyped
    <3>3. [r[call[c].at] EXCEPT !.approver = call[c].who] \in Row
      <4>1. r[call[c].at] \in Row /\ call[c].who \in AnActor
        BY <2>b, <3>2 DEF AnActor
      <4> QED
        BY <4>1, RowUpdates
    <3>4. row' \in [Approval -> Row] /\ \A a \in Approval : row'[a].state # "none" =>
            row'[a].requester \in Actor /\ row'[a].approver \in Actor
      <4>1. r[call[c].at] \in Row
        BY <2>b, <3>2
      <4>2. LET v == [r[call[c].at] EXCEPT !.approver = call[c].who]
            IN  v.state # "none" => v.requester \in Actor /\ v.approver \in Actor
        BY <2>b, <3>2, <4>1 DEF Row
      <4> QED
        BY <2>b, <3>1, <3>2, <3>3, <4>2, TableTyped
    <3>5. r[call[c].at].state = "pending" =>
             [call[c] EXCEPT !.pc = "redeliver", !.other = r[call[c].at].approver] \in Frame
      BY <2>a, <2>b, <3>2, FrameUpdates DEF AnActor
    <3>6. call' \in [Call -> Frame]
      BY <1>i, <3>1, <3>5, FrameTyped DEF TypeOK
    <3> QED
      BY <1>i, <2>1, <3>4, <3>6 DEF TypeOK, Rebind
  <2>2. CASE Redeliver(c)
    <3>1. message' \in [Message -> Mail] /\ call' \in [Call -> Frame]
      BY <1>i, <2>2, <2>b, SendTyped DEF Redeliver
    <3> QED
      BY <1>i, <2>2, <3>1 DEF TypeOK, Redeliver
  <2>3. CASE RedeliverFails(c)
    BY <1>i, <2>3, FrameTyped DEF TypeOK, RedeliverFails
  <2>4. CASE PutBack(c)
    <3>1. call[c].other \in Actor
      BY <1>i, <2>4 DEF PutBack, At, Carries
    <3>2. [row[call[c].at] EXCEPT !.approver = call[c].other] \in Row
      <4>1. row[call[c].at] \in Row /\ call[c].other \in AnActor
        BY <1>i, <2>b, <3>1 DEF TypeOK, AnActor
      <4> QED
        BY <4>1, RowUpdates
    <3>3. row' \in [Approval -> Row] /\ \A b \in Approval : row'[b].state # "none" =>
             row'[b].requester \in Actor /\ row'[b].approver \in Actor
      BY <1>i, <2>b, <2>4, <3>1, <3>2 DEF TypeOK, PutBack, Row
    <3> QED
      BY <1>i, <2>4, <3>3, FrameTyped DEF TypeOK, PutBack
  <2>5. CASE Rebound(c)
    <3>1. call[c].got \in Message
      BY <1>i, <2>5 DEF Rebound, At, Carries
    <3>2. [row[call[c].at] EXCEPT !.message = call[c].got] \in Row
      <4>1. row[call[c].at] \in Row /\ call[c].got \in 0..MaxMessage
        BY <1>i, <2>b, <3>1 DEF TypeOK
      <4> QED
        BY <4>1, RowUpdates DEF AnActor
    <3>3. row' \in [Approval -> Row] /\ \A b \in Approval : row'[b].state # "none" =>
             row'[b].requester \in Actor /\ row'[b].approver \in Actor
      BY <1>i, <2>b, <2>5, <3>2 DEF TypeOK, Rebound, Row
    <3>4. [call[c] EXCEPT !.pc = "decide", !.got = 0] \in Frame
      BY <2>a, FrameUpdates DEF AnActor
    <3>5. call' \in [Call -> Frame]
      BY <1>i, <2>5, <3>4 DEF TypeOK, Rebound
    <3> QED
      BY <1>i, <2>5, <3>3, <3>5 DEF TypeOK, Rebound
  <2>6. CASE Decide(c)
    <3>1. row' \in [Approval -> Row] /\ \A b \in Approval : row'[b].state # "none" =>
             row'[b].requester \in Actor /\ row'[b].approver \in Actor
      BY <1>i, <2>6, SweptKeeps, SweptTyped DEF Decide
    <3>2. row'[call[c].at].message \in Nat
      BY <2>b, <3>1 DEF Row
    <3>3. ASSUME NEW d \in Decision
          PROVE  [call[c] EXCEPT !.pc = "reply", !.got = row'[call[c].at].message, !.want = d,
                                 !.beta = (seat = call[c].who)] \in Frame
      BY <2>a, <3>2, FrameUpdates
    <3>4. CASE Ends(c)
      BY <1>i, <2>6, <3>1, <3>4, FrameTyped DEF TypeOK, Decide
    <3>5. ASSUME NEW d \in Decision,
                 call' = [call EXCEPT ![c].pc = "reply", ![c].got = row'[call[c].at].message,
                                      ![c].want = d, ![c].beta = (seat = call[c].who)]
          PROVE  TypeOK'
      <4>1. call' = [call EXCEPT ![c] =
                       [@ EXCEPT !.pc = "reply", !.got = row'[call[c].at].message, !.want = d,
                                 !.beta = (seat = call[c].who)]]
        BY <3>5
      <4>2. call' \in [Call -> Frame]
        BY <1>i, <3>3, <4>1 DEF TypeOK
      <4> QED
        BY <1>i, <2>6, <3>1, <4>2 DEF TypeOK, Decide
    <3> QED
      BY <2>6, <3>4, <3>5 DEF Decide
  <2>7. CASE Reply(c)
    <3>1. CASE UNCHANGED message /\ Ends(c)
      BY <1>i, <2>7, <3>1, FrameTyped DEF TypeOK, Reply
    <3>2. CASE /\ call[c].got # 0
               /\ message' = [message EXCEPT ![call[c].got].decision = call[c].want]
               /\ call' = [call EXCEPT ![c].pc = "write", ![c].got = 0]
      <4>1. call[c].got \in Message
        BY <1>i, <2>7, <3>2 DEF Reply, At, Carries
      <4>2. [message[call[c].got] EXCEPT !.decision = call[c].want] \in Mail
        <5>1. message[call[c].got] \in Mail /\ call[c].want \in Decision
          BY <1>i, <2>7, <2>b, <4>1 DEF TypeOK, Reply, At
        <5> QED
          BY <5>1, Zenon DEF Mail
      <4>3. [call[c] EXCEPT !.pc = "write", !.got = 0] \in Frame
        BY <2>a, FrameUpdates DEF AnActor
      <4>4. message' \in [Message -> Mail] /\ call' \in [Call -> Frame]
        BY <1>i, <3>2, <4>1, <4>2, <4>3 DEF TypeOK
      <4> QED
        BY <1>i, <2>7, <4>4 DEF TypeOK, Reply
    <3> QED
      BY <2>7, <3>1, <3>2 DEF Reply
  <2>8. CASE Write(c)
    <3>1. [row[call[c].at] EXCEPT !.state = Verdict(call[c].want), !.decider = call[c].who,
                                  !.beta = call[c].beta] \in Row
      <4>1. row[call[c].at] \in Row /\ call[c].who \in AnActor /\ call[c].beta \in BOOLEAN
        BY <1>i, <2>a, <2>b DEF TypeOK, Frame, AnActor
      <4>2. call[c].want \in Decision
        BY <2>8, <2>b DEF Write, At
      <4> QED
        BY <4>1, <4>2, RowUpdates
    <3>2. row' \in [Approval -> Row] /\ \A b \in Approval : row'[b].state # "none" =>
             row'[b].requester \in Actor /\ row'[b].approver \in Actor
      BY <1>i, <2>b, <2>8, <3>1 DEF TypeOK, Write, Undecided, Row
    <3> QED
      BY <1>i, <2>8, <3>2, FrameTyped DEF TypeOK, Write
  <2> QED
    BY <1>d, <2>1, <2>2, <2>3, <2>4, <2>5, <2>6, <2>7, <2>8 DEF Rules
<1>e. ASSUME NEW c \in Call, Gone(c) PROVE TypeOK'
  BY <1>i, <1>e, FrameTyped DEF TypeOK, Gone
<1>f. ASSUME NEW c \in Call, NEW a \in Approval, Rule(c, a) PROVE TypeOK'
  <2>1. [Idle EXCEPT !.pc = "rebind", !.who = seat, !.at = a] \in Frame
    <3>1. seat \in Actor
      BY <1>i, <1>f DEF TypeOK, AnActor, Rule
    <3> QED
      BY <3>1, FirstFrames DEF AnActor
  <2> QED
    BY <1>i, <1>f, <2>1, FrameTyped, SweptKeeps, SweptTyped DEF TypeOK, Rule
<1>g. ASSUME NEW a \in AnActor, Succeed(a) PROVE TypeOK'
  BY <1>i, <1>g DEF TypeOK, Succeed
<1>h. ASSUME NEW m \in Message, NEW d \in Decision \cup {"ended"}, Answered(m, d) PROVE TypeOK'
  <2>1. [message[m] EXCEPT !.decision = d] \in Mail
    <3>1. message[m] \in Mail
      BY <1>i DEF TypeOK
    <3> QED
      BY <3>1, Zenon DEF Mail
  <2> QED
    BY <1>i, <1>h, <2>1 DEF TypeOK, Answered
<1>j. CASE UNCHANGED vars
  BY <1>i, <1>j DEF TypeOK, vars
<1> QED
  BY <1>a, <1>b, <1>c, <1>d, <1>e, <1>f, <1>g, <1>h, <1>j DEF Next, Steps

-----------------------------------------------------------------------------
(* The invariant.                                                            *)

\* A step that ends requests, moves approvers and claims, or answers messages.
Quiet ==
    /\ \A a \in Approval :
          /\ row'[a].requester = row[a].requester /\ row'[a].message = row[a].message
          /\ row'[a].decider = row[a].decider /\ row'[a].beta = row[a].beta
          /\ row'[a].ref = row[a].ref \/ row[a].state # "none"
          /\ \/ row'[a].state = row[a].state
             \/ row[a].state = "pending" /\ row'[a].state \in {"expired", "withdrawn"}
    /\ \A m \in Message : message[m].of # 0 =>
          /\ message'[m].of = message[m].of /\ message'[m].to = message[m].to
          /\ message[m].decision = "accepted" => message'[m].decision = "accepted"
    /\ admitted' = admitted

\* What was accepted stays accepted.
LEMMA AcceptedStays ==
  ASSUME Lasts, NEW a \in Approval, NEW who, AcceptedBy(a, who)
  PROVE  AcceptedBy(a, who)'
<1>1. PICK m \in Message :
        message[m].of = a /\ message[m].to = who /\ message[m].decision = "accepted"
  BY DEF AcceptedBy
<1>2. message'[m].of = a /\ message'[m].to = who /\ message'[m].decision = "accepted"
  BY <1>1 DEF Lasts
<1> QED
  BY <1>2 DEF AcceptedBy

LEMMA QuietKeeps ==
  ASSUME IInv, Quiet
  PROVE  Lasts /\ OneOpen' /\ \A a \in Approval : OnAnswer(a)'
<1>1. Lasts
  BY DEF Quiet, Lasts
<1>2. OneOpen'
  BY DEF IInv, Quiet, OneOpen, Open
<1>3. ASSUME NEW a \in Approval PROVE OnAnswer(a)'
  <2>1. OnAnswer(a) /\ row[a].message \in 0..MaxMessage
    BY DEF IInv, TypeOK, Row
  <2>2. row'[a].message # 0 => message'[row'[a].message].of = a
    BY <2>1 DEF OnAnswer, Quiet
  <2>3. row'[a].state = "approved" => row'[a].decider # row'[a].requester
    BY <2>1 DEF OnAnswer, Quiet
  <2>4. ASSUME row'[a].state = "approved" PROVE AcceptedBy(a, row[a].decider)'
    <3>1. AcceptedBy(a, row[a].decider) /\ row'[a].decider = row[a].decider
      BY <2>1, <2>4 DEF OnAnswer, Quiet
    <3>2. PICK m \in Message :
            message[m].of = a /\ message[m].to = row[a].decider /\ message[m].decision = "accepted"
      BY <3>1 DEF AcceptedBy
    <3>3. message'[m].of = a /\ message'[m].to = row'[a].decider /\ message'[m].decision = "accepted"
      BY <3>1, <3>2 DEF Quiet
    <3> QED
      BY <3>3 DEF AcceptedBy
  <2>5. admitted'[a] # {} => row'[a].state = "approved" /\ row'[a].beta
    BY <2>1 DEF OnAnswer, Quiet
  <2>6. row'[a].state = "none" => row'[a].ref = 0
    BY <2>1 DEF OnAnswer, Quiet
  <2> QED
    BY <2>2, <2>3, <2>4, <2>5, <2>6 DEF OnAnswer
<1> QED
  BY <1>1, <1>2, <1>3

\* A sweep, and a step that leaves rows, messages and ledger alone, is quiet.
LEMMA SweepIsQuiet ==
  ASSUME TypeOK, UNCHANGED <<message, admitted>>, row' \in Swept \/ row' = row
  PROVE  Quiet
<1>1. CASE row' \in Swept
  BY <1>1, SweptKeeps DEF Quiet
<1>2. CASE row' = row
  BY <1>2 DEF Quiet
<1> QED
  BY <1>1, <1>2

\* A sweep that also moves the claim or the approver of one row is quiet.
LEMMA MoveIsQuiet ==
  ASSUME TypeOK, NEW r \in Swept, NEW a \in Approval, NEW x, UNCHANGED <<message, admitted>>,
         \/ row' = r
         \/ row' = [r EXCEPT ![a].claim = x]
         \/ row' = [r EXCEPT ![a].approver = x]
  PROVE  /\ Quiet
         /\ \A b \in Approval :
               /\ row'[b].ref = row[b].ref /\ row'[b].state = r[b].state
               /\ row'[b].requester = r[b].requester
<1>1. /\ r \in [Approval -> Row]
      /\ \A b \in Approval :
            /\ r[b].requester = row[b].requester /\ r[b].message = row[b].message
            /\ r[b].decider = row[b].decider /\ r[b].beta = row[b].beta /\ r[b].ref = row[b].ref
            /\ r[b].state = row[b].state \/ (row[b].state = "pending" /\ r[b].state = "expired")
  BY SweptKeeps
<1>2. ASSUME NEW b \in Approval
      PROVE  row'[b] \in {r[b], [r[b] EXCEPT !.claim = x], [r[b] EXCEPT !.approver = x]}
  BY <1>1
<1>3. ASSUME NEW v \in Row, NEW w \in {v, [v EXCEPT !.claim = x], [v EXCEPT !.approver = x]}
      PROVE  /\ w.requester = v.requester /\ w.message = v.message /\ w.ref = v.ref
             /\ w.decider = v.decider /\ w.beta = v.beta /\ w.state = v.state
  <2>1. CASE w = v
    BY <2>1
  <2>2. CASE w = [v EXCEPT !.claim = x]
    BY <2>2 DEF Row
  <2>3. CASE w = [v EXCEPT !.approver = x]
    BY <2>3 DEF Row
  <2> QED
    BY <2>1, <2>2, <2>3
<1>4. \A b \in Approval : r[b] \in Row
  BY <1>1
<1>5. ASSUME NEW b \in Approval
      PROVE  /\ row'[b].requester = r[b].requester /\ row'[b].message = r[b].message
             /\ row'[b].decider = r[b].decider /\ row'[b].beta = r[b].beta
             /\ row'[b].ref = r[b].ref /\ row'[b].state = r[b].state
  <2>1. PICK v \in Row : v = r[b]
    BY <1>4
  <2>2. PICK w \in {v, [v EXCEPT !.claim = x], [v EXCEPT !.approver = x]} : w = row'[b]
    BY <1>2, <2>1
  <2>3. /\ w.requester = v.requester /\ w.message = v.message /\ w.ref = v.ref
        /\ w.decider = v.decider /\ w.beta = v.beta /\ w.state = v.state
    BY <1>3
  <2> QED
    BY <2>1, <2>2, <2>3
<1> QED
  BY <1>1, <1>5 DEF Quiet

\* A call that does not step still knows what it knew.
LEMMA OthersKnow ==
  ASSUME IInv, Lasts, NEW d \in Call, call'[d] = call[d]
  PROVE  Carries(d)' /\ Knows(d)'
<1>i. Carries(d) /\ Knows(d)
  BY DEF IInv
<1>1. Carries(d)'
  <2>1. call[d].pc \in {"bind", "rebound"} => message'[call[d].got].of = call[d].at
    BY <1>i DEF Carries, Lasts
  <2>2. call[d].pc = "reply" /\ call[d].got # 0 => message'[call[d].got].of = call[d].at
    BY <1>i DEF Carries, Lasts
  <2> QED
    BY <1>i, <2>1, <2>2 DEF Carries
<1>2. Knows(d)'
  <2>1. call[d].pc \notin {"idle", "request", "insert"} => call[d].at \in Approval
    BY <1>i DEF Carries
  <2>2. call[d].pc \notin {"idle", "request", "insert"} =>
           /\ row'[call[d].at].state # "none"
           /\ row'[call[d].at].requester = row[call[d].at].requester
    BY <1>i, <2>1 DEF Knows, Lasts
  <2>3. call[d].pc = "write" /\ call[d].want = "accepted" => AcceptedBy(call[d].at, call[d].who)'
    BY <1>i, <2>1, AcceptedStays DEF Knows
  <2>4. call[d].pc \in {"claim", "store", "record", "release"} =>
           row'[call[d].at].state = "approved" /\ row'[call[d].at].beta
    BY <1>i, <2>1 DEF Knows, Lasts
  <2>5. call[d].pc = "record" => call[d].got \in admitted'[call[d].at]
    BY <1>i, <2>1 DEF Knows, Lasts
  <2> QED
    BY <1>i, <2>2, <2>3, <2>4, <2>5 DEF Knows
<1> QED
  BY <1>1, <1>2

\* What is left to show of a step of call c.
Fits(c) ==
    /\ Lasts /\ OneOpen' /\ \A a \in Approval : OnAnswer(a)'
    /\ \A d \in Call : d # c => call'[d] = call[d]
    /\ Carries(c)' /\ Knows(c)'

LEMMA FitsIsEnough ==
  ASSUME IInv, TypeOK', NEW c \in Call, Fits(c)
  PROVE  IInv'
<1>1. ASSUME NEW d \in Call PROVE Carries(d)' /\ Knows(d)'
  BY OthersKnow DEF Fits
<1> QED
  BY <1>1 DEF Fits, IInv

\* A quiet step of c, after which c is idle or fit for its next step.
LEMMA QuietFits ==
  ASSUME IInv, Quiet, NEW c \in Call,
         \A d \in Call : d # c => call'[d] = call[d],
         call'[c] = Idle \/ (Carries(c)' /\ Knows(c)')
  PROVE  Fits(c)
<1>1. ASSUME call'[c] = Idle PROVE Carries(c)' /\ Knows(c)'
  BY <1>1 DEF Carries, Knows, Idle
<1> QED
  BY <1>1, QuietKeeps DEF Fits

\* A call that ends.
LEMMA EndFits ==
  ASSUME IInv, Quiet, NEW c \in Call, Ends(c)
  PROVE  Fits(c)
<1>1. call'[c] = Idle /\ \A d \in Call : d # c => call'[d] = call[d]
  BY DEF IInv, TypeOK, Ends
<1> QED
  BY <1>1, QuietFits

\* A send about request a by call c, which then knows its message.
LEMMA SendFits ==
  ASSUME IInv, NEW c \in Call, NEW to \in Actor, NEW next \in {"bind", "rebound"},
         Send(c, to, next), call[c].pc \in {"announce", "redeliver"},
         next = "bind" => call[c].pc = "announce", next = "rebound" => call[c].pc = "redeliver",
         UNCHANGED <<row, admitted>>
  PROVE  Fits(c)
<1>i. TypeOK /\ Carries(c) /\ Knows(c)
  BY DEF IInv
<1>1. PICK m \in Message :
        /\ message[m] = NoMail
        /\ message' = [message EXCEPT ![m] = [of |-> call[c].at, to |-> to, decision |-> "pending"]]
        /\ call' = [call EXCEPT ![c].pc = next, ![c].other = "none", ![c].got = m]
  BY DEF Send
<1>2. message[m].of = 0
  BY <1>1 DEF NoMail
<1>3. Quiet
  <2>1. \A n \in Message : n # m => message'[n] = message[n]
    BY <1>i, <1>1 DEF TypeOK
  <2> QED
    BY <1>2, <2>1 DEF Quiet
<1>4. /\ call'[c].pc = next /\ call'[c].who = call[c].who /\ call'[c].at = call[c].at
      /\ call'[c].want = call[c].want /\ call'[c].got = m
      /\ \A d \in Call : d # c => call'[d] = call[d]
  BY <1>i, <1>1 DEF TypeOK, Frame
<1>5. message'[m].of = call[c].at
  BY <1>i, <1>1 DEF TypeOK
<1>6. Carries(c)'
  BY <1>i, <1>4, <1>5 DEF Carries
<1>7. Knows(c)'
  BY <1>i, <1>4 DEF Knows
<1> QED
  BY <1>3, <1>4, <1>6, <1>7, QuietFits

LEMMA AskFits ==
  ASSUME IInv, NEW c \in Call, Asks(c)
  PROVE  Fits(c)
<1>i. TypeOK /\ Carries(c) /\ Knows(c)
  BY DEF IInv
<1>1. row' \in Swept /\ UNCHANGED <<message, admitted>>
  BY DEF Asks, AskRefused, AskSpends, AskRequests
<1>2. Quiet
  BY <1>i, <1>1, SweepIsQuiet
<1>3. CASE AskRefused(c)
  <2>1. call'[c] = Idle /\ call' = call
    BY <1>3 DEF AskRefused, Free
  <2> QED
    BY <1>2, <2>1, QuietFits
<1>4. ASSUME NEW who \in Actor, AskSpends(c, who) PROVE Fits(c)
  <2>1. PICK a \in Approval :
          /\ Spendable(row'[a], who)
          /\ call' = [call EXCEPT ![c] = [Idle EXCEPT !.pc = "claim", !.who = who, !.at = a]]
    BY <1>4 DEF AskSpends
  <2>2. /\ call'[c].pc = "claim" /\ call'[c].who = who /\ call'[c].at = a
        /\ \A d \in Call : d # c => call'[d] = call[d]
    BY <1>i, <2>1 DEF TypeOK, Idle
  <2>3. row'[a].state = "approved" /\ row'[a].beta
    BY <2>1 DEF Spendable
  <2>4. Carries(c)' /\ Knows(c)'
    BY <2>2, <2>3 DEF Carries, Knows
  <2> QED
    BY <1>2, <2>2, <2>4, QuietFits
<1>5. ASSUME NEW who \in Actor, AskRequests(c, who) PROVE Fits(c)
  <2>1. /\ call'[c].pc = "request" /\ call'[c].who = who /\ call'[c].other = seat
        /\ \A d \in Call : d # c => call'[d] = call[d]
    BY <1>i, <1>5 DEF TypeOK, Idle, AskRequests
  <2>2. seat \in Actor /\ seat # who
    BY <1>i, <1>5 DEF TypeOK, AnActor, AskRequests, Seated
  <2>3. Carries(c)' /\ Knows(c)'
    BY <2>1, <2>2 DEF Carries, Knows
  <2> QED
    BY <1>2, <2>1, <2>3, QuietFits
<1> QED
  BY <1>3, <1>4, <1>5 DEF Asks

\* Goes changes the program counter alone.
LEMMA GoesOn ==
  ASSUME TypeOK, NEW c \in Call, NEW p, Goes(c, p)
  PROVE  /\ call'[c].pc = p /\ call'[c].who = call[c].who /\ call'[c].at = call[c].at
         /\ call'[c].other = call[c].other /\ call'[c].got = call[c].got
         /\ call'[c].want = call[c].want /\ call'[c].beta = call[c].beta
         /\ \A d \in Call : d # c => call'[d] = call[d]
BY DEF TypeOK, Goes, Frame

LEMMA InsertFits ==
  ASSUME IInv, NEW c \in Call, Insert(c)
  PROVE  Fits(c)
<1>i. TypeOK /\ Carries(c) /\ Knows(c) /\ \A a \in Approval : OnAnswer(a)
  BY DEF IInv
<1>1. PICK a \in Fresh :
        /\ row' = [row EXCEPT ![a] = [NoRow EXCEPT !.state = "pending",
                         !.requester = call[c].who, !.approver = call[c].other]]
        /\ call' = [call EXCEPT ![c].pc = "announce", ![c].at = a]
  BY DEF Insert
<1>2. a \in Approval /\ row[a].state = "none"
  BY <1>1 DEF Fresh
<1>3. /\ row'[a].state = "pending" /\ row'[a].requester = call[c].who /\ row'[a].message = 0
      /\ \A b \in Approval : b # a => row'[b] = row[b]
  BY <1>i, <1>1, <1>2 DEF TypeOK, NoRow
<1>4. /\ call'[c].pc = "announce" /\ call'[c].who = call[c].who /\ call'[c].at = a
      /\ call'[c].other = call[c].other
      /\ \A d \in Call : d # c => call'[d] = call[d]
  BY <1>i, <1>1 DEF TypeOK, Frame
<1>5. Lasts
  BY <1>2, <1>3 DEF Lasts, Insert
<1>6. OneOpen'
  BY <1>3 DEF OneOpen, Open, Insert, OneOpenIndex
<1>7. ASSUME NEW b \in Approval PROVE OnAnswer(b)'
  <2>1. CASE b = a
    <3>1. admitted'[a] = {}
      BY <1>i, <1>2 DEF OnAnswer, Insert
    <3> QED
      BY <2>1, <3>1, <1>3 DEF OnAnswer
  <2>2. CASE b # a
    <3>1. row'[b] = row[b] /\ message' = message /\ admitted' = admitted /\ OnAnswer(b)
      BY <2>2, <1>i, <1>3 DEF Insert
    <3>2. ASSUME row[b].state = "approved" PROVE AcceptedBy(b, row[b].decider)'
      BY <3>1, <3>2 DEF OnAnswer, AcceptedBy
    <3> QED
      BY <3>1, <3>2 DEF OnAnswer
  <2> QED
    BY <2>1, <2>2
<1>8. Carries(c)' /\ Knows(c)'
  BY <1>i, <1>2, <1>3, <1>4 DEF Carries, Knows, Insert, At
<1> QED
  BY <1>4, <1>5, <1>6, <1>7, <1>8 DEF Fits

\* A row learns its message from the call that sent it.
LEMMA NoteFits ==
  ASSUME IInv, NEW c \in Call, Bind(c) \/ Rebound(c)
  PROVE  Fits(c)
<1>i. TypeOK /\ Carries(c) /\ Knows(c) /\ \A a \in Approval : OnAnswer(a)
  BY DEF IInv
<1> DEFINE a == call[c].at
<1>1. /\ a \in Approval /\ call[c].got \in Message /\ message[call[c].got].of = a
      /\ row[a].state # "none"
  BY <1>i DEF Bind, Rebound, At, Carries, Knows
<1>2. row' = [row EXCEPT ![a].message = call[c].got] /\ UNCHANGED <<seat, message, admitted>>
  BY DEF Bind, Rebound
<1>3. /\ row'[a].message = call[c].got
      /\ \A b \in Approval : b # a => row'[b] = row[b]
      /\ \A b \in Approval : /\ row'[b].state = row[b].state /\ row'[b].beta = row[b].beta
                             /\ row'[b].requester = row[b].requester
                             /\ row'[b].decider = row[b].decider /\ row'[b].ref = row[b].ref
  BY <1>i, <1>1, <1>2 DEF TypeOK, Row
<1>4. Lasts
  BY <1>2, <1>3 DEF Lasts
<1>5. OneOpen'
  BY <1>3 DEF IInv, OneOpen, Open
<1>6. ASSUME NEW b \in Approval PROVE OnAnswer(b)'
  <2>1. row'[b].message # 0 => message'[row'[b].message].of = b
    BY <1>i, <1>1, <1>2, <1>3 DEF OnAnswer
  <2>2. row'[b].state = "approved" => row'[b].decider # row'[b].requester
    BY <1>i, <1>3 DEF OnAnswer
  <2>3. ASSUME row'[b].state = "approved" PROVE AcceptedBy(b, row[b].decider)'
    BY <1>i, <1>2, <1>3, <2>3 DEF OnAnswer, AcceptedBy
  <2>4. admitted'[b] # {} => row'[b].state = "approved" /\ row'[b].beta
    BY <1>i, <1>2, <1>3 DEF OnAnswer
  <2>5. row'[b].state = "none" => row'[b].ref = 0
    BY <1>i, <1>3 DEF OnAnswer
  <2> QED
    BY <2>1, <2>2, <2>3, <2>4, <2>5 DEF OnAnswer
<1>7. /\ \A d \in Call : d # c => call'[d] = call[d]
      /\ Carries(c)' /\ Knows(c)'
  <2>1. CASE Bind(c)
    <3>1. call'[c] = Idle /\ \A d \in Call : d # c => call'[d] = call[d]
      BY <1>i, <2>1 DEF Bind, Ends, TypeOK
    <3> QED
      BY <3>1 DEF Carries, Knows, Idle
  <2>2. CASE Rebound(c)
    <3>1. /\ call'[c].pc = "decide" /\ call'[c].who = call[c].who /\ call'[c].at = a
          /\ call'[c].want = call[c].want
          /\ \A d \in Call : d # c => call'[d] = call[d]
      BY <1>i, <2>2 DEF Rebound, TypeOK, Frame
    <3>2. Carries(c)'
      BY <1>i, <2>2, <3>1 DEF Carries, Rebound, At
    <3>3. Knows(c)'
      BY <1>i, <1>1, <1>3, <2>2, <3>1 DEF Knows, Rebound, At
    <3> QED
      BY <3>1, <3>2, <3>3
  <2> QED
    BY <2>1, <2>2
<1> QED
  BY <1>4, <1>5, <1>6, <1>7 DEF Fits

LEMMA RequestFits ==
  ASSUME IInv, NEW c \in Call, Requests(c)
  PROVE  Fits(c)
<1>i. TypeOK /\ Carries(c) /\ Knows(c)
  BY DEF IInv
<1>1. CASE Look(c)
  <2>1. Quiet
    BY <1>i, <1>1, SweepIsQuiet DEF Look
  <2>2. CASE Goes(c, "insert")
    <3>1. Carries(c)' /\ Knows(c)'
      BY <1>i, <1>1, <2>2, GoesOn DEF Carries, Knows, Look, At
    <3> QED
      BY <1>i, <2>1, <2>2, <3>1, GoesOn, QuietFits
  <2>3. CASE Ends(c)
    BY <2>1, <2>3, EndFits
  <2> QED
    BY <1>1, <2>2, <2>3 DEF Look
<1>2. CASE Insert(c)
  BY <1>2, InsertFits
<1>3. CASE InsertRaced(c)
  <2>1. Quiet
    BY <1>i, <1>3, SweepIsQuiet DEF InsertRaced
  <2> QED
    BY <1>3, <2>1, EndFits DEF InsertRaced
<1>4. CASE Announce(c)
  <2>1. call[c].other \in Actor
    BY <1>i, <1>4 DEF Announce, At, Carries
  <2> QED
    BY <1>4, <2>1, SendFits DEF Announce, At
<1>5. CASE AnnounceFails(c)
  <2>1. Quiet
    BY <1>i, <1>5, SweepIsQuiet DEF AnnounceFails
  <2>3. /\ call'[c].pc = "undo" /\ call'[c].who = call[c].who /\ call'[c].at = call[c].at
        /\ \A d \in Call : d # c => call'[d] = call[d]
    BY <1>i, <1>5 DEF AnnounceFails, TypeOK, Frame
  <2>2. Carries(c)' /\ Knows(c)'
    BY <1>i, <1>5, <2>3 DEF Carries, Knows, AnnounceFails, At
  <2> QED
    BY <2>1, <2>2, <2>3, QuietFits
<1>6. CASE Undo(c)
  <2>1. Quiet
    BY <1>i, <1>6 DEF Undo, Quiet, Open, TypeOK, Row
  <2> QED
    BY <1>6, <2>1, EndFits DEF Undo
<1>7. CASE Bind(c)
  BY <1>7, NoteFits
<1> QED
  BY <1>1, <1>2, <1>3, <1>4, <1>5, <1>6, <1>7 DEF Requests

LEMMA StoreFits ==
  ASSUME IInv, NEW c \in Call, Store(c)
  PROVE  Fits(c)
<1>i. TypeOK /\ Carries(c) /\ Knows(c) /\ \A a \in Approval : OnAnswer(a)
  BY DEF IInv
<1> DEFINE a == call[c].at
<1>1. PICK n \in BacklogRow :
        /\ admitted' = [admitted EXCEPT ![a] = @ \cup {n}]
        /\ call' = [call EXCEPT ![c].pc = "record", ![c].got = n]
  BY DEF Store
<1>2. a \in Approval /\ row[a].state = "approved" /\ row[a].beta
  BY <1>i DEF Store, At, Carries, Knows
<1>3. row' = row /\ message' = message
  BY DEF Store
<1>4. \A b \in Approval : admitted[b] \subseteq admitted'[b] /\ (b # a => admitted'[b] = admitted[b])
  BY <1>i, <1>1 DEF TypeOK
<1>5. n \in admitted'[a]
  BY <1>i, <1>1, <1>2 DEF TypeOK
<1>6. /\ call'[c].pc = "record" /\ call'[c].who = call[c].who /\ call'[c].at = a
      /\ call'[c].got = n
      /\ \A d \in Call : d # c => call'[d] = call[d]
  BY <1>i, <1>1 DEF TypeOK, Frame
<1>7. Lasts
  BY <1>3, <1>4 DEF Lasts
<1>8. OneOpen'
  BY <1>3 DEF IInv, OneOpen, Open
<1>9. ASSUME NEW b \in Approval PROVE OnAnswer(b)'
  <2>1. ASSUME row[b].state = "approved" PROVE AcceptedBy(b, row[b].decider)'
    BY <1>i, <1>3, <2>1 DEF OnAnswer, AcceptedBy
  <2>2. admitted'[b] # {} => row[b].state = "approved" /\ row[b].beta
    BY <1>i, <1>2, <1>4 DEF OnAnswer
  <2> QED
    BY <1>i, <1>3, <2>1, <2>2 DEF OnAnswer
<1>10. Carries(c)' /\ Knows(c)'
  BY <1>i, <1>2, <1>3, <1>5, <1>6 DEF Carries, Knows, Store, At
<1> QED
  BY <1>6, <1>7, <1>8, <1>9, <1>10 DEF Fits

LEMMA ConsumeFits ==
  ASSUME IInv, NEW c \in Call, Consumes(c)
  PROVE  Fits(c)
<1>i. TypeOK /\ Carries(c) /\ Knows(c)
  BY DEF IInv
<1> DEFINE a == call[c].at
<1>1. CASE Claim(c)
  <2>1. PICK r \in Swept :
          \/ /\ row' = [r EXCEPT ![a].claim = call[c].who] /\ Goes(c, "store")
             /\ r[a].state = "approved"
          \/ row' = r /\ Ends(c)
    BY <1>1 DEF Claim
  <2>2. a \in Approval /\ row[a].state = "approved" /\ row[a].beta
    BY <1>i, <1>1 DEF Claim, At, Carries, Knows
  <2>3. Quiet /\ \A b \in Approval : row'[b].state = r[b].state
    <3>1. UNCHANGED <<message, admitted>>
      BY <1>1 DEF Claim
    <3> QED
      BY <1>i, <2>1, <2>2, <3>1, MoveIsQuiet
  <2>4. CASE Goes(c, "store")
    <3>1. Carries(c)' /\ Knows(c)'
      <4>1. row'[a].state = "approved" /\ row'[a].beta
        BY <2>2, <2>3 DEF Quiet
      <4> QED
        BY <1>i, <1>1, <2>2, <2>4, <4>1, GoesOn DEF Carries, Knows, Claim, At
    <3> QED
      BY <1>i, <2>3, <2>4, <3>1, GoesOn, QuietFits
  <2> QED
    BY <2>1, <2>3, <2>4, EndFits
<1>2. CASE Store(c)
  BY <1>2, StoreFits
<1>3. CASE StoreFails(c)
  <2>1. Quiet
    BY <1>i, <1>3, SweepIsQuiet DEF StoreFails
  <2>2. Carries(c)' /\ Knows(c)'
    BY <1>i, <1>3, GoesOn DEF Carries, Knows, StoreFails, At
  <2> QED
    BY <1>i, <1>3, <2>1, <2>2, GoesOn, QuietFits DEF StoreFails
<1>4. CASE Record(c)
  <2>1. \A b \in Approval :
           /\ row'[b].requester = row[b].requester /\ row'[b].message = row[b].message
           /\ row'[b].decider = row[b].decider /\ row'[b].beta = row[b].beta
           /\ row'[b].state = row[b].state /\ (b # a => row'[b].ref = row[b].ref)
    BY <1>i, <1>4 DEF Record, TypeOK, Row
  <2>2. row[a].state = "approved"
    BY <1>i, <1>4 DEF Record, At, Knows
  <2>3. Quiet
    BY <1>4, <2>1, <2>2 DEF Quiet, Record
  <2> QED
    BY <1>4, <2>3, EndFits DEF Record
<1>5. CASE Release(c)
  <2>1. \A b \in Approval :
           /\ row'[b].requester = row[b].requester /\ row'[b].message = row[b].message
           /\ row'[b].decider = row[b].decider /\ row'[b].beta = row[b].beta
           /\ row'[b].state = row[b].state /\ row'[b].ref = row[b].ref
    BY <1>i, <1>5 DEF Release, TypeOK, Row
  <2>2. Quiet
    BY <1>5, <2>1 DEF Quiet, Release
  <2> QED
    BY <1>5, <2>2, EndFits DEF Release
<1> QED
  BY <1>1, <1>2, <1>3, <1>4, <1>5 DEF Consumes

\* A reply: what c then knows is that its verdict was accepted.
LEMMA ReplyFits ==
  ASSUME IInv, NEW c \in Call, Reply(c)
  PROVE  Fits(c)
<1>i. TypeOK /\ Carries(c) /\ Knows(c)
  BY DEF IInv
<1> DEFINE m == call[c].got  d == call[c].want
<1>1. CASE UNCHANGED message /\ Ends(c)
  <2>1. Quiet
    BY <1>i, <1>1, SweepIsQuiet DEF Reply
  <2> QED
    BY <1>1, <2>1, EndFits
<1>2. CASE /\ m # 0 /\ Addressed(m, call[c].who) /\ message[m].decision \in {"pending", d}
           /\ message' = [message EXCEPT ![m].decision = d]
           /\ call' = [call EXCEPT ![c].pc = "write", ![c].got = 0]
  <2>1. m \in Message /\ message[m].of = call[c].at /\ d \in Decision
    BY <1>i, <1>2 DEF Reply, At, Carries
  <2>2. /\ message'[m].decision = d /\ message'[m].of = message[m].of /\ message'[m].to = message[m].to
        /\ \A n \in Message : n # m => message'[n] = message[n]
    BY <1>i, <1>2, <2>1 DEF TypeOK, Mail
  <2>3. Quiet
    BY <1>2, <2>1, <2>2 DEF Quiet, Reply
  <2>4. /\ call'[c].pc = "write" /\ call'[c].who = call[c].who /\ call'[c].at = call[c].at
        /\ call'[c].want = d
        /\ \A e \in Call : e # c => call'[e] = call[e]
    BY <1>i, <1>2 DEF TypeOK, Frame
  <2>5. d = "accepted" => AcceptedBy(call[c].at, call[c].who)'
    BY <1>2, <2>1, <2>2, <2>4 DEF AcceptedBy, Addressed
  <2>6. Carries(c)'
    BY <1>i, <2>1, <2>4 DEF Carries, Reply, At
  <2>7. Knows(c)'
    BY <1>i, <2>4, <2>5 DEF Knows, Reply, At
  <2> QED
    BY <2>3, <2>4, <2>6, <2>7, QuietFits
<1> QED
  BY <1>1, <1>2 DEF Reply

\* A verdict: it is the answer to a message, by somebody who did not ask.
LEMMA WriteFits ==
  ASSUME IInv, NEW c \in Call, Write(c)
  PROVE  Fits(c)
<1>i. TypeOK /\ Carries(c) /\ Knows(c) /\ \A a \in Approval : OnAnswer(a)
  BY DEF IInv
<1>0. PICK a \in 0..MaxApproval : a = call[c].at
  BY <1>i DEF TypeOK, Frame
<1>1. call'[c] = Idle /\ \A d \in Call : d # c => call'[d] = call[d]
  BY <1>i DEF Write, Ends, TypeOK
<1>2. CASE ~Undecided(row[a])
  <2>1. Quiet
    BY <1>0, <1>i, <1>2, SweepIsQuiet DEF Write
  <2> QED
    BY <1>1, <2>1, QuietFits
<1>3. CASE Undecided(row[a])
  <2>1. /\ a \in Approval /\ row[a].state = "pending" /\ row[a].requester # call[c].who
        /\ call[c].want \in Decision
        /\ call[c].want = "accepted" => AcceptedBy(a, call[c].who)
    BY <1>0, <1>i, <1>3 DEF Write, At, Carries, Knows, Undecided
  <2>2. /\ row'[a].state = Verdict(call[c].want) /\ row'[a].decider = call[c].who
        /\ row'[a].requester = row[a].requester /\ row'[a].message = row[a].message
        /\ \A b \in Approval : b # a => row'[b] = row[b]
    BY <1>0, <1>i, <1>3, <2>1 DEF TypeOK, Row, Write
  <2>3. row'[a].state \in {"approved", "rejected"} /\ (row'[a].state = "approved" => call[c].want = "accepted")
    BY <2>1, <2>2 DEF Verdict
  <2>4. message' = message /\ admitted' = admitted
    BY DEF Write
  <2>5. Lasts
    BY <2>1, <2>2, <2>3, <2>4 DEF Lasts
  <2>6. OneOpen'
    BY <2>2, <2>3 DEF IInv, OneOpen, Open
  <2>7. OnAnswer(a)'
    <3>1. row'[a].message # 0 => message'[row'[a].message].of = a
      BY <1>i, <2>1, <2>2, <2>4 DEF OnAnswer
    <3>2. admitted'[a] = {}
      BY <1>i, <2>1, <2>4 DEF OnAnswer
    <3>3. ASSUME row'[a].state = "approved"
          PROVE  \E m \in Message : /\ message'[m].of = a /\ message'[m].to = row'[a].decider
                                    /\ message'[m].decision = "accepted"
      BY <2>1, <2>2, <2>3, <2>4, <3>3 DEF AcceptedBy
    <3>4. row'[a].state # "none"
      BY <2>3
    <3> QED
      BY <2>1, <2>2, <3>1, <3>2, <3>3, <3>4 DEF OnAnswer, AcceptedBy
  <2>8. ASSUME NEW b \in Approval, b # a PROVE OnAnswer(b)'
    <3>1. row'[b] = row[b] /\ OnAnswer(b)
      BY <1>i, <2>2, <2>8
    <3> QED
      BY <2>4, <3>1 DEF OnAnswer, AcceptedBy
  <2>9. Carries(c)' /\ Knows(c)'
    BY <1>1 DEF Carries, Knows, Idle
  <2> QED
    BY <1>1, <2>5, <2>6, <2>7, <2>8, <2>9 DEF Fits
<1> QED
  BY <1>2, <1>3

LEMMA RebindFits ==
  ASSUME IInv, NEW c \in Call, Rebind(c)
  PROVE  Fits(c)
<1>i. TypeOK /\ Carries(c) /\ Knows(c)
  BY DEF IInv
<1>0. PICK a \in 0..MaxApproval : a = call[c].at
  BY <1>i DEF TypeOK, Frame
<1>1. PICK r \in Swept :
        \/ row' = r /\ Ends(c)
        \/ row' = r /\ OfAnother(r[a], call[c].who) /\ Goes(c, "decide")
        \/ /\ row' = [r EXCEPT ![a].approver = call[c].who]
           /\ OfAnother(r[a], call[c].who) /\ r[a].state = "pending"
           /\ call' = [call EXCEPT ![c].pc = "redeliver", ![c].other = r[a].approver]
  BY <1>0 DEF Rebind, Open
<1>2. /\ r \in [Approval -> Row]
      /\ \A b \in Approval :
            /\ r[b].requester = row[b].requester /\ r[b].message = row[b].message
            /\ r[b].decider = row[b].decider /\ r[b].beta = row[b].beta
            /\ r[b].state = row[b].state \/ (row[b].state = "pending" /\ r[b].state = "expired")
      /\ \A b \in Approval : r[b].state # "none" => r[b].requester \in Actor /\ r[b].approver \in Actor
  BY <1>i, SweptKeeps, SweptTyped
<1>3. /\ a \in Approval /\ call[c].pc = "rebind" /\ call[c].who \in Actor
      /\ row[a].state # "none"
  BY <1>0, <1>i DEF Rebind, At, Carries, Knows
<1>4. Quiet /\ \A b \in Approval :
         row'[b].requester = r[b].requester /\ row'[b].state = r[b].state
  <2>1. UNCHANGED <<message, admitted>>
    BY DEF Rebind
  <2> QED
    BY <1>i, <1>1, <1>3, <2>1, MoveIsQuiet
<1>5. CASE Ends(c)
  BY <1>4, <1>5, EndFits
<1>6. CASE OfAnother(r[a], call[c].who) /\ Goes(c, "decide")
  <2>1. /\ call'[c].pc = "decide" /\ call'[c].who = call[c].who /\ call'[c].at = a
        /\ call'[c].want = call[c].want
        /\ \A d \in Call : d # c => call'[d] = call[d]
    BY <1>0, <1>i, <1>6, GoesOn
  <2>2. row'[a].state # "none" /\ row'[a].requester # call[c].who
    BY <1>2, <1>3, <1>4, <1>6 DEF OfAnother
  <2>3. Carries(c)' /\ Knows(c)'
    BY <1>3, <2>1, <2>2 DEF Carries, Knows
  <2> QED
    BY <1>4, <2>1, <2>3, QuietFits
<1>7. CASE /\ OfAnother(r[a], call[c].who) /\ r[a].state = "pending"
           /\ call' = [call EXCEPT ![c].pc = "redeliver", ![c].other = r[a].approver]
  <2>1. /\ call'[c].pc = "redeliver" /\ call'[c].who = call[c].who /\ call'[c].at = a
        /\ call'[c].want = call[c].want /\ call'[c].other = r[a].approver
        /\ \A d \in Call : d # c => call'[d] = call[d]
    BY <1>0, <1>i, <1>7 DEF TypeOK, Frame
  <2>2. row'[a].state # "none" /\ row'[a].requester # call[c].who
    BY <1>2, <1>3, <1>4, <1>7 DEF OfAnother
  <2>3. r[a].approver \in Actor
    BY <1>2, <1>3, <1>7
  <2>4. Carries(c)' /\ Knows(c)'
    BY <1>3, <2>1, <2>2, <2>3 DEF Carries, Knows
  <2> QED
    BY <1>4, <2>1, <2>4, QuietFits
<1> QED
  BY <1>1, <1>5, <1>6, <1>7

LEMMA DecideFits ==
  ASSUME IInv, NEW c \in Call, Decide(c)
  PROVE  Fits(c)
<1>i. TypeOK /\ Carries(c) /\ Knows(c) /\ \A b \in Approval : OnAnswer(b)
  BY DEF IInv
<1>0. PICK a \in 0..MaxApproval : a = call[c].at
  BY <1>i DEF TypeOK, Frame
<1>1. row' \in Swept /\ UNCHANGED <<seat, message, admitted>>
  BY DEF Decide
<1>2. Quiet
  BY <1>i, <1>1, SweepIsQuiet
<1>3. CASE Ends(c)
  BY <1>2, <1>3, EndFits
<1>4. ASSUME NEW want \in Decision,
             call' = [call EXCEPT ![c].pc = "reply", ![c].got = row'[a].message,
                                  ![c].want = want, ![c].beta = (seat = call[c].who)]
      PROVE  Fits(c)
  <2>1. /\ call'[c].pc = "reply" /\ call'[c].who = call[c].who /\ call'[c].at = a
        /\ call'[c].want = want /\ call'[c].got = row'[a].message
        /\ \A d \in Call : d # c => call'[d] = call[d]
    BY <1>0, <1>i, <1>4 DEF TypeOK, Frame
  <2>2. /\ a \in Approval /\ call[c].who \in Actor
        /\ row[a].state # "none" /\ row[a].requester # call[c].who
    BY <1>0, <1>i DEF Decide, At, Carries, Knows
  <2>3. /\ row'[a].message = row[a].message /\ row'[a].requester = row[a].requester
        /\ row'[a].state # "none"
    BY <1>2, <2>2 DEF Quiet
  <2>4. row[a].message \in 0..MaxMessage /\ (row[a].message # 0 => message[row[a].message].of = a)
    BY <1>i, <2>2 DEF TypeOK, Row, OnAnswer
  <2>5. Carries(c)'
    BY <1>1, <1>4, <2>1, <2>2, <2>3, <2>4 DEF Carries
  <2>6. Knows(c)'
    BY <2>1, <2>2, <2>3 DEF Knows
  <2> QED
    BY <1>2, <2>1, <2>5, <2>6, QuietFits
<1> QED
  BY <1>0, <1>3, <1>4 DEF Decide

LEMMA RuleFits ==
  ASSUME IInv, NEW c \in Call, Rules(c)
  PROVE  Fits(c)
<1>i. TypeOK /\ Carries(c) /\ Knows(c)
  BY DEF IInv
<1>1. CASE Rebind(c)
  BY <1>1, RebindFits
<1>2. CASE Redeliver(c)
  <2>1. call[c].who \in Actor
    BY <1>i, <1>2 DEF Redeliver, At, Carries
  <2> QED
    BY <1>2, <2>1, SendFits DEF Redeliver, At
<1>3. CASE RedeliverFails(c)
  <2>1. Quiet
    BY <1>i, <1>3, SweepIsQuiet DEF RedeliverFails
  <2>2. Carries(c)' /\ Knows(c)'
    BY <1>i, <1>3, GoesOn DEF Carries, Knows, RedeliverFails, At
  <2> QED
    BY <1>i, <1>3, <2>1, <2>2, GoesOn, QuietFits DEF RedeliverFails
<1>4. CASE PutBack(c)
  <2>1. \A b \in Approval :
           /\ row'[b].requester = row[b].requester /\ row'[b].message = row[b].message
           /\ row'[b].decider = row[b].decider /\ row'[b].beta = row[b].beta
           /\ row'[b].state = row[b].state /\ row'[b].ref = row[b].ref
    BY <1>i, <1>4 DEF PutBack, TypeOK, Row
  <2>2. Quiet
    BY <1>4, <2>1 DEF Quiet, PutBack
  <2> QED
    BY <1>4, <2>2, EndFits DEF PutBack
<1>5. CASE Rebound(c)
  BY <1>5, NoteFits
<1>6. CASE Decide(c)
  BY <1>6, DecideFits
<1>7. CASE Reply(c)
  BY <1>7, ReplyFits
<1>8. CASE Write(c)
  BY <1>8, WriteFits
<1> QED
  BY <1>1, <1>2, <1>3, <1>4, <1>5, <1>6, <1>7, <1>8 DEF Rules

LEMMA IInvStep == IInv /\ [Next]_vars => IInv'
<1> SUFFICES ASSUME IInv, [Next]_vars PROVE IInv'
  OBVIOUS
<1>i. TypeOK /\ TypeOK'
  BY TypeStep DEF IInv
<1>1. ASSUME NEW c \in Call, Asks(c) \/ Steps(c) PROVE IInv'
  BY <1>i, <1>1, AskFits, RequestFits, ConsumeFits, RuleFits, FitsIsEnough DEF Steps
<1>2. ASSUME NEW c \in Call, Gone(c) PROVE IInv'
  <2>1. Quiet
    BY <1>i, <1>2, SweepIsQuiet DEF Gone
  <2> QED
    BY <1>i, <1>2, <2>1, EndFits, FitsIsEnough DEF Gone
<1>3. ASSUME NEW c \in Call, NEW a \in Approval, Rule(c, a) PROVE IInv'
  <2>1. Quiet
    BY <1>i, <1>3, SweepIsQuiet DEF Rule
  <2>2. /\ call'[c].pc = "rebind" /\ call'[c].who = seat /\ call'[c].at = a
        /\ \A e \in Call : e # c => call'[e] = call[e]
    BY <1>i, <1>3 DEF Rule, TypeOK, Idle
  <2>3. seat \in Actor /\ row[a].state # "none"
    BY <1>i, <1>3 DEF Rule, TypeOK, AnActor, Stored
  <2>4. row'[a].state # "none"
    BY <2>1, <2>3 DEF Quiet
  <2>5. Carries(c)' /\ Knows(c)'
    BY <2>2, <2>3, <2>4 DEF Carries, Knows
  <2> QED
    BY <1>i, <2>1, <2>2, <2>5, QuietFits, FitsIsEnough
<1>4. ASSUME Quiet, call' = call PROVE IInv'
  <2>1. \A c \in Call : Carries(c)' /\ Knows(c)'
    BY <1>4, QuietKeeps, OthersKnow
  <2> QED
    BY <1>i, <1>4, <2>1, QuietKeeps DEF IInv
<1>5. ASSUME NEW a \in AnActor, Succeed(a) PROVE IInv'
  BY <1>i, <1>4, <1>5, SweepIsQuiet DEF Succeed
<1>6. ASSUME NEW m \in Message, NEW d \in Decision \cup {"ended"}, Answered(m, d) PROVE IInv'
  <2>1. /\ message[m].decision = "pending"
        /\ \A n \in Message : message'[n].of = message[n].of /\ message'[n].to = message[n].to
        /\ \A n \in Message : n # m => message'[n] = message[n]
    BY <1>i, <1>6 DEF Answered, TypeOK, Mail
  <2>2. Quiet
    BY <1>6, <2>1 DEF Answered, Quiet
  <2> QED
    BY <1>4, <1>6, <2>2 DEF Answered
<1>7. CASE UNCHANGED vars
  BY <1>i, <1>4, <1>7, SweepIsQuiet DEF vars
<1> QED
  BY <1>1, <1>2, <1>3, <1>5, <1>6, <1>7 DEF Next

THEOREM Invariance == Spec => []IInv
<1> QED BY InitIInv, IInvStep, PTL DEF Spec

\* Every state a seat, a row, a message or a call is in is one the code has.
THEOREM TypeCorrect == Spec => []TypeOK
<1>1. IInv => TypeOK
  BY DEF IInv
<1> QED BY <1>1, Invariance, PTL

\* Nothing enters the ledger but what another actor, holding the seat, accepted
\* in answer to a message about the request.
THEOREM Ruled == Spec => []AdmittedIsRuled
<1>1. IInv => AdmittedIsRuled
  <2> SUFFICES ASSUME IInv, NEW a \in Approval, admitted[a] # {}
               PROVE  /\ row[a].state = "approved" /\ row[a].beta
                      /\ \E m \in Message :
                            /\ message[m].of = a /\ message[m].decision = "accepted"
                            /\ message[m].to = row[a].decider /\ row[a].decider # row[a].requester
    BY DEF AdmittedIsRuled
  <2>1. OnAnswer(a)
    BY DEF IInv
  <2> QED
    BY <2>1 DEF OnAnswer, AcceptedBy
<1> QED BY <1>1, Invariance, PTL

-----------------------------------------------------------------------------
(* Refinement.                                                               *)

\* A step that leaves the state and the reference of every row alone.
LEMMA SameStanding ==
  ASSUME admitted' = admitted,
         \A a \in Approval : row'[a].state = row[a].state /\ row'[a].ref = row[a].ref
  PROVE  UNCHANGED Ledger!vars
BY DEF Ledger!vars

\* A pending request ends, and nothing else happens to the ledger.
LEMMA EndRefines ==
  ASSUME NEW a \in Approval, row[a].state = "pending",
         row'[a].state \in {"approved", "rejected", "expired", "withdrawn"},
         \A b \in Approval : b # a => row'[b].state = row[b].state,
         \A b \in Approval : row'[b].ref = row[b].ref,
         admitted' = admitted
  PROVE  Ledger!End(a)
<1>1. a \in Ledger!Pending
  BY DEF Ledger!Pending
<1>2. [b \in Approval |-> row'[b].state]
        = [[b \in Approval |-> row[b].state] EXCEPT ![a] = row'[a].state]
  OBVIOUS
<1>3. [b \in Approval |-> row'[b].state][a] = row'[a].state
  OBVIOUS
<1> QED
  BY <1>1, <1>2, <1>3 DEF Ledger!End

\* A quiet step ends the one request that is open, or is a stutter.
LEMMA QuietRefines ==
  ASSUME IInv, Quiet, \A a \in Approval : row'[a].ref = row[a].ref
  PROVE  [Ledger!Next]_(Ledger!vars)
<1>1. CASE \A a \in Approval : row'[a].state = row[a].state
  BY <1>1, SameStanding DEF Quiet
<1>2. ASSUME NEW a \in Approval, row'[a].state # row[a].state PROVE Ledger!Next
  <2>1. row[a].state = "pending" /\ row'[a].state \in {"expired", "withdrawn"}
    BY <1>2 DEF Quiet
  <2>2. \A b \in Approval : b # a => row'[b].state = row[b].state
    BY <2>1 DEF Quiet, IInv, OneOpen, Open
  <2>3. Ledger!End(a)
    BY <2>1, <2>2, EndRefines DEF Quiet
  <2> QED
    BY <2>3 DEF Ledger!Next
<1> QED
  BY <1>1, <1>2

\* So is a sweep, and a step that leaves rows and ledger alone.
LEMMA SweepRefines ==
  ASSUME IInv, UNCHANGED <<message, admitted>>, row' \in Swept \/ row' = row
  PROVE  [Ledger!Next]_(Ledger!vars)
<1>1. TypeOK
  BY DEF IInv
<1>2. \A a \in Approval : row'[a].ref = row[a].ref
  BY <1>1, SweptKeeps
<1> QED
  BY <1>1, <1>2, SweepIsQuiet, QuietRefines

LEMMA InsertRefines ==
  ASSUME IInv, NEW c \in Call, Insert(c)
  PROVE  Ledger!Next
<1>i. TypeOK
  BY DEF IInv
<1>1. PICK a \in Fresh :
        row' = [row EXCEPT ![a] = [NoRow EXCEPT !.state = "pending",
                     !.requester = call[c].who, !.approver = call[c].other]]
  BY DEF Insert
<1>2. a \in Approval /\ row[a].state = "none"
  BY <1>1 DEF Fresh
<1>3. /\ row'[a].state = "pending" /\ row'[a].ref = 0
      /\ \A b \in Approval : b # a => row'[b] = row[b]
  BY <1>i, <1>1, <1>2 DEF TypeOK, NoRow
<1>4. row[a].ref = 0
  BY <1>2 DEF IInv, OnAnswer
<1>5. Ledger!Pending = {}
  BY DEF Ledger!Pending, Insert, OneOpenIndex, Open
<1>6. [b \in Approval |-> row'[b].state]
        = [[b \in Approval |-> row[b].state] EXCEPT ![a] = "pending"]
  BY <1>3
<1>7. [b \in Approval |-> row'[b].ref] = [b \in Approval |-> row[b].ref]
  BY <1>3, <1>4
<1>8. Ledger!Request(a)
  BY <1>2, <1>5, <1>6, <1>7 DEF Ledger!Request, Insert
<1> QED
  BY <1>2, <1>8 DEF Ledger!Next

LEMMA StoreRefines ==
  ASSUME IInv, NEW c \in Call, Store(c)
  PROVE  Ledger!Next
<1>i. TypeOK /\ Carries(c) /\ Knows(c)
  BY DEF IInv
<1>0. PICK a \in 0..MaxApproval : a = call[c].at
  BY <1>i DEF TypeOK, Frame
<1>1. a \in Approval /\ row[a].state = "approved"
  BY <1>0, <1>i DEF Store, At, Carries, Knows
<1>2. PICK n \in BacklogRow :
        /\ \A m \in BacklogRow : m < n <=> \E b \in Approval : m \in admitted[b]
        /\ admitted' = [admitted EXCEPT ![a] = @ \cup {n}]
  BY <1>0 DEF Store
<1>3. n \notin UNION {admitted[b] : b \in Approval}
  <2>1. ~(n < n)
    OBVIOUS
  <2> QED
    BY <1>2, <2>1
<1>4. row' = row
  BY DEF Store
<1>5. Ledger!Admit(a)
  BY <1>1, <1>2, <1>3, <1>4 DEF Ledger!Admit
<1> QED
  BY <1>1, <1>5 DEF Ledger!Next

LEMMA RecordRefines ==
  ASSUME IInv, NEW c \in Call, Record(c)
  PROVE  [Ledger!Next]_(Ledger!vars)
<1>i. TypeOK /\ Carries(c) /\ Knows(c)
  BY DEF IInv
<1>0. PICK a \in 0..MaxApproval : a = call[c].at
  BY <1>i DEF TypeOK, Frame
<1>1. CASE ~Unspent(row[a])
  BY <1>0, <1>1, SweepRefines DEF Record
<1>2. CASE Unspent(row[a])
  <2>1. a \in Approval /\ call[c].got \in admitted[a]
    BY <1>0, <1>i DEF Record, At, Carries, Knows
  <2>2. /\ row'[a].ref = call[c].got
        /\ \A b \in Approval : row'[b].state = row[b].state /\ (b # a => row'[b].ref = row[b].ref)
    BY <1>0, <1>i, <1>2, <2>1 DEF Record, TypeOK, Row
  <2>3. row[a].ref = 0 /\ admitted' = admitted
    BY <1>2 DEF Unspent, Record
  <2>4. [b \in Approval |-> row'[b].ref]
          = [[b \in Approval |-> row[b].ref] EXCEPT ![a] = call[c].got]
    BY <2>1, <2>2
  <2>5. [b \in Approval |-> row'[b].state] = [b \in Approval |-> row[b].state]
    BY <2>2
  <2>6. Ledger!Spend(a)
    BY <2>1, <2>3, <2>4, <2>5 DEF Ledger!Spend
  <2> QED
    BY <2>1, <2>6 DEF Ledger!Next
<1> QED
  BY <1>1, <1>2

LEMMA WriteRefines ==
  ASSUME IInv, NEW c \in Call, Write(c)
  PROVE  [Ledger!Next]_(Ledger!vars)
<1>i. TypeOK /\ Carries(c) /\ Knows(c)
  BY DEF IInv
<1>0. PICK a \in 0..MaxApproval : a = call[c].at
  BY <1>i DEF TypeOK, Frame
<1>1. CASE ~Undecided(row[a])
  BY <1>0, <1>1, SweepRefines DEF Write
<1>2. CASE Undecided(row[a])
  <2>1. a \in Approval /\ row[a].state = "pending" /\ call[c].want \in Decision
    BY <1>0, <1>i, <1>2 DEF Write, At, Carries, Undecided
  <2>2. /\ row'[a].state = Verdict(call[c].want)
        /\ \A b \in Approval : row'[b].ref = row[b].ref /\ (b # a => row'[b].state = row[b].state)
    BY <1>0, <1>i, <1>2, <2>1 DEF Write, TypeOK, Row
  <2>3. row'[a].state \in {"approved", "rejected"}
    BY <2>1, <2>2 DEF Verdict
  <2>4. Ledger!End(a)
    BY <2>1, <2>2, <2>3, EndRefines DEF Write
  <2> QED
    BY <2>1, <2>4 DEF Ledger!Next
<1> QED
  BY <1>1, <1>2

LEMMA RefinesInit == Init => Ledger!Init
BY DEF Init, NoRow, Ledger!Init

LEMMA RefinesNext == IInv /\ [Next]_vars => [Ledger!Next]_(Ledger!vars)
<1> SUFFICES ASSUME IInv, [Next]_vars PROVE [Ledger!Next]_(Ledger!vars)
  OBVIOUS
<1>i. TypeOK /\ \A c \in Call : Carries(c)
  BY DEF IInv
<1>1. ASSUME NEW c \in Call, Asks(c) PROVE [Ledger!Next]_(Ledger!vars)
  BY <1>1, SweepRefines DEF Asks, AskRefused, AskSpends, AskRequests
<1>2. ASSUME NEW c \in Call, Requests(c) PROVE [Ledger!Next]_(Ledger!vars)
  <2>1. CASE Look(c) \/ InsertRaced(c) \/ AnnounceFails(c)
    BY <2>1, SweepRefines DEF Look, InsertRaced, AnnounceFails
  <2>2. CASE Insert(c)
    BY <2>2, InsertRefines
  <2>3. CASE Announce(c)
    BY <2>3, SameStanding DEF Announce
  <2>4. CASE Undo(c)
    <3>1. Quiet /\ \A b \in Approval : row'[b].ref = row[b].ref
      BY <1>i, <2>4 DEF Undo, Quiet, Open, TypeOK, Row
    <3> QED
      BY <3>1, QuietRefines
  <2>5. CASE Bind(c)
    <3>1. \A b \in Approval : row'[b].state = row[b].state /\ row'[b].ref = row[b].ref
      BY <1>i, <2>5 DEF Bind, TypeOK, Row
    <3> QED
      BY <2>5, <3>1, SameStanding DEF Bind
  <2> QED
    BY <1>2, <2>1, <2>2, <2>3, <2>4, <2>5 DEF Requests
<1>3. ASSUME NEW c \in Call, Consumes(c) PROVE [Ledger!Next]_(Ledger!vars)
  <2>1. CASE Claim(c)
    <3>1. PICK r \in Swept : row' = [r EXCEPT ![call[c].at].claim = call[c].who] \/ row' = r
      BY <2>1 DEF Claim
    <3>2. call[c].at \in Approval /\ UNCHANGED <<message, admitted>>
      BY <1>i, <2>1 DEF Claim, At, Carries
    <3>3. Quiet /\ \A b \in Approval : row'[b].ref = row[b].ref
      BY <1>i, <3>1, <3>2, MoveIsQuiet
    <3> QED
      BY <3>2, <3>3, QuietRefines
  <2>2. CASE Store(c)
    BY <2>2, StoreRefines
  <2>3. CASE StoreFails(c)
    BY <2>3, SweepRefines DEF StoreFails
  <2>4. CASE Record(c)
    BY <2>4, RecordRefines
  <2>5. CASE Release(c)
    <3>1. \A b \in Approval : row'[b].state = row[b].state /\ row'[b].ref = row[b].ref
      BY <1>i, <2>5 DEF Release, TypeOK, Row
    <3> QED
      BY <2>5, <3>1, SameStanding DEF Release
  <2> QED
    BY <1>3, <2>1, <2>2, <2>3, <2>4, <2>5 DEF Consumes
<1>4. ASSUME NEW c \in Call, Rules(c) PROVE [Ledger!Next]_(Ledger!vars)
  <2>1. CASE Rebind(c)
    <3>1. PICK r \in Swept : row' = [r EXCEPT ![call[c].at].approver = call[c].who] \/ row' = r
      BY <2>1 DEF Rebind
    <3>2. call[c].at \in Approval /\ UNCHANGED <<message, admitted>>
      BY <1>i, <2>1 DEF Rebind, At, Carries
    <3>3. Quiet /\ \A b \in Approval : row'[b].ref = row[b].ref
      BY <1>i, <3>1, <3>2, MoveIsQuiet
    <3> QED
      BY <3>2, <3>3, QuietRefines
  <2>2. CASE Redeliver(c) \/ Reply(c)
    BY <2>2, SameStanding DEF Redeliver, Reply
  <2>3. CASE RedeliverFails(c) \/ Decide(c)
    BY <2>3, SweepRefines DEF RedeliverFails, Decide
  <2>4. CASE PutBack(c)
    <3>1. \A b \in Approval : row'[b].state = row[b].state /\ row'[b].ref = row[b].ref
      BY <1>i, <2>4 DEF PutBack, TypeOK, Row
    <3> QED
      BY <2>4, <3>1, SameStanding DEF PutBack
  <2>5. CASE Rebound(c)
    <3>1. \A b \in Approval : row'[b].state = row[b].state /\ row'[b].ref = row[b].ref
      BY <1>i, <2>5 DEF Rebound, TypeOK, Row
    <3> QED
      BY <2>5, <3>1, SameStanding DEF Rebound
  <2>6. CASE Write(c)
    BY <2>6, WriteRefines
  <2> QED
    BY <1>4, <2>1, <2>2, <2>3, <2>4, <2>5, <2>6 DEF Rules
<1>5. ASSUME NEW c \in Call, NEW a \in Approval, Rule(c, a)
      PROVE  [Ledger!Next]_(Ledger!vars)
  BY <1>5, SweepRefines DEF Rule
<1>6. ASSUME NEW c \in Call, Gone(c) PROVE [Ledger!Next]_(Ledger!vars)
  BY <1>6, SameStanding DEF Gone
<1>7. ASSUME NEW a \in AnActor, Succeed(a) PROVE [Ledger!Next]_(Ledger!vars)
  BY <1>7, SameStanding DEF Succeed
<1>8. ASSUME NEW m \in Message, NEW d \in Decision \cup {"ended"}, Answered(m, d)
      PROVE  [Ledger!Next]_(Ledger!vars)
  BY <1>8, SameStanding DEF Answered
<1>9. CASE UNCHANGED vars
  BY <1>9, SameStanding DEF vars
<1> QED
  BY <1>1, <1>2, <1>3, <1>4, <1>5, <1>6, <1>7, <1>8, <1>9 DEF Next, Steps

\* Calls, messages, claims and a seat that passes on implement the approval of
\* Admission: ruled on once, alone open, and the first row it produced is its row.
THEOREM Refinement == Spec => ImplementsAdmission
<1> QED BY Invariance, RefinesInit, RefinesNext, PTL DEF Spec, ImplementsAdmission, Ledger!Spec
=================================================================================
