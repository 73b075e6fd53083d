-------------------------------- MODULE Approval --------------------------------
(***************************************************************************)
(* The approval of one backlog item by the BETA seat                       *)
(* (approval_authority.py), as its one consumer uses it                    *)
(* (backlog_admission.py, server_todo_backlog_tools.py): an `add` finds or *)
(* opens a request and is refused; the holder of the seat rules on it, the *)
(* verdict being a reply to the message that announced it; the same `add`, *)
(* called again, claims the approval, stores the row and records it.       *)
(*                                                                         *)
(* A call is many transactions, and calls overlap: a tool call outlives    *)
(* its timeout and is made again.  A call may end between any two of its   *)
(* steps (its process dies), a send or the store may refuse, and the seat  *)
(* may pass from one actor to another at any moment.                       *)
(*                                                                         *)
(* All requests are for one payload, the subject.  "blocked" behaves as    *)
(* "rejected" and is not told apart; "completed" and a bodiless verdict    *)
(* are refused before anything happens.  A claim grows stale, and a        *)
(* request too old, at any moment.  A send or reply that the authority of  *)
(* XAACP refuses ends the call, as the end of its process does.            *)
(***************************************************************************)
EXTENDS Naturals

CONSTANTS
    Actor,          \* who may add to the backlog and hold the seat
    Call,           \* calls in flight at a time
    MaxApproval,    \* bound: requests ever made
    MaxMessage,     \* bound: messages ever sent
    MaxRow          \* bound: rows ever stored

ASSUME ApprovalBounds == MaxApproval \in Nat /\ MaxMessage \in Nat /\ MaxRow \in Nat
ASSUME ActorAssumption == "none" \notin Actor

Approval == 1..MaxApproval      \* in the order they were requested
Message == 1..MaxMessage
BacklogRow == 1..MaxRow

VARIABLES
    seat,       \* the actor that holds the BETA seat, or "none"
    row,        \* coco_approvals
    message,    \* the XAACP messages that announce requests
    admitted,   \* [Approval -> rows of the backlog stored under it]
    call        \* the calls in flight, between two of their steps

vars == <<seat, row, message, admitted, call>>

AnActor == Actor \cup {"none"}
Decision == {"accepted", "rejected"}

\* The state a decision lands (_DECISION_TO_STATE).
Verdict(d) == IF d = "accepted" THEN "approved" ELSE "rejected"

Row == [state : {"none", "pending", "approved", "rejected", "expired", "withdrawn"},
        requester : AnActor, approver : AnActor,
        message : 0..MaxMessage,
        decider : AnActor, beta : BOOLEAN,    \* decided_by_role is BETA
        claim : AnActor, ref : 0..MaxRow]
NoRow == [state |-> "none", requester |-> "none", approver |-> "none", message |-> 0,
          decider |-> "none", beta |-> FALSE, claim |-> "none", ref |-> 0]

Mail == [of : 0..MaxApproval, to : AnActor,
         decision : {"unsent", "pending", "ended"} \cup Decision]
NoMail == [of |-> 0, to |-> "none", decision |-> "unsent"]

\* pc, caller, and what it carries from step to step: the request, an approver,
\* a message or row, a decision, the role it held.
Frame == [pc : {"idle", "request", "insert", "announce", "bind", "undo",
                "claim", "store", "record", "release",
                "rebind", "redeliver", "rebound", "putback",
                "decide", "reply", "write"},
          who : AnActor, at : 0..MaxApproval, other : AnActor,
          got : Nat, want : Decision \cup {"none"}, beta : BOOLEAN]
Idle == [pc |-> "idle", who |-> "none", at |-> 0, other |-> "none",
         got |-> 0, want |-> "none", beta |-> FALSE]

TypeOK ==
    /\ seat \in AnActor
    /\ row \in [Approval -> Row]
    /\ \A a \in Approval : row[a].state # "none" =>
          row[a].requester \in Actor /\ row[a].approver \in Actor
    /\ message \in [Message -> Mail]
    /\ admitted \in [Approval -> SUBSET BacklogRow]
    /\ call \in [Call -> Frame]

Init ==
    /\ seat \in AnActor
    /\ row = [a \in Approval |-> NoRow]
    /\ message = [m \in Message |-> NoMail]
    /\ admitted = [a \in Approval |-> {}]
    /\ call = [c \in Call |-> Idle]

Free(c) == call[c] = Idle
At(c, pc) == call[c].pc = pc
Goes(c, pc) == call' = [call EXCEPT ![c].pc = pc]
Ends(c) == call' = [call EXCEPT ![c] = Idle]

(***************************************************************************)
(* The rows.                                                               *)
(***************************************************************************)
\* The table as the sweep leaves it that every entry point begins with
\* (_expire_due): pending requests whose time is up have expired.
Swept ==
    {[a \in Approval |-> IF a \in late THEN [row[a] EXCEPT !.state = "expired"] ELSE row[a]] :
        late \in SUBSET {a \in Approval : row[a].state = "pending"}}

Stored(r) == {a \in Approval : r[a].state \notin {"none", "withdrawn"}}
Open(r) == {a \in Approval : r[a].state = "pending"}
Decided(r) == {a \in Approval : r[a].state \in {"approved", "rejected"}}

\* The subject's standing is that of its newest request (approval_status).
Newest(r, a) == a \in Stored(r) /\ \A b \in Stored(r) : b <= a

(***************************************************************************)
(* An add (evaluate_backlog_admission), by an actor that is no operator.   *)
(***************************************************************************)
\* The standing approval is BETA's verdict on this caller's request
\* (_require_beta_verdict).
Spendable(r, who) == r.state = "approved" /\ r.requester = who /\ r.beta

\* It stands approved: go and claim it.
AskSpends(c, who) ==
    /\ Free(c)
    /\ row' \in Swept
    /\ \E a \in Approval :
          /\ Newest(row', a) /\ Spendable(row'[a], who)
          /\ call' = [call EXCEPT ![c] = [Idle EXCEPT !.pc = "claim", !.who = who, !.at = a]]
    /\ UNCHANGED <<seat, message, admitted>>

\* Mutant: an empty seat is no reason to refuse.
SeatedOrNot(who) == seat # who

\* Somebody else holds the seat.
Seated(who) == seat \notin {"none", who}

\* Nobody ruled: go and request it of the actor in the seat, if there is one
\* (resolve_beta_approver) and it is not the caller.
AskRequests(c, who) ==
    /\ Free(c)
    /\ row' \in Swept
    /\ \A a \in Approval : Newest(row', a) => a \notin Decided(row')
    /\ Seated(who)
    /\ call' = [call EXCEPT ![c] = [Idle EXCEPT !.pc = "request", !.who = who, !.other = seat]]
    /\ UNCHANGED <<seat, message, admitted>>

\* Refused; also any other entry point that only sweeps.
AskRefused(c) ==
    /\ Free(c)
    /\ row' \in Swept
    /\ UNCHANGED <<seat, message, admitted, call>>

(***************************************************************************)
(* request_approval: look, insert, announce, and note the message.         *)
(***************************************************************************)
\* An open request is returned, a verdict that stands is returned.
Look(c) ==
    /\ At(c, "request")
    /\ row' \in Swept
    /\ IF Open(row') \cup Decided(row') = {} THEN Goes(c, "insert") ELSE Ends(c)
    /\ UNCHANGED <<seat, message, admitted>>

Fresh == {a \in Approval : row[a].state = "none" /\ \A b \in Approval : b < a => row[b].state # "none"}

\* coco_approvals_one_open
OneOpenIndex == Open(row) = {}

Insert(c) ==
    /\ At(c, "insert") /\ OneOpenIndex
    /\ \E a \in Fresh :
          /\ row' = [row EXCEPT ![a] = [NoRow EXCEPT !.state = "pending",
                           !.requester = call[c].who, !.approver = call[c].other]]
          /\ call' = [call EXCEPT ![c].pc = "announce", ![c].at = a]
    /\ UNCHANGED <<seat, message, admitted>>

\* The index refused: another caller's request is returned.
InsertRaced(c) ==
    /\ At(c, "insert") /\ ~OneOpenIndex
    /\ Ends(c)
    /\ UNCHANGED <<seat, row, message, admitted>>

\* xaacp_send to the approver.
Send(c, to, next) ==
    \E m \in Message :
        /\ message[m] = NoMail /\ \A n \in Message : n < m => message[n] # NoMail
        /\ message' = [message EXCEPT ![m] = [of |-> call[c].at, to |-> to,
                                              decision |-> "pending"]]
        /\ call' = [call EXCEPT ![c].pc = next, ![c].other = "none", ![c].got = m]

Announce(c) ==
    /\ At(c, "announce")
    /\ Send(c, call[c].other, "bind")
    /\ UNCHANGED <<seat, row, admitted>>

AnnounceFails(c) ==
    /\ At(c, "announce")
    /\ call' = [call EXCEPT ![c].pc = "undo", ![c].other = "none"]
    /\ UNCHANGED <<seat, row, message, admitted>>

\* "LEAVE NO GHOST": the request is deleted while it is pending.
Undo(c) ==
    LET a == call[c].at
    IN  /\ At(c, "undo")
        /\ row' = IF a \in Open(row) THEN [row EXCEPT ![a].state = "withdrawn"] ELSE row
        /\ Ends(c)
        /\ UNCHANGED <<seat, message, admitted>>

\* The row learns its message, whatever its state is by now.
Bind(c) ==
    /\ At(c, "bind")
    /\ row' = [row EXCEPT ![call[c].at].message = call[c].got]
    /\ Ends(c)
    /\ UNCHANGED <<seat, message, admitted>>

(***************************************************************************)
(* The consumption of an approval.                                         *)
(***************************************************************************)
\* Nobody holds the claim, the caller does, or (`old`) it has gone stale.
Claimable(r, who, old) == r.claim \in {"none", who} \/ old

\* claim_for_consumption: already spent, in flight, or taken.
Claim(c) ==
    LET a == call[c].at
    IN  /\ At(c, "claim")
        /\ \E old \in BOOLEAN, r \in Swept :
              IF r[a].ref = 0 /\ r[a].state = "approved" /\ Claimable(r[a], call[c].who, old)
              THEN /\ row' = [r EXCEPT ![a].claim = call[c].who]
                   /\ Goes(c, "store")
              ELSE row' = r /\ Ends(c)
        /\ UNCHANGED <<seat, message, admitted>>

\* project_backlog_store.add
Store(c) ==
    LET a == call[c].at
    IN  /\ At(c, "store")
        /\ \E n \in BacklogRow :
              /\ \A m \in BacklogRow : m < n <=> \E b \in Approval : m \in admitted[b]
              /\ admitted' = [admitted EXCEPT ![a] = @ \cup {n}]
              /\ call' = [call EXCEPT ![c].pc = "record", ![c].got = n]
        /\ UNCHANGED <<seat, row, message>>

StoreFails(c) ==
    /\ At(c, "store")
    /\ Goes(c, "release")
    /\ UNCHANGED <<seat, row, message, admitted>>

\* consumed_ref IS NULL
Unspent(r) == r.ref = 0

\* record_consumption
Record(c) ==
    LET a == call[c].at
    IN  /\ At(c, "record")
        /\ row' = IF Unspent(row[a])
                  THEN [row EXCEPT ![a].ref = call[c].got, ![a].claim = "none"]
                  ELSE row
        /\ Ends(c)
        /\ UNCHANGED <<seat, message, admitted>>

\* release_consumption_claim, whoever holds it by now
Release(c) ==
    LET a == call[c].at
    IN  /\ At(c, "release")
        /\ row' = IF Unspent(row[a]) THEN [row EXCEPT ![a].claim = "none"] ELSE row
        /\ Ends(c)
        /\ UNCHANGED <<seat, message, admitted>>

(***************************************************************************)
(* A ruling (decide_backlog_admission).                                    *)
(***************************************************************************)
\* The caller holds the seat as it is now, and names a request that exists.
Rule(c, a) ==
    /\ Free(c)
    /\ row' \in Swept
    /\ seat # "none" /\ a \in Stored(row)
    /\ call' = [call EXCEPT ![c] = [Idle EXCEPT !.pc = "rebind", !.who = seat, !.at = a]]
    /\ UNCHANGED <<seat, message, admitted>>

\* Mutant: a requester that has taken the seat rules on its own request.
SelfAllowed(r, who) == TRUE

\* "the requesting actor cannot be the deciding actor"
OfAnother(r, who) == r.requester # who

\* rebind_approver_to_seat_holder: the row follows the seat ...
Rebind(c) ==
    LET a == call[c].at  who == call[c].who
    IN  /\ At(c, "rebind")
        /\ \E r \in Swept :
              \/ /\ a \notin Open(r) \/ ~OfAnother(r[a], who)
                 /\ row' = r /\ Ends(c)
              \/ /\ a \in Open(r) /\ OfAnother(r[a], who) /\ r[a].approver = who
                 /\ row' = r /\ Goes(c, "decide")
              \/ /\ a \in Open(r) /\ OfAnother(r[a], who) /\ r[a].approver # who
                 /\ row' = [r EXCEPT ![a].approver = who]
                 /\ call' = [call EXCEPT ![c].pc = "redeliver", ![c].other = r[a].approver]
        /\ UNCHANGED <<seat, message, admitted>>

\* ... and the request is announced to its new approver ...
Redeliver(c) ==
    /\ At(c, "redeliver")
    /\ Send(c, call[c].who, "rebound")
    /\ UNCHANGED <<seat, row, admitted>>

RedeliverFails(c) ==
    /\ At(c, "redeliver")
    /\ Goes(c, "putback")
    /\ UNCHANGED <<seat, row, message, admitted>>

\* ... or put back, if it was not delivered.
PutBack(c) ==
    LET a == call[c].at
    IN  /\ At(c, "putback")
        /\ row' = IF a \in Open(row) THEN [row EXCEPT ![a].approver = call[c].other] ELSE row
        /\ Ends(c)
        /\ UNCHANGED <<seat, message, admitted>>

Rebound(c) ==
    /\ At(c, "rebound")
    /\ row' = [row EXCEPT ![call[c].at].message = call[c].got]
    /\ call' = [call EXCEPT ![c].pc = "decide", ![c].got = 0]
    /\ UNCHANGED <<seat, message, admitted>>

\* decide_approval: the row as it is read, the role the caller has now, and the
\* decision it called with, which nothing looks at before.
Decide(c) ==
    LET a == call[c].at
    IN  /\ At(c, "decide")
        /\ row' \in Swept
        /\ IF /\ a \in Open(row') /\ OfAnother(row'[a], call[c].who)
              /\ row'[a].approver = call[c].who
           THEN \E d \in Decision :
                  call' = [call EXCEPT ![c].pc = "reply", ![c].got = row'[a].message,
                                       ![c].want = d, ![c].beta = (seat = call[c].who)]
           ELSE Ends(c)
        /\ UNCHANGED <<seat, message, admitted>>

\* _xaacp_addressed_responder_refusal
Addressed(m, who) == message[m].to = who

\* Its xaacp_reply: the decision of the message is final, and it is what it is.
Reply(c) ==
    LET m == call[c].got  d == call[c].want
    IN  /\ At(c, "reply")
        /\ IF m # 0 /\ Addressed(m, call[c].who) /\ message[m].decision \in {"pending", d}
           THEN /\ message' = [message EXCEPT ![m].decision = d]
                /\ call' = [call EXCEPT ![c].pc = "write", ![c].got = 0]
           ELSE UNCHANGED message /\ Ends(c)
        /\ UNCHANGED <<seat, row, admitted>>

\* Mutant: the verdict is written over whatever the state has become.
AnyState(r) == TRUE

\* WHERE id=? AND state='pending'
Undecided(r) == r.state = "pending"

Write(c) ==
    LET a == call[c].at
    IN  /\ At(c, "write")
        /\ row' = IF Undecided(row[a])
                  THEN [row EXCEPT ![a].state = Verdict(call[c].want),
                                   ![a].decider = call[c].who, ![a].beta = call[c].beta]
                  ELSE row
        /\ Ends(c)
        /\ UNCHANGED <<seat, message, admitted>>

(***************************************************************************)
(* The rest of the world.                                                  *)
(***************************************************************************)
\* The process or thread of a call ends.
Gone(c) ==
    /\ ~Free(c)
    /\ Ends(c)
    /\ UNCHANGED <<seat, row, message, admitted>>

\* ai_seat(mode='succeed'), and a seat that is left.
Succeed(a) ==
    /\ seat # a
    /\ seat' = a
    /\ UNCHANGED <<row, message, admitted, call>>

\* The approver answers the message itself (ai_msg), the sender cancels it, or
\* it expires.
Answered(m, d) ==
    /\ message[m].decision = "pending"
    /\ message' = [message EXCEPT ![m].decision = d]
    /\ UNCHANGED <<seat, row, admitted, call>>

Asks(c) ==
    AskRefused(c) \/ \E who \in Actor : AskSpends(c, who) \/ AskRequests(c, who)
Requests(c) ==
    \/ Look(c) \/ Insert(c) \/ InsertRaced(c)
    \/ Announce(c) \/ AnnounceFails(c) \/ Undo(c) \/ Bind(c)
Consumes(c) ==
    Claim(c) \/ Store(c) \/ StoreFails(c) \/ Record(c) \/ Release(c)
Rules(c) ==
    \/ Rebind(c) \/ Redeliver(c) \/ RedeliverFails(c) \/ PutBack(c) \/ Rebound(c)
    \/ Decide(c) \/ Reply(c) \/ Write(c)
Steps(c) == Requests(c) \/ Consumes(c) \/ Rules(c)

Next ==
    \/ \E c \in Call :
          \/ Asks(c) \/ Steps(c) \/ Gone(c)
          \/ \E a \in Approval : Rule(c, a)
    \/ \E a \in AnActor : Succeed(a)
    \/ \E m \in Message, d \in Decision \cup {"ended"} : Answered(m, d)

Spec == Init /\ [][Next]_vars

-----------------------------------------------------------------------------
(* Properties.                                                             *)

\* backlog_admission.py:44-47 ("an ALPHA verdict, a spawned child's verdict ...
\* admits nothing") and approval_authority.py:683 ("THE VERDICT IS THE XAACP
\* REPLY"): nothing is in the ledger but what an actor other than who asked,
\* holding the seat, accepted in answer to a message that put the request to it.
AdmittedIsRuled ==
    \A a \in Approval : admitted[a] # {} =>
        /\ row[a].state = "approved" /\ row[a].beta
        /\ \E m \in Message :
              /\ message[m].of = a /\ message[m].decision = "accepted"
              /\ message[m].to = row[a].decider /\ row[a].decider # row[a].requester

\* approval_authority.py:963-966 and :977-978: one approval, one row, however
\* often and whoever retries.
SpentOnce == \A a \in Approval : \A m, n \in admitted[a] : m = n

\* The calls, messages and claims implement what an approval promises: it is
\* ruled on once (decide_approval's WHERE state='pending'), alone open
\* (coco_approvals_one_open), and remembers the first row it produced
\* (record_consumption's WHERE consumed_ref IS NULL).
Ledger == INSTANCE Admission WITH
    standing <- [a \in Approval |-> row[a].state],
    spent <- [a \in Approval |-> row[a].ref]
ImplementsAdmission == Ledger!Spec
=================================================================================
