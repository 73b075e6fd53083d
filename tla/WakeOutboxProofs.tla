---------------------------- MODULE WakeOutboxProofs ----------------------------
(***************************************************************************)
(* Theorems about WakeOutbox, for any subscriptions, workers and budget:   *)
(* what is sent stays within the budget and within MAX_ATTEMPTS per wake,  *)
(* a wake is always sent with the same bytes and ticket, the ticket stays  *)
(* redeemable, no message is overlooked, and a settled wake stays settled. *)
(*                                                                         *)
(* The argument: look at the claims that were posted or still may be.  The *)
(* attempts of a wake count at least each of them, and one more as soon as *)
(* another claim holds the lease; so whoever holds a lease with one        *)
(* attempt is alone, and only such a holder issues a ticket, forgets the   *)
(* first claim or gives a slot back.                                       *)
(***************************************************************************)
EXTENDS WakeOutbox, FiniteSetTheorems, TLAPS

-----------------------------------------------------------------------------
(* Types.                                                                  *)

LEMMA ClaimIsOne == \A c \in Claim : c # NoClaim
  BY DEF Claim, NoClaim

LEMMA TypeInit == Init => TypeOK
  BY DEF Init, TypeOK, EventState, Phase

\* What End does to types.
LEMMA EndType ==
    ASSUME TypeOK, NEW ending, NEW over, End(ending, over)
    PROVE  /\ sub' \in [Sub -> {"none", "active", "lapsed", "ended"}]
           /\ state' \in [Event -> EventState] /\ lease' \in [Event -> Nat]
           /\ UNCHANGED <<newest, body, attempts, first, kek, consumed>>
  <1>1. state' \in [Event -> EventState] /\ lease' \in [Event -> Nat]
    BY DEF End, TypeOK, EventState
  <1> QED BY <1>1 DEF End, TypeOK

LEMMA BindingType ==
    ASSUME TypeOK, NEW b \in Binding, BindWake(b) \/ SetWakeState(b) \/ RevokeBinding(b)
    PROVE  TypeOK'
  <1>1. CASE BindWake(b)
    BY <1>1 DEF BindWake, TypeOK, row, work, around, history
  <1>2. CASE SetWakeState(b)
    BY <1>2 DEF SetWakeState, TypeOK, row, work, history
  <1>3. CASE RevokeBinding(b)
    BY <1>3, EndType DEF RevokeBinding, TypeOK, work, around, history
  <1> QED BY <1>1, <1>2, <1>3

LEMMA SubscriptionType ==
    ASSUME TypeOK, NEW s \in Sub, Subscribe(s) \/ Lapse(s) \/ Unsubscribe(s) \/ Grant(s)
    PROVE  TypeOK'
  <1>1. CASE Subscribe(s)
    BY <1>1 DEF Subscribe, TypeOK, row, work, around, history
  <1>2. CASE Lapse(s)
    BY <1>2 DEF Lapse, TypeOK, row, work, around, history
  <1>3. CASE Unsubscribe(s)
    BY <1>3, EndType DEF Unsubscribe, TypeOK, work, around, history
  <1>4. CASE Grant(s)
    BY <1>4 DEF Grant, TypeOK, who, row, work, history
  <1> QED BY <1>1, <1>2, <1>3, <1>4

LEMMA MessageType ==
    ASSUME TypeOK,
           \/ NoteMessage \/ Rotate
           \/ \E e \in Event, r \in Run : RedeemTicket(e, r)
           \/ \E k \in ledger : Age(k)
    PROVE  TypeOK'
  <1>1. CASE NoteMessage
    BY <1>1 DEF NoteMessage, TypeOK, EventState, who, work
  <1>2. CASE Rotate
    BY <1>2 DEF Rotate, TypeOK, who, row, work, history
  <1>3. ASSUME NEW e \in Event, NEW r \in Run, RedeemTicket(e, r) PROVE TypeOK'
    BY <1>3 DEF RedeemTicket, TypeOK, who, work, around, history
  <1>4. ASSUME NEW k \in ledger, Age(k) PROVE TypeOK'
    <2>1. k.token \in Nat \ {0}
      BY DEF TypeOK, Slot
    <2> QED BY <1>4, <2>1 DEF Age, TypeOK, who, row, work, around
  <1> QED BY <1>1, <1>2, <1>3, <1>4

\* A claim is typed, and its worker is not idle.
LEMMA ClaimDueType == ASSUME TypeOK, NEW w \in Worker, ClaimDue(w) PROVE TypeOK'
  <1>1. ASSUME NEW gone \in SUBSET Event, Bury(gone) PROVE TypeOK'
    BY <1>1 DEF Bury, TypeOK, EventState, who, work, around, history
  <1>2. ASSUME NEW e \in Event, LoseReservation(e) PROVE TypeOK'
    <2>1. ledger' \subseteq Slot
      BY <1>2 DEF LoseReservation, Reserved, TypeOK, Slot
    <2> QED BY <1>2, <2>1 DEF LoseReservation, TypeOK, who, row, work, history
  <1>3. ASSUME NEW gone \in SUBSET Event, NEW e \in Event, ClaimRow(w, e, gone)
        PROVE  TypeOK'
    <2>1. /\ claims' \in Nat \ {0} /\ ledger' \subseteq Slot
          /\ state' \in [Event -> EventState] /\ lease' \in [Event -> Nat]
          /\ attempts' \in [Event -> Nat] /\ attempts'[e] \in Nat \ {0}
          /\ first' \in [Event -> Nat] /\ body' \in [Event -> Nat]
      BY <1>3 DEF ClaimRow, Reserved, TypeOK, Slot, EventState
    <2>2. at'[w] \in Claim /\ at' \in [Worker -> Claim \cup {NoClaim}]
      BY <1>3, <2>1 DEF ClaimRow, TypeOK, Claim
    <2>3. pc' \in [Worker -> Phase] /\ \A v \in Worker : pc'[v] = "idle" <=> at'[v] = NoClaim
      BY <1>3, <2>2, ClaimIsOne DEF ClaimRow, TypeOK, Phase
    <2> QED BY <1>3, <2>1, <2>2, <2>3 DEF ClaimRow, TypeOK, who, history
  <1> QED BY <1>1, <1>2, <1>3 DEF ClaimDue

\* The worker's own state after it is done, or has gone on.
LEMMA FinishType ==
    ASSUME TypeOK, NEW w \in Worker, Finish(w)
    PROVE  /\ pc' \in [Worker -> Phase] /\ at' \in [Worker -> Claim \cup {NoClaim}]
           /\ \A v \in Worker : pc'[v] = "idle" <=> at'[v] = NoClaim
  BY DEF Finish, TypeOK, Phase

LEMMA GotoType ==
    ASSUME TypeOK, NEW w \in Worker, NEW phase \in Phase \ {"idle"}, pc[w] # "idle",
           Goto(w, phase)
    PROVE  /\ pc' \in [Worker -> Phase] /\ at' \in [Worker -> Claim \cup {NoClaim}]
           /\ \A v \in Worker : pc'[v] = "idle" <=> at'[v] = NoClaim
  BY DEF Goto, TypeOK, Phase

LEMMA HeldClaim ==
    ASSUME TypeOK, NEW w \in Worker, pc[w] # "idle"
    PROVE  at[w] \in Claim /\ at[w].event \in Event /\ at[w].attempts \in Nat \ {0}
           /\ at[w].token \in Nat \ {0}
  BY DEF TypeOK, Claim

LEMMA ParkedType ==
    ASSUME TypeOK, NEW w \in Worker, pc[w] # "idle", Parked(w, at[w])
    PROVE  /\ pc' \in [Worker -> Phase] /\ at' \in [Worker -> Claim \cup {NoClaim}]
           /\ \A v \in Worker : pc'[v] = "idle" <=> at'[v] = NoClaim
  <1>1. CASE Goto(w, "parked")
    BY <1>1, GotoType DEF Phase
  <1>2. CASE Finish(w)
    BY <1>2, FinishType
  <1> QED BY <1>1, <1>2 DEF Parked

LEMMA ParkType ==
    ASSUME TypeOK, NEW w \in Worker, pc[w] # "idle", ParkClaim(w)
    PROVE  /\ state' \in [Event -> EventState] /\ lease' \in [Event -> Nat]
           /\ attempts' \in [Event -> Nat] /\ first' \in [Event -> Nat]
           /\ pc' \in [Worker -> Phase] /\ at' \in [Worker -> Claim \cup {NoClaim}]
           /\ \A v \in Worker : pc'[v] = "idle" <=> at'[v] = NoClaim
           /\ UNCHANGED <<who, newest, body, kek, consumed, ledger, entitled, key,
                          claims, messages, history>>
  <1> DEFINE e == at[w].event
  <1>1. at[w] \in Claim /\ e \in Event
    BY HeldClaim
  <1>3. /\ state' \in [Event -> EventState] /\ lease' \in [Event -> Nat]
        /\ attempts' \in [Event -> Nat] /\ first' \in [Event -> Nat]
    <2>1. CASE Holds(at[w])
      <3>1. /\ state' = [state EXCEPT ![e] = "retry"] /\ lease' = [lease EXCEPT ![e] = 0]
            /\ \E n \in Nat : attempts' = [attempts EXCEPT ![e] = n]
            /\ \E n \in Nat : first' = [first EXCEPT ![e] = n]
        BY <1>1, <2>1 DEF ParkClaim, TypeOK
      <3> QED BY <3>1 DEF TypeOK, EventState
    <2>2. CASE ~Holds(at[w])
      BY <2>2 DEF ParkClaim, TypeOK
    <2> QED BY <2>1, <2>2
  <1>4. Parked(w, at[w])
    BY DEF ParkClaim
  <1> QED BY <1>3, <1>4, ParkedType DEF ParkClaim

LEMMA RecordType ==
    ASSUME TypeOK, NEW w \in Worker, NEW status, RecordAttempt(w, status)
    PROVE  TypeOK'
  <1> DEFINE c == at[w]
  <1>1. /\ sub' \in [Sub -> {"none", "active", "lapsed", "ended"}]
        /\ state' \in [Event -> EventState] /\ lease' \in [Event -> Nat]
        /\ UNCHANGED <<newest, body, attempts, first, kek, consumed>>
    <2>1. CASE ~Holds(c)
      BY <2>1 DEF RecordAttempt, TypeOK, row
    <2>2. CASE Holds(c) /\ status = "gone"
      <3>1. End({SubOf(c.event)}, {c.event})
        BY <2>2 DEF RecordAttempt
      <3> QED BY <3>1, EndType
    <2>3. CASE Holds(c) /\ status # "gone"
      <3>1. /\ \E s \in EventState : state' = [state EXCEPT ![c.event] = s]
            /\ lease' = [lease EXCEPT ![c.event] = 0]
            /\ UNCHANGED <<sub, newest, body, attempts, first, kek, consumed>>
        BY <2>3 DEF RecordAttempt, EventState
      <3> QED BY <3>1 DEF TypeOK
    <2> QED BY <2>1, <2>2, <2>3
  <1>2. Finish(w) /\ UNCHANGED <<bind, client, ledger, around, history>>
    BY DEF RecordAttempt
  <1> QED BY <1>1, <1>2, FinishType DEF TypeOK, around, history

LEMMA KekType == ASSUME TypeOK, NEW w \in Worker, RecordTicketKek(w) PROVE TypeOK'
  <1> DEFINE c == at[w]
  <1>0. pc[w] = "allowed" /\ c \in Claim
    BY HeldClaim DEF RecordTicketKek
  <1>1. CASE Holds(c) /\ kek[c.event] = 0
    <2>1. at' = [at EXCEPT ![w].ticket = key] /\ pc' = [pc EXCEPT ![w] = "ticketed"]
          /\ kek' = [kek EXCEPT ![c.event] = key]
      BY <1>1 DEF RecordTicketKek
    <2>2. [c EXCEPT !.ticket = key] \in Claim
      BY <1>0 DEF Claim, TypeOK
    <2>3. at' = [at EXCEPT ![w] = [c EXCEPT !.ticket = key]]
      BY <2>1 DEF TypeOK
    <2>4. /\ pc' \in [Worker -> Phase] /\ at' \in [Worker -> Claim \cup {NoClaim}]
          /\ \A v \in Worker : pc'[v] = "idle" <=> at'[v] = NoClaim
      BY <1>0, <2>1, <2>2, <2>3, ClaimIsOne DEF TypeOK, Phase
    <2>5. kek' \in [Event -> Nat]
      BY <2>1 DEF TypeOK
    <2> QED BY <2>4, <2>5 DEF RecordTicketKek, TypeOK, who, around, history
  <1>2. CASE ~(Holds(c) /\ kek[c.event] = 0)
    <2>1. Finish(w) /\ UNCHANGED kek
      BY <1>2 DEF RecordTicketKek
    <2> QED BY <2>1, FinishType DEF RecordTicketKek, TypeOK, who, around, history
  <1> QED BY <1>1, <1>2

LEMMA DropType == ASSUME TypeOK, NEW w \in Worker, DropUnboundClaim(w) PROVE TypeOK'
  <1>1. pc[w] # "idle" /\ Parked(w, at[w])
    BY DEF DropUnboundClaim
  <1>2. state' \in [Event -> EventState] /\ lease' \in [Event -> Nat]
    <2>1. CASE Holds(at[w])
      BY <2>1 DEF DropUnboundClaim, TypeOK, EventState
    <2>2. CASE ~Holds(at[w])
      BY <2>2 DEF DropUnboundClaim, TypeOK
    <2> QED BY <2>1, <2>2
  <1> QED BY <1>1, <1>2, ParkedType DEF DropUnboundClaim, TypeOK, who, around, history

LEMMA DeliverType ==
    ASSUME TypeOK, NEW w \in Worker, Deliver(w) \/ Crash(w)
    PROVE  TypeOK'
  <1>1. CASE Authorize(w)
    <2>1. \E phase \in Phase \ {"idle"} : Goto(w, phase)
      BY <1>1 DEF Authorize, Phase
    <2> QED BY <1>1, <2>1, GotoType DEF Authorize, TypeOK, who, row, around, history
  <1>2. CASE RevokeSubscription(w)
    <2>1. End({SubOf(at[w].event)}, {}) /\ Finish(w)
      BY <1>2 DEF RevokeSubscription
    <2> QED BY <1>2, <2>1, EndType, FinishType DEF RevokeSubscription, TypeOK, around, history
  <1>3. CASE Outage(w)
    <2>1. pc[w] # "idle" /\ ParkClaim(w) /\ trouble' \in Nat
      BY <1>3 DEF Outage, TypeOK
    <2> QED BY <2>1, ParkType DEF TypeOK, who, history
  <1>4. CASE Release(w)
    <2>1. Finish(w) /\ ledger' \subseteq Slot
      BY <1>4 DEF Release, TypeOK
    <2> QED BY <1>4, <2>1, FinishType DEF Release, TypeOK, who, row, around, history
  <1>5. CASE KeepTicket(w)
    <2>1. Goto(w, "ticketed") /\ pc[w] # "idle"
      BY <1>5 DEF KeepTicket
    <2> QED BY <1>5, <2>1, GotoType DEF KeepTicket, TypeOK, who, row, around, history, Phase
  <1>6. CASE Fence(w)
    <2>1. \E phase \in Phase \ {"idle"} : Goto(w, phase)
      BY <1>6 DEF Fence, Phase
    <2> QED BY <1>6, <2>1, GotoType DEF Fence, TypeOK, who, row, around, history
  <1>7. CASE Hold(w)
    <2>1. pc[w] # "idle" /\ ParkClaim(w) /\ UNCHANGED trouble
      BY <1>7 DEF Hold
    <2> QED BY <2>1, ParkType DEF TypeOK, who, history
  <1>8. CASE Post(w)
    <2>1. Goto(w, "posted") /\ pc[w] # "idle" /\ posts' = posts \cup {at[w]}
      BY <1>8 DEF Post
    <2>2. posts' \subseteq Claim
      BY <2>1, HeldClaim DEF TypeOK
    <2> QED BY <1>8, <2>1, <2>2, GotoType DEF Post, TypeOK, who, row, around, Phase
  <1>9. CASE Crash(w)
    <2>1. Finish(w)
      BY <1>9 DEF Crash
    <2> QED BY <1>9, <2>1, FinishType DEF Crash, TypeOK, who, row, around, history
  <1> QED BY <1>1, <1>2, <1>3, <1>4, <1>5, <1>6, <1>7, <1>8, <1>9,
             RecordType, KekType, DropType DEF Deliver

LEMMA TypeStep == ASSUME TypeOK, [Next]_vars PROVE TypeOK'
  <1>1. CASE UNCHANGED vars
    BY <1>1 DEF vars, who, row, work, around, history, TypeOK
  <1>2. CASE Next
    BY <1>2, BindingType, SubscriptionType, MessageType, ClaimDueType, DeliverType DEF Next
  <1> QED BY <1>1, <1>2

\* Every state is well typed.
THEOREM TypeCorrect == Spec => []TypeOK
  BY TypeInit, TypeStep, PTL DEF Spec

-----------------------------------------------------------------------------
(* The inductive invariant.                                                *)

\* A worker whose claim may still be posted.
Live(w) == pc[w] \notin {"idle", "parked"}

\* The claims that were posted or still may be.
Issued == posts \cup {at[w] : w \in {v \in Worker : Live(v)}}

\* A row that was not claimed yet is as it was inserted.
Untouched ==
    \A e \in Event : state[e] \in {"unborn", "open"} =>
                        attempts[e] = 0 /\ first[e] = 0 /\ kek[e] = 0

\* Tokens are drawn from a counter, and a lease is what makes a row claimed.
Drawn ==
    /\ \A e \in Event : /\ lease[e] <= claims /\ first[e] <= claims
                        /\ lease[e] # 0 <=> state[e] = "claimed"
    /\ \A w \in Worker : pc[w] # "idle" => at[w].token <= claims
    /\ \A p \in posts : p.token <= claims

\* A token names one claim, at work or posted.
Named ==
    \A w \in Worker : pc[w] # "idle" =>
       /\ \A v \in Worker : pc[v] # "idle" /\ at[v].token = at[w].token => v = w
       /\ \A p \in posts : p.token = at[w].token => pc[w] = "posted" /\ p = at[w]
       /\ \A e \in Event : first[e] = at[w].token => e = at[w].event

\* The attempts of a wake count each of its claims, and their order.
Counted ==
    \A c \in Issued :
       LET e == c.event IN
       /\ state[e] \notin {"unborn", "open"} /\ first[e] # 0
       /\ c.attempts <= MaxAttempts /\ c.attempts <= attempts[e]
       /\ lease[e] \notin {0, c.token} => c.attempts < attempts[e]
       /\ lease[e] = c.token => c.attempts = attempts[e]

\* Claims of a wake carry the bytes and the ticket on its row.
Frozen == \A c \in Issued : c.body = body[c.event] /\ c.ticket = kek[c.event]

\* Claims of a wake differ in their attempts.
Separate ==
    \A c, d \in Issued : c.event = d.event /\ c.attempts = d.attempts => c = d

\* The slot of the first claim of a wake.
SlotOf(e) == [token |-> first[e], event |-> e]

\* A wake that was or may still be sent has its slot, or had it until it aged.
Paid ==
    \A e \in Event :
       first[e] # 0 /\ (state[e] # "dead" \/ \E c \in Issued : c.event = e)
       => first[e] \in aged \/ SlotOf(e) \in ledger

\* A slot that is about to be given back is of a claim that came to nothing.
Returned ==
    \A w \in Worker, e \in Event :
       pc[w] = "parked" /\ first[e] = at[w].token
       => state[e] = "dead" /\ \A c \in Issued : c.event # e

Capped == IsFiniteSet(ledger) /\ Cardinality(ledger) <= Cap

Core == Untouched /\ Drawn /\ Named /\ Counted /\ Frozen /\ Separate

IInv == TypeOK /\ Core /\ Paid /\ Returned /\ Capped

-----------------------------------------------------------------------------
(* The invariant holds initially, and a step that draws no token and undoes *)
(* no claim keeps it.                                                      *)

LEMMA CoreInit == Init => Core /\ Paid /\ Returned /\ Capped
  <1> SUFFICES ASSUME Init PROVE Core /\ Paid /\ Returned /\ Capped
    OBVIOUS
  <1>1. Issued = {}
    BY DEF Init, Issued, Live
  <1>2. Core
    BY <1>1 DEF Init, Core, Untouched, Drawn, Named, Counted, Frozen, Separate
  <1>3. Paid /\ Returned
    BY DEF Init, Paid, Returned
  <1>4. Capped
    BY FS_EmptySet, CountAssumption DEF Init, Capped
  <1> QED BY <1>2, <1>3, <1>4

\* What a step may do to rows without a claim: leave them, settle them, open one.
RowsSettle ==
    \A e \in Event :
       \/ state'[e] = state[e] /\ lease'[e] = lease[e]
       \/ state'[e] \in {"retry", "delivered", "dead"} /\ lease'[e] = 0
       \/ state[e] = "unborn" /\ state'[e] = "open" /\ lease'[e] = lease[e]

\* Workers go on with the claim they hold, or let go of it.
WorkersGoOn ==
    \A w \in Worker : pc'[w] # "idle" =>
       /\ pc[w] # "idle" /\ at'[w] = at[w]
       /\ pc[w] = "posted" => pc'[w] \in {"posted", "parked"}
       /\ Live(w)' => Live(w)

\* Issued does not grow.
LEMMA IssuedShrinks ==
    ASSUME WorkersGoOn, posts' = posts
    PROVE  Issued' \subseteq Issued
  BY DEF WorkersGoOn, Issued, Live

LEMMA IssuedType ==
    ASSUME TypeOK, NEW c \in Issued
    PROVE  /\ c \in Claim /\ c.event \in Event /\ c.token \in Nat \ {0}
           /\ c.attempts \in Nat \ {0}
  <1>1. c \in Claim
    BY HeldClaim DEF TypeOK, Issued, Live
  <1> QED BY <1>1 DEF Claim

LEMMA SettleStep ==
    ASSUME TypeOK, TypeOK', Core, RowsSettle, WorkersGoOn,
           \A w \in Worker : pc[w] = "posted" => pc'[w] # "parked",
           UNCHANGED <<attempts, first, kek, body, posts, claims>>
    PROVE  Core'
  <1> USE DEF Core
  <1>0. Issued' \subseteq Issued
    BY IssuedShrinks
  <1>1. Untouched'
    BY DEF Untouched, RowsSettle
  <1>2. Drawn'
    <2>1. ASSUME NEW e \in Event
          PROVE  lease'[e] <= claims /\ (lease'[e] # 0 <=> state'[e] = "claimed")
      BY <2>1 DEF Drawn, RowsSettle, TypeOK
    <2>2. \A w \in Worker : pc'[w] # "idle" => at'[w].token <= claims
      BY DEF Drawn, WorkersGoOn
    <2> QED BY <2>1, <2>2 DEF Drawn
  <1>3. Named'
    BY DEF Named, WorkersGoOn
  <1>4. Counted'
    <2> SUFFICES ASSUME NEW c \in Issued'
                 PROVE  /\ state'[c.event] \notin {"unborn", "open"} /\ first'[c.event] # 0
                        /\ c.attempts <= MaxAttempts /\ c.attempts <= attempts'[c.event]
                        /\ lease'[c.event] \notin {0, c.token} => c.attempts < attempts'[c.event]
                        /\ lease'[c.event] = c.token => c.attempts = attempts'[c.event]
      BY DEF Counted
    <2>1. c \in Issued /\ c.event \in Event /\ c.token # 0
      BY <1>0, IssuedType
    <2>2. \/ state'[c.event] = state[c.event] /\ lease'[c.event] = lease[c.event]
          \/ state'[c.event] \in {"retry", "delivered", "dead"} /\ lease'[c.event] = 0
      BY <2>1 DEF RowsSettle, Counted
    <2> QED BY <2>1, <2>2 DEF Counted
  <1>5. Frozen'
    BY <1>0 DEF Frozen
  <1>6. Separate'
    BY <1>0 DEF Separate
  <1> QED BY <1>1, <1>2, <1>3, <1>4, <1>5, <1>6



-----------------------------------------------------------------------------
(* The steps of a worker that change a claim.                              *)

\* Whoever holds a lease with one attempt on the row is alone.
LEMMA HolderIsAlone ==
    ASSUME TypeOK, Core, NEW w \in Worker, Live(w), Holds(at[w]),
           attempts[at[w].event] <= 1,
           NEW c \in Issued, c.event = at[w].event
    PROVE  c = at[w]
  <1> DEFINE h == at[w]
  <1>1. h \in Issued /\ h.attempts = attempts[h.event] /\ h.token # 0
    BY IssuedType DEF Issued, Core, Counted, Holds
  <1>2. c.attempts \in Nat \ {0} /\ c.attempts <= attempts[h.event] /\ attempts[h.event] \in Nat
    BY <1>1, IssuedType DEF Core, Counted, TypeOK
  <1>3. c.attempts = h.attempts
    BY <1>1, <1>2
  <1> QED BY <1>1, <1>3 DEF Core, Separate

LEMMA PostStep == ASSUME TypeOK, TypeOK', Core, NEW w \in Worker, Post(w) PROVE Core'
  <1> USE DEF Core
  <1>1. /\ pc[w] = "clear" /\ pc' = [pc EXCEPT ![w] = "posted"] /\ at' = at
        /\ posts' = posts \cup {at[w]}
        /\ UNCHANGED <<row, claims>>
    BY DEF Post, Goto, around
  <1>2. Issued' = Issued
    <2>1. \A v \in Worker : Live(v)' <=> Live(v)
      BY <1>1 DEF Live, TypeOK
    <2>2. at[w] \in Issued
      BY <1>1 DEF Issued, Live
    <2> QED BY <1>1, <2>1, <2>2 DEF Issued
  <1>3. Untouched' /\ Counted' /\ Frozen' /\ Separate'
    BY <1>1, <1>2 DEF Untouched, Counted, Frozen, Separate, row
  <1>4. Drawn'
    BY <1>1 DEF Drawn, row, TypeOK
  <1>5. Named'
    <2> SUFFICES ASSUME NEW v \in Worker, pc'[v] # "idle"
                 PROVE  /\ \A u \in Worker : pc'[u] # "idle" /\ at[u].token = at[v].token => u = v
                        /\ \A p \in posts' : p.token = at[v].token => pc'[v] = "posted" /\ p = at[v]
                        /\ \A e \in Event : first[e] = at[v].token => e = at[v].event
      BY <1>1 DEF Named, row
    <2>1. pc[v] # "idle" /\ \A u \in Worker : pc'[u] # "idle" => pc[u] # "idle"
      BY <1>1 DEF TypeOK
    <2>2. ASSUME NEW p \in posts', p.token = at[v].token
          PROVE  pc'[v] = "posted" /\ p = at[v]
      <3>1. CASE p \in posts
        <4>1. pc[v] = "posted" /\ p = at[v]
          BY <2>1, <2>2, <3>1 DEF Named
        <4> QED BY <1>1, <4>1 DEF TypeOK
      <3>2. CASE p = at[w]
        <4>1. w = v
          BY <1>1, <2>1, <2>2, <3>2 DEF Named
        <4> QED BY <1>1, <3>2, <4>1 DEF TypeOK
      <3> QED BY <1>1, <3>1, <3>2
    <2> QED BY <2>1, <2>2 DEF Named
  <1> QED BY <1>3, <1>4, <1>5

\* Worker w lets go of its claim, or keeps it parked; the others go on.
LetsGo(w) ==
    \A v \in Worker : /\ v # w => pc'[v] = pc[v] /\ at'[v] = at[v]
                      /\ pc'[w] = "idle" \/ (pc'[w] = "parked" /\ at'[w] = at[w])

LEMMA LettingGo ==
    ASSUME TypeOK, NEW w \in Worker, pc[w] # "idle", Finish(w) \/ Goto(w, "parked")
    PROVE  LetsGo(w)
  BY DEF LetsGo, Finish, Goto, TypeOK

LEMMA LetsGoOn ==
    ASSUME TypeOK, NEW w \in Worker, pc[w] # "idle", LetsGo(w)
    PROVE  WorkersGoOn
  <1> SUFFICES ASSUME NEW v \in Worker, pc'[v] # "idle"
               PROVE  /\ pc[v] # "idle" /\ at'[v] = at[v]
                      /\ pc[v] = "posted" => pc'[v] \in {"posted", "parked"}
                      /\ Live(v)' => Live(v)
    BY DEF WorkersGoOn
  <1>1. CASE v = w
    BY <1>1 DEF LetsGo, Live
  <1>2. CASE v # w
    BY <1>2 DEF LetsGo, Live
  <1> QED BY <1>1, <1>2

\* A claim that is let go of and was not posted is issued no more.
LEMMA NotIssued ==
    ASSUME TypeOK, Core, NEW w \in Worker, pc[w] \notin {"idle", "posted"}, LetsGo(w),
           posts' = posts
    PROVE  /\ Issued' \subseteq Issued
           /\ \A c \in Issued' : c.token # at[w].token
  <1>1. Issued' \subseteq Issued
    BY LetsGoOn, IssuedShrinks
  <1>2. ASSUME NEW c \in Issued', c.token = at[w].token PROVE FALSE
    <2>1. CASE c \in posts
      BY <1>2, <2>1 DEF Core, Named
    <2>2. ASSUME NEW v \in Worker, Live(v)', c = at'[v] PROVE FALSE
      <3>1. v # w
        BY <2>2 DEF LetsGo, Live
      <3>2. pc[v] # "idle" /\ at[v].token = at[w].token
        BY <1>2, <2>2, <3>1 DEF LetsGo, Live
      <3> QED BY <3>1, <3>2 DEF Core, Named
    <2> QED BY <2>1, <2>2 DEF Issued
  <1> QED BY <1>1, <1>2

LEMMA ParkStep ==
    ASSUME TypeOK, TypeOK', Core, NEW w \in Worker, Live(w), pc[w] # "posted",
           ParkClaim(w), Holds(at[w])
    PROVE  Core'
  <1> USE DEF Core
  <1> DEFINE h == at[w]  e == at[w].event
  <1>1. /\ state' = [state EXCEPT ![e] = "retry"] /\ lease' = [lease EXCEPT ![e] = 0]
        /\ attempts' = [attempts EXCEPT ![e] = IF @ = 0 THEN 0 ELSE @ - 1]
        /\ first' = [first EXCEPT ![e] = IF attempts[e] <= 1 THEN 0 ELSE @]
        /\ UNCHANGED <<body, kek, claims, posts>>
    BY DEF ParkClaim, history
  <1>2. LetsGo(w) /\ WorkersGoOn
    BY LettingGo, LetsGoOn DEF ParkClaim, Parked, Live
  <1>3. Issued' \subseteq Issued /\ \A c \in Issued' : c.token # h.token
    BY <1>1, <1>2, NotIssued DEF Live
  <1>4. /\ h \in Issued /\ e \in Event /\ state[e] = "claimed" /\ lease[e] = h.token
        /\ h.token \in Nat \ {0} /\ attempts[e] \in Nat
    BY IssuedType DEF Issued, Holds, TypeOK
  <1>5. Untouched'
    BY <1>1, <1>4 DEF Untouched, TypeOK
  <1>6. Drawn'
    <2>1. \A f \in Event : /\ lease'[f] <= claims /\ first'[f] <= claims
                           /\ lease'[f] # 0 <=> state'[f] = "claimed"
      BY <1>1, <1>4 DEF Drawn, TypeOK
    <2>2. \A v \in Worker : pc'[v] # "idle" => at'[v].token <= claims
      BY <1>2 DEF Drawn, WorkersGoOn
    <2> QED BY <1>1, <2>1, <2>2 DEF Drawn
  <1>7. Named'
    <2> SUFFICES ASSUME NEW v \in Worker, pc'[v] # "idle"
                 PROVE  /\ \A u \in Worker : pc'[u] # "idle" /\ at'[u].token = at'[v].token => u = v
                        /\ \A p \in posts : p.token = at'[v].token => pc'[v] = "posted" /\ p = at'[v]
                        /\ \A f \in Event : first'[f] = at'[v].token => f = at'[v].event
      BY <1>1 DEF Named
    <2>1. pc[v] # "idle" /\ at'[v] = at[v] /\ at[v].token # 0
      BY <1>2, HeldClaim DEF WorkersGoOn
    <2>2. \A f \in Event : first'[f] \in {0, first[f]}
      BY <1>1, <1>4 DEF TypeOK
    <2>3. ASSUME NEW p \in posts, p.token = at'[v].token PROVE pc'[v] = "posted" /\ p = at'[v]
      <3>1. pc[v] = "posted" /\ p = at[v]
        BY <2>1, <2>3 DEF Named
      <3> QED BY <1>2, <2>1, <3>1 DEF LetsGo, Live
    <2> QED BY <1>2, <2>1, <2>2, <2>3 DEF Named, WorkersGoOn
  <1>8. Counted'
    <2> SUFFICES ASSUME NEW c \in Issued'
                 PROVE  /\ state'[c.event] \notin {"unborn", "open"} /\ first'[c.event] # 0
                        /\ c.attempts <= MaxAttempts /\ c.attempts <= attempts'[c.event]
                        /\ lease'[c.event] \notin {0, c.token} => c.attempts < attempts'[c.event]
                        /\ lease'[c.event] = c.token => c.attempts = attempts'[c.event]
      BY DEF Counted
    <2>1. c \in Issued /\ c.event \in Event /\ c.token # 0 /\ c.token # h.token
          /\ c.attempts \in Nat \ {0}
      BY <1>3, IssuedType
    <2>2. CASE c.event # e
      BY <1>1, <2>1, <2>2 DEF Counted, TypeOK
    <2>3. CASE c.event = e
      <3>1. c.attempts < attempts[e]
        BY <1>4, <2>1, <2>3 DEF Counted
      <3>2. attempts'[e] = attempts[e] - 1 /\ attempts[e] > 1
        BY <1>1, <1>4, <2>1, <3>1 DEF TypeOK
      <3>3. state'[e] = "retry" /\ lease'[e] = 0 /\ first'[e] = first[e]
        BY <1>1, <1>4, <3>2 DEF TypeOK
      <3> QED BY <1>4, <2>1, <2>3, <3>1, <3>2, <3>3 DEF Counted
    <2> QED BY <2>2, <2>3
  <1>9. Frozen' /\ Separate'
    BY <1>1, <1>3 DEF Frozen, Separate
  <1> QED BY <1>5, <1>6, <1>7, <1>8, <1>9

LEMMA KekStep ==
    ASSUME TypeOK, TypeOK', Core, NEW w \in Worker, RecordTicketKek(w),
           Holds(at[w]), kek[at[w].event] = 0
    PROVE  Core' /\ \A c \in Issued' : \E d \in Issued : c.event = d.event
  <1> USE DEF Core
  <1> DEFINE h == at[w]  e == at[w].event  n == [at[w] EXCEPT !.ticket = key]
  <1>1. /\ pc[w] = "allowed" /\ h.attempts = 1
        /\ kek' = [kek EXCEPT ![e] = key]
        /\ at' = [at EXCEPT ![w].ticket = key]
        /\ pc' = [pc EXCEPT ![w] = "ticketed"]
        /\ UNCHANGED <<state, body, lease, attempts, first, claims, posts>>
    BY DEF RecordTicketKek, Unissued, around, history
  <1>2. /\ h \in Claim /\ h \in Issued /\ e \in Event /\ Live(w)
        /\ state[e] = "claimed" /\ lease[e] = h.token /\ attempts[e] = 1
    BY <1>1, HeldClaim DEF Issued, Live, Holds, Counted
  <1>3. at'[w] = n /\ \A v \in Worker : v # w => at'[v] = at[v] /\ pc'[v] = pc[v]
    BY <1>1 DEF TypeOK
  <1>4. n.event = e /\ n.token = h.token /\ n.attempts = h.attempts /\ n.body = h.body
        /\ n.ticket = key
    BY <1>2 DEF Claim
  <1>5. \A c \in Issued : c.event = e => c = h
    BY <1>1, <1>2, HolderIsAlone
  <1>6. \A c \in Issued' : c = n \/ (c \in Issued /\ c.event # e)
    <2> SUFFICES ASSUME NEW c \in Issued', c # n PROVE c \in Issued /\ c.event # e
      OBVIOUS
    <2>1. CASE c \in posts
      <3>1. c \in Issued /\ c # h
        BY <1>1, <2>1 DEF Issued, Named
      <3> QED BY <1>5, <3>1
    <2>2. ASSUME NEW v \in Worker, Live(v)', c = at'[v]
          PROVE  c \in Issued /\ c.event # e
      <3>1. v # w /\ Live(v) /\ c = at[v]
        BY <1>3, <2>2 DEF Live
      <3>2. c \in Issued
        BY <3>1 DEF Issued
      <3>3. c # h
        BY <1>1, <3>1 DEF Named, Live
      <3> QED BY <1>5, <3>2, <3>3
    <2> QED BY <1>1, <2>1, <2>2 DEF Issued
  <1>7. Untouched' /\ Drawn'
    <2>1. Untouched'
      BY <1>1, <1>2 DEF Untouched, TypeOK
    <2>2. \A v \in Worker : pc'[v] # "idle" => at'[v].token <= claims
      BY <1>1, <1>3, <1>4 DEF Drawn
    <2> QED BY <1>1, <2>1, <2>2 DEF Drawn
  <1>8. Named'
    <2>1. \A v \in Worker : pc'[v] # "idle" => /\ pc[v] # "idle"
                                              /\ at'[v].token = at[v].token
                                              /\ at'[v].event = at[v].event
      BY <1>1, <1>3, <1>4
    <2>2. ASSUME NEW v \in Worker, pc'[v] # "idle",
                 NEW p \in posts, p.token = at'[v].token
          PROVE  pc'[v] = "posted" /\ p = at'[v]
      <3>1. pc[v] = "posted" /\ p = at[v]
        BY <2>1, <2>2 DEF Named
      <3> QED BY <1>1, <1>3, <3>1
    <2> QED BY <1>1, <2>1, <2>2 DEF Named
  <1>9. Counted'
    <2> SUFFICES ASSUME NEW c \in Issued'
                 PROVE  /\ state[c.event] \notin {"unborn", "open"} /\ first[c.event] # 0
                        /\ c.attempts <= MaxAttempts /\ c.attempts <= attempts[c.event]
                        /\ lease[c.event] \notin {0, c.token} => c.attempts < attempts[c.event]
                        /\ lease[c.event] = c.token => c.attempts = attempts[c.event]
      BY <1>1 DEF Counted
    <2>1. CASE c = n
      BY <1>2, <1>4, <2>1 DEF Counted
    <2>2. CASE c \in Issued
      BY <2>2 DEF Counted
    <2> QED BY <1>6, <2>1, <2>2
  <1>10. Frozen'
    <2> SUFFICES ASSUME NEW c \in Issued'
                 PROVE  c.body = body[c.event] /\ c.ticket = kek'[c.event]
      BY <1>1 DEF Frozen
    <2>1. CASE c = n
      BY <1>1, <1>2, <1>4, <2>1 DEF Frozen, TypeOK
    <2>2. CASE c \in Issued /\ c.event # e
      BY <1>1, <2>2, IssuedType DEF Frozen, TypeOK
    <2> QED BY <1>6, <2>1, <2>2
  <1>11. Separate'
    BY <1>4, <1>6 DEF Separate
  <1> QED BY <1>2, <1>4, <1>6, <1>7, <1>8, <1>9, <1>10, <1>11

\* What a claim changes.
LEMMA ClaimEffect ==
    ASSUME TypeOK, Core, NEW w \in Worker, pc[w] = "idle", NEW e \in Event,
           NEW gone \in SUBSET {f \in Event : Buriable(f)}, ClaimRow(w, e, gone)
    PROVE  /\ claims' = claims + 1 /\ pc' = [pc EXCEPT ![w] = "claimed"]
           /\ \A v \in Worker : v # w => at'[v] = at[v]
           /\ at'[w] \in Claim /\ at'[w].event = e /\ at'[w].token = claims'
           /\ at'[w].attempts = attempts[e] + 1 /\ at'[w].body = body'[e]
           /\ at'[w].ticket = kek[e]
           /\ attempts' = [attempts EXCEPT ![e] = @ + 1]
           /\ attempts[e] + 1 <= MaxAttempts
           /\ state[e] \in {"open", "claimed", "retry"} /\ e \notin gone
           /\ state' = [f \in Event |-> IF f = e THEN "claimed"
                                        ELSE IF f \in gone THEN "dead" ELSE state[f]]
           /\ lease' = [f \in Event |-> IF f = e THEN claims'
                                        ELSE IF f \in gone THEN 0 ELSE lease[f]]
           /\ first' = [first EXCEPT ![e] = IF @ = 0 THEN claims' ELSE @]
           /\ \A f \in Event : f # e \/ state[e] # "open" => body'[f] = body[f]
           /\ Issued' = Issued \cup {at'[w]}
           /\ UNCHANGED <<kek, posts, aged>>
  <1> DEFINE n == [event |-> e, token |-> claims', attempts |-> attempts'[e],
                   body |-> body'[e], ticket |-> kek[e]]
  <1>1. /\ claims' = claims + 1 /\ pc' = [pc EXCEPT ![w] = "claimed"]
        /\ at' = [at EXCEPT ![w] = n]
        /\ attempts' = [attempts EXCEPT ![e] = @ + 1]
        /\ state[e] \in {"open", "claimed", "retry"}
        /\ Ready(e) /\ ~Spent(e)
        /\ state' = [f \in Event |-> IF f = e THEN "claimed"
                                     ELSE IF f \in gone THEN "dead" ELSE state[f]]
        /\ lease' = [f \in Event |-> IF f = e THEN claims'
                                     ELSE IF f \in gone THEN 0 ELSE lease[f]]
        /\ first' = [first EXCEPT ![e] = IF @ = 0 THEN claims' ELSE @]
        /\ body' = [body EXCEPT ![e] = IF state[e] = "open" THEN newest[e] ELSE @]
        /\ UNCHANGED <<kek, posts, aged>>
    BY DEF ClaimRow, Claimable, Queued, history
  <1>2. at'[w] = n /\ \A v \in Worker : v # w => at'[v] = at[v]
    BY <1>1 DEF TypeOK
  <1>3. attempts'[e] = attempts[e] + 1 /\ attempts[e] \in Nat /\ claims \in Nat
    BY <1>1 DEF TypeOK
  <1>4. n \in Claim
    <2>1. body'[e] \in Nat /\ kek[e] \in Nat
      BY <1>1 DEF TypeOK
    <2> QED BY <1>1, <1>3, <2>1 DEF Claim
  <1>5. attempts[e] + 1 <= MaxAttempts
    BY <1>1, <1>3, CountAssumption DEF Spent, Core, Untouched
  <1>6. e \notin gone
    BY <1>1 DEF Buriable
  <1>7. Issued' = Issued \cup {n}
    <2>1. Live(w)' /\ ~Live(w)
      BY <1>1 DEF Live, TypeOK
    <2>2. \A v \in Worker : v # w => (Live(v)' <=> Live(v))
      BY <1>1 DEF Live, TypeOK
    <2> QED BY <1>1, <1>2, <2>1, <2>2 DEF Issued
  <1>8. \A f \in Event : f # e \/ state[e] # "open" => body'[f] = body[f]
    BY <1>1 DEF TypeOK
  <1> HIDE DEF n
  <1>9. /\ n.event = e /\ n.token = claims' /\ n.attempts = attempts[e] + 1
        /\ n.body = body'[e] /\ n.ticket = kek[e]
    BY <1>3 DEF n
  <1> QED BY <1>1, <1>2, <1>3, <1>4, <1>5, <1>6, <1>7, <1>8, <1>9

LEMMA ClaimStep ==
    ASSUME TypeOK, TypeOK', Core, NEW w \in Worker, pc[w] = "idle", NEW e \in Event,
           NEW gone \in SUBSET {f \in Event : Buriable(f)}, ClaimRow(w, e, gone)
    PROVE  Core'
  <1> USE DEF Core
  <1> DEFINE n == at'[w]
  <1>0. USE ClaimEffect
  <1>1. claims \in Nat /\ attempts[e] \in Nat /\ first[e] \in Nat /\ first'[e] # 0
    BY DEF TypeOK
  <1>2. \A c \in Issued : c.token <= claims /\ c.token # claims'
    <2>1. \A c \in Issued : c.token <= claims
      BY DEF Issued, Drawn, Live
    <2> QED BY <1>1, <2>1, IssuedType
  <1>3. \A f \in gone : state[f] \in {"open", "claimed", "retry"} /\ f \in Event
    BY DEF Buriable, Queued
  <1>4. Untouched'
    BY <1>1 DEF Untouched, TypeOK
  <1>5. Drawn'
    <2>1. ASSUME NEW f \in Event
          PROVE  /\ lease'[f] <= claims' /\ first'[f] <= claims'
                 /\ lease'[f] # 0 <=> state'[f] = "claimed"
      <3>1. first[f] \in Nat /\ lease[f] \in Nat /\ first[f] <= claims /\ lease[f] <= claims
            /\ (lease[f] # 0 <=> state[f] = "claimed")
        BY DEF Drawn, TypeOK
      <3>2. first'[f] = IF f = e /\ first[e] = 0 THEN claims' ELSE first[f]
        BY DEF TypeOK
      <3> QED BY <1>1, <3>1, <3>2
    <2>2. ASSUME NEW v \in Worker, pc'[v] # "idle" PROVE at'[v].token <= claims'
      <3>1. CASE v = w
        BY <1>1, <3>1
      <3>2. CASE v # w
        <4>1. pc[v] # "idle" /\ at'[v] = at[v] /\ at[v].token <= claims
          BY <2>2, <3>2 DEF Drawn, TypeOK
        <4> QED BY <1>1, <4>1, HeldClaim
      <3> QED BY <3>1, <3>2
    <2>3. \A p \in posts : p.token <= claims'
      BY <1>1, <1>2, IssuedType DEF Issued
    <2> QED BY <2>1, <2>2, <2>3 DEF Drawn
  <1>6. Named'
    <2>1. \A v \in Worker : v # w /\ pc'[v] # "idle" =>
             pc[v] # "idle" /\ pc'[v] = pc[v] /\ at'[v] = at[v] /\ at[v].token # claims'
      <3> SUFFICES ASSUME NEW v \in Worker, v # w, pc'[v] # "idle"
                   PROVE  pc[v] # "idle" /\ pc'[v] = pc[v] /\ at'[v] = at[v] /\ at[v].token # claims'
        OBVIOUS
      <3>1. pc[v] # "idle" /\ pc'[v] = pc[v] /\ at'[v] = at[v] /\ at[v].token <= claims
        BY DEF Drawn, TypeOK
      <3> QED BY <1>1, <3>1, HeldClaim
    <2>2. \A p \in posts : p.token # claims'
      BY <1>2 DEF Issued
    <2>3. \A f \in Event : first'[f] = claims' => f = e
      BY <1>1 DEF Drawn, TypeOK
    <2>4. \A f \in Event : first'[f] # claims' => first'[f] = first[f]
      BY DEF TypeOK
    <2> QED BY <2>1, <2>2, <2>3, <2>4 DEF Named
  <1>7. Counted'
    <2> SUFFICES ASSUME NEW c \in Issued'
                 PROVE  /\ state'[c.event] \notin {"unborn", "open"} /\ first'[c.event] # 0
                        /\ c.attempts <= MaxAttempts /\ c.attempts <= attempts'[c.event]
                        /\ lease'[c.event] \notin {0, c.token} => c.attempts < attempts'[c.event]
                        /\ lease'[c.event] = c.token => c.attempts = attempts'[c.event]
      BY DEF Counted
    <2>1. CASE c = n
      BY <1>1, <2>1 DEF TypeOK
    <2>2. CASE c \in Issued
      <3>1. c.event \in Event /\ c.attempts \in Nat \ {0} /\ c.token \in Nat \ {0}
            /\ attempts[c.event] \in Nat
        BY <2>2, IssuedType DEF TypeOK
      <3>2. CASE c.event = e
        <4>1. attempts'[e] = attempts[e] + 1 /\ lease'[e] = claims' /\ state'[e] = "claimed"
          BY DEF TypeOK
        <4>2. c.attempts <= attempts[e] /\ c.attempts <= MaxAttempts
          BY <2>2, <3>2 DEF Counted
        <4> QED BY <1>1, <1>2, <2>2, <3>1, <3>2, <4>1, <4>2
      <3>3. CASE c.event # e
        <4>1. attempts'[c.event] = attempts[c.event] /\ first'[c.event] = first[c.event]
          BY <3>1, <3>3 DEF TypeOK
        <4>2. \/ state'[c.event] = state[c.event] /\ lease'[c.event] = lease[c.event]
              \/ state'[c.event] = "dead" /\ lease'[c.event] = 0
          BY <3>1, <3>3
        <4> QED BY <2>2, <3>1, <4>1, <4>2 DEF Counted
      <3> QED BY <3>2, <3>3
    <2> QED BY <2>1, <2>2
  <1>8. Frozen'
    <2> SUFFICES ASSUME NEW c \in Issued'
                 PROVE  c.body = body'[c.event] /\ c.ticket = kek[c.event]
      BY DEF Frozen
    <2>1. CASE c \in Issued
      <3>1. c.event \in Event /\ state[c.event] # "open"
        BY <2>1, IssuedType DEF Counted
      <3> QED BY <2>1, <3>1 DEF Frozen
    <2> QED BY <2>1
  <1>9. Separate'
    <2>1. \A c \in Issued : c.event = e => c.attempts # n.attempts
      BY <1>1, IssuedType DEF Counted
    <2> QED BY <2>1 DEF Separate
  <1> QED BY <1>4, <1>5, <1>6, <1>7, <1>8, <1>9

-----------------------------------------------------------------------------
(* Every step keeps Core, and a settled wake settled.                      *)

\* A message goes into a row that is open or not yet there.
LEMMA IntoOpen ==
    ASSUME NEW e \in Event, Into(SubOf(e), e)
    PROVE  state[e] \in {"unborn", "open"}
  <1>1. e = <<e[1], e[2]>> /\ e[2] \in 1..MaxGen /\ SubOf(e) = e[1]
    BY DEF Event, SubOf
  <1>2. CASE e[2] \in Next1(SubOf(e))
    <2>1. state[<<e[1], e[2]>>] = "unborn" <=> e[2] >= e[2]
      BY <1>1, <1>2 DEF Next1
    <2>2. e[2] >= e[2]
      BY <1>1, CountAssumption
    <2>3. state[<<e[1], e[2]>>] = state[e]
      BY <1>1
    <2> QED BY <2>1, <2>2, <2>3
  <1>3. CASE state[e] = "open"
    BY <1>3
  <1> QED BY <1>2, <1>3 DEF Into

\* A step that touches no claim: of users, of the surroundings, of the ledger.
Aside ==
    \/ \E b \in Binding : BindWake(b) \/ SetWakeState(b) \/ RevokeBinding(b)
    \/ \E s \in Sub : Subscribe(s) \/ Lapse(s) \/ Unsubscribe(s) \/ Grant(s)
    \/ NoteMessage
    \/ \E e \in Event, r \in Run : RedeemTicket(e, r)
    \/ \E k \in ledger : Age(k)
    \/ Rotate

LEMMA EndSettles ==
    ASSUME TypeOK, NEW ending, NEW over, End(ending, over)
    PROVE  RowsSettle /\ UNCHANGED <<attempts, first, kek, body>>
  <1>1. UNCHANGED <<attempts, first, kek, body>>
    BY DEF End
  <1>2. ASSUME NEW e \in Event
        PROVE  \/ state'[e] = state[e] /\ lease'[e] = lease[e]
               \/ state'[e] = "dead" /\ lease'[e] = 0
    BY DEF End
  <1> QED BY <1>1, <1>2 DEF RowsSettle

LEMMA AsideSettles ==
    ASSUME TypeOK, Aside
    PROVE  RowsSettle /\ UNCHANGED <<attempts, first, kek, body, posts, claims, pc, at>>
  <1>1. CASE NoteMessage
    <2>1. \A e \in Event : \/ state'[e] = state[e]
                           \/ Into(SubOf(e), e) /\ state'[e] = "open"
      BY <1>1 DEF NoteMessage
    <2>2. RowsSettle
      BY <1>1, <2>1, IntoOpen DEF RowsSettle, NoteMessage
    <2> QED BY <1>1, <2>2 DEF NoteMessage, work
  <1>2. ASSUME NEW b \in Binding, RevokeBinding(b)
        PROVE  RowsSettle /\ UNCHANGED <<attempts, first, kek, body, posts, claims, pc, at>>
    <2>1. \E ending : End(ending, {})
      BY <1>2 DEF RevokeBinding
    <2> QED BY <1>2, <2>1, EndSettles DEF RevokeBinding, work, around, history
  <1>3. ASSUME NEW s \in Sub, Unsubscribe(s)
        PROVE  RowsSettle /\ UNCHANGED <<attempts, first, kek, body, posts, claims, pc, at>>
    <2>1. End({s}, {})
      BY <1>3 DEF Unsubscribe
    <2> QED BY <1>3, <2>1, EndSettles DEF Unsubscribe, work, around, history
  <1>4. ASSUME \/ \E b \in Binding : BindWake(b) \/ SetWakeState(b)
               \/ \E s \in Sub : Subscribe(s) \/ Lapse(s) \/ Grant(s)
               \/ \E e \in Event, r \in Run : RedeemTicket(e, r)
               \/ \E k \in ledger : Age(k)
               \/ Rotate
        PROVE  RowsSettle /\ UNCHANGED <<attempts, first, kek, body, posts, claims, pc, at>>
    <2>1. UNCHANGED <<state, lease, attempts, first, kek, body, posts, claims, pc, at>>
      BY <1>4 DEF BindWake, SetWakeState, Subscribe, Lapse, Grant, RedeemTicket, Age, Rotate,
                  row, work, around, history
    <2> QED BY <2>1 DEF RowsSettle
  <1> QED BY <1>1, <1>2, <1>3, <1>4 DEF Aside

\* The steps of a worker that settle its row or none, and let go of the claim.
LEMMA WorkerSettles ==
    ASSUME TypeOK, NEW w \in Worker,
           \/ RevokeSubscription(w) \/ Release(w) \/ Crash(w) \/ DropUnboundClaim(w)
           \/ \E status : RecordAttempt(w, status)
           \/ (pc[w] \notin {"idle", "posted", "parked"} /\ ParkClaim(w) /\ ~Holds(at[w]))
           \/ (RecordTicketKek(w) /\ ~(Holds(at[w]) /\ kek[at[w].event] = 0))
    PROVE  /\ RowsSettle /\ LetsGo(w) /\ pc[w] # "idle"
           /\ pc[w] = "posted" => pc'[w] # "parked"
           /\ UNCHANGED <<attempts, first, kek, body, posts, claims>>
  <1> DEFINE Goal == /\ RowsSettle /\ LetsGo(w) /\ pc[w] # "idle"
                     /\ pc[w] = "posted" => pc'[w] # "parked"
                     /\ UNCHANGED <<attempts, first, kek, body, posts, claims>>
  <1>0. ASSUME Finish(w) PROVE pc'[w] = "idle"
    BY <1>0 DEF Finish, TypeOK
  <1>1. CASE RevokeSubscription(w)
    <2>1. End({SubOf(at[w].event)}, {}) /\ Finish(w) /\ pc[w] # "idle"
          /\ UNCHANGED <<posts, claims>>
      BY <1>1 DEF RevokeSubscription, around, history
    <2> QED BY <1>0, <2>1, EndSettles, LettingGo
  <1>2. CASE Release(w) \/ Crash(w)
    <2>1. Finish(w) /\ pc[w] # "idle" /\ UNCHANGED <<row, claims, posts>>
      BY <1>2 DEF Release, Crash, around, history
    <2> QED BY <1>0, <2>1, LettingGo DEF RowsSettle, row
  <1>3. CASE DropUnboundClaim(w)
    <2>1. /\ pc[w] = "allowed" /\ (Finish(w) \/ Goto(w, "parked"))
          /\ UNCHANGED <<attempts, first, kek, body, posts, claims>>
      BY <1>3 DEF DropUnboundClaim, Parked, around, history
    <2>2. RowsSettle
      BY <1>3 DEF DropUnboundClaim, RowsSettle, TypeOK
    <2> QED BY <2>1, <2>2, LettingGo
  <1>4. ASSUME NEW status, RecordAttempt(w, status) PROVE Goal
    <2>1. Finish(w) /\ pc[w] # "idle" /\ UNCHANGED <<claims, posts>>
      BY <1>4 DEF RecordAttempt, around, history
    <2>2. RowsSettle /\ UNCHANGED <<attempts, first, kek, body>>
      <3>1. CASE ~Holds(at[w])
        BY <1>4, <3>1 DEF RecordAttempt, RowsSettle, row
      <3>2. CASE Holds(at[w]) /\ status = "gone"
        <4>1. End({SubOf(at[w].event)}, {at[w].event})
          BY <1>4, <3>2 DEF RecordAttempt
        <4> QED BY <4>1, EndSettles
      <3>3. CASE Holds(at[w]) /\ status # "gone"
        <4>1. /\ \E s \in {"retry", "delivered", "dead"} :
                    state' = [state EXCEPT ![at[w].event] = s]
              /\ lease' = [lease EXCEPT ![at[w].event] = 0]
              /\ UNCHANGED <<attempts, first, kek, body>>
          BY <1>4, <3>3 DEF RecordAttempt
        <4> QED BY <4>1 DEF RowsSettle, TypeOK
      <3> QED BY <3>1, <3>2, <3>3
    <2> QED BY <1>0, <2>1, <2>2, LettingGo
  <1>5. CASE pc[w] \notin {"idle", "posted", "parked"} /\ ParkClaim(w) /\ ~Holds(at[w])
    <2>1. /\ Finish(w)
          /\ UNCHANGED <<state, lease, attempts, first, kek, body, posts, claims>>
      BY <1>5 DEF ParkClaim, Parked, history
    <2> QED BY <1>0, <1>5, <2>1, LettingGo DEF RowsSettle
  <1>6. CASE RecordTicketKek(w) /\ ~(Holds(at[w]) /\ kek[at[w].event] = 0)
    <2>1. /\ Finish(w) /\ pc[w] # "idle"
          /\ UNCHANGED <<state, lease, attempts, first, kek, body, posts, claims>>
      BY <1>6 DEF RecordTicketKek, around, history
    <2> QED BY <1>0, <2>1, LettingGo DEF RowsSettle
  <1> QED BY <1>1, <1>2, <1>3, <1>4, <1>5, <1>6

\* The steps by which a worker goes on with its claim.
LEMMA WorkerGoesOn ==
    ASSUME TypeOK, NEW w \in Worker, Authorize(w) \/ KeepTicket(w) \/ Fence(w)
    PROVE  /\ WorkersGoOn /\ RowsSettle
           /\ \A v \in Worker : pc[v] = "parked" <=> pc'[v] = "parked"
           /\ \A v \in Worker : pc[v] = "posted" => pc'[v] # "parked"
           /\ UNCHANGED <<row, ledger, posts, claims, aged>>
  <1>1. PICK phase \in Phase \ {"idle", "parked"} : Goto(w, phase)
    BY DEF Authorize, KeepTicket, Fence, Phase
  <1>2. Live(w) /\ pc[w] # "posted"
    BY DEF Authorize, KeepTicket, Fence, Live
  <1>3. UNCHANGED <<row, ledger, posts, claims, aged>>
    BY DEF Authorize, KeepTicket, Fence, around, history
  <1>4. pc' = [pc EXCEPT ![w] = phase] /\ at' = at
    BY <1>1 DEF Goto
  <1> QED BY <1>2, <1>3, <1>4 DEF WorkersGoOn, RowsSettle, row, Live, TypeOK

LEMMA CoreStep == ASSUME TypeOK, TypeOK', Core, [Next]_vars PROVE Core'
  <1>1. CASE UNCHANGED vars
    BY <1>1 DEF vars, row, work, around, history, Core, Untouched, Drawn, Named, Counted,
                Frozen, Separate, Issued, Live
  <1>2. CASE Aside
    <2>1. RowsSettle /\ UNCHANGED <<attempts, first, kek, body, posts, claims, pc, at>>
      BY <1>2, AsideSettles
    <2>2. WorkersGoOn /\ \A w \in Worker : pc[w] = "posted" => pc'[w] # "parked"
      BY <2>1 DEF WorkersGoOn, Live
    <2> QED BY <2>1, <2>2, SettleStep
  <1>3. ASSUME NEW w \in Worker, ClaimDue(w) PROVE Core'
    <2>1. pc[w] = "idle"
      BY <1>3 DEF ClaimDue
    <2>2. PICK gone \in SUBSET {f \in Event : Buriable(f)} :
             \/ \E e \in Event : ClaimRow(w, e, gone)
             \/ Bury(gone)
             \/ \E e \in Event : LoseReservation(e)
      BY <1>3 DEF ClaimDue
    <2>3. CASE \E e \in Event : ClaimRow(w, e, gone)
      BY <2>1, <2>3, ClaimStep
    <2>4. CASE Bury(gone)
      <3>1. RowsSettle /\ UNCHANGED <<attempts, first, kek, body, posts, claims, pc, at>>
        BY <2>4 DEF Bury, RowsSettle, work, around, history
      <3>2. WorkersGoOn /\ \A v \in Worker : pc[v] = "posted" => pc'[v] # "parked"
        BY <3>1 DEF WorkersGoOn, Live
      <3> QED BY <3>1, <3>2, SettleStep
    <2>5. ASSUME NEW e \in Event, LoseReservation(e) PROVE Core'
      <3>1. UNCHANGED <<row, pc, at, posts>> /\ claims' = claims + 1
        BY <2>5 DEF LoseReservation, work, history
      <3>2. Issued' = Issued
        BY <3>1 DEF Issued, Live
      <3>3. Drawn'
        <4>1. claims \in Nat /\ \A v \in Worker : pc[v] # "idle" => at[v].token \in Nat
          BY HeldClaim DEF TypeOK
        <4>2. \A p \in posts : p.token \in Nat
          BY IssuedType DEF Issued
        <4> QED BY <3>1, <4>1, <4>2 DEF Core, Drawn, row, TypeOK
      <3> QED BY <3>1, <3>2, <3>3 DEF Core, Untouched, Named, Counted, Frozen, Separate, row
    <2> QED BY <2>2, <2>3, <2>4, <2>5
  <1>4. ASSUME NEW w \in Worker, Deliver(w) \/ Crash(w) PROVE Core'
    <2>1. CASE Authorize(w) \/ KeepTicket(w) \/ Fence(w)
      <3>1. UNCHANGED <<attempts, first, kek, body, posts, claims>>
        BY <2>1, WorkerGoesOn DEF row
      <3> QED BY <2>1, <3>1, WorkerGoesOn, SettleStep
    <2>2. CASE Post(w)
      BY <2>2, PostStep
    <2>3. CASE Outage(w) \/ Hold(w)
      <3>1. Live(w) /\ pc[w] \notin {"idle", "posted", "parked"} /\ ParkClaim(w)
        BY <2>3 DEF Outage, Hold, Live
      <3>2. CASE Holds(at[w])
        BY <3>1, <3>2, ParkStep
      <3>3. CASE ~Holds(at[w])
        <4>1. /\ RowsSettle /\ LetsGo(w)
              /\ UNCHANGED <<attempts, first, kek, body, posts, claims>>
          BY <3>1, <3>3, WorkerSettles
        <4> QED BY <3>1, <4>1, LetsGoOn, SettleStep DEF LetsGo
      <3> QED BY <3>2, <3>3
    <2>4. CASE RecordTicketKek(w) /\ Holds(at[w]) /\ kek[at[w].event] = 0
      BY <2>4, KekStep
    <2>5. CASE \/ RevokeSubscription(w) \/ Release(w) \/ Crash(w) \/ DropUnboundClaim(w)
               \/ \E status : RecordAttempt(w, status)
               \/ (RecordTicketKek(w) /\ ~(Holds(at[w]) /\ kek[at[w].event] = 0))
      <3>1. /\ RowsSettle /\ LetsGo(w) /\ pc[w] # "idle"
            /\ pc[w] = "posted" => pc'[w] # "parked"
            /\ UNCHANGED <<attempts, first, kek, body, posts, claims>>
        BY <2>5, WorkerSettles
      <3> QED BY <3>1, LetsGoOn, SettleStep DEF LetsGo
    <2> QED BY <1>4, <2>1, <2>2, <2>3, <2>4, <2>5 DEF Deliver
  <1> QED BY <1>1, <1>2, <1>3, <1>4 DEF Next, Aside

\* Rows only leave the queue.
SettledStays ==
    \A e \in Event : state[e] \in {"delivered", "dead"} => state'[e] = state[e]

LEMMA EndStays ==
    ASSUME TypeOK, NEW ending, NEW over \in SUBSET Event, End(ending, over),
           \A e \in over : Queued(e)
    PROVE  SettledStays
  BY DEF End, SettledStays, Queued

LEMMA SettledStep == ASSUME TypeOK, [Next]_vars PROVE SettledStays
  <1>1. CASE UNCHANGED vars
    BY <1>1 DEF vars, row, SettledStays
  <1>2. CASE Aside
    <2>1. CASE NoteMessage
      <3>1. \A e \in Event : state'[e] = state[e] \/ Into(SubOf(e), e)
        BY <2>1 DEF NoteMessage
      <3> QED BY <3>1, IntoOpen DEF SettledStays
    <2>2. ASSUME NEW b \in Binding, RevokeBinding(b) PROVE SettledStays
      <3>1. \E ending : End(ending, {})
        BY <2>2 DEF RevokeBinding
      <3> QED BY <3>1, EndStays
    <2>3. ASSUME NEW s \in Sub, Unsubscribe(s) PROVE SettledStays
      <3>1. \E ending : End(ending, {})
        BY <2>3 DEF Unsubscribe
      <3> QED BY <3>1, EndStays
    <2>4. CASE \/ \E b \in Binding : BindWake(b) \/ SetWakeState(b)
               \/ \E s \in Sub : Subscribe(s) \/ Lapse(s) \/ Grant(s)
               \/ \E e \in Event, r \in Run : RedeemTicket(e, r)
               \/ \E k \in ledger : Age(k)
               \/ Rotate
      <3>1. state' = state
        BY <2>4 DEF BindWake, SetWakeState, Subscribe, Lapse, Grant, RedeemTicket, Age,
                    Rotate, row
      <3> QED BY <3>1 DEF SettledStays
    <2> QED BY <1>2, <2>1, <2>2, <2>3, <2>4 DEF Aside
  <1>3. ASSUME NEW w \in Worker, ClaimDue(w) PROVE SettledStays
    <2>1. PICK gone \in SUBSET {f \in Event : Buriable(f)} :
             \/ \E e \in Event : ClaimRow(w, e, gone)
             \/ Bury(gone)
             \/ \E e \in Event : LoseReservation(e)
      BY <1>3 DEF ClaimDue
    <2>2. \A f \in gone : Queued(f)
      BY DEF Buriable
    <2>3. ASSUME NEW e \in Event, ClaimRow(w, e, gone) PROVE SettledStays
      <3>1. Queued(e) /\ state' = [f \in Event |-> IF f = e THEN "claimed"
                                     ELSE IF f \in gone THEN "dead" ELSE state[f]]
        BY <2>3 DEF ClaimRow, Claimable
      <3> QED BY <2>2, <3>1 DEF SettledStays, Queued
    <2>4. CASE Bury(gone)
      BY <2>2, <2>4 DEF Bury, SettledStays, Queued
    <2>5. ASSUME NEW e \in Event, LoseReservation(e) PROVE SettledStays
      BY <2>5 DEF LoseReservation, SettledStays, row
    <2> QED BY <2>1, <2>3, <2>4, <2>5
  <1>4. ASSUME NEW w \in Worker, Deliver(w) \/ Crash(w) PROVE SettledStays
    <2>1. CASE Outage(w) \/ Hold(w)
      <3>1. ParkClaim(w)
        BY <2>1 DEF Outage, Hold
      <3> QED BY <3>1 DEF ParkClaim, Holds, SettledStays, TypeOK
    <2>2. CASE DropUnboundClaim(w)
      BY <2>2 DEF DropUnboundClaim, Holds, SettledStays, TypeOK
    <2>3. ASSUME NEW status, RecordAttempt(w, status) PROVE SettledStays
      <3>1. CASE ~Holds(at[w])
        BY <2>3, <3>1 DEF RecordAttempt, SettledStays, row
      <3>2. CASE Holds(at[w]) /\ status = "gone"
        <4>1. End({SubOf(at[w].event)}, {at[w].event}) /\ pc[w] # "idle"
          BY <2>3, <3>2 DEF RecordAttempt
        <4>2. at[w].event \in Event /\ Queued(at[w].event)
          BY <3>2, <4>1, HeldClaim DEF Holds, Queued
        <4> QED BY <4>1, <4>2, EndStays
      <3>3. CASE Holds(at[w]) /\ status # "gone"
        BY <2>3, <3>3 DEF RecordAttempt, Holds, SettledStays, TypeOK
      <3> QED BY <3>1, <3>2, <3>3
    <2>4. CASE RevokeSubscription(w)
      <3>1. \E ending : End(ending, {})
        BY <2>4 DEF RevokeSubscription
      <3> QED BY <3>1, EndStays
    <2>5. CASE \/ Authorize(w) \/ Release(w) \/ RecordTicketKek(w) \/ KeepTicket(w)
               \/ Fence(w) \/ Post(w) \/ Crash(w)
      <3>1. state' = state
        BY <2>5 DEF Authorize, Release, RecordTicketKek, KeepTicket, Fence, Post, Crash, row
      <3> QED BY <3>1 DEF SettledStays
    <2> QED BY <1>4, <2>1, <2>2, <2>3, <2>4, <2>5 DEF Deliver
  <1> QED BY <1>1, <1>2, <1>3, <1>4 DEF Next, Aside

-----------------------------------------------------------------------------
(* Slots.                                                                  *)

\* A step that forgets no first claim, issues nothing, and loses no slot but
\* those that age or that a parked worker gives back.
LEMMA PaidStep ==
    ASSUME Paid, Returned, SettledStays,
           \A c \in Issued' : \E d \in Issued : c.event = d.event,
           \A e \in Event : first'[e] \in {0, first[e]},
           \A t \in aged : t \in aged',
           \A k \in ledger : \/ k \in ledger' \/ k.token \in aged'
                             \/ \E w \in Worker : pc[w] = "parked" /\ k.token = at[w].token
    PROVE  Paid'
  <1> SUFFICES ASSUME NEW e \in Event, first'[e] # 0,
                      state'[e] # "dead" \/ \E c \in Issued' : c.event = e
               PROVE  first'[e] \in aged' \/ [token |-> first'[e], event |-> e] \in ledger'
    BY DEF Paid, SlotOf
  <1>1. first'[e] = first[e] /\ (state[e] # "dead" \/ \E c \in Issued : c.event = e)
    BY DEF SettledStays
  <1>2. first[e] \in aged \/ SlotOf(e) \in ledger
    BY <1>1 DEF Paid
  <1>3. ASSUME NEW w \in Worker, pc[w] = "parked", first[e] = at[w].token PROVE FALSE
    BY <1>1, <1>3 DEF Returned
  <1> QED BY <1>1, <1>2, <1>3 DEF SlotOf

LEMMA ReturnedStep ==
    ASSUME Returned, SettledStays,
           \A c \in Issued' : \E d \in Issued : c.event = d.event,
           \A e \in Event : first'[e] = first[e],
           \A w \in Worker : pc'[w] = "parked" => pc[w] = "parked" /\ at'[w] = at[w]
    PROVE  Returned'
  BY DEF Returned, SettledStays

LEMMA CappedStep ==
    ASSUME Capped, ledger' \subseteq ledger PROVE Capped'
  <1>1. /\ IsFiniteSet(ledger') /\ Cardinality(ledger') <= Cardinality(ledger)
        /\ Cardinality(ledger) \in Nat /\ Cardinality(ledger') \in Nat
    BY FS_Subset, FS_CardinalityType DEF Capped
  <1> QED BY <1>1, CountAssumption DEF Capped

LEMMA ReserveStep ==
    ASSUME TypeOK, Capped, NEW e \in Event, NEW token, ledger' = ledger \cup Reserved(e, token),
           first[e] = 0 => HasSlot
    PROVE  Capped' /\ ledger \subseteq ledger'
  <1>1. CASE first[e] = 0
    <2> DEFINE k == [token |-> token, event |-> e]
    <2>1. ledger' = ledger \cup {k} /\ Cardinality(ledger) < Cap
      BY <1>1 DEF Reserved, HasSlot
    <2>2. /\ IsFiniteSet(ledger \cup {k})
          /\ Cardinality(ledger \cup {k}) =
                IF k \in ledger THEN Cardinality(ledger) ELSE Cardinality(ledger) + 1
      BY FS_AddElement DEF Capped
    <2>3. Cardinality(ledger) \in Nat
      BY FS_CardinalityType DEF Capped
    <2> QED BY <2>1, <2>2, <2>3, CountAssumption DEF Capped
  <1>2. CASE first[e] # 0
    BY <1>2 DEF Reserved, Capped
  <1> QED BY <1>1, <1>2

Slots == Paid /\ Returned /\ Capped

\* A park forgets the first claim only of a wake nobody else may send.
LEMMA ParkSlots ==
    ASSUME TypeOK, Core, Slots, SettledStays, NEW w \in Worker,
           pc[w] \notin {"idle", "posted", "parked"}, ParkClaim(w)
    PROVE  Slots'
  <1> USE DEF Slots
  <1> DEFINE h == at[w]  e == at[w].event
  <1>1. LetsGo(w) /\ posts' = posts /\ ledger' = ledger /\ aged' = aged
    BY LettingGo DEF ParkClaim, Parked, history
  <1>2. Issued' \subseteq Issued /\ \A c \in Issued' : c.token # h.token
    BY <1>1, NotIssued
  <1>3. h \in Issued /\ e \in Event /\ Live(w)
    BY HeldClaim DEF Issued, Live
  <1>4. \A f \in Event : first'[f] \in {0, first[f]}
    BY DEF ParkClaim, TypeOK
  <1>5. Paid' /\ Capped'
    BY <1>1, <1>2, <1>4, PaidStep, CappedStep
  <1>6. Returned'
    <2> SUFFICES ASSUME NEW v \in Worker, NEW f \in Event, pc'[v] = "parked",
                        first'[f] = at'[v].token
                 PROVE  state'[f] = "dead" /\ \A c \in Issued' : c.event # f
      BY DEF Returned
    <2>1. CASE v # w
      <3>1. pc[v] = "parked" /\ at'[v] = at[v] /\ at[v].token # 0
        BY <1>1, <2>1, HeldClaim DEF LetsGo
      <3>2. first[f] = at[v].token
        BY <1>4, <3>1
      <3> QED BY <1>2, <3>1, <3>2 DEF Returned, SettledStays
    <2>2. CASE v = w
      <3>1. Holds(h) /\ h.attempts = 1 /\ at'[w] = h /\ h.token # 0
        BY <1>1, <2>2, HeldClaim DEF ParkClaim, Parked, Finish, LetsGo, TypeOK
      <3>2. attempts[e] = 1
        BY <1>3, <3>1 DEF Holds, Core, Counted
      <3>3. first'[e] = 0
        BY <1>3, <3>1, <3>2 DEF ParkClaim, TypeOK
      <3>4. first[f] = h.token
        BY <1>4, <2>2, <3>1
      <3>5. f = e
        BY <3>4 DEF Core, Named
      <3> QED BY <2>2, <3>1, <3>3, <3>5
    <2> QED BY <2>1, <2>2
  <1> QED BY <1>5, <1>6

LEMMA DropSlots ==
    ASSUME TypeOK, Core, Slots, SettledStays, NEW w \in Worker, DropUnboundClaim(w)
    PROVE  Slots'
  <1> USE DEF Slots
  <1> DEFINE h == at[w]  e == at[w].event
  <1>1. /\ LetsGo(w) /\ UNCHANGED <<posts, ledger, aged, first>> /\ pc[w] = "allowed"
    BY LettingGo DEF DropUnboundClaim, Parked, history
  <1>2. Issued' \subseteq Issued /\ \A c \in Issued' : c.token # h.token
    BY <1>1, NotIssued
  <1>3. h \in Issued /\ e \in Event /\ Live(w)
    BY <1>1, HeldClaim DEF Issued, Live
  <1>4. Paid' /\ Capped'
    BY <1>1, <1>2, PaidStep, CappedStep
  <1>5. Returned'
    <2> SUFFICES ASSUME NEW v \in Worker, NEW f \in Event, pc'[v] = "parked",
                        first[f] = at'[v].token
                 PROVE  state'[f] = "dead" /\ \A c \in Issued' : c.event # f
      BY <1>1 DEF Returned
    <2>1. CASE v # w
      BY <1>1, <1>2, <2>1 DEF LetsGo, Returned, SettledStays
    <2>2. CASE v = w
      <3>1. Holds(h) /\ h.attempts = 1 /\ at'[w] = h
        BY <1>1, <2>2 DEF DropUnboundClaim, Parked, Finish, LetsGo, TypeOK
      <3>2. attempts[e] = 1
        BY <1>3, <3>1 DEF Holds, Core, Counted
      <3>3. f = e
        BY <1>1, <2>2, <3>1 DEF Core, Named
      <3>4. state'[e] = "dead"
        BY <1>3, <3>1 DEF DropUnboundClaim, TypeOK
      <3>5. \A c \in Issued' : c.event # e
        BY <1>2, <1>3, <3>1, <3>2, HolderIsAlone
      <3> QED BY <3>3, <3>4, <3>5
    <2> QED BY <2>1, <2>2
  <1> QED BY <1>4, <1>5

LEMMA ClaimSlots ==
    ASSUME TypeOK, Core, Slots, SettledStays, NEW w \in Worker, pc[w] = "idle", NEW e \in Event,
           NEW gone \in SUBSET {f \in Event : Buriable(f)}, ClaimRow(w, e, gone)
    PROVE  Slots'
  <1> USE DEF Slots
  <1> DEFINE n == at'[w]  t == claims'
  <1>1. /\ ledger' = ledger \cup Reserved(e, t) /\ (first[e] = 0 => HasSlot)
        /\ claims \in Nat /\ claims' = claims + 1 /\ state[e] # "dead"
    BY DEF ClaimRow, Claimable, Queued, TypeOK
  <1>2. Capped' /\ ledger \subseteq ledger'
    <2> HIDE DEF t
    <2> QED BY <1>1, ReserveStep
  <1> USE ClaimEffect
  <1>3. Paid'
    <2> SUFFICES ASSUME NEW f \in Event, first'[f] # 0,
                        state'[f] # "dead" \/ \E c \in Issued' : c.event = f
                 PROVE  first'[f] \in aged \/ [token |-> first'[f], event |-> f] \in ledger'
      BY DEF Paid, SlotOf
    <2>1. CASE f = e /\ first[e] = 0
      <3>1. first'[e] = claims'
        BY <2>1 DEF TypeOK
      <3> QED BY <1>1, <2>1, <3>1 DEF Reserved
    <2>2. CASE ~(f = e /\ first[e] = 0)
      <3>1. first'[f] = first[f]
        BY <2>2 DEF TypeOK
      <3>2. state[f] # "dead" \/ \E c \in Issued : c.event = f
        BY <1>1 DEF SettledStays
      <3> QED BY <1>2, <3>1, <3>2 DEF Paid, SlotOf
    <2> QED BY <2>1, <2>2
  <1>4. Returned'
    <2> SUFFICES ASSUME NEW v \in Worker, NEW f \in Event, pc'[v] = "parked",
                        first'[f] = at'[v].token
                 PROVE  state'[f] = "dead" /\ \A c \in Issued' : c.event # f
      BY DEF Returned
    <2>1. v # w /\ pc[v] = "parked" /\ at'[v] = at[v]
      BY DEF TypeOK
    <2>2. at[v].token \in Nat /\ at[v].token <= claims
      BY <2>1, HeldClaim DEF Core, Drawn
    <2>3. first'[f] = first[f]
      BY <1>1, <2>1, <2>2 DEF TypeOK
    <2>4. state[f] = "dead" /\ \A c \in Issued : c.event # f
      BY <2>1, <2>3 DEF Returned
    <2>5. f # e
      BY <1>1, <2>4
    <2> QED BY <2>4, <2>5 DEF SettledStays
  <1> QED BY <1>2, <1>3, <1>4

\* A step that leaves the slots alone, issues nothing and parks nobody.
LEMMA LeaveSlots ==
    ASSUME Slots, SettledStays, UNCHANGED <<first, ledger, aged>>,
           \A c \in Issued' : \E d \in Issued : c.event = d.event,
           \A w \in Worker : pc'[w] = "parked" => pc[w] = "parked" /\ at'[w] = at[w]
    PROVE  Slots'
  BY PaidStep, ReturnedStep, CappedStep DEF Slots

LEMMA AsideSlots == ASSUME TypeOK, Slots, SettledStays, Aside PROVE Slots'
  <1>1. UNCHANGED <<first, posts, pc, at>> /\ Issued' = Issued
    BY AsideSettles DEF Issued, Live
  <1>2. \/ ledger' = ledger /\ aged' = aged
        \/ \E k \in ledger : ledger' = ledger \ {k} /\ aged' = aged \cup {k.token}
    BY DEF Aside, BindWake, SetWakeState, RevokeBinding, Subscribe, Lapse, Unsubscribe,
           Grant, NoteMessage, RedeemTicket, Age, Rotate, history
  <1>3. Paid' /\ Returned' /\ Capped'
    BY <1>1, <1>2, PaidStep, ReturnedStep, CappedStep DEF Slots
  <1> QED BY <1>3 DEF Slots

LEMMA ClaimDueSlots ==
    ASSUME TypeOK, Core, Slots, SettledStays, NEW w \in Worker, ClaimDue(w)
    PROVE  Slots'
  <1>1. PICK gone \in SUBSET {f \in Event : Buriable(f)} :
           \/ \E e \in Event : ClaimRow(w, e, gone)
           \/ Bury(gone)
           \/ \E e \in Event : LoseReservation(e)
    BY DEF ClaimDue
  <1>2. ASSUME NEW e \in Event, ClaimRow(w, e, gone) PROVE Slots'
    BY <1>2, ClaimSlots DEF ClaimDue
  <1>3. CASE Bury(gone)
    <2>1. UNCHANGED <<first, ledger, aged, posts, pc, at>>
      BY <1>3 DEF Bury, work, history
    <2> QED BY <2>1, LeaveSlots DEF Issued, Live
  <1>4. ASSUME NEW e \in Event, LoseReservation(e) PROVE Slots'
    <2> DEFINE t == claims'
    <2>1. /\ ledger' = ledger \cup Reserved(e, t) /\ HasSlot
          /\ UNCHANGED <<first, aged, posts, pc, at>>
      BY <1>4 DEF LoseReservation, row, work, history
    <2>2. Capped' /\ ledger \subseteq ledger'
      <3> HIDE DEF t
      <3> QED BY <2>1, ReserveStep DEF Slots
    <2>3. Issued' = Issued
      BY <2>1 DEF Issued, Live
    <2>4. Paid' /\ Returned'
      BY <2>1, <2>2, <2>3, PaidStep, ReturnedStep DEF Slots
    <2> QED BY <2>2, <2>4 DEF Slots
  <1> QED BY <1>1, <1>2, <1>3, <1>4

\* A worker that lets go and does not park.
LEMMA LetsGoSlots ==
    ASSUME TypeOK, Slots, SettledStays, NEW w \in Worker, pc[w] # "idle", Finish(w),
           UNCHANGED <<first, ledger, aged, posts>>
    PROVE  Slots'
  <1>1. Issued' \subseteq Issued
    BY LettingGo, LetsGoOn, IssuedShrinks
  <1>2. \A v \in Worker : pc'[v] = "parked" => pc[v] = "parked" /\ at'[v] = at[v]
    BY DEF Finish, TypeOK
  <1> QED BY <1>1, <1>2, LeaveSlots

LEMMA DeliverSlots ==
    ASSUME TypeOK, TypeOK', Core, Slots, SettledStays, NEW w \in Worker, Deliver(w) \/ Crash(w)
    PROVE  Slots'
  <1>1. CASE Authorize(w) \/ KeepTicket(w) \/ Fence(w)
    <2>1. /\ WorkersGoOn /\ UNCHANGED <<row, ledger, posts, aged>>
          /\ \A v \in Worker : pc[v] = "parked" <=> pc'[v] = "parked"
      BY <1>1, WorkerGoesOn
    <2>2. Issued' \subseteq Issued /\ first' = first
      BY <2>1, IssuedShrinks DEF row
    <2>3. \A v \in Worker : pc'[v] = "parked" => at'[v] = at[v]
      BY <2>1 DEF WorkersGoOn
    <2> QED BY <2>1, <2>2, <2>3, LeaveSlots
  <1>2. CASE Outage(w) \/ Hold(w)
    BY <1>2, ParkSlots DEF Outage, Hold
  <1>3. CASE DropUnboundClaim(w)
    BY <1>3, DropSlots
  <1>4. CASE RevokeSubscription(w) \/ Crash(w) \/ \E status : RecordAttempt(w, status)
    <2>1. pc[w] # "idle" /\ Finish(w) /\ UNCHANGED <<ledger, posts, aged>>
      BY <1>4 DEF RevokeSubscription, Crash, RecordAttempt, history
    <2>2. first' = first
      <3>1. CASE RevokeSubscription(w) \/ Crash(w)
        BY <3>1 DEF RevokeSubscription, End, Crash, row
      <3>2. ASSUME NEW status, RecordAttempt(w, status) PROVE first' = first
        BY <3>2, WorkerSettles
      <3> QED BY <1>4, <3>1, <3>2
    <2> QED BY <2>1, <2>2, LetsGoSlots
  <1>5. CASE Release(w)
    <2>1. /\ pc[w] = "parked" /\ ledger' = {k \in ledger : k.token # at[w].token}
          /\ Finish(w) /\ UNCHANGED <<first, posts, aged>>
      BY <1>5 DEF Release, row, history
    <2>2. Issued' \subseteq Issued
      BY <2>1, LettingGo, LetsGoOn, IssuedShrinks
    <2>3. \A v \in Worker : pc'[v] = "parked" => pc[v] = "parked" /\ at'[v] = at[v]
      BY <2>1 DEF Finish, TypeOK
    <2>4. Paid'
      BY <2>1, <2>2, PaidStep DEF Slots
    <2> QED BY <2>1, <2>2, <2>3, <2>4, ReturnedStep, CappedStep DEF Slots
  <1>6. CASE RecordTicketKek(w)
    <2>1. UNCHANGED <<first, ledger, posts, aged>> /\ pc[w] = "allowed"
      BY <1>6 DEF RecordTicketKek, history
    <2>2. CASE Holds(at[w]) /\ kek[at[w].event] = 0
      <3>1. \A c \in Issued' : \E d \in Issued : c.event = d.event
        BY <1>6, <2>2, KekStep
      <3>2. \A v \in Worker : pc'[v] = "parked" => pc[v] = "parked" /\ at'[v] = at[v]
        BY <1>6, <2>2 DEF RecordTicketKek, TypeOK
      <3> QED BY <2>1, <3>1, <3>2, LeaveSlots
    <2>3. CASE ~(Holds(at[w]) /\ kek[at[w].event] = 0)
      <3>1. Finish(w)
        BY <1>6, <2>3 DEF RecordTicketKek
      <3> QED BY <2>1, <3>1, LetsGoSlots
    <2> QED BY <2>2, <2>3
  <1>7. CASE Post(w)
    <2>1. /\ pc[w] = "clear" /\ pc' = [pc EXCEPT ![w] = "posted"] /\ at' = at
          /\ posts' = posts \cup {at[w]} /\ UNCHANGED <<first, ledger, aged>>
      BY <1>7 DEF Post, Goto, row
    <2>2. Issued' = Issued
      BY <2>1 DEF Issued, Live, TypeOK
    <2>3. \A v \in Worker : pc'[v] = "parked" => pc[v] = "parked" /\ at'[v] = at[v]
      BY <2>1 DEF TypeOK
    <2> QED BY <2>1, <2>2, <2>3, LeaveSlots
  <1> QED BY <1>1, <1>2, <1>3, <1>4, <1>5, <1>6, <1>7 DEF Deliver

LEMMA SlotsStep == ASSUME TypeOK, TypeOK', Core, Slots, [Next]_vars PROVE Slots'
  <1>0. SettledStays
    BY SettledStep
  <1>1. CASE UNCHANGED vars
    BY <1>1 DEF vars, row, work, history, Slots, Paid, SlotOf, Returned, Capped, Issued, Live
  <1>2. CASE Aside
    BY <1>0, <1>2, AsideSlots
  <1>3. ASSUME NEW w \in Worker, ClaimDue(w) \/ Deliver(w) \/ Crash(w) PROVE Slots'
    BY <1>0, <1>3, ClaimDueSlots, DeliverSlots
  <1> QED BY <1>1, <1>2, <1>3 DEF Next, Aside

\* The invariant is inductive.
THEOREM Inductive == Spec => []IInv
  <1>1. Init => IInv
    BY TypeInit, CoreInit DEF IInv
  <1>2. IInv /\ [Next]_vars => IInv'
    BY TypeStep, CoreStep, SlotsStep DEF IInv, Slots
  <1> QED BY <1>1, <1>2, PTL DEF Spec

-----------------------------------------------------------------------------
(* What follows.                                                           *)

\* Signed bytes: a wake is always posted with the same body and ticket.
THEOREM SameBytesHolds == Spec => []SameBytes
  <1>1. IInv => SameBytes
    BY DEF IInv, Core, Frozen, Issued, SameBytes
  <1> QED BY <1>1, Inductive, PTL

\* A ticket that was posted stays redeemable while its wake and its
\* subscription last and it has not expired.
THEOREM TicketHonouredHolds == Spec => []TicketHonoured
  <1>1. ASSUME IInv, NEW p \in posts, p.ticket # 0, state[p.event] # "dead",
               Bound(BindingAt(p.event)), sub[SubOf(p.event)] = "active"
        PROVE  Redeemable(p.event, p.ticket)
    <2> DEFINE e == p.event
    <2>1. p \in Issued /\ TypeOK /\ Core
      BY <1>1 DEF Issued, IInv
    <2>2. e \in Event /\ p.attempts \in Nat \ {0} /\ attempts[e] \in Nat
          /\ state[e] \in EventState
      BY <2>1, IssuedType DEF TypeOK
    <2>3. /\ state[e] \notin {"unborn", "open"} /\ first[e] # 0 /\ p.attempts <= attempts[e]
          /\ p.ticket = kek[e]
      BY <2>1 DEF Core, Counted, Frozen
    <2>4. state[e] \in {"claimed", "retry", "delivered"}
      BY <1>1, <2>2, <2>3 DEF EventState
    <2> QED BY <1>1, <2>2, <2>3, <2>4 DEF Redeemable
  <1>2. IInv => TicketHonoured
    BY <1>1 DEF TicketHonoured
  <1> QED BY <1>2, Inductive, PTL

\* A wake is posted at most MAX_ATTEMPTS times: its posts differ in attempts.
THEOREM BoundedPostsHolds == Spec => []BoundedPosts
  <1>1. ASSUME IInv, NEW e \in Event
        PROVE  Cardinality({p \in posts : p.event = e}) <= MaxAttempts
    <2> DEFINE P == {p \in posts : p.event = e}
               f == [p \in P |-> p.attempts]
    <2>1. \A p \in P : p \in Issued /\ p.attempts \in 1..MaxAttempts
      <3> SUFFICES ASSUME NEW p \in P PROVE p \in Issued /\ p.attempts \in 1..MaxAttempts
        OBVIOUS
      <3>1. p \in Issued /\ TypeOK /\ Core
        BY <1>1 DEF Issued, IInv
      <3>2. p.attempts \in Nat \ {0} /\ p.attempts <= MaxAttempts
        BY <3>1, IssuedType DEF Core, Counted
      <3> QED BY <3>1, <3>2, CountAssumption
    <2>2. \A p, q \in P : p.attempts = q.attempts => p = q
      BY <1>1, <2>1 DEF IInv, Core, Separate
    <2>3. f \in Injection(P, 1..MaxAttempts)
      BY <2>1, <2>2 DEF Injection, IsInjective
    <2>4. IsFiniteSet(1..MaxAttempts) /\ Cardinality(1..MaxAttempts) = MaxAttempts
      BY CountAssumption, FS_Interval
    <2> QED BY <2>3, <2>4, FS_Injection
  <1>2. IInv => BoundedPosts
    BY <1>1 DEF BoundedPosts
  <1> QED BY <1>2, Inductive, PTL

\* The budget: the posted wakes whose first claim lies in the window have a
\* slot each.
THEOREM WithinBudgetHolds == Spec => []WithinBudget
  <1>1. ASSUME IInv PROVE WithinBudget
    <2> DEFINE E == {e \in Event : /\ \E p \in posts : p.event = e
                                   /\ first[e] \notin aged}
               f == [e \in E |-> SlotOf(e)]
    <2>1. \A e \in E : SlotOf(e) \in ledger
      <3> SUFFICES ASSUME NEW e \in E PROVE SlotOf(e) \in ledger
        OBVIOUS
      <3>1. PICK p \in posts : p.event = e
        OBVIOUS
      <3>2. p \in Issued
        BY DEF Issued
      <3>3. first[e] # 0
        BY <1>1, <3>1, <3>2 DEF IInv, Core, Counted
      <3> QED BY <1>1, <3>1, <3>2, <3>3 DEF IInv, Paid
    <2>2. \A d, e \in E : SlotOf(d) = SlotOf(e) => d = e
      BY DEF SlotOf
    <2>3. f \in Injection(E, ledger)
      BY <2>1, <2>2 DEF Injection, IsInjective
    <2>4. IsFiniteSet(ledger) /\ Cardinality(ledger) <= Cap
      BY <1>1 DEF IInv, Capped
    <2>5. /\ Cardinality(E) <= Cardinality(ledger)
          /\ Cardinality(E) \in Nat /\ Cardinality(ledger) \in Nat
      BY <2>3, <2>4, FS_Injection, FS_CardinalityType
    <2>6. Cardinality(E) <= Cap
      <3> HIDE DEF E
      <3> QED BY <2>4, <2>5, CountAssumption
    <2> QED BY <2>6 DEF WithinBudget
  <1>2. IInv => WithinBudget
    BY <1>1
  <1> QED BY <1>2, Inductive, PTL

\* A settled wake stays settled.
THEOREM FinalIsFinalHolds == Spec => FinalIsFinal
  <1>1. TypeOK /\ [Next]_vars =>
           [\A e \in Event : state[e] \in {"delivered", "dead"} => state'[e] = state[e]]_vars
    BY SettledStep DEF SettledStays
  <1> QED BY <1>1, TypeCorrect, PTL DEF Spec, FinalIsFinal

-----------------------------------------------------------------------------
(* No message is overlooked.                                               *)

\* A row that was not claimed yet has no bytes.
Unserialized == \A e \in Event : state[e] \in {"unborn", "open"} => body[e] = 0

\* What a step other than a message does to a row: it keeps its state, dies, goes
\* on with the bytes it has, or is claimed for the first time and serialized.
RowKeeps(e) ==
    \/ state'[e] = state[e] /\ body'[e] = body[e]
    \/ state[e] # "unborn" /\ state'[e] = "dead" /\ body'[e] = body[e]
    \/ /\ state[e] \in {"claimed", "retry"} /\ body'[e] = body[e]
       /\ state'[e] \in {"claimed", "retry", "delivered", "dead"}
    \/ state[e] = "open" /\ state'[e] = "claimed" /\ body'[e] = newest[e]

Keeps == (\A e \in Event : RowKeeps(e)) /\ UNCHANGED <<newest, noted>>

Overlook == NotOverlooked /\ Unserialized

\* A row that keeps what it carried carries it on.
LEMMA KeepsOn == ASSUME TypeOK, TypeOK', Overlook, Keeps PROVE Overlook'
  <1>1. Unserialized'
    BY DEF Overlook, Unserialized, Keeps, RowKeeps
  <1>2. NotOverlooked'
    <2> SUFFICES ASSUME NEW s \in Sub, noted[s] # 0
                 PROVE  \E e \in Event : /\ SubOf(e) = s
                           /\ \/ state'[e] \in {"open", "dead"} /\ newest[e] >= noted[s]
                              \/ body'[e] >= noted[s]
      BY DEF NotOverlooked, Keeps
    <2>1. PICK e \in Event : /\ SubOf(e) = s
                             /\ \/ state[e] \in {"open", "dead"} /\ newest[e] >= noted[s]
                                \/ body[e] >= noted[s]
      BY DEF Overlook, NotOverlooked
    <2>2. noted[s] \in Nat /\ newest[e] \in Nat /\ body[e] \in Nat /\ body'[e] \in Nat
      BY DEF TypeOK
    <2>3. CASE body[e] >= noted[s]
      <3>1. state[e] # "open"
        BY <2>2, <2>3 DEF Overlook, Unserialized
      <3>2. body'[e] = body[e]
        BY <3>1 DEF Keeps, RowKeeps
      <3> QED BY <2>1, <2>3, <3>2
    <2>4. CASE state[e] \in {"open", "dead"} /\ newest[e] >= noted[s]
      <3>1. state'[e] \in {"open", "dead"} \/ body'[e] = newest[e]
        BY <2>4 DEF Keeps, RowKeeps
      <3> QED BY <2>1, <2>4, <3>1
    <2> QED BY <2>1, <2>3, <2>4
  <1> QED BY <1>1, <1>2 DEF Overlook

\* A message is noted in an open row of each subscription it is for.
LEMMA NotedStep == ASSUME TypeOK, TypeOK', Overlook, NoteMessage PROVE Overlook'
  <1> DEFINE rows == {e \in Event : SubOf(e) \in Nudged /\ Into(SubOf(e), e)}
  <1>1. /\ state' = [e \in Event |-> IF e \in rows THEN "open" ELSE state[e]]
        /\ newest' = [e \in Event |-> IF e \in rows THEN messages' ELSE newest[e]]
        /\ noted' = [s \in Sub |-> IF s \in Nudged THEN messages' ELSE noted[s]]
        /\ \A s \in Nudged : \E e \in Event : Into(s, e)
        /\ body' = body
    BY DEF NoteMessage
  <1>2. \A e \in rows : state[e] \in {"unborn", "open"}
    BY IntoOpen
  <1>3. Unserialized'
    BY <1>1, <1>2 DEF Overlook, Unserialized
  <1>4. NotOverlooked'
    <2> SUFFICES ASSUME NEW s \in Sub, noted'[s] # 0
                 PROVE  \E e \in Event : /\ SubOf(e) = s
                           /\ \/ state'[e] \in {"open", "dead"} /\ newest'[e] >= noted'[s]
                              \/ body'[e] >= noted'[s]
      BY DEF NotOverlooked
    <2>1. CASE s \in Nudged
      <3>1. PICK e \in Event : Into(s, e)
        BY <1>1, <2>1
      <3>2. SubOf(e) = s /\ e \in rows
        BY <2>1, <3>1 DEF Into
      <3>3. state'[e] = "open" /\ newest'[e] = messages' /\ noted'[s] = messages'
        BY <1>1, <2>1, <3>2
      <3>4. messages' >= messages'
        BY DEF TypeOK
      <3> QED BY <3>2, <3>3, <3>4
    <2>2. CASE s \notin Nudged
      <3>1. noted'[s] = noted[s]
        BY <1>1, <2>2
      <3>2. PICK e \in Event : /\ SubOf(e) = s
                               /\ \/ state[e] \in {"open", "dead"} /\ newest[e] >= noted[s]
                                  \/ body[e] >= noted[s]
        BY <3>1 DEF Overlook, NotOverlooked
      <3>3. state'[e] = state[e] /\ newest'[e] = newest[e] /\ body'[e] = body[e]
        BY <1>1, <2>2, <3>2
      <3> QED BY <3>1, <3>2, <3>3
    <2> QED BY <2>1, <2>2
  <1> QED BY <1>3, <1>4 DEF Overlook

\* Rows that end were queued.
LEMMA EndKeeps ==
    ASSUME TypeOK, NEW ending, NEW over \in SUBSET Event, End(ending, over),
           \A e \in over : Queued(e), noted' = noted
    PROVE  Keeps
  BY DEF End, Keeps, RowKeeps, Queued

LEMMA AsideKeeps == ASSUME TypeOK, Aside, ~NoteMessage PROVE Keeps
  <1>1. ASSUME NEW b \in Binding, RevokeBinding(b) PROVE Keeps
    <2>1. (\E ending : End(ending, {})) /\ noted' = noted
      BY <1>1 DEF RevokeBinding, history
    <2> QED BY <2>1, EndKeeps
  <1>2. ASSUME NEW s \in Sub, Unsubscribe(s) PROVE Keeps
    <2>1. (\E ending : End(ending, {})) /\ noted' = noted
      BY <1>2 DEF Unsubscribe, history
    <2> QED BY <2>1, EndKeeps
  <1>3. CASE \/ \E b \in Binding : BindWake(b) \/ SetWakeState(b)
             \/ \E s \in Sub : Subscribe(s) \/ Lapse(s) \/ Grant(s)
             \/ \E e \in Event, r \in Run : RedeemTicket(e, r)
             \/ \E k \in ledger : Age(k)
             \/ Rotate
    <2>1. UNCHANGED <<state, body, newest, noted>>
      BY <1>3 DEF BindWake, SetWakeState, Subscribe, Lapse, Grant, RedeemTicket, Age,
                  Rotate, row, history
    <2> QED BY <2>1 DEF Keeps, RowKeeps
  <1> QED BY <1>1, <1>2, <1>3 DEF Aside

LEMMA ClaimDueKeeps == ASSUME TypeOK, NEW w \in Worker, ClaimDue(w) PROVE Keeps
  <1>1. PICK gone \in SUBSET {f \in Event : Buriable(f)} :
           \/ \E e \in Event : ClaimRow(w, e, gone)
           \/ Bury(gone)
           \/ \E e \in Event : LoseReservation(e)
    BY DEF ClaimDue
  <1>2. \A f \in gone : Queued(f)
    BY DEF Buriable
  <1>3. ASSUME NEW e \in Event, ClaimRow(w, e, gone) PROVE Keeps
    <2>1. /\ Queued(e)
          /\ state' = [f \in Event |-> IF f = e THEN "claimed"
                                       ELSE IF f \in gone THEN "dead" ELSE state[f]]
          /\ body' = [body EXCEPT ![e] = IF state[e] = "open" THEN newest[e] ELSE @]
          /\ UNCHANGED <<newest, noted>>
      BY <1>3 DEF ClaimRow, Claimable, history
    <2> QED BY <1>2, <2>1 DEF Keeps, RowKeeps, Queued, TypeOK
  <1>4. CASE Bury(gone)
    BY <1>2, <1>4 DEF Bury, Keeps, RowKeeps, Queued, history
  <1>5. ASSUME NEW e \in Event, LoseReservation(e) PROVE Keeps
    BY <1>5 DEF LoseReservation, Keeps, RowKeeps, row, history
  <1> QED BY <1>1, <1>3, <1>4, <1>5

LEMMA DeliverKeeps ==
    ASSUME TypeOK, NEW w \in Worker, Deliver(w) \/ Crash(w) PROVE Keeps
  <1>1. CASE Outage(w) \/ Hold(w)
    <2>1. ParkClaim(w)
      BY <1>1 DEF Outage, Hold
    <2> QED BY <2>1 DEF ParkClaim, Holds, Keeps, RowKeeps, TypeOK, history
  <1>2. CASE DropUnboundClaim(w)
    BY <1>2 DEF DropUnboundClaim, Holds, Keeps, RowKeeps, TypeOK, history
  <1>3. ASSUME NEW status, RecordAttempt(w, status) PROVE Keeps
    <2>0. noted' = noted
      BY <1>3 DEF RecordAttempt, history
    <2>1. CASE ~Holds(at[w])
      BY <1>3, <2>0, <2>1 DEF RecordAttempt, Keeps, RowKeeps, row
    <2>2. CASE Holds(at[w]) /\ status = "gone"
      <3>1. End({SubOf(at[w].event)}, {at[w].event}) /\ pc[w] # "idle"
        BY <1>3, <2>2 DEF RecordAttempt
      <3>2. at[w].event \in Event /\ Queued(at[w].event)
        BY <2>2, <3>1, HeldClaim DEF Holds, Queued
      <3> QED BY <2>0, <3>1, <3>2, EndKeeps
    <2>3. CASE Holds(at[w]) /\ status # "gone"
      <3>1. /\ \E s \in {"retry", "delivered", "dead"} :
                  state' = [state EXCEPT ![at[w].event] = s]
            /\ UNCHANGED <<newest, body>>
        BY <1>3, <2>3 DEF RecordAttempt
      <3> QED BY <2>0, <2>3, <3>1 DEF Holds, Keeps, RowKeeps, TypeOK
    <2> QED BY <2>1, <2>2, <2>3
  <1>4. CASE RevokeSubscription(w)
    <2>1. (\E ending : End(ending, {})) /\ noted' = noted
      BY <1>4 DEF RevokeSubscription, history
    <2> QED BY <2>1, EndKeeps
  <1>5. CASE \/ Authorize(w) \/ Release(w) \/ RecordTicketKek(w) \/ KeepTicket(w)
             \/ Fence(w) \/ Post(w) \/ Crash(w)
    <2>1. UNCHANGED <<state, body, newest, noted>>
      BY <1>5 DEF Authorize, Release, RecordTicketKek, KeepTicket, Fence, Post, Crash, row,
                  history
    <2> QED BY <2>1 DEF Keeps, RowKeeps
  <1> QED BY <1>1, <1>2, <1>3, <1>4, <1>5 DEF Deliver

\* The newest message noted for a subscription is in its open wake, in the bytes
\* of a later one, or in one that died.
THEOREM NotOverlookedHolds == Spec => []NotOverlooked
  <1>1. Init => Overlook
    BY DEF Init, Overlook, NotOverlooked, Unserialized
  <1>2. ASSUME TypeOK, TypeOK', Overlook, [Next]_vars PROVE Overlook'
    <2>1. CASE UNCHANGED vars
      BY <1>2, <2>1 DEF vars, row, history, Overlook, NotOverlooked, Unserialized
    <2>2. CASE NoteMessage
      BY <1>2, <2>2, NotedStep
    <2>3. CASE Aside /\ ~NoteMessage
      BY <1>2, <2>3, AsideKeeps, KeepsOn
    <2>4. ASSUME NEW w \in Worker, ClaimDue(w) \/ Deliver(w) \/ Crash(w) PROVE Overlook'
      BY <1>2, <2>4, ClaimDueKeeps, DeliverKeeps, KeepsOn
    <2> QED BY <1>2, <2>1, <2>2, <2>3, <2>4 DEF Next, Aside
  <1>3. Overlook => NotOverlooked
    BY DEF Overlook
  <1> QED BY <1>1, <1>2, <1>3, TypeCorrect, PTL DEF Spec

===============================================================================
