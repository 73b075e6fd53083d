------------------------------- MODULE WakeOutbox -------------------------------
(***************************************************************************)
(* Wake events: who may be woken (bindings and subscriptions), the outbox  *)
(* of wakes (mcp_events_store.py), the ledger their first claims are       *)
(* admitted against (mcp_events_budget.py), and the workers that deliver   *)
(* them (mcp_events_delivery.py, mcp_events_worker.py).                    *)
(*                                                                         *)
(* A message for a recipient opens a wake for each of its subscriptions,   *)
(* or is folded into the one that is still open.  A worker leases a wake,  *)
(* checks the authority, issues its ticket, looks at the binding once      *)
(* more, posts, and settles.  Each of those is a step of its own, each     *)
(* store call a transaction; workers crash between steps, stall past their *)
(* lease, and meet outages.                                                *)
(*                                                                         *)
(* Time is left out: a lease may run out, a retry fall due and a debounce  *)
(* pass at any moment, so any row a worker could find due is one it may    *)
(* claim.  The subscriptions are those of one principal, whose budget they *)
(* share; the hour and the day of the budget are one window.  Messages are *)
(* numbers in the order they are noted, and a body is the newest message   *)
(* it was serialized with.                                                 *)
(***************************************************************************)
EXTENDS Naturals, FiniteSets

CONSTANTS
    Binding,        \* binding ids, each of a chat
    Legacy,         \* bindings made before client ids were recorded
    Sub,            \* (binding, event, callback) triples
    BindingOf,      \* [Sub -> Binding]
    Worker,         \* processes that run tick
    Run,            \* runs that redeem tickets
    Cap,            \* wakes a window admits
    MaxAttempts,    \* MAX_ATTEMPTS
    MaxGen,         \* bound: wakes of one subscription
    MaxMessage,     \* bound: messages
    MaxClaim,       \* bound: claims
    MaxKey,         \* bound: keys the keyring rotates through
    MaxTrouble      \* bound: outages, pauses, grants and reservations lost

ASSUME SubAssumption == BindingOf \in [Sub -> Binding] /\ Legacy \subseteq Binding
ASSUME CountAssumption ==
    /\ Cap \in Nat /\ MaxAttempts \in Nat \ {0} /\ MaxGen \in Nat
    /\ MaxMessage \in Nat /\ MaxClaim \in Nat /\ MaxTrouble \in Nat
    /\ MaxKey \in Nat \ {0}
ASSUME RunAssumption == "none" \notin Run

\* A wake is a generation of a subscription.
Event == Sub \X (1..MaxGen)
SubOf(e) == e[1]
BindingAt(e) == BindingOf[SubOf(e)]

\* A lease token is the number of its claim, 0 is NULL; so is a key id.
Claim == [event : Event, token : Nat \ {0}, attempts : Nat \ {0},
          body : Nat, ticket : Nat]
NoClaim == [event |-> << >>, token |-> 0, attempts |-> 0, body |-> 0, ticket |-> 0]
Slot == [token : Nat \ {0}, event : Event]

EventState == {"unborn", "open", "claimed", "retry", "delivered", "dead"}

VARIABLES
    \* the store of a project
    bind,       \* [Binding -> status and wake_state]
    client,     \* [Binding -> BOOLEAN]: the enrolling client is on record
    sub,        \* [Sub -> status; "lapsed" is active past refresh_before]
    state,      \* [Event -> EventState]
    newest,     \* [Event -> Nat], newest_message_id
    body,       \* [Event -> Nat], body_bytes, 0 until the first claim
    lease,      \* [Event -> Nat], lease_token
    attempts,   \* [Event -> Nat]
    first,      \* [Event -> Nat], first_claimed_at: the claim it was stamped by
    kek,        \* [Event -> Nat], ticket_kek_id
    consumed,   \* [Event -> Run or "none"], ticket_consumed_by
    \* the gate's ledger, another database
    ledger,     \* SUBSET Slot
    \* the workers
    pc,         \* [Worker -> Phase]
    at,         \* [Worker -> Claim or NoClaim], the claim a worker holds
    \* the surroundings
    entitled,   \* subscriptions the authority check allows
    key,        \* the current key of the keyring
    claims,     \* lease tokens drawn so far
    messages,   \* messages so far
    trouble,    \* troubles so far
    \* history
    aged,       \* tokens whose slots have left the window
    noted,      \* [Sub -> Nat]: the newest message noted for a subscription
    posts       \* SUBSET Claim: what was handed to the network, ticket and all

row == <<state, newest, body, lease, attempts, first, kek, consumed>>
who == <<bind, client, sub>>
work == <<pc, at>>
around == <<entitled, key, claims, messages, trouble>>
history == <<aged, noted, posts>>
vars == <<who, row, ledger, work, around, history>>

Phase == {"idle", "claimed", "refused", "allowed", "ticketed", "held", "clear",
          "posted", "parked"}

TypeOK ==
    /\ bind \in [Binding -> {"none", "active", "paused", "revoked"}]
    /\ client \in [Binding -> BOOLEAN]
    /\ sub \in [Sub -> {"none", "active", "lapsed", "ended"}]
    /\ state \in [Event -> EventState]
    /\ newest \in [Event -> Nat] /\ body \in [Event -> Nat]
    /\ lease \in [Event -> Nat] /\ attempts \in [Event -> Nat]
    /\ first \in [Event -> Nat] /\ kek \in [Event -> Nat]
    /\ consumed \in [Event -> Run \cup {"none"}]
    /\ ledger \subseteq Slot
    /\ pc \in [Worker -> Phase]
    /\ at \in [Worker -> Claim \cup {NoClaim}]
    /\ \A w \in Worker : pc[w] = "idle" <=> at[w] = NoClaim
    /\ entitled \subseteq Sub
    /\ key \in Nat \ {0} /\ claims \in Nat /\ messages \in Nat /\ trouble \in Nat
    /\ aged \subseteq Nat \ {0}
    /\ noted \in [Sub -> Nat]
    /\ posts \subseteq Claim

Init ==
    /\ bind = [b \in Binding |-> IF b \in Legacy THEN "active" ELSE "none"]
    /\ client = [b \in Binding |-> FALSE]
    /\ sub = [s \in Sub |-> "none"]
    /\ state = [e \in Event |-> "unborn"]
    /\ newest = [e \in Event |-> 0] /\ body = [e \in Event |-> 0]
    /\ lease = [e \in Event |-> 0] /\ attempts = [e \in Event |-> 0]
    /\ first = [e \in Event |-> 0] /\ kek = [e \in Event |-> 0]
    /\ consumed = [e \in Event |-> "none"]
    /\ ledger = {}
    /\ pc = [w \in Worker |-> "idle"] /\ at = [w \in Worker |-> NoClaim]
    /\ entitled = Sub /\ key = 1
    /\ claims = 0 /\ messages = 0 /\ trouble = 0
    /\ aged = {} /\ noted = [s \in Sub |-> 0] /\ posts = {}

Queued(e) == state[e] \in {"open", "claimed", "retry"}

\* What b.status = 'active' and s.status = 'active' say.
Bound(b) == bind[b] \in {"active", "paused"}
Subscribed(s) == sub[s] \in {"active", "lapsed"}

-----------------------------------------------------------------------------
(* Bindings and subscriptions.                                             *)

\* bind_wake, for an authenticated client: a fresh id, or the client of an id
\* that had none on record.
BindWake(b) ==
    /\ \/ bind[b] = "none" /\ bind' = [bind EXCEPT ![b] = "active"]
       \/ Bound(b) /\ UNCHANGED bind
    /\ client' = [client EXCEPT ![b] = TRUE]
    /\ UNCHANGED <<sub, row, ledger, work, around, history>>

SetWakeState(b) ==
    /\ \/ /\ bind[b] = "active" /\ trouble < MaxTrouble
          /\ bind' = [bind EXCEPT ![b] = "paused"]
          /\ trouble' = trouble + 1
       \/ /\ bind[b] = "paused"
          /\ bind' = [bind EXCEPT ![b] = "active"]
          /\ UNCHANGED trouble
    /\ UNCHANGED <<client, sub, row, ledger, work, entitled, key, claims,
                   messages, history>>

\* subscribe creates, refreshes or brings back; its binding must be live.
Subscribe(s) ==
    /\ Bound(BindingOf[s])
    /\ sub' = [sub EXCEPT ![s] = "active"]
    /\ UNCHANGED <<bind, client, row, ledger, work, around, history>>

\* refresh_before passes.
Lapse(s) ==
    /\ sub[s] = "active"
    /\ sub' = [sub EXCEPT ![s] = "lapsed"]
    /\ UNCHANGED <<bind, client, row, ledger, work, around, history>>

\* _end_subscription of each of `ending`; `over` is a wake that ends besides.
End(ending, over) ==
    /\ sub' = [s \in Sub |-> IF s \in ending THEN "ended" ELSE sub[s]]
    /\ LET dying == over \cup {e \in Event : SubOf(e) \in ending /\ Queued(e)}
       IN  /\ state' = [e \in Event |-> IF e \in dying THEN "dead" ELSE state[e]]
           /\ lease' = [e \in Event |-> IF e \in dying THEN 0 ELSE lease[e]]
    /\ UNCHANGED <<newest, body, attempts, first, kek, consumed>>

Unsubscribe(s) ==
    /\ Bound(BindingOf[s]) /\ Subscribed(s)
    /\ End({s}, {})
    /\ UNCHANGED <<bind, client, ledger, work, around, history>>

RevokeBinding(b) ==
    /\ Bound(b)
    /\ bind' = [bind EXCEPT ![b] = "revoked"]
    /\ End({s \in Sub : BindingOf[s] = b /\ Subscribed(s)}, {})
    /\ UNCHANGED <<client, ledger, work, around, history>>

-----------------------------------------------------------------------------
(* Messages and tickets.                                                   *)

\* The next generation of a subscription.
Next1(s) == {g \in 1..MaxGen : \A h \in 1..MaxGen :
                                  state[<<s, h>>] = "unborn" <=> h >= g}

\* The row a message for s goes to: its open row, or its next generation.
Into(s, e) ==
    /\ SubOf(e) = s
    /\ IF \E g \in 1..MaxGen : state[<<s, g>>] = "open"
       THEN state[e] = "open"
       ELSE e[2] \in Next1(s)

Nudged == {s \in Sub : sub[s] = "active" /\ bind[BindingOf[s]] = "active"}

\* Mutant: a message is folded into any wake that is still queued.
NoteIntoQueued ==
    /\ messages < MaxMessage /\ Nudged # {}
    /\ \A s \in Nudged : \E e \in Event : Into(s, e)
    /\ messages' = messages + 1
    /\ LET queued == {e \in Event : SubOf(e) \in Nudged /\ Queued(e)}
           rows == {e \in Event : /\ SubOf(e) \in Nudged /\ Into(SubOf(e), e)
                                  /\ \A f \in queued : SubOf(f) # SubOf(e)}
       IN
       /\ state' = [e \in Event |-> IF e \in rows THEN "open" ELSE state[e]]
       /\ newest' = [e \in Event |-> IF e \in rows \cup queued THEN messages'
                                     ELSE newest[e]]
    /\ noted' = [s \in Sub |-> IF s \in Nudged THEN messages' ELSE noted[s]]
    /\ UNCHANGED <<who, body, lease, attempts, first, kek, consumed, ledger,
                   work, entitled, key, claims, trouble, aged, posts>>

NoteMessage ==
    /\ messages < MaxMessage /\ Nudged # {}
    /\ \A s \in Nudged : \E e \in Event : Into(s, e)
    /\ messages' = messages + 1
    /\ LET rows == {e \in Event : SubOf(e) \in Nudged /\ Into(SubOf(e), e)} IN
       /\ state' = [e \in Event |-> IF e \in rows THEN "open" ELSE state[e]]
       /\ newest' = [e \in Event |-> IF e \in rows THEN messages' ELSE newest[e]]
    /\ noted' = [s \in Sub |-> IF s \in Nudged THEN messages' ELSE noted[s]]
    /\ UNCHANGED <<who, body, lease, attempts, first, kek, consumed, ledger,
                   work, entitled, key, claims, trouble, aged, posts>>

\* The rows redeem_ticket looks at, and the ticket it finds on one.
Redeemable(e, ticket) ==
    /\ Bound(BindingAt(e)) /\ sub[SubOf(e)] = "active"
    /\ state[e] \in {"claimed", "retry", "delivered"}
    /\ attempts[e] >= 1 /\ first[e] # 0
    /\ kek[e] # 0 /\ kek[e] = ticket

\* redeem_ticket, by a run that received a ticket, while it has not expired.
RedeemTicket(e, r) ==
    /\ \E p \in posts : p.event = e /\ Redeemable(e, p.ticket)
    /\ first[e] \notin aged
    /\ consumed[e] = "none"
    /\ consumed' = [consumed EXCEPT ![e] = r]
    /\ UNCHANGED <<who, state, newest, body, lease, attempts, first, kek,
                   ledger, work, around, history>>

-----------------------------------------------------------------------------
(* A worker claims.                                                        *)

Ready(e) == sub[SubOf(e)] = "active" /\ bind[BindingAt(e)] = "active"

\* Mutant: one attempt too many.
SpentPast(e) == state[e] # "open" /\ attempts[e] > MaxAttempts

Spent(e) == state[e] # "open" /\ attempts[e] >= MaxAttempts

\* Rows claim_due buries on its way, and rows it may come to return.  A paused
\* binding's rows are held.
Buriable(e) == /\ Queued(e) /\ bind[BindingAt(e)] # "paused"
               /\ ~Ready(e) \/ Spent(e)

\* Mutant: a lease that ran out is not taken over.
ClaimableFree(e) == state[e] \in {"open", "retry"} /\ Ready(e) /\ ~Spent(e)

Claimable(e) == Queued(e) /\ Ready(e) /\ ~Spent(e)

\* reserve: a slot for a claim that is the first of its wake.
HasSlot == Cardinality(ledger) < Cap
Reserved(e, token) == IF first[e] = 0 THEN {[token |-> token, event |-> e]} ELSE {}

\* claim_due returns e under a new lease, having buried `gone` before it.  An
\* open row had no attempt, and is serialized now.
ClaimRow(w, e, gone) ==
    /\ Claimable(e)
    /\ claims < MaxClaim
    /\ first[e] = 0 => HasSlot
    /\ claims' = claims + 1
    /\ ledger' = ledger \cup Reserved(e, claims')
    /\ state' = [f \in Event |-> IF f = e THEN "claimed"
                                 ELSE IF f \in gone THEN "dead" ELSE state[f]]
    /\ lease' = [f \in Event |-> IF f = e THEN claims'
                                 ELSE IF f \in gone THEN 0 ELSE lease[f]]
    /\ attempts' = [attempts EXCEPT ![e] = @ + 1]
    /\ first' = [first EXCEPT ![e] = IF @ = 0 THEN claims' ELSE @]
    /\ body' = [body EXCEPT ![e] = IF state[e] = "open" THEN newest[e] ELSE @]
    /\ pc' = [pc EXCEPT ![w] = "claimed"]
    /\ at' = [at EXCEPT ![w] = [event |-> e, token |-> claims',
                                attempts |-> attempts'[e], body |-> body'[e],
                                ticket |-> kek[e]]]
    /\ UNCHANGED <<who, newest, kek, consumed, entitled, key, messages, trouble,
                   history>>

\* claim_due returns nothing.
Bury(gone) ==
    /\ gone # {}
    /\ state' = [f \in Event |-> IF f \in gone THEN "dead" ELSE state[f]]
    /\ lease' = [f \in Event |-> IF f \in gone THEN 0 ELSE lease[f]]
    /\ UNCHANGED <<who, newest, body, attempts, first, kek, consumed, ledger,
                   work, around, history>>

\* claim_due reserves, and its own transaction is rolled back (serialize raises,
\* the process dies): the ledger is another database and keeps the slot.
LoseReservation(e) ==
    /\ Claimable(e) /\ first[e] = 0 /\ HasSlot
    /\ claims < MaxClaim /\ trouble < MaxTrouble
    /\ claims' = claims + 1 /\ trouble' = trouble + 1
    /\ ledger' = ledger \cup Reserved(e, claims')
    /\ UNCHANGED <<who, row, work, entitled, key, messages, history>>

\* The order of the rows (created_at) and their due times are left out: any of
\* the rows to bury may come before the row returned.
ClaimDue(w) ==
    /\ pc[w] = "idle"
    /\ \E gone \in SUBSET {f \in Event : Buriable(f)} :
          \/ \E e \in Event : ClaimRow(w, e, gone)
          \/ Bury(gone)
          \/ gone = {} /\ \E e \in Event : LoseReservation(e)

-----------------------------------------------------------------------------
(* A worker delivers its claim.                                            *)

\* Mutant: any worker that claimed a row settles it.
HoldsAnyhow(c) == state[c.event] # "open"

\* The row of a claim, if its lease is still the current one.
Holds(c) == state[c.event] = "claimed" /\ lease[c.event] = c.token

Goto(w, phase) == pc' = [pc EXCEPT ![w] = phase] /\ UNCHANGED at

\* Mutant: the claim is not let go of.
FinishHolding(w) == pc' = [pc EXCEPT ![w] = "idle"] /\ UNCHANGED at

Finish(w) ==
    /\ pc' = [pc EXCEPT ![w] = "idle"]
    /\ at' = [at EXCEPT ![w] = NoClaim]

\* The authority check and the unsealing of the secrets.
Authorize(w) ==
    /\ pc[w] = "claimed"
    /\ Goto(w, IF SubOf(at[w].event) \in entitled THEN "allowed" ELSE "refused")
    /\ UNCHANGED <<who, row, ledger, around, history>>

\* revoke_subscription is not fenced by the lease.
RevokeSubscription(w) ==
    /\ pc[w] = "refused"
    /\ End({SubOf(at[w].event)}, {})
    /\ Finish(w)
    /\ UNCHANGED <<bind, client, ledger, around, history>>

\* The release that follows a park, for a claim that was the first.
Parked(w, c) ==
    IF Holds(c) /\ c.attempts = 1 THEN Goto(w, "parked") ELSE Finish(w)

\* Mutant: the first claim is forgotten by every park.
ParkAfresh(w) ==
    LET c == at[w] IN
    /\ IF Holds(c)
       THEN /\ state' = [state EXCEPT ![c.event] = "retry"]
            /\ lease' = [lease EXCEPT ![c.event] = 0]
            /\ attempts' = [attempts EXCEPT ![c.event] = IF @ = 0 THEN 0 ELSE @ - 1]
            /\ first' = [first EXCEPT ![c.event] = 0]
       ELSE UNCHANGED <<state, lease, attempts, first>>
    /\ Parked(w, c)
    /\ UNCHANGED <<who, newest, body, kek, consumed, ledger, entitled, key,
                   claims, messages, history>>

ParkClaim(w) ==
    LET c == at[w] IN
    /\ IF Holds(c)
       THEN /\ state' = [state EXCEPT ![c.event] = "retry"]
            /\ lease' = [lease EXCEPT ![c.event] = 0]
            /\ attempts' = [attempts EXCEPT ![c.event] = IF @ = 0 THEN 0 ELSE @ - 1]
            /\ first' = [first EXCEPT ![c.event] =
                            IF attempts[c.event] <= 1 THEN 0 ELSE @]
       ELSE UNCHANGED <<state, lease, attempts, first>>
    /\ Parked(w, c)
    /\ UNCHANGED <<who, newest, body, kek, consumed, ledger, entitled, key,
                   claims, messages, history>>

\* The authority cannot be asked, a secret or the ticket's key is not at hand.
Outage(w) ==
    /\ \/ pc[w] \in {"claimed", "allowed"}
       \/ pc[w] = "ticketed" /\ at[w].ticket # 0
    /\ trouble < MaxTrouble /\ trouble' = trouble + 1
    /\ ParkClaim(w)

\* Mutant: the slots of the wake are given back, whoever took them.
ReleaseEvent(w) ==
    /\ pc[w] = "parked"
    /\ ledger' = {k \in ledger : k.event # at[w].event}
    /\ Finish(w)
    /\ UNCHANGED <<who, row, around, history>>

\* budget.release: this claim's own slot.
Release(w) ==
    /\ pc[w] = "parked"
    /\ ledger' = {k \in ledger : k.token # at[w].token}
    /\ Finish(w)
    /\ UNCHANGED <<who, row, around, history>>

\* A first claim without a key is where a ticket is issued.
Unissued(c) == c.ticket = 0 /\ c.attempts = 1

\* drop_unbound_claim: the binding has no client.
DropUnboundClaim(w) ==
    LET c == at[w] IN
    /\ pc[w] = "allowed" /\ Unissued(c) /\ ~client[BindingAt(c.event)]
    /\ IF Holds(c)
       THEN /\ state' = [state EXCEPT ![c.event] = "dead"]
            /\ lease' = [lease EXCEPT ![c.event] = 0]
       ELSE UNCHANGED <<state, lease>>
    /\ Parked(w, c)
    /\ UNCHANGED <<who, newest, body, attempts, first, kek, consumed, ledger,
                   around, history>>

\* record_ticket_kek: under the current key, by the holder of the lease, once.
RecordTicketKek(w) ==
    LET c == at[w] IN
    /\ pc[w] = "allowed" /\ Unissued(c) /\ client[BindingAt(c.event)]
    /\ IF Holds(c) /\ kek[c.event] = 0
       THEN /\ kek' = [kek EXCEPT ![c.event] = key]
            /\ at' = [at EXCEPT ![w].ticket = key]
            /\ pc' = [pc EXCEPT ![w] = "ticketed"]
       ELSE Finish(w) /\ UNCHANGED kek
    /\ UNCHANGED <<who, state, newest, body, lease, attempts, first, consumed,
                   ledger, around, history>>

\* Mutant: the ticket is derived under the current key.
KeepTicketAnew(w) ==
    /\ pc[w] = "allowed" /\ ~Unissued(at[w])
    /\ at' = [at EXCEPT ![w].ticket = key]
    /\ pc' = [pc EXCEPT ![w] = "ticketed"]
    /\ UNCHANGED <<who, row, ledger, around, history>>

\* The key was recorded by an earlier claim, or is taken not to exist.
KeepTicket(w) ==
    /\ pc[w] = "allowed" /\ ~Unissued(at[w])
    /\ Goto(w, "ticketed")
    /\ UNCHANGED <<who, row, ledger, around, history>>

\* wake_hold_reason, the fence before the POST.
Fence(w) ==
    /\ pc[w] = "ticketed"
    /\ Goto(w, IF bind[BindingAt(at[w].event)] = "active" THEN "clear" ELSE "held")
    /\ UNCHANGED <<who, row, ledger, around, history>>

Hold(w) == pc[w] = "held" /\ ParkClaim(w) /\ UNCHANGED trouble

Post(w) ==
    /\ pc[w] = "clear"
    /\ posts' = posts \cup {at[w]}
    /\ Goto(w, "posted")
    /\ UNCHANGED <<who, row, ledger, around, aged, noted>>

\* record_attempt.  A callback that is refused, or a body that is too large, is
\* settled without a POST.
RecordAttempt(w, status) ==
    LET c == at[w] IN
    /\ \/ pc[w] = "posted"
       \/ pc[w] = "ticketed" /\ status \in {"failed", "too_large"}
    /\ IF ~Holds(c) THEN UNCHANGED <<sub, row>>
       ELSE IF status = "gone" THEN End({SubOf(c.event)}, {c.event})
       ELSE /\ state' = [state EXCEPT ![c.event] =
                  IF status = "ok" THEN "delivered"
                  ELSE IF status = "too_large" \/ attempts[c.event] >= MaxAttempts
                  THEN "dead" ELSE "retry"]
            /\ lease' = [lease EXCEPT ![c.event] = 0]
            /\ UNCHANGED <<sub, newest, body, attempts, first, kek, consumed>>
    /\ Finish(w)
    /\ UNCHANGED <<bind, client, ledger, around, history>>

Deliver(w) ==
    \/ Authorize(w) \/ RevokeSubscription(w) \/ Outage(w) \/ Release(w)
    \/ DropUnboundClaim(w) \/ RecordTicketKek(w) \/ KeepTicket(w)
    \/ Fence(w) \/ Hold(w) \/ Post(w)
    \/ \E status \in {"ok", "gone", "too_large", "failed"} : RecordAttempt(w, status)

\* The process of w ends; its claim stays leased until the lease runs out.
Crash(w) ==
    /\ pc[w] # "idle"
    /\ Finish(w)
    /\ UNCHANGED <<who, row, ledger, around, history>>

-----------------------------------------------------------------------------
(* The surroundings.                                                       *)

\* A slot leaves the window (reserve deletes it, or no longer counts it).
Age(k) ==
    /\ k \in ledger
    /\ ledger' = ledger \ {k}
    /\ aged' = aged \cup {k.token}
    /\ UNCHANGED <<who, row, work, around, noted, posts>>

\* A grant is taken away or given back.
Grant(s) ==
    /\ \/ s \in entitled /\ trouble < MaxTrouble
          /\ entitled' = entitled \ {s} /\ trouble' = trouble + 1
       \/ s \notin entitled
          /\ entitled' = entitled \cup {s} /\ UNCHANGED trouble
    /\ UNCHANGED <<who, row, ledger, work, key, claims, messages, history>>

Rotate ==
    /\ key < MaxKey
    /\ key' = key + 1
    /\ UNCHANGED <<who, row, ledger, work, entitled, claims, messages, trouble,
                   history>>

Next ==
    \/ \E b \in Binding : BindWake(b) \/ SetWakeState(b) \/ RevokeBinding(b)
    \/ \E s \in Sub : Subscribe(s) \/ Lapse(s) \/ Unsubscribe(s) \/ Grant(s)
    \/ NoteMessage
    \/ \E e \in Event, r \in Run : RedeemTicket(e, r)
    \/ \E w \in Worker : ClaimDue(w) \/ Deliver(w) \/ Crash(w)
    \/ \E k \in ledger : Age(k)
    \/ Rotate

Spec == Init /\ [][Next]_vars

\* The gate's loop ticks on a timer, a step of delivery ends, slots grow old.
Fairness ==
    /\ \A w \in Worker : WF_vars(ClaimDue(w)) /\ WF_vars(Deliver(w))
    /\ WF_vars(\E k \in ledger : Age(k))

FairSpec == Spec /\ Fairness

-----------------------------------------------------------------------------
(* Properties.                                                             *)

\* The budget: the wakes handed to the network whose first claim lies in the
\* window are no more than the window admits, whatever parks, late refunds,
\* crashes and superseded workers did to the slots.
WithinBudget ==
    Cardinality({e \in Event : /\ \E p \in posts : p.event = e
                               /\ first[e] \notin aged}) <= Cap

\* A wake is handed to the network at most MAX_ATTEMPTS times, though attempts
\* are given back and workers past their lease still post.
BoundedPosts ==
    \A e \in Event : Cardinality({p \in posts : p.event = e}) <= MaxAttempts

\* Signed bytes: every POST of a wake carries the same body and the same ticket,
\* whichever worker sends it and whichever key is current by then.
SameBytes ==
    \A p, q \in posts : p.event = q.event => p.body = q.body /\ p.ticket = q.ticket

\* A ticket that was sent stays good: redeem_ticket finds its row until the wake
\* dies, the subscription ends or the ticket expires, whatever later claims did.
TicketHonoured ==
    \A p \in posts :
       LET e == p.event IN
       (/\ p.ticket # 0 /\ state[e] # "dead" /\ first[e] \notin aged
        /\ Bound(BindingAt(e)) /\ sub[SubOf(e)] = "active")
       => Redeemable(e, p.ticket)

\* No message is overlooked: the newest one noted for a subscription is in its
\* open wake, in the frozen body of a later one, or in a wake that died.
NotOverlooked ==
    \A s \in Sub : noted[s] = 0 \/
       \E e \in Event : /\ SubOf(e) = s
                        /\ \/ state[e] \in {"open", "dead"} /\ newest[e] >= noted[s]
                           \/ body[e] >= noted[s]

\* A settled wake is never reopened, claimed again or settled otherwise.
FinalIsFinal ==
    [][\A e \in Event : state[e] \in {"delivered", "dead"} => state'[e] = state[e]]_vars

\* From some point on nothing is amiss that was not amiss before: no outage of an
\* authority or a keyring, no pause, no lost grant, no lost reservation.
TroubleEnds == <>[][trouble' = trouble]_vars

\* Where troubles end, a queued wake is delivered or dies, unless its binding is
\* paused.  Where they do not it need not: "parks do not count as attempts"
\* (mcp_events_delivery.py:311-338), so an outage that lasts parks a wake for ever.
WakesEnd ==
    TroubleEnds =>
        \A e \in Event : Queued(e) ~> (~Queued(e) \/ bind[BindingAt(e)] = "paused")

\* Every POST carries a ticket: "its key is recorded before the FIRST POST".
TicketCarried == \A p \in posts : p.ticket # 0

===============================================================================
