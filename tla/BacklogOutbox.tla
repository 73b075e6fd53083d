----------------------------- MODULE BacklogOutbox -----------------------------
(***************************************************************************)
(* The offline write queue of a backlog whose authority is a server        *)
(* (backlog_write_queue.py), the drain that submits it and folds the       *)
(* verdicts back (backlog_hub_client.py), and the cycle around it          *)
(* (backlog_outbox_service.py, backlog_sync_sitter.py).                    *)
(*                                                                         *)
(* A local write becomes an INTENT: a row with a durable key, the item it  *)
(* edits and the server version it was composed against.  Any number of    *)
(* processes drain the queue, with no lease among them: each reads the     *)
(* candidates, moves rows between `pending` and `blocked` one transaction  *)
(* at a time, posts at most one intent per item and settles what the       *)
(* authority answered.  A request may be lost, answered late, or answered  *)
(* to nobody.                                                              *)
(*                                                                         *)
(* An intent is named by its queue_id (AUTOINCREMENT: insertion order).    *)
(* Versions are numbers, for the authority's updatedAt; 0 is "", no base.  *)
(* Two intents of one item are taken to touch the same fields.             *)
(***************************************************************************)
EXTENDS Naturals, Sequences

CONSTANTS
    Intent,         \* queue ids of the writes that will be made, 1..N
    Item,
    ItemOf,         \* [Intent -> Item]
    Drainer,        \* processes that run drain_once
    LocalOnly,      \* intents with nothing the server stores (to_wire_intent)
    Unmapped,       \* intents the wire cannot carry until the next release
    Invalid,        \* intents the authority rejects for what they say
    Ruling,         \* what operators decide about refusals
    FirstVersion,   \* [Item -> Nat]: 0 for an item not created yet
    MaxVersion,     \* bound: other writers edit an item up to this version
    MayAccept,      \* the authority may come to accept an Invalid intent
    StoreFails      \* a local transaction may fail

ASSUME IntentAssumption == /\ Intent \subseteq Nat \ {0}
                           /\ ItemOf \in [Intent -> Item]
                           /\ LocalOnly \subseteq Intent
                           /\ Unmapped \subseteq Intent
                           /\ Invalid \subseteq Intent
ASSUME RulingAssumption == Ruling \subseteq {"discard", "keep", "requeue"}
ASSUME VersionAssumption == FirstVersion \in [Item -> Nat] /\ MaxVersion \in Nat
ASSUME FailAssumption == MayAccept \in BOOLEAN /\ StoreFails \in BOOLEAN

\* "unborn": the write is not made yet; "drafted": made, its base read, its row
\* not inserted; "dropped": the insert failed; "gone": the row was deleted.
State == {"unborn", "drafted", "dropped", "pending", "blocked", "conflict",
          "local_only", "gone"}
Phase == {"idle", "read", "loop", "sent", "answered", "fetch", "store"}

VARIABLES
    \* the queue and the snapshot, SQLite tables all processes share
    state,      \* [Intent -> State]
    base,       \* [Intent -> Nat], base_updated_at
    ruling,     \* [Intent -> Ruling or "none"], classification
    cache,      \* [Item -> Nat], backlog_server_cache
    \* one cycle of each drainer
    pc,         \* [Drainer -> Phase]
    todo,       \* [Drainer -> SUBSET Intent]: candidates not looked at yet
    was,        \* [Drainer -> [Intent -> State]]: states as it read them
    from,       \* [Drainer -> [Intent -> Nat]]: bases as it read them
    hold,       \* [Drainer -> SUBSET Intent]: what later intents wait behind
    send,       \* [Drainer -> SUBSET Intent]: the batch
    failed,     \* [Drainer -> BOOLEAN]: some state_failures
    verdict,    \* [Drainer -> SUBSET Verdict]
    fetched,    \* [Drainer -> [Item -> Nat]]
    \* the wire and the authority
    request,    \* [Drainer -> SUBSET Wire]: a request not yet adjudicated
    version,    \* [Item -> Nat]
    receipts,   \* keys of applied intents, with the version each produced
    refusing,   \* Invalid intents the authority still rejects
    mapped,     \* intents the release in use can put on the wire
    log         \* [Item -> Seq(Intent)]: history, intents as they were applied

queue == <<state, base, ruling>>
local == <<todo, was, from, hold, send, failed, verdict, fetched>>
cycle == <<pc, local>>
authority == <<version, receipts, refusing, log>>
vars == <<queue, cache, cycle, request, authority, mapped>>

Key == Intent \cup Drainer
Wire == [id : Intent, key : Key, base : Nat]
Verdict == [id : Intent, key : Key, kind : {"applied", "refused"}, at : Nat]

TypeOK ==
    /\ state \in [Intent -> State]
    /\ base \in [Intent -> Nat]
    /\ ruling \in [Intent -> Ruling \cup {"none"}]
    /\ cache \in [Item -> Nat]
    /\ pc \in [Drainer -> Phase]
    /\ todo \in [Drainer -> SUBSET Intent]
    /\ was \in [Drainer -> [Intent -> State]]
    /\ from \in [Drainer -> [Intent -> Nat]]
    /\ hold \in [Drainer -> SUBSET Intent]
    /\ send \in [Drainer -> SUBSET Intent]
    /\ failed \in [Drainer -> BOOLEAN]
    /\ verdict \in [Drainer -> SUBSET Verdict]
    /\ fetched \in [Drainer -> [Item -> Nat]]
    /\ request \in [Drainer -> SUBSET Wire]
    /\ version \in [Item -> Nat]
    /\ receipts \subseteq [key : Key, at : Nat]
    /\ refusing \subseteq Invalid
    /\ mapped \subseteq Intent
    /\ log \in [Item -> Seq(Intent)]

\* Locals of a drainer between cycles.
Blank == [i \in Intent |-> "unborn"]
Zero == [i \in Intent |-> 0]

Init ==
    /\ state = [i \in Intent |-> "unborn"]
    /\ base = [i \in Intent |-> 0]
    /\ ruling = [i \in Intent |-> "none"]
    /\ cache = [t \in Item |-> 0]
    /\ pc = [d \in Drainer |-> "idle"]
    /\ todo = [d \in Drainer |-> {}] /\ hold = [d \in Drainer |-> {}]
    /\ send = [d \in Drainer |-> {}] /\ failed = [d \in Drainer |-> FALSE]
    /\ was = [d \in Drainer |-> Blank] /\ from = [d \in Drainer |-> Zero]
    /\ verdict = [d \in Drainer |-> {}]
    /\ fetched = [d \in Drainer |-> [t \in Item |-> 0]]
    /\ request = [d \in Drainer |-> {}]
    /\ version = FirstVersion
    /\ receipts = {} /\ log = [t \in Item |-> << >>]
    /\ refusing = Invalid
    /\ mapped = Intent \ Unmapped

\* j is a later intent of the item of i.
Later(i, j) == ItemOf[i] = ItemOf[j] /\ i < j

\* A refusal nobody has ruled on.
Unclassified(i) == state[i] = "conflict" /\ ruling[i] = "none"

\* What a cutover must not flip over: a write the authority has not settled and
\* no operator has ruled on.
Undecided(i) == state[i] \in {"pending", "blocked"} \/ Unclassified(i)

-----------------------------------------------------------------------------
(* Writers and operators.                                                  *)

\* A local write commits, and _emit_backlog reads the version its base is.
Draft(i) ==
    /\ state[i] = "unborn"
    /\ state' = [state EXCEPT ![i] = "drafted"]
    /\ base' = [base EXCEPT ![i] = cache[ItemOf[i]]]
    /\ UNCHANGED <<ruling, cache, cycle, request, authority, mapped>>

\* enqueue, in a transaction of its own; its failure is swallowed.
Enqueue(i) ==
    /\ state[i] = "drafted"
    /\ \A j \in Intent : j < i => state[j] \notin {"unborn", "drafted"}
    /\ \/ state' = [state EXCEPT ![i] = "pending"]
       \/ StoreFails /\ state' = [state EXCEPT ![i] = "dropped"]
    /\ UNCHANGED <<base, ruling, cache, cycle, request, authority, mapped>>

\* Mutant: the ruling is written to the state column.
ClassifyState(i, r) ==
    /\ state[i] = "conflict" /\ ruling[i] # r
    /\ ruling' = [ruling EXCEPT ![i] = r]
    /\ state' = [state EXCEPT ![i] = r]
    /\ UNCHANGED <<base, cache, cycle, request, authority, mapped>>

\* classify: a ruling on a refused write, the first or another one.
Classify(i, r) ==
    /\ state[i] = "conflict" /\ ruling[i] # r
    /\ ruling' = [ruling EXCEPT ![i] = r]
    /\ state' = [state EXCEPT ![i] = IF r = "requeue" THEN "pending" ELSE "conflict"]
    /\ UNCHANGED <<base, cache, cycle, request, authority, mapped>>

-----------------------------------------------------------------------------
(* One drain_queue.                                                        *)

\* Mutant: each process mints a key of its own.
SendKeyPerProcess(d, i) == d

\* The idempotency key intent i goes out under: the one minted at enqueue.
SendKey(d, i) == i

\* Mutant: only the pending rows are candidates; a blocked row stays blocked.
ReadPending(d) ==
    /\ pc[d] = "idle"
    /\ LET rows == {i \in Intent : state[i] = "pending"} IN
       /\ todo' = [todo EXCEPT ![d] = rows]
       /\ was' = [was EXCEPT ![d] = [i \in Intent |-> IF i \in rows THEN state[i] ELSE "unborn"]]
       /\ from' = [from EXCEPT ![d] = [i \in Intent |-> IF i \in rows THEN base[i] ELSE 0]]
       /\ pc' = [pc EXCEPT ![d] = IF rows = {} THEN "fetch" ELSE "read"]
    /\ UNCHANGED <<queue, cache, hold, send, failed, verdict, fetched,
                   request, authority, mapped>>

\* candidates: the pending and blocked rows, oldest first.
ReadCandidates(d) ==
    /\ pc[d] = "idle"
    /\ LET rows == {i \in Intent : state[i] \in {"pending", "blocked"}} IN
       /\ todo' = [todo EXCEPT ![d] = rows]
       /\ was' = [was EXCEPT ![d] = [i \in Intent |-> IF i \in rows THEN state[i] ELSE "unborn"]]
       /\ from' = [from EXCEPT ![d] = [i \in Intent |-> IF i \in rows THEN base[i] ELSE 0]]
       /\ pc' = [pc EXCEPT ![d] = IF rows = {} THEN "fetch" ELSE "read"]
    /\ UNCHANGED <<queue, cache, hold, send, failed, verdict, fetched,
                   request, authority, mapped>>

\* Mutant: refusals hold nothing back.
NoBarriers(d) ==
    /\ pc[d] = "read"
    /\ pc' = [pc EXCEPT ![d] = "loop"]
    /\ UNCHANGED <<queue, cache, local, request, authority, mapped>>

\* undecided_barriers, in a transaction of its own.
ReadBarriers(d) ==
    /\ pc[d] = "read"
    /\ hold' = [hold EXCEPT ![d] = {i \in Intent : Unclassified(i)}]
    /\ pc' = [pc EXCEPT ![d] = "loop"]
    /\ UNCHANGED <<queue, cache, todo, was, from, send, failed, verdict,
                   fetched, request, authority, mapped>>

\* i is the oldest candidate this drain has not looked at.
Oldest(d, i) == i \in todo[d] /\ \A j \in todo[d] : i <= j

\* Mutant: several intents of one item go out together.
NeverBusy(d, i) == FALSE

\* An intent of the same item is in the batch already.
Busy(d, i) == \E j \in send[d] : ItemOf[j] = ItemOf[i]

\* i waits behind a refusal nobody ruled on or a blocked intent of this cycle.
Held(d, i) == \E j \in hold[d] : Later(j, i)

\* Mutant: set_state moves whatever row has the id.
SetAnyState(d, i, s) ==
    \/ state' = [state EXCEPT ![i] = s] /\ UNCHANGED failed
    \/ /\ StoreFails
       /\ UNCHANGED state
       /\ failed' = [failed EXCEPT ![d] = TRUE]

\* set_state: only a row the authority has not answered moves, and whether it
\* moved is known.
SetState(d, i, s) ==
    \/ /\ state[i] \in {"pending", "blocked"}
       /\ state' = [state EXCEPT ![i] = s]
       /\ UNCHANGED failed
    \/ /\ state[i] \notin {"pending", "blocked"} \/ StoreFails
       /\ UNCHANGED state
       /\ failed' = [failed EXCEPT ![d] = TRUE]

Looked(d, i) ==
    /\ pc[d] = "loop" /\ Oldest(d, i)
    /\ todo' = [todo EXCEPT ![d] = @ \ {i}]
    /\ UNCHANGED <<base, ruling, cache, pc, was, from, verdict, fetched,
                   request, authority, mapped>>

\* One intent per item and cycle: later ones stay as they are.
Skip(d, i) ==
    /\ Looked(d, i) /\ Busy(d, i)
    /\ UNCHANGED <<state, hold, send, failed>>

HoldBehind(d, i) ==
    /\ Looked(d, i) /\ ~Busy(d, i) /\ Held(d, i)
    /\ SetState(d, i, "blocked")
    /\ UNCHANGED <<hold, send>>

\* to_wire_intent cannot express it; what comes after waits behind it.
Block(d, i) ==
    /\ Looked(d, i) /\ ~Busy(d, i) /\ ~Held(d, i)
    /\ i \notin mapped
    /\ SetState(d, i, "blocked")
    /\ hold' = [hold EXCEPT ![d] = @ \cup {i}]
    /\ UNCHANGED send

\* There is nothing in it the authority stores.
Retire(d, i) ==
    /\ Looked(d, i) /\ ~Busy(d, i) /\ ~Held(d, i)
    /\ i \in mapped \cap LocalOnly
    /\ SetState(d, i, "local_only")
    /\ UNCHANGED <<hold, send>>

\* It goes out, once its release from `blocked` has landed.
Take(d, i) ==
    /\ Looked(d, i) /\ ~Busy(d, i) /\ ~Held(d, i)
    /\ i \in mapped \ LocalOnly
    /\ IF was[d][i] = "blocked"
       THEN SetState(d, i, "pending") ELSE UNCHANGED <<state, failed>>
    /\ send' = IF failed' = failed
               THEN [send EXCEPT ![d] = @ \cup {i}] ELSE send
    /\ UNCHANGED hold

\* The end of the loop.  Nothing goes out when a state did not land.  Bound:
\* a drainer has one request on the wire, the one before it lost or adjudicated.
Post(d) ==
    /\ pc[d] = "loop" /\ todo[d] = {}
    /\ IF failed[d] \/ send[d] = {}
       THEN pc' = [pc EXCEPT ![d] = "fetch"] /\ UNCHANGED request
       ELSE /\ pc' = [pc EXCEPT ![d] = "sent"]
            /\ request' = [request EXCEPT ![d] =
                 {[id |-> i, key |-> SendKey(d, i), base |-> from[d][i]] : i \in send[d]}]
    /\ UNCHANGED <<queue, cache, local, authority, mapped>>

\* Mutant: a verdict settles every pending row of its item.
SettlingItem(d) ==
    LET spread == {[v EXCEPT !.id = i] : v \in verdict[d],
                                         i \in {j \in Intent : state[j] = "pending"}}
    IN {v \in spread : ItemOf[v.key] = ItemOf[v.id]}

\* The verdicts that settle a row: for an intent of this batch, under the key
\* it was sent with, which is the key of its row, and the row still pending.
Settling(d) ==
    {v \in verdict[d] : /\ v.id \in send[d] /\ v.key = SendKey(d, v.id)
                        /\ v.key = v.id /\ state[v.id] = "pending"}

Applied(d) == {v \in Settling(d) : v.kind = "applied"}

\* apply_verdicts, one transaction: applied rows leave, refused rows become
\* conflicts with no ruling, later intents composed on the same base move to
\* the new version, and so does the snapshot, forward only.
Fold(d) ==
    /\ pc[d] = "answered"
    /\ state' = [i \in Intent |->
         IF \E v \in Applied(d) : v.id = i THEN "gone"
         ELSE IF \E v \in Settling(d) : v.id = i THEN "conflict" ELSE state[i]]
    /\ ruling' = [i \in Intent |->
         IF \E v \in Settling(d) \ Applied(d) : v.id = i THEN "none" ELSE ruling[i]]
    /\ base' = [j \in Intent |->
         LET on == {v \in Applied(d) : Later(v.id, j) /\ base[v.id] = base[j]} IN
         IF on # {} /\ state[j] \in {"pending", "blocked"}
         THEN (CHOOSE v \in on : TRUE).at ELSE base[j]]
    /\ cache' = [t \in Item |->
         LET new == {v \in Applied(d) : ItemOf[v.id] = t /\ cache[t] < v.at} IN
         IF new # {} /\ cache[t] # 0 THEN (CHOOSE v \in new : TRUE).at ELSE cache[t]]
    /\ pc' = [pc EXCEPT ![d] = "fetch"]
    /\ UNCHANGED <<local, request, authority, mapped>>

-----------------------------------------------------------------------------
(* The rest of the cycle.                                                  *)

\* The cycle is over: its locals are forgotten.
Rest(d) ==
    /\ pc' = [pc EXCEPT ![d] = "idle"]
    /\ todo' = [todo EXCEPT ![d] = {}] /\ hold' = [hold EXCEPT ![d] = {}]
    /\ send' = [send EXCEPT ![d] = {}] /\ failed' = [failed EXCEPT ![d] = FALSE]
    /\ was' = [was EXCEPT ![d] = Blank] /\ from' = [from EXCEPT ![d] = Zero]
    /\ verdict' = [verdict EXCEPT ![d] = {}]
    /\ fetched' = [fetched EXCEPT ![d] = [t \in Item |-> 0]]

\* fetch_backlog answers with the authority's items.
Fetch(d) ==
    /\ pc[d] = "fetch"
    /\ fetched' = [fetched EXCEPT ![d] = version]
    /\ pc' = [pc EXCEPT ![d] = "store"]
    /\ UNCHANGED <<queue, cache, todo, was, from, hold, send, failed, verdict,
                   request, authority, mapped>>

\* refresh_cache replaces the snapshot by what was fetched.
Store(d) ==
    /\ pc[d] = "store"
    /\ cache' = fetched[d]
    /\ Rest(d)
    /\ UNCHANGED <<queue, request, authority, mapped>>

\* The client gave up waiting, a step raised, the process died: the cycle ends
\* where it is.  A request that is out may be adjudicated all the same.
Abandon(d) ==
    /\ pc[d] # "idle"
    /\ Rest(d)
    /\ UNCHANGED <<queue, cache, request, authority, mapped>>

-----------------------------------------------------------------------------
(* The wire and the authority.                                             *)

\* What the authority answers to w: the receipt of a key it has applied, else
\* a refusal of a stale or invalid intent, else it applies w.
Known(w) == \E r \in receipts : r.key = w.key
Stale(w) == w.base # 0 /\ w.base # version[ItemOf[w.id]]
Refuses(w) == ~Known(w) /\ (Stale(w) \/ w.id \in refusing)

Verdicts(w) ==
    IF Known(w) THEN [id : {w.id}, key : {w.key}, kind : {"applied"},
                      at : {r.at : r \in {x \in receipts : x.key = w.key}}]
    ELSE IF Refuses(w) THEN {[id |-> w.id, key |-> w.key, kind |-> "refused", at |-> 0]}
    ELSE {[id |-> w.id, key |-> w.key, kind |-> "applied",
           at |-> version[ItemOf[w.id]] + 1]}

\* One intent of a request; the verdict is for the call that still waits.
Adjudicate(d, w) ==
    /\ w \in request[d]
    /\ request' = [request EXCEPT ![d] = @ \ {w}]
    /\ \E v \in Verdicts(w) :
          /\ verdict' = IF pc[d] = "sent"
                        THEN [verdict EXCEPT ![d] = @ \cup {v}] ELSE verdict
          /\ IF Known(w) \/ Refuses(w) THEN UNCHANGED <<version, receipts, log>>
             ELSE /\ version' = [version EXCEPT ![ItemOf[w.id]] = @ + 1]
                  /\ receipts' = receipts \cup {[key |-> w.key, at |-> v.at]}
                  /\ log' = [log EXCEPT ![ItemOf[w.id]] = Append(@, w.id)]
    /\ UNCHANGED <<queue, cache, pc, todo, was, from, hold, send, failed,
                   fetched, refusing, mapped>>

\* The request never arrived, or the write failed (write_failed): no receipt,
\* and nothing for the row.
Lose(d, w) ==
    /\ w \in request[d]
    /\ request' = [request EXCEPT ![d] = @ \ {w}]
    /\ UNCHANGED <<queue, cache, cycle, authority, mapped>>

\* The whole answer is back, in the exact idempotent-v1 shape.
Reply(d) ==
    /\ pc[d] = "sent" /\ request[d] = {}
    /\ pc' = [pc EXCEPT ![d] = "answered"]
    /\ UNCHANGED <<queue, cache, local, request, authority, mapped>>

\* Somebody else edits an item.
ForeignEdit(t) ==
    /\ version[t] < MaxVersion
    /\ version' = [version EXCEPT ![t] = @ + 1]
    /\ UNCHANGED <<queue, cache, cycle, request, receipts, refusing, log, mapped>>

\* The authority comes to accept what it rejected.
Accept(i) ==
    /\ MayAccept /\ i \in refusing
    /\ refusing' = refusing \ {i}
    /\ UNCHANGED <<queue, cache, cycle, request, version, receipts, log, mapped>>

\* A release whose wire mapper, or route, can carry i.
Release(i) ==
    /\ i \notin mapped
    /\ mapped' = mapped \cup {i}
    /\ UNCHANGED <<queue, cache, cycle, request, authority>>

-----------------------------------------------------------------------------
Look(d, i) == Skip(d, i) \/ HoldBehind(d, i) \/ Block(d, i) \/ Retire(d, i) \/ Take(d, i)

Drain(d) ==
    \/ ReadCandidates(d) \/ ReadBarriers(d) \/ Post(d) \/ Fold(d)
    \/ Fetch(d) \/ Store(d) \/ Abandon(d) \/ Reply(d)
    \/ \E i \in Intent : Look(d, i)
    \/ \E w \in request[d] : Adjudicate(d, w) \/ Lose(d, w)

Write(i) ==
    \/ Draft(i) \/ Enqueue(i) \/ Accept(i) \/ Release(i)
    \/ \E r \in Ruling : Classify(i, r)

Next ==
    \/ \E d \in Drainer : Drain(d)
    \/ \E i \in Intent : Write(i)
    \/ \E t \in Item : ForeignEdit(t)

Spec == Init /\ [][Next]_vars

\* The sitter polls for ever.  A step may be interrupted, but not every time it
\* is tried, and a call that is made again and again is answered once, with
\* nobody interrupted before the answer is folded; operators rule on refusals.
\* Nothing is assumed of releases or of what the authority accepts.
Answered(d, i) == \E v \in verdict[d] : v.id = i

Fairness ==
    /\ \A d \in Drainer :
          /\ WF_vars(ReadCandidates(d))
          /\ SF_vars(ReadBarriers(d)) /\ SF_vars(Post(d))
          /\ WF_vars(Reply(d) \/ Fold(d))
          /\ SF_vars(Fetch(d)) /\ SF_vars(Store(d))
          /\ \A i \in Intent :
                /\ SF_vars(Look(d, i))
                /\ SF_vars(pc[d] = "sent" /\ \E w \in request[d] : w.id = i /\ Adjudicate(d, w))
                /\ SF_vars(Answered(d, i) /\ Reply(d))
                /\ SF_vars(Answered(d, i) /\ Fold(d))
    /\ \A i \in Intent : WF_vars(ruling[i] = "none" /\ \E r \in Ruling : Classify(i, r))

FairSpec == Spec /\ Fairness

-----------------------------------------------------------------------------
(* Properties.                                                             *)

\* backlog_write_queue.py:156: however often an intent is sent, by however many
\* processes, and whatever answer is lost, it is applied at most once.
AppliedOnce ==
    \A t \in Item : \A m, n \in DOMAIN log[t] : log[t][m] = log[t][n] => m = n

\* A row leaves the queue only for a write the authority has applied, never for
\* one that shared its item with it.
NothingLost ==
    \A i \in Intent : state[i] = "gone" => \E n \in DOMAIN log[ItemOf[i]] : log[ItemOf[i]][n] = i

\* The authority has refused i, and an operator may have put it back since.
Refused(i) == state[i] = "conflict" \/ ruling[i] # "none"

\* backlog_write_queue.py:74 (CLASSIFICATIONS): a write that stands refused was not
\* applied by any copy of it that some process sent, and no copy still under way
\* will be: what an operator discards is not in the authority's history.
RefusedForGood ==
    \A i \in Intent : Refused(i) => \A n \in DOMAIN log[ItemOf[i]] : log[ItemOf[i]][n] # i

\* backlog_write_queue.py:435 (undecided_barriers): no write is applied past an
\* earlier one of its item that is still undecided; they are applied in the order
\* they were queued.
NotOvertaken ==
    [][\A i \in Intent, t \in Item :
         log'[t] # log[t] /\ ItemOf[i] = t /\ Undecided(i) => log'[t][Len(log'[t])] <= i]_vars

\* A refusal is final until an operator says otherwise: what the server refused
\* stays in the queue with its intent, and is not taken for done.
KeepsRefusals ==
    \A i \in Intent : state[i] = "conflict" => state'[i] \in {"conflict", "pending"}
RefusalKept == [][KeepsRefusals]_vars

\* Every queued write that is not behind one the release cannot carry is
\* settled: applied, retired, or refused and put to an operator.
Carried(i) == \A j \in Unmapped : ItemOf[j] = ItemOf[i] => j > i
Settled == \A i \in Intent :
    Carried(i) /\ state[i] = "pending" ~> state[i] \in {"gone", "local_only", "conflict"}
=============================================================================
