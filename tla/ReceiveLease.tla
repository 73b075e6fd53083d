----------------------------- MODULE ReceiveLease -----------------------------
(***************************************************************************)
(* The lease that says whether an actor is waiting for messages            *)
(* (receive_lease_store.py), written by its parks (xaacp_wait_next), by    *)
(* the end of its turns (receive_lease_stop.py) and read by who asks it to *)
(* park and who reports it missing.                                        *)
(*                                                                         *)
(* A park registers in the park log, which numbers it, then arms the       *)
(* lease, proves with heartbeats that it is in flight, and settles when it *)
(* returns.  The log and the lease are two databases: each of these is a   *)
(* step of its own, and calls of an actor overtake each other in between.  *)
(* A forwarded park is a sequence of calls under one key, the first that   *)
(* was answered takes over, the later ones go on; a call whose answer is   *)
(* lost is made again while the first may still run.  The park log may be  *)
(* lost and made anew, under another epoch.  An arm or a settle that raises*)
(* is swallowed: the park goes on with the lease as it was.                *)
(*                                                                         *)
(* One actor on one route, a seat or a subagent: the end of a turn arms    *)
(* the lease of the one and releases that of the other.  Time is left out: *)
(* deadlines pass and proofs run out at any moment, but the lease that a   *)
(* park armed outlasts the park (granted plus 30 s), and the end of a turn *)
(* never shortens it (_LIVE_PARK_OUTLASTS).                                *)
(***************************************************************************)
EXTENDS Naturals

CONSTANTS
    Call,           \* calls of wait_next at the store
    Key,            \* parks: the key of a park, reused once it is over
    MaxGen,         \* bound: registrations in one park log
    MaxEpoch        \* bound: park logs

ASSUME BoundAssumption == MaxGen \in Nat /\ MaxEpoch \in Nat \ {0}
ASSUME KeyAssumption == "none" \notin Key \cup Call

VARIABLES
    \* the park log
    epoch,      \* which log it is
    current,    \* last_park_id, "none" without a row
    gen,        \* last_park_gen
    \* the lease row
    state,      \* "none" without a row
    armedBy,    \* park_gen and park_epoch of the park that armed it last
    live,       \* park_live_until is ahead
    deadline,   \* lease_deadline: "none", "ahead" or "past"
    latched,    \* alarm_latched_at
    asked,      \* request_announced_at
    \* the calls at the store
    pc,         \* [Call -> Phase]
    key,        \* [Call -> Key or "none"], the park it is a slice of
    mine,       \* [Call -> the number it registered under]
    \* the callers
    answered,   \* [Key -> BOOLEAN]: a call of the park was answered
    \* who asks the actor to park
    read,       \* the number on the row it read, or NotRead
    \* the payloads of the actor's stops
    subagent,   \* they carry an agent_id
    \* what is remembered of the past
    fresh,      \* [Call -> BOOLEAN]: its last proof has not run out
    shared,     \* calls that ran along with another call of their park
    landed      \* calls whose arm reached the lease store

log == <<epoch, current, gen>>
row == <<state, armedBy, live, deadline, latched, asked>>
calls == <<pc, key, mine>>
past == <<fresh, shared, landed>>
vars == <<log, row, calls, answered, read, subagent, past>>

LeaseState == {"none", "waiting", "working", "released"}
Phase == {"idle", "registered", "parked", "returning"}

\* The number of a registration: its generation within an epoch.
Number == [gen : Nat, epoch : Nat]
NoNumber == [gen |-> 0, epoch |-> 0]
NotRead == [gen |-> 0, epoch |-> MaxEpoch + 1]

Init ==
    /\ epoch = 1 /\ current = "none" /\ gen = 0
    /\ state = "none" /\ armedBy = NoNumber /\ live = FALSE
    /\ deadline = "none" /\ latched = FALSE /\ asked = FALSE
    /\ pc = [h \in Call |-> "idle"]
    /\ key = [h \in Call |-> "none"]
    /\ mine = [h \in Call |-> NoNumber]
    /\ answered = [k \in Key |-> FALSE]
    /\ read = NotRead /\ subagent \in BOOLEAN
    /\ fresh = [h \in Call |-> FALSE] /\ shared = {} /\ landed = {}

(***************************************************************************)
(* The callers: the slices of a park.                                      *)
(***************************************************************************)
\* The park is over for its caller: the key is done with.
Over(k) ==
    /\ answered[k]
    /\ answered' = [answered EXCEPT ![k] = FALSE]
    /\ UNCHANGED <<log, row, calls, read, past, subagent>>

\* A call ends; its answer may get through.
Ends(h, answer) ==
    /\ pc' = [pc EXCEPT ![h] = "idle"]
    /\ key' = [key EXCEPT ![h] = "none"]
    /\ mine' = [mine EXCEPT ![h] = NoNumber]
    /\ fresh' = [fresh EXCEPT ![h] = FALSE]
    /\ shared' = shared \ {h} /\ landed' = landed \ {h}
    /\ answered' \in {answered, [answered EXCEPT ![key[h]] = @ \/ answer]}

(***************************************************************************)
(* A park at the store.                                                    *)
(***************************************************************************)
\* A slice arrives: the first one, which may come late or twice, or one that
\* goes on with a park that was answered.  That one goes on only while its key
\* is current; in a log without a row it is the first.
Register(h, k, continues) ==
    LET renews == continues /\ current # "none"
        number == IF ~renews THEN [gen |-> gen + 1, epoch |-> epoch]
                  ELSE IF current = k THEN [gen |-> gen, epoch |-> epoch]
                  ELSE NoNumber
        others == {g \in Call : mine[g] = number /\ number # NoNumber}
    IN  /\ pc[h] = "idle"
        /\ continues => answered[k]
        /\ IF renews THEN UNCHANGED log
           ELSE /\ gen < MaxGen
                /\ gen' = gen + 1 /\ current' = k /\ UNCHANGED epoch
        /\ pc' = [pc EXCEPT ![h] = "registered"]
        /\ key' = [key EXCEPT ![h] = k]
        /\ mine' = [mine EXCEPT ![h] = number]
        /\ shared' = IF others = {} THEN shared ELSE shared \cup others \cup {h}
        /\ UNCHANGED <<row, answered, read, fresh, landed, subagent>>

\* Its process died.
Gone(h) ==
    /\ pc[h] # "idle"
    /\ Ends(h, FALSE)
    /\ UNCHANGED <<log, row, read, subagent>>

\* Mutant: the epoch of a park is not compared with the log's.
AnyEpoch(n) == TRUE

\* The number is of the log as it is now (_stale_epoch, under the lease lock).
\* When the epoch of the log cannot be read the arm and the settle do nothing:
\* see ArmFails and SettleFails.
CurrentEpoch(n) == n.epoch = epoch

\* Mutant: generations are compared across epochs.
NewerGen(n) == armedBy.gen <= n.gen

\* The compare-and-set of an arm.
NotOlder(n) == armedBy.epoch # n.epoch \/ armedBy.gen <= n.gen

Arm(h) ==
    /\ pc[h] = "registered"
    /\ pc' = [pc EXCEPT ![h] = "parked"] /\ landed' = landed \cup {h}
    /\ IF mine[h] # NoNumber /\ CurrentEpoch(mine[h]) /\ NotOlder(mine[h])
       THEN /\ state' = "waiting" /\ armedBy' = mine[h]
            /\ live' = TRUE /\ deadline' = "ahead"
            /\ latched' = FALSE /\ asked' = FALSE
            /\ fresh' = [fresh EXCEPT ![h] = TRUE]
       ELSE UNCHANGED <<row, fresh>>
    /\ UNCHANGED <<shared, log, key, mine, answered, read, subagent>>

\* The arm raised, which is swallowed (_arm_lease), or could not read the epoch
\* of the log: the park goes on and the row is left as it was.
ArmFails(h) ==
    /\ pc[h] = "registered"
    /\ pc' = [pc EXCEPT ![h] = "parked"]
    /\ UNCHANGED <<log, row, key, mine, answered, read, past, subagent>>

\* The heartbeat.
Renew(h) ==
    /\ pc[h] = "parked"
    /\ state = "waiting" /\ deadline = "ahead"
    /\ mine[h] # NoNumber /\ armedBy = mine[h]
    /\ live' = TRUE
    /\ fresh' = [fresh EXCEPT ![h] = TRUE]
    /\ UNCHANGED <<log, state, armedBy, deadline, latched, asked>>
    /\ UNCHANGED <<calls, answered, read, shared, landed, subagent>>

\* A park that sees another one current ends there.
Overtaken(h) ==
    /\ pc[h] = "parked" /\ current # key[h]
    /\ Ends(h, TRUE)
    /\ UNCHANGED <<log, row, read, subagent>>

\* It has something to return, its time is up, or its request was cancelled:
\* the last is not asked whether it is current.
Return(h) ==
    /\ pc[h] = "parked"
    /\ pc' = [pc EXCEPT ![h] = "returning"]
    /\ UNCHANGED <<log, row, key, mine, answered, read, past, subagent>>

\* Mutant: whoever returns settles the lease.
AnyNumber(n) == TRUE

\* The row still carries the number of the park that settles it.
Owns(n) == armedBy = n

\* Mutant: the proof of a park outlives it.
LiveKept == live

\* Only a row that waits can read as live: whatever ends the wait clears it.
LiveAfterWait == FALSE

Settle(h) ==
    /\ pc[h] = "returning"
    /\ IF mine[h] # NoNumber /\ CurrentEpoch(mine[h]) /\ Owns(mine[h]) /\ state # "none"
       THEN /\ state' = "working" /\ deadline' = "ahead"
            /\ live' = LiveAfterWait /\ latched' = FALSE
       ELSE UNCHANGED <<state, deadline, live, latched>>
    /\ Ends(h, TRUE)
    /\ UNCHANGED <<log, armedBy, asked, read, subagent>>

\* The settle raised, which is swallowed, or could not read the epoch: the call
\* is answered and the row still waits for it.
SettleFails(h) ==
    /\ pc[h] = "returning"
    /\ Ends(h, TRUE)
    /\ UNCHANGED <<log, row, read, subagent>>

\* The store of the park log is lost and made anew.
Recreate ==
    /\ epoch < MaxEpoch
    /\ epoch' = epoch + 1 /\ current' = "none" /\ gen' = 0
    /\ UNCHANGED <<row, calls, answered, read, past, subagent>>

(***************************************************************************)
(* The end of a turn, and the passing of time.                             *)
(***************************************************************************)
\* A turn ended: the actor owes a park.  That is no park: the number on the row
\* and the proof of a park in flight are kept.
StopArm ==
    /\ ~subagent
    /\ state' = "waiting" /\ deadline' = "ahead"
    /\ latched' = FALSE /\ asked' = FALSE
    /\ UNCHANGED <<log, armedBy, live, calls, answered, read, past, subagent>>

\* A subagent finished: it owes nothing any more.
Release ==
    /\ subagent
    /\ state' = "released" /\ deadline' = "none"
    /\ live' = LiveAfterWait /\ latched' = FALSE
    /\ fresh' = [h \in Call |-> FALSE]
    /\ UNCHANGED <<log, armedBy, asked, calls, answered, read, shared, landed, subagent>>

InFlight(h) == pc[h] \in {"parked", "returning"} /\ mine[h] # NoNumber

\* Its own arm put the deadline beyond its end.
Covered(h) ==
    InFlight(h) /\ h \in landed /\ CurrentEpoch(mine[h]) /\ armedBy = mine[h]

DeadlinePasses ==
    /\ deadline = "ahead"
    /\ state = "waiting" => \A h \in Call : ~Covered(h)
    /\ deadline' = "past" /\ live' = FALSE
    /\ fresh' = [h \in Call |-> FALSE]
    /\ UNCHANGED <<log, state, armedBy, latched, asked>>
    /\ UNCHANGED <<calls, answered, read, shared, landed, subagent>>

\* The heartbeats stop: the process of the park is gone or does not get on.
ProofLapses ==
    /\ live
    /\ live' = FALSE
    /\ fresh' = [h \in Call |-> FALSE]
    /\ UNCHANGED <<log, state, armedBy, deadline, latched, asked>>
    /\ UNCHANGED <<calls, answered, read, shared, landed, subagent>>

\* The drop is reported once.
Alarm ==
    /\ state \in {"waiting", "working"} /\ deadline = "past" /\ ~latched
    /\ latched' = TRUE
    /\ UNCHANGED <<log, state, armedBy, live, deadline, asked>>
    /\ UNCHANGED <<calls, answered, read, past, subagent>>

(***************************************************************************)
(* Asking the actor to park: the row is read, then claimed.                *)
(***************************************************************************)
AskLook ==
    /\ read = NotRead
    /\ state = "waiting" /\ deadline # "past" /\ ~live
    /\ read' = armedBy
    /\ UNCHANGED <<log, row, calls, answered, past, subagent>>

\* Mutant: the claim looks at its latch only.
LatchOnly == ~asked

\* No park went live since the row was read, and it is the row that was read.
Askable == state = "waiting" /\ ~asked /\ ~live /\ armedBy = read

Ask ==
    /\ read # NotRead
    /\ asked' = (asked \/ Askable)
    /\ read' = NotRead
    /\ UNCHANGED <<log, state, armedBy, live, deadline, latched>>
    /\ UNCHANGED <<calls, answered, past, subagent>>

Next ==
    \/ \E k \in Key :
        \/ Over(k)
        \/ \E h \in Call : Register(h, k, TRUE) \/ Register(h, k, FALSE)
    \/ \E h \in Call :
        \/ Gone(h) \/ Arm(h) \/ ArmFails(h) \/ Renew(h)
        \/ Overtaken(h) \/ Return(h) \/ Settle(h) \/ SettleFails(h)
    \/ Recreate \/ StopArm \/ Release
    \/ DeadlinePasses \/ ProofLapses \/ Alarm \/ AskLook \/ Ask

Spec == Init /\ [][Next]_vars

(***************************************************************************)
(* Properties.                                                             *)
(***************************************************************************)
\* The types; and a row reads as live only while it waits before its deadline.
TypeOK ==
    /\ epoch \in 1..MaxEpoch /\ current \in Key \cup {"none"} /\ gen \in 0..MaxGen
    /\ state \in LeaseState /\ armedBy \in Number
    /\ live \in BOOLEAN /\ deadline \in {"none", "ahead", "past"}
    /\ latched \in BOOLEAN /\ asked \in BOOLEAN
    /\ pc \in [Call -> Phase] /\ key \in [Call -> Key \cup {"none"}]
    /\ mine \in [Call -> Number]
    /\ answered \in [Key -> BOOLEAN]
    /\ read \in Number /\ subagent \in BOOLEAN
    /\ fresh \in [Call -> BOOLEAN] /\ shared \subseteq Call
    /\ landed \subseteq {h \in Call : pc[h] \in {"parked", "returning"}}
    /\ live => state = "waiting" /\ deadline = "ahead"

\* The park that registered last, none of whose calls was made twice, if its arm
\* reached the lease store.  One whose arm failed is in flight all the same: of
\* that park the lease says nothing.
Newest(h) ==
    /\ InFlight(h) /\ h \in landed
    /\ mine[h] = [gen |-> gen, epoch |-> epoch] /\ h \notin shared

\* The fence is never lowered: what an older park does late, before or after
\* the park log was made anew, does not put its number on the row again.
FenceHolds ==
    [][\/ armedBy'.epoch > armedBy.epoch
       \/ armedBy'.epoch = armedBy.epoch /\ armedBy'.gen >= armedBy.gen]_vars

\* An actor whose park armed the lease reads as parked: while its newest park
\* is in flight and its arm reached the store, no late arm or settle of another
\* call takes the row from it, whichever of those fail, and a park of a log that
\* counts from 1 again is not locked out.  Of a park whose arm was swallowed
\* (_arm_lease) nothing is promised: "bookkeeping wrapped around a delivery rail".
ParkedReadsWaiting ==
    \A h \in Call :
        Newest(h) => state \in {"waiting", "released"} /\ armedBy = mine[h]

\* An actor is not asked to park while its park, whose arm reached the store,
\* proves itself: it would overtake its own park (claim_park_request, r0b2 B1).
NotAskedWhileParked ==
    [][~asked /\ asked' =>
        \A h \in Call : Newest(h) => ~fresh[h]]_vars

\* An actor is not reported missing while its newest park is in flight, if its
\* arm reached the store, however late the calls it overtook arm, settle or end.
NotReportedWhileParked ==
    [][~latched /\ latched' => \A h \in Call : ~Newest(h)]_vars
===============================================================================
