-------------------------- MODULE BacklogOutboxOrder --------------------------
(***************************************************************************)
(* Theorems about the order in which the writes of an item are applied, and *)
(* about refusals, for any intents, items and drainers.                    *)
(*                                                                         *)
(* The argument: a write that has been decided stays decided, so what a    *)
(* drainer knew of the earlier writes of an item when it took a later one  *)
(* is still true when the authority gets to it, however late: after the    *)
(* steps of other drainers, after the drainer itself has died.             *)
(*                                                                         *)
(* Whether a refusal decides a write depends on the question, so the       *)
(* invariant has a parameter: strictly, it does once an operator has ruled *)
(* on it, and only where nothing is put back into the queue; else it does  *)
(* at once.                                                                *)
(*                                                                         *)
(* A write with nothing undecided before it keeps its base, and a base     *)
(* that is stale stays so: hence what was refused once is refused for      *)
(* good, and the history of an item is in the order of its writes.         *)
(***************************************************************************)
EXTENDS BacklogOutboxProofs

-----------------------------------------------------------------------------
(* The invariant.                                                          *)

\* A refused write is discarded or kept, and never sent again.
NoRequeue == "requeue" \notin Ruling

\* The authority, the store or (strictly) an operator has had the last word on i.
Decided(strict, i) ==
    \/ state[i] \in {"gone", "local_only", "dropped"}
    \/ IF strict THEN state[i] = "conflict" /\ ruling[i] # "none" ELSE Refused(i)

\* The row of i was inserted, or its insertion has failed.
Made(i) == state[i] \notin {"unborn", "drafted"}

\* Nothing undecided comes before k in the history of its item.
Ahead(strict, k) == \A i \in Intent : Later(i, k) => Decided(strict, i)

\* Rows are inserted in the order of their queue ids.
InOrder == \A j, k \in Intent : j < k /\ Made(k) => Made(j)

\* What is on the wire, whoever sent it and whether they still wait for it.
WireAhead(strict) == \A d \in Drainer : \A w \in request[d] : Ahead(strict, w.id)

\* What a drainer has taken: it goes out only if every state has landed.
BatchAhead(strict) ==
    \A d \in Drainer : ~failed[d] => \A k \in send[d] : Ahead(strict, k)

\* Between the two reads: a row that is no candidate was decided, or refused.
ReadAhead(strict) == \A d \in Drainer : pc[d] = "read" =>
    \A k \in todo[d] : \A i \in Intent \ todo[d] :
        Later(i, k) => Decided(strict, i) \/ Unclassified(i)

\* In the loop: what was looked at before k and not decided makes k wait.
LoopAhead(strict) == \A d \in Drainer : pc[d] = "loop" /\ ~failed[d] =>
    \A k \in todo[d] : \A i \in Intent \ todo[d] :
        Later(i, k) => Decided(strict, i) \/ i \in hold[d] \/ Busy(d, i) \/ Held(d, i)

OrderInv(strict) ==
    /\ InOrder /\ WireAhead(strict) /\ BatchAhead(strict)
    /\ ReadAhead(strict) /\ LoopAhead(strict)

LEMMA OrderInit == ASSUME NEW strict \in BOOLEAN PROVE Init => OrderInv(strict)
  BY DEF Init, OrderInv, InOrder, WireAhead, BatchAhead, ReadAhead, LoopAhead, Made

-----------------------------------------------------------------------------
(* What lasts.                                                             *)

\* Which rows a step may move, where to, and rule on.
LEMMA RowStep ==
    ASSUME TypeOK, [Next]_vars, NEW i \in Intent
    PROVE  \/ state'[i] = state[i] /\ ruling'[i] = ruling[i]
           \/ /\ state[i] \in {"unborn", "drafted"} /\ ruling'[i] = ruling[i]
              /\ state'[i] \in {"drafted", "pending", "dropped"}
           \/ /\ state[i] \in {"pending", "blocked"} /\ ruling'[i] = ruling[i]
              /\ \/ state'[i] \in {"pending", "blocked"}
                 \/ state'[i] = "local_only" /\ i \in LocalOnly
           \/ state[i] = "pending" /\ state'[i] \in {"conflict", "gone"}
           \/ /\ state[i] = "conflict" /\ ruling'[i] \in Ruling
              /\ state'[i] = IF ruling'[i] = "requeue" THEN "pending" ELSE "conflict"
  <1>1. ASSUME NEW j \in Intent, NEW r \in Ruling, Classify(j, r)
        PROVE  \/ state'[i] = state[i] /\ ruling'[i] = ruling[i]
               \/ /\ state[i] = "conflict" /\ ruling'[i] \in Ruling
                  /\ state'[i] = IF ruling'[i] = "requeue" THEN "pending" ELSE "conflict"
    BY <1>1 DEF Classify, TypeOK
  <1>2. ASSUME NEW j \in Intent, Draft(j) \/ Enqueue(j) \/ Accept(j) \/ Release(j)
        PROVE  \/ state'[i] = state[i] /\ ruling'[i] = ruling[i]
               \/ /\ state[i] \in {"unborn", "drafted"} /\ ruling'[i] = ruling[i]
                  /\ state'[i] \in {"drafted", "pending", "dropped"}
    BY <1>2 DEF Draft, Enqueue, Accept, Release, queue, TypeOK
  <1>3. ASSUME NEW d \in Drainer, Fold(d)
        PROVE  \/ state'[i] = state[i] /\ ruling'[i] = ruling[i]
               \/ state[i] = "pending" /\ state'[i] \in {"conflict", "gone"}
    <2>1. CASE \E v \in Settling(d) : v.id = i
      <3>1. state[i] = "pending"
        BY <2>1 DEF Settling
      <3> QED BY <1>3, <2>1, <3>1 DEF Fold
    <2>2. CASE ~\E v \in Settling(d) : v.id = i
      BY <1>3, <2>2 DEF Fold, Applied
    <2> QED BY <2>1, <2>2
  <1>4. ASSUME NEW d \in Drainer, NEW j \in Intent, Look(d, j)
        PROVE  \/ state'[i] = state[i] /\ ruling'[i] = ruling[i]
               \/ /\ state[i] \in {"pending", "blocked"} /\ ruling'[i] = ruling[i]
                  /\ \/ state'[i] \in {"pending", "blocked"}
                     \/ state'[i] = "local_only" /\ i \in LocalOnly
    <2>1. ruling' = ruling
      BY <1>4 DEF Look, Skip, HoldBehind, Block, Retire, Take, Looked
    <2>2. \/ state' = state
          \/ /\ state[j] \in {"pending", "blocked"}
             /\ \E s \in {"pending", "blocked", "local_only"} :
                   /\ state' = [state EXCEPT ![j] = s]
                   /\ s = "local_only" => j \in LocalOnly
      BY <1>4 DEF Look, Skip, HoldBehind, Block, Retire, Take, SetState
    <2> QED BY <2>1, <2>2 DEF TypeOK
  <1>5. CASE UNCHANGED queue
    BY <1>5 DEF queue
  <1>6. \/ \E j \in Intent, r \in Ruling : Classify(j, r)
        \/ \E j \in Intent : Draft(j) \/ Enqueue(j) \/ Accept(j) \/ Release(j)
        \/ \E d \in Drainer : Fold(d) \/ \E j \in Intent : Look(d, j)
        \/ UNCHANGED queue
    BY DEF Next, Write, Drain, ReadCandidates, ReadBarriers, Post, Fetch, Store, Abandon,
           Reply, Adjudicate, Lose, ForeignEdit, vars
  <1> QED BY <1>1, <1>2, <1>3, <1>4, <1>5, <1>6

\* Once refused, a write is a conflict or bears a ruling, or was applied after
\* all and left.
LEMMA StaysRefused ==
    ASSUME TypeOK, [Next]_vars, NEW i \in Intent,
           Refused(i) \/ state[i] \in {"gone", "local_only", "dropped"}
    PROVE  Refused(i)' \/ state'[i] \in {"gone", "local_only", "dropped"}
  BY RowStep, RulingAssumption DEF Refused

\* What is decided stays decided, and a refusal nobody ruled on stays one or is
\* decided.
LEMMA StaysDecided ==
    ASSUME TypeOK, NEW strict \in BOOLEAN, strict => NoRequeue, [Next]_vars, NEW i \in Intent
    PROVE  /\ Decided(strict, i) => Decided(strict, i)'
           /\ Unclassified(i) => Decided(strict, i)' \/ Unclassified(i)'
  <1>1. CASE strict
    BY <1>1, RowStep, RulingAssumption DEF NoRequeue, Decided, Unclassified
  <1>2. CASE ~strict
    BY <1>2, StaysRefused DEF Decided, Unclassified, Refused
  <1> QED BY <1>1, <1>2

LEMMA StaysAhead ==
    ASSUME TypeOK, NEW strict \in BOOLEAN, strict => NoRequeue, [Next]_vars,
           NEW k \in Intent, Ahead(strict, k)
    PROVE  Ahead(strict, k)'
  BY StaysDecided DEF Ahead, Later

\* A row is made once, by the insertion of its intent.
LEMMA MadeStep ==
    ASSUME TypeOK, [Next]_vars, NEW i \in Intent
    PROVE  (Made(i) => Made(i)') /\ (Made(i)' => Made(i) \/ Enqueue(i))
  <1>1. ASSUME NEW j \in Intent, Write(j)
        PROVE  (Made(i) => Made(i)') /\ (Made(i)' => Made(i) \/ Enqueue(i))
    BY <1>1 DEF Write, Draft, Enqueue, Accept, Release, Classify, queue, Made, TypeOK
  <1>2. ASSUME NEW d \in Drainer, Fold(d) PROVE Made(i)' <=> Made(i)
    <2>1. \A v \in Settling(d) : v.id = i => Made(i)
      BY DEF Settling, Made
    <2> QED BY <1>2, <2>1 DEF Fold, Applied, Made
  <1>3. ASSUME NEW d \in Drainer, NEW j \in Intent, Look(d, j) PROVE Made(i)' <=> Made(i)
    BY <1>3 DEF Look, Skip, HoldBehind, Block, Retire, Take, SetState, Made, TypeOK
  <1>4. CASE state' = state
    BY <1>4 DEF Made
  <1>5. \/ \E j \in Intent : Write(j)
        \/ \E d \in Drainer : Fold(d) \/ \E j \in Intent : Look(d, j)
        \/ state' = state
    BY DEF Next, Drain, ReadCandidates, ReadBarriers, Post, Fetch, Store, Abandon,
           Reply, Adjudicate, Lose, ForeignEdit, queue, vars
  <1> QED BY <1>1, <1>2, <1>3, <1>4, <1>5

LEMMA InOrderStep == ASSUME TypeOK, InOrder, [Next]_vars PROVE InOrder'
  <1> SUFFICES ASSUME NEW j \in Intent, NEW k \in Intent, j < k, Made(k)'
               PROVE  Made(j)'
    BY DEF InOrder
  <1>1. CASE Made(k)
    BY <1>1, MadeStep DEF InOrder
  <1>2. CASE Enqueue(k)
    BY <1>2, MadeStep DEF Enqueue, Made
  <1> QED BY <1>1, <1>2, MadeStep

\* What a step may do to the locals that order a drainer's batch.
LEMMA LocalStep ==
    ASSUME TypeOK, [Next]_vars, NEW d \in Drainer
    PROVE  \/ /\ pc'[d] = pc[d] /\ todo'[d] = todo[d] /\ hold'[d] = hold[d]
              /\ send'[d] = send[d] /\ failed'[d] = failed[d] /\ from'[d] = from[d]
           \/ ReadCandidates(d) \/ ReadBarriers(d)
           \/ \E i \in Intent : Look(d, i)
           \/ /\ pc'[d] \notin {"read", "loop"}
              /\ \/ /\ send'[d] = send[d] /\ failed'[d] = failed[d]
                    /\ from'[d] = from[d] /\ pc'[d] # "idle"
                 \/ send'[d] = {}
  <1> DEFINE Same(e) == /\ pc'[e] = pc[e] /\ todo'[e] = todo[e] /\ hold'[e] = hold[e]
                        /\ send'[e] = send[e] /\ failed'[e] = failed[e]
                        /\ from'[e] = from[e]
  <1>1. ASSUME NEW e \in Drainer, Drain(e), e # d PROVE Same(d)
    <2>1. CASE ReadCandidates(e) BY <1>1, <2>1 DEF ReadCandidates, TypeOK
    <2>2. CASE ReadBarriers(e) BY <1>1, <2>2 DEF ReadBarriers, TypeOK
    <2>3. CASE Post(e) BY <1>1, <2>3 DEF Post, local, TypeOK
    <2>4. CASE Fold(e) BY <1>1, <2>4 DEF Fold, local, TypeOK
    <2>5. CASE Fetch(e) BY <1>1, <2>5 DEF Fetch, TypeOK
    <2>6. CASE Store(e) \/ Abandon(e) BY <1>1, <2>6 DEF Store, Abandon, Rest, TypeOK
    <2>7. CASE Reply(e) BY <1>1, <2>7 DEF Reply, local, TypeOK
    <2>8. ASSUME NEW i \in Intent, Look(e, i) PROVE Same(d)
      <3>1. pc'[d] = pc[d] /\ todo'[d] = todo[d] /\ from'[d] = from[d]
        BY <1>1, <2>8 DEF Look, Skip, HoldBehind, Block, Retire, Take, Looked, TypeOK
      <3>2. hold'[d] = hold[d] /\ failed'[d] = failed[d]
        BY <1>1, <2>8 DEF Look, Skip, HoldBehind, Block, Retire, Take, SetState, TypeOK
      <3>3. send' = send \/ send' = [send EXCEPT ![e] = @ \cup {i}]
        BY <2>8 DEF Look, Skip, HoldBehind, Block, Retire, Take
      <3> QED BY <1>1, <3>1, <3>2, <3>3 DEF TypeOK
    <2>9. ASSUME NEW w \in request[e], Adjudicate(e, w) \/ Lose(e, w) PROVE Same(d)
      BY <2>9 DEF Adjudicate, Lose, cycle, local
    <2> HIDE DEF Same
    <2> QED BY <1>1, <2>1, <2>2, <2>3, <2>4, <2>5, <2>6, <2>7, <2>8, <2>9 DEF Drain
  <1>2. CASE Drain(d)
    <2>1. CASE Post(d) BY <2>1 DEF Post, local, TypeOK
    <2>2. CASE Fold(d) BY <2>2 DEF Fold, local, TypeOK
    <2>3. CASE Fetch(d) BY <2>3 DEF Fetch, TypeOK
    <2>4. CASE Store(d) \/ Abandon(d) BY <2>4 DEF Store, Abandon, Rest, TypeOK
    <2>5. CASE Reply(d) BY <2>5 DEF Reply, local, TypeOK
    <2>6. ASSUME NEW w \in request[d], Adjudicate(d, w) \/ Lose(d, w) PROVE Same(d)
      BY <2>6 DEF Adjudicate, Lose, cycle, local
    <2> QED BY <1>2, <2>1, <2>2, <2>3, <2>4, <2>5, <2>6 DEF Drain
  <1>3. ASSUME NEW i \in Intent, Write(i) PROVE Same(d)
    BY <1>3 DEF Write, Draft, Enqueue, Accept, Release, Classify, cycle, local
  <1>4. ASSUME NEW t \in Item, ForeignEdit(t) PROVE Same(d)
    BY <1>4 DEF ForeignEdit, cycle, local
  <1>5. CASE UNCHANGED vars
    BY <1>5 DEF vars, cycle, local
  <1> QED BY <1>1, <1>2, <1>3, <1>4, <1>5 DEF Next

\* What makes an intent wait makes the later ones of its item wait.
LEMMA WaitsToo ==
    ASSUME TypeOK, NEW d \in Drainer, NEW i \in Intent, NEW k \in Intent, Later(i, k),
           i \in hold[d] \/ Busy(d, i) \/ Held(d, i)
    PROVE  Busy(d, k) \/ Held(d, k)
  <1>1. CASE i \in hold[d]
    BY <1>1 DEF Held
  <1>2. CASE Busy(d, i)
    BY <1>2 DEF Busy, Later
  <1>3. CASE Held(d, i)
    <2>1. PICK j \in hold[d] : Later(j, i)
      BY <1>3 DEF Held
    <2>2. j \in Intent
      BY DEF TypeOK
    <2>3. Later(j, k)
      BY <2>1, <2>2, IntentAssumption DEF Later
    <2> QED BY <2>3 DEF Held
  <1> QED BY <1>1, <1>2, <1>3

\* An intent that is neither busy nor held when its turn comes has nothing
\* undecided before it: what makes one drainer's look at the queue enough.
LEMMA ClearAhead ==
    ASSUME TypeOK, NEW strict \in BOOLEAN, LoopAhead(strict),
           NEW d \in Drainer, NEW k \in Intent,
           pc[d] = "loop", ~failed[d], Oldest(d, k), ~Busy(d, k), ~Held(d, k)
    PROVE  Ahead(strict, k)
  <1> SUFFICES ASSUME NEW i \in Intent, Later(i, k) PROVE Decided(strict, i)
    BY DEF Ahead
  <1>1. i \notin todo[d] /\ k \in todo[d]
    <2>1. ~(k <= i)
      BY IntentAssumption DEF Later
    <2> QED BY <2>1 DEF Oldest
  <1>2. Decided(strict, i) \/ i \in hold[d] \/ Busy(d, i) \/ Held(d, i)
    BY <1>1 DEF LoopAhead
  <1> QED BY <1>2, WaitsToo

\* A drainer's look at i leaves i decided, held back, in the batch, or behind
\* what holds it back; and what it takes has nothing undecided before it.
LEMMA LookEffect ==
    ASSUME TypeOK, NEW strict \in BOOLEAN, LoopAhead(strict),
           NEW d \in Drainer, NEW i \in Intent, Look(d, i)
    PROVE  /\ pc[d] = "loop" /\ pc'[d] = "loop" /\ Oldest(d, i) /\ todo'[d] = todo[d] \ {i}
           /\ hold[d] \subseteq hold'[d] /\ send[d] \subseteq send'[d]
           /\ failed[d] => failed'[d]
           /\ ~failed'[d] => \/ Decided(strict, i)' \/ i \in hold'[d] \/ Busy(d, i)' \/ Held(d, i)'
           /\ ~failed'[d] => \A k \in send'[d] : k \in send[d] \/ (k = i /\ Ahead(strict, i))
  <1>1. Looked(d, i)
    BY DEF Look, Skip, HoldBehind, Block, Retire, Take
  <1>2. /\ pc[d] = "loop" /\ pc'[d] = "loop" /\ Oldest(d, i)
        /\ todo'[d] = todo[d] \ {i}
    BY <1>1 DEF Looked, TypeOK
  <1>3. ASSUME NEW s \in State, SetState(d, i, s)
        PROVE  (failed[d] => failed'[d]) /\ (~failed'[d] => state'[i] = s /\ failed' = failed)
    BY <1>3 DEF SetState, TypeOK
  <1>4. CASE Skip(d, i)
    BY <1>2, <1>4 DEF Skip, Busy
  <1>5. CASE HoldBehind(d, i)
    <2>1. failed[d] => failed'[d]
      BY <1>3, <1>5 DEF HoldBehind, State
    <2>2. UNCHANGED <<hold, send>> /\ Held(d, i)
      BY <1>5 DEF HoldBehind
    <2> QED BY <1>2, <2>1, <2>2 DEF Held, Later
  <1>6. CASE Block(d, i)
    <2>1. failed[d] => failed'[d]
      BY <1>3, <1>6 DEF Block, State
    <2>2. hold'[d] = hold[d] \cup {i} /\ send' = send
      BY <1>6 DEF Block, TypeOK
    <2> QED BY <1>2, <2>1, <2>2
  <1>7. CASE Retire(d, i)
    <2>1. (failed[d] => failed'[d]) /\ (~failed'[d] => Decided(strict, i)')
      BY <1>3, <1>7 DEF Retire, State, Decided
    <2>2. UNCHANGED <<hold, send>>
      BY <1>7 DEF Retire
    <2> QED BY <1>2, <2>1, <2>2
  <1>8. CASE Take(d, i)
    <2>1. (failed[d] => failed'[d]) /\ (~failed'[d] => failed' = failed)
      BY <1>3, <1>8 DEF Take, State
    <2>2. hold' = hold /\ ~Busy(d, i) /\ ~Held(d, i)
      BY <1>8 DEF Take
    <2>3. send'[d] = send[d] \cup {i} \/ send'[d] = send[d]
      BY <1>8 DEF Take, TypeOK
    <2>4. failed' = failed => i \in send'[d]
      BY <1>8 DEF Take, TypeOK
    <2>5. ~failed'[d] => Ahead(strict, i)
      BY <1>2, <2>1, <2>2, ClearAhead
    <2>6. ~failed'[d] => Busy(d, i)'
      BY <2>1, <2>4 DEF Busy
    <2> QED BY <1>2, <2>1, <2>2, <2>3, <2>5, <2>6
  <1> QED BY <1>4, <1>5, <1>6, <1>7, <1>8 DEF Look

LEMMA BatchStep ==
    ASSUME TypeOK, NEW strict \in BOOLEAN, strict => NoRequeue, OrderInv(strict), [Next]_vars
    PROVE  BatchAhead(strict)'
  <1> SUFFICES ASSUME NEW d \in Drainer, ~failed'[d], NEW k \in send'[d]
               PROVE  Ahead(strict, k)'
    BY DEF BatchAhead
  <1>1. TypeOK' /\ k \in Intent
    BY TypeStep DEF TypeOK
  <1>2. CASE k \in send[d] /\ ~failed[d]
    BY <1>1, <1>2, StaysAhead DEF OrderInv, BatchAhead
  <1>3. ASSUME NEW i \in Intent, Look(d, i) PROVE Ahead(strict, k)'
    <2>1. ~failed[d] /\ (k \in send[d] \/ (k = i /\ Ahead(strict, i)))
      BY <1>3, LookEffect DEF OrderInv
    <2> QED BY <1>1, <1>2, <2>1, StaysAhead
  <1>4. CASE ReadCandidates(d) \/ ReadBarriers(d)
    BY <1>2, <1>4 DEF ReadCandidates, ReadBarriers
  <1> QED BY <1>2, <1>3, <1>4, LocalStep

\* What is on the wire was there, or is a batch whose states have all landed.
LEMMA RequestStep ==
    ASSUME TypeOK, [Next]_vars, NEW d \in Drainer, NEW w \in request'[d], w \notin request[d]
    PROVE  /\ ~failed[d] /\ w.id \in send[d] /\ w.base = from[d][w.id]
           /\ UNCHANGED <<base, state>>
  <1>1. ASSUME NEW e \in Drainer, Post(e), e # d PROVE request'[d] = request[d]
    BY <1>1 DEF Post, TypeOK
  <1>2. ASSUME NEW e \in Drainer, NEW x \in request[e], Adjudicate(e, x) \/ Lose(e, x)
        PROVE  request'[d] \subseteq request[d]
    <2>1. request' = [request EXCEPT ![e] = @ \ {x}]
      BY <1>2 DEF Adjudicate, Lose
    <2>2. request = [f \in Drainer |-> request[f]]
      BY DEF TypeOK
    <2> QED BY <2>1, <2>2
  <1>3. \/ request' = request
        \/ \E e \in Drainer : Post(e) \/ \E x \in request[e] : Adjudicate(e, x) \/ Lose(e, x)
    BY DEF Next, Drain, Write, Draft, Enqueue, Accept, Release, Classify, ForeignEdit,
           ReadCandidates, ReadBarriers, Fold, Fetch, Store, Abandon, Reply,
           Look, Skip, HoldBehind, Block, Retire, Take, Looked, vars
  <1>4. Post(d)
    BY <1>1, <1>2, <1>3
  <1>5. /\ ~failed[d] /\ UNCHANGED queue
        /\ w \in {[id |-> i, key |-> SendKey(d, i), base |-> from[d][i]] : i \in send[d]}
    BY <1>4 DEF Post, TypeOK
  <1> QED BY <1>5 DEF queue

LEMMA WireStep ==
    ASSUME TypeOK, NEW strict \in BOOLEAN, strict => NoRequeue, OrderInv(strict), [Next]_vars
    PROVE  WireAhead(strict)'
  <1> SUFFICES ASSUME NEW d \in Drainer, NEW w \in request'[d]
               PROVE  Ahead(strict, w.id)'
    BY DEF WireAhead
  <1>1. w.id \in Intent
    <2>1. w \in Wire
      BY TypeStep DEF TypeOK
    <2> QED BY <2>1 DEF Wire
  <1>2. CASE w \in request[d]
    BY <1>1, <1>2, StaysAhead DEF OrderInv, WireAhead
  <1>3. CASE w \notin request[d]
    <2>1. ~failed[d] /\ w.id \in send[d]
      BY <1>3, RequestStep
    <2> QED BY <1>1, <2>1, StaysAhead DEF OrderInv, BatchAhead
  <1> QED BY <1>2, <1>3

LEMMA ReadStep ==
    ASSUME TypeOK, NEW strict \in BOOLEAN, strict => NoRequeue, OrderInv(strict), [Next]_vars
    PROVE  ReadAhead(strict)'
  <1> SUFFICES ASSUME NEW d \in Drainer, pc'[d] = "read",
                      NEW k \in todo'[d], NEW i \in Intent \ todo'[d], Later(i, k)
               PROVE  Decided(strict, i)' \/ Unclassified(i)'
    BY DEF ReadAhead, Later
  <1>1. CASE pc[d] = "read" /\ todo'[d] = todo[d]
    BY <1>1, StaysDecided DEF OrderInv, ReadAhead
  <1>2. CASE ReadCandidates(d)
    <2>1. /\ state[k] \in {"pending", "blocked"} /\ state[i] \notin {"pending", "blocked"}
          /\ k \in Intent
      BY <1>2 DEF ReadCandidates, TypeOK
    <2>2. Made(i)
      BY <2>1 DEF OrderInv, InOrder, Later, Made
    <2>3. Decided(strict, i) \/ Unclassified(i)
      <3>1. state[i] \in {"dropped", "gone", "local_only", "conflict"}
        BY <2>1, <2>2 DEF Made, TypeOK, State
      <3> QED BY <3>1 DEF Decided, Unclassified, Refused
    <2> QED BY <2>3, StaysDecided
  <1>3. ASSUME NEW j \in Intent PROVE ~Look(d, j)
    BY LookEffect DEF OrderInv
  <1>4. ~ReadBarriers(d)
    BY DEF ReadBarriers, TypeOK
  <1> QED BY <1>1, <1>2, <1>3, <1>4, LocalStep

LEMMA LoopStep ==
    ASSUME TypeOK, NEW strict \in BOOLEAN, strict => NoRequeue, OrderInv(strict), [Next]_vars
    PROVE  LoopAhead(strict)'
  <1> SUFFICES ASSUME NEW d \in Drainer, pc'[d] = "loop", ~failed'[d],
                      NEW k \in todo'[d], NEW i \in Intent \ todo'[d], Later(i, k)
               PROVE  Decided(strict, i)' \/ i \in hold'[d] \/ Busy(d, i)' \/ Held(d, i)'
    BY DEF LoopAhead, Later
  <1>1. ASSUME Decided(strict, i) \/ i \in hold[d] \/ Busy(d, i) \/ Held(d, i),
               hold[d] \subseteq hold'[d], send[d] \subseteq send'[d]
        PROVE  Decided(strict, i)' \/ i \in hold'[d] \/ Busy(d, i)' \/ Held(d, i)'
    BY <1>1, StaysDecided DEF Busy, Held, Later
  <1>2. CASE /\ pc[d] = "loop" /\ ~failed[d] /\ todo'[d] = todo[d]
             /\ hold'[d] = hold[d] /\ send'[d] = send[d]
    BY <1>1, <1>2 DEF OrderInv, LoopAhead
  <1>3. CASE ReadBarriers(d)
    <2>1. /\ pc[d] = "read" /\ todo'[d] = todo[d]
          /\ hold'[d] = {j \in Intent : Unclassified(j)}
      BY <1>3 DEF ReadBarriers, TypeOK
    <2>2. Decided(strict, i) \/ Unclassified(i)
      BY <2>1 DEF OrderInv, ReadAhead
    <2> QED BY <2>1, <2>2, StaysDecided
  <1>4. ASSUME NEW j \in Intent, Look(d, j)
        PROVE  Decided(strict, i)' \/ i \in hold'[d] \/ Busy(d, i)' \/ Held(d, i)'
    <2>1. /\ pc[d] = "loop" /\ todo'[d] = todo[d] \ {j} /\ ~failed[d]
          /\ hold[d] \subseteq hold'[d] /\ send[d] \subseteq send'[d]
          /\ Decided(strict, j)' \/ j \in hold'[d] \/ Busy(d, j)' \/ Held(d, j)'
      BY <1>4, LookEffect DEF OrderInv
    <2>2. CASE i = j
      BY <2>1, <2>2
    <2>3. CASE i # j
      BY <1>1, <2>1, <2>3 DEF OrderInv, LoopAhead
    <2> QED BY <2>2, <2>3
  <1>5. ~ReadCandidates(d)
    BY DEF ReadCandidates, TypeOK
  <1> QED BY <1>2, <1>3, <1>4, <1>5, LocalStep

LEMMA OrderStep ==
    ASSUME TypeOK, NEW strict \in BOOLEAN, strict => NoRequeue, OrderInv(strict), [Next]_vars
    PROVE  OrderInv(strict)'
  BY InOrderStep, WireStep, BatchStep, ReadStep, LoopStep DEF OrderInv

-----------------------------------------------------------------------------
(* What the authority applies.                                             *)

\* It applies what is on the wire, and nothing undecided is before that.
LEMMA AppendStep ==
    ASSUME TypeOK, NEW strict \in BOOLEAN, WireAhead(strict), [Next]_vars,
           NEW t \in Item, log'[t] # log[t]
    PROVE  \E k \in Intent : /\ ItemOf[k] = t /\ log'[t][Len(log'[t])] = k
                             /\ Ahead(strict, k)
  <1>1. PICK d \in Drainer : \E w \in request[d] : Adjudicate(d, w)
    BY DEF Next, Drain, Write, Draft, Enqueue, Accept, Release, Classify, ForeignEdit,
           ReadCandidates, ReadBarriers, Post, Fold, Fetch, Store, Abandon, Reply, Lose,
           Look, Skip, HoldBehind, Block, Retire, Take, Looked, authority, vars
  <1>2. PICK w \in request[d] : Adjudicate(d, w)
    BY <1>1
  <1>3. w.id \in Intent /\ ItemOf[w.id] \in Item
    <2>1. w \in Wire
      BY DEF TypeOK
    <2>2. w.id \in Intent
      BY <2>1 DEF Wire
    <2> QED BY <2>2, IntentAssumption
  <1>4. log' = [log EXCEPT ![ItemOf[w.id]] = Append(@, w.id)]
    BY <1>2 DEF Adjudicate
  <1>5. ItemOf[w.id] = t /\ log'[t] = Append(log[t], w.id) /\ log[t] \in Seq(Intent)
    BY <1>3, <1>4 DEF TypeOK
  <1>6. log'[t][Len(log'[t])] = w.id
    BY <1>3, <1>5
  <1>7. Ahead(strict, w.id)
    BY DEF WireAhead
  <1> QED BY <1>3, <1>5, <1>6, <1>7

\* A write that is not decided comes no earlier than what is applied.
LEMMA NoEarlier ==
    ASSUME NEW strict \in BOOLEAN, NEW i \in Intent, NEW k \in Intent,
           ItemOf[i] = ItemOf[k], Ahead(strict, k), ~Decided(strict, i)
    PROVE  k <= i
  <1>1. ~(i < k)
    BY DEF Ahead, Later
  <1> QED BY <1>1, IntentAssumption

\* No write is applied past an earlier one of its item that is still undecided,
\* with any number of drainers, requests that outlive the cycle that sent them
\* and states that fail to land, as long as no refusal is put back into the queue.
THEOREM OrderIsKept == ASSUME NoRequeue PROVE Spec => NotOvertaken
  <1> DEFINE Inv == TypeOK /\ OrderInv(TRUE)
             Ordered == \A i \in Intent, t \in Item :
               log'[t] # log[t] /\ ItemOf[i] = t /\ Undecided(i) => log'[t][Len(log'[t])] <= i
  <1>1. Inv /\ [Next]_vars => [Ordered]_vars
    <2> SUFFICES ASSUME Inv, [Next]_vars, NEW i \in Intent, NEW t \in Item,
                        log'[t] # log[t], ItemOf[i] = t, Undecided(i)
                 PROVE  log'[t][Len(log'[t])] <= i
      OBVIOUS
    <2>1. ~Decided(TRUE, i)
      BY DEF Decided, Undecided, Unclassified
    <2>2. PICK k \in Intent :
            ItemOf[k] = t /\ log'[t][Len(log'[t])] = k /\ Ahead(TRUE, k)
      BY AppendStep DEF OrderInv
    <2> QED BY <2>1, <2>2, NoEarlier
  <1>2. Spec => []Inv
    <2>1. Init => Inv
      BY TypeInit, OrderInit
    <2>2. Inv /\ [Next]_vars => Inv'
      BY TypeStep, OrderStep
    <2> HIDE DEF Inv
    <2> QED BY <2>1, <2>2, PTL DEF Spec
  <1>3. Spec => [][Ordered]_vars
    <2> HIDE DEF Ordered, Inv
    <2> QED BY <1>1, <1>2, PTL DEF Spec
  <1> QED BY <1>3 DEF NotOvertaken

\* Whatever operators put back into the queue: what is applied passes no earlier
\* write of its item that waits and was never refused.
PassesRefusedOnly ==
    [][\A i \in Intent, t \in Item :
         log'[t] # log[t] /\ ItemOf[i] = t /\ Undecided(i) /\ ~Refused(i)
         => log'[t][Len(log'[t])] <= i]_vars

THEOREM OnlyRefusedArePassed == Spec => PassesRefusedOnly
  <1> DEFINE Inv == TypeOK /\ OrderInv(FALSE)
             Ordered == \A i \in Intent, t \in Item :
               log'[t] # log[t] /\ ItemOf[i] = t /\ Undecided(i) /\ ~Refused(i)
               => log'[t][Len(log'[t])] <= i
  <1>1. Inv /\ [Next]_vars => [Ordered]_vars
    <2> SUFFICES ASSUME Inv, [Next]_vars, NEW i \in Intent, NEW t \in Item,
                        log'[t] # log[t], ItemOf[i] = t, Undecided(i), ~Refused(i)
                 PROVE  log'[t][Len(log'[t])] <= i
      OBVIOUS
    <2>1. ~Decided(FALSE, i)
      BY DEF Decided, Undecided, Unclassified
    <2>2. PICK k \in Intent :
            ItemOf[k] = t /\ log'[t][Len(log'[t])] = k /\ Ahead(FALSE, k)
      BY AppendStep DEF OrderInv
    <2> QED BY <2>1, <2>2, NoEarlier
  <1>2. Spec => []Inv
    <2>1. Init => Inv
      BY TypeInit, OrderInit
    <2>2. Inv /\ [Next]_vars => Inv'
      BY TypeStep, OrderStep
    <2> HIDE DEF Inv
    <2> QED BY <2>1, <2>2, PTL DEF Spec
  <1>3. Spec => [][Ordered]_vars
    <2> HIDE DEF Ordered, Inv
    <2> QED BY <1>1, <1>2, PTL DEF Spec
  <1> QED BY <1>3 DEF PassesRefusedOnly

-----------------------------------------------------------------------------
(* Refusals: the invariant.                                                *)

\* A refusal of i has been answered, whether or not it was folded into the row.
Turned(i) == Refused(i) \/ \E d \in Drainer : \E v \in verdict[d] : v.id = i /\ v.kind = "refused"

\* Nothing on this side is ahead of the authority, whose versions only grow.
Bounded ==
    /\ \A i \in Intent : base[i] <= version[ItemOf[i]]
    /\ \A t \in Item : cache[t] <= version[t]
    /\ \A d \in Drainer, t \in Item : fetched[d][t] <= version[t]
    /\ \A d \in Drainer : \A v \in verdict[d] : v.at <= version[ItemOf[v.id]]
    /\ \A i \in Intent : \A r \in receipts : r.key = i => r.at <= version[ItemOf[i]]

\* A cycle starts with an empty batch.
IdleClear == \A d \in Drainer : pc[d] = "idle" => send[d] = {}

\* Only rows are looked at, sent, answered and refused.
Born ==
    /\ \A d \in Drainer : /\ \A k \in todo[d] \cup send[d] : Made(k)
                          /\ \A w \in request[d] : Made(w.id)
                          /\ \A v \in verdict[d] : Made(v.id)
    /\ \A i \in Intent : Refused(i) => Made(i)

\* The base a drainer read is the row's, unless an earlier write of the item was
\* settled since: then that one is looked at first, or the row waits.
FromKept == \A d \in Drainer : pc[d] = "read" \/ (pc[d] = "loop" /\ ~failed[d]) =>
    \A k \in todo[d] : \/ from[d][k] = base[k]
                       \/ \E j \in todo[d] : Later(j, k) /\ state[j] = "gone"
                       \/ pc[d] = "loop" /\ (Busy(d, k) \/ Held(d, k))

\* What was taken goes out with the base its row has, now and until it is judged.
SentKept == \A d \in Drainer : ~failed[d] => \A k \in send[d] : from[d][k] = base[k]
WireKept == \A d \in Drainer : \A w \in request[d] : w.base = base[w.id]

\* What made the authority refuse i.
Hopeless(i) == i \in refusing \/ (base[i] # 0 /\ base[i] < version[ItemOf[i]])

\* A write turned down comes after nothing undecided, was never applied, and
\* would be refused again.
TurnedDown == \A i \in Intent : Turned(i) => Ahead(FALSE, i) /\ ~Done(i) /\ Hopeless(i)

RefusalInv ==
    /\ IInv /\ OrderInv(FALSE)
    /\ Bounded /\ IdleClear /\ Born /\ FromKept /\ SentKept /\ WireKept /\ TurnedDown

LEMMA RefusalInit == Init => RefusalInv
  <1> SUFFICES ASSUME Init PROVE RefusalInv
    OBVIOUS
  <1>1. IInv /\ OrderInv(FALSE)
    BY InitInv, OrderInit
  <1>2. \A i \in Intent : ItemOf[i] \in Item
    BY IntentAssumption
  <1>3. Bounded
    BY <1>2, VersionAssumption DEF Init, Bounded
  <1>4. IdleClear /\ Born /\ FromKept /\ SentKept /\ WireKept
    BY DEF Init, IdleClear, Born, FromKept, SentKept, WireKept, Refused, Made
  <1>5. TurnedDown
    BY DEF Init, TurnedDown, Turned, Refused
  <1> QED BY <1>1, <1>3, <1>4, <1>5 DEF RefusalInv

-----------------------------------------------------------------------------
(* Refusals: what the steps do.                                            *)

\* What the authority does with an intent, and the verdict it answers.
LEMMA Adjudication ==
    ASSUME TypeOK, NEW d \in Drainer, NEW w \in request[d], Adjudicate(d, w)
    PROVE  /\ w \in Wire /\ w.id \in Intent /\ ItemOf[w.id] \in Item
           /\ \E v \in Verdicts(w) :
                /\ v \in Verdict /\ v.id = w.id
                /\ \A e \in Drainer : verdict'[e] \subseteq verdict[e] \cup {v}
                /\ \/ /\ v.kind = "applied" /\ UNCHANGED <<version, receipts, log>>
                      /\ \E r \in receipts : r.key = w.key /\ r.at = v.at
                   \/ /\ ~Known(w) /\ Refuses(w) /\ v.at = 0
                      /\ UNCHANGED <<version, receipts, log>>
                   \/ /\ ~Known(w) /\ ~Refuses(w) /\ v.kind = "applied"
                      /\ v.at = version[ItemOf[w.id]] + 1
                      /\ version' = [version EXCEPT ![ItemOf[w.id]] = @ + 1]
                      /\ receipts' = receipts \cup {[key |-> w.key, at |-> v.at]}
                      /\ log' = [log EXCEPT ![ItemOf[w.id]] = Append(@, w.id)]
  <1>1. w \in Wire /\ w.id \in Intent /\ ItemOf[w.id] \in Item
    <2>1. w \in Wire
      BY DEF TypeOK
    <2>2. w.id \in Intent
      BY <2>1 DEF Wire
    <2> QED BY <2>1, <2>2, IntentAssumption
  <1>2. PICK v \in Verdicts(w) :
          /\ verdict' = IF pc[d] = "sent"
                        THEN [verdict EXCEPT ![d] = @ \cup {v}] ELSE verdict
          /\ IF Known(w) \/ Refuses(w) THEN UNCHANGED <<version, receipts, log>>
             ELSE /\ version' = [version EXCEPT ![ItemOf[w.id]] = @ + 1]
                  /\ receipts' = receipts \cup {[key |-> w.key, at |-> v.at]}
                  /\ log' = [log EXCEPT ![ItemOf[w.id]] = Append(@, w.id)]
    BY DEF Adjudicate
  <1>3. v \in Verdict /\ v.id = w.id
    <2>1. v.id = w.id
      BY <1>2 DEF Verdicts
    <2> QED BY <1>1, <2>1, VerdictsType
  <1>4. \A e \in Drainer : verdict'[e] \subseteq verdict[e] \cup {v}
    BY <1>2 DEF TypeOK
  <1>5. CASE Known(w)
    BY <1>1, <1>2, <1>3, <1>4, <1>5 DEF Verdicts
  <1>6. CASE ~Known(w) /\ Refuses(w)
    BY <1>1, <1>2, <1>3, <1>4, <1>6 DEF Verdicts
  <1>7. CASE ~Known(w) /\ ~Refuses(w)
    BY <1>1, <1>2, <1>3, <1>4, <1>7 DEF Verdicts
  <1> QED BY <1>5, <1>6, <1>7

\* Every other step leaves the authority's books alone and brings no verdict.
LEMMA QuietStep ==
    ASSUME TypeOK, [Next]_vars
    PROVE  \/ \E d \in Drainer : \E w \in request[d] : Adjudicate(d, w)
           \/ /\ UNCHANGED <<receipts, log>>
              /\ \A d \in Drainer : verdict'[d] \subseteq verdict[d]
  <1>1. ASSUME NEW d \in Drainer, Drain(d),
               ~\E w \in request[d] : Adjudicate(d, w)
        PROVE  UNCHANGED <<receipts, log>>
    BY <1>1 DEF Drain, ReadCandidates, ReadBarriers, Post, Fold, Fetch, Store, Abandon,
                Reply, Lose, Look, Skip, HoldBehind, Block, Retire, Take, Looked, authority
  <1>2. ASSUME NEW d \in Drainer, Drain(d), NEW e \in Drainer,
               ~\E w \in request[d] : Adjudicate(d, w)
        PROVE  verdict'[e] \subseteq verdict[e]
    <2>1. verdict' = verdict \/ verdict' = [verdict EXCEPT ![d] = {}]
      BY <1>2 DEF Drain, ReadCandidates, ReadBarriers, Post, Fold, Fetch, Store, Abandon, Rest,
                  Reply, Lose, Look, Skip, HoldBehind, Block, Retire, Take, Looked, cycle, local
    <2> QED BY <2>1 DEF TypeOK
  <1>3. ASSUME NEW i \in Intent, Write(i) PROVE UNCHANGED <<receipts, log, verdict>>
    BY <1>3 DEF Write, Draft, Enqueue, Accept, Release, Classify, cycle, local, authority
  <1>4. ASSUME NEW t \in Item, ForeignEdit(t) PROVE UNCHANGED <<receipts, log, verdict>>
    BY <1>4 DEF ForeignEdit, cycle, local
  <1>5. CASE UNCHANGED vars
    BY <1>5 DEF vars, cycle, local, authority
  <1> QED BY <1>1, <1>2, <1>3, <1>4, <1>5 DEF Next

LEMMA VersionGrows ==
    ASSUME TypeOK, [Next]_vars, NEW t \in Item
    PROVE  version[t] \in Nat /\ version'[t] \in Nat /\ version[t] <= version'[t]
  <1>1. version[t] \in Nat
    BY DEF TypeOK
  <1>2. ASSUME NEW d \in Drainer, NEW w \in request[d], Adjudicate(d, w)
        PROVE  version' = version \/ \E u \in Item : version' = [version EXCEPT ![u] = @ + 1]
    BY <1>2, Adjudication
  <1>3. \/ version' = version
        \/ \E u \in Item : version' = [version EXCEPT ![u] = @ + 1]
        \/ \E d \in Drainer : \E w \in request[d] : Adjudicate(d, w)
    BY DEF Next, Drain, Write, Draft, Enqueue, Accept, Release, Classify, ForeignEdit,
           ReadCandidates, ReadBarriers, Post, Fold, Fetch, Store, Abandon, Reply, Lose,
           Look, Skip, HoldBehind, Block, Retire, Take, Looked, authority, vars
  <1>4. version' = version \/ \E u \in Item : version' = [version EXCEPT ![u] = @ + 1]
    BY <1>2, <1>3
  <1>5. version' = version \/ version'[t] = version[t] \/ version'[t] = version[t] + 1
    <2>1. version = [u \in Item |-> version[u]]
      BY DEF TypeOK
    <2> QED BY <1>4, <2>1
  <1> QED BY <1>1, <1>5

\* A base is read when the write is made, and moved when an earlier write of its
\* item is folded as applied.
LEMMA BaseStep ==
    ASSUME TypeOK, [Next]_vars, NEW k \in Intent, base'[k] # base[k]
    PROVE  \/ Draft(k)
           \/ \E d \in Drainer : \E v \in Applied(d) :
                Fold(d) /\ Later(v.id, k) /\ base'[k] = v.at
  <1>1. ASSUME NEW i \in Intent, Write(i) PROVE Draft(k)
    BY <1>1 DEF Write, Draft, Enqueue, Accept, Release, Classify, queue, TypeOK
  <1>2. ASSUME NEW d \in Drainer, Fold(d)
        PROVE  \E v \in Applied(d) : Later(v.id, k) /\ base'[k] = v.at
    <2> DEFINE on == {v \in Applied(d) : Later(v.id, k) /\ base[v.id] = base[k]}
    <2>1. base'[k] = IF on # {} /\ state[k] \in {"pending", "blocked"}
                     THEN (CHOOSE v \in on : TRUE).at ELSE base[k]
      BY <1>2 DEF Fold
    <2>2. on # {} /\ base'[k] = (CHOOSE v \in on : TRUE).at
      BY <2>1
    <2>3. (CHOOSE v \in on : TRUE) \in on
      BY <2>2
    <2> QED BY <2>2, <2>3
  <1>3. \/ base' = base
        \/ \E i \in Intent : Write(i)
        \/ \E d \in Drainer : Fold(d)
    BY DEF Next, Drain, ReadCandidates, ReadBarriers, Post, Fetch, Store, Abandon, Reply,
           Adjudicate, Lose, Look, Skip, HoldBehind, Block, Retire, Take, Looked, ForeignEdit,
           queue, vars
  <1> QED BY <1>1, <1>2, <1>3

\* What is folded as applied was waiting, was never refused, and leaves.
LEMMA AppliedRow ==
    ASSUME IInv, TurnedDown, NEW d \in Drainer, NEW v \in Applied(d), Fold(d)
    PROVE  /\ v \in verdict[d] /\ v.id \in Intent
           /\ state[v.id] = "pending" /\ ~Refused(v.id) /\ ~Decided(FALSE, v.id)
           /\ state'[v.id] = "gone"
  <1>1. v \in verdict[d] /\ v.kind = "applied" /\ state[v.id] = "pending"
    BY DEF Applied, Settling
  <1>2. v.id \in Intent
    <2>1. v \in Verdict
      BY <1>1 DEF IInv, TypeOK
    <2> QED BY <2>1 DEF Verdict
  <1>3. Done(v.id)
    BY <1>1, <1>2 DEF IInv, Backed, Booked
  <1>4. ~Refused(v.id)
    BY <1>2, <1>3 DEF TurnedDown, Turned
  <1>5. state'[v.id] = "gone"
    BY <1>2 DEF Fold
  <1> QED BY <1>1, <1>2, <1>4, <1>5 DEF Decided

\* The base of a row with nothing undecided before it no longer moves.
LEMMA BaseFixed ==
    ASSUME RefusalInv, [Next]_vars, NEW k \in Intent, Made(k), Ahead(FALSE, k)
    PROVE  base'[k] = base[k]
  <1> SUFFICES ASSUME base'[k] # base[k] PROVE FALSE
    OBVIOUS
  <1>1. ~Draft(k)
    BY DEF Draft, Made
  <1>2. PICK d \in Drainer : \E v \in Applied(d) : Fold(d) /\ Later(v.id, k)
    BY <1>1, BaseStep DEF RefusalInv, IInv
  <1>3. PICK v \in Applied(d) : Fold(d) /\ Later(v.id, k)
    BY <1>2
  <1>4. v.id \in Intent /\ ~Decided(FALSE, v.id)
    BY <1>3, AppliedRow DEF RefusalInv
  <1> QED BY <1>3, <1>4 DEF Ahead


-----------------------------------------------------------------------------
(* Refusals: the invariant is inductive.                                   *)

LEMMA BoundedBase ==
    ASSUME RefusalInv, [Next]_vars, NEW i \in Intent
    PROVE  base'[i] <= version'[ItemOf[i]]
  <1>1. ItemOf[i] \in Item /\ base[i] \in Nat
    BY IntentAssumption DEF RefusalInv, IInv, TypeOK
  <1>2. /\ version[ItemOf[i]] \in Nat /\ version'[ItemOf[i]] \in Nat
        /\ version[ItemOf[i]] <= version'[ItemOf[i]]
    BY <1>1, VersionGrows DEF RefusalInv, IInv
  <1>3. CASE base'[i] = base[i]
    BY <1>1, <1>2, <1>3 DEF RefusalInv, Bounded
  <1>4. CASE Draft(i)
    <2>1. base'[i] = cache[ItemOf[i]]
      BY <1>4 DEF Draft, RefusalInv, IInv, TypeOK
    <2>2. cache[ItemOf[i]] \in Nat /\ cache[ItemOf[i]] <= version[ItemOf[i]]
      BY <1>1 DEF RefusalInv, Bounded, IInv, TypeOK
    <2> QED BY <1>2, <2>1, <2>2
  <1>5. ASSUME NEW d \in Drainer, NEW v \in Applied(d),
               Fold(d), Later(v.id, i), base'[i] = v.at
        PROVE  base'[i] <= version'[ItemOf[i]]
    <2>1. v \in verdict[d] /\ v \in Verdict
      BY DEF Applied, Settling, RefusalInv, IInv, TypeOK
    <2>2. v.at \in Nat /\ v.at <= version[ItemOf[v.id]] /\ ItemOf[v.id] = ItemOf[i]
      BY <1>5, <2>1 DEF RefusalInv, Bounded, Verdict, Later
    <2> QED BY <1>2, <1>5, <2>2
  <1> QED BY <1>3, <1>4, <1>5, BaseStep DEF RefusalInv, IInv

\* Only a fold and the end of a cycle write the snapshot, only a fetch what is
\* to become of it.
LEMMA BoundedCache ==
    ASSUME RefusalInv, [Next]_vars, NEW t \in Item
    PROVE  /\ cache'[t] <= version'[t]
           /\ \A d \in Drainer : fetched'[d][t] <= version'[t]
  <1>1. /\ version[t] \in Nat /\ version'[t] \in Nat /\ version[t] <= version'[t]
    BY VersionGrows DEF RefusalInv, IInv
  <1>2. /\ cache[t] \in Nat /\ cache[t] <= version[t]
        /\ \A d \in Drainer : fetched[d][t] \in Nat /\ fetched[d][t] <= version[t]
    BY DEF RefusalInv, Bounded, IInv, TypeOK
  <1>3. ASSUME UNCHANGED cache PROVE cache'[t] <= version'[t]
    BY <1>1, <1>2, <1>3
  <1>4. ASSUME NEW d \in Drainer, Store(d) PROVE cache'[t] <= version'[t]
    BY <1>1, <1>2, <1>4 DEF Store
  <1>5. ASSUME NEW d \in Drainer, Fold(d) PROVE cache'[t] <= version'[t]
    <2> DEFINE new == {v \in Applied(d) : ItemOf[v.id] = t /\ cache[t] < v.at}
    <2>1. cache'[t] = IF new # {} /\ cache[t] # 0 THEN (CHOOSE v \in new : TRUE).at ELSE cache[t]
      BY <1>5 DEF Fold
    <2>2. ASSUME new # {} PROVE (CHOOSE v \in new : TRUE) \in new
      BY <2>2
    <2>3. ASSUME NEW v \in new PROVE v.at \in Nat /\ v.at <= version[t]
      <3>1. v \in verdict[d] /\ v \in Verdict /\ ItemOf[v.id] = t
        BY DEF Applied, Settling, RefusalInv, IInv, TypeOK
      <3> QED BY <3>1 DEF RefusalInv, Bounded, Verdict
    <2> HIDE DEF new
    <2>4. cache'[t] = cache[t] \/ \E v \in new : cache'[t] = v.at
      BY <2>1, <2>2
    <2> QED BY <1>1, <1>2, <2>3, <2>4
  <1>6. UNCHANGED cache \/ \E d \in Drainer : Store(d) \/ Fold(d)
    BY DEF Next, Drain, Write, Draft, Enqueue, Accept, Release, Classify, ForeignEdit,
           ReadCandidates, ReadBarriers, Post, Fetch, Abandon, Reply, Adjudicate, Lose,
           Look, Skip, HoldBehind, Block, Retire, Take, Looked, vars
  <1>7. ASSUME NEW d \in Drainer PROVE fetched'[d][t] <= version'[t]
    <2>1. \/ UNCHANGED fetched
          \/ \E e \in Drainer : \/ fetched' = [fetched EXCEPT ![e] = version]
                                \/ fetched' = [fetched EXCEPT ![e] = [u \in Item |-> 0]]
      BY DEF Next, Drain, Write, Draft, Enqueue, Accept, Release, Classify, ForeignEdit,
             ReadCandidates, ReadBarriers, Post, Fold, Fetch, Store, Abandon, Rest, Reply,
             Adjudicate, Lose, Look, Skip, HoldBehind, Block, Retire, Take, Looked,
             cycle, local, vars
    <2>2. \/ fetched'[d] = fetched[d] \/ fetched'[d] = version
          \/ fetched'[d] = [u \in Item |-> 0]
      BY <2>1 DEF RefusalInv, IInv, TypeOK
    <2> QED BY <1>1, <1>2, <2>2
  <1> QED BY <1>3, <1>4, <1>5, <1>6, <1>7

\* Every verdict and receipt names a version the item has reached.
LEMMA BoundedBooks ==
    ASSUME RefusalInv, [Next]_vars
    PROVE  /\ \A d \in Drainer : \A v \in verdict'[d] : v.at <= version'[ItemOf[v.id]]
           /\ \A i \in Intent : \A r \in receipts' : r.key = i => r.at <= version'[ItemOf[i]]
  <1>1. ASSUME NEW i \in Intent
        PROVE  /\ version[ItemOf[i]] \in Nat /\ version'[ItemOf[i]] \in Nat
               /\ version[ItemOf[i]] <= version'[ItemOf[i]]
    <2>1. ItemOf[i] \in Item
      BY IntentAssumption
    <2> QED BY <2>1, VersionGrows DEF RefusalInv, IInv
  <1>2. ASSUME NEW d \in Drainer, NEW v \in verdict[d] PROVE v.at <= version'[ItemOf[v.id]]
    <2>1. v \in Verdict
      BY DEF RefusalInv, IInv, TypeOK
    <2>2. v.id \in Intent /\ v.at \in Nat /\ v.at <= version[ItemOf[v.id]]
      BY <2>1 DEF Verdict, RefusalInv, Bounded
    <2> QED BY <1>1, <2>2
  <1>3. ASSUME NEW i \in Intent, NEW r \in receipts, r.key = i
        PROVE  r.at \in Nat /\ r.at <= version[ItemOf[i]] /\ r.at <= version'[ItemOf[i]]
    <2>1. r.at \in Nat /\ r.at <= version[ItemOf[i]]
      BY <1>3 DEF RefusalInv, Bounded, IInv, TypeOK
    <2> QED BY <1>1, <2>1
  <1>4. CASE UNCHANGED receipts /\ \A d \in Drainer : verdict'[d] \subseteq verdict[d]
    BY <1>2, <1>3, <1>4
  <1>5. ASSUME NEW d \in Drainer, NEW w \in request[d], Adjudicate(d, w)
        PROVE  /\ \A e \in Drainer : \A v \in verdict'[e] : v.at <= version'[ItemOf[v.id]]
               /\ \A i \in Intent : \A r \in receipts' : r.key = i => r.at <= version'[ItemOf[i]]
    <2>1. w.id \in Intent /\ ItemOf[w.id] \in Item /\ w.key = w.id
      BY <1>5, Adjudication DEF RefusalInv, IInv, OwnKeys
    <2>2. PICK v \in Verdicts(w) :
            /\ v.id = w.id
            /\ \A e \in Drainer : verdict'[e] \subseteq verdict[e] \cup {v}
            /\ \/ /\ UNCHANGED receipts
                  /\ \E r \in receipts : r.key = w.key /\ r.at = v.at
               \/ v.at = 0 /\ UNCHANGED receipts
               \/ /\ v.at = version[ItemOf[w.id]] + 1
                  /\ version' = [version EXCEPT ![ItemOf[w.id]] = @ + 1]
                  /\ receipts' = receipts \cup {[key |-> w.key, at |-> v.at]}
      BY <1>5, Adjudication DEF RefusalInv, IInv
    <2>3. v.at <= version'[ItemOf[w.id]]
      <3>1. CASE \E r \in receipts : r.key = w.key /\ r.at = v.at
        BY <1>3, <2>1, <3>1
      <3>2. CASE v.at = 0
        BY <1>1, <2>1, <3>2
      <3>3. CASE /\ v.at = version[ItemOf[w.id]] + 1
                 /\ version' = [version EXCEPT ![ItemOf[w.id]] = @ + 1]
        <4>1. version'[ItemOf[w.id]] = version[ItemOf[w.id]] + 1
          BY <2>1, <3>3 DEF RefusalInv, IInv, TypeOK
        <4> QED BY <1>1, <2>1, <3>3, <4>1
      <3> QED BY <2>2, <3>1, <3>2, <3>3
    <2>4. \A e \in Drainer : \A x \in verdict'[e] : x.at <= version'[ItemOf[x.id]]
      BY <1>2, <2>2, <2>3
    <2>5. ASSUME NEW i \in Intent, NEW r \in receipts', r.key = i
          PROVE  r.at <= version'[ItemOf[i]]
      <3>1. r \in receipts \/ r = [key |-> w.key, at |-> v.at]
        BY <2>2
      <3> QED BY <1>3, <2>1, <2>3, <2>5, <3>1
    <2> QED BY <2>4, <2>5
  <1> QED BY <1>4, <1>5, QuietStep DEF RefusalInv, IInv

LEMMA BoundedStep == ASSUME RefusalInv, [Next]_vars PROVE Bounded'
  BY BoundedBase, BoundedCache, BoundedBooks DEF Bounded

LEMMA IdleStep == ASSUME TypeOK, IdleClear, OrderInv(FALSE), [Next]_vars PROVE IdleClear'
  <1> SUFFICES ASSUME NEW d \in Drainer, pc'[d] = "idle" PROVE send'[d] = {}
    BY DEF IdleClear
  <1>1. ~ReadBarriers(d) /\ ~ReadCandidates(d)
    BY DEF ReadBarriers, ReadCandidates, TypeOK
  <1>2. \A i \in Intent : ~Look(d, i)
    BY LookEffect DEF OrderInv
  <1> QED BY <1>1, <1>2, LocalStep DEF IdleClear


\* A write that is refused was refused before, or the drainer that folds its
\* refusal has it in hand.
LEMMA RefusedStep ==
    ASSUME TypeOK, [Next]_vars, NEW i \in Intent, Refused(i)'
    PROVE  \/ Refused(i)
           \/ \E d \in Drainer : \E v \in verdict[d] : v.id = i /\ v.kind = "refused"
  <1>1. ASSUME NEW j \in Intent, Write(j) PROVE Refused(i)
    BY <1>1 DEF Write, Draft, Enqueue, Accept, Release, Classify, queue, Refused, TypeOK
  <1>2. ASSUME NEW d \in Drainer, Fold(d), ~Refused(i)
        PROVE  \E v \in verdict[d] : v.id = i /\ v.kind = "refused"
    <2>1. PICK v \in Settling(d) \ Applied(d) : v.id = i
      BY <1>2 DEF Fold, Refused, TypeOK
    <2>2. v \in verdict[d] /\ v.kind # "applied" /\ v \in Verdict
      BY <2>1 DEF Settling, Applied, TypeOK
    <2> QED BY <2>1, <2>2 DEF Verdict
  <1>3. ASSUME NEW d \in Drainer, NEW j \in Intent, Look(d, j) PROVE Refused(i)
    BY <1>3 DEF Look, Skip, HoldBehind, Block, Retire, Take, SetState, Looked, Refused, TypeOK
  <1>4. CASE UNCHANGED queue
    BY <1>4 DEF queue, Refused
  <1>5. \/ \E j \in Intent : Write(j)
        \/ \E d \in Drainer : Fold(d) \/ \E j \in Intent : Look(d, j)
        \/ UNCHANGED queue
    BY DEF Next, Drain, ReadCandidates, ReadBarriers, Post, Fetch, Store, Abandon,
           Reply, Adjudicate, Lose, ForeignEdit, vars
  <1> QED BY <1>1, <1>2, <1>3, <1>4, <1>5

\* A drainer's candidates are those it read.
LEMMA TodoStep ==
    ASSUME TypeOK, [Next]_vars, NEW d \in Drainer
    PROVE  todo'[d] \subseteq todo[d] \/ ReadCandidates(d)
  <1>1. ASSUME NEW e \in Drainer, Drain(e), ~ReadCandidates(e)
        PROVE  todo'[d] \subseteq todo[d]
    <2>1. \/ todo' = todo \/ todo' = [todo EXCEPT ![e] = {}]
          \/ \E i \in Intent : todo' = [todo EXCEPT ![e] = @ \ {i}]
      BY <1>1 DEF Drain, ReadBarriers, Post, Fold, Fetch, Store, Abandon, Rest, Reply,
                  Adjudicate, Lose, Look, Skip, HoldBehind, Block, Retire, Take, Looked,
                  cycle, local
    <2> QED BY <2>1 DEF TypeOK
  <1>2. ASSUME NEW e \in Drainer, ReadCandidates(e), e # d PROVE todo'[d] = todo[d]
    BY <1>2 DEF ReadCandidates, TypeOK
  <1>3. UNCHANGED todo \/ \E e \in Drainer : Drain(e)
    BY DEF Next, Write, Draft, Enqueue, Accept, Release, Classify, ForeignEdit,
           cycle, local, vars
  <1> QED BY <1>1, <1>2, <1>3

LEMMA BornStep == ASSUME RefusalInv, [Next]_vars PROVE Born'
  <1>1. ASSUME NEW i \in Intent, Made(i) PROVE Made(i)'
    BY <1>1, MadeStep DEF RefusalInv, IInv
  <1>2. ASSUME NEW i \in Intent, Refused(i)' PROVE Made(i)'
    BY <1>1, <1>2, RefusedStep DEF RefusalInv, IInv, Born
  <1>3. ASSUME NEW d \in Drainer, NEW k \in todo'[d] \cup send'[d] PROVE Made(k)'
    <2>1. k \in Intent
      BY TypeStep DEF RefusalInv, IInv, TypeOK
    <2>2. CASE k \in todo[d] \cup send[d]
      BY <1>1, <2>1, <2>2 DEF RefusalInv, Born
    <2>3. CASE ReadCandidates(d)
      <3>1. k \in send[d] \/ state[k] \in {"pending", "blocked"}
        BY <2>3 DEF ReadCandidates, RefusalInv, IInv, TypeOK
      <3> QED BY <1>1, <2>1, <2>2, <3>1 DEF Made
    <2>4. ASSUME NEW i \in Intent, Look(d, i) PROVE k \in todo[d] \cup send[d]
      <3>1. todo'[d] = todo[d] \ {i} /\ i \in todo[d]
        BY <2>4, LookEffect DEF RefusalInv, IInv, OrderInv, Oldest
      <3>2. send'[d] \subseteq send[d] \cup {i}
        BY <2>4 DEF Look, Skip, HoldBehind, Block, Retire, Take, RefusalInv, IInv, TypeOK
      <3> QED BY <3>1, <3>2
    <2>5. CASE ReadBarriers(d)
      BY <2>2, <2>5 DEF ReadBarriers, RefusalInv, IInv, TypeOK
    <2>6. \/ k \in todo[d] \cup send[d] \/ ReadCandidates(d) \/ ReadBarriers(d)
          \/ \E i \in Intent : Look(d, i)
      BY TodoStep, LocalStep DEF RefusalInv, IInv
    <2> QED BY <2>2, <2>3, <2>4, <2>5, <2>6
  <1>4. ASSUME NEW d \in Drainer, NEW w \in request'[d] PROVE Made(w.id)'
    <2>1. w.id \in Intent
      <3>1. w \in Wire
        BY TypeStep DEF RefusalInv, IInv, TypeOK
      <3> QED BY <3>1 DEF Wire
    <2>2. Made(w.id)
      BY RequestStep DEF RefusalInv, IInv, Born
    <2> QED BY <1>1, <2>1, <2>2
  <1>5. ASSUME NEW d \in Drainer, NEW v \in verdict'[d] PROVE Made(v.id)'
    <2>1. v.id \in Intent
      <3>1. v \in Verdict
        BY TypeStep DEF RefusalInv, IInv, TypeOK
      <3> QED BY <3>1 DEF Verdict
    <2>2. v \in verdict[d] \/ \E e \in Drainer : \E w \in request[e] : v.id = w.id
      BY QuietStep, Adjudication DEF RefusalInv, IInv
    <2>3. Made(v.id)
      BY <2>2 DEF RefusalInv, Born
    <2> QED BY <1>1, <2>1, <2>3
  <1> QED BY <1>2, <1>3, <1>4, <1>5 DEF Born


\* A write that is settled is waited for by nobody: a drainer that comes across
\* it later has a batch that waits for it, or sends nothing.
LEMMA GoneLook ==
    ASSUME TypeOK, OrderInv(FALSE), NEW d \in Drainer, NEW j \in Intent, Look(d, j),
           state[j] = "gone", ~failed'[d]
    PROVE  Busy(d, j)' \/ Held(d, j)'
  <1>1. ASSUME NEW s \in State, SetState(d, j, s) PROVE FALSE
    BY <1>1 DEF SetState, TypeOK
  <1>2. CASE Skip(d, j)
    BY <1>2 DEF Skip, Busy
  <1>3. CASE HoldBehind(d, j) \/ Block(d, j) \/ Retire(d, j)
    BY <1>1, <1>3 DEF HoldBehind, Block, Retire, State
  <1>4. CASE Take(d, j)
    <2>1. failed' = failed
      BY <1>1, <1>4 DEF Take, State
    <2>2. j \in send'[d]
      BY <1>4, <2>1 DEF Take, TypeOK
    <2> QED BY <2>2 DEF Busy
  <1> QED BY <1>2, <1>3, <1>4 DEF Look

LEMMA FromStep == ASSUME RefusalInv, [Next]_vars PROVE FromKept'
  <1> SUFFICES ASSUME NEW d \in Drainer, pc'[d] = "read" \/ (pc'[d] = "loop" /\ ~failed'[d]),
                      NEW k \in todo'[d]
               PROVE  \/ from'[d][k] = base'[k]
                      \/ \E j \in todo'[d] : Later(j, k)' /\ state'[j] = "gone"
                      \/ pc'[d] = "loop" /\ (Busy(d, k)' \/ Held(d, k)')
    BY DEF FromKept
  <1>1. k \in Intent /\ TypeOK
    BY TypeStep DEF RefusalInv, IInv, TypeOK
  <1>2. ASSUME NEW j \in Intent, state[j] = "gone" PROVE state'[j] = "gone"
    BY <1>1, <1>2, RowStep
  <1>3. CASE ReadCandidates(d)
    <2>1. base' = base /\ k \in {i \in Intent : state[i] \in {"pending", "blocked"}}
      BY <1>1, <1>3 DEF ReadCandidates, queue, TypeOK
    <2>2. from'[d][k] = base[k]
      BY <1>1, <1>3, <2>1 DEF ReadCandidates, TypeOK
    <2> QED BY <2>1, <2>2
  <1>4. CASE ReadBarriers(d)
    <2>1. /\ UNCHANGED <<base, state>> /\ pc[d] = "read"
          /\ todo'[d] = todo[d] /\ from'[d] = from[d]
      BY <1>4 DEF ReadBarriers, queue
    <2> QED BY <2>1 DEF RefusalInv, FromKept, Later
  <1>5. ASSUME NEW i \in Intent, Look(d, i)
        PROVE  \/ from'[d][k] = base'[k]
               \/ \E j \in todo'[d] : Later(j, k)' /\ state'[j] = "gone"
               \/ pc'[d] = "loop" /\ (Busy(d, k)' \/ Held(d, k)')
    <2>1. /\ pc[d] = "loop" /\ pc'[d] = "loop" /\ todo'[d] = todo[d] \ {i} /\ ~failed[d]
          /\ hold[d] \subseteq hold'[d] /\ send[d] \subseteq send'[d]
      BY <1>1, <1>5, LookEffect DEF RefusalInv, OrderInv
    <2>2. base' = base /\ from' = from
      BY <1>5 DEF Look, Skip, HoldBehind, Block, Retire, Take, Looked
    <2>3. CASE Busy(d, k) \/ Held(d, k)
      BY <2>1, <2>3 DEF Busy, Held, Later
    <2>4. ASSUME NEW j \in todo[d], Later(j, k), state[j] = "gone", j # i
          PROVE  \E m \in todo'[d] : Later(m, k)' /\ state'[m] = "gone"
      <3>1. j \in Intent
        BY <1>1 DEF TypeOK
      <3> QED BY <1>2, <2>1, <2>4, <3>1 DEF Later
    <2>5. CASE Later(i, k) /\ state[i] = "gone"
      <3>1. Busy(d, i)' \/ Held(d, i)'
        BY <1>1, <1>5, <2>1, <2>5, GoneLook DEF RefusalInv
      <3>2. Busy(d, k)' \/ Held(d, k)'
        <4>1. CASE Busy(d, i)'
          BY <2>5, <4>1 DEF Busy, Later
        <4>2. CASE Held(d, i)'
          <5>1. PICK j \in hold'[d] : Later(j, i)
            BY <4>2 DEF Held, Later
          <5>2. j \in Intent
            BY <1>1, TypeStep DEF TypeOK
          <5>3. Later(j, k)
            BY <1>1, <2>5, <5>1, <5>2, IntentAssumption DEF Later
          <5> QED BY <5>3 DEF Held, Later
        <4> QED BY <3>1, <4>1, <4>2
      <3> QED BY <2>1, <3>2
    <2> QED BY <2>1, <2>2, <2>3, <2>4, <2>5 DEF RefusalInv, FromKept
  <1>6. CASE /\ pc'[d] = pc[d] /\ todo'[d] = todo[d] /\ hold'[d] = hold[d]
             /\ send'[d] = send[d] /\ failed'[d] = failed[d] /\ from'[d] = from[d]
    <2>1. (Busy(d, k)' <=> Busy(d, k)) /\ (Held(d, k)' <=> Held(d, k))
      BY <1>6 DEF Busy, Held, Later
    <2>2. CASE base'[k] = base[k]
      <3>1. ASSUME NEW j \in todo[d], Later(j, k), state[j] = "gone"
            PROVE  Later(j, k)' /\ state'[j] = "gone"
        <4>1. j \in Intent
          BY <1>1 DEF TypeOK
        <4> QED BY <1>2, <3>1, <4>1 DEF Later
      <3> QED BY <1>6, <2>1, <2>2, <3>1 DEF RefusalInv, FromKept
    <2>3. CASE base'[k] # base[k]
      <3>1. ~Draft(k)
        BY <1>6 DEF RefusalInv, Born, Draft, Made
      <3>2. PICK e \in Drainer : \E v \in Applied(e) : Fold(e) /\ Later(v.id, k)
        BY <1>1, <2>3, <3>1, BaseStep
      <3>3. PICK v \in Applied(e) : Fold(e) /\ Later(v.id, k)
        BY <3>2
      <3> DEFINE j == v.id
      <3>4. /\ j \in Intent /\ state'[j] = "gone"
            /\ ~Decided(FALSE, j) /\ ~Refused(j)
        BY <3>3, AppliedRow DEF RefusalInv
      <3>5. CASE j \in todo[d]
        BY <1>6, <3>3, <3>4, <3>5 DEF Later
      <3>6. CASE j \notin todo[d] /\ pc[d] = "read"
        BY <1>6, <3>3, <3>4, <3>6 DEF RefusalInv, OrderInv, ReadAhead, Unclassified, Refused
      <3>7. CASE j \notin todo[d] /\ pc[d] = "loop"
        <4>1. j \in hold[d] \/ Busy(d, j) \/ Held(d, j)
          BY <1>6, <3>3, <3>4, <3>7 DEF RefusalInv, OrderInv, LoopAhead
        <4> QED BY <1>1, <1>6, <2>1, <3>3, <3>4, <3>7, <4>1, WaitsToo
      <3> QED BY <1>6, <3>5, <3>6, <3>7
    <2> QED BY <2>2, <2>3
  <1> QED BY <1>1, <1>3, <1>4, <1>5, <1>6, LocalStep

LEMMA SentStep == ASSUME RefusalInv, [Next]_vars PROVE SentKept'
  <1> SUFFICES ASSUME NEW d \in Drainer, ~failed'[d], NEW k \in send'[d]
               PROVE  from'[d][k] = base'[k]
    BY DEF SentKept
  <1>1. k \in Intent /\ TypeOK
    BY TypeStep DEF RefusalInv, IInv, TypeOK
  <1>2. CASE k \in send[d] /\ ~failed[d] /\ from'[d] = from[d]
    <2>1. Made(k) /\ Ahead(FALSE, k) /\ from[d][k] = base[k]
      BY <1>2 DEF RefusalInv, Born, OrderInv, BatchAhead, SentKept
    <2> QED BY <1>1, <1>2, <2>1, BaseFixed
  <1>3. CASE ReadCandidates(d)
    <2>1. pc[d] = "idle" /\ send'[d] = send[d]
      BY <1>3 DEF ReadCandidates
    <2> QED BY <2>1 DEF RefusalInv, IdleClear
  <1>4. CASE ReadBarriers(d)
    BY <1>2, <1>4 DEF ReadBarriers
  <1>5. ASSUME NEW i \in Intent, Look(d, i) PROVE from'[d][k] = base'[k]
    <2>1. LoopAhead(FALSE)
      BY DEF RefusalInv, OrderInv
    <2>2. pc[d] = "loop" /\ ~failed[d] /\ Oldest(d, i) /\ (k \in send[d] \/ k = i)
      <3>1. pc[d] = "loop" /\ ~failed[d] /\ Oldest(d, i)
        BY <1>1, <1>5, <2>1, LookEffect
      <3>2. send'[d] \subseteq send[d] \cup {i}
        BY <1>1, <1>5 DEF Look, Skip, HoldBehind, Block, Retire, Take, TypeOK
      <3> QED BY <3>1, <3>2
    <2>3. base' = base /\ from' = from
      BY <1>5 DEF Look, Skip, HoldBehind, Block, Retire, Take, Looked
    <2>4. CASE k \in send[d]
      BY <1>2, <2>2, <2>3, <2>4
    <2>5. CASE k = i /\ k \notin send[d]
      <3>1. ~Busy(d, k) /\ ~Held(d, k)
        BY <1>5, <2>5 DEF Look, Skip, HoldBehind, Block, Retire, Take
      <3>2. ASSUME NEW j \in todo[d] PROVE ~Later(j, k)
        <4>1. j \in Nat /\ k \in Nat /\ k <= j
          BY <1>1, <2>2, <2>5, IntentAssumption DEF Oldest, TypeOK
        <4> QED BY <4>1 DEF Later
      <3> QED BY <2>2, <2>3, <2>5, <3>1, <3>2 DEF RefusalInv, FromKept, Oldest
    <2> QED BY <2>2, <2>4, <2>5
  <1> QED BY <1>1, <1>2, <1>3, <1>4, <1>5, LocalStep

LEMMA KeptStep == ASSUME RefusalInv, [Next]_vars PROVE WireKept'
  <1> SUFFICES ASSUME NEW d \in Drainer, NEW w \in request'[d]
               PROVE  w.base = base'[w.id]
    BY DEF WireKept
  <1>1. w.id \in Intent
    <2>1. w \in Wire
      BY TypeStep DEF RefusalInv, IInv, TypeOK
    <2> QED BY <2>1 DEF Wire
  <1>2. CASE w \in request[d]
    <2>1. Made(w.id) /\ Ahead(FALSE, w.id) /\ w.base = base[w.id]
      BY <1>2 DEF RefusalInv, Born, OrderInv, WireAhead, WireKept
    <2> QED BY <1>1, <2>1, BaseFixed
  <1>3. CASE w \notin request[d]
    BY <1>3, RequestStep DEF RefusalInv, IInv, SentKept
  <1> QED BY <1>2, <1>3

\* The authority applies a write it does not know and has no reason to refuse.
LEMMA DoneStep ==
    ASSUME IInv, [Next]_vars, NEW i \in Intent, Done(i)', ~Done(i)
    PROVE  \E d \in Drainer : \E w \in request[d] : w.id = i /\ ~Refuses(w)
  <1>1. ~UNCHANGED log
    BY DEF Done
  <1>2. PICK d \in Drainer : \E w \in request[d] : Adjudicate(d, w)
    BY <1>1, QuietStep DEF IInv
  <1>3. PICK w \in request[d] : Adjudicate(d, w)
    BY <1>2
  <1>4. /\ w.id \in Intent /\ ItemOf[w.id] \in Item /\ ~Refuses(w)
        /\ log' = [log EXCEPT ![ItemOf[w.id]] = Append(@, w.id)]
    BY <1>1, <1>3, Adjudication DEF IInv
  <1>5. ASSUME w.id # i PROVE FALSE
    <2> DEFINE t == ItemOf[i]
    <2>1. t \in Item /\ log[t] \in Seq(Intent) /\ ItemOf[w.id] \in Item
      BY <1>4, IntentAssumption DEF IInv, TypeOK
    <2>2. log'[t] = log[t] \/ log'[t] = Append(log[t], w.id)
      BY <1>4, <2>1 DEF IInv, TypeOK
    <2>3. PICK n \in DOMAIN log'[t] : log'[t][n] = i
      BY DEF Done
    <2>4. CASE log'[t] = log[t]
      BY <2>3, <2>4 DEF Done
    <2>5. CASE log'[t] = Append(log[t], w.id)
      <3>1. n \in DOMAIN log[t] /\ log[t][n] = i
        BY <1>4, <1>5, <2>1, <2>3, <2>5
      <3> QED BY <3>1 DEF Done
    <2> QED BY <2>2, <2>4, <2>5
  <1> QED BY <1>4, <1>5


\* A refusal stays one until an operator says otherwise: what made the authority
\* refuse a write is still there when another copy of it comes.
LEMMA TurnedStep == ASSUME RefusalInv, ~MayAccept, [Next]_vars PROVE TurnedDown'
  <1> SUFFICES ASSUME NEW i \in Intent, Turned(i)'
               PROVE  Ahead(FALSE, i)' /\ ~Done(i)' /\ Hopeless(i)'
    BY DEF TurnedDown
  <1>1. TypeOK /\ IInv
    BY DEF RefusalInv, IInv
  <1>2. refusing' = refusing
    BY DEF Next, Drain, Write, Draft, Enqueue, Accept, Release, Classify, ForeignEdit,
           ReadCandidates, ReadBarriers, Post, Fold, Fetch, Store, Abandon, Reply, Adjudicate,
           Lose, Look, Skip, HoldBehind, Block, Retire, Take, Looked, authority, vars
  <1>3. ASSUME Made(i), Ahead(FALSE, i), Hopeless(i) PROVE Ahead(FALSE, i)' /\ Hopeless(i)'
    <2>1. Ahead(FALSE, i)' /\ base'[i] = base[i]
      BY <1>1, <1>3, StaysAhead, BaseFixed
    <2>2. /\ version[ItemOf[i]] \in Nat /\ version'[ItemOf[i]] \in Nat
          /\ version[ItemOf[i]] <= version'[ItemOf[i]] /\ base[i] \in Nat
      <3>1. ItemOf[i] \in Item
        BY IntentAssumption
      <3> QED BY <1>1, <3>1, VersionGrows DEF TypeOK
    <2>3. CASE i \in refusing
      BY <1>2, <2>1, <2>3 DEF Hopeless
    <2>4. CASE base[i] # 0 /\ base[i] < version[ItemOf[i]]
      <3>1. base'[i] # 0 /\ base'[i] < version'[ItemOf[i]]
        BY <2>1, <2>2, <2>4
      <3> QED BY <2>1, <3>1 DEF Hopeless
    <2> QED BY <1>3, <2>3, <2>4 DEF Hopeless
  <1>4. CASE Turned(i)
    <2>1. Made(i) /\ Ahead(FALSE, i) /\ ~Done(i) /\ Hopeless(i)
      BY <1>4 DEF RefusalInv, Born, TurnedDown, Turned
    <2>2. ASSUME NEW d \in Drainer, NEW w \in request[d], w.id = i PROVE Refuses(w)
      <3>1. ~Known(w)
        BY <2>1, <2>2 DEF Known, RefusalInv, IInv, OwnKeys, Booked, Receipted
      <3>2. w.base = base[i]
        BY <2>2 DEF RefusalInv, WireKept
      <3>3. version[ItemOf[i]] \in Nat /\ base[i] \in Nat
        BY <1>1, IntentAssumption DEF TypeOK
      <3> QED BY <2>1, <2>2, <3>1, <3>2, <3>3 DEF Hopeless, Refuses, Stale
    <2>3. ~Done(i)'
      BY <1>1, <2>1, <2>2, DoneStep
    <2> QED BY <1>3, <2>1, <2>3
  <1>5. CASE ~Turned(i)
    <2>1. ~Refused(i)'
      BY <1>1, <1>5, RefusedStep DEF Turned
    <2>2. PICK e \in Drainer : \E v \in verdict'[e] : v.id = i /\ v.kind = "refused"
      BY <2>1 DEF Turned, Refused
    <2>3. PICK v \in verdict'[e] : v.id = i /\ v.kind = "refused"
      BY <2>2
    <2>4. v \notin verdict[e]
      BY <1>5, <2>3 DEF Turned
    <2>5. PICK d \in Drainer : \E w \in request[d] : Adjudicate(d, w)
      BY <1>1, <2>4, QuietStep
    <2>6. PICK w \in request[d] : Adjudicate(d, w)
      BY <2>5
    <2>7. w.id = i /\ ~Known(w) /\ Refuses(w) /\ UNCHANGED log
      <3>1. PICK x \in Verdicts(w) :
              /\ x.id = w.id /\ verdict'[e] \subseteq verdict[e] \cup {x}
              /\ \/ x.kind = "applied"
                 \/ ~Known(w) /\ Refuses(w) /\ UNCHANGED log
        BY <1>1, <2>6, Adjudication
      <3>2. x = v
        BY <2>4, <3>1
      <3> QED BY <2>3, <3>1, <3>2
    <2>8. Made(i) /\ Ahead(FALSE, i) /\ w.base = base[i] /\ w.key = i
      BY <2>7 DEF RefusalInv, Born, OrderInv, WireAhead, WireKept, IInv, OwnKeys
    <2>9. ~Done(i)'
      <3>1. ~Receipted(i)
        BY <2>7, <2>8 DEF Known, Receipted
      <3> QED BY <1>1, <2>7, <3>1 DEF IInv, Booked, Done
    <2>10. Hopeless(i)
      <3>1. version[ItemOf[i]] \in Nat /\ base[i] \in Nat /\ base[i] <= version[ItemOf[i]]
        BY <1>1, IntentAssumption DEF TypeOK, RefusalInv, Bounded
      <3> QED BY <2>7, <2>8, <3>1 DEF Hopeless, Refuses, Stale
    <2> QED BY <1>3, <2>8, <2>9, <2>10
  <1> QED BY <1>4, <1>5

LEMMA RefusalStep == ASSUME RefusalInv, ~MayAccept, [Next]_vars PROVE RefusalInv'
  <1>1. IInv' /\ OrderInv(FALSE)'
    BY StepInv, OrderStep DEF RefusalInv, IInv
  <1>2. IdleClear'
    BY IdleStep DEF RefusalInv, IInv
  <1> QED BY <1>1, <1>2, BoundedStep, BornStep, FromStep, SentStep, KeptStep, TurnedStep
          DEF RefusalInv

\* A write that stands refused is not in the authority's history and never comes
\* to be, whatever copies of it are under way, while the authority does not
\* change its mind about a write.
THEOREM RefusalIsFinal == ASSUME ~MayAccept PROVE Spec => []RefusedForGood
  <1>1. RefusalInv /\ [Next]_vars => RefusalInv'
    BY RefusalStep
  <1>2. RefusalInv => RefusedForGood
    BY DEF RefusalInv, TurnedDown, Turned, Done, RefusedForGood
  <1> QED BY RefusalInit, <1>1, <1>2, PTL DEF Spec

-----------------------------------------------------------------------------
(* The order of what was applied.                                          *)

\* The writes of an item were applied in the order in which they were made, though
\* any of them may have been refused, retired, or put back into the queue.
AppliedInOrder ==
    \A t \in Item : \A m, n \in DOMAIN log[t] : m < n => log[t][m] < log[t][n]

\* What is retired or was never queued is not on its way to the authority.
Sendable ==
    /\ \A d \in Drainer :
         /\ \A k \in todo[d] : state[k] # "dropped"
         /\ \A k \in send[d] : k \notin LocalOnly /\ state[k] # "dropped"
         /\ \A w \in request[d] : w.id \notin LocalOnly /\ state[w.id] # "dropped"
    /\ \A i \in Intent : state[i] = "local_only" => i \in LocalOnly

\* Nothing undecided comes before what was applied.
DoneAhead == \A i \in Intent : Done(i) => Ahead(FALSE, i)

HistoryInv == RefusalInv /\ Sendable /\ DoneAhead /\ AppliedInOrder

LEMMA SendableStep == ASSUME RefusalInv, Sendable, [Next]_vars PROVE Sendable'
  <1>1. TypeOK
    BY DEF RefusalInv, IInv
  <1>2. ASSUME NEW k \in Intent, Made(k), state[k] # "dropped" PROVE state'[k] # "dropped"
    BY <1>1, <1>2, RowStep DEF Made
  <1>3. ASSUME NEW i \in Intent, state'[i] = "local_only" PROVE i \in LocalOnly
    BY <1>1, <1>3, RowStep DEF Sendable
  <1>4. ASSUME NEW d \in Drainer, NEW k \in todo'[d] PROVE state'[k] # "dropped"
    <2>1. k \in Intent
      BY <1>1, TypeStep DEF TypeOK
    <2>2. CASE k \in todo[d]
      BY <1>2, <2>1, <2>2 DEF RefusalInv, Born, Sendable
    <2>3. CASE ReadCandidates(d)
      <3>1. state[k] \in {"pending", "blocked"} /\ state' = state
        BY <1>1, <2>3 DEF ReadCandidates, queue, TypeOK
      <3> QED BY <3>1
    <2> QED BY <1>1, <2>2, <2>3, TodoStep
  <1>5. ASSUME NEW d \in Drainer, NEW k \in send'[d]
        PROVE  k \notin LocalOnly /\ state'[k] # "dropped"
    <2>1. k \in Intent
      BY <1>1, TypeStep DEF TypeOK
    <2>2. CASE k \in send[d]
      BY <1>2, <2>1, <2>2 DEF RefusalInv, Born, Sendable
    <2>3. ASSUME NEW i \in Intent, Look(d, i), k \notin send[d]
          PROVE  k \notin LocalOnly /\ state'[k] # "dropped"
      <3>1. k = i /\ k \in mapped \ LocalOnly /\ k \in todo[d]
        BY <1>1, <2>3 DEF Look, Skip, HoldBehind, Block, Retire, Take, Looked, Oldest, TypeOK
      <3> QED BY <1>2, <2>1, <3>1 DEF RefusalInv, Born, Sendable
    <2>4. CASE ReadCandidates(d) \/ ReadBarriers(d)
      BY <2>2, <2>4 DEF ReadCandidates, ReadBarriers
    <2> QED BY <1>1, <2>2, <2>3, <2>4, LocalStep
  <1>6. ASSUME NEW d \in Drainer, NEW w \in request'[d]
        PROVE  w.id \notin LocalOnly /\ state'[w.id] # "dropped"
    <2>1. w.id \in Intent
      <3>1. w \in Wire
        BY <1>1, TypeStep DEF TypeOK
      <3> QED BY <3>1 DEF Wire
    <2>2. CASE w \in request[d]
      BY <1>2, <2>1, <2>2 DEF RefusalInv, Born, Sendable
    <2>3. CASE w \notin request[d]
      <3>1. w.id \in send[d] /\ state' = state
        BY <1>1, <2>3, RequestStep
      <3> QED BY <3>1 DEF Sendable
    <2> QED BY <2>2, <2>3
  <1> QED BY <1>3, <1>4, <1>5, <1>6 DEF Sendable

LEMMA DoneAheadStep == ASSUME RefusalInv, DoneAhead, [Next]_vars PROVE DoneAhead'
  <1> SUFFICES ASSUME NEW i \in Intent, Done(i)' PROVE Ahead(FALSE, i)'
    BY DEF DoneAhead
  <1>1. IInv /\ TypeOK
    BY DEF RefusalInv, IInv
  <1>2. CASE Done(i)
    BY <1>1, <1>2, StaysAhead DEF DoneAhead
  <1>3. CASE ~Done(i)
    <2>1. PICK d \in Drainer : \E w \in request[d] : w.id = i
      BY <1>1, <1>3, DoneStep
    <2>2. Ahead(FALSE, i)
      BY <2>1 DEF RefusalInv, OrderInv, WireAhead
    <2> QED BY <1>1, <2>2, StaysAhead
  <1> QED BY <1>2, <1>3

\* What the authority applies comes after all that it has applied to the item: a
\* later write was applied only when this one was settled, and what is settled is
\* in the history already, never goes out, or was turned down for good.
LEMMA AppliedLast ==
    ASSUME HistoryInv, NEW d \in Drainer, NEW w \in request[d], ~Known(w), ~Refuses(w),
           NEW j \in Intent, Done(j), ItemOf[j] = ItemOf[w.id]
    PROVE  j < w.id
  <1>1. w.id \in Intent /\ w.key = w.id /\ w.base = base[w.id]
    <2>1. w \in Wire
      BY DEF HistoryInv, RefusalInv, IInv, TypeOK
    <2> QED BY <2>1 DEF Wire, HistoryInv, RefusalInv, IInv, OwnKeys, WireKept
  <1>2. ~Done(w.id)
    BY <1>1 DEF Known, Receipted, HistoryInv, RefusalInv, IInv, Booked
  <1>3. ~Refused(w.id)
    <2>1. version[ItemOf[w.id]] \in Nat /\ base[w.id] \in Nat
      BY <1>1, IntentAssumption DEF HistoryInv, RefusalInv, IInv, TypeOK
    <2>2. ~Hopeless(w.id)
      BY <1>1, <2>1 DEF Hopeless, Refuses, Stale
    <2> QED BY <1>1, <2>2 DEF HistoryInv, RefusalInv, TurnedDown, Turned
  <1>4. state[w.id] \notin {"gone", "local_only", "dropped"}
    <2>1. state[w.id] # "gone"
      BY <1>1, <1>2 DEF HistoryInv, RefusalInv, IInv, NothingLost, Done
    <2>2. w.id \notin LocalOnly /\ state[w.id] # "dropped"
      BY DEF HistoryInv, Sendable
    <2> QED BY <1>1, <2>1, <2>2 DEF HistoryInv, Sendable
  <1>5. ~Later(w.id, j)
    <2>1. Ahead(FALSE, j)
      BY DEF HistoryInv, DoneAhead
    <2>2. ~Decided(FALSE, w.id)
      BY <1>3, <1>4 DEF Decided
    <2> QED BY <1>1, <2>1, <2>2 DEF Ahead
  <1>6. j # w.id
    BY <1>2
  <1>7. ~(w.id < j) /\ w.id \in Nat /\ j \in Nat
    BY <1>1, <1>5, IntentAssumption DEF Later
  <1> QED BY <1>6, <1>7

LEMMA AppliedStep == ASSUME HistoryInv, [Next]_vars PROVE AppliedInOrder'
  <1>1. TypeOK /\ IInv
    BY DEF HistoryInv, RefusalInv, IInv
  <1>2. CASE UNCHANGED log
    BY <1>2 DEF HistoryInv, AppliedInOrder
  <1>3. ASSUME NEW d \in Drainer, NEW w \in request[d], Adjudicate(d, w), ~UNCHANGED log
        PROVE  AppliedInOrder'
    <2> DEFINE u == ItemOf[w.id]
               len == Len(log[u])
    <2>1. /\ w.id \in Intent /\ u \in Item /\ ~Known(w) /\ ~Refuses(w)
          /\ log' = [log EXCEPT ![u] = Append(@, w.id)]
      BY <1>1, <1>3, Adjudication
    <2>2. log[u] \in Seq(Intent) /\ log'[u] = Append(log[u], w.id)
      BY <1>1, <2>1 DEF TypeOK
    <2>3. ASSUME NEW m \in DOMAIN log[u] PROVE log[u][m] < w.id
      <3>1. log[u][m] \in Intent /\ ItemOf[log[u][m]] = u
        BY <1>1, <2>1, <2>2 DEF IInv, Placed
      <3>2. Done(log[u][m])
        BY <3>1 DEF Done
      <3> QED BY <2>1, <3>1, <3>2, AppliedLast
    <2>4. /\ len \in Nat /\ DOMAIN log[u] = 1 .. len /\ DOMAIN log'[u] = 1 .. (len + 1)
          /\ log'[u][len + 1] = w.id
          /\ \A m \in 1 .. len : log'[u][m] = log[u][m]
      BY <2>1, <2>2
    <2>5. ASSUME NEW m \in DOMAIN log'[u], NEW n \in DOMAIN log'[u], m < n
          PROVE  log'[u][m] < log'[u][n]
      <3>1. m \in 1 .. len
        BY <2>4, <2>5
      <3>2. CASE n = len + 1
        BY <2>3, <2>4, <3>1, <3>2
      <3>3. CASE n \in 1 .. len
        BY <2>1, <2>4, <2>5, <3>1, <3>3 DEF HistoryInv, AppliedInOrder
      <3> QED BY <2>4, <3>2, <3>3
    <2>6. ASSUME NEW t \in Item, t # u PROVE log'[t] = log[t]
      BY <1>1, <2>1, <2>6 DEF TypeOK
    <2> HIDE DEF u
    <2> QED BY <2>5, <2>6 DEF HistoryInv, AppliedInOrder
  <1> QED BY <1>1, <1>2, <1>3, QuietStep

\* The history of an item lists its writes in the order in which they were made:
\* for any number of drainers and any rulings, put back into the queue or not, while
\* the authority does not change its mind about a write.
THEOREM HistoryIsInOrder == ASSUME ~MayAccept PROVE Spec => []AppliedInOrder
  <1>1. Init => HistoryInv
    <2> SUFFICES ASSUME Init PROVE HistoryInv
      OBVIOUS
    <2>1. \A t \in Item : DOMAIN log[t] = {}
      BY DEF Init
    <2>2. AppliedInOrder /\ DoneAhead
      BY <2>1, IntentAssumption DEF AppliedInOrder, DoneAhead, Done
    <2>3. Sendable
      BY DEF Init, Sendable
    <2> QED BY <2>2, <2>3, RefusalInit DEF HistoryInv
  <1>2. HistoryInv /\ [Next]_vars => HistoryInv'
    BY RefusalStep, SendableStep, DoneAheadStep, AppliedStep DEF HistoryInv
  <1>3. HistoryInv => AppliedInOrder
    BY DEF HistoryInv
  <1> QED BY <1>1, <1>2, <1>3, PTL DEF Spec
==============================================================================
