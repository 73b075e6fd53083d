------------------------- MODULE BacklogOutboxProofs -------------------------
(***************************************************************************)
(* Theorems about BacklogOutbox, for any intents, items and drainers: every *)
(* state is well typed, an intent is applied at most once, and a row leaves *)
(* the queue only when its own write was applied.                          *)
(*                                                                         *)
(* The argument: every request and verdict carries the key of its own      *)
(* intent, the authority's receipts are exactly what its log holds, and a  *)
(* verdict `applied` is backed by a receipt, however late it comes.        *)
(***************************************************************************)
EXTENDS BacklogOutbox, TLAPS

-----------------------------------------------------------------------------
(* Types.                                                                  *)

LEMMA TypeInit == Init => TypeOK
  BY IntentAssumption, VersionAssumption DEF Init, TypeOK, State, Phase, Blank, Zero

LEMMA WriteType == ASSUME TypeOK, NEW i \in Intent, Write(i) PROVE TypeOK'
  <1> USE IntentAssumption, RulingAssumption
  <1>1. CASE Draft(i)
    BY <1>1 DEF Draft, TypeOK, State, cycle, local, authority
  <1>2. CASE Enqueue(i)
    BY <1>2 DEF Enqueue, TypeOK, State, cycle, local, authority
  <1>3. CASE Accept(i)
    BY <1>3 DEF Accept, TypeOK, queue, cycle, local
  <1>4. CASE Release(i)
    BY <1>4 DEF Release, TypeOK, queue, cycle, local, authority
  <1>5. ASSUME NEW r \in Ruling, Classify(i, r) PROVE TypeOK'
    BY <1>5 DEF Classify, TypeOK, State, cycle, local, authority
  <1> QED BY <1>1, <1>2, <1>3, <1>4, <1>5 DEF Write

LEMMA ReadType ==
    ASSUME TypeOK, NEW d \in Drainer, ReadCandidates(d) \/ ReadBarriers(d)
    PROVE  TypeOK'
  <1>1. CASE ReadCandidates(d)
    BY <1>1 DEF ReadCandidates, TypeOK, State, Phase, queue, authority
  <1>2. CASE ReadBarriers(d)
    BY <1>2 DEF ReadBarriers, TypeOK, Phase, queue, authority
  <1> QED BY <1>1, <1>2

LEMMA LookType ==
    ASSUME TypeOK, NEW d \in Drainer, NEW i \in Intent, Look(d, i)
    PROVE  TypeOK'
  <1>1. Looked(d, i)
    BY DEF Look, Skip, HoldBehind, Block, Retire, Take
  <1>2. ASSUME NEW s \in {"blocked", "pending", "local_only"}, SetState(d, i, s)
        PROVE  state' \in [Intent -> State] /\ failed' \in [Drainer -> BOOLEAN]
    BY <1>2 DEF SetState, TypeOK, State
  <1>3. /\ state' \in [Intent -> State] /\ failed' \in [Drainer -> BOOLEAN]
        /\ hold' \in [Drainer -> SUBSET Intent] /\ send' \in [Drainer -> SUBSET Intent]
    <2>1. CASE Skip(d, i)
      BY <2>1 DEF Skip, TypeOK
    <2>2. CASE HoldBehind(d, i)
      BY <1>2, <2>2 DEF HoldBehind, TypeOK
    <2>3. CASE Block(d, i)
      BY <1>2, <2>3 DEF Block, TypeOK
    <2>4. CASE Retire(d, i)
      BY <1>2, <2>4 DEF Retire, TypeOK
    <2>5. CASE Take(d, i)
      <3>1. state' \in [Intent -> State] /\ failed' \in [Drainer -> BOOLEAN]
        BY <1>2, <2>5 DEF Take, TypeOK
      <3>2. [send EXCEPT ![d] = @ \cup {i}] \in [Drainer -> SUBSET Intent]
        BY DEF TypeOK
      <3>3. hold' = hold
        BY <2>5 DEF Take
      <3>4. send' = [send EXCEPT ![d] = @ \cup {i}] \/ send' = send
        BY <2>5 DEF Take
      <3> QED BY <3>1, <3>2, <3>3, <3>4 DEF TypeOK
    <2> QED BY <2>1, <2>2, <2>3, <2>4, <2>5 DEF Look
  <1>4. /\ todo' \in [Drainer -> SUBSET Intent]
        /\ UNCHANGED <<base, ruling, cache, pc, was, from, verdict, fetched, request,
                       version, receipts, refusing, log, mapped>>
    BY <1>1 DEF Looked, TypeOK, authority
  <1> QED BY <1>3, <1>4 DEF TypeOK

LEMMA PostType == ASSUME TypeOK, NEW d \in Drainer, Post(d) PROVE TypeOK'
  <1> DEFINE batch == {[id |-> i, key |-> SendKey(d, i), base |-> from[d][i]] : i \in send[d]}
  <1>1. batch \subseteq Wire
    <2> SUFFICES ASSUME NEW i \in send[d]
                 PROVE  [id |-> i, key |-> SendKey(d, i), base |-> from[d][i]] \in Wire
      OBVIOUS
    <2>1. i \in Intent /\ SendKey(d, i) \in Key /\ from[d][i] \in Nat
      BY DEF TypeOK, Key, SendKey
    <2> QED BY <2>1 DEF Wire
  <1>2. request' \in [Drainer -> SUBSET Wire]
    BY <1>1 DEF Post, TypeOK
  <1>3. pc' \in [Drainer -> Phase]
    BY DEF Post, TypeOK, Phase
  <1> QED BY <1>2, <1>3 DEF Post, TypeOK, queue, local, authority

LEMMA FoldType == ASSUME TypeOK, NEW d \in Drainer, Fold(d) PROVE TypeOK'
  <1>1. Applied(d) \subseteq Verdict
    BY DEF Applied, Settling, TypeOK
  <1>2. state' \in [Intent -> State]
    BY DEF Fold, TypeOK, State
  <1>3. ruling' \in [Intent -> Ruling \cup {"none"}]
    BY DEF Fold, TypeOK
  <1>4. base' \in [Intent -> Nat]
    <2> SUFFICES ASSUME NEW j \in Intent
                 PROVE (LET on == {v \in Applied(d) : Later(v.id, j) /\ base[v.id] = base[j]} IN
                        IF on # {} /\ state[j] \in {"pending", "blocked"}
                        THEN (CHOOSE v \in on : TRUE).at ELSE base[j]) \in Nat
      BY DEF Fold
    <2> DEFINE on == {v \in Applied(d) : Later(v.id, j) /\ base[v.id] = base[j]}
    <2>1. on # {} => (CHOOSE v \in on : TRUE) \in Verdict
      BY <1>1
    <2> QED BY <2>1 DEF Verdict, TypeOK
  <1>5. cache' \in [Item -> Nat]
    <2> SUFFICES ASSUME NEW t \in Item
                 PROVE (LET new == {v \in Applied(d) : ItemOf[v.id] = t /\ cache[t] < v.at} IN
                        IF new # {} /\ cache[t] # 0
                        THEN (CHOOSE v \in new : TRUE).at ELSE cache[t]) \in Nat
      BY DEF Fold
    <2> DEFINE new == {v \in Applied(d) : ItemOf[v.id] = t /\ cache[t] < v.at}
    <2>1. new # {} => (CHOOSE v \in new : TRUE) \in Verdict
      BY <1>1
    <2> QED BY <2>1 DEF Verdict, TypeOK
  <1> QED BY <1>2, <1>3, <1>4, <1>5 DEF Fold, TypeOK, Phase, local, authority

LEMMA RestType ==
    ASSUME TypeOK, NEW d \in Drainer, Fetch(d) \/ Store(d) \/ Abandon(d) \/ Reply(d)
    PROVE  TypeOK'
  <1>1. CASE Fetch(d)
    BY <1>1 DEF Fetch, TypeOK, Phase, queue, authority
  <1>2. CASE Store(d)
    BY <1>2 DEF Store, Rest, TypeOK, Phase, State, Blank, Zero, queue, authority
  <1>3. CASE Abandon(d)
    BY <1>3 DEF Abandon, Rest, TypeOK, Phase, State, Blank, Zero, queue, authority
  <1>4. CASE Reply(d)
    BY <1>4 DEF Reply, TypeOK, Phase, queue, local, authority
  <1> QED BY <1>1, <1>2, <1>3, <1>4

LEMMA VerdictsType ==
    ASSUME TypeOK, NEW w \in Wire PROVE Verdicts(w) \subseteq Verdict
  <1>1. w.id \in Intent /\ w.key \in Key
    BY DEF Wire
  <1>2. version[ItemOf[w.id]] + 1 \in Nat
    <2>1. version[ItemOf[w.id]] \in Nat
      <3>1. ItemOf[w.id] \in Item
        BY <1>1, IntentAssumption
      <3> QED BY <3>1 DEF TypeOK
    <2> QED BY <2>1
  <1>3. {r.at : r \in {x \in receipts : x.key = w.key}} \subseteq Nat
    BY DEF TypeOK
  <1>4. CASE Known(w)
    BY <1>1, <1>3, <1>4 DEF Verdicts, Verdict
  <1>5. CASE ~Known(w) /\ Refuses(w)
    BY <1>1, <1>5 DEF Verdicts, Verdict
  <1>6. CASE ~Known(w) /\ ~Refuses(w)
    BY <1>1, <1>2, <1>6 DEF Verdicts, Verdict
  <1> QED BY <1>4, <1>5, <1>6

LEMMA AdjudicateType ==
    ASSUME TypeOK, NEW d \in Drainer, NEW w \in request[d], Adjudicate(d, w)
    PROVE  TypeOK'
  <1>1. w \in Wire /\ w.id \in Intent /\ w.key \in Key /\ ItemOf[w.id] \in Item
    <2>1. w \in Wire
      BY DEF TypeOK
    <2>2. w.id \in Intent /\ w.key \in Key
      BY <2>1 DEF Wire
    <2> QED BY <2>1, <2>2, IntentAssumption
  <1>2. request' \in [Drainer -> SUBSET Wire]
    BY DEF Adjudicate, TypeOK
  <1>3. PICK v \in Verdicts(w) :
          /\ verdict' = IF pc[d] = "sent"
                        THEN [verdict EXCEPT ![d] = @ \cup {v}] ELSE verdict
          /\ IF Known(w) \/ Refuses(w) THEN UNCHANGED <<version, receipts, log>>
             ELSE /\ version' = [version EXCEPT ![ItemOf[w.id]] = @ + 1]
                  /\ receipts' = receipts \cup {[key |-> w.key, at |-> v.at]}
                  /\ log' = [log EXCEPT ![ItemOf[w.id]] = Append(@, w.id)]
    BY DEF Adjudicate
  <1>4. v \in Verdict
    BY <1>1, <1>3, VerdictsType
  <1>5. verdict' \in [Drainer -> SUBSET Verdict]
    BY <1>3, <1>4 DEF TypeOK
  <1>6. version' \in [Item -> Nat] /\ receipts' \subseteq [key : Key, at : Nat]
    <2>1. v.at \in Nat
      BY <1>4 DEF Verdict
    <2>2. version[ItemOf[w.id]] + 1 \in Nat
      BY <1>1 DEF TypeOK
    <2>3. [key |-> w.key, at |-> v.at] \in [key : Key, at : Nat]
      BY <1>1, <2>1
    <2> QED BY <1>3, <2>2, <2>3, <1>1 DEF TypeOK
  <1>7. log' \in [Item -> Seq(Intent)]
    <2>1. Append(log[ItemOf[w.id]], w.id) \in Seq(Intent)
      BY <1>1 DEF TypeOK
    <2> QED BY <1>1, <1>3, <2>1 DEF TypeOK
  <1> QED BY <1>2, <1>5, <1>6, <1>7 DEF Adjudicate, TypeOK, queue

LEMMA TypeStep == TypeOK /\ [Next]_vars => TypeOK'
  <1> SUFFICES ASSUME TypeOK, [Next]_vars PROVE TypeOK'
    OBVIOUS
  <1>1. ASSUME NEW d \in Drainer, Drain(d) PROVE TypeOK'
    <2>1. ASSUME NEW w \in request[d], Lose(d, w) PROVE TypeOK'
      BY <2>1 DEF Lose, TypeOK, queue, cycle, local, authority
    <2> QED BY <1>1, <2>1, ReadType, LookType, PostType, FoldType, RestType,
               AdjudicateType DEF Drain
  <1>2. ASSUME NEW i \in Intent, Write(i) PROVE TypeOK'
    BY <1>2, WriteType
  <1>3. ASSUME NEW t \in Item, ForeignEdit(t) PROVE TypeOK'
    BY <1>3 DEF ForeignEdit, TypeOK, queue, cycle, local
  <1>4. CASE UNCHANGED vars
    BY <1>4 DEF vars, TypeOK, queue, cycle, local, authority
  <1> QED BY <1>1, <1>2, <1>3, <1>4 DEF Next

\* Every reachable state is well typed.
THEOREM TypeCorrect == Spec => []TypeOK
  BY TypeInit, TypeStep, PTL DEF Spec

-----------------------------------------------------------------------------
(* The inductive invariant.                                                *)

\* The authority has applied intent i.
Done(i) == \E n \in DOMAIN log[ItemOf[i]] : log[ItemOf[i]][n] = i

\* The authority holds a receipt for intent i.
Receipted(i) == \E r \in receipts : r.key = i

\* What is on the wire carries the key of its own intent.
OwnKeys ==
    \A d \in Drainer :
        /\ \A w \in request[d] : w.key = w.id
        /\ \A v \in verdict[d] : v.key = v.id

\* A verdict `applied` is backed by a receipt.
Backed == \A d \in Drainer : \A v \in verdict[d] : v.kind = "applied" => Receipted(v.id)

\* The authority has a receipt for exactly what it applied.
Booked == \A i \in Intent : Receipted(i) <=> Done(i)

\* An intent is applied to its own item.
Placed == \A t \in Item : \A n \in DOMAIN log[t] : ItemOf[log[t][n]] = t

IInv == /\ TypeOK /\ OwnKeys /\ Backed /\ Booked /\ Placed
        /\ AppliedOnce /\ NothingLost

LEMMA InitInv == Init => IInv
  <1> SUFFICES ASSUME Init PROVE IInv
    OBVIOUS
  <1>1. \A t \in Item : DOMAIN log[t] = {}
    BY DEF Init
  <1>2. OwnKeys /\ Backed /\ Placed /\ AppliedOnce /\ NothingLost
    BY <1>1 DEF Init, OwnKeys, Backed, Placed, AppliedOnce, NothingLost
  <1>3. Booked
    BY <1>1, IntentAssumption DEF Init, Booked, Receipted, Done
  <1> QED BY <1>2, <1>3, TypeInit DEF IInv

\* A step that applies nothing, takes no row out of the queue and brings no
\* verdict keeps the invariant.
LEMMA Frame ==
    ASSUME IInv, TypeOK', UNCHANGED <<receipts, log>>,
           \A d \in Drainer : verdict'[d] \subseteq verdict[d],
           \A d \in Drainer : \A w \in request'[d] : w.key = w.id,
           \A i \in Intent : state'[i] = "gone" => state[i] = "gone"
    PROVE  IInv'
  <1>1. OwnKeys'
    BY DEF IInv, OwnKeys
  <1>2. Backed'
    BY DEF IInv, Backed, Receipted
  <1>3. Booked' /\ Placed' /\ AppliedOnce'
    BY DEF IInv, Booked, Placed, AppliedOnce, Receipted, Done
  <1>4. NothingLost'
    BY DEF IInv, NothingLost
  <1> QED BY <1>1, <1>2, <1>3, <1>4 DEF IInv

LEMMA WriteInv == ASSUME IInv, TypeOK', NEW i \in Intent, Write(i) PROVE IInv'
  <1>1. UNCHANGED <<receipts, log, verdict, request>>
    BY DEF Write, Draft, Enqueue, Accept, Release, Classify, cycle, local, authority
  <1>2. \A j \in Intent : state'[j] = "gone" => state[j] = "gone"
    BY DEF Write, Draft, Enqueue, Accept, Release, Classify, queue, IInv, TypeOK
  <1>3. \A d \in Drainer : \A w \in request'[d] : w.key = w.id
    BY <1>1 DEF IInv, OwnKeys
  <1> QED BY <1>1, <1>2, <1>3, Frame

LEMMA LookInv ==
    ASSUME IInv, TypeOK', NEW d \in Drainer, NEW i \in Intent, Look(d, i)
    PROVE  IInv'
  <1>1. UNCHANGED <<receipts, log, verdict, request>>
    BY DEF Look, Skip, HoldBehind, Block, Retire, Take, Looked, authority
  <1>2. \A j \in Intent : state'[j] = "gone" => state[j] = "gone"
    BY DEF Look, Skip, HoldBehind, Block, Retire, Take, SetState, IInv, TypeOK
  <1>3. \A e \in Drainer : \A w \in request'[e] : w.key = w.id
    BY <1>1 DEF IInv, OwnKeys
  <1> QED BY <1>1, <1>2, <1>3, Frame

LEMMA PostInv == ASSUME IInv, TypeOK', NEW d \in Drainer, Post(d) PROVE IInv'
  <1>1. UNCHANGED <<receipts, log, verdict, state>>
    BY DEF Post, queue, local, authority
  <1>2. ASSUME NEW e \in Drainer, NEW w \in request'[e] PROVE w.key = w.id
    <2>1. \/ w \in request[e]
          \/ w \in {[id |-> i, key |-> SendKey(d, i), base |-> from[d][i]] : i \in send[d]}
      BY <1>2 DEF Post, IInv, TypeOK
    <2> QED BY <2>1 DEF SendKey, IInv, OwnKeys
  <1> QED BY <1>1, <1>2, Frame

\* Only an applied verdict under the row's own key takes a row out of the queue.
LEMMA FoldInv == ASSUME IInv, TypeOK', NEW d \in Drainer, Fold(d) PROVE IInv'
  <1>1. UNCHANGED <<receipts, log, verdict, request>>
    BY DEF Fold, local, authority
  <1>2. OwnKeys' /\ Backed' /\ Booked' /\ Placed' /\ AppliedOnce'
    BY <1>1 DEF IInv, OwnKeys, Backed, Booked, Placed, AppliedOnce, Receipted, Done
  <1>3. ASSUME NEW i \in Intent, state'[i] = "gone" PROVE Done(i)
    <2>1. CASE state[i] = "gone"
      BY <2>1 DEF IInv, NothingLost, Done
    <2>2. CASE \E v \in Applied(d) : v.id = i
      BY <2>2 DEF Applied, Settling, IInv, Backed, Booked
    <2> QED BY <1>3, <2>1, <2>2 DEF Fold
  <1>4. NothingLost'
    BY <1>1, <1>3 DEF NothingLost, Done
  <1> QED BY <1>2, <1>4 DEF IInv

LEMMA RestInv ==
    ASSUME IInv, TypeOK', NEW d \in Drainer,
           \/ ReadCandidates(d) \/ ReadBarriers(d)
           \/ Fetch(d) \/ Store(d) \/ Abandon(d) \/ Reply(d)
           \/ \E w \in request[d] : Lose(d, w)
    PROVE  IInv'
  <1>1. UNCHANGED <<receipts, log, state>>
    BY DEF ReadCandidates, ReadBarriers, Fetch, Store, Abandon, Reply, Lose,
           queue, authority
  <1>2. \A e \in Drainer : verdict'[e] \subseteq verdict[e]
    <2>1. verdict' = verdict \/ verdict' = [verdict EXCEPT ![d] = {}]
      BY DEF ReadCandidates, ReadBarriers, Fetch, Store, Abandon, Reply, Lose, Rest,
             cycle, local
    <2> QED BY <2>1 DEF IInv, TypeOK
  <1>3. \A e \in Drainer : request'[e] \subseteq request[e]
    <2>1. CASE request' = request
      BY <2>1
    <2>2. CASE \E w \in request[d] : Lose(d, w)
      BY <2>2 DEF Lose, IInv, TypeOK
    <2>3. request' = request \/ \E w \in request[d] : Lose(d, w)
      BY DEF ReadCandidates, ReadBarriers, Fetch, Store, Abandon, Reply
    <2> QED BY <2>1, <2>2, <2>3
  <1>4. \A e \in Drainer : \A w \in request'[e] : w.key = w.id
    BY <1>3 DEF IInv, OwnKeys
  <1> QED BY <1>1, <1>2, <1>4, Frame

\* The authority applies an intent only while it has no receipt for its key.
LEMMA AdjudicateInv ==
    ASSUME IInv, TypeOK', NEW d \in Drainer, NEW w \in request[d], Adjudicate(d, w)
    PROVE  IInv'
  <1>1. w \in Wire /\ w.id \in Intent /\ w.key = w.id /\ ItemOf[w.id] \in Item
    <2>1. w \in Wire
      BY DEF IInv, TypeOK
    <2>2. w.id \in Intent
      BY <2>1 DEF Wire
    <2> QED BY <2>1, <2>2, IntentAssumption DEF IInv, OwnKeys
  <1>2. PICK v \in Verdicts(w) :
          /\ verdict' = IF pc[d] = "sent"
                        THEN [verdict EXCEPT ![d] = @ \cup {v}] ELSE verdict
          /\ IF Known(w) \/ Refuses(w) THEN UNCHANGED <<version, receipts, log>>
             ELSE /\ version' = [version EXCEPT ![ItemOf[w.id]] = @ + 1]
                  /\ receipts' = receipts \cup {[key |-> w.key, at |-> v.at]}
                  /\ log' = [log EXCEPT ![ItemOf[w.id]] = Append(@, w.id)]
    BY DEF Adjudicate
  <1>3. v.id = w.id /\ v.key = w.id /\ (v.kind = "applied" => Known(w) \/ ~Refuses(w))
    BY <1>1, <1>2 DEF Verdicts
  <1>4. \A e \in Drainer : request'[e] \subseteq request[e]
    BY DEF Adjudicate, IInv, TypeOK
  <1>5. \A e \in Drainer : verdict'[e] \subseteq verdict[e] \cup {v}
    BY <1>2 DEF IInv, TypeOK
  <1>6. OwnKeys'
    BY <1>3, <1>4, <1>5 DEF IInv, OwnKeys
  <1>7. receipts \subseteq receipts'
    BY <1>2
  <1>8. v.kind = "applied" => Receipted(w.id)'
    <2>1. CASE Known(w)
      BY <1>1, <1>7, <2>1 DEF Known, Receipted
    <2>2. CASE ~Known(w) /\ ~Refuses(w)
      <3>1. [key |-> w.id, at |-> v.at] \in receipts'
        BY <1>1, <1>2, <2>2
      <3> QED BY <3>1 DEF Receipted
    <2> QED BY <1>3, <2>1, <2>2
  <1>9. Backed'
    BY <1>3, <1>5, <1>7, <1>8 DEF IInv, Backed, Receipted
  <1>10. Booked' /\ Placed' /\ AppliedOnce' /\ NothingLost'
    <2>1. state' = state
      BY DEF Adjudicate, queue
    <2>2. CASE Known(w) \/ Refuses(w)
      <3>1. UNCHANGED <<receipts, log, state>>
        BY <1>2, <2>1, <2>2
      <3> QED BY <3>1 DEF IInv, Booked, Placed, AppliedOnce, NothingLost, Receipted, Done
    <2>3. CASE ~Known(w) /\ ~Refuses(w)
      <3> DEFINE t == ItemOf[w.id]
                 n == Len(log[t])
      <3>1. ~Done(w.id)
        BY <1>1, <2>3 DEF Known, IInv, Booked, Receipted
      <3>2. log[t] \in Seq(Intent) /\ n \in Nat
        BY <1>1 DEF IInv, TypeOK
      <3>3. /\ log' = [log EXCEPT ![t] = Append(log[t], w.id)]
            /\ receipts' = receipts \cup {[key |-> w.id, at |-> v.at]}
        BY <1>1, <1>2, <2>3
      <3>4. \A u \in Item : u # t => log'[u] = log[u]
        BY <3>3 DEF IInv, TypeOK
      <3>5. /\ log'[t] = Append(log[t], w.id) /\ DOMAIN log'[t] = DOMAIN log[t] \cup {n + 1}
            /\ log'[t][n + 1] = w.id /\ n + 1 \notin DOMAIN log[t]
            /\ \A m \in DOMAIN log[t] : log'[t][m] = log[t][m]
        <4>1. log'[t] = Append(log[t], w.id)
          BY <1>1, <3>3 DEF IInv, TypeOK
        <4>2. /\ Len(log'[t]) = n + 1 /\ log'[t][n + 1] = w.id
              /\ \A m \in 1 .. n : log'[t][m] = log[t][m]
          BY <1>1, <3>2, <4>1
        <4>3. DOMAIN log[t] = 1 .. n
          BY <3>2
        <4>4. log'[t] \in Seq(Intent)
          BY <1>1, <3>2, <4>1
        <4>5. DOMAIN log'[t] = 1 .. (n + 1)
          BY <4>2, <4>4
        <4> QED BY <3>2, <4>1, <4>2, <4>3, <4>5
      <3>6. ASSUME NEW i \in Intent PROVE Done(i)' <=> Done(i) \/ i = w.id
        <4>1. CASE ItemOf[i] = t
          BY <3>5, <4>1 DEF Done
        <4>2. CASE ItemOf[i] # t
          BY <3>4, <4>2, IntentAssumption DEF Done
        <4> QED BY <4>1, <4>2
      <3>7. ASSUME NEW i \in Intent PROVE Receipted(i)' <=> Receipted(i) \/ i = w.id
        <4>1. \A r \in receipts' : r \in receipts \/ r.key = w.id
          BY <3>3
        <4>2. [key |-> w.id, at |-> v.at] \in receipts'
          BY <3>3
        <4>3. i = w.id => Receipted(i)'
          BY <4>2 DEF Receipted
        <4> QED BY <1>7, <4>1, <4>3 DEF Receipted
      <3>8. Booked'
        BY <3>6, <3>7 DEF IInv, Booked
      <3>9. Placed'
        <4>1. ASSUME NEW u \in Item, NEW m \in DOMAIN log'[u] PROVE ItemOf[log'[u][m]] = u
          <5>1. CASE u # t
            BY <3>4, <4>1, <5>1 DEF IInv, Placed
          <5>2. CASE u = t /\ m \in DOMAIN log[t]
            BY <1>1, <3>5, <5>2 DEF IInv, Placed
          <5>3. CASE u = t /\ m = n + 1
            BY <3>5, <5>3
          <5> QED BY <3>5, <4>1, <5>1, <5>2, <5>3
        <4> QED BY <4>1 DEF Placed
      <3>10. AppliedOnce'
        <4>1. ASSUME NEW u \in Item, NEW k \in DOMAIN log'[u], NEW m \in DOMAIN log'[u],
                     log'[u][k] = log'[u][m]
              PROVE  k = m
          <5>1. CASE u # t
            BY <3>4, <4>1, <5>1 DEF IInv, AppliedOnce
          <5>2. CASE u = t
            <6>1. \A j \in DOMAIN log[t] : log[t][j] # w.id
              BY <3>1 DEF Done
            <6>2. CASE k \in DOMAIN log[t] /\ m \in DOMAIN log[t]
              BY <1>1, <3>5, <4>1, <5>2, <6>2 DEF IInv, AppliedOnce
            <6>3. CASE k = n + 1 \/ m = n + 1
              BY <3>5, <4>1, <5>2, <6>1, <6>3
            <6> QED BY <3>5, <5>2, <6>2, <6>3
          <5> QED BY <5>1, <5>2
        <4> QED BY <4>1 DEF AppliedOnce
      <3>11. NothingLost'
        BY <2>1, <3>6 DEF IInv, NothingLost, Done
      <3> QED BY <3>8, <3>9, <3>10, <3>11
    <2> QED BY <2>2, <2>3
  <1> QED BY <1>6, <1>9, <1>10 DEF IInv

LEMMA StepInv == IInv /\ [Next]_vars => IInv'
  <1> SUFFICES ASSUME IInv, [Next]_vars PROVE IInv'
    OBVIOUS
  <1>1. TypeOK'
    BY TypeStep DEF IInv
  <1>2. ASSUME NEW d \in Drainer, Drain(d) PROVE IInv'
    BY <1>1, <1>2, LookInv, PostInv, FoldInv, RestInv, AdjudicateInv DEF Drain
  <1>3. ASSUME NEW i \in Intent, Write(i) PROVE IInv'
    BY <1>1, <1>3, WriteInv
  <1>4. ASSUME UNCHANGED <<queue, receipts, log, request, verdict>> PROVE IInv'
    BY <1>1, <1>4, Frame DEF queue, IInv, OwnKeys
  <1>5. ASSUME NEW t \in Item, ForeignEdit(t) PROVE IInv'
    BY <1>4, <1>5 DEF ForeignEdit, cycle, local
  <1>6. CASE UNCHANGED vars
    BY <1>4, <1>6 DEF vars, cycle, local, authority
  <1> QED BY <1>2, <1>3, <1>5, <1>6 DEF Next

LEMMA Inductive == Spec => []IInv
  BY InitInv, StepInv, PTL DEF Spec

\* However many processes drain the queue, and whatever is lost, sent again or
\* answered to nobody, the authority applies an intent at most once.
THEOREM AtMostOnce == Spec => []AppliedOnce
  <1>1. IInv => AppliedOnce
    BY DEF IInv
  <1> QED BY <1>1, Inductive, PTL

\* A row leaves the queue only when the authority has applied its write.
THEOREM NothingIsLost == Spec => []NothingLost
  <1>1. IInv => NothingLost
    BY DEF IInv
  <1> QED BY <1>1, Inductive, PTL

-----------------------------------------------------------------------------
(* Refusals.                                                               *)

LEMMA StepKeeps == TypeOK /\ [Next]_vars => [KeepsRefusals]_vars
  <1> SUFFICES ASSUME TypeOK, [Next]_vars, NEW i \in Intent, state[i] = "conflict"
               PROVE  state'[i] \in {"conflict", "pending"}
    BY DEF KeepsRefusals
  <1>1. CASE state' = state
    BY <1>1
  <1>2. ASSUME NEW j \in Intent, Write(j) PROVE state'[i] \in {"conflict", "pending"}
    BY <1>2 DEF Write, Draft, Enqueue, Classify, Accept, Release, queue, TypeOK
  <1>3. ASSUME NEW d \in Drainer, Drain(d) PROVE state'[i] \in {"conflict", "pending"}
    <2>1. CASE Fold(d)
      <3>1. \A v \in Settling(d) : v.id # i
        BY DEF Settling
      <3> QED BY <2>1, <3>1 DEF Fold, Applied
    <2>2. ASSUME NEW j \in Intent, Look(d, j) PROVE state'[i] = "conflict"
      BY <2>2 DEF Look, Skip, HoldBehind, Block, Retire, Take, SetState, TypeOK
    <2>3. \/ Fold(d) \/ (\E j \in Intent : Look(d, j)) \/ state' = state
      BY <1>3 DEF Drain, ReadCandidates, ReadBarriers, Post, Fetch, Store, Abandon,
                  Reply, Adjudicate, Lose, queue
    <2> QED BY <1>1, <2>1, <2>2, <2>3
  <1>4. ASSUME NEW t \in Item, ForeignEdit(t) PROVE state' = state
    BY <1>4 DEF ForeignEdit, queue
  <1>5. CASE UNCHANGED vars
    BY <1>1, <1>5 DEF vars, queue
  <1> QED BY <1>1, <1>2, <1>3, <1>4, <1>5 DEF Next

\* What the server refused is never dropped or taken for done: it stays a
\* conflict until an operator puts it back into the queue.
THEOREM RefusalIsKept == Spec => RefusalKept
  <1>1. Spec => [][KeepsRefusals]_vars
    BY TypeCorrect, StepKeeps, PTL DEF Spec
  <1> QED BY <1>1 DEF RefusalKept
=============================================================================
