-------------------------- MODULE ReceiveLeaseProofs --------------------------
(***************************************************************************)
(* Theorems about ReceiveLease, for any number of calls, parks,            *)
(* registrations and park logs.                                            *)
(*                                                                         *)
(* The argument: a number on the row or with a call was given by the park  *)
(* log, so none is above the log's own (Bounded), and two calls have the   *)
(* same number only as calls of one park (Distinct).  A call that arms     *)
(* under the current epoch therefore never puts a smaller number on the    *)
(* row, and the newest park is alone with its number: nobody else settles  *)
(* the row it armed.  An arm or settle that fails writes nothing, and a    *)
(* park whose arm failed is not one of those the invariant speaks of.      *)
(***************************************************************************)
EXTENDS ReceiveLease, TLAPS

\* A number of the log as it is now is one it gave.
Given(n) == n.epoch <= epoch /\ (n.epoch = epoch => n.gen <= gen)

Bounded == Given(armedBy) /\ \A h \in Call : Given(mine[h])

\* Calls that have one number know that they share it.
Distinct ==
    \A g, h \in Call : g # h /\ mine[g] = mine[h] /\ mine[g] # NoNumber => h \in shared

\* The last proof of the newest park is on the row.
ProofShows == \A h \in Call : Newest(h) /\ fresh[h] => live

\* The lease of the newest park has not run out.
LeaseCovers == \A h \in Call : Newest(h) /\ state = "waiting" => deadline # "past"

IInv ==
    /\ TypeOK /\ Bounded /\ Distinct
    /\ ParkedReadsWaiting /\ ProofShows /\ LeaseCovers

USE BoundAssumption, KeyAssumption

-----------------------------------------------------------------------------
(* Types.                                                                    *)

LEMMA InitIInv == Init => IInv
<1> SUFFICES ASSUME Init PROVE IInv
  OBVIOUS
<1> USE DEF Init
<1>1. TypeOK
  <2>1. epoch \in 1..MaxEpoch /\ gen \in 0..MaxGen
    OBVIOUS
  <2>2. armedBy \in Number /\ mine \in [Call -> Number] /\ read \in Number
    BY DEF Number, NoNumber, NotRead
  <2>3. /\ pc \in [Call -> Phase] /\ key \in [Call -> Key \cup {"none"}]
        /\ answered \in [Key -> BOOLEAN] /\ fresh \in [Call -> BOOLEAN]
    BY DEF Phase
  <2>4. live \in BOOLEAN /\ latched \in BOOLEAN /\ asked \in BOOLEAN /\ ~live
    OBVIOUS
  <2> QED
    BY <2>1, <2>2, <2>3, <2>4 DEF TypeOK, LeaseState
<1>2. Bounded /\ Distinct
  BY DEF Bounded, Given, Distinct, NoNumber
<1>3. \A h \in Call : ~Newest(h)
  BY DEF Newest, InFlight
<1> QED
  BY <1>1, <1>2, <1>3 DEF IInv, ParkedReadsWaiting, ProofShows, LeaseCovers

\* What the end of a call leaves is typed.
LEMMA EndsType ==
  ASSUME TypeOK, NEW h \in Call, NEW a \in BOOLEAN, Ends(h, a)
  PROVE  /\ pc' \in [Call -> Phase] /\ key' \in [Call -> Key \cup {"none"}]
         /\ mine' \in [Call -> Number] /\ fresh' \in [Call -> BOOLEAN]
         /\ shared' \subseteq Call /\ answered' \in [Key -> BOOLEAN]
         /\ landed' \subseteq {g \in Call : pc'[g] \in {"parked", "returning"}}
<1> USE DEF TypeOK, Ends
<1>1. pc' \in [Call -> Phase] /\ key' \in [Call -> Key \cup {"none"}]
  BY DEF Phase
<1>2. mine' \in [Call -> Number]
  BY DEF Number, NoNumber
<1>3. fresh' \in [Call -> BOOLEAN] /\ shared' \subseteq Call
  OBVIOUS
<1>4. answered' \in [Key -> BOOLEAN]
  OBVIOUS
<1>5. landed' \subseteq {g \in Call : pc'[g] \in {"parked", "returning"}}
  OBVIOUS
<1> QED
  BY <1>1, <1>2, <1>3, <1>4, <1>5

LEMMA TypeStep == TypeOK /\ [Next]_vars => TypeOK'
<1> SUFFICES ASSUME TypeOK, [Next]_vars PROVE TypeOK'
  OBVIOUS
<1>1. ASSUME NEW k \in Key, Over(k) PROVE TypeOK'
  BY <1>1 DEF TypeOK, Over, log, row, calls, past
<1>2. ASSUME NEW k \in Key, NEW h \in Call, NEW c \in BOOLEAN, Register(h, k, c) PROVE TypeOK'
  <2> USE <1>2 DEF Register
  <2>1. /\ epoch' \in 1..MaxEpoch /\ current' \in Key \cup {"none"} /\ gen' \in 0..MaxGen
    BY DEF TypeOK, log
  <2>2. pc' \in [Call -> Phase] /\ key' \in [Call -> Key \cup {"none"}]
    BY DEF TypeOK, Phase
  <2>3. mine' \in [Call -> Number]
    BY DEF TypeOK, Number, NoNumber
  <2>4. shared' \subseteq Call
    BY DEF TypeOK
  <2>5. landed' \subseteq {g \in Call : pc'[g] \in {"parked", "returning"}}
    BY DEF TypeOK
  <2> QED
    BY <2>1, <2>2, <2>3, <2>4, <2>5 DEF TypeOK, row
<1>3. ASSUME NEW h \in Call, Gone(h) PROVE TypeOK'
  <2>1. Ends(h, FALSE)
    BY <1>3 DEF Gone
  <2> QED
    BY <2>1, <1>3, EndsType DEF TypeOK, Gone, log, row
<1>4. ASSUME NEW h \in Call, Arm(h) PROVE TypeOK'
  <2> USE <1>4 DEF Arm, TypeOK
  <2>1. pc' \in [Call -> Phase] /\ fresh' \in [Call -> BOOLEAN]
    BY DEF Phase
  <2>2. armedBy' \in Number /\ state' \in LeaseState
    BY DEF LeaseState, row
  <2>3. live' \in BOOLEAN /\ deadline' \in {"none", "ahead", "past"}
        /\ latched' \in BOOLEAN /\ asked' \in BOOLEAN
        /\ (live' => state' = "waiting" /\ deadline' = "ahead")
    BY DEF row
  <2>4. landed' \subseteq {g \in Call : pc'[g] \in {"parked", "returning"}}
    OBVIOUS
  <2> QED
    BY <2>1, <2>2, <2>3, <2>4 DEF log
<1>5. ASSUME NEW h \in Call, Renew(h) PROVE TypeOK'
  BY <1>5 DEF TypeOK, Renew, log, calls
<1>6. ASSUME NEW h \in Call, Overtaken(h) PROVE TypeOK'
  <2>1. Ends(h, TRUE)
    BY <1>6 DEF Overtaken
  <2> QED
    BY <2>1, <1>6, EndsType DEF TypeOK, Overtaken, log, row
<1>7. ASSUME NEW h \in Call, Return(h) PROVE TypeOK'
  BY <1>7 DEF TypeOK, Return, log, row, past, Phase
<1>8. ASSUME NEW h \in Call, Settle(h) PROVE TypeOK'
  <2>1. Ends(h, TRUE)
    BY <1>8 DEF Settle
  <2>2. state' \in LeaseState /\ live' \in BOOLEAN /\ latched' \in BOOLEAN
        /\ deadline' \in {"none", "ahead", "past"}
        /\ (live' => state' = "waiting" /\ deadline' = "ahead")
    BY <1>8 DEF TypeOK, Settle, LeaseState, LiveAfterWait
  <2> QED
    BY <2>1, <2>2, <1>8, EndsType DEF TypeOK, Settle, log
<1>9. CASE Recreate
  BY <1>9 DEF TypeOK, Recreate, row, calls, past
<1>10. CASE StopArm
  BY <1>10 DEF TypeOK, StopArm, log, calls, past, LeaseState
<1>11. CASE Release
  BY <1>11 DEF TypeOK, Release, log, calls, LiveAfterWait, LeaseState
<1>12. CASE DeadlinePasses
  BY <1>12 DEF TypeOK, DeadlinePasses, log, calls
<1>13. CASE ProofLapses
  BY <1>13 DEF TypeOK, ProofLapses, log, calls
<1>14. CASE Alarm
  BY <1>14 DEF TypeOK, Alarm, log, calls, past
<1>15. CASE AskLook
  BY <1>15 DEF TypeOK, AskLook, log, row, calls, past
<1>16. CASE Ask
  <2>1. asked' \in BOOLEAN
    BY <1>16 DEF TypeOK, Ask, Askable
  <2>2. read' \in Number
    BY <1>16 DEF TypeOK, Ask, NotRead, Number
  <2> QED
    BY <1>16, <2>1, <2>2 DEF TypeOK, Ask, log, calls, past
<1>17. CASE UNCHANGED vars
  BY <1>17 DEF TypeOK, vars, log, row, calls, past
<1>18. ASSUME NEW h \in Call, ArmFails(h) PROVE TypeOK'
  BY <1>18 DEF TypeOK, ArmFails, log, row, past, Phase
<1>19. ASSUME NEW h \in Call, SettleFails(h) PROVE TypeOK'
  <2>1. Ends(h, TRUE)
    BY <1>19 DEF SettleFails
  <2> QED
    BY <2>1, <1>19, EndsType DEF TypeOK, SettleFails, log, row
<1> QED
  BY <1>1, <1>2, <1>3, <1>4, <1>5, <1>6, <1>7, <1>8, <1>9, <1>10, <1>11, <1>12, <1>13, <1>14,
     <1>15, <1>16, <1>17, <1>18, <1>19 DEF Next

-----------------------------------------------------------------------------
(* Numbers.                                                                  *)

LEMMA BoundedStep == TypeOK /\ Bounded /\ [Next]_vars => Bounded'
<1> SUFFICES ASSUME TypeOK, Bounded, [Next]_vars PROVE Bounded'
  OBVIOUS
<1> USE DEF Bounded, Given, TypeOK
<1>1. ASSUME NEW k \in Key, NEW h \in Call, NEW c \in BOOLEAN, Register(h, k, c)
      PROVE  Bounded'
  <2> USE DEF Number, NoNumber
  <2>1. epoch' = epoch /\ armedBy' = armedBy /\ gen' \in Nat /\ gen <= gen'
    BY <1>1 DEF Register, log, row
  <2>2. \/ mine'[h] = NoNumber
        \/ mine'[h] = [gen |-> gen', epoch |-> epoch]
    BY <1>1 DEF Register, log
  <2>3. \A g \in Call \ {h} : mine'[g] = mine[g]
    BY <1>1 DEF Register
  <2> QED
    BY <2>1, <2>2, <2>3
<1>2. ASSUME NEW h \in Call, NEW a \in BOOLEAN, Ends(h, a), UNCHANGED <<log, armedBy>>
      PROVE  Bounded'
  BY <1>2 DEF Ends, log, NoNumber
<1>3. ASSUME NEW h \in Call, Gone(h) \/ Overtaken(h) \/ Settle(h) \/ SettleFails(h)
      PROVE  Bounded'
  BY <1>3, <1>2 DEF Gone, Overtaken, Settle, SettleFails, row
<1>4. ASSUME NEW h \in Call, Arm(h) PROVE Bounded'
  BY <1>4 DEF Arm, log, row
<1>5. CASE Recreate
  BY <1>5 DEF Recreate, row, calls, Number
<1>6. ASSUME UNCHANGED <<log, armedBy, mine>> PROVE Bounded'
  BY <1>6 DEF log
<1>7. ASSUME NEW k \in Key, Over(k) PROVE Bounded'
  BY <1>7, <1>6 DEF Over, row, calls
<1>8. ASSUME NEW h \in Call, Renew(h) \/ Return(h) \/ ArmFails(h) PROVE Bounded'
  BY <1>8, <1>6 DEF Renew, Return, ArmFails, row, calls
<1>9. CASE StopArm \/ Release \/ DeadlinePasses \/ ProofLapses \/ Alarm \/ AskLook \/ Ask
  BY <1>9, <1>6 DEF StopArm, Release, DeadlinePasses, ProofLapses, Alarm, AskLook, Ask,
     row, calls
<1>10. CASE UNCHANGED vars
  BY <1>10, <1>6 DEF vars, row, calls
<1> QED
  BY <1>1, <1>3, <1>4, <1>5, <1>7, <1>8, <1>9, <1>10 DEF Next

LEMMA DistinctStep == TypeOK /\ Bounded /\ Distinct /\ [Next]_vars => Distinct'
<1> SUFFICES ASSUME TypeOK, Bounded, Distinct, [Next]_vars PROVE Distinct'
  OBVIOUS
<1>1. ASSUME NEW k \in Key, NEW h \in Call, NEW c \in BOOLEAN, Register(h, k, c)
      PROVE  Distinct'
  <2> DEFINE others == {g \in Call : mine[g] = mine'[h] /\ mine'[h] # NoNumber}
  <2>1. mine' = [mine EXCEPT ![h] = mine'[h]]
    BY <1>1 DEF Register, TypeOK
  <2>2. shared' = IF others = {} THEN shared ELSE shared \cup others \cup {h}
    BY <1>1 DEF Register, TypeOK
  <2>3. SUFFICES ASSUME NEW g \in Call, NEW f \in Call, g # f,
                        mine'[g] = mine'[f], mine'[g] # NoNumber
                 PROVE  f \in shared'
    BY DEF Distinct
  <2>4. CASE g # h /\ f # h
    BY <2>1, <2>2, <2>3, <2>4 DEF Distinct, TypeOK
  <2>5. CASE g = h
    <3>1. f \in others
      BY <2>1, <2>3, <2>5 DEF TypeOK
    <3> QED
      BY <3>1, <2>2
  <2>6. CASE f = h
    <3>1. g \in others
      BY <2>1, <2>3, <2>6 DEF TypeOK
    <3> QED
      BY <3>1, <2>2, <2>6
  <2> QED
    BY <2>4, <2>5, <2>6
<1>2. ASSUME NEW h \in Call, NEW a \in BOOLEAN, Ends(h, a) PROVE Distinct'
  BY <1>2 DEF Ends, Distinct, TypeOK
<1>3. ASSUME NEW h \in Call, Gone(h) \/ Overtaken(h) \/ Settle(h) \/ SettleFails(h)
      PROVE  Distinct'
  BY <1>3, <1>2 DEF Gone, Overtaken, Settle, SettleFails
<1>4. ASSUME UNCHANGED <<mine, shared>> PROVE Distinct'
  BY <1>4 DEF Distinct
<1>5. ASSUME NEW k \in Key, Over(k) PROVE Distinct'
  BY <1>5, <1>4 DEF Over, calls, past
<1>6. ASSUME NEW h \in Call, Arm(h) \/ ArmFails(h) \/ Renew(h) \/ Return(h) PROVE Distinct'
  BY <1>6, <1>4 DEF Arm, ArmFails, Renew, Return, calls, past
<1>7. CASE Recreate \/ StopArm \/ Release \/ DeadlinePasses \/ ProofLapses
             \/ Alarm \/ AskLook \/ Ask
  BY <1>7, <1>4 DEF Recreate, StopArm, Release, DeadlinePasses, ProofLapses, Alarm,
     AskLook, Ask, calls, past
<1>8. CASE UNCHANGED vars
  BY <1>8, <1>4 DEF vars, calls, past
<1> QED
  BY <1>1, <1>3, <1>5, <1>6, <1>7, <1>8 DEF Next

-----------------------------------------------------------------------------
(* The newest park.                                                          *)

\* What the invariant says of the newest park.
Kept(h) ==
    /\ state \in {"waiting", "released"} /\ armedBy = mine[h]
    /\ fresh[h] => live
    /\ state = "waiting" => deadline # "past"

\* Nobody else has its number.
LEMMA Alone ==
  ASSUME Distinct, NEW h \in Call, Newest(h), NEW g \in Call, g # h
  PROVE  mine[g] # mine[h]
  BY DEF Distinct, Newest, InFlight

\* A call that owns the row and one that arms it are of the newest park, when
\* that is in flight.
LEMMA Fence ==
  ASSUME TypeOK, Bounded, Distinct, NEW h \in Call, Newest(h), armedBy = mine[h],
         NEW g \in Call, g # h
  PROVE  /\ ~Owns(mine[g])
         /\ mine[g] # NoNumber /\ CurrentEpoch(mine[g]) => ~NotOlder(mine[g])
<1>1. mine[g] # mine[h]
  BY Alone
<1>2. mine[h] = [gen |-> gen, epoch |-> epoch]
  BY DEF Newest
<1>3. ASSUME CurrentEpoch(mine[g]) PROVE ~NotOlder(mine[g])
  <2>1. mine[g] \in Number /\ mine[g].epoch = epoch /\ mine[g].gen <= gen
    BY <1>3 DEF TypeOK, Bounded, Given, CurrentEpoch
  <2>2. mine[g].gen # gen
    BY <1>1, <1>2, <2>1 DEF Number
  <2>3. mine[g].gen \in Nat /\ gen \in Nat
    BY <2>1 DEF TypeOK, Number
  <2>4. armedBy.gen = gen /\ armedBy.epoch = epoch
    BY <1>2
  <2> QED
    BY <2>1, <2>2, <2>3, <2>4 DEF NotOlder
<1> QED
  BY <1>1, <1>3 DEF Owns

LEMMA NewestStep ==
  ASSUME TypeOK, Bounded, Distinct, \A g \in Call : Newest(g) => Kept(g), [Next]_vars,
         NEW h \in Call, Newest(h)'
  PROVE  Kept(h)'
<1>1. ASSUME Newest(h), UNCHANGED <<state, armedBy, mine, live, deadline>>, fresh'[h] => fresh[h]
      PROVE  Kept(h)'
  BY <1>1 DEF Kept
<1>2. ASSUME NEW k \in Key, NEW g \in Call, NEW c \in BOOLEAN, Register(g, k, c)
      PROVE  Kept(h)'
  <2>1. g # h
    BY <1>2 DEF Register, Newest, InFlight, TypeOK, Phase
  <2>2. mine'[h] = mine[h] /\ pc'[h] = pc[h] /\ shared \subseteq shared' /\ landed' = landed
    BY <1>2, <2>1 DEF Register, TypeOK
  <2>3. gen' = gen /\ epoch' = epoch
    <3>1. epoch' = epoch /\ (gen' = gen \/ gen' = gen + 1)
      BY <1>2 DEF Register, log
    <3>2. mine[h].epoch = epoch /\ mine[h].gen = gen'
      BY <2>2, <3>1 DEF Newest
    <3> QED
      BY <3>1, <3>2 DEF Bounded, Given, TypeOK
  <2>4. Newest(h)
    BY <2>2, <2>3 DEF Newest, InFlight
  <2> QED
    BY <2>2, <2>4, <1>2 DEF Kept, Register, row
<1>3. ASSUME NEW g \in Call, NEW a \in BOOLEAN, Ends(g, a), UNCHANGED <<gen, epoch>>
      PROVE  g # h /\ Newest(h) /\ mine'[h] = mine[h] /\ fresh'[h] = fresh[h]
  <2>1. g # h
    BY <1>3 DEF Ends, Newest, InFlight, TypeOK, Phase
  <2> QED
    BY <1>3, <2>1 DEF Ends, Newest, InFlight, TypeOK
<1>4. ASSUME NEW g \in Call, Gone(g) \/ Overtaken(g) \/ SettleFails(g) PROVE Kept(h)'
  <2>1. Newest(h) /\ mine'[h] = mine[h] /\ fresh'[h] = fresh[h]
    BY <1>4, <1>3 DEF Gone, Overtaken, SettleFails, log
  <2>2. UNCHANGED row
    BY <1>4 DEF Gone, Overtaken, SettleFails
  <2> QED
    BY <2>1, <2>2 DEF Kept, row
<1>5. ASSUME NEW g \in Call, Arm(g) PROVE Kept(h)'
  <2>1. CASE g = h
    <3>1. mine[h] = [gen |-> gen, epoch |-> epoch] /\ mine[h] # NoNumber
      BY <1>5 DEF Arm, Newest, InFlight, log
    <3>2. CurrentEpoch(mine[h]) /\ NotOlder(mine[h])
      BY <3>1 DEF CurrentEpoch, NotOlder, Bounded, Given, TypeOK, Number
    <3> QED
      BY <1>5, <2>1, <3>1, <3>2 DEF Arm, Kept
  <2>2. CASE g # h
    <3>1. Newest(h) /\ mine' = mine
      BY <1>5, <2>2 DEF Arm, Newest, InFlight, TypeOK, log
    <3>2. armedBy = mine[h]
      BY <3>1 DEF Kept
    <3>3. UNCHANGED <<row, fresh>>
      BY <1>5, <2>2, <3>1, <3>2, Fence DEF Arm
    <3> QED
      BY <1>1, <3>1, <3>3 DEF row
  <2> QED
    BY <2>1, <2>2
<1>6. ASSUME NEW g \in Call, Renew(g) PROVE Kept(h)'
  <2>1. Newest(h) /\ UNCHANGED <<state, armedBy, mine, deadline>> /\ live'
    BY <1>6 DEF Renew, Newest, InFlight, log, calls
  <2> QED
    BY <2>1 DEF Kept
<1>7. ASSUME NEW g \in Call, Return(g) PROVE Kept(h)'
  <2>1. Newest(h)
    BY <1>7 DEF Return, Newest, InFlight, TypeOK, log, past
  <2> QED
    BY <2>1, <1>1, <1>7 DEF Return, row, past
<1>8. ASSUME NEW g \in Call, Settle(g) PROVE Kept(h)'
  <2>1. g # h /\ Newest(h) /\ mine'[h] = mine[h] /\ fresh'[h] = fresh[h]
    BY <1>8, <1>3 DEF Settle, log
  <2>2. UNCHANGED <<state, deadline, live, latched>>
    <3>1. ~Owns(mine[g])
      BY <2>1, Fence DEF Kept
    <3> QED
      BY <1>8, <3>1 DEF Settle
  <2> QED
    BY <1>8, <2>1, <2>2 DEF Settle, Kept
<1>9. CASE Recreate
  BY <1>9 DEF Recreate, Newest, InFlight, Bounded, Given, TypeOK, calls, past
<1>10. ASSUME UNCHANGED <<gen, epoch, pc, mine, shared, landed>> PROVE Newest(h)
  BY <1>10 DEF Newest, InFlight
<1>11. CASE StopArm
  BY <1>11, <1>10 DEF StopArm, Kept, log, calls, past
<1>12. CASE Release
  BY <1>12, <1>10 DEF Release, Kept, log, calls
<1>13. CASE DeadlinePasses
  <2>1. Newest(h)
    BY <1>13, <1>10 DEF DeadlinePasses, log, calls
  <2>2. state # "waiting"
    <3>1. Covered(h)
      BY <2>1 DEF Covered, CurrentEpoch, Kept, Newest
    <3> QED
      BY <1>13, <3>1 DEF DeadlinePasses
  <2> QED
    BY <1>13, <2>1, <2>2 DEF DeadlinePasses, Kept, calls
<1>14. CASE ProofLapses
  BY <1>14, <1>10 DEF ProofLapses, Kept, log, calls
<1>15. CASE Alarm \/ AskLook \/ Ask
  BY <1>15, <1>10, <1>1 DEF Alarm, AskLook, Ask, log, row, calls, past
<1>16. ASSUME NEW k \in Key, Over(k) PROVE Kept(h)'
  BY <1>16, <1>10, <1>1 DEF Over, log, row, calls, past
<1>17. CASE UNCHANGED vars
  BY <1>17, <1>10, <1>1 DEF vars, log, row, calls, past
<1>18. ASSUME NEW g \in Call, ArmFails(g) PROVE Kept(h)'
  <2>1. g # h
    BY <1>18 DEF ArmFails, Newest, TypeOK, past
  <2>2. Newest(h)
    BY <1>18, <2>1 DEF ArmFails, Newest, InFlight, TypeOK, log, past
  <2> QED
    BY <2>2, <1>1, <1>18 DEF ArmFails, row, past
<1> QED
  BY <1>2, <1>4, <1>5, <1>6, <1>7, <1>8, <1>9, <1>11, <1>12, <1>13, <1>14, <1>15, <1>16, <1>17,
     <1>18 DEF Next

\* IInv is inductive.
LEMMA Inductive == IInv /\ [Next]_vars => IInv'
<1> SUFFICES ASSUME IInv, [Next]_vars PROVE IInv'
  OBVIOUS
<1>1. TypeOK' /\ Bounded' /\ Distinct'
  BY TypeStep, BoundedStep, DistinctStep DEF IInv
<1>2. \A g \in Call : Newest(g) => Kept(g)
  BY DEF IInv, ParkedReadsWaiting, ProofShows, LeaseCovers, Kept
<1>3. \A h \in Call : Newest(h)' => Kept(h)'
  BY <1>2, NewestStep DEF IInv
<1> QED
  BY <1>1, <1>3 DEF IInv, ParkedReadsWaiting, ProofShows, LeaseCovers, Kept

-----------------------------------------------------------------------------
(* Theorems.                                                                 *)

\* The inductive invariant: the numbers of parks, the row of the newest one and
\* the lease that covers it (_xaacp_park_register, arm, settle, renew_park).
THEOREM Invariant == Spec => []IInv
<1> QED
  BY InitIInv, Inductive, PTL DEF Spec

\* The states of the park log, the lease and the calls are typed.
THEOREM TypeCorrect == Spec => []TypeOK
<1>1. IInv => TypeOK
  BY DEF IInv
<1> QED
  BY Invariant, <1>1, PTL

\* While the newest park of an actor is in flight and its arm reached the lease
\* store, the actor reads as waiting (or released) under that park's number,
\* whatever overtaken calls do late and whichever of their arms and settles fail.
THEOREM ParkedActorReadsWaiting == Spec => []ParkedReadsWaiting
<1>1. IInv => ParkedReadsWaiting
  BY DEF IInv
<1> QED
  BY Invariant, <1>1, PTL

\* The number on the lease never goes back.
THEOREM FenceNeverLowered == Spec => FenceHolds
<1> DEFINE Raised == \/ armedBy'.epoch > armedBy.epoch
                     \/ armedBy'.epoch = armedBy.epoch /\ armedBy'.gen >= armedBy.gen
<1>1. IInv /\ [Next]_vars => [Raised]_vars
  <2> SUFFICES ASSUME IInv, [Next]_vars, vars' # vars PROVE Raised
    OBVIOUS
  <2> USE DEF IInv, TypeOK, Number
  <2>1. ASSUME armedBy' = armedBy PROVE Raised
    BY <2>1
  <2>2. ASSUME NEW h \in Call, Arm(h) PROVE Raised
    <3>1. CASE armedBy' = armedBy
      BY <2>1, <3>1
    <3>2. CASE armedBy' = mine[h] /\ CurrentEpoch(mine[h]) /\ NotOlder(mine[h])
      BY <3>2 DEF CurrentEpoch, NotOlder, Bounded, Given
    <3> QED
      BY <2>2, <3>1, <3>2 DEF Arm, row
  <2>3. ASSUME NEW h \in Call, \/ Gone(h) \/ ArmFails(h) \/ Renew(h) \/ Overtaken(h)
                              \/ Return(h) \/ Settle(h) \/ SettleFails(h)
        PROVE  Raised
    BY <2>3, <2>1 DEF Gone, ArmFails, Renew, Overtaken, Return, Settle, SettleFails, row
  <2>4. ASSUME NEW k \in Key, \/ Over(k)
                             \/ \E h \in Call, c \in BOOLEAN : Register(h, k, c)
        PROVE  Raised
    BY <2>4, <2>1 DEF Over, Register, row
  <2>5. CASE Recreate \/ StopArm \/ Release \/ DeadlinePasses \/ ProofLapses
               \/ Alarm \/ AskLook \/ Ask
    BY <2>5, <2>1 DEF Recreate, StopArm, Release, DeadlinePasses, ProofLapses, Alarm,
       AskLook, Ask, row
  <2> QED
    BY <2>2, <2>3, <2>4, <2>5 DEF Next
<1> QED
  BY Invariant, <1>1, PTL DEF Spec, FenceHolds

\* An actor is not asked to park while its newest park, whose arm reached the
\* lease store, proves itself.
THEOREM NeverAskedWhileParked == Spec => NotAskedWhileParked
<1> DEFINE Rightly == ~asked /\ asked' => \A h \in Call : Newest(h) => ~fresh[h]
<1>1. IInv /\ [Next]_vars => [Rightly]_vars
  <2> SUFFICES ASSUME IInv, [Next]_vars, ~asked, asked',
                      NEW h \in Call, Newest(h), fresh[h]
               PROVE  FALSE
    OBVIOUS
  <2>1. live
    BY DEF IInv, ProofShows
  <2>2. ASSUME NEW g \in Call, \/ Gone(g) \/ Arm(g) \/ ArmFails(g) \/ Renew(g)
                              \/ Overtaken(g) \/ Return(g) \/ Settle(g) \/ SettleFails(g)
        PROVE  FALSE
    BY <2>2 DEF Gone, Arm, ArmFails, Renew, Overtaken, Return, Settle, SettleFails, row
  <2>3. ASSUME NEW k \in Key, \/ Over(k)
                             \/ \E g \in Call, c \in BOOLEAN : Register(g, k, c)
        PROVE  FALSE
    BY <2>3 DEF Over, Register, row
  <2>4. CASE Recreate \/ StopArm \/ Release \/ DeadlinePasses \/ ProofLapses
               \/ Alarm \/ AskLook
    BY <2>4 DEF Recreate, StopArm, Release, DeadlinePasses, ProofLapses, Alarm,
       AskLook, row
  <2>5. CASE Ask
    BY <2>1, <2>5 DEF Ask, Askable
  <2>6. CASE UNCHANGED vars
    BY <2>6 DEF vars, row
  <2> QED
    BY <2>2, <2>3, <2>4, <2>5, <2>6 DEF Next
<1> QED
  BY Invariant, <1>1, PTL DEF Spec, NotAskedWhileParked

\* An actor is not reported missing while its newest park is in flight and that
\* park's arm reached the lease store (_arm_lease, claim_alarm).
THEOREM NeverReportedWhileParked == Spec => NotReportedWhileParked
<1> DEFINE Rightly == ~latched /\ latched' => \A h \in Call : ~Newest(h)
<1>1. IInv /\ [Next]_vars => [Rightly]_vars
  <2> SUFFICES ASSUME IInv, [Next]_vars, ~latched, latched', NEW h \in Call, Newest(h)
               PROVE  FALSE
    OBVIOUS
  <2>1. Kept(h)
    BY DEF IInv, ParkedReadsWaiting, ProofShows, LeaseCovers, Kept
  <2>2. ASSUME NEW g \in Call, \/ Gone(g) \/ Arm(g) \/ ArmFails(g) \/ Renew(g)
                              \/ Overtaken(g) \/ Return(g) \/ Settle(g) \/ SettleFails(g)
        PROVE  FALSE
    BY <2>2 DEF Gone, Arm, ArmFails, Renew, Overtaken, Return, Settle, SettleFails, row
  <2>3. ASSUME NEW k \in Key, \/ Over(k)
                             \/ \E g \in Call, c \in BOOLEAN : Register(g, k, c)
        PROVE  FALSE
    BY <2>3 DEF Over, Register, row
  <2>4. CASE Recreate \/ StopArm \/ Release \/ DeadlinePasses \/ ProofLapses
               \/ AskLook \/ Ask
    BY <2>4 DEF Recreate, StopArm, Release, DeadlinePasses, ProofLapses,
       AskLook, Ask, row
  <2>5. CASE Alarm
    BY <2>1, <2>5 DEF Alarm, Kept
  <2>6. CASE UNCHANGED vars
    BY <2>6 DEF vars, row
  <2> QED
    BY <2>2, <2>3, <2>4, <2>5, <2>6 DEF Next
<1> QED
  BY Invariant, <1>1, PTL DEF Spec, NotReportedWhileParked

===============================================================================
