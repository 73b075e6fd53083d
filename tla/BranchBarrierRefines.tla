------------------------ MODULE BranchBarrierRefines -------------------------
(***************************************************************************)
(* BranchBarrier implements TreeAccess, and what that means for the tree,  *)
(* for any number of processes, machines, invocations and native tools of  *)
(* attested hosts, under the timing the TTLs are chosen for.               *)
(***************************************************************************)
EXTENDS BranchBarrierProofs

AllAttested == Native \subseteq Attested

\* Actors have one identity each.
ActorsDistinct == Call \cap Native = {}

Mutating ==
    {c \in Call : pc[c] \notin Drained /\ \E s \in Seam : <<c, s>> \in region}
    \cup {n \in Native : npc[n] = "running"}
Switching == {c \in Call : pc[c] \in Drained}

-----------------------------------------------------------------------------
(* The tree between the samples and the receipt.                           *)

\* What a switch sampled still holds when it acts on it.
TreeInv == \A c \in Call : /\ pc[c] = "cleared" => ~dirty
                           /\ pc[c] = "moved" => head = c

\* No step disturbs the tree under a switch that sampled it: the others are
\* not running, and its own git commands only read.
LEMMA TreeStep ==
    ASSUME NativeTimely, AllAttested, IInv, TreeInv, [Next]_vars
    PROVE TreeInv'
<1> USE DEF IInv, TypeOK, TreeInv, rows, tree
<1>1. ASSUME NEW c \in Call, Write(c) PROVE TreeInv'
  BY <1>1 DEF Write, Mutates, SwitchExcludesMutations, Drained, Holding
<1>2. ASSUME NEW c \in Call, Shared(c) PROVE TreeInv'
  BY <1>1, <1>2 DEF Shared, EnterGate, EnterTool, EnterWorker, EnterWrite, EnterUnleased, Enter,
              Refused, Return
<1>3. ASSUME NEW c \in Call, Exclusive(c) PROVE TreeInv'
  <2>1. CASE MoveHead(c)
    <3>1. \A d \in Call : pc[d] \in Drained => d = c
      BY <2>1 DEF MoveHead, HolderInv, Holding, Drained
    <3> QED BY <2>1, <3>1 DEF MoveHead, GitDone, Drained
  <2>2. CASE SampleClean(c) \/ SampleRefuses(c) \/ Receipt(c)
    BY <2>2 DEF SampleClean, SampleRefuses, Receipt, GitDone
  <2> QED BY <1>3, <2>1, <2>2 DEF Exclusive, Acquire, DrainOver, DrainTimeout,
              GitRefused, Release, BarrierBeat, BarrierBeatStops
<1>4. ASSUME NEW n \in Native, NativeTool(n) PROVE TreeInv'
  <2>1. CASE NativeWrite(n)
    BY <2>1 DEF NativeWrite, AllAttested, NativeOut, NativeInUse, Drained
  <2> QED BY <1>4, <2>1 DEF NativeTool, Judge, NativePre, NativeStart, NativePost,
              NativeVanishes, PresenceLapses
<1>5. ASSUME NEW p \in Proc, Crash(p) PROVE TreeInv'
  BY <1>5 DEF Crash
<1>6. CASE UNCHANGED <<pc, dirty, head>>
  BY <1>6
<1> QED BY <1>2, <1>3, <1>4, <1>5, <1>6
        DEF Next, Exit, Leave, Beat, LeaseLapses, NativeLapses, BarrierLapses, vars

\* The sampled tree is still as sampled, in every behaviour.
THEOREM TreeStill ==
    ASSUME Timely, NativeTimely, AllAttested PROVE Spec => []TreeInv
<1>1. Init => TreeInv
  BY DEF Init, TreeInv
<1> QED BY <1>1, Invariance, TreeStep, PTL DEF Spec

\* A receipt that says ok is true.
THEOREM ReceiptsAreTrue ==
    ASSUME Timely, NativeTimely, AllAttested PROVE Spec => []ReceiptIsTrue
<1>1. TreeInv => ReceiptIsTrue
  BY DEF TreeInv, ReceiptIsTrue
<1> QED BY <1>1, TreeStill, PTL

\* `git switch` never runs over uncommitted work.
THEOREM WorkIsKept ==
    ASSUME Timely, NativeTimely, AllAttested PROVE Spec => NoLostWork
<1>1. TreeInv => (\A c \in Call : pc[c] = "cleared" /\ pc'[c] = "moved" => ~dirty)
  BY DEF TreeInv
<1> QED BY <1>1, TreeStill, PTL DEF NoLostWork

-----------------------------------------------------------------------------
(* Refinement.                                                             *)

\* The start of the protocol is a start of TreeAccess.
LEMMA RefinesInit == Init => Access!Init
BY DEF Init, Access!Init, Drained

\* Every step of the protocol is one of TreeAccess, or leaves it alone.
LEMMA RefinesNext ==
    ASSUME NativeTimely, AllAttested, ActorsDistinct, IInv, TreeInv, [Next]_vars
    PROVE [Access!Next]_(Access!vars)
<1> DEFINE M == Mutating
           W == Switching
<1> USE DEF IInv, TypeOK, rows, tree, Mutating, Switching
<1>s. ASSUME M' = M, W' = W, dirty' = dirty, head' = head
      PROVE [Access!Next]_(Access!vars)
  BY <1>s DEF Access!vars
<1>e. ASSUME M' \subseteq M, W' \subseteq W, dirty' = dirty, head' = head
      PROVE [Access!Next]_(Access!vars)
  BY <1>e DEF Access!Next, Access!End
<1>1. ASSUME NEW c \in Call, NEW s \in Seam, Enter(c, s), npc' = npc,
             pc[c] \notin Drained, pc'[c] \notin Drained,
             \A d \in Call : d # c => pc'[d] = pc[d]
      PROVE [Access!Next]_(Access!vars)
  <2>1. W = {}
    BY <1>1, HolderBlocks, ProcOfAssumption, MachineOfAssumption
       DEF Enter, Drained, Holding, Here
  <2>2. W' = {} /\ M' = M \cup {c}
    BY <1>1, <2>1, ActorsDistinct DEF Enter
  <2> QED BY <1>1, <2>1, <2>2 DEF Enter, Access!Next, Access!Begin
<1>2. ASSUME NEW c \in Call, Shared(c) PROVE [Access!Next]_(Access!vars)
  <2>1. CASE EnterGate(c) BY <2>1, <1>1 DEF EnterGate, Enter, Drained
  <2>2. CASE EnterTool(c) BY <2>2, <1>1 DEF EnterTool, Enter, Drained
  <2>3. CASE EnterWorker(c) BY <2>3, <1>1 DEF EnterWorker, Enter, Drained
  <2>4. CASE EnterWrite(c)
    <3>1. CASE pc[c] \in Drained
      BY <2>4, <3>1, <1>s DEF EnterWrite, Enter
    <3> QED BY <2>4, <3>1, <1>1 DEF EnterWrite, Enter
  <2>5. CASE Refused(c) \/ Return(c)
    BY <2>5, <1>s DEF Refused, Return, Drained
  <2>6. CASE Write(c)
    <3>1. c \in M /\ M' = M /\ W' = W
      BY <2>6 DEF Write, Mutates, Drained, Holding
    <3> QED BY <2>6, <3>1 DEF Write, Access!Next, Access!Mutate
  <2>7. CASE EnterUnleased(c)
    <3>1. \E s \in Seam : <<c, s>> \in region
      BY <2>7 DEF EnterUnleased, NestInv
    <3>2. M' = M /\ W' = W
      BY <2>7, <3>1 DEF EnterUnleased
    <3> QED BY <2>7, <3>2, <1>s DEF EnterUnleased
  <2> QED BY <1>2, <2>1, <2>2, <2>3, <2>4, <2>5, <2>6, <2>7 DEF Shared
<1>3. ASSUME NEW c \in Call, pc[c] \in Drained, npc' = npc,
             region' = region \/ region' = region \ {<<c, "write">>},
             pc' = [pc EXCEPT ![c] = "releasing"], dirty' = dirty, head' = head
      PROVE [Access!Next]_(Access!vars)
  <2>1. W = {c}
    BY <1>3 DEF HolderInv, Drained, Holding
  <2>2. W' = {} /\ M' \in {M, M \cup {c}}
    BY <1>3, <2>1 DEF Drained
  <2> QED BY <1>3, <2>1, <2>2 DEF Access!Next, Access!EndSwitch
<1>4. ASSUME NEW c \in Call, Exclusive(c) PROVE [Access!Next]_(Access!vars)
  <2>1. CASE DrainOver(c)
    <3>1. \A d \in Call, s \in Seam : d # c => <<d, s>> \notin region
      BY <2>1, NothingPending DEF DrainOver, Holding
    <3>2. \A n \in Native : npc[n] # "running"
      BY <2>1, NothingPending DEF DrainOver, AllAttested, NativeInUse, Holding
    <3>3. W = {}
      BY <2>1 DEF DrainOver, HolderInv, Drained, Holding
    <3>4. M \subseteq {c}
      BY <3>1, <3>2
    <3>5. W' = {c} /\ M' = {}
      BY <2>1, <3>1, <3>2, <3>3 DEF DrainOver, Drained
    <3> QED BY <2>1, <3>3, <3>4, <3>5 DEF DrainOver, Access!Next, Access!StartSwitch
  <2>2. CASE SampleClean(c)
    BY <2>2, <1>s DEF SampleClean, GitDone, Leave, Drained
  <2>3. CASE SampleRefuses(c) BY <2>3, <1>3 DEF SampleRefuses, GitDone, Leave, Drained
  <2>4. CASE MoveHead(c) /\ pc' = [pc EXCEPT ![c] = "moved"]
    <3>1. c \in W /\ M' = M /\ W' = W
      BY <2>4 DEF MoveHead, GitDone, Leave, Drained
    <3>2. ~dirty /\ head' = c /\ dirty' = dirty
      BY <2>4 DEF MoveHead, GitDone, TreeInv
    <3> QED BY <3>1, <3>2 DEF Access!Next, Access!Move
  <2>5. CASE MoveHead(c) /\ pc' # [pc EXCEPT ![c] = "moved"]
    BY <2>5, <1>3 DEF MoveHead, GitDone, Leave, Drained
  <2>6. CASE Receipt(c) BY <2>6, <1>3 DEF Receipt, GitDone, Leave, Drained
  <2>7. CASE GitRefused(c) BY <2>7, <1>3 DEF GitRefused
  <2>8. CASE \/ Acquire(c) \/ DrainTimeout(c) \/ Release(c)
             \/ BarrierBeat(c) \/ BarrierBeatStops(c)
    BY <2>8, <1>s DEF Acquire, DrainTimeout, Release, BarrierBeat, BarrierBeatStops, Drained
  <2> QED BY <1>4, <2>1, <2>2, <2>3, <2>4, <2>5, <2>6, <2>7, <2>8 DEF Exclusive
<1>5. ASSUME NEW c \in Call, NEW s \in Seam, Exit(c, s)
      PROVE [Access!Next]_(Access!vars)
  BY <1>5, <1>e DEF Exit, Leave
<1>6. ASSUME NEW n \in Native, NativeTool(n) PROVE [Access!Next]_(Access!vars)
  <2>1. CASE NativeStart(n)
    <3>1. W = {} /\ W' = {} /\ M' = M \cup {n}
      BY <2>1, ActorsDistinct DEF NativeStart, NativeOut, NativeInUse, AllAttested
    <3> QED BY <2>1, <3>1 DEF NativeStart, Access!Next, Access!Begin
  <2>2. CASE NativePost(n) \/ NativeVanishes(n)
    BY <2>2, <1>e DEF NativePost, NativeVanishes
  <2>3. CASE NativeWrite(n)
    <3>1. n \in M /\ M' = M /\ W' = W
      BY <2>3 DEF NativeWrite
    <3> QED BY <2>3, <3>1 DEF NativeWrite, Access!Next, Access!Mutate
  <2>4. CASE Judge(n) \/ NativePre(n) \/ PresenceLapses(n)
    BY <2>4, <1>s DEF Judge, NativePre, PresenceLapses
  <2> QED BY <1>6, <2>1, <2>2, <2>3, <2>4 DEF NativeTool
<1>7. ASSUME NEW p \in Proc, Crash(p) PROVE [Access!Next]_(Access!vars)
  <2>1. M' \subseteq M /\ W' \subseteq W
    BY <1>7 DEF Crash, Drained, RegionInv, Kept, HolderInv, Holding
  <2> QED BY <1>7, <2>1, <1>e DEF Crash
<1>8. CASE UNCHANGED <<region, pc, npc, dirty, head>>
  BY <1>8, <1>s
<1> QED BY <1>2, <1>4, <1>5, <1>6, <1>7, <1>8
        DEF Next, Beat, LeaseLapses, NativeLapses, BarrierLapses, vars

\* The barrier, its rows, heartbeats and hooks implement exclusive access to
\* the tree.
THEOREM Refinement ==
    ASSUME Timely, NativeTimely, AllAttested, ActorsDistinct
    PROVE Spec => ImplementsTreeAccess
<1> QED BY Invariance, TreeStill, RefinesInit, RefinesNext, PTL
        DEF Spec, ImplementsTreeAccess, Access!Spec
==============================================================================
