------------------------- MODULE BranchBarrierProofs -------------------------
(***************************************************************************)
(* Proofs about BranchBarrier, for any number of processes, machines,      *)
(* invocations and native tools.                                           *)
(***************************************************************************)
EXTENDS BranchBarrier, TLAPS

-----------------------------------------------------------------------------
(* Type correctness.                                                       *)

\* Every step of the protocol keeps the types of the tables and the threads.
LEMMA TypeStep == TypeOK /\ [Next]_vars => TypeOK'
<1> SUFFICES ASSUME TypeOK, [Next]_vars PROVE TypeOK'
    OBVIOUS
<1> USE ProcOfAssumption, NativeAssumption, NamesAssumption, SeamAssumption
<1> USE DEF TypeOK, Term, Phase, NativePhase, rows, tree
<1>1. ASSUME NEW c \in Call, Shared(c) PROVE TypeOK'
  <2>1. CASE EnterGate(c) BY <2>1 DEF EnterGate, Enter
  <2>2. CASE EnterTool(c) BY <2>2 DEF EnterTool, Enter
  <2>3. CASE EnterWorker(c) BY <2>3 DEF EnterWorker, Enter
  <2>4. CASE EnterWrite(c) BY <2>4 DEF EnterWrite, Enter
  <2>5. CASE Refused(c) BY <2>5 DEF Refused
  <2>6. CASE Return(c) BY <2>6 DEF Return
  <2>7. CASE Write(c) BY <2>7 DEF Write
  <2>8. CASE EnterUnleased(c) BY <2>8 DEF EnterUnleased
  <2> QED BY <1>1, <2>1, <2>2, <2>3, <2>4, <2>5, <2>6, <2>7, <2>8 DEF Shared
<1>2. ASSUME NEW c \in Call, Exclusive(c) PROVE TypeOK'
  <2>1. CASE Acquire(c) BY <2>1 DEF Acquire
  <2>2. CASE DrainOver(c) BY <2>2 DEF DrainOver
  <2>3. CASE DrainTimeout(c) BY <2>3 DEF DrainTimeout
  <2>4. CASE SampleClean(c) BY <2>4 DEF SampleClean, GitDone, Leave
  <2>5. CASE SampleRefuses(c) BY <2>5 DEF SampleRefuses, GitDone, Leave
  <2>6. CASE MoveHead(c) BY <2>6 DEF MoveHead, GitDone, Leave
  <2>7. CASE Receipt(c) BY <2>7 DEF Receipt, GitDone, Leave
  <2>8. CASE GitRefused(c) BY <2>8 DEF GitRefused
  <2>9. CASE Release(c) BY <2>9 DEF Release
  <2>10. CASE BarrierBeat(c) BY <2>10 DEF BarrierBeat
  <2>11. CASE BarrierBeatStops(c) BY <2>11 DEF BarrierBeatStops
  <2> QED BY <1>2, <2>1, <2>2, <2>3, <2>4, <2>5, <2>6, <2>7, <2>8, <2>9, <2>10, <2>11
          DEF Exclusive
<1>3. ASSUME NEW c \in Call, NEW s \in Seam,
             Exit(c, s) \/ Beat(c, s) \/ LeaseLapses(c, s)
      PROVE TypeOK'
  <2>1. CASE Exit(c, s)
    <3>1. region' \subseteq region /\ lease' \in [Call \X Seam -> Term]
      BY <2>1 DEF Exit, Leave
    <3> QED BY <2>1, <3>1 DEF Exit
  <2>2. CASE Beat(c, s) BY <2>2 DEF Beat
  <2>3. CASE LeaseLapses(c, s) BY <2>3 DEF LeaseLapses
  <2> QED BY <1>3, <2>1, <2>2, <2>3
<1>4. ASSUME NEW n \in Native, NativeTool(n) PROVE TypeOK'
  <2>1. CASE Judge(n) BY <2>1 DEF Judge
  <2>2. CASE NativePre(n) BY <2>2 DEF NativePre
  <2>3. CASE NativeStart(n) BY <2>3 DEF NativeStart
  <2>4. CASE NativePost(n) BY <2>4 DEF NativePost
  <2>5. CASE NativeVanishes(n) BY <2>5 DEF NativeVanishes
  <2>6. CASE NativeWrite(n) BY <2>6 DEF NativeWrite
  <2>7. CASE PresenceLapses(n) BY <2>7 DEF PresenceLapses
  <2> QED BY <1>4, <2>1, <2>2, <2>3, <2>4, <2>5, <2>6, <2>7 DEF NativeTool
<1>5. ASSUME NEW k \in Key, NativeLapses(k) PROVE TypeOK'
  BY <1>5 DEF NativeLapses
<1>6. ASSUME NEW p \in Proc, Crash(p) PROVE TypeOK'
  BY <1>6 DEF Crash
<1>7. CASE BarrierLapses BY <1>7 DEF BarrierLapses
<1>8. CASE UNCHANGED vars BY <1>8 DEF vars
<1> QED BY <1>1, <1>2, <1>3, <1>4, <1>5, <1>6, <1>7, <1>8 DEF Next

\* The store and the threads stay within their types in every behaviour.
THEOREM TypeCorrect == Spec => []TypeOK
<1>1. Init => TypeOK
  BY NamesAssumption DEF Init, TypeOK, Term, Phase, NativePhase
<1> QED BY <1>1, TypeStep, PTL DEF Spec

-----------------------------------------------------------------------------
(* Exclusion.  The invariant says why the drain is enough: the row of code  *)
(* that still runs, and of a switch that still holds, can be seen by every  *)
(* reader, because its process is alive and the row is either fresh or of a *)
(* process whose liveness every reader decides.                             *)

Kept(p, t) == p \in alive /\ (t = "fresh" \/ (t = "lapsed" /\ Verifiable(p)))

CrashInv == \A c \in Call : pc[c] = "crashed" <=> ProcOf[c] \notin alive

HolderInv == \A c \in Call :
    pc[c] \in Holding => holder = c /\ c \in hbeat /\ Kept(ProcOf[c], term)

RegionInv == \A c \in Call, s \in Seam \ {"write"} :
    <<c, s>> \in region => Kept(ProcOf[c], lease[<<c, s>>])

\* A nested write may have no row of its own (EnterUnleased), but what it is
\* nested in has: its call's tool or worker.  The git commands of a switch are
\* under its barrier.
NestInv == \A c \in Call :
    /\ pc[c] = "tool" => <<c, "tool">> \in region
    /\ <<c, "write">> \in region =>
          pc[c] \in Drained \/ pc[c] = "tool" \/ <<c, "worker">> \in region

NativeInUse(n) == npc[n] \in {"admitted", "running"}

NativeInv == NativeTimely =>
    \A n \in Attested : NativeInUse(n) => nlease[KeyOf[n]] = "fresh"

NativeOut == NativeTimely =>
    \A c \in Call, n \in Attested : pc[c] \in Drained => ~NativeInUse(n)

IInv == /\ TypeOK /\ CrashInv /\ HolderInv /\ RegionInv /\ NestInv /\ NativeInv
        /\ SwitchExcludesMutations /\ NativeOut

\* A kept row is stale for no reader.
LEMMA KeptNotStale ==
    ASSUME NEW p \in Proc, NEW t, NEW m \in Machine, Kept(p, t)
    PROVE ~IsStale(m, p, t)
BY MachineOfAssumption DEF Kept, IsStale, HolderState, PidAlive, Verifiable

\* While a switch holds, its barrier is up for every reader, and blocks every
\* call but its own.
LEMMA HolderBlocks ==
    ASSUME HolderInv, NEW c \in Call, pc[c] \in Holding, NEW m \in Machine
    PROVE BarrierUp(m) /\ \A d \in Call : ~Blocked(m, d) => d = c
<1>1. holder = c /\ Kept(ProcOf[c], term)
  BY DEF HolderInv
<1>2. ~IsStale(m, ProcOf[c], term)
  BY <1>1, KeptNotStale, ProcOfAssumption
<1> QED BY <1>1, <1>2, NamesAssumption DEF BarrierUp, Blocked

\* A drain that is over leaves no other call under a lease, and no attested
\* native tool admitted.
LEMMA NothingPending ==
    ASSUME TypeOK, HolderInv, RegionInv, NestInv, NativeInv,
           NEW c \in Call, pc[c] \in Holding, ~Pending(c)
    PROVE /\ \A d \in Call, s \in Seam : d # c => <<d, s>> \notin region
          /\ NativeTimely => \A n \in Attested : ~NativeInUse(n)
<1>1. Here(c) \in Machine
  BY ProcOfAssumption, MachineOfAssumption DEF Here
<1>2. ASSUME NEW d \in Call, NEW s \in Seam, d # c PROVE <<d, s>> \notin region
  <2>1. ASSUME NEW r \in Seam \ {"write"}, <<d, r>> \in region PROVE FALSE
    <3>1. <<d, r>> \in (Call \X Seam) \ Own(c)
      BY <1>2 DEF Own
    <3>2. ~LeaseLive(Here(c), <<d, r>>)
      BY <3>1 DEF Pending
    <3>3. Kept(ProcOf[d], lease[<<d, r>>])
      BY <2>1 DEF RegionInv
    <3>4. ~IsStale(Here(c), ProcOf[d], lease[<<d, r>>])
      BY <3>3, <1>1, KeptNotStale, ProcOfAssumption
    <3> QED BY <3>2, <3>3, <3>4 DEF LeaseLive, Kept
  <2>2. ASSUME <<d, "write">> \in region PROVE FALSE
    <3>1. pc[d] \notin Drained
      BY <1>2 DEF HolderInv, Drained, Holding
    <3>2. \E r \in {"tool", "worker"} : <<d, r>> \in region
      BY <2>2, <3>1 DEF NestInv
    <3> QED BY <3>2, <2>1 DEF TypeOK
  <2> QED BY <2>1, <2>2
<1>3. ASSUME NativeTimely, NEW n \in Attested PROVE ~NativeInUse(n)
  BY <1>3, NativeAssumption DEF Pending, NativeLive, NativeInv
<1> QED BY <1>2, <1>3

-----------------------------------------------------------------------------
(* The inductive step, one lemma per conjunct of IInv.                      *)

\* An invocation is crashed exactly when its process is dead.
LEMMA CrashStep ==
    ASSUME TypeOK, CrashInv, [Next]_vars PROVE CrashInv'
<1> USE ProcOfAssumption DEF TypeOK, CrashInv, rows, tree
<1>1. ASSUME NEW c \in Call, Shared(c) PROVE CrashInv'
  BY <1>1 DEF Shared, EnterGate, EnterTool, EnterWorker, EnterWrite, EnterUnleased, Enter,
              Refused, Return, Write, Up
<1>2. ASSUME NEW c \in Call, Exclusive(c) PROVE CrashInv'
  BY <1>2 DEF Exclusive, Acquire, DrainOver, DrainTimeout, SampleClean, SampleRefuses,
              MoveHead, Receipt, GitDone, GitRefused, Release, BarrierBeat,
              BarrierBeatStops, Drained
<1>3. ASSUME NEW p \in Proc, Crash(p) PROVE CrashInv'
  BY <1>3 DEF Crash
<1>4. CASE UNCHANGED <<alive, pc>>
  BY <1>4
<1> QED BY <1>1, <1>2, <1>3, <1>4 DEF Next, Exit, Beat, LeaseLapses, NativeTool,
       Judge, NativePre, NativeStart, NativePost, NativeVanishes, NativeWrite,
       PresenceLapses, NativeLapses, BarrierLapses, vars

\* A holding call keeps its row: nobody can take or delete it, and it lapses
\* only where every reader still sees its process alive.
LEMMA HolderStep ==
    ASSUME Timely, IInv, [Next]_vars PROVE HolderInv'
<1> USE ProcOfAssumption DEF IInv, TypeOK, HolderInv, Kept, rows, tree
<1>1. ASSUME NEW c \in Call, Acquire(c) PROVE HolderInv'
  <2>1. ~BarrierUp(Here(c)) /\ Here(c) \in Machine
    BY <1>1, MachineOfAssumption DEF Acquire, Here
  <2>2. \A d \in Call : pc[d] \notin Holding
    BY <2>1, HolderBlocks
  <2>3. ProcOf[c] \in alive
    BY <1>1 DEF Acquire, CrashInv
  <2>4. /\ holder' = c /\ term' = "fresh" /\ c \in hbeat' /\ alive' = alive
        /\ \A d \in Call : d # c => pc'[d] = pc[d]
    BY <1>1 DEF Acquire
  <2>5. Kept(ProcOf[c], term)'
    BY <2>3, <2>4
  <2> QED BY <2>2, <2>4, <2>5
<1>2. ASSUME NEW c \in Call,
             DrainOver(c) \/ DrainTimeout(c) \/ SampleClean(c) \/ SampleRefuses(c)
             \/ MoveHead(c) \/ Receipt(c) \/ GitRefused(c) \/ Release(c)
             \/ BarrierBeat(c) \/ BarrierBeatStops(c)
      PROVE HolderInv'
  BY <1>2 DEF DrainOver, DrainTimeout, SampleClean, SampleRefuses, MoveHead, Receipt,
              GitDone, GitRefused, Release, BarrierBeat, BarrierBeatStops, Holding, Drained
<1>3. ASSUME NEW c \in Call, Shared(c) PROVE HolderInv'
  BY <1>3 DEF Shared, EnterGate, EnterTool, EnterWorker, EnterWrite, EnterUnleased, Enter,
              Refused, Return, Write, Holding
<1>4. CASE BarrierLapses
  BY <1>4 DEF BarrierLapses, Timely
<1>5. ASSUME NEW p \in Proc, Crash(p) PROVE HolderInv'
  BY <1>5 DEF Crash, Holding
<1>6. CASE UNCHANGED <<alive, holder, term, hbeat, pc>>
  BY <1>6
<1> QED BY <1>1, <1>2, <1>3, <1>4, <1>5, <1>6
        DEF Next, Exclusive, Exit, Leave, Beat, LeaseLapses, NativeTool,
            Judge, NativePre, NativeStart, NativePost, NativeVanishes, NativeWrite,
            PresenceLapses, NativeLapses, vars

\* Code under a lease keeps a row that readers can see.
LEMMA RegionStep ==
    ASSUME Timely, IInv, [Next]_vars PROVE RegionInv'
<1> USE ProcOfAssumption DEF IInv, TypeOK, RegionInv, Kept, rows, tree
<1>1. ASSUME NEW c \in Call, NEW s \in Seam, Enter(c, s) PROVE RegionInv'
  <2>1. ProcOf[c] \in alive
    BY <1>1 DEF Enter, Up, CrashInv
  <2>2. ASSUME NEW d \in Call, NEW r \in Seam \ {"write"}, <<d, r>> \in region'
        PROVE Kept(ProcOf[d], lease[<<d, r>>])'
    <3>1. CASE d = c /\ r = s
      <4>1. lease'[<<c, s>>] = "fresh" /\ alive' = alive
        BY <1>1 DEF Enter
      <4>2. Kept(ProcOf[c], lease[<<c, s>>])'
        BY <4>1, <2>1
      <4> QED BY <3>1, <4>2
    <3>2. CASE ~(d = c /\ r = s) BY <3>2, <2>2, <1>1 DEF Enter
    <3> QED BY <3>1, <3>2
  <2> QED BY <2>2
<1>2. ASSUME NEW c \in Call, NEW s \in Seam, Leave(c, s), UNCHANGED alive
      PROVE RegionInv'
  BY <1>2 DEF Leave
<1>3. ASSUME NEW c \in Call, NEW s \in Seam, Beat(c, s) \/ LeaseLapses(c, s)
      PROVE RegionInv'
  BY <1>3 DEF Beat, LeaseLapses, Timely
<1>4. ASSUME NEW p \in Proc, Crash(p) PROVE RegionInv'
  BY <1>4 DEF Crash
<1>5. CASE UNCHANGED <<alive, lease, region>>
  BY <1>5
<1>6. ASSUME NEW c \in Call, Shared(c) PROVE RegionInv'
  <2>1. ASSUME EnterUnleased(c) PROVE RegionInv'
    BY <2>1 DEF EnterUnleased
  <2>2. ASSUME NEW s \in Seam, Enter(c, s) PROVE RegionInv'
    BY <2>2, <1>1
  <2>3. EnterGate(c) \/ EnterTool(c) \/ EnterWorker(c) \/ EnterWrite(c)
        => \E s \in Seam : Enter(c, s)
    BY DEF EnterGate, EnterTool, EnterWorker, EnterWrite, Enter
  <2> QED BY <2>1, <2>2, <2>3, <1>5, <1>6 DEF Shared, Refused, Return, Write
<1>7. ASSUME NEW c \in Call, Exclusive(c) PROVE RegionInv'
  <2>1. CASE SampleClean(c) \/ SampleRefuses(c) \/ MoveHead(c) \/ Receipt(c)
    BY <2>1, <1>2, "write" \in Seam DEF SampleClean, SampleRefuses, MoveHead, Receipt, GitDone, Leave
  <2> QED BY <1>7, <2>1, <1>5 DEF Exclusive, Acquire, DrainOver, DrainTimeout, GitRefused,
              Release, BarrierBeat, BarrierBeatStops
<1> QED BY <1>2, <1>3, <1>4, <1>5, <1>6, <1>7
        DEF Next, Exit, NativeTool, Judge, NativePre, NativeStart, NativePost,
            NativeVanishes, NativeWrite, PresenceLapses, NativeLapses, BarrierLapses, vars

\* A nested write stays nested.
LEMMA NestStep ==
    ASSUME TypeOK, NestInv, [Next]_vars PROVE NestInv'
<1> USE DEF TypeOK, NestInv, rows, tree
<1>1. ASSUME NEW c \in Call, Shared(c) PROVE NestInv'
  <2>1. CASE EnterGate(c) BY <2>1 DEF EnterGate, Enter, Drained
  <2>2. CASE EnterTool(c) BY <2>2 DEF EnterTool, Enter, Drained
  <2>3. CASE EnterWorker(c) BY <2>3 DEF EnterWorker, Enter, Drained
  <2>4. CASE EnterWrite(c) BY <2>4 DEF EnterWrite, Enter
  <2>5. CASE EnterUnleased(c) BY <2>5 DEF EnterUnleased
  <2>6. CASE Refused(c) BY <2>6 DEF Refused, Drained
  <2>7. CASE Return(c) BY <2>7 DEF Return, Drained
  <2>8. CASE Write(c) BY <2>8 DEF Write
  <2> QED BY <1>1, <2>1, <2>2, <2>3, <2>4, <2>5, <2>6, <2>7, <2>8 DEF Shared
<1>2. ASSUME NEW c \in Call, Exclusive(c) PROVE NestInv'
  <2>1. CASE SampleClean(c) \/ SampleRefuses(c) \/ MoveHead(c) \/ Receipt(c)
    BY <2>1 DEF SampleClean, SampleRefuses, MoveHead, Receipt, GitDone, Leave, Drained
  <2>2. CASE \/ Acquire(c) \/ DrainOver(c) \/ DrainTimeout(c) \/ GitRefused(c)
             \/ Release(c) \/ BarrierBeat(c) \/ BarrierBeatStops(c)
    BY <2>2 DEF Acquire, DrainOver, DrainTimeout, GitRefused, Release, BarrierBeat,
                BarrierBeatStops, Drained
  <2> QED BY <1>2, <2>1, <2>2 DEF Exclusive
<1>3. ASSUME NEW c \in Call, NEW s \in Seam, Exit(c, s) PROVE NestInv'
  BY <1>3 DEF Exit, Leave
<1>4. ASSUME NEW p \in Proc, Crash(p) PROVE NestInv'
  BY <1>4 DEF Crash, Drained
<1>5. CASE UNCHANGED <<region, pc>>
  BY <1>5
<1> QED BY <1>1, <1>2, <1>3, <1>4, <1>5
        DEF Next, Beat, LeaseLapses, NativeTool, Judge, NativePre, NativeStart, NativePost,
            NativeVanishes, NativeWrite, PresenceLapses, NativeLapses, BarrierLapses, vars

\* An attested native tool keeps its row from its admission to its end.
LEMMA NativeStep ==
    ASSUME TypeOK, NativeInv, [Next]_vars PROVE NativeInv'
<1> USE NativeAssumption DEF TypeOK, NativeInv, NativeInUse, NativeTimely, rows, tree
<1>1. ASSUME NEW n \in Native, NativeTool(n) PROVE NativeInv'
  BY <1>1 DEF NativeTool, Judge, NativePre, NativeStart, NativePost, NativeVanishes,
              NativeWrite, PresenceLapses
<1>2. ASSUME NEW k \in Key, NativeLapses(k) PROVE NativeInv'
  BY <1>2 DEF NativeLapses, InUse
<1>3. CASE UNCHANGED <<nlease, npc>>
  BY <1>3
<1> QED BY <1>1, <1>2, <1>3
        DEF Next, Shared, EnterGate, EnterTool, EnterWorker, EnterWrite, EnterUnleased,
            Enter, Refused, Return, Write, Exclusive, Acquire, DrainOver, DrainTimeout,
            SampleClean, SampleRefuses, MoveHead, Receipt, GitDone, GitRefused, Release, BarrierBeat,
            BarrierBeatStops, Exit, Leave, Beat, LeaseLapses, Crash, BarrierLapses, vars

\* Exclusion: a call enters under a lease only if it holds the barrier
\* itself, and a switch leaves its drain only over an empty tree.
LEMMA ExclusionStep ==
    ASSUME IInv, [Next]_vars PROVE SwitchExcludesMutations'
<1> USE ProcOfAssumption, MachineOfAssumption
    DEF IInv, TypeOK, SwitchExcludesMutations, Drained, rows, tree
<1>1. ASSUME NEW c \in Call, NEW s \in Seam, Enter(c, s),
             \A d \in Call : pc'[d] \in Drained => pc[d] \in Drained
      PROVE SwitchExcludesMutations'
  <2>1. \A d \in Call : pc[d] \in Drained => d = c
    BY <1>1, HolderBlocks DEF Enter, Holding, Here
  <2> QED BY <1>1, <2>1 DEF Enter
<1>2. ASSUME NEW c \in Call, Shared(c) PROVE SwitchExcludesMutations'
  <2>1. CASE EnterGate(c) BY <2>1, <1>1 DEF EnterGate, Enter
  <2>2. CASE EnterTool(c) BY <2>2, <1>1 DEF EnterTool, Enter
  <2>3. CASE EnterWorker(c) BY <2>3, <1>1 DEF EnterWorker, Enter
  <2>4. CASE EnterWrite(c) BY <2>4, <1>1 DEF EnterWrite, Enter
  <2>5. CASE Refused(c) \/ Return(c) \/ Write(c) BY <2>5 DEF Refused, Return, Write
  <2>6. CASE EnterUnleased(c)
    <3>1. \E s \in Seam : <<c, s>> \in region
      BY <2>6 DEF EnterUnleased, NestInv
    <3>2. \A d \in Call : pc[d] \in Drained => d = c
      BY <3>1
    <3> QED BY <2>6, <3>2 DEF EnterUnleased
  <2> QED BY <1>2, <2>1, <2>2, <2>3, <2>4, <2>5, <2>6 DEF Shared
<1>3. ASSUME NEW c \in Call, Exclusive(c) PROVE SwitchExcludesMutations'
  <2>1. CASE DrainOver(c)
    <3>1. \A d \in Call, s \in Seam : d # c => <<d, s>> \notin region
      BY <2>1, NothingPending DEF DrainOver, Holding
    <3>2. \A d \in Call : pc[d] \in Drained => d = c
      BY <2>1 DEF DrainOver, HolderInv, Holding
    <3> QED BY <2>1, <3>1, <3>2 DEF DrainOver
  <2>2. CASE SampleClean(c) \/ SampleRefuses(c) \/ MoveHead(c) \/ Receipt(c)
    BY <2>2 DEF SampleClean, SampleRefuses, MoveHead, Receipt, GitDone, Leave
  <2> QED BY <1>3, <2>1, <2>2 DEF Exclusive, Acquire, DrainTimeout, GitRefused, Release,
              BarrierBeat, BarrierBeatStops
<1>4. ASSUME NEW c \in Call, NEW s \in Seam, Exit(c, s) PROVE SwitchExcludesMutations'
  BY <1>4 DEF Exit, Leave
<1>5. ASSUME NEW p \in Proc, Crash(p) PROVE SwitchExcludesMutations'
  BY <1>5 DEF Crash
<1>6. CASE UNCHANGED <<region, pc>>
  BY <1>6
<1> QED BY <1>2, <1>3, <1>4, <1>5, <1>6
        DEF Next, Beat, LeaseLapses, NativeTool, Judge, NativePre, NativeStart, NativePost,
            NativeVanishes, NativeWrite, PresenceLapses, NativeLapses, BarrierLapses, vars

\* The same for attested native tools, admitted or running.
LEMMA NativeOutStep ==
    ASSUME IInv, [Next]_vars PROVE NativeOut'
<1> USE ProcOfAssumption, MachineOfAssumption, NativeAssumption
    DEF IInv, TypeOK, NativeOut, NativeInUse, Drained, rows, tree
<1>1. ASSUME NEW n \in Native, NativePre(n) PROVE NativeOut'
  <2>1. n \in Attested /\ npc'[n] = "admitted" => \A c \in Call : pc[c] \notin Drained
    BY <1>1, HolderBlocks DEF NativePre, Holding
  <2> QED BY <1>1, <2>1 DEF NativePre
<1>2. ASSUME NEW n \in Native, NativeTool(n) PROVE NativeOut'
  BY <1>1, <1>2 DEF NativeTool, Judge, NativeStart, NativePost, NativeVanishes,
              NativeWrite, PresenceLapses
<1>3. ASSUME NEW c \in Call, Exclusive(c) PROVE NativeOut'
  <2>1. CASE DrainOver(c)
    BY <2>1, NothingPending DEF DrainOver, Holding
  <2>2. CASE SampleClean(c) \/ SampleRefuses(c) \/ MoveHead(c) \/ Receipt(c)
    BY <2>2 DEF SampleClean, SampleRefuses, MoveHead, Receipt, GitDone
  <2> QED BY <1>3, <2>1, <2>2 DEF Exclusive, Acquire, DrainTimeout, GitRefused, Release,
              BarrierBeat, BarrierBeatStops
<1>4. ASSUME NEW c \in Call, Shared(c) PROVE NativeOut'
  BY <1>4 DEF Shared, EnterGate, EnterTool, EnterWorker, EnterWrite, EnterUnleased,
            Enter, Refused, Return, Write
<1>5. ASSUME NEW p \in Proc, Crash(p) PROVE NativeOut'
  BY <1>5 DEF Crash
<1>6. CASE UNCHANGED <<npc, pc>>
  BY <1>6
<1> QED BY <1>2, <1>3, <1>4, <1>5, <1>6
        DEF Next, Exit, Leave, Beat, LeaseLapses, NativeLapses, BarrierLapses, vars

-----------------------------------------------------------------------------
\* The invariant holds at the start: nothing runs and nobody holds.
LEMMA IInvInit == Init => IInv
BY NamesAssumption, ProcOfAssumption, NativeAssumption
   DEF Init, IInv, TypeOK, CrashInv, HolderInv, RegionInv, NestInv, NativeInv, NativeOut,
       NativeInUse, SwitchExcludesMutations, Term, Phase, NativePhase, Holding, Drained

\* With TTLs that fit, every reachable state satisfies the invariant.
THEOREM Invariance == ASSUME Timely PROVE Spec => []IInv
<1>1. IInv /\ [Next]_vars => IInv'
  BY TypeStep, CrashStep, HolderStep, RegionStep, NestStep, NativeStep, ExclusionStep,
     NativeOutStep DEF IInv
<1> QED BY <1>1, IInvInit, PTL DEF Spec

\* Between its drain and its receipt a switch has the tree to itself: no
\* governed mutation of another call is running.
THEOREM SwitchAlone == ASSUME Timely PROVE Spec => []SwitchExcludesMutations
<1>1. IInv => SwitchExcludesMutations
  BY DEF IInv
<1> QED BY <1>1, Invariance, PTL

\* Two switches of one tree never overlap, from acquire to release.
THEOREM SwitchesExclude == ASSUME Timely PROVE Spec => []OneSwitch
<1>1. IInv => OneSwitch
  BY DEF IInv, HolderInv, OneSwitch
<1> QED BY <1>1, Invariance, PTL

\* Nor does a switch overlap a tool of an attested host, if prompts are
\* answered within the native TTL and every run has a lease id of its own.
THEOREM NativeExcluded ==
    ASSUME Timely, NativeTimely PROVE Spec => []SwitchExcludesNative
<1>1. IInv => SwitchExcludesNative
  BY DEF IInv, NativeOut, NativeInUse, SwitchExcludesNative
<1> QED BY <1>1, Invariance, PTL
-----------------------------------------------------------------------------
(* Who may take the barrier row.  This needs nothing of the TTLs: a fresh   *)
(* row of a process that still runs is stale for no reader, however long    *)
(* that process pauses and whatever its start time tells.                   *)

\* Where every process that has died has taken its invocations with it, a call
\* that holds with a fresh row loses it only by releasing it.
LEMMA TakenStep ==
    ASSUME TypeOK, CrashInv, [Next]_vars, NEW c \in Call,
           holder = c, pc[c] \in Holding, term = "fresh", holder' # c
    PROVE  pc[c] = "releasing" /\ pc'[c] = "closing"
<1> USE DEF TypeOK
<1>1. c # NoCall /\ ProcOf[c] \in Proc /\ ProcOf[c] \in alive
  BY NamesAssumption, ProcOfAssumption DEF CrashInv, Holding
<1>2. Kept(ProcOf[c], term)
  BY <1>1 DEF Kept
<1>3. ASSUME NEW d \in Call, Acquire(d) PROVE FALSE
  <2>1. Here(d) \in Machine
    BY ProcOfAssumption, MachineOfAssumption DEF Here
  <2>2. BarrierUp(Here(d))
    BY <1>1, <1>2, <2>1, KeptNotStale DEF BarrierUp
  <2> QED BY <1>3, <2>2 DEF Acquire
<1>4. ASSUME NEW d \in Call, Release(d) PROVE pc[c] = "releasing" /\ pc'[c] = "closing"
  BY <1>4 DEF Release
<1>5. holder' = holder \/ \E d \in Call : Acquire(d) \/ Release(d)
  BY DEF Next, Shared, EnterGate, EnterTool, EnterWorker, EnterWrite, EnterUnleased,
            Enter, Refused, Return, Write, Exclusive, DrainOver, DrainTimeout, SampleClean,
         SampleRefuses, MoveHead, Receipt, GitDone, GitRefused, BarrierBeat, BarrierBeatStops, Exit, Beat,
         LeaseLapses, NativeTool, Judge, NativePre, NativeStart, NativePost,
         NativeVanishes, NativeWrite, PresenceLapses, NativeLapses, Crash, BarrierLapses,
         rows, vars
<1> QED BY <1>3, <1>4, <1>5

\* What the steps keep without a word on the TTLs.
LEMMA CrashInvariance == Spec => [](TypeOK /\ CrashInv)
<1>1. Init => TypeOK /\ CrashInv
  BY IInvInit DEF IInv
<1>2. TypeOK /\ CrashInv /\ [Next]_vars => (TypeOK /\ CrashInv)'
  BY TypeStep, CrashStep
<1> QED BY <1>1, <1>2, PTL DEF Spec

\* The barrier row of a live call that is holding is taken away by that call
\* alone, unless it lapsed: for every process, whether its liveness can be told
\* or not, and whatever the TTLs are worth.
THEOREM BarrierIsKept == Spec => BarrierNotTakenFrom
<1> DEFINE Lost(c) == holder = c /\ pc[c] \in Holding /\ term = "fresh" /\ holder' # c
           Released == \A c \in Call :
               Lost(c) => pc[c] = "releasing" /\ pc'[c] = "closing"
<1>1. TypeOK /\ CrashInv /\ [Next]_vars => [Released]_vars
  BY TakenStep
<1>2. Spec => [][Released]_vars
  <2> HIDE DEF Released
  <2> QED BY <1>1, CrashInvariance, PTL DEF Spec
<1> QED BY <1>2 DEF BarrierNotTakenFrom
==============================================================================
