---------------------------- MODULE BranchBarrier ----------------------------
(***************************************************************************)
(* The branch-transition barrier of one git work tree                      *)
(* (branch_transition_barrier.py), with the governed branch switch that    *)
(* takes it (git_switch.py) and the native-tool hooks that meet it         *)
(* (hook_pipeline.py).  A reader/writer protocol over two SQLite tables:   *)
(*                                                                         *)
(*  - SHARED side: every governed mutation inserts a lease row, and checks *)
(*    the barrier row, in one BEGIN IMMEDIATE transaction;                 *)
(*  - EXCLUSIVE side: a switch inserts the barrier row, waits for the      *)
(*    live leases of every other invocation to drain, samples the tree,    *)
(*    moves HEAD, reads its receipt and deletes the row.                   *)
(*                                                                         *)
(* A row names the process that wrote it.  A reader on the same machine    *)
(* decides whether that process is alive; where it cannot decide, the      *)
(* row's expiry does, and a heartbeat thread keeps pushing it forward.     *)
(*                                                                         *)
(* Time is abstract: the expires_at of a row is either ahead of the clock  *)
(* ("fresh") or behind it ("lapsed").  An invocation runs once, so its     *)
(* identity also stands for the random barrier token it would mint.        *)
(***************************************************************************)
CONSTANTS
    Proc,           \* processes, a (machine, pid, start time) each
    Call,           \* in-process invocations
    Native,         \* runs of a host's own tools (no AIDOCS process)
    Key,            \* lease ids of native tools
    Machine,
    ProcOf,         \* [Call -> Proc]
    MachineOf,      \* [Proc -> Machine]
    NativeMachine,  \* [Native -> Machine]
    KeyOf,          \* [Native -> Key], native_lease_id
    Attested,       \* native runs of a host wired to the lease lifecycle
    Opaque,         \* processes whose start time nobody can read
    Recycled,       \* processes whose pid is given to another when they die
    Stalls,         \* processes that may pause longer than a TTL
    LongAsk,        \* a permission prompt may outlast the native TTL
    Seam,           \* the places of an invocation that take a lease
    LostDeletes,    \* a release's DELETE may fail (swallowed by the code)
    NoCall,
    Elsewhere       \* a HEAD no switch in Call asked for

ASSUME ProcOfAssumption == ProcOf \in [Call -> Proc]
ASSUME MachineOfAssumption == MachineOf \in [Proc -> Machine]
ASSUME NativeAssumption == /\ NativeMachine \in [Native -> Machine]
                           /\ KeyOf \in [Native -> Key]
                           /\ Attested \subseteq Native
ASSUME NamesAssumption == NoCall \notin Call /\ Elsewhere \notin Call
ASSUME SeamAssumption == Seam \subseteq {"gate", "tool", "worker", "write"}
ASSUME SwitchAssumption == LongAsk \in BOOLEAN /\ LostDeletes \in BOOLEAN

Term == {"none", "fresh", "lapsed"}       \* no row, a row not expired, expired
Phase == {"ready", "tool", "worker", "closing", "crashed",
          "draining", "sampling", "cleared", "moved", "releasing"}
NativePhase == {"idle", "judged", "admitted", "running", "gone", "denied"}

\* Phases in which an invocation is inside `with holding(...)`, and the part
\* of them after the drain, where the tree must be still.
Holding == {"draining", "sampling", "cleared", "moved", "releasing"}
Drained == {"sampling", "cleared", "moved"}

VARIABLES
    alive,      \* running processes
    holder,     \* token of the barrier row, or NoCall
    term,       \* Term of the barrier row
    lease,      \* [Call \X Seam -> Term]: project_mutation_leases
    nlease,     \* [Key -> Term]: the native:% rows of the same table
    seen,       \* [Native -> Term]: native_host_presence
    region,     \* code running under a lease: subset of Call \X Seam
    hbeat,      \* barrier heartbeat threads that have not seen `stop`
    pc,         \* [Call -> Phase]: the thread that serves the invocation
    npc,        \* [Native -> NativePhase]
    dirty,      \* the work tree has uncommitted changes
    head        \* branch HEAD names: a switch's target is its own id

rows == <<holder, term, lease, nlease, seen>>
tree == <<dirty, head>>
vars == <<alive, holder, term, lease, nlease, seen, region, hbeat,
          pc, npc, dirty, head>>

TypeOK ==
    /\ alive \subseteq Proc
    /\ holder \in Call \cup {NoCall}
    /\ term \in Term
    /\ lease \in [Call \X Seam -> Term]
    /\ nlease \in [Key -> Term]
    /\ seen \in [Native -> Term]
    /\ hbeat \subseteq Call
    /\ region \subseteq Call \X Seam
    /\ pc \in [Call -> Phase]
    /\ npc \in [Native -> NativePhase]
    /\ dirty \in BOOLEAN
    /\ head \in Call \cup {Elsewhere}

Init ==
    /\ alive = Proc
    /\ holder = NoCall /\ term = "none"
    /\ lease = [cs \in Call \X Seam |-> "none"]
    /\ nlease = [k \in Key |-> "none"]
    /\ seen = [n \in Native |-> "none"]
    /\ hbeat = {} /\ region = {}
    /\ pc = [c \in Call |-> "ready"]
    /\ npc = [n \in Native |-> "idle"]
    /\ dirty \in BOOLEAN /\ head = Elsewhere

-----------------------------------------------------------------------------
(* Liveness of a row, as seen from machine m.                              *)

Here(c) == MachineOf[ProcOf[c]]
Up(c) == pc[c] # "crashed"

\* Is the pid recorded for p in use on its machine?
PidAlive(p) == p \in alive \/ p \in Recycled

\* Mutant: a pid in use is alive, whichever process it is now.
HolderStateNoStart(m, p) ==
    IF MachineOf[p] # m THEN "unknown"
    ELSE IF PidAlive(p) THEN "alive" ELSE "dead"

HolderState(m, p) ==
    IF MachineOf[p] # m THEN "unknown"
    ELSE IF ~PidAlive(p) THEN "dead"
    ELSE IF p \in Opaque THEN "unknown"
    ELSE IF p \in alive THEN "alive" ELSE "dead"

\* Mutant: no expiry, only a holder known to be dead leaves a row stale.
IsStaleDeadOnly(m, p, t) == HolderState(m, p) = "dead"

IsStale(m, p, t) ==
    \/ HolderState(m, p) = "dead"
    \/ HolderState(m, p) = "unknown" /\ t = "lapsed"

\* active_barrier: the row exists and is not stale.
BarrierUp(m) == holder # NoCall /\ ~IsStale(m, ProcOf[holder], term)

\* Mutant: an expired barrier no longer blocks, alive as its holder may be.
BlockedUntilExpiry(m, c) == term = "fresh" /\ holder # c

\* What refuses a new shared lease: a barrier the caller does not hold itself.
Blocked(m, c) == BarrierUp(m) /\ holder # c

LeaseLive(m, cs) == lease[cs] # "none" /\ ~IsStale(m, ProcOf[cs[1]], lease[cs])

\* A native row has no pid: its liveness is "unknown" and only the TTL decides.
NativeLive(k) == nlease[k] = "fresh"

\* The rows stamped with the invocation id of c.  A nested governed write
\* (file_ops, shell egress) is stamped with its pid only.
Own(c) == {c} \X (Seam \ {"write"})

\* Mutant: the leases of parked workers are not waited for.
PendingRpcs(c) ==
    \/ \E cs \in Call \X (Seam \ {"worker"}) :
          cs \notin Own(c) /\ LeaseLive(Here(c), cs)
    \/ \E k \in Key : NativeLive(k)

\* What the drain of c still waits for.
Pending(c) ==
    \/ \E cs \in (Call \X Seam) \ Own(c) : LeaseLive(Here(c), cs)
    \/ \E k \in Key : NativeLive(k)

-----------------------------------------------------------------------------
(* The shared side: nested leases of one invocation.                       *)

\* Mutant: the row is inserted without a look at the barrier.
EnterUnchecked(c, s) ==
    /\ s \in Seam /\ Up(c)
    /\ lease' = [lease EXCEPT ![<<c, s>>] = "fresh"]
    /\ region' = region \cup {<<c, s>>}
    /\ UNCHANGED <<alive, holder, term, nlease, seen, hbeat, npc, tree>>

\* _register_lease and the start of its heartbeat; the region is entered.
Enter(c, s) ==
    /\ s \in Seam /\ Up(c) /\ ~Blocked(Here(c), c)
    /\ lease' = [lease EXCEPT ![<<c, s>>] = "fresh"]
    /\ region' = region \cup {<<c, s>>}
    /\ UNCHANGED <<alive, holder, term, nlease, seen, hbeat, npc, tree>>

\* gate_dispatch_lease: the first seam of a call that comes through the gate.
EnterGate(c) ==
    /\ pc[c] = "ready" /\ <<c, "gate">> \notin region
    /\ Enter(c, "gate") /\ UNCHANGED pc

\* tool_call_lease (not for a switch: see Acquire).
EnterTool(c) ==
    /\ pc[c] = "ready"
    /\ Enter(c, "tool") /\ pc' = [pc EXCEPT ![c] = "tool"]

\* acquire_worker_lease, taken by the submitting thread of a timed tool.
EnterWorker(c) ==
    /\ pc[c] = "tool" /\ <<c, "write">> \notin region
    /\ Enter(c, "worker") /\ pc' = [pc EXCEPT ![c] = "worker"]

\* governed_project_mutation, or a governed subprocess: by the tool, its
\* worker, or the switch itself for the git commands it runs.
EnterWrite(c) ==
    /\ \/ pc[c] = "tool"
       \/ <<c, "worker">> \in region
       \/ pc[c] \in Drained
    /\ <<c, "write">> \notin region
    /\ Enter(c, "write") /\ UNCHANGED pc

\* The lease store fails under a subprocess that no agent can reach: it runs all
\* the same, without a row and without a look at the barrier.
EnterUnleased(c) ==
    /\ pc[c] = "tool" \/ <<c, "worker">> \in region
    /\ "write" \in Seam /\ <<c, "write">> \notin region
    /\ region' = region \cup {<<c, "write">>}
    /\ UNCHANGED <<alive, rows, hbeat, pc, npc, tree>>

\* BarrierHeld from any of them, or a lease that cannot be written: the call
\* fails and unwinds.
Refused(c) ==
    /\ pc[c] \in {"ready", "tool"} /\ <<c, "write">> \notin region
    /\ pc' = [pc EXCEPT ![c] = "closing"]
    /\ UNCHANGED <<alive, rows, hbeat, region, npc, tree>>

\* The RPC is over: it returned, failed, or timed out with its worker parked.
Return(c) ==
    /\ pc[c] \in {"tool", "worker"}
    /\ pc[c] = "tool" => <<c, "write">> \notin region
    /\ pc' = [pc EXCEPT ![c] = "closing"]
    /\ UNCHANGED <<alive, rows, hbeat, region, npc, tree>>

\* The end of `with mutation_lease(...)`: _delete_lease runs (a failure is
\* swallowed) and the heartbeat thread is told to stop.
Leave(c, s) ==
    /\ <<c, s>> \in region
    /\ region' = region \ {<<c, s>>}
    /\ \/ lease' = [lease EXCEPT ![<<c, s>>] = "none"]
       \/ LostDeletes /\ UNCHANGED lease

Exit(c, s) ==
    /\ CASE s = "write"  -> pc[c] \notin Holding
         [] s = "worker" -> <<c, "write">> \notin region
         [] s = "tool"   -> pc[c] = "closing"
         [] s = "gate"   -> pc[c] = "closing" /\ <<c, "tool">> \notin region
    /\ Leave(c, s)
    /\ UNCHANGED <<alive, holder, term, nlease, seen, hbeat, pc, npc, tree>>

\* _lease_heartbeat: UPDATE of an existing row, so a late beat never brings one
\* back.
Beat(c, s) ==
    /\ Up(c) /\ lease[<<c, s>>] = "lapsed"
    /\ lease' = [lease EXCEPT ![<<c, s>>] = "fresh"]
    /\ UNCHANGED <<alive, holder, term, nlease, seen, hbeat, region, pc, npc, tree>>

\* What a governed mutation may do to the tree while it runs.  A switch
\* changes it only in MoveHead; its other git commands read.
Mutates(c) == pc[c] \notin Holding /\ \E s \in Seam : <<c, s>> \in region

Write(c) ==
    /\ Mutates(c)
    /\ dirty' \in BOOLEAN /\ head' \in {head, Elsewhere}
    /\ UNCHANGED <<alive, rows, hbeat, region, pc, npc>>

-----------------------------------------------------------------------------
(* The exclusive side: run_git_switch inside `with holding(...)`.          *)

\* Mutant: INSERT OR REPLACE over whatever row there is.
AcquireAny(c) ==
    /\ pc[c] = "ready"
    /\ holder' = c /\ term' = "fresh"
    /\ hbeat' = hbeat \cup {c}
    /\ pc' = [pc EXCEPT ![c] = "draining"]
    /\ UNCHANGED <<alive, lease, nlease, seen, region, npc, tree>>

\* acquire: INSERT OR REPLACE over no row or a stale one.  A stale gate lease
\* of its own does not matter; a switch has no tool or worker lease.
Acquire(c) ==
    /\ pc[c] = "ready" /\ ~BarrierUp(Here(c))
    /\ holder' = c /\ term' = "fresh"
    /\ hbeat' = hbeat \cup {c}
    /\ pc' = [pc EXCEPT ![c] = "draining"]
    /\ UNCHANGED <<alive, lease, nlease, seen, region, npc, tree>>

\* Mutant: the switch does not wait for the leases it finds.
DrainSkipped(c) ==
    /\ pc[c] = "draining"
    /\ pc' = [pc EXCEPT ![c] = "sampling"]
    /\ UNCHANGED <<alive, rows, hbeat, region, npc, tree>>

DrainOver(c) ==
    /\ pc[c] = "draining" /\ ~Pending(c)
    /\ pc' = [pc EXCEPT ![c] = "sampling"]
    /\ UNCHANGED <<alive, rows, hbeat, region, npc, tree>>

\* Mutant: the deadline starts anew at every poll.
DrainAgain(c) ==
    /\ pc[c] = "draining" /\ Pending(c)
    /\ UNCHANGED vars

\* MutationsInFlight: the deadline passed with leases still live.
DrainTimeout(c) ==
    /\ pc[c] = "draining" /\ Pending(c)
    /\ pc' = [pc EXCEPT ![c] = "releasing"]
    /\ UNCHANGED <<alive, rows, hbeat, region, npc, tree>>

\* An unattested host was seen on the tree inside the presence window.
Unattested == \E n \in Native \ Attested : seen[n] = "fresh"

\* Every git command of the switch is a governed subprocess: it holds a lease
\* of its own (EnterWrite, where the holder passes its own barrier) until it is
\* done.  GitDone ends the command, and its lease, in phase p.
GitDone(c, p) ==
    /\ Leave(c, "write")
    /\ pc' = [pc EXCEPT ![c] = p]
    /\ UNCHANGED <<alive, holder, term, nlease, seen, hbeat, npc>>

\* Liveness probe, clean tree, no operation in progress, audit row written.
SampleClean(c) ==
    /\ pc[c] = "sampling" /\ ~Unattested /\ ~dirty
    /\ GitDone(c, "cleared") /\ UNCHANGED tree

\* Any of the samples refuses, or cannot be read (the other liveness
\* authorities are outside this model, so a refusal is always possible).
SampleRefuses(c) ==
    /\ pc[c] = "sampling"
    /\ GitDone(c, "releasing") /\ UNCHANGED tree

\* `git switch` moves HEAD, or fails and leaves it.
MoveHead(c) ==
    /\ pc[c] = "cleared"
    /\ \/ GitDone(c, "moved") /\ head' = c
       \/ GitDone(c, "releasing") /\ UNCHANGED head
    /\ UNCHANGED dirty

\* HEAD is read back: the receipt says ok when it names the target.
Receipt(c) ==
    /\ pc[c] = "moved"
    /\ GitDone(c, "releasing") /\ UNCHANGED tree

\* A git command is refused: by a barrier that is no longer this caller's, or
\* because its lease cannot be written (an agent can reach it).
GitRefused(c) ==
    /\ pc[c] \in Drained /\ <<c, "write">> \notin region
    /\ pc' = [pc EXCEPT ![c] = "releasing"]
    /\ UNCHANGED <<alive, rows, hbeat, region, npc, tree>>

\* Mutant: DELETE without the token.
ReleaseAny(c) ==
    /\ pc[c] = "releasing"
    /\ pc' = [pc EXCEPT ![c] = "closing"]
    /\ holder' = NoCall /\ term' = "none"
    /\ UNCHANGED <<alive, lease, nlease, seen, hbeat, region, npc, tree>>

\* Mutant: the row is blanked, expiry included, instead of deleted.
ReleaseBlank(c) ==
    /\ pc[c] = "releasing"
    /\ pc' = [pc EXCEPT ![c] = "closing"]
    /\ holder' = NoCall /\ term' = NoCall
    /\ UNCHANGED <<alive, lease, nlease, seen, hbeat, region, npc, tree>>

\* release: DELETE ... WHERE token; a failure is swallowed.
Release(c) ==
    /\ pc[c] = "releasing"
    /\ pc' = [pc EXCEPT ![c] = "closing"]
    /\ \/ IF holder = c THEN holder' = NoCall /\ term' = "none"
                        ELSE UNCHANGED <<holder, term>>
       \/ LostDeletes /\ UNCHANGED <<holder, term>>
    /\ UNCHANGED <<alive, lease, nlease, seen, hbeat, region, npc, tree>>

\* renew: UPDATE ... WHERE token; whether a row matched is not looked at.
BarrierBeat(c) ==
    /\ c \in hbeat /\ holder = c /\ term = "lapsed"
    /\ term' = "fresh"
    /\ UNCHANGED <<alive, holder, lease, nlease, seen, hbeat, region, pc, npc, tree>>

BarrierBeatStops(c) ==
    /\ c \in hbeat /\ pc[c] \notin Holding
    /\ hbeat' = hbeat \ {c}
    /\ UNCHANGED <<alive, rows, region, pc, npc, tree>>

-----------------------------------------------------------------------------
(* Host-native tools, seen through the PreToolUse and PostToolUse hooks.   *)

\* The pretool gate reads the barrier (barrier_refusal), in a transaction of
\* its own, before native_tool_pre runs.
Judge(n) ==
    /\ npc[n] = "idle"
    /\ npc' = [npc EXCEPT ![n] =
                 IF BarrierUp(NativeMachine[n]) THEN "denied" ELSE "judged"]
    /\ UNCHANGED <<alive, rows, hbeat, region, pc, tree>>

\* Mutant: the verdict of Judge is relied on, the barrier not read again.
NativePreUnchecked(n) ==
    /\ npc[n] = "judged"
    /\ seen' = [seen EXCEPT ![n] = "fresh"]
    /\ npc' = [npc EXCEPT ![n] = "admitted"]
    /\ nlease' = IF n \in Attested
                 THEN [nlease EXCEPT ![KeyOf[n]] = "fresh"] ELSE nlease
    /\ UNCHANGED <<alive, holder, term, lease, hbeat, region, pc, tree>>

\* native_tool_pre: presence, then the TTL-only lease of an attested host.
NativePre(n) ==
    /\ npc[n] = "judged"
    /\ seen' = [seen EXCEPT ![n] = "fresh"]
    /\ IF n \in Attested /\ BarrierUp(NativeMachine[n])
       THEN npc' = [npc EXCEPT ![n] = "denied"] /\ UNCHANGED nlease
       ELSE /\ npc' = [npc EXCEPT ![n] = "admitted"]
            /\ nlease' = IF n \in Attested
                         THEN [nlease EXCEPT ![KeyOf[n]] = "fresh"] ELSE nlease
    /\ UNCHANGED <<alive, holder, term, lease, hbeat, region, pc, tree>>

\* The host runs the tool, at once or when the user answers its prompt.
NativeStart(n) ==
    /\ npc[n] = "admitted"
    /\ npc' = [npc EXCEPT ![n] = "running"]
    /\ UNCHANGED <<alive, rows, hbeat, region, pc, tree>>

\* native_tool_post releases by lease id.
NativePost(n) ==
    /\ npc[n] = "running"
    /\ npc' = [npc EXCEPT ![n] = "gone"]
    /\ nlease' = IF n \in Attested
                 THEN [nlease EXCEPT ![KeyOf[n]] = "none"] ELSE nlease
    /\ UNCHANGED <<alive, holder, term, lease, seen, hbeat, region, pc, tree>>

\* The user refused the prompt, the host died, or the Post hook never came.
NativeVanishes(n) ==
    /\ npc[n] \in {"admitted", "running"}
    /\ npc' = [npc EXCEPT ![n] = "gone"]
    /\ UNCHANGED <<alive, rows, hbeat, region, pc, tree>>

NativeWrite(n) ==
    /\ npc[n] = "running"
    /\ dirty' \in BOOLEAN /\ head' \in {head, Elsewhere}
    /\ UNCHANGED <<alive, rows, hbeat, region, pc, npc>>

-----------------------------------------------------------------------------
(* The environment: time passes over a row, a process dies.                *)

\* A row lapses when nobody renews it, or its renewer is paused.
BarrierLapses ==
    /\ term = "fresh"
    /\ holder \in hbeat => ProcOf[holder] \in Stalls
    /\ term' = "lapsed"
    /\ UNCHANGED <<alive, holder, lease, nlease, seen, hbeat, region, pc, npc, tree>>

LeaseLapses(c, s) ==
    /\ lease[<<c, s>>] = "fresh"
    /\ <<c, s>> \in region => ProcOf[c] \in Stalls
    /\ lease' = [lease EXCEPT ![<<c, s>>] = "lapsed"]
    /\ UNCHANGED <<alive, holder, term, nlease, seen, hbeat, region, pc, npc, tree>>

\* NATIVE_TOOL_TTL_S outlasts a tool run, but not every prompt before it.
InUse(n) == npc[n] \in {"admitted", "running"} /\ ~LongAsk

NativeLapses(k) ==
    /\ nlease[k] = "fresh"
    /\ \A n \in Attested : KeyOf[n] = k => ~InUse(n)
    /\ nlease' = [nlease EXCEPT ![k] = "lapsed"]
    /\ UNCHANGED <<alive, holder, term, lease, seen, hbeat, region, pc, npc, tree>>

PresenceLapses(n) ==
    /\ seen[n] = "fresh" /\ ~InUse(n)
    /\ seen' = [seen EXCEPT ![n] = "lapsed"]
    /\ UNCHANGED <<alive, holder, term, lease, nlease, hbeat, region, pc, npc, tree>>

\* A process is killed: its threads stop, its rows stay.
Crash(p) ==
    /\ p \in alive
    /\ alive' = alive \ {p}
    /\ hbeat' = {c \in hbeat : ProcOf[c] # p}
    /\ region' = {cs \in region : ProcOf[cs[1]] # p}
    /\ pc' = [c \in Call |-> IF ProcOf[c] = p THEN "crashed" ELSE pc[c]]
    /\ UNCHANGED <<rows, npc, tree>>

-----------------------------------------------------------------------------
Shared(c) ==
    \/ EnterGate(c) \/ EnterTool(c) \/ EnterWorker(c) \/ EnterWrite(c)
    \/ EnterUnleased(c) \/ Refused(c) \/ Return(c) \/ Write(c)

Exclusive(c) ==
    \/ Acquire(c) \/ DrainOver(c) \/ DrainTimeout(c)
    \/ SampleClean(c) \/ SampleRefuses(c) \/ MoveHead(c) \/ Receipt(c)
    \/ GitRefused(c) \/ Release(c) \/ BarrierBeat(c) \/ BarrierBeatStops(c)

NativeTool(n) ==
    \/ Judge(n) \/ NativePre(n) \/ NativeStart(n) \/ NativePost(n)
    \/ NativeVanishes(n) \/ NativeWrite(n) \/ PresenceLapses(n)

Next ==
    \/ \E c \in Call : Shared(c) \/ Exclusive(c)
    \/ \E c \in Call, s \in Seam :
          Exit(c, s) \/ Beat(c, s) \/ LeaseLapses(c, s)
    \/ \E n \in Native : NativeTool(n)
    \/ \E k \in Key : NativeLapses(k)
    \/ \E p \in Proc : Crash(p)
    \/ BarrierLapses

Spec == Init /\ [][Next]_vars

\* A thread that can take its next step does; heartbeat threads notice `stop`;
\* time passes.  Nothing is assumed of how long a tool, a worker or a native
\* tool runs, of a user answering a prompt, or of a process dying.
Fairness ==
    /\ \A c \in Call :
          /\ WF_vars(DrainOver(c) \/ DrainTimeout(c))
          /\ WF_vars(pc[c] \in Drained /\ EnterWrite(c))
          /\ WF_vars(SampleClean(c) \/ SampleRefuses(c))
          /\ WF_vars(MoveHead(c)) /\ WF_vars(Receipt(c))
          /\ WF_vars(Blocked(Here(c), c) /\ GitRefused(c))
          /\ WF_vars(Release(c)) /\ WF_vars(BarrierBeatStops(c))
          /\ \A s \in Seam : WF_vars(LeaseLapses(c, s))
    /\ WF_vars(BarrierLapses)
    /\ \A k \in Key : WF_vars(NativeLapses(k))

FairSpec == Spec /\ Fairness

-----------------------------------------------------------------------------
(* Properties.                                                             *)

\* The timing the TTLs are chosen for: a process that may pause past its TTL
\* is one whose liveness every reader can decide, prompts are answered within
\* the native TTL, and concurrent native runs have lease ids of their own
\* (the host stamps a tool_use_id).
Verifiable(p) == p \notin Opaque /\ Machine = {MachineOf[p]}
Timely == \A p \in Stalls : Verifiable(p)
NativeTimely ==
    /\ ~LongAsk
    /\ \A m, n \in Attested : KeyOf[m] = KeyOf[n] => m = n

\* branch_transition_barrier.py:7-12: from before a switch samples the tree
\* until its HEAD receipt, no governed mutation of another call is running.
SwitchExcludesMutations ==
    \A c, d \in Call :
        pc[c] \in Drained /\ c # d => \A s \in Seam : <<d, s>> \notin region

\* Nor is a tool of an attested host (the PreToolUse/PostToolUse bridge).
SwitchExcludesNative ==
    \A c \in Call, n \in Attested : pc[c] \in Drained => npc[n] # "running"

\* At most one switch is between its acquire and its release.
OneSwitch == \A c, d \in Call : pc[c] \in Holding /\ pc[d] \in Holding => c = d

\* git_switch.py: `git switch` never runs over work that was not committed
\* when the tree was sampled, whoever wrote it in between.
NoLostWork ==
    [][\A c \in Call : pc[c] = "cleared" /\ pc'[c] = "moved" => ~dirty]_vars

\* A receipt that says ok is true when the caller gets it: between the switch
\* and its receipt nothing else moved HEAD.
ReceiptIsTrue == \A c \in Call : pc[c] = "moved" => head = c

\* The barrier row of a live call that is holding is taken away by that call
\* alone, unless its heartbeat let it lapse: a late release or renewal of an
\* earlier holder never touches it (the token compare).
BarrierNotTakenFrom ==
    [][\A c \in Call :
         holder = c /\ pc[c] \in Holding /\ term = "fresh" /\ holder' # c
         => pc[c] = "releasing" /\ pc'[c] = "closing"]_vars

\* Every switch that took the barrier lets go of it or dies: the drain is
\* bounded, whatever the mutations it waits for do.
SwitchesEnd == \A c \in Call : pc[c] \in Holding ~> pc[c] \notin Holding

\* The reader of m can tell that p runs, so no row of p is ever stale to it.
Vouched(m, p) == p \in alive /\ p \notin Opaque /\ MachineOf[p] = m

\* The DELETE of a release was lost, in a process the reader knows to be alive.
Forgotten(m) ==
    holder # NoCall /\ pc[holder] \notin Holding /\ Vouched(m, ProcOf[holder])

\* Whatever becomes of its holder, a barrier opens again for every machine: by
\* its release, or after a crash, a stall or a lost release by the liveness of
\* the pid or the TTL.  Excepted is a lost release of a process that lives on on
\* the reader's machine, which branch_transition_barrier.py:596 does not except
\* ("liveness/TTL recovers a lost release").
BarrierReopens == \A m \in Machine : BarrierUp(m) ~> (~BarrierUp(m) \/ Forgotten(m))

\* A lease with no code running under it, left by a crash or a lost DELETE, does
\* not hold up a drain for ever, with the same exception, which :690 does not
\* make either ("pid liveness / TTL recovers").
OrphanLeaseClears ==
    \A m \in Machine : \A cs \in Call \X Seam :
        (LeaseLive(m, cs) /\ cs \notin region)
        ~> (~LeaseLive(m, cs) \/ cs \in region \/ Vouched(m, ProcOf[cs[1]]))

-----------------------------------------------------------------------------
(* The barrier implements TreeAccess: an invocation is mutating while it    *)
(* runs under a lease, a native run while the host executes it.             *)
Access == INSTANCE TreeAccess WITH
    Actor <- Call \cup Native, Switcher <- Call,
    mutating <- {c \in Call : pc[c] \notin Drained /\ \E s \in Seam : <<c, s>> \in region}
                \cup {n \in Native : npc[n] = "running"},
    switching <- {c \in Call : pc[c] \in Drained}

\* Every behaviour of the rows, heartbeats and hooks is one of TreeAccess.
ImplementsTreeAccess == Access!Spec
=============================================================================
