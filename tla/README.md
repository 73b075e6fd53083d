# A verification development for AIDOCS

AIDOCS (the "AI Doctrine Orchestrator") is a Python service that stands between
coding agents and a project.  Hosts (Claude Code, opencode, codex, web clients)
call it through MCP or through hook adapters; a cascade of gates judges each
call; and the capabilities behind the gates keep their durable state in SQLite
stores which server processes, worker threads and short-lived hook processes
share.  Hardly any of its difficulty lies in one algorithm.  It lies in the
protocols these processes run over shared rows: leases, barriers, outboxes,
claims.  The modules here model those protocols, TLC checks them on small
instances, and TLAPS proves the most important of their properties for every
value of the constants.

All paths below are relative to `src/mcp/server/aidocs_mcp/` unless they begin
with `src/`.

| protocol | modules | theorems |
|---|---|---|
| the branch-transition barrier: many mutations or one branch switch | `BranchBarrier`, `TreeAccess` (abstract) | `BranchBarrierProofs`, `BranchBarrierRefines` |
| the backlog outbox: offline writes, drained to an authority | `BacklogOutbox`, `BacklogCutover` (the readiness check beside it) | `BacklogOutboxProofs`, `BacklogOutboxOrder` |
| the wake outbox: events, budget, leases, tickets | `WakeOutbox` | `WakeOutboxProofs` |
| the message stream of an actor: parks, reads and a rail that take from it, receipts | `MessageStream` | `MessageStreamProofs` |
| the receive lease: is an actor waiting, and who may say so | `ReceiveLease` | `ReceiveLeaseProofs` |
| the approval of backlog items: a request, its announcement, the seat's verdict, its one use | `Approval`, `Admission` (abstract) | `ApprovalProofs` |

The modules `MC*` give TLC its small instances; one `.cfg` is one run.

- [Inventory](#inventory)
- [BranchBarrier and TreeAccess](#branchbarrier-and-treeaccess)
- [BacklogOutbox and BacklogCutover](#backlogoutbox-and-backlogcutover)
- [WakeOutbox](#wakeoutbox)
- [MessageStream](#messagestream)
- [ReceiveLease](#receivelease)
- [Approval and Admission](#approval-and-admission)
- [Where the code and its words disagree](#where-the-code-and-its-words-disagree)
- [Limits the code accepts](#limits-the-code-accepts)
- [What is proved, and what is only checked](#what-is-proved-and-what-is-only-checked)
- [Not modelled](#not-modelled-and-in-which-order-it-would-be)
- [Running it](#running-it)

## Inventory

What the system is made of, the state each part keeps, its operations, with whom
it interacts, what is hard about it and what would make it correct.  "Modelled"
names the module; the last column of the second table says why the rest is not.

### Parts with a protocol

**Branch-transition barrier** (`branch_transition_barrier.py`; modelled).
*State*: in one machine-shared SQLite database per work tree, a barrier row, the
mutation leases and the presence of hosts.  *Operations*: a governed mutation
inserts a lease (refused while a barrier is up), heartbeats and deletes it; a
switch inserts the barrier row, drains the leases, renews, releases.
*Interacts with* every place that mutates: the pretool gate, the MCP tool
wrapper, its worker thread, the governed subprocess runner, `git_switch.py`, and
the hooks of native tools.  *Hard*: check and insert race with each other;
processes die or stall, pids are reused; a worker outlives the RPC that started
it; a host's own tools run in no AIDOCS process.  *Correct when* no mutation
runs between the sampling of a switch and its receipt, work is not lost, and
everything orphaned clears.

**Governed branch switch** (`git_switch.py`; modelled with the barrier).  No
state of its own: drain, sample, `git switch`, receipt, under `holding()`.

**Native tool hooks** (`hook_pipeline.py`, `native_tool_pre/post`; modelled with
the barrier).  A lease row per run of a host's own tool, or a presence row for a
host that has no post hook.

**Backlog write queue** (`backlog_write_queue.py`; modelled).  *State*: a row per
offline write with a durable key, a base version, a state and an operator's
ruling.  *Operations*: enqueue, candidates, undecided_barriers, set_state,
classify, apply_verdicts.  *Hard*: several processes drain it with no lease;
verdicts come late or not at all; blocked and refused writes hold up later ones.
*Correct when* a write is applied at most once, in order, never past an
undecided earlier one, and no row is lost.

**Backlog drain and hub client** (`backlog_hub_client.py`,
`backlog_sync_sitter.py`; modelled in the same module): one cycle of reading,
mapping, posting, folding and refreshing the snapshot; the authority's own
adjudication is modelled from what the client sends and expects.

**Cutover readiness** (`backlog_outbox_service.py`; modelled): counts, in separate
transactions, what would stand in the way of a flip of authority.

**Wake bindings, subscriptions and outbox** (`mcp_events_store.py`), **budget
ledger** (`mcp_events_budget.py`), **delivery and worker**
(`mcp_events_delivery.py`, `mcp_events_worker.py`; all modelled in
`WakeOutbox`).  *State*: bindings, subscriptions, a row per wake with lease,
attempts, frozen bytes and ticket; slots in another database.  *Operations*:
bind, pause, revoke, subscribe, unsubscribe, note a message, claim, park,
release, record a ticket's key, post, settle, redeem.  *Hard*: two databases
and no common transaction, workers that outlive their lease, late refunds,
messages that arrive while a wake is being serialized.  *Correct when* the budget
holds, a wake is always sent with the same bytes and ticket, no message is
overlooked and every wake ends.

**XAACP message stream** (`xaacp_stream.py`, `conductor_comms.py`; modelled in
`MessageStream`).  *State*: a row per event and reader (a message to the actor,
or the outcome of one it sent) with its claim, its delivery and its receipt; a
receive cursor.  *Operations*: append, claim (by a parked `wait_next`, which
delivers, or by the rail that adds pointers to tool results, which does not),
redeliver, issue and confirm receipts, void, heal the cursor.  *Interacts with*
the park log, which names the one park that may claim, and with the `messages`
table, whose acks, decisions, cancellations and expiries append and void events.
*Hard*: several surfaces of one actor go for one event; a reply is lost after its
claim was committed; the news an event carries is overtaken; a cursor lies past
an open event.  *Correct when* an overtaken park takes nothing, nothing counts as
received that was not, news is true and in order, and everything is told in the
end.

**Park registry and receive leases** (`receive_lease_store.py`,
`receive_lease_stop.py`, `conductor_comms.py`; modelled in `ReceiveLease`).
*State*: the newest park of each actor, its generation and the epoch of the park
log in one database; the lease (state, deadline, proof of life, latches) in
another.  *Operations*: register, arm, heartbeat, settle, release, claim a park
request, latch an alarm.  *Hard*: an overtaken park arms or settles late; a
forwarded park is many calls; the park log is recreated and counts from one
again.  *Correct when* an actor that is parked reads as parked.

**Approval verdicts and their consumption** (`approval_authority.py`,
`backlog_admission.py`, the `add` of `server_todo_backlog_tools.py`; modelled in
`Approval`).  *State*: a row per request with its approver, its message, its
verdict and the role it was given in, the claim and the reference of its use; the
messages that announce requests; the seat.  *Operations*: request, announce,
withdraw, rebind to a new holder of the seat, decide, expire, claim, record, hand
back.  *Hard*: every operation is several transactions with a message between
them; the seat passes on meanwhile; a call outlives its caller's patience and is
made again.  *Correct when* nothing enters the ledger unless another actor, in the
seat, said so to the one who asked, and one verdict does one thing.

**Lane mailbox, reviews and resume** (`lane_mailbox_store.py`,
`lane_completion_review_store.py`, `lane_resume_dispatcher.py`,
`session_lane_agents_store.py`; not modelled).  Prompts for workers, reviews of what
they finished, and their resumption.  *Hard*: `take` reads and then updates.

**Runtime generations and the daemon's lifecycle** (`runtime_generations.py`,
`daemon_lifecycle_authority.py`, `aidocs_service.py`, `runtime_provisioner.py`;
not modelled).  Build, completion mark, pointer, service; crashes between the steps.

**Cross-agent sync** (`sync_store.py`, `sync_hub_store.py`, `sync_vps.py`;
not modelled).  Event logs per agent, folded into one state.  *Correct when* the fold
does not depend on the order the logs arrive in.

**Window leases and session identity** (`window_lease.py`,
`session_project_bind_store.py`, `binding_intent_store.py`; not modelled).  Which
window speaks for which session.

**Causal turns** (`causal_turn_store.py`; not modelled).  The states of a turn and
the hash chain over them.

**Session freezes and escalations** (`session_freeze_store.py`,
`escalation_store.py`, `governed_shell_approval_store.py`; not modelled).  Freeze,
approval and a grant that works once.

### Parts without one, or out of reach

| part | files | why it is not modelled |
|---|---|---|
| pending durable writes, todos, task records | `pending_durable_writes_store.py`, `task_lifecycle_store.py`, `todo_state_store.py` | one row per intent, guarded transitions, one process at a time |
| hook broker and write-behind | `hook_broker.py`, `hook_write_behind.py`, `stop_duty_ledger.py` | telemetry that may be dropped by design; the duties of Stop are a candidate for later |
| machine-wide worker registry | `host_concurrency_store.py` | counts live pids and advises; reserves nothing |
| circuit breaker | `circuit_breaker.py` | a sequential state machine of one process |
| checkpoints | `checkpoint_service.py` | file and git I/O around one journal row |
| cross-surface authority of XAACP | `xaacp_authority.py`, `xaacp_ranks.py`, `xaacp_attach_outbox.py` | forwards a call to a remote gate; its retry rail follows the backlog outbox |
| gate cascade and shell policy | `hook_pipeline.py`, `access_gate.py`, `shell_policy.py`, `shell_egress_service.py`, `shell_enforcement.py`, `gate_confirm.py` | sequential rules over a call's text; what they share with other processes, the lease, is in `BranchBarrier` |
| judges and language analysis | `heuristic_judge.py`, `preflight_prompt_judge.py`, `judge_taxonomy.py` | functions of their input |
| code index and search | `index_store.py`, `code_index_sync_service.py`, `execution_index_store.py` | derived data, rebuilt from the files |
| memory and skills | `memory_store.py`, `memory_sqlite_store.py`, `server_memory_index_tools.py`, `session_skills_store.py` | storage and retrieval of text |
| backlog store | `project_backlog_store.py` | local rows; the queue in front of the authority is modelled |
| configuration, projects, identity | `config_store.py`, `config_resolver.py`, `known_projects_store.py` | settings read at start |
| MCP server, tools, CLI | `mcp_server.py`, `tool_interface.py`, `cli.py`, `runtime_service.py` | dispatch and formatting; the tool thread and its timeout are in `BranchBarrier` |
| dashboard | `src/apps/aidocs-dashboard` | a client that goes through the server |
| hooks, plugins, scripts of the hosts | `src/core` | thin adapters |
| vendored memory engine | `src/third_party/mempalace` | third-party code |

### How the parts meet

A call comes in as a hook or an MCP request.  The gate cascade judges it and, if
it would mutate the work tree, takes a **lease** for as long as the judgement
and then the tool runs; a branch switch is such a call that then takes the
**barrier**.  A tool that edits the backlog writes its local row and **enqueues**
the write; a sitter and every other process of the project **drain** the queue.
A message appended to the **stream** for an actor who is not parked is **noted**
for the wake outbox, whose workers wake a remote client; the client then parks
and receives from the stream.  An `add` to the backlog that is not an operator's
first needs an **approval**, which goes out and comes back as a message of the
stream's `messages` table; the row it admits is then enqueued like any other.
Freezes and lanes hang off the gate cascade.  The barrier, the two outboxes, the
approvals and the receiving side share no rows with one another but for that
table, of which `Approval` models the addressee and the final decision and
`MessageStream` what is told of them.  The stream and the receive lease both read the park log: `current` in `MessageStream` is
`last_park_id`, which alone decides who may claim; `ReceiveLease` adds the number
and the epoch, which alone decide who may write the lease.  Neither writes a row
the other reads, so each models the park log as its own code uses it.

`PROJECT.json` lists the hazards of these parts at the lines where they bite,
with the properties that would catch it.

## BranchBarrier and TreeAccess

### State

| variable | in the code |
|---|---|
| `holder`, `term` | the row of the barrier table; `term` is "fresh" while `expires_at` lies ahead |
| `lease` | `project_mutation_leases`, a row per invocation and seam (gate, tool, worker, write) |
| `nlease`, `seen` | the `native:%` rows of that table; `native_host_presence` |
| `region` | not stored: the code that is running inside a `with mutation_lease(...)` |
| `hbeat` | the barrier heartbeat threads that have not seen their `stop` event |
| `pc`, `npc` | where the thread that serves an invocation is; where a native tool run is |
| `alive` | the processes that run |
| `dirty`, `head` | the work tree, as far as a switch looks at it |

A clock would add nothing the code tells apart: every comparison is "has this row
expired", so a row is "fresh" or "lapsed", and the environment lets it lapse
unless somebody is renewing it.  An invocation runs once, so its name also stands
for the random token its barrier row carries.  `HolderState` and `IsStale`
translate how a reader judges the process behind a row: same machine or not, pid
in use or not, start time readable or not, start time equal or not.

### Actions

`EnterGate`, `EnterTool`, `EnterWorker`, `EnterWrite` are the four places that
take a lease, in the order a call reaches them; `Refused` is `BarrierHeld` from
any of them, or a lease that cannot be written.  In the last case a subprocess no
agent can reach goes on without a lease (`EnterUnleased`,
`shell_egress_service.py:654-656`).  `Return` ends an RPC, also by a timeout that leaves its worker
running; `Exit` is the end of the `with`, and its DELETE may be lost.  `Acquire`,
`DrainOver`, `DrainTimeout`, `SampleClean`, `SampleRefuses`, `MoveHead`,
`Receipt`, `GitRefused`, `Release` are `run_git_switch` inside `holding()`: every
git command of a switch is itself a governed subprocess with a lease (`EnterWrite`
again), and is refused like any other.  `Beat`, `BarrierBeat`, `BarrierBeatStops` are the heartbeat threads.
`Judge`, `NativePre`, `NativeStart`, `NativePost`, `NativeVanishes` are the hooks
around a tool the host runs itself.  `Write` and `NativeWrite` are what running
mutations do to the tree, `Crash`, `BarrierLapses`, `LeaseLapses`,
`NativeLapses`, `PresenceLapses` what the world does to processes and rows.

Parameters name the world, not the code: `Stalls` (processes that may pause
longer than a TTL), `Opaque` (whose start time cannot be read), `Recycled` (whose
pid is reused), `LostDeletes`, `LongAsk` (a permission prompt may outlast the
native TTL), `Attested` (native runs of a host with a post hook).

### The abstract specification

`TreeAccess` says what the barrier promises without rows, liveness or clocks:
mutations run together, a switch runs alone and moves HEAD only over a tree that
is clean then and there.  `ImplementsTreeAccess` maps "mutating" to the code that
runs under a lease or in a native tool, and "switching" to the phases after the
drain.

### Properties and runs

| run | instance | checks |
|---|---|---|
| `barrier_access` | two calls in two processes on one machine, with timed tools whose workers outlive them, governed writes, a switch and a native tool; one process may stall and have its pid reused, the other has no readable start time, DELETEs may be lost | `TypeOK`, `SwitchExcludesMutations`, `OneSwitch`, `ReceiptIsTrue`, `SwitchExcludesNative`, `NoLostWork`, `ImplementsTreeAccess` |
| `barrier_live` | two calls on two machines, a process that may stall and one whose pid is reused, DELETEs that may be lost, fair | `BarrierNotTakenFrom`, `SwitchesEnd`, `BarrierReopens`, `OrphanLeaseClears` |

Two processes are enough for every relation `HolderState` looks at (same
machine, other machine, dead, reused, unreadable); each of the two calls may be
the switch, so a switch meets another switch or a mutation, in the same or in
another process.  The proofs lift all bounds.

`barrier_live` goes beyond the assumption `Timely` on purpose: on two machines a
holder that stalls past its TTL does lose the barrier.  What `BarrierNotTakenFrom`
checks there is that its late heartbeat and its late release leave the next
holder's row alone.

In `barrier_live` releases are lost, of barriers and of leases.  The comments at
`branch_transition_barrier.py:596` and `:690` say that liveness or the TTL recovers
such a row.  For a process that lives on, on the machine of the reader, it does not:
the row is never stale, whatever its TTL.  `BarrierReopens` and `OrphanLeaseClears`
therefore except just that (`Forgotten`, `Vouched`), and hold for every other row a
crash, a stall or a lost release leaves behind.  The exception is about processes
and not about what a reader concludes of them, so a reader that draws the wrong
conclusion is found: the mutants take a reused pid for the holder, and keep the row
of a process nobody can judge although its TTL is past.  The run has no native tool.  A native row names no
process, so its TTL alone decides, and the deadline of a drain does not look at
whose lease is left.

### Fairness

`FairSpec` says that a thread inside a switch which can go on does (weakly fair:
the drain polls with a deadline, git commands have timeouts), that a heartbeat
thread notices `stop`, and that time passes over a row nobody renews.  It says
nothing about how long a mutation, a worker or a native tool runs, whether a user
answers a prompt, or whether a process dies.  `SwitchesEnd` therefore shows that
the drain is bounded whatever it waits for.  That a git command is refused in the
end is assumed only where a barrier that is not its own refuses it; a lease store
may fail or not.

## BacklogOutbox and BacklogCutover

### State

| variable | in the code |
|---|---|
| `state`, `base`, `ruling` | columns of a row of the write queue: state, `base_updated_at`, `classification` |
| `cache` | `backlog_server_cache`, the versions of the last snapshot |
| `pc`, `todo`, `was`, `from`, `hold`, `send`, `failed`, `verdict`, `fetched` | locals of one drain cycle of one process |
| `request` | what is on the wire |
| `version`, `receipts`, `refusing`, `log` | the authority: item versions, idempotency receipts, what it rejects, what it applied (`log` is history) |
| `mapped` | what the wire mapper of the release in use can express |

An intent is named by its `queue_id`, whose order is the order of insertion; its
idempotency key is its own name.  Versions are numbers that stand for the
authority's `updatedAt`.  Two intents of one item are taken to touch the same
fields, the harder case.

### Actions

`Draft` and `Enqueue` are the two transactions of a local write; `Classify` is an
operator's ruling (discard, keep, requeue).  `drain_queue` is `ReadCandidates`,
`ReadBarriers`, then per candidate one of `Skip`, `HoldBehind`, `Block`,
`Retire`, `Take`, then `Post`, `Reply`, `Fold`; `refresh_cache` is `Fetch` and
`Store`.  Each is one transaction or one reading of the code, so that the steps
of other processes fall in between wherever they can.  `Abandon` ends a cycle at
any point: the process dies, a step raises, the client stops waiting.
`Adjudicate`, `Lose`, `ForeignEdit`, `Accept` are the authority and the network,
external to the repository and modelled from what the client sends and how it
reads the answer (the idempotent-v1 shape); `Release` is the installation of a
version whose mapper can carry a blocked write.

`BacklogCutover` adds the readiness check: it reads pending, unclassified and
blocked rows in that order, each in its own transaction, while `Meanwhile` the
queue moves.

### Properties and runs

| run | instance | checks |
|---|---|---|
| `outbox_drainers` | two processes, one item, two writes; the first is unmapped until a release; somebody else edits; transactions fail; final rulings | `TypeOK`, `AppliedOnce`, `NothingLost`, `RefusedForGood`, `NotOvertaken`, `RefusalKept` |
| `outbox_live` | one process, two writes, the first rejected, the second local only; rulings of all kinds but requeue | `Settled` |
| `outbox_cutover` | one process, a write held behind a refusal, the check beside it | `ReadyIsTrue`, **violated** |

Interactions are between writes of one item (batching, holding back, rebasing)
and between processes on one row, so one item, two writes and two processes meet
all of them; a second item only adds independent steps, and the theorems cover
any number.  Both runs leave requeue out, for what it does to the order ("Limits"
below) and because an operator may requeue a refused write for ever; the theorems
about `AppliedOnce`, `NothingLost`, `RefusalKept` and `RefusedForGood` cover it.

`RefusedForGood` is what an operator relies on who discards a refused write: that
no copy of it, sent by some other process from an older reading of the queue, was
or will be applied.  No line of the code says so.  It rests on the whole cycle:
what goes out has nothing undecided before it, so its base no longer moves; every
copy on the wire therefore carries the same base; and a base that was stale stays
stale, for versions only grow.

### Fairness

The sitter polls for ever, so a cycle is begun again and again.  A step may be
interrupted (`Abandon` is always possible), hence strong fairness for the steps
of a cycle: what is tried infinitely often succeeds in the end, and a call made
again and again is answered once with its answer folded.  Operators rule on
refusals.  Nothing is assumed of releases or of what the authority accepts;
`Settled` excludes the writes behind one the release cannot carry, which the code
holds back on purpose.

## WakeOutbox

### State

| variable | in the code |
|---|---|
| `bind`, `client`, `sub` | `wake_state` and `status` of a binding, whether its client is on record, status of a subscription ("lapsed": active past `refresh_before`) |
| `state`, `newest`, `body`, `lease`, `attempts`, `first`, `kek`, `consumed` | columns of an outbox row: state, `newest_message_id`, `body_bytes`, `lease_token`, `attempts`, `first_claimed_at`, `ticket_kek_id`, `ticket_consumed_by` |
| `ledger` | the slots of the budget, in the gate's own database |
| `pc`, `at` | the delivery step a worker is at, and the claim it holds |
| `entitled`, `key`, `claims`, `messages`, `trouble` | the authority check's answer, the keyring's current key, counters |
| `aged`, `noted`, `posts` | history: slots out of the window, messages noted, what was handed to the network |

Time is left out.  A lease may run out, a retry fall due and a debounce pass at
any moment, so any row a worker could ever find due is one it may claim: every
behaviour of the code is one of the model, and the safety results do not depend
on a timeout's length.  A lease token is the number of its claim and a body is
the newest message it was serialized with.  The subscriptions of one instance
share one principal's budget; the hourly and the daily limit are one window.

### Actions

`BindWake`, `SetWakeState`, `Subscribe`, `Lapse`, `Unsubscribe`, `RevokeBinding`,
`NoteMessage`, `RedeemTicket` are the store's operations.  `ClaimDue` is
`claim_due`: it buries what is spent or no longer wanted on its way, reserves a
slot for a first claim and leases one row; `LoseReservation` is its rollback
after the other database kept the slot.  `deliver_due` is `Authorize`,
`RecordTicketKek` (or `KeepTicket`, `DropUnboundClaim`), `Fence`, `Post`,
`RecordAttempt`; with `Outage`, `Hold`, `Release` as the ways a claim is parked
and its slot refunded, and `RevokeSubscription` as what an authority refusal
does.  `Crash` ends a worker between any two steps.  `Age` moves a slot out of
the window, `Rotate` the keyring, `Grant` an entitlement.

### Properties and runs

| run | instance | checks |
|---|---|---|
| `wake_safety` | two interchangeable workers, two wakes of one subscription, cap 1, two attempts, three claims, one trouble, a key rotation, a run that redeems | `TypeOK`, `WithinBudget`, `BoundedPosts`, `SameBytes`, `TicketHonoured`, `NotOverlooked`, `FinalIsFinal` |
| `wake_live` | one worker, two wakes, six claims, a binding from before client ids, one trouble, after which troubles end, fair | `WakesEnd` |
| `wake_ticket` | one worker, one wake, two claims | `TicketCarried`, **violated** |

The bounds are `MaxGen` (wakes per subscription), `MaxMessage`, `MaxClaim`,
`MaxKey` and `MaxTrouble` (outages, pauses, lost grants and lost reservations
together).  A late refund of one claim meeting another's slot takes a park, a
crash or stall and a second claim, so two workers, three claims and one trouble
reach it.  The mutant of `WithinBudget` is that very fault and is found at these
bounds.  In `wake_live` the bound on claims is never met: two wakes of two attempts
make four claims and each trouble at most one more, so `WakesEnd` is not owed to
the bound.  The bound on troubles is another matter: it makes every behaviour of
the run satisfy `TroubleEnds`, which `WakesEnd` states as its premise.  Without it
a wake need not end.  Parks do not count as attempts
(`mcp_events_delivery.py:311-338`), so an authority that stays unknown, or a keyring
that stays out of reach, keeps a wake queued for ever.

### Fairness

Weak fairness of each worker's `ClaimDue` and `Deliver` (the gate's loop ticks on
a timer; a delivery step is bounded by an HTTP timeout), and of `Age` (a window
passes).  A worker may crash after every claim, and nothing is assumed about
callbacks.  Of authorities, keyrings and operators `WakesEnd` supposes that their
troubles end (`TroubleEnds`); it excepts a wake whose binding stays paused.

## MessageStream

### State

| variable | in the code |
|---|---|
| `status`, `acked` | `decision_status` or `status`, and `acked_at`, of a row of `messages` |
| `due` | messages an expiry has selected and not stamped yet |
| `seq`, `last` | an event's place in the stream, 0 until it is appended |
| `delivered`, `received`, `void` | `delivered_at`, `received_at`, `superseded_at` |
| `claim`, `reclaims`, `receipt` | a rail's claim and its lease, how often it was taken again, the receipt lease |
| `cursor` | `xaacp_receive_cursor` |
| `current` | `last_park_id` of the park log |
| `pc`, `pick`, `rowset`, `keeps`, `carries` | where a call is, the candidate it read, the rows a read is to stamp, which tokens it keeps, whose text its reply carries |
| `holds` | who has the current token of a message: replies on their way, or the agent |
| `seen`, `handed` | history: text that reached the agent, outcomes `wait_next` handed out |

The module follows one actor.  A token is fresh on every claim and the one it
replaces proves nothing any more, so `holds` needs no tokens: a claim leaves one
reply in it, a read that keeps the token adds one.  Claim and receipt leases run
out at any moment, messages fall due at any moment.

### Actions

`Send`, `Ack`, `Reply`, `Cancel` are the doors of the other side; an ack reads
that a message is pending and its UPDATE asks only whether it was acked, hence
the guard of `Ack`.  `ExpireLook` and `ExpireStamp` are `_xaacp_expire_due`: it
selects what is due, stamps what is still pending, and voids and announces all it
selected.  `Park`, `Look`, `Claim`, `Timeout`, `Superseded`, `Gone` are
`wait_next`: the first candidate of a pass is read before the first write opens
the transaction, so it may be overtaken, delivered or claimed before it is
claimed; everything after that is one transaction, with redeliveries first and
the cursor stored.  `Rail` is `_stream_claim_local`, one transaction of claims
that deliver nothing.  `ReadLook` and `Stamp` are `issue_receipts` of a read by id,
whose SELECT is outside the transaction of its UPDATEs.  `Arrive`, `Lose` and
`Confirm` are the reply on its way and the receipt the agent echoes.
`ClaimLapses`, `ReceiptLapses` are time.

The store may start with an open event below the stored cursor, as an older
build left them (`Init`).

### Properties and run

| run | instance | checks |
|---|---|---|
| `stream_delivery` | one message to the actor or one it sent with its three outcomes, two calls of which one also reads by id, the rail, one reclaim; fair | `TypeOK`, `ReceivedIsProven`, `NewsIsTrue`, `NewsInOrder`, `EveryMessageArrives`, `EveryOutcomeIsTold` |

Two calls are what it takes for a park to overtake another between its look and
its claim, or for a read to meet a claim.  Events of one message meet each other
(an ack and the decision after it, an expiry announced beside a decision); events
of different messages meet only through the cursor and the order of a batch.
The safety properties are also proved for any number of messages; that a message
*arrives* is checked for one at a time.

### Fairness

`Attentive` is what the rail is for: an agent that keeps parking.  Parks, looks
and claims are strongly fair as a whole (some park gets through its pass; a
single one may always be overtaken), replies are not lost for ever, the agent
echoes the receipts it was given, and weakly fair are the steps a call takes by
itself and the leases that run out.  Nothing is assumed about the rail, the other
side, or calls that die.

### What the model shows beside the properties

- A decision between the two statements of an expiry leaves an `expired` event
  for a message that did not expire.  The test for overtaken news in `claim_next`
  voids it before it is told (`NewsIsTrue`; without the test TLC finds it told).
- A read by id (`issue_receipts`, "so one delivery never has two rival tokens")
  reads the token and writes it back in two statements.  A hand-out between them
  has its token replaced by the read's.  The reply that carries the replaced one
  proves nothing; the message is redelivered and nothing is lost.
- Three sentences are older than receipts: "one event can never be delivered
  twice" (`xaacp_stream.py:27-28`), "It is not lossless" (`:35-37`) and "NOT
  LOSSLESS" (`conductor_comms.py:11485-11488`).  An incoming event whose receipt
  does not come is handed out again, on purpose, and a reply lost in transport
  loses no message (`EveryMessageArrives`).
- Voiding overtaken news is not guarded by the park, as claiming is: an overtaken
  park may still void.  That is harmless, whoever does it.
- A batch goes on behind its last redelivery, so one pass may leave lower open
  events to the next one.

## ReceiveLease

### State

| variable | in the code |
|---|---|
| `epoch`, `current`, `gen` | the park log: `xaacp_park_meta.epoch`, `last_park_id`, `last_park_gen` |
| `state`, `armedBy`, `live`, `deadline`, `latched`, `asked` | the lease row: `state`, (`park_gen`, `park_epoch`), whether `park_live_until` and `lease_deadline` lie ahead, `alarm_latched_at`, `request_announced_at` |
| `pc`, `key`, `mine` | the calls of `wait_next` at the store: where they are, their park's key, the number they registered under |
| `answered` | a caller of a forwarded park had an answer: its next slice is a continuation |
| `read` | the number on the row that `park_request_block` read |
| `subagent` | the stops of this actor carry an `agent_id` |
| `fresh`, `shared`, `landed` | history: the last proof of a call has not run out; calls that overlapped with another of the same park; calls whose arm reached the lease store |

One actor on one route.  Park log and lease are different databases, so
registering, arming, proving and settling are steps of their own.  A park may be
one call or a sequence of calls under one key, each made again when its answer is
lost, also while the first still runs.

### Actions

`Register` is `_xaacp_park_register` with and without `continuation`; `Arm`,
`Renew`, `Settle`, `Release`, `Alarm` the operations of `ReceiveLeaseStore`, with
the epoch read under the lock of the lease.  `ArmFails` and `SettleFails` are an
arm and a settle that raise, which is swallowed (`conductor_comms.py:11378-11379`),
or that cannot read the epoch and do nothing (`receive_lease_store.py:147-149`): the
park goes on, and the row is left as it was.  `Overtaken`, `Return`, `Gone` the ways
a call leaves its loop; `StopArm` and `Release` are what the end of a turn does
(`arm_on_stop`); `AskLook` and `Ask` are `park_request_block`, which reads the row
and then claims the latch; `Recreate` is the loss of the park log.  `Over` is the
caller that is done with its park.

Time is left out: a deadline passes, a proof runs out at any moment, with one
exception the code makes: a park's lease outlasts the park it was armed for
(granted time plus 30 s), and the end of a turn does not shorten it
(`_LIVE_PARK_OUTLASTS`).  `Covered` says so of a park whose own arm set the deadline;
one that arms nothing has only what was on the row.

### Properties and run

| run | instance | checks |
|---|---|---|
| `lease_parks` | two calls at the store, two parks, two registrations in each of two park logs; a seat or a subagent | `TypeOK`, `ParkedReadsWaiting`, `FenceHolds`, `NotAskedWhileParked`, `NotReportedWhileParked` |

Two calls and two parks are an overtaken park and the newest, or two slices of
one; two registrations give it an older and a newer generation, and two logs an
equal generation of another epoch.  Calls are interchangeable, and so are parks
(`Interchangeable`): every action and property quantifies over all of them and none
names one.  The proofs lift all bounds.

`ParkedReadsWaiting`, `NotAskedWhileParked` and `NotReportedWhileParked` speak of
`Newest`: the park that registered last, if its arm landed and none of its calls
overlapped.  `FenceHolds` speaks of every row, whatever failed.  No liveness is
stated: the module is about what may not be written, and every step of it is the
caller's to take.

### What the model shows beside the properties

- "Release is final" (`receive_lease_store.py:511-512`) is not so: a park that is
  in flight when its subagent's stop releases the lease settles it to `working`
  afterwards, with a deadline that passes.
- A newest park whose arm failed is in flight over the row of an earlier one.  The
  row may say `working`, its deadline may pass, and the actor is then asked to park,
  or reported missing, while it is parked.  The comment at
  `conductor_comms.py:11350-11353` accepts that: the lease is "bookkeeping wrapped
  around a delivery rail" that must never "fail, delay or alter a message delivery".
  Likewise a settle that fails leaves a row that waits, for a park that is over,
  until the deadline.
- A continuation that is made again while its first copy still runs has the same
  number; when one of the two settles, the row says `working` while the other is in
  flight, and the actor may be asked to park.  The properties speak of parks none
  of whose calls overlapped (`shared`).

## Approval and Admission

### State

| variable | in the code |
|---|---|
| `seat` | who holds the role `co_conductor` (BETA) in `xaacp_actors`, or nobody |
| `row` | `coco_approvals`: `state`, `requester_actor_id`, `approver_actor_id`, `message_id`, `decided_by_actor_id`, whether `decided_by_role` is BETA, `claim_actor_id`, `consumed_ref` (0: NULL); a deleted row is "withdrawn" |
| `message` | the rows of `messages` that announce requests: which one, to whom, its decision |
| `admitted` | the rows of the backlog stored under an approval |
| `call` | where a call is (`pc`), its caller, and the locals it carries from transaction to transaction |

Requests, messages and rows are numbered in the order they are made.  All requests
are for one payload, whose digest is the subject.  A request grows too old, and a
claim stale, at any moment, so nothing depends on the length of a TTL.

### Actions

An `add` begins with `AskSpends`, `AskRequests` or `AskRefused`, by what stands.
`Look`, `Insert` (or `InsertRaced`, when the index refuses), `Announce` (or
`AnnounceFails` and `Undo`) and `Bind` are `request_approval`.  `Claim`, `Store` (or
`StoreFails` and `Release`) and `Record` spend the approval.  `Rule` is the door of
the seat's holder; `Rebind`, `Redeliver` (or `RedeliverFails` and `PutBack`) and
`Rebound` make the row follow the seat; `Decide`, `Reply` and `Write` are
`decide_approval`, whose verdict is first a reply to the message and then a row.
The decision a ruling is called with is chosen at `Decide`, the first step that looks
at it.  Each is one transaction.  `Gone` ends a call between any two of them, `Succeed`
passes the seat on, `Answered` is the message decided, cancelled or expired behind
the back of the request.  Every entry point first lets overdue requests expire
(`Swept`).

### The abstract specification

`Admission` knows no seats, messages or calls: a request is ruled on once, or ends
otherwise; one is open at a time; rows enter the ledger only under a request that
stands approved; the first row recorded for it stays.

### Properties and runs

| run | instance | checks |
|---|---|---|
| `approval_admission` | three actors who may all ask and hold the seat, two calls at a time, one request, two messages, two rows | `TypeOK`, `AdmittedIsRuled`, `ImplementsAdmission` |
| `approval_spent` | two actors, two calls, one request | `SpentOnce`, **violated** |

Two messages are one announcement and one redelivery; three actors are who asks,
who held the seat and who holds it now; two calls are a ruling that meets another,
a withdrawal, an expiry or a spending.  `AdmittedIsRuled` takes several actors to
break: its mutant lets a requester that has taken the seat rebind its own request
and rule on it.  The theorems hold for any number of requests, which is where a
second request for the payload after an expired one comes in.

No liveness is stated: nothing obliges anybody to rule, and a call that dies leaves
its request to its age.

### What the model shows beside the properties

- The refusal `consumption_in_flight` is never given: only the requester may spend
  an approval, and the claim lets the requester through.
- The reply and the row may disagree: a request that expires between the two is
  answered "accepted" and stands expired.  It admits nothing, and a new request has
  to be ruled on again.
- The role stamped on a verdict is that of the moment `decide_approval` is called.
  A holder that is displaced between `Rule` and `Decide` still answers the message,
  and the approval without the role is spendable by nobody; since a payload is ruled
  on once, its `add` is then refused for good.
- `_require_beta_verdict` begins by saying that the decider is proven to be "the
  BETA seat as resolved NOW" (`backlog_admission.py:794-795`); the code reads the
  stamped role instead, as the comment further down explains.

## Where the code and its words disagree

Three runs expect a violation; each quotes the sentence it refutes in
`PROJECT.json` under `findings`.

1. **`outbox_cutover`** (`backlog_outbox_service.py:287-291`: blocked rows are
   counted lest "the flip would read an empty outbox").  Pending rows are counted
   first and blocked ones last; a drain that releases a blocked row in between
   hides it from both.
2. **`wake_ticket`** (`mcp_events_delivery.py:339-341`: the key "is recorded before
   the FIRST POST", only a legacy row "POSTed before tickets existed" carries
   none).  A first claim that ends before the key is recorded leaves `attempts` at
   one; the next claim takes the row for a legacy one and posts without a ticket.
3. **`approval_spent`** (`approval_authority.py:977-980`: a claim that is held is
   refused, "so two concurrent retries cannot both proceed into a duplicate row").
   The UPDATE also takes a claim of the caller's own actor, however fresh, and
   nobody else can spend the approval: the retry of an `add` whose first call is
   still under way stores a second row.

Three more promises are not kept.  They have no run of their own; the models have
the behaviour, and a property or a theorem says what is left of the promise.

- *A lost release* (`branch_transition_barrier.py:596`, "liveness/TTL recovers a lost
  release"; `:690`, "pid liveness / TTL recovers").  A DELETE that fails in a process
  that lives on leaves a row that is never stale to readers on its machine: drains
  time out and switches are refused until the process ends.  `barrier_live` checks
  what remains; without the exception TLC finds both of its properties violated.
- *A failed insert into the queue* (`backlog_write_queue.py:200-201`, "the drain
  catches up next cycle").  The drain reads the queue only, and a write that is
  committed locally and in no queue is never sent (`Enqueue`).
- *A requeue* (`backlog_write_queue.py:78-79`, for an intent that "lost a race and the
  base has since moved").  `classify` writes the state and the ruling and leaves the
  base (`:588-593`), and nothing before the write will rebase it.  It is therefore
  refused again each time it is sent, unless the authority comes to accept it
  (`RefusalIsFinal`, whose `Refused` includes what was requeued).

Sentences the code has outgrown, with nothing lost by it: native tools "cannot hold a
lease" (`branch_transition_barrier.py:47-49`; those of a host with a post hook take
one, `NativePre`); the three of the stream that are named above; the verdict
of the seat "as resolved NOW" (`backlog_admission.py:794-795`).  "Release is final"
(`receive_lease_store.py:511-512`) is not so either, as `ReceiveLease` shows.

## Limits the code accepts

What the models show to be possible and the code does not promise to prevent, or
what the properties assume not to happen:

- a subprocess that no agent can reach runs without a lease when the lease store
  fails (`shell_egress_service.py:654-656`).  Where its call's tool or worker lease
  covers it, as in the model, a switch still waits for it;
- a process whose liveness nobody can decide and which stalls past its TTL loses
  its row; the properties of exclusion assume `Timely`;
- a tool of a host without a post hook (`Attested` lacks it) records its presence
  in a transaction of its own, after the barrier was read; a switch that goes up
  and samples between the two moves HEAD while it runs (`hook_pipeline.py:4512`);
- a refused write that an operator requeues between the drain's read of the
  candidates and its read of the barriers is in neither, and a later write of its
  item goes first (`backlog_hub_client.py:989-997`); what it passes was refused at
  least once (`OnlyRefusedArePassed`) and will be again, so that the history stays in
  order (`HistoryIsInOrder`);
- if the authority comes to accept what it rejected (`MayAccept`), a write refused
  to one process may be applied for another that had sent it too, and still stand
  as a conflict;
- a native tool whose permission prompt outlasts the native TTL starts without a
  lease, and two native runs on one input of a host that stamps no
  `tool_use_id` share a lease row; both are excluded by `NativeTimely`;
- an older fetch may be stored after a newer one: a stale base then costs a
  refusal that an operator rules on;
- `revoke_subscription` is not fenced by the lease, so it may end a subscription
  that was brought back meanwhile;
- `unsubscribe` between the fence and the POST, or before a claim's fence that
  reads only the binding, does not stop that one POST;
- an authority that stays unknown, or a keyring that stays out of reach, keeps a wake
  queued for ever (`TroubleEnds`);
- a park whose arm failed is in flight and may be asked for and reported missing
  (`landed`);
- an approval request whose ruling died between the rebind and the redelivery is
  addressed, as a row, to the new holder of the seat and, as a message, to the old
  one: nobody can rule on it until the seat passes on or it expires.

## What is proved, and what is only checked

TLAPS checks every theorem of eight modules, for all values of the constants.

**`BranchBarrierProofs`**: `TypeCorrect`; under `Timely`, `SwitchAlone`
(`SwitchExcludesMutations`) and `SwitchesExclude` (`OneSwitch`); with
`NativeTimely`, `NativeExcluded` (`SwitchExcludesNative`); and, with no word on the
TTLs, `BarrierIsKept` (`BarrierNotTakenFrom`).  Exclusion alone is not
inductive: nothing in it says why a drain that sees no live lease may conclude
that nothing runs.  The invariant `IInv` supplies that.  Code that runs
(`RegionInv`), and a switch that holds (`HolderInv`), have a row whose process is
alive and which is fresh, or lapsed but of a process every reader can decide
about (`Kept`); such a row is stale for no reader.  A governed write may run without
a row of its own (`EnterUnleased`), and is then covered by the tool or the worker it
is nested in (`NestInv`).  A drain that finds no live
lease has then found no running code, and an entry that is not refused has found
no holder.  A native tool in use has a fresh row (`NativeInv`), so the drain waits
for it too (`NativeOut`).  `BarrierIsKept` needs neither assumption: its property
speaks of a row that is still fresh, and of such a row only the death of the process
can make a reader think that it is stale, while a process that died holds nothing
(`CrashInv`).

**`BranchBarrierRefines`** adds `AllAttested` (every native run belongs to a host
with a post hook) and proves `ReceiptsAreTrue`, `WorkIsKept` and, with
`ActorsDistinct` (a call is not a native run), `Refinement`: Init maps to Init,
and every step of `Next` maps to a step of `TreeAccess` or a stutter.  `TreeInv`
says that what a switch sampled still holds when it acts on it.

*The assumptions.*  `Timely`: a process that may stall past a TTL is on the one
machine there is and has a readable start time.  `NativeTimely`: no prompt
outlasts the TTL, and concurrent native runs have distinct lease ids.  They are
the timing the TTL constants are chosen for; "Limits" above says what happens
outside them.  Lost DELETEs, crashes and reused pids are *not* assumed away.

**`BacklogOutboxProofs`**: `TypeCorrect`, `AtMostOnce` (`AppliedOnce`),
`NothingIsLost` (`NothingLost`), `RefusalIsKept` (`RefusalKept`), from the
module's assumptions about its constants only.  `AppliedOnce` does not survive a
step alone: `IInv` adds that everything on the wire carries the key of its own
intent (`OwnKeys`), that the authority's receipts are exactly what its log holds
(`Booked`), and that a verdict "applied" is backed by a receipt however late it
comes (`Backed`).  These proofs cover requeue, any mix of failures and any number of
drainers.

**`BacklogOutboxOrder`**: `OrderIsKept` (`NotOvertaken`) under `NoRequeue`,
`OnlyRefusedArePassed` under no hypothesis, `RefusalIsFinal` (`RefusedForGood`) and
`HistoryIsInOrder` under `~MayAccept`.  A drainer acts on two readings of the queue
that are old when its batch goes out and older when the authority judges it.  What
makes them good enough is that a write which was decided stays decided (`StaysDecided`).  So it suffices to follow one
fact, "nothing undecided comes before k" (`Ahead`), from the two readings through the
loop into the batch and onto the wire (`ReadAhead`, `LoopAhead`, `BatchAhead`,
`WireAhead`): what was looked at before k and is not decided is in the batch, held
back, or behind something held back, and then k waits too (`WaitsToo`); and a state
that does not land takes the whole batch with it (`failed`).  Rows are inserted in the
order of their ids (`InOrder`), so a row that is no candidate is not one that is still
to come.  Whether a refusal decides a write depends on the question, which is the
parameter of `OrderInv`: for `OrderIsKept` it does once an operator has ruled, for
good; for the others it does at once, requeued or not.

`RefusalIsFinal` adds what became of the bases.  The base a drainer read is still the
row's unless an earlier write was settled meanwhile, which it then finds in its own
loop, or has waiting (`FromKept`); so what it takes, and what is on the wire, carries
the row's base (`SentKept`, `WireKept`), and that base no longer moves (`BaseFixed`),
since a fold that would move it has an applied verdict for an earlier write, and every
earlier write is settled or was turned down.  The induction is mutual: that a write
which was turned down is never applied (`TurnedDown`) is what excludes such a fold, and
that bases stand still is what makes the authority refuse the next copy for the reason
it refused the first.

`HistoryIsInOrder` is what the rest comes to: `log` lists the writes of an item in the
order in which they were made.  When a write is applied no later one was before it
(`AppliedLast`), because that later one went out when this one was decided
(`DoneAhead`): it was in the history already, or retired, or its insert had failed
(`Sendable`), or it had been turned down and would be again.

*The assumptions.*  `NoRequeue` is a restriction on operators, not on the code: with a
requeue between the two readings the order is not kept, and "Limits" says so.
`~MayAccept` is a restriction on the authority: what it rejects for what it says it
goes on rejecting.  `outbox_drainers`, which checks both properties, satisfies both.

**`WakeOutboxProofs`**: `TypeCorrect`, `SameBytesHolds`, `TicketHonouredHolds`,
`BoundedPostsHolds`, `WithinBudgetHolds`, `NotOverlookedHolds`,
`FinalIsFinalHolds`, again from the assumptions about the constants only.  The
argument is about the claims that were posted or still may be (`Issued`).  The
attempts of a wake count each of them, and one more as soon as another claim
holds the lease (`Counted`); so claims of a wake differ in their attempts
(`Separate`, which bounds the posts), and a lease holder with one attempt is
alone.  Only such a holder issues a ticket, forgets the first claim or gives a
slot back, which is why claims carry the bytes and the ticket on the row
(`Frozen`) and why every wake that was or may still be sent has its slot, or had
it until it aged (`Paid`, `Returned`).  With the ledger never larger than the cap
(`Capped`), the map from sent wakes to their slots is an injection into the
ledger, and the budget follows.  `NotOverlooked` has an invariant of its own
(`Overlook`).

**`MessageStreamProofs`**: `TypeCorrect`, `ReceiptsAreProofs` (`ReceivedIsProven`),
`NewsIsNeverFalse` (`NewsIsTrue`), `NewsGoesForward` (`NewsInOrder`).  A receipt
proves something because whoever holds a token is the agent, or a reply that carries the text
(`HoldsCarry`).  An outcome is handed out when it was current at one of two
moments, when it was picked or when it was claimed; an end of a message that was
handed out is still its state, since ends are never undone (`HandedTrue`).  The
acknowledgement is the one outcome that can cease to be true between the two
moments: its picker is the current park until it claims or is overtaken, a park
that is overtaken claims nothing, and so no end was handed out since
(`PickCurrent`, `AckBefore`).  That the oldest and the newest event of a set exist
comes from the well-foundedness of the naturals.

**`ReceiveLeaseProofs`**: `TypeCorrect`, `ParkedActorReadsWaiting`
(`ParkedReadsWaiting`), `FenceNeverLowered` (`FenceHolds`), `NeverAskedWhileParked`,
`NeverReportedWhileParked`.  No number in use is newer than the log's (`Bounded`),
a number belongs to one park, and two calls that carry it are `shared`
(`Distinct`).  So nobody else can arm over or settle the row of the newest park,
its proof shows on the row (`ProofShows`), and the deadline of its row has not
passed (`LeaseCovers`).  All of it is owed to an arm that reached the store
(`landed`); `FenceNeverLowered` needs no such thing, since an arm or a settle that
fails writes nothing.

**`ApprovalProofs`**: `TypeCorrect`, `Ruled` (`AdmittedIsRuled`) and `Refinement`
(`ImplementsAdmission`), from the module's assumptions about its constants only.
A call acts on what it read steps ago.  Two things make that sound: who asked, a
verdict and an accepted message are never taken back by any step (`Lasts`), so what
a call knows of its request stays true whoever moved in between (`Knows`); and the
message a row names is always about that row (`OnAnswer`), so whichever message a
ruling answers, the row it then writes is the one that was put.  At most one
request is open (`OneOpen`) because the index is asked again by the insert itself.
For the refinement every step falls into one of five classes: nothing changes, the
open request ends, a request is opened, a row is admitted, a row is recorded.

**Only model-checked:** all liveness (`SwitchesEnd`, `BarrierReopens`,
`OrphanLeaseClears`, `Settled`, `WakesEnd`, `EveryMessageArrives`,
`EveryOutcomeIsTold`), since the prover does not reason about fairness and
`ENABLED`.  Every safety property that a passing run checks is a theorem.  No module
uses RECURSIVE operators, which the prover's SMT backend does not support, and no
claim rests on induction over data.

### Left out of the modelled components

Schema checks and migrations; `root_key` and the work tree probes that decide
whether a tool needs a lease; `release_native_session_leases`, which nothing
calls; routes, credentials, HTTP and the field table of the wire mapper (an
intent is mapped, unmapped or local only); the sitter's git reconciliation;
`sync_receipt` and `sync_alarm`, which report; the other blockers of the cutover
check; secrets, signatures, URL checks and the challenge of a callback; payloads,
and the wording of every receipt and refusal; of the stream, lanes, cross-project
routes and their projections, batches that are full (20 events),
`confirm_surfaced`, which no caller reaches with a claim, and the backfill of old
rows; of the receive lease, several routes of one actor and the lease a forwarder
keeps on its own side (`_LocalParkLease`); of the approvals, other purposes and
payloads than one, the operator's tier, the session's scope, the audit rows and the
readers `is_approved` and `approval_by_id`.  They change no row of a modelled
protocol, or are judged from data the properties do not tell apart.

## Not modelled, and in which order it would be

The parts below have a protocol worth a module and none yet.  The order is that
of what matters most to the system.

| module | of | models | properties |
|---|---|---|---|
| `LaneWork` | `lane_mailbox_store.py` and its neighbours | prompts, reviews, resumption | a prompt is taken once and by its lane |
| `Generations` | `runtime_generations.py` | build, mark, activate, serve; crashes between | the pointer names a complete generation |
| `WindowLease`, `CausalTurns`, freezes | their stores | leases of windows, states of a turn, one-shot grants | one window per session; a turn's chain is unbroken; a grant works once |
| `SyncFold` | `sync_store.py`, `sync_hub_store.py` | the fold of event logs, as operators | convergence over bounded logs |

The rest of the repository, by far the larger part of it (the gate cascade, the
judges, search, memory, the tools and their dispatch, the dashboard, vendored
code), has no protocol: the second table of the inventory says so part by part.
A composition of the stream with the receive lease was left out because they meet
only in `last_park_id`, which each of the two models.

## Running it

    tlc -config BarrierAccess.cfg MCBranchBarrier     # and the other .cfg files
    tlapm BranchBarrierRefines.tla                    # and the other modules with theorems

`PROJECT.json` lists for every run its module, its configuration and what it
checks; for every property a mutant of the modelled code that breaks it; for every
definition the source lines it stands for.
