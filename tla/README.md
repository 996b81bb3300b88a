# Verification of dynamic-runner

TLA+ models of the distributed task runner in `src/`, model-checked with TLC on
small instances and proved with TLAPS where a property matters for every
instance.  `PROJECT.json` maps every definition to the lines it models and lists
the runs, the mutants, the findings, the hazards and the theorems.

Below, *manager* is `src/crates/dynrunner-manager-distributed/src`.

## 1. The system

A run is a graph of tasks worked off by *secondaries* (one per machine, each
with local worker processes) under one *primary*.  All durable facts live in
`ClusterState` (`manager/cluster_state`), a replicated data type that every
node holds: the primary, the secondaries, and read-only *observers*.  The
primary is meant to be a pure function of its replica, so that any secondary can
take over.

- **Writing.**  The primary *originates* mutations: it stamps them, applies them
  to its own replica, and broadcasts those that applied.  Delivery is at least
  once, unordered, and may fail.
- **Healing.**  Digests are compared periodically.  A replica that is behind
  pulls a *snapshot stream*: a head with everything except the tasks, then the
  tasks in packages, then the tallies.  Each part is merged by itself.
- **Failover.**  A secondary that is promoted announces itself with
  `PrimaryChanged` at the next epoch.  Until a deposed primary hears of it, two
  nodes originate.
- **Reports.**  What a secondary tells the primary is retained and replayed
  until it is confirmed, to whichever node is the primary by then.

### Inventory

| Part | State | What changes it | What is hard |
|---|---|---|---|
| Task ledger (`cluster_state/{apply,apply_tasks,merge}.rs`) | per task: state, attempt, version | 11 task mutations, restore, two walks over the dependents | order of delivery, partial restores, two originators |
| Primary register | current primary, epoch | `PrimaryChanged`, restore | equal epochs, stale announcements |
| Custom inbox (`apply_custom.rs`, `primary/custom_message.rs`) | per origin: entries and watermark | posted, handled, failed, compaction, restore | replays, second dispatch, gaps |
| Terminal gate (`primary/terminal_gate.rs`) | parked terminals | ingest, release, demotion | waiting for a watermark that never comes |
| Report retention (`secondary/resource.rs`) | retained frames and their state | send, replay, ack, observed post | ack racing a replay, failover |
| Membership, capability (`apply_peer.rs`) | peers, their state and role | join, leave, readmit | removal of a live peer, tie on authority |
| Pending pool (`scheduler-api/pending_pool`) | queues, in flight, phases | dispatch, outcome, requeue, drain, retry | a phase that ends too early or never |
| Dispatch and slots (`primary/task`, `assignment.rs`) | worker slots | request, assign, complete, free | two tasks on a slot, a lost assignment |
| Heartbeat, consensus (`primary/heartbeat`, `consensus`) | last seen, rounds | keepalive, tick, vote | declaring the living dead |
| Election (`secondary/election`) | state, epoch, votes | silence, candidacy, vote, confirm | two winners, no winner |
| Pull coordinator (`pull_coordinator.rs`) | pulls in flight, probes | digest, probe, reply, failure | everybody pulls from one, nobody pulls |
| Snapshot streams (`snapshot_stream.rs`) | active streams | request, emit, abort, expire | resumption, a source that dies half-way |
| Affine cells (`affine_*.rs`) | cell bitvectors | queue, steal, done | steal racing completion |
| Run termination (`operational_loop.rs`) | complete, aborted | drain, abort | ending with work left, both outcomes |
| Observer (`observer/`) | a replica, visibility | lost and regained links | declaring the fleet dead |
| Local manager (`dynrunner-manager-local`) | worker states, memory | spawn, assign, kill, disconnect | kill racing completion |
| Relay, chunking (`protocol-primary-secondary`) | reassembly, seen set | frames | duplicates, loops, lost chunks |
| Respawn, SLURM, shutdown manager | budgets, jobs | death, poll | respawn of the living |
| Gateway, driver, transports, bindings | – | – | I/O, not modelled |

## 2. Modules

| Module | Models |
|---|---|
| `TaskLattice` | a task's state, its join key, `merge_task_state`, and each task arm of `apply`, as operators on one replica's ledger |
| `TaskLedger` | replicas, the originating sites of the primary, the network, streams, promotion; the properties |
| `MCTaskLedger` | instances of the ledger |
| `TaskLedgerProofs` | proofs about the two |
| `CustomInbox` | one origin, its retention, the hosts, the inbox and the gate; the properties |
| `MCCustomInbox` | instances of the inbox |
| `CustomInboxProofs` | proofs about the inbox |
| `PendingPool` | the pool of one primary: each of its methods as an operator on the pool |
| `PhaseLifecycle` | the primary around the pool: dispatch, reports, setup tasks, deaths, takeovers, `process_phase_lifecycle`, the end of the run; the properties |
| `MCPhaseLifecycle` | instances of the primary |
| `Election` | failover: suspicion, queries, votes, confirmation, promotion, on every node's own clocks; the properties |
| `MCElection` | instances of the election |
| `ElectionProofs` | proofs about the election |
| `Leadership` | abstract: an office that is taken and followed; implemented by `TaskLedger` and by `Election` |
| `RemovalConsensus` | how a primary declares a secondary dead: the heartbeat's sweep, the two state machines of the consensus, probes, readmission; the properties |
| `MCRemovalConsensus` | instances of the removal consensus |
| `RemovalConsensusProofs` | proofs about the removal consensus |
| `LocalManager` | the single-machine manager on the same pool: slots, worker processes, events, the sweep, the five phases of a run; the properties |
| `MCLocalManager` | instances of the local manager |
| `LocalManagerProofs` | proofs about the local manager |

### The task ledger

`tasks[r][t]` is replica `r`'s entry for `t`: its status, its attempt, its version
(epoch of the originator and a per-task counter), what it is blocked on and a
payload.  `JoinKey` is the eight-part key of `task_join_key`; `MergeTaskState` is
the whole of `merge_task_state`, with the resume and cascade walks behind it.
Each `Apply...` operator is one arm of `ClusterState::apply`, with its gate.

`TaskLedger` has one action per originating site.  An action stamps its mutations
(`Stamped`), applies them locally and broadcasts those that applied
(`Originate`, `Broadcast`), as one frame where the code sends one frame.
`runs` holds the executions that may still report; a report is replayed until
it is consumed.  The coordinator drops a report it has seen before, by sets of its own that are
`PhaseLifecycle`'s; here a report may be dropped (`DropReport`) or processed, whatever the
ledger says, which allows more than the code does.  `FailPermanent` takes any task the ledger knows, as the command does.  `DeliverTasks` delivers a frame and may keep a copy;
`RestoreTask` merges one task of another replica, which is any interleaving of
any stream; `RestoreHead` merges the register.

### The custom inbox

Frames are never removed from `net`: one that is not delivered is lost or late,
and delivering one again is a duplicate.  `HandleCustomMessage` is the whole landing: the
post, the dispatch of everything unhandled, the outcomes, the release of the
gate, the acknowledgement.  `Promote` runs the same dispatch over what the new
primary inherited.  `kept` is the state of the retention: `NoRoute` if the last
send failed, `Sent` if it was queued, `None` once dropped.  Origins do not
interact, so there is one.  Droppable messages carry no number and touch none
of this.  The commands a handler queues ride in the frame of its `Handled` and
are left out.  Expulsion and readmission are per host; any frame of the origin readmits it
(`HearOrigin`, and the landings).

### The pool and the phases

`PendingPool` is a record: the state of every phase, the queue, the tasks that
wait with what each still waits for (`unmet`) and the inverse (`waiters`), the
counts in flight, the completed, soft-failed and failed ids, and the drain edges not yet
polled.  Every operator ends with the drain transitions its method ends with.
Queues are sets: which task a worker prefers is a matter of policy.

`PhaseLifecycle` runs one primary on it.  A handler is one step; the cascade it
runs into, `process_phase_lifecycle`, is a loop over `turn` and `todo` with one step per
phase visited, because a takeover may fall between two of them.  `inFlight` is what
the primary believes, `running` what really runs; a dead secondary's execution
goes on and may report.  `ledger` is the task's state in the replica,
with attempts and versions left out (they are `TaskLedger`'s).  `Failover` replaces everything the
primary holds by what `hydrate_from_cluster_state` builds from the ledger.

There is one worker slot per secondary.  The holder a member reports with
`TASK_ALREADY_HELD` and the re-seating in `handle_illegally_assigned` need two and are
left out, and so are affine tasks, `InvalidTask`, the operator's `FailPermanent`,
no-barrier phases, tasks spawned during the run, the five-minute reconcile
sweep and mutations that reach the primary from elsewhere.

`Environment` is a set of records that say which faults a behaviour may have.
One run covers several: each initial state picks one.

### The election

Every node runs the secondary's half; the one its own replica names (`Leads`) runs
the primary too.  `Tick` is `run_election_tick`, one action per arm; `Receive` handles the
first frame of a peer.  Frames of one pair keep their order, because a connection
is one QUIC stream; anything else may overtake.  A node keeps three clocks of every other:
the frames it heard (`known`, `heard`, `silent`), the UDP beacon (`beacons`) and
the transport's membership (`members`, with `unroutable` for what relays bounced).
Time is left out: `Hear` and `Expire` are the clocks' two edges.  A step of a clock
follows from what the other node really sends, so a clock runs out only for a node
that has died or lost its connection, unless one of the bounded faults strikes: `Starve` (the beacon
still comes), `Freeze` (it does not), `Cut` and `Crash`.  `Reap` is `check_peer_timeouts`.

Left out are the setup election, the observers' filter, the degraded mesh, the
relocation of a primary and the expiry of the relay blacklist.  A host without a
secondary does not occur.

### Leadership

`Leadership` knows one variable, the register each node keeps (who is primary, at which
epoch), and two steps: a node takes the office itself at the next term, or follows one
that took it and ranks over what it knows (`primary_register_adopt`).  `Election` and
`TaskLedger` both define `ImplementsLeadership` by `INSTANCE Leadership WITH` their
registers; the election reaches a new register through votes and announcements, the ledger
through mutations, streams and promotions.  So the two models, written from different
code, agree about what a failover may do to a register.

### The removal consensus

`Sweep` is the hard backstop of the heartbeat with the round it opens, `LazySuspect` the
local suspicion of the dispatcher.  A round is one record, `fsm`; `Drive` ends it when
nobody is left to suspect or all expected responders have confirmed, and takes the targets
out of the `roster`.  Any frame of a secondary first readmits it and clears its silence, then
reaches the state machine (`HandleFrame`).  On the other side `sec[r]` is the secondary's
machine: it probes who is suspected, passes on who answered, and retracts those when asked
to confirm.  Probe and answer are one step, the answer's arrival another.

Time is not measured.  A deadline passes when nothing that could still change the round
is under way, which is what its length is chosen for, or earlier, as often as
the environment's `early` allows.  `pause` hosts stop and go on, `cut` ones lose their link
to the primary and to the members of `apart`.  The batch system's word in
the collective-silence gate is taken to be right.  The model is one primary's tenure, so
epochs are left out (with the secondary's arms that refuse an order of an older epoch and
let one of a newer epoch supersede the round it is in), and so are the primary's own tick health and ingest gate,
which only put off a sweep.

### The local manager

`LocalManager` extends `PendingPool`, so the distributed primary and the local manager share one
model of the pool, as they share the code.  `slot[w]` is a `WorkerHandle`: the protocol state, the
poll task with the task it reads for, the generation, the loaded type, the failures in a row.
`proc[w]` is the process behind it, with the program that really runs.  The two differ after a
failed spawn or an unnoticed death.  `Respawn` is `replace_worker_slot` with its three outcomes
(ready, dead before it is ready, not spawned); `Attempts` is everything one assignment may come to,
the change of type, the failed send and the restart included.

`stage` is the phase `process_binaries` is in, and `pc` the place in `process_worker_loop`:
`assign` visits the active slots, `wait` takes an event or starts a sweep, `sweep` is the pause while
memory is read, `pending` serves the slots that wait for work.  The worker side (`Answers`) appends
events while the manager is anywhere; every event carries its generation, and `IsStaleEvent` drops those of an
earlier one.

Memory is a number per task and a budget per slot; the budget of an opportunistic slot,
which depends on what the others use, is left open.  Any fitting task may be picked and any busy slot
preempted.  The running total of assigned memory counts only in the initial stage,
since no later decision reads it.  A sweep finds at most one kill or timeout, a
task names its stage at most once and only where a timeout may follow.
Left out: the early return of `initialize` when a worker cannot be spawned at all, commands from outside with the pipeline restart they cause, tasks found invalid at
ingest, keepalives, and a process that outlives the restart of its slot.

## 3. Runs

| Run | Instance | Result |
|---|---|---|
| `ledger` | 2 replicas, 2 tasks in a chain; two known tasks with 3 operations and 2 epochs, or a duplicate, or a setup task and a spawn | holds |
| `lost_wakeup` | a setup task and its dependent | violated: finding |
| `inbox` | 2 hosts; 2 messages and 1 fault, or 1 message and 2 faults, or a handler that raises | holds |
| `inbox_wedge` | 2 hosts, 2 messages, a takeover and a crash | violated: finding |
| `phases` | 3 phases, 4 tasks (1 setup), 2 secondaries, 3 environments | holds |
| `phases_late` | the same, a death and retryable failures | violated: finding |
| `election` | 3 nodes, 5 environments of up to 3 faults | holds |
| `election_voter` | 4 nodes, the primary gone, 1 crash | violated: finding |
| `removal` | 5 secondaries (3 in one), 6 environments | holds |
| `removal_fleet` | 3 or 5 secondaries that all die | violated: finding |
| `local` | 2 slots, 2 types, 3 tasks in 2 phases, 4 fault plans | holds |
| `local_left` | the same, memory for both first tasks at once, a task that fails twice | violated: finding |

**Bounds.**  In the ledger an environment says how many originations (`ops`), duplicates (`dups`), retries
(`attempts`) and failovers (`epochs`) there may be, which tasks are known at the start and which are setup tasks.
Two replicas and a chain of two tasks are the least that has a prerequisite, a stale replica and a
zombie; one retry and one failover are enough for an old attempt and an old primary to meet a new
one.  In the inbox `MaxMsgs = 2` is the least with a gap below a terminal
entry.  An environment's `faults` is shared by failed sends, crashes, expulsions, demotions and promotions
beside a running primary, of which it allows the `kinds`.  A promotion after a crash is free.  `ends` is after how many messages the
task may end and `raise` which handlers may raise.

In `phases` the first phase has a plain task, a task that depends on it and on the
setup task, and the setup task; the second has a task that depends on the first
phase's; the third is empty.  That is the least with a dependency inside a
phase, one across phases, and a phase that drains without ever having work.  The environments are a death
with a takeover and one duplicate report; every failure, one refusal and one reinjection; a takeover among
retryable failures.  They are separate because together they reach the findings below:
retryable failures with two executions of one task, and a reinjection after a takeover.

Three nodes are the least with a candidate, a voter and a primary that may come
back.  The environments of `election` pair a crash with a starved node, a frozen one, a
cut connection or a second round, and let three keepalives be missed with nobody
dead.  A quorum of three confirms needs five nodes and is not reached.

Five secondaries are the fewest that can remove one of themselves, because the side
gate counts the primary in the fleet but not among the living.  `lost`, `early` and `lapses`
bound the faults of an environment, `rounds` the rounds; two rounds are enough for one to
be spoilt and the next to meet what it left behind.  Once everybody is down any number of
rounds may be held, so the loop in `removal_fleet` is not an effect of the bound.

`local` has two tasks of different types in the first phase and one in the second that also
depends on the first.  One fits only the larger slot and overbooks the memory beside the other, so slots change
their type, a task finds no slot, and a slot is opportunistic.  A plan says how often each fault may
strike: a dead worker and a failed task; a timeout; a failed task and a preemption; three
spawns that fail, which is what it takes to reach the panic.  `RetryPasses = 1`.  In `local_left` the memory holds both tasks of the first phase, so
that what is left behind is left behind by a failure alone.

**Deadlock** is not checked: a run that has used its bounds stops.

**Fairness.**  `ledger` asks for weak fairness of the stream between each pair of replicas (some
entry is merged as long as one would change something): the anti-entropy tick never stops.  It asks nothing of
broadcasts.  The inbox has no liveness property: `NeverWedged` is an invariant about states from which
no dispatch, mutation or stream leads on.  `phases` asks
that the operational loop keeps turning (a cascade ends, a free slot is
filled, the timers fire again) and that a worker on a living secondary comes
to an end.  Reports, the abort and the end of the run get strong fairness: other
handlers may run in between, but the loop's select does not starve an arm.
It asks for no fairness of deaths, duplicates, refusals or takeovers.
`election` asks that every node keeps ticking, that its clocks run and its connections are redialled
(timers without an end), and that a frame under way to a node that runs is handled.
`removal` asks that some step of the protocol is taken as long as one is possible (the heartbeat
ticks, running hosts handle what arrives, probes are repeated) and that the dead fall
silent.  It asks for no fairness of faults, of a paused host waking up or of the dispatcher.
`local` asks that the manager's one task goes on and that a worker that has a task answers or
is lost; `RunEnds` is stated for plans without failed spawns.

## 4. Findings

With a run each:

1. A dependent that a replica learns of after the setup task's success stays
   `Blocked` (`lost_wakeup`).
2. A restore compacts an origin's watermark only if it took a `Handled` entry of it.  A primary that holds
   message 2 as handled and gets message 1's outcome as a watermark keeps the watermark at 1.  If the origin has
   nothing more to send, no outcome is applied any more, and the task terminal parked behind both
   is never released, although `terminal_gate.rs:36` says that the gate can never wedge (`inbox_wedge`).
3. A success after a retryable failure of the same task completes it but leaves
   the soft failure in the pool; at the drain edge its dependents fail
   (`phases_late`).
4. Voters whose candidate died see a route to it as long as they see each other,
   and never release their votes (`election_voter`).
5. A fleet that has died is never declared dead, since the consensus needs living
   confirmers; the fleet-dead timer does not arm (`removal_fleet`).  For the same reason
   no fleet of fewer than five secondaries ever removes one.
6. The local manager never reports the dependents of a task that failed for good: they stay
   blocked in the pool and are in no list of results (`local_left`).  The comment at
   `dynrunner-manager-local/src/manager/mod.rs:912` says that the exhausted retry budget
   "calls `on_item_failed_permanent` directly"; only the command `FailPermanent` does.

Met while modelling, kept in the models and left out of the passing environments:

7. A task revived after a takeover is still in the set that deduplicates
   completions, so its outcome is dropped and its slot never freed (one takeover and one reinjection in an
   environment of `phases`).
8. A failed setup task releases its phase's count twice, and the phase can end
   over a task that runs (`CountMatchesHolders` fails as soon as a setup task may fail).
9. A candidate whose only voter dies retries for ever, although its quorum is
   now itself (`FailoverCompletes` fails with two crashes).
10. A paused secondary that wakes after the request to confirm, and is heard, is declared
   dead when the last confirmation arrives; its next frame readmits it.
11. `run_resource_pressure_phase` is the only phase that does not drain the queue at its end.  What is
   queued then is reported nowhere: tasks of a phase that is not open, and all that remain when
   one assignment to worker 0 fails, because `assign_idle_workers` (`worker_loop.rs:274`) strikes off the
   pending slot that `handle_assignment_failure` has just entered.  (With less memory `NothingLeftBehind` fails so too.)
12. A worker that dies at start-up, or whose respawn fails, stays down: `run_initial_assignments` goes
   round for ever if that slot has had no task, and the main loop waits for ever if it is pending.
   The comment at `worker_loop.rs:512` says "the orchestrator continues with the remaining workers".
   (`RunEnds` fails without its premise.)
13. A slot preempted under memory pressure is only marked: `mark_oom_killed` signals no process.  The task is queued
   again, while the old process goes on and its completion is counted as well.
   (`EveryTaskInOnePlace` fails for preempted tasks.)
14. If the respawn after a timeout fails, the handle keeps its generation, its task and its stage: an answer
   that was already queued counts beside the timeout, and every later sweep records the failure once more (`EveryTaskInOnePlace` fails with a timeout and a failed spawn in a plan).
15. An acknowledgement of an earlier send drops a message whose last replay found no route.  If the primary dies before
   its post is heard, the message is in nobody's hands (`ack_delivery`; a failed send and a crash in the inbox).

## 5. Proofs

The ledger theorems hold for any finite or infinite set of tasks, any acyclic
dependency graph, any payload hash and any bounds.  The invariant carries the
types and, for every entry and every frame, that what it is blocked on is a
prerequisite; the frames are needed because a merge copies from them.
`TerminalLockoutHolds` rests on the order of the join key being irreflexive, transitive and total
(the first lemmas of `TaskLedgerProofs`), and on each arm being the identity or rising in that order on a settled entry.

The inbox theorems hold for any hosts, messages and environments.  `ResolvedWasHandled` and
`HandlerOncePerHost` are not inductive.  The strengthening `IInv` adds that a
replica holds nothing below its watermark, that a host's replica has resolved
whatever its handler was given, and that every outcome frame in flight stands
for a handler that ran.  `CompactFacts`, `RestoreFacts` and the others say how each
operation changes the set of resolved messages; `GateOrderHolds` follows from `IInv`
and the gate's condition.

The election theorems hold for any set of nodes and any faults.  `FollowsTheWilling`
is not inductive, because a register travels in a frame: `IInv` adds that every
announcement under way names a node that has reached its epoch.

`RunsInItsTypeHolds` is for any slots, tasks, types, budgets and faults of the local manager.
`RunsInItsType` is not inductive: a slot whose loaded type matches gets its task without a new process, so
the loaded type must be right while the slot is idle.  `SlotInv` adds `Loaded` for every slot: while its protocol is
idle, or its poll task has ended so, the process is of the type the slot carries (or it carries none), and what
runs is of that type.  A failed spawn is the delicate case: the old handle stays with its
old type and no process, and only because its protocol was stopped is it refused a task until it is restarted.
The lemmas follow an outcome through
respawn, change of type, failed assignment and reclaim; the steps then fall into five groups.

`VouchedForIsSparedHolds` is for any fleet and any faults of the removal consensus; the only assumption is that
an environment has its type (`EnvironmentAssumption`).  A responder gives its word when a probe is answered, and the word counts when its
confirmation does; both queues of its link to the primary lie between.  The invariant `Inv` is the
types and, for every responder, `Link`: the rounds it hears of come in order (`RoundsInOrder`), the confirmations
it has under way are of rounds before the one it probes for (`ConfirmsAreOlder`), it is not in the tallies
of a round it has yet to confirm (`NotYetConfirmed`), repeated requests name fewer and fewer and never
fewer than the primary suspects (`RequestsShrink`), and so each word is remembered, or is about somebody
nobody asks about any more (`WordIsKept`).  The fourth is what makes the retry safe:
`apply_restart_request` forgets what it credited to those a request does not name.  The link lemmas show for each
way a frame is sent, read or lost that `Link` survives, as lemmas on values; the steps of the specification
are then instances.  `TypeCorrect` comes with the same invariant.

`ElectionImplementsLeadership` and `LedgerImplementsLeadership` prove the refinement of
`Leadership`.  Both rest on the invariant that a register, in a replica or under way, names a node that has
reached its epoch: that is what makes an adopted register one that somebody took.

Only model-checked: `QuiescentAgreement`, what is said of the pool and the phases,
`OneLeaderPerEpoch` and `LivePrimaryStays`, `CutOffIsSpared`, the local manager's
bookkeeping (`EveryTaskInOnePlace`, `InFlightIsExact`, `PhaseEndsWithItsTasks`), and everything about liveness
(`EventuallyAgree`, `RunEnds`, `FailoverCompletes`, `SuspicionEnds`, `DeadIsRemoved`), which is out of the prover's reach.

## 6. Not modelled

Each part is listed with its reason in `PROJECT.json`; in short:

- **Only when, not what**: the pull coordinator and the admission of snapshot streams decide how soon
  replicas exchange state, which the models leave open under fairness; relay and chunking may lose,
  delay or repeat frames, which the models' network does anyway; the process host routes
  frames to roles.  That the pull coordinator starves nobody is assumed, not shown.
- **State of their own, no module**: affine cells, the respawn budget, the observer's verdict on
  the fleet, graceful abort and relocation of a primary, capability and
  generations of members, the local manager's commands from outside.
- **Compositions not built**: the pool runs on an abstract ledger (`PhaseLifecycle.ledger`), not on `TaskLedger`'s replicas,
  so a mutation that reaches the primary from elsewhere while a handler runs is not covered; the
  commands of a message handler end in no ledger; the removal consensus is one primary's tenure; a secondary
  has one worker slot in `PhaseLifecycle` and several only in `LocalManager`.
- **I/O and formatting**: transports, codec, gateway, driver, discovery, batch system, the shutdown manager's signals,
  Python bindings, publishing, staging, cgroups, profiles, logs.  This is the larger part of the repository's lines.
