----------------------------- MODULE TaskLedger ------------------------------
(***************************************************************************)
(* The replicated task ledger.  Every node holds a replica.  The node that *)
(* believes it is the primary originates mutations: it stamps them, applies *)
(* them to its own replica and broadcasts the ones that applied; broadcasts *)
(* are lost, duplicated and reordered; anti-entropy streams one replica's  *)
(* entries into another, task by task, between any two other steps.        *)
(* Failover names a new primary at the next epoch while the old one, until *)
(* it hears of it, keeps originating.                                      *)
(*                                                                         *)
(* The dispatch pool is not modelled here: a task may be dispatched as     *)
(* soon as its prerequisites are resolved in the primary's replica, and    *)
(* `runs` holds the executions whose outcome may still be reported.        *)
(***************************************************************************)
EXTENDS TaskLattice

CONSTANTS
    Replica,     \* the nodes, identified by naturals so that they are ordered
    Environment  \* the runs and bounds considered, of EnvironmentType

\* The tasks of kind setup, those discovery registered before the model starts,
\* and the bounds: originations, frames and reports delivered again, retry
\* generations, primary epochs.
EnvironmentType ==
    [setup : SUBSET Task, seeded : SUBSET Task, ops : Nat, dups : Nat,
     attempts : Nat, epochs : Nat]

ASSUME ReplicaAssumption == Replica \subseteq Nat /\ Replica # {}
ASSUME EnvironmentAssumption == Environment \subseteq EnvironmentType

VARIABLES
    tasks,     \* replica -> its ledger
    taskSeq,   \* replica -> task -> the last sequence number it stamped
    primary,   \* replica -> current_primary
    epoch,     \* replica -> primary_epoch
    net,       \* frames in flight: [to, f] or [to, new, epoch]
    runs,      \* executions whose report is not acknowledged yet: [t, id, res]
    ops, dups, \* how much of env.ops and env.dups is used
    env        \* the environment of this behaviour

vars == <<tasks, taskSeq, primary, epoch, net, runs, ops, dups, env>>

FirstPrimary == CHOOSE r \in Replica : \A s \in Replica : r <= s

TaskMsg == [to : Replica, f : Frame]
PrimaryMsg == [to : Replica, new : Replica, epoch : Nat]

\* An execution is told apart by the origination that dispatched it; res is
\* "running" until it first reports, and every replay repeats its report.
Outcome == {"ok", "recoverable", "nonrecoverable", "unfulfillable"}
Execution == [t : Task, id : Nat, res : Outcome \cup {"running"}]

TypeOK ==
    /\ tasks \in [Replica -> Ledger]
    /\ taskSeq \in [Replica -> [Task -> Nat]]
    /\ primary \in [Replica -> Replica]
    /\ epoch \in [Replica -> Nat]
    /\ net \subseteq TaskMsg \cup PrimaryMsg
    /\ runs \subseteq Execution
    /\ ops \in Nat
    /\ dups \in Nat
    /\ env \in Environment

Init ==
    /\ env \in Environment
    /\ tasks = [r \in Replica |-> [t \in Task |->
                   IF t \in env.seeded THEN Pending(0, NoVersion) ELSE Absent]]
    /\ taskSeq = [r \in Replica |-> [t \in Task |-> 0]]
    /\ primary = [r \in Replica |-> FirstPrimary]
    /\ epoch = [r \in Replica |-> 1]
    /\ net = {}
    /\ runs = {}
    /\ ops = 0
    /\ dups = 0

-----------------------------------------------------------------------------
(* Origination: stamp, apply locally, broadcast what applied.              *)

IsPrimary(p) == primary[p] = p

NextTaskVersion(p, t) == <<epoch[p], taskSeq[p][t] + 1>>

\* stamp_versions: the current attempt, and a fresh version where one rides.
Stamped(p, op, t, err) ==
    Mut(op, t, tasks[p][t].att, NextTaskVersion(p, t), err, {})

Broadcast(p, f) == {[to |-> r, f |-> f] : r \in Replica \ {p}}

\* apply_locally_for_broadcast, for the mutations of one handler: those that
\* did not apply locally are not sent, the others go out in Frames.
Together(m1, m2) == {<<m1, m2>>}
Apart(m1, m2) == {One(m1), One(m2)}

OriginateAs(p, m1, m2, Frames(_, _)) ==
    LET mid == Apply(tasks[p], m1)
        new == Apply(mid, m2)
        s1  == IF mid # tasks[p] THEN m1 ELSE Nothing(m1.t)
        s2  == IF new # mid THEN m2 ELSE Nothing(m1.t)
        sent == {f \in Frames(s1, s2) : {f[1].op, f[2].op} # {"Nothing"}}
    IN  /\ tasks' = [tasks EXCEPT ![p] = new]
        /\ net' = net \cup UNION {Broadcast(p, f) : f \in sent}

Originate(p, m1, m2) == OriginateAs(p, m1, m2, Together)

\* Every origination site runs on a node that believes it is the primary.
MayOriginate(p) ==
    /\ IsPrimary(p)
    /\ ops < env.ops
    /\ ops' = ops + 1
    /\ UNCHANGED <<primary, epoch, env>>

Unstamped == UNCHANGED taskSeq
BumpSeqs(p, S) ==
    taskSeq' = [taskSeq EXCEPT ![p] =
                   [t \in Task |-> @[t] + (IF t \in S THEN 1 ELSE 0)]]
BumpSeq(p, t) == BumpSeqs(p, {t})

NoReport == UNCHANGED <<runs, dups>>

\* A secondary reports the outcome of an execution of t; until it sees the ack
\* it replays the same report, to the same primary or to the next one.
Report(t, res) ==
    \E x \in runs :
        /\ x.t = t
        /\ x.res \in {"running", res}
        /\ \/ runs' = runs \ {x} /\ UNCHANGED dups
           \/ /\ dups < env.dups
              /\ dups' = dups + 1
              /\ runs' = (runs \ {x}) \cup {[x EXCEPT !.res = res]}

Resolved == {"Completed", "Skipped", "SetupCompleted"}
DepsResolved(L, t) == \A d \in Deps(t) : L[d].st \in Resolved

\* originate_cold_seed, discover_on_promotion: a discovered task enters the
\* ledger; one found already done is skipped, one with a missing dependency is
\* invalid, in the same batch.
SeedTask(p, t, mark) ==
    /\ MayOriginate(p)
    /\ ~Present(tasks[p], t)
    /\ Originate(p, Mut("TaskAdded", t, 0, NoVersion, "none", {}),
                 CASE mark = "done"    -> Stamped(p, "TaskSkippedAlreadyDone", t, "none")
                   [] mark = "invalid" -> Stamped(p, "TaskFailed", t, "invalid")
                   [] OTHER            -> Nothing(t))
    /\ IF mark = "invalid" THEN BumpSeq(p, t) ELSE Unstamped
    /\ NoReport

\* apply_spawn_tasks: a runtime spawn, its dependencies known to the primary.
SpawnTask(p, t) ==
    /\ MayOriginate(p)
    /\ ~Present(tasks[p], t)
    /\ \A d \in Deps(t) : Present(tasks[p], d)
    /\ Originate(p, Mut("TasksSpawned", t, 0, NoVersion, "none", {}), Nothing(t))
    /\ Unstamped
    /\ NoReport

\* originate_task_assigned, after the assignment was sent to a worker.  The
\* pool hands out a task the ledger still shows Blocked; the mutation is then
\* a no-op that only consumes a sequence number.
AssignTask(p, t) ==
    /\ MayOriginate(p)
    /\ tasks[p][t].st \in {"Pending", "Blocked"}
    /\ DepsResolved(tasks[p], t)
    /\ Originate(p, Stamped(p, "TaskAssigned", t, "none"), Nothing(t))
    /\ BumpSeq(p, t)
    /\ runs' = runs \cup {[t |-> t, id |-> ops, res |-> "running"]}
    /\ UNCHANGED dups

\* A report the coordinator has seen before is dropped.  What it has seen it
\* keeps in sets of its own, completed_tasks and failed_tasks, which may lag
\* behind its replica or be ahead of it; they are PhaseLifecycle's.  Here a report
\* may be dropped and may be processed, whatever the ledger says.
DropReport(p, t, res) ==
    /\ IsPrimary(p)
    /\ t \notin env.setup
    /\ Report(t, res)
    /\ UNCHANGED <<tasks, taskSeq, primary, epoch, net, ops, env>>

\* handle_task_complete.
HandleTaskComplete(p, t) ==
    /\ MayOriginate(p)
    /\ t \notin env.setup
    /\ Report(t, "ok")
    /\ Originate(p, Stamped(p, "TaskCompleted", t, "none"), Nothing(t))
    /\ Unstamped

\* What on_item_failed_permanent takes out of the pool when root fails: the
\* dependents waiting there.  One that another dead prerequisite doomed has
\* left already, and so may have one that is Blocked.
Waiting(L, root, st) ==
    {u \in Dependents(root) :
        /\ L[u].st = st
        /\ \A d \in Prerequisites(u) \ {root} : ~IsCascadeTerminal(L[d])}

Pooled(L, root) == {Waiting(L, root, "Pending") \cup B : B \in SUBSET Waiting(L, root, "Blocked")}

\* build_cascade_terminal_mutations.
CascadeTerminal(p, root, D) ==
    Mut("UpstreamFailed", root, 0, NoVersion, "upstream",
        {[t |-> u, att |-> tasks[p][u].att, ver |-> NextTaskVersion(p, u)] : u \in D})

\* handle_task_failed: a permanent failure takes the dependents in the pool with
\* it, broadcast after the root's own failure.
HandleTaskFailed(p, t, err) ==
    /\ MayOriginate(p)
    /\ t \notin env.setup
    /\ Report(t, err)
    /\ \E D \in IF err = "nonrecoverable" THEN Pooled(tasks[p], t) ELSE {{}} :
          /\ OriginateAs(p, Stamped(p, "TaskFailed", t, err),
                         CascadeTerminal(p, t, D), Apart)
          /\ BumpSeqs(p, {t} \cup D)

\* finalize_phase_soft_failures: at a drain edge of its phase the retry buckets
\* decline a soft failure; it stays Failed{Recoverable} in the ledger, but the
\* dependents waiting for it fail for good.
FinalizeSoftFailure(p, t) ==
    /\ MayOriginate(p)
    /\ tasks[p][t].st = "Failed" /\ tasks[p][t].err = "recoverable"
    /\ \E D \in Pooled(tasks[p], t) :
          /\ D # {}
          /\ Originate(p, CascadeTerminal(p, t, D), Nothing(t))
          /\ BumpSeqs(p, D)
    /\ NoReport

\* Backpressure, a failed send, or the recovery of a dead secondary's work; a
\* terminal in the ledger vetoes it.  The lost worker may still report.
RequeueTask(p, t) ==
    /\ MayOriginate(p)
    /\ tasks[p][t].st = "InFlight"
    /\ Originate(p, Stamped(p, "TaskRequeued", t, "none"), Nothing(t))
    /\ BumpSeq(p, t)
    /\ NoReport

\* try_run_phase_retry_bucket: the next attempt of a soft failure.
RetryTask(p, t) ==
    /\ MayOriginate(p)
    /\ tasks[p][t].st = "Failed" /\ tasks[p][t].err = "recoverable"
    /\ tasks[p][t].att < env.attempts
    /\ Originate(p, [Stamped(p, "TaskRetried", t, "none") EXCEPT !.att = @ + 1],
                 Nothing(t))
    /\ BumpSeq(p, t)
    /\ NoReport

\* apply_reinject_task.
ReinjectTask(p, t) ==
    /\ MayOriginate(p)
    /\ tasks[p][t].st = "Unfulfillable"
    /\ Originate(p, Stamped(p, "TaskReinjected", t, "none"), Nothing(t))
    /\ BumpSeq(p, t)
    /\ NoReport

\* The dependents an unfulfillable root pauses; a root that is resolved or dead
\* has none left in the pool.
PausedBy(L, root) ==
    IF L[root].st \in Resolved \/ IsCascadeTerminal(L[root]) THEN {}
    ELSE Waiting(L, root, "Pending")

\* apply_fail_permanent, on any task the ledger knows: the root fails for good,
\* and an unfulfillable root pauses its dependents on it, in the same batch and
\* after it.  It is also how settle_setup_terminal ends a setup task that failed.
FailPermanent(p, t, err) ==
    /\ MayOriginate(p)
    /\ Present(tasks[p], t)
    /\ Originate(p, Stamped(p, "TaskFailed", t, err),
                 IF err = "unfulfillable"
                 THEN Mut("TaskBlocked", t, 0, NoVersion, "none",
                          {[t |-> u, att |-> 0, ver |-> NoVersion] : u \in PausedBy(tasks[p], t)})
                 ELSE Nothing(t))
    /\ BumpSeq(p, t)
    /\ NoReport

\* settle_setup_terminal, success: run in process by the primary, or reported
\* by the member it was assigned to.
SettleSetup(p, t) ==
    /\ MayOriginate(p)
    /\ t \in env.setup
    /\ DepsResolved(tasks[p], t)
    /\ tasks[p][t].st \in {"Pending", "Blocked", "InFlight"}
    /\ Originate(p, Stamped(p, "SetupCompleted", t, "none"), Nothing(t))
    /\ Unstamped
    /\ NoReport

-----------------------------------------------------------------------------
(* Everything a replica does with what others send.                        *)

Consume(m) ==
    \/ net' = net \ {m} /\ UNCHANGED dups
    \/ dups < env.dups /\ dups' = dups + 1 /\ UNCHANGED net

\* handle_cluster_mutation: one frame of task mutations, in any order.
DeliverTasks(m) ==
    /\ m \in TaskMsg
    /\ tasks' = [tasks EXCEPT ![m.to] = ApplyFrame(@, m.f)]
    /\ Consume(m)
    /\ UNCHANGED <<taskSeq, primary, epoch, runs, ops, env>>

\* Mutant: a register received is taken over whatever its epoch.
AdoptsAnything(r, new, e) == e # epoch[r] \/ new # primary[r]

\* primary_register_adopt: the higher epoch, and at an equal epoch the lower id.
Adopts(r, new, e) == e > epoch[r] \/ (e = epoch[r] /\ new < primary[r])

AdoptPrimary(r, new, e) ==
    /\ primary' = IF Adopts(r, new, e) THEN [primary EXCEPT ![r] = new] ELSE primary
    /\ epoch' = IF Adopts(r, new, e) THEN [epoch EXCEPT ![r] = e] ELSE epoch

DeliverPrimary(m) ==
    /\ m \in PrimaryMsg
    /\ AdoptPrimary(m.to, m.new, m.epoch)
    /\ Consume(m)
    /\ UNCHANGED <<tasks, taskSeq, runs, ops, env>>

\* One entry of a snapshot stream from s merged into r.  A batch is a run of
\* these; batches of one stream are separate handler calls.
RestoreTask(r, s, t) ==
    /\ Present(tasks[s], t)
    /\ tasks' = [tasks EXCEPT ![r] = MergeTaskState(@, t, tasks[s][t])]
    /\ UNCHANGED <<taskSeq, primary, epoch, net, runs, ops, dups, env>>

\* The primary register in the head of a snapshot stream.
RestoreHead(r, s) ==
    /\ AdoptPrimary(r, primary[s], epoch[s])
    /\ UNCHANGED <<tasks, taskSeq, net, runs, ops, dups, env>>

\* fire_local_promotion: r won an election and names itself at the next epoch.
Promote(r) ==
    /\ ~IsPrimary(r)
    /\ epoch[r] < env.epochs
    /\ AdoptPrimary(r, r, epoch[r] + 1)
    /\ net' = net \cup {[to |-> s, new |-> r, epoch |-> epoch[r] + 1]
                          : s \in Replica \ {r}}
    /\ UNCHANGED <<tasks, taskSeq, runs, ops, dups, env>>

-----------------------------------------------------------------------------
OriginateStep(p, t) ==
    \/ \E mark \in {"new", "done", "invalid"} : SeedTask(p, t, mark)
    \/ SpawnTask(p, t)
    \/ AssignTask(p, t)
    \/ HandleTaskComplete(p, t)
    \/ \E err \in Outcome \ {"ok"} : HandleTaskFailed(p, t, err)
    \/ FinalizeSoftFailure(p, t)
    \/ RequeueTask(p, t)
    \/ RetryTask(p, t)
    \/ ReinjectTask(p, t)
    \/ \E err \in {"nonrecoverable", "unfulfillable"} : FailPermanent(p, t, err)
    \/ SettleSetup(p, t)

Next ==
    \/ \E p \in Replica, t \in Task : OriginateStep(p, t)
    \/ \E p \in Replica, t \in Task, res \in Outcome : DropReport(p, t, res)
    \/ \E m \in net : DeliverTasks(m) \/ DeliverPrimary(m)
    \/ \E r, s \in Replica, t \in Task : RestoreTask(r, s, t)
    \/ \E r, s \in Replica : RestoreHead(r, s)
    \/ \E r \in Replica : Promote(r)

Spec == Init /\ [][Next]_vars

\* Every node's anti-entropy timer keeps firing, so a stream between any two
\* live replicas is never put off for ever.  Nothing else is fair: a frame may
\* be lost and the primary may stop originating.
FairSpec ==
    /\ Spec
    /\ \A r \in Replica : \A s \in Replica \ {r} : WF_vars(\E t \in Task : RestoreTask(r, s, t))

(* What the rest of the model relies on.                                   *)

\* The ledger uses the primary register as the office of Leadership, which is what the
\* election provides: Promote takes it at the next epoch, and PrimaryChanged and restore
\* only ever hand on that somebody did.
Registers == [r \in Replica |-> [id |-> primary[r], epoch |-> epoch[r]]]
Office == INSTANCE Leadership WITH Node <- Replica, register <- Registers
ImplementsLeadership == Office!Spec

-----------------------------------------------------------------------------
(* What the ledger promises.                                               *)

\* The terminals no reset names as its source: TaskRetried takes Failed and
\* TaskReinjected takes Unfulfillable, the others are out of their reach.
Settled == {"Completed", "InvalidTask", "Skipped", "SetupCompleted"}

\* Terminal lockout: whatever is delivered, however late, and whoever
\* originated it, an entry that is settled on a replica is only ever replaced
\* there by a state the join ranks above it.  The reset arms, the two walks
\* over the dependents, the duplicated frames and the zombie primary are all
\* ways to break it.
TerminalLockout ==
    [][\A r \in Replica, t \in Task :
          tasks[r][t].st \in Settled =>
             \/ tasks'[r][t] = tasks[r][t]
             \/ Dominates(tasks'[r][t], tasks[r][t])]_vars

\* A retry generation survives: an entry that is not itself Failed never goes
\* back to an earlier attempt, by a stale stream, a late frame or a zombie's
\* outcome; only the retry arm rewrites an attempt, and only on Failed.
RetrySurvives ==
    [][\A r \in Replica, t \in Task :
          tasks[r][t].st # "Failed" => tasks'[r][t].att >= tasks[r][t].att]_vars

\* A Blocked entry waits on one of its own prerequisites, on every replica,
\* whatever was merged into it: the cascade and resume walks follow `on`, and
\* their recursion ends because `on` only ever points down the dependency graph.
BlockedOnPrerequisite ==
    \A r \in Replica, t \in Task :
        tasks[r][t].st = "Blocked" => tasks[r][t].on \in Prerequisites(t)

\* No frame is in flight and no stream would change any replica.
Quiescent ==
    /\ net = {}
    /\ \A r, s \in Replica, t \in Task :
          Present(tasks[s], t) => ~Wins(tasks[r], t, tasks[s][t])

\* What the digests can tell apart: everything but the holder and the `on`.
Agree ==
    \A r, s \in Replica, t \in Task :
        /\ tasks[r][t].st = tasks[s][t].st
        /\ tasks[r][t].att = tasks[s][t].att
        /\ tasks[r][t].ver = tasks[s][t].ver
        /\ tasks[r][t].err = tasks[s][t].err

\* Anti-entropy leaves no disagreement behind: once no stream between two
\* replicas changes anything, they hold the same status, attempt, version and
\* failure for every task, although the resets go against the join order.
QuiescentAgreement == Quiescent => Agree

\* Once originations and duplicates run out, the replicas agree and stay
\* agreed, even if every remaining frame is lost: anti-entropy alone heals.
EventuallyAgree == <>[]Agree

\* The comment on the SetupCompleted arm says that a dependent unblocks the
\* moment its setup task succeeds: when nothing is left to exchange, nothing
\* is Blocked on a prerequisite that is resolved.
NoLostWakeup ==
    Quiescent => \A r \in Replica, t \in Task :
        tasks[r][t].st = "Blocked" => tasks[r][tasks[r][t].on].st \notin Resolved
=============================================================================
