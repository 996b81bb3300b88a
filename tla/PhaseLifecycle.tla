---------------------------- MODULE PhaseLifecycle ----------------------------
(***************************************************************************)
(* The primary's run of a phase graph: dispatch to the secondaries, the    *)
(* terminals they report, retries, the failure cascade, and the phase      *)
(* machine that starts a phase when its predecessors have ended.           *)
(*                                                                         *)
(* Four records of one task must tell the same story: the dispatch pool,   *)
(* the primary's in-flight map, its completed and failed maps, and the     *)
(* replicated ledger.  Reports are late and repeated; a secondary is       *)
(* declared dead while it still works; a new primary rebuilds the first    *)
(* three from the fourth.                                                  *)
(*                                                                         *)
(* A handler runs to its end before the next one starts.  What they share, *)
(* process_phase_lifecycle, is a loop; here it is a run of Cascade steps,  *)
(* and no handler starts while turn is not "idle".                         *)
(***************************************************************************)
EXTENDS PendingPool

CONSTANTS
    Secondary,     \* the secondaries, one worker slot each
    NoSecondary,
    SetupTask,     \* the tasks of kind setup
    SetupResults,  \* what a setup task may come to: "ok", "final"
    RetryCap,      \* "recoverable", "oom" -> passes of the phase's retry bucket
    Environment    \* the environments the run may meet: a set of records

Retryable == {"recoverable", "oom"}
Kind == Retryable \cup {"final", "unfulfillable"}

ASSUME SecondaryAssumption == NoSecondary \notin Secondary
ASSUME SetupAssumption ==
    /\ SetupTask \subseteq Task
    /\ SetupResults \subseteq {"ok", "final"}
ASSUME RetryCapAssumption == RetryCap \in [Retryable -> Nat]

EnvironmentType ==
    [setupAt    : [SetupTask -> Secondary \cup {NoSecondary}],  \* setup_affinity; NoSecondary:
                                                               \* the primary runs it itself
     mayBeEmpty : SUBSET Phase,      \* the phases declared may_be_empty
     mortal     : SUBSET Secondary,  \* the secondaries that may be declared dead
     kinds      : SUBSET Kind,       \* the failures a worker may report
     replays    : Nat,               \* bound: reports delivered again
     rejects    : Nat,               \* bound: assignments refused though the worker is free
     reinjects  : Nat,               \* bound: operator reinjections
     failovers  : Nat]               \* bound: primaries lost

ASSUME EnvironmentAssumption == Environment \subseteq EnvironmentType

VARIABLES
    pool,       \* the dispatch pool
    inFlight,   \* task -> the secondary that holds it, or NoSecondary
    completed,  \* completed_tasks: the key the terminals are deduplicated by
    failed,     \* failed_tasks: task -> kind, or "none"
    ledger,     \* the replicated state of every task
    ended,      \* phases_ended, replicated
    passes,     \* phase -> kind -> retry passes used, replicated
    turn,       \* where process_phase_lifecycle stands
    todo,       \* the phases it still has to visit in this round
    verdict,    \* "running", "failing" once RunShouldFail is out, "aborted", "complete"
    alive,      \* the secondaries on the primary's roster
    running,    \* executions going on: <<task, secondary>>
    wire,       \* reports on their way to the primary
    inherited,  \* tasks in flight since before this primary took over
    env         \* the environment, with what is left of its bounds

work == <<pool, inFlight, completed, failed, ledger>>
phaseVars == <<ended, passes, turn, todo, verdict>>
net == <<alive, running, wire, inherited>>
vars == <<work, phaseVars, net, env>>

Status == {"pending", "inflight", "completed"} \cup Kind
Terminal == {"completed"} \cup Kind
Report == [t : Task, s : Secondary, res : {"ok", "busy", "illegal"} \cup Kind]

TypeOK ==
    /\ pool \in Pool
    /\ inFlight \in [Task -> Secondary \cup {NoSecondary}]
    /\ completed \subseteq Task
    /\ failed \in [Task -> Kind \cup {"none"}]
    /\ ledger \in [Task -> Status]
    /\ ended \subseteq Phase
    /\ passes \in [Phase -> [Retryable -> Nat]]
    /\ turn \in {"idle", "poll", "drained", "look", "soft"}
    /\ todo \subseteq Phase
    /\ verdict \in {"running", "failing", "aborted", "complete"}
    /\ alive \subseteq Secondary
    /\ running \subseteq Task \X Secondary
    /\ wire \subseteq Report
    /\ inherited \subseteq Task
    /\ env \in EnvironmentType

\* run_initial_phase_cascade follows the first extend.
Init ==
    /\ pool = DrainEmptyActivePhases(CommitItems(EmptyPool, Task))
    /\ inFlight = [t \in Task |-> NoSecondary]
    /\ completed = {}
    /\ failed = [t \in Task |-> "none"]
    /\ ledger = [t \in Task |-> "pending"]
    /\ ended = {}
    /\ passes = [p \in Phase |-> [k \in Retryable |-> 0]]
    /\ turn = "poll"
    /\ todo = {}
    /\ verdict = "running"
    /\ alive = Secondary
    /\ running = {}
    /\ wire = {}
    /\ inherited = {}
    /\ env \in Environment

RunOver == verdict \in {"aborted", "complete"}

\* A handler starts: no other is running, and the run is not over.
Handler == turn = "idle" /\ ~RunOver

Spend(what) == env[what] > 0 /\ env' = [env EXCEPT ![what] = @ - 1]
NoSpend == UNCHANGED env

\* The handler ends with process_phase_lifecycle, or without it.
EnterCascade == turn' = "poll" /\ UNCHANGED <<ended, passes, todo, verdict>>
NoCascade == UNCHANGED phaseVars

Set(f, T, v) == [t \in DOMAIN f |-> IF t \in T THEN v ELSE f[t]]

-----------------------------------------------------------------------------
(* Dispatch.                                                               *)

SlotFree(s) == s \in alive /\ \A t \in Task : inFlight[t] # s \/ t \in SetupTask
Busy(s, t) == \E u \in Task \ {t} : <<u, s>> \in running

\* The secondary gives the assignment to its worker, or sends it back: the
\* worker runs something the primary does not know of, or cannot start.  A
\* worker that runs the task already goes on with it.
Receive(s, t) ==
    \/ /\ ~Busy(s, t)
       /\ running' = running \cup {<<t, s>>}
       /\ UNCHANGED wire
       /\ NoSpend
    \/ /\ IF Busy(s, t)
          THEN NoSpend /\ wire' = wire \cup {[t |-> t, s |-> s, res |-> "illegal"]}
          ELSE Spend("rejects") /\ wire' = wire \cup {[t |-> t, s |-> s, res |-> "busy"]}
       /\ UNCHANGED running

\* take_at_if_ready, commit_assignment, the send and originate_task_assigned; a
\* send that fails is rolled back and leaves everything as it was.
Dispatch(t, s) ==
    /\ Handler
    /\ t \notin SetupTask
    /\ CanTakeMatch(pool, t)
    /\ SlotFree(s)
    /\ TakeReady(pool, t)
    /\ pool' = TakeAt(pool, t)
    /\ inFlight' = [inFlight EXCEPT ![t] = s]
    /\ ledger' = IF ledger[t] = "pending" THEN [ledger EXCEPT ![t] = "inflight"] ELSE ledger
    /\ Receive(s, t)
    /\ inherited' = inherited \ {t}
    /\ UNCHANGED <<completed, failed, alive>>
    /\ NoCascade

\* An execution ends and its secondary reports.
Finish(t, s, res) ==
    /\ <<t, s>> \in running
    /\ res \in IF t \in SetupTask THEN SetupResults ELSE {"ok"} \cup env.kinds
    /\ running' = running \ {<<t, s>>}
    /\ wire' = wire \cup {[t |-> t, s |-> s, res |-> res]}
    /\ UNCHANGED <<work, phaseVars, alive, inherited, env>>

-----------------------------------------------------------------------------
(* Terminals.  A report is consumed, or stays to be delivered again.       *)

Consume(m) ==
    /\ \/ wire' = wire \ {m} /\ NoSpend
       \/ wire' = wire /\ Spend("replays")
    /\ UNCHANGED <<alive, running, inherited>>

\* Mutant: a copy taken back out of the queue is not counted as in flight.
ReclaimedUncounted(t) == IF inFlight[t] # NoSecondary THEN pool ELSE TakeMatch(pool, t)

\* What a terminal finds of its task: the slot that holds it, or a copy that
\* was requeued in the meantime and that reclaim_requeued_on_terminal takes
\* out of the queue and counts as in flight.
Held(t) == inFlight[t] # NoSecondary
Residue(t) == Held(t) \/ CanTakeMatch(pool, t)
Reclaimed(t) == IF Held(t) THEN pool ELSE MarkInFlight(TakeMatch(pool, t), PhaseOf[t])

\* handle_task_complete.
HandleTaskComplete(m) ==
    LET t == m.t IN
    /\ m.res = "ok"
    /\ IF t \in completed THEN UNCHANGED work /\ NoCascade
       ELSE /\ completed' = completed \cup {t}
            /\ failed' = [failed EXCEPT ![t] = "none"]
            /\ ledger' = [ledger EXCEPT ![t] = "completed"]
            /\ inFlight' = [inFlight EXCEPT ![t] = NoSecondary]
            /\ IF Residue(t)
               THEN pool' = OnItemFinished(Reclaimed(t), t) /\ EnterCascade
               ELSE pool' = pool /\ NoCascade

\* Mutant: what the pool gave up is not reported to the ledger.
TerminalCascadeNone(T) == {}

\* cascade_fail_dependents_terminal: what the pool gave up fails in the ledger,
\* unless this primary has settled it.
TerminalCascade(T) == {u \in T : u \notin completed /\ failed[u] = "none"}

\* Mutant: backpressure is handled as a failure.
IsFailureOrBusy(m) == m.res # "ok"

\* is_backpressure_shaped is false: a report that is neither a success nor backpressure.
IsFailure(m) == m.res \in Kind

\* handle_task_failed, once the failure is not backpressure, with
\* note_item_failed for the class of its kind.
HandleTaskFailed(m) ==
    LET t    == m.t
        k    == m.res
        lost == IF k = "final" /\ Residue(t)
                THEN TerminalCascade(Cascaded(Reclaimed(t), {t})) ELSE {}
    IN
    /\ IsFailure(m)
    /\ IF t \in completed \/ failed[t] # "none" THEN UNCHANGED work /\ NoCascade
       ELSE /\ failed' = Set([failed EXCEPT ![t] = k], lost, "final")
            /\ ledger' = Set([ledger EXCEPT ![t] = k], lost, "final")
            /\ inFlight' = [inFlight EXCEPT ![t] = NoSecondary]
            /\ UNCHANGED completed
            /\ IF Residue(t)
               THEN /\ pool' = CASE k \in Retryable -> OnItemFailedPendingRetry(Reclaimed(t), t)
                                 [] k = "final"     -> OnItemFailedPermanent(Reclaimed(t), t)
                                 [] OTHER           -> OnItemReleased(Reclaimed(t), PhaseOf[t])
                    /\ EnterCascade
               ELSE pool' = pool /\ NoCascade

\* The task goes from whoever holds it back to the queue.  A task that is held
\* is not settled in the ledger, so the vetoes on that account do not arise.
GiveBack(t) ==
    /\ IF Held(t)
       THEN /\ inFlight' = [inFlight EXCEPT ![t] = NoSecondary]
            /\ pool' = Requeue(pool, {t})
            /\ ledger' = IF ledger[t] = "inflight" THEN [ledger EXCEPT ![t] = "pending"]
                                                   ELSE ledger
            /\ UNCHANGED <<completed, failed>>
       ELSE UNCHANGED work
    /\ NoCascade

\* handle_task_failed for backpressure.
HandleBackpressure(m) == m.res = "busy" /\ GiveBack(m.t)

\* handle_illegally_assigned.  Slots and holders are one here, so there is no
\* slot to hand to the task the worker runs.
HandleIllegallyAssigned(m) == m.res = "illegal" /\ GiveBack(m.t)

HandleReport(m) ==
    /\ Handler
    /\ m.t \notin SetupTask
    /\ Consume(m)
    /\ \/ HandleTaskComplete(m)
       \/ HandleTaskFailed(m)
       \/ HandleBackpressure(m)
       \/ HandleIllegallyAssigned(m)

-----------------------------------------------------------------------------
(* Setup tasks.                                                            *)

\* settle_setup_terminal: q is the pool with the task counted as in flight.  A
\* failure goes through apply_fail_permanent: the pool cascades, the failed map
\* follows, the ledger hears of the setup task alone, and note_item_failed
\* without an id releases a count again.
SettleSetup(q, t, res) ==
    LET lost == Cascaded(q, {t}) IN
    /\ inFlight' = [inFlight EXCEPT ![t] = NoSecondary]
    /\ UNCHANGED completed
    /\ IF res = "ok"
       THEN /\ ledger' = [ledger EXCEPT ![t] = "completed"]
            /\ pool' = OnItemFinished(q, t)
            /\ UNCHANGED failed
       ELSE /\ ledger' = [ledger EXCEPT ![t] = "final"]
            /\ failed' = Set(failed, {t} \cup lost, "final")
            /\ pool' = OnItemReleased(OnItemFailedPermanent(q, t), PhaseOf[t])
    /\ EnterCascade

\* execute_setup_locally.
RunSetupLocally(t, res) ==
    /\ Handler
    /\ CanTakeMatch(pool, t)
    /\ env.setupAt[t] = NoSecondary
    /\ SettleSetup(MarkInFlight(TakeMatch(pool, t), PhaseOf[t]), t, res)
    /\ UNCHANGED net
    /\ NoSpend

\* assign_setup_off_primary.
AssignSetup(t) ==
    /\ Handler
    /\ CanTakeMatch(pool, t)
    /\ env.setupAt[t] \in alive
    /\ pool' = MarkInFlight(TakeMatch(pool, t), PhaseOf[t])
    /\ inFlight' = [inFlight EXCEPT ![t] = env.setupAt[t]]
    /\ ledger' = IF ledger[t] = "pending" THEN [ledger EXCEPT ![t] = "inflight"] ELSE ledger
    /\ running' = running \cup {<<t, env.setupAt[t]>>}
    /\ UNCHANGED <<completed, failed, alive, wire, inherited>>
    /\ NoCascade
    /\ NoSpend

\* handle_setup_terminal.
HandleSetupTerminal(m) ==
    /\ Handler
    /\ m.t \in SetupTask
    /\ Consume(m)
    /\ IF Held(m.t) THEN SettleSetup(pool, m.t, m.res) ELSE UNCHANGED work /\ NoCascade

-----------------------------------------------------------------------------
(* Recovery.                                                               *)

HeldBy(s) == {t \in Task : inFlight[t] = s}

\* requeue_dead_secondary: work goes back to the queue, a setup task fails for
\* good.  Whatever the secondary is running it may yet report.
DeclareDead(s) ==
    LET back == HeldBy(s) \ SetupTask
        gone == HeldBy(s) \cap SetupTask
    IN
    /\ Handler
    /\ s \in env.mortal \cap alive
    /\ alive' = alive \ {s}
    /\ inFlight' = Set(inFlight, HeldBy(s), NoSecondary)
    /\ pool' = Requeue(pool, back)
    /\ ledger' = Set(Set(ledger, {t \in back : ledger[t] = "inflight"}, "pending"), gone, "final")
    /\ UNCHANGED <<completed, failed, running, wire, inherited>>
    /\ NoCascade
    /\ NoSpend

\* reconcile_inherited_slot: the worker the old primary gave the task to says
\* that it is idle; what it had to report of the task came first, or is lost.
ReconcileInherited(t) ==
    /\ Handler
    /\ t \in inherited /\ Held(t)
    /\ inFlight[t] \in alive
    /\ <<t, inFlight[t]>> \notin running
    /\ \A m \in wire : m.t # t \/ m.s # inFlight[t]
    /\ inFlight' = [inFlight EXCEPT ![t] = NoSecondary]
    /\ inherited' = inherited \ {t}
    /\ pool' = Requeue(pool, {t})
    /\ ledger' = [ledger EXCEPT ![t] = "pending"]
    /\ UNCHANGED <<completed, failed, alive, running, wire>>
    /\ NoCascade
    /\ NoSpend

\* apply_reinject_task.
ReinjectTask(t) ==
    /\ Handler
    /\ ledger[t] = "unfulfillable"
    /\ Spend("reinjects")
    /\ failed' = [failed EXCEPT ![t] = "none"]
    /\ pool' = Reinject(pool, {t}, PhaseOf[t])
    /\ ledger' = [ledger EXCEPT ![t] = "pending"]
    /\ UNCHANGED <<inFlight, completed, net>>
    /\ NoCascade

Live(t) == ledger[t] \notin Terminal
With(S) == {t \in Task : ledger[t] \in S}

\* The pool hydrate_from_cluster_state builds: every failure may be retried
\* until a drain edge says otherwise, and a phase is done if it has ended.
HydratedPool ==
    LET q == CommitItems([EmptyPool EXCEPT
                 !.done     = With({"completed"}),
                 !.soft     = With(Retryable \cup {"final"}),
                 !.inFlight = [p \in Phase |-> Cardinality(With({"inflight"}) \cap TasksOf(p))]],
                 With({"pending"}))
        over == {p \in ended : TasksOf(p) # {} /\ \A t \in TasksOf(p) : ~Live(t)}
    IN  MarkPhasesDone(q, over)

\* Mutant: every settled task counts as completed.
HydratedTerminal == With(Terminal)

\* completed_tasks of the new primary: a task to revive is in it as well.
HydratedCompleted == With({"completed", "unfulfillable"})

\* The primary is lost, between two handlers or inside a cascade; another
\* node, whose ledger is up to date, takes over.  Reports sent in between may
\* be lost.  No setup task is in flight: the new primary would take it for the
\* work of worker 0 of its member, and the slots of one secondary are one here.
Failover(lost) ==
    /\ ~RunOver
    /\ \A t \in SetupTask : ~Held(t)
    /\ Spend("failovers")
    /\ pool' = DrainEmptyActivePhases(HydratedPool)
    /\ inFlight' = Set(inFlight, {t \in Task : ledger[t] # "inflight"}, NoSecondary)
    /\ inherited' = With({"inflight"})
    /\ completed' = HydratedCompleted
    /\ failed' = [t \in Task |-> IF ledger[t] \in Retryable \cup {"final"} THEN ledger[t]
                                                                        ELSE "none"]
    /\ wire' = wire \ lost
    /\ turn' = "poll"
    /\ todo' = {}
    /\ verdict' = "running"
    /\ UNCHANGED <<ledger, ended, passes, alive, running>>

-----------------------------------------------------------------------------
(* process_phase_lifecycle.                                                *)

\* try_run_phase_retry_bucket: the failures of the kind go back to the queue,
\* as long as the phase has passes left.
Candidates(p, k) == {t \in TasksOf(p) : failed[t] = k}
MayRetry(p, k) == Candidates(p, k) # {} /\ passes[p][k] < RetryCap[k]

RetryBucket(p, k) ==
    LET T == Candidates(p, k) IN
    /\ MayRetry(p, k)
    /\ failed' = Set(failed, T, "none")
    /\ pool' = Reinject(pool, T, p)
    /\ ledger' = Set(ledger, {t \in T : ledger[t] \in Retryable \cup {"final"}}, "pending")
    /\ passes' = [passes EXCEPT ![p][k] = @ + 1]
    /\ UNCHANGED <<inFlight, completed, ended, verdict>>

NoRetry(p) == \A k \in Retryable : ~MayRetry(p, k)

\* finalize_phase_soft_failures.
Given(p) == TerminalCascade(Cascaded(pool, SoftRoots(pool, p)))
FinalizePool(p) == IF SoftRoots(pool, p) = {} THEN pool ELSE FinalizeSoftFailures(pool, p)

Finalize(p) ==
    /\ failed' = Set(failed, Given(p), "final")
    /\ ledger' = Set(ledger, Given(p), "final")

\* phase_can_proceed: the predecessors have ended, and the phase's tasks are
\* settled; or it has nothing in the pool while the rest of the pool is not
\* empty, or was declared to be possibly empty.
PhaseCanProceed(p, L, q) ==
    /\ PhaseDeps[p] \subseteq ended
    /\ \/ TasksOf(p) # {} /\ \A t \in TasksOf(p) : L[t] \in Terminal
       \/ p \in env.mayBeEmpty
       \/ QueuedIn(q, p) = {} /\ q.inFlight[p] = 0 /\ ~IsEmpty(q)

\* A drained phase with nothing left to retry: its soft failures are final, and
\* it ends, or the run is told to fail.
EndPhase(p) ==
    /\ NoRetry(p)
    /\ Finalize(p)
    /\ IF PhaseCanProceed(p, ledger', FinalizePool(p))
       THEN /\ ended' = ended \cup {p}
            /\ pool' = MarkPhasesDone(FinalizePool(p), {p})
            /\ UNCHANGED verdict
       ELSE /\ pool' = FinalizePool(p)
            /\ verdict' = "failing"
            /\ UNCHANGED ended
    /\ UNCHANGED <<inFlight, completed, passes>>

\* The phase is done with for this round; a round over the drained phases ends
\* with another look at the empty ones.
Visited(p) ==
    /\ todo' = todo \ {p}
    /\ turn' = IF todo # {p} THEN turn ELSE IF turn = "drained" THEN "look" ELSE "poll"

InCascade == ~RunOver /\ UNCHANGED <<net, env>>

\* poll_drain_transitions; when it finds none, the phases whose soft failures
\* hold them open; when there are none either, a last look at the empty ones.
Poll ==
    /\ InCascade
    /\ turn = "poll"
    /\ LET surfaced == IF pool.drained # {} THEN pool.drained ELSE PendingSoftFinalize(pool)
           looked   == DrainEmptyActivePhases(pool)
       IN  IF surfaced # {}
           THEN /\ pool' = [pool EXCEPT !.drained = {}]
                /\ todo' = surfaced
                /\ turn' = IF pool.drained # {} THEN "drained" ELSE "soft"
           ELSE /\ pool' = looked
                /\ todo' = {}
                /\ turn' = IF looked.drained # {} THEN "poll" ELSE "idle"
    /\ UNCHANGED <<inFlight, completed, failed, ledger, ended, passes, verdict>>

\* The recoverable bucket goes before the one for memory.
Retry(p) ==
    /\ InCascade
    /\ turn \in {"drained", "soft"} /\ p \in todo
    /\ \/ RetryBucket(p, "recoverable")
       \/ ~MayRetry(p, "recoverable") /\ RetryBucket(p, "oom")
    /\ Visited(p)

DrainPhase(p) ==
    /\ InCascade
    /\ turn = "drained" /\ p \in todo
    /\ EndPhase(p)
    /\ Visited(p)

\* drive_soft_finalize_deadlock.
FinalizeSoft(p) ==
    /\ InCascade
    /\ turn = "soft" /\ p \in todo
    /\ NoRetry(p)
    /\ Finalize(p)
    /\ pool' = FinalizePool(p)
    /\ Visited(p)
    /\ UNCHANGED <<inFlight, completed, ended, passes, verdict>>

LookAgain ==
    /\ InCascade
    /\ turn = "look"
    /\ pool' = DrainEmptyActivePhases(pool)
    /\ turn' = "poll"
    /\ UNCHANGED <<inFlight, completed, failed, ledger, ended, passes, todo, verdict>>

CascadeStep ==
    \/ Poll
    \/ LookAgain
    \/ \E p \in Phase : Retry(p) \/ DrainPhase(p) \/ FinalizeSoft(p)

\* The operational loop's re-surface arm: a phase is stuck short of its drain
\* edge and nothing else is going on.
Resurface ==
    /\ Handler
    /\ StuckDrainable(pool) # {}
    /\ pool' = ResurfaceDrainedPending(pool)
    /\ UNCHANGED <<inFlight, completed, failed, ledger>>
    /\ EnterCascade
    /\ UNCHANGED net
    /\ NoSpend

\* The worker-management arm takes RunShouldFail and latches the abort.
Abort ==
    /\ Handler
    /\ verdict = "failing"
    /\ verdict' = "aborted"
    /\ UNCHANGED <<work, ended, passes, turn, todo, net, env>>

\* run_complete_check: no worker is busy, and everything is accounted for or
\* the pool is empty with no phase open.
RunCompleteCheck ==
    /\ \A t \in Task \ SetupTask : ~Held(t)
    /\ \/ Cardinality(completed) + Cardinality({t \in Task : failed[t] # "none"})
             >= Cardinality(Task)
       \/ IsEmpty(pool) /\ \A p \in Phase : pool.state[p] \notin Open

\* The loop ends on it, unless a RunShouldFail is queued.  It looks once per
\* round, and a round may handle several messages.
Complete ==
    /\ Handler
    /\ verdict = "running"
    /\ RunCompleteCheck
    /\ verdict' = "complete"
    /\ UNCHANGED <<work, ended, passes, turn, todo, net, env>>

-----------------------------------------------------------------------------
Next ==
    \/ \E t \in Task, s \in Secondary :
          \/ Dispatch(t, s)
          \/ \E res \in {"ok"} \cup Kind : Finish(t, s, res)
    \/ \E m \in wire : HandleReport(m) \/ HandleSetupTerminal(m)
    \/ \E t \in SetupTask : AssignSetup(t) \/ \E res \in SetupResults : RunSetupLocally(t, res)
    \/ \E s \in Secondary : DeclareDead(s)
    \/ \E t \in Task : ReconcileInherited(t) \/ ReinjectTask(t)
    \/ \E lost \in SUBSET wire : Failover(lost)
    \/ CascadeStep
    \/ Resurface
    \/ Abort
    \/ Complete

Spec == Init /\ [][Next]_vars

\* The operational loop keeps turning: a ready slot is filled, a report that has
\* arrived is handled, a cascade runs to its end, and each of its timers fires
\* again and again.  A worker of a secondary on the roster comes to an end.
Fairness ==
    /\ WF_vars(CascadeStep)
    /\ WF_vars(\E t \in Task, s \in Secondary : Dispatch(t, s))
    /\ WF_vars(\E t \in Task, s \in alive, res \in {"ok"} \cup Kind : Finish(t, s, res))
    /\ SF_vars(\E m \in wire : HandleReport(m) \/ HandleSetupTerminal(m))
    /\ WF_vars(\E t \in SetupTask :
                  AssignSetup(t) \/ \E res \in SetupResults : RunSetupLocally(t, res))
    /\ WF_vars(\E t \in Task : ReconcileInherited(t))
    /\ WF_vars(Resurface)
    /\ SF_vars(Abort)
    /\ SF_vars(Complete)

FairSpec == Spec /\ Fairness

-----------------------------------------------------------------------------
(* What the phase machine promises.                                        *)

\* The pool's in-flight count of a phase is the number of its tasks that the
\* primary believes somebody holds: every path that takes a task out of
\* flight, late, twice or after a requeue, releases exactly one.
CountMatchesHolders ==
    \A p \in Phase : pool.inFlight[p] = Cardinality({t \in TasksOf(p) : Held(t)})

\* A task the ledger still calls live is in exactly one place: queued, waiting,
\* or held.  A settled one is in none of them.
LiveTaskHasHome ==
    LET held == {t \in Task : Held(t)} IN
    /\ pool.queued \cap pool.blocked = {}
    /\ held \cap (pool.queued \cup pool.blocked) = {}
    /\ held \cup pool.queued \cup pool.blocked = {t \in Task : Live(t)}

\* No task waits for a prerequisite nobody will settle: each one it waits for
\* is itself on its way, retryable, or for the operator to revive.
NoOrphanWait ==
    \A t \in pool.blocked : \A d \in pool.unmet[t] :
        /\ t \in pool.waiters[d]
        /\ d \in pool.queued \cup pool.blocked \cup pool.soft \/ Held(d)
           \/ ledger[d] = "unfulfillable"

\* Work is handed out only when its prerequisites have completed in the ledger
\* and the phases before its own have ended, for good, on every replica.
RunsInOrder ==
    \A t \in Task : Held(t) => /\ \A d \in DependsOn[t] : ledger[d] = "completed"
                               /\ PhaseDeps[PhaseOf[t]] \subseteq ended

\* A phase counts as done only while each of its tasks is settled, through
\* retries, reinjections and takeovers.
EndedPhaseIsSettled ==
    \A p \in Phase : pool.state[p] = "Done" => \A t \in TasksOf(p) : ~Live(t)

\* A task that waits is failed only because a prerequisite really did: never on
\* account of one that the ledger has as completed.
CascadeJustified ==
    [][\A t \in pool.blocked : ledger[t] \notin Kind /\ ledger'[t] \in Kind =>
          \E d \in DependsOn[t] : ledger'[d] \in Kind]_vars

\* The run is declared complete only when every task is settled: the counts it
\* goes by never take one task for two.
CompleteMeansSettled == verdict = "complete" => \A t \in Task : ~Live(t)

\* The run is told to fail only over a phase without tasks that was expected to
\* have some: no other phase drains with a task unresolved.
NoSpuriousFailure ==
    verdict \in {"failing", "aborted"} =>
        \E p \in Phase : TasksOf(p) = {} /\ p \notin env.mayBeEmpty

\* The run comes to its end, whatever is lost on the way, or waits for an
\* operator to revive a task.
RunEnds == <>[](RunOver \/ \E t \in Task : ledger[t] = "unfulfillable")
=============================================================================
