----------------------------- MODULE PendingPool -----------------------------
(***************************************************************************)
(* The primary's dispatch pool: which tasks are queued, which wait for a   *)
(* prerequisite, and where every phase stands between Blocked and Done.    *)
(* Every method of the pool is an operator from pools to pools; the        *)
(* PhaseLifecycle module calls them the way the primary's handlers do.     *)
(*                                                                         *)
(* Buckets are one queue per phase and the order inside it is left open:   *)
(* which ready task the scheduler picks is its own choice.  There are no   *)
(* secondary-affine tasks, so no task is exempt from its dependencies.     *)
(***************************************************************************)
EXTENDS Naturals, FiniteSets

CONSTANTS
    Phase,       \* the phases of the run
    PhaseDeps,   \* phase -> the phases that must end before it starts
    Task,        \* the tasks
    PhaseOf,     \* task -> its phase
    DependsOn    \* task -> the tasks it depends on

ASSUME TaskAssumption == IsFiniteSet(Task)
ASSUME PhaseDepsAssumption == PhaseDeps \in [Phase -> SUBSET Phase]
ASSUME PhaseOfAssumption == PhaseOf \in [Task -> Phase]
ASSUME DependsOnAssumption ==
    /\ DependsOn \in [Task -> SUBSET Task]
    /\ \A t \in Task : t \notin DependsOn[t]

PhaseState == {"Blocked", "Active", "Draining", "Drained", "Done"}
Open == {"Active", "Draining"}

\* blocked_per_phase is not kept apart: it counts blocked.  unmet[t] is
\* task_deps, empty for a task that is not blocked.
Pool ==
    [state    : [Phase -> PhaseState],
     queued   : SUBSET Task,
     inFlight : [Phase -> Nat],             \* in_flight_per_phase
     blocked  : SUBSET Task,
     unmet    : [Task -> SUBSET Task],      \* task_deps
     waiters  : [Task -> SUBSET Task],      \* dependents_of
     done     : SUBSET Task,                \* completed_tasks
     failed   : SUBSET Task,                \* failed_tasks
     soft     : SUBSET Task,                \* soft_failed
     drained  : SUBSET Phase]               \* drained_pending

TasksOf(p) == {t \in Task : PhaseOf[t] = p}

QueuedIn(q, p) == q.queued \cap TasksOf(p)
BlockedIn(q, p) == q.blocked \cap TasksOf(p)

\* len: what is_empty reads.
IsEmpty(q) == q.queued = {} /\ q.blocked = {} /\ \A p \in Phase : q.inFlight[p] = 0

-----------------------------------------------------------------------------
(* The drain edge.                                                         *)

PredecessorsDone(q, p) == \A d \in PhaseDeps[p] : q.state[d] = "Done"

\* The blocked tasks that can never run: the least set that holds every
\* blocked task with a dead prerequisite or with a member among its own.
Doomed(q, p) ==
    LET dead == q.failed \cup (q.soft \cap TasksOf(p))
    IN  {t \in q.blocked : \A S \in SUBSET q.blocked :
            (\A u \in q.blocked : q.unmet[u] \cap (dead \cup S) # {} => u \in S) => t \in S}

\* Mutant: a task that waits does not hold its phase open.
NoLiveBlockedEver(q, p) == TRUE

\* live_blocked_count is zero.
NoLiveBlocked(q, p) == BlockedIn(q, p) \subseteq Doomed(q, p)

\* Mutant: the drain edge does not wait for the tasks in flight.
DrainStateIgnoringInFlight(q, p) ==
    IF q.state[p] \notin Open THEN q.state[p]
    ELSE IF QueuedIn(q, p) # {} THEN "Active"
    ELSE IF BlockedIn(q, p) = {} /\ ~PredecessorsDone(q, p) THEN q.state[p]
    ELSE IF BlockedIn(q, p) = {} \/ NoLiveBlocked(q, p) THEN "Drained" ELSE "Draining"

\* maybe_transition_drain: where phase p stands after its counts changed.
DrainState(q, p) ==
    IF q.state[p] \notin Open THEN q.state[p]
    ELSE IF QueuedIn(q, p) # {} THEN "Active"
    ELSE IF q.inFlight[p] # 0 THEN "Draining"
    ELSE IF BlockedIn(q, p) = {} /\ ~PredecessorsDone(q, p) THEN q.state[p]
    ELSE IF BlockedIn(q, p) = {} \/ NoLiveBlocked(q, p) THEN "Drained" ELSE "Draining"

\* maybe_transition_drain over the phases P; a phase reads no other phase's
\* drain state, so their order does not matter.
TransitionDrain(q, P) ==
    LET newly == {p \in P : DrainState(q, p) = "Drained" /\ q.state[p] # "Drained"}
    IN  [q EXCEPT !.state = [p \in Phase |-> IF p \in P THEN DrainState(q, p) ELSE @[p]],
                  !.drained = @ \cup newly]

\* Mutant: a phase without tasks is never looked at.
DrainNothing(q) == q

\* drain_empty_active_phases.
DrainEmptyActivePhases(q) == TransitionDrain(q, Phase)

\* phases_pending_soft_finalize.
PendingSoftFinalize(q) ==
    {p \in Phase : /\ q.soft \cap TasksOf(p) # {}
                   /\ q.state[p] \in Open
                   /\ QueuedIn(q, p) = {}
                   /\ q.inFlight[p] = 0}

\* phases_stuck_drainable.
StuckDrainable(q) ==
    {p \in Phase :
        \/ q.state[p] = "Drained"
        \/ /\ q.state[p] \in Open
           /\ QueuedIn(q, p) = {}
           /\ q.inFlight[p] = 0
           /\ NoLiveBlocked(q, p)
           /\ PredecessorsDone(q, p)}

\* resurface_drained_pending.
ResurfaceDrainedPending(q) ==
    [q EXCEPT !.drained = @ \cup {p \in Phase : q.state[p] = "Drained"}]

\* activate_phases_with_all_deps_done.
ActivatePhases(q) ==
    [q EXCEPT !.state = [p \in Phase |->
        IF @[p] = "Blocked" /\ PredecessorsDone(q, p) THEN "Active" ELSE @[p]]]

\* mark_phase_done, and seed_completed_phases for the phases P at once:
\* activation makes no phase Done, so one pass is the fixpoint.
MarkPhasesDone(q, P) ==
    ActivatePhases([q EXCEPT !.state = [p \in Phase |-> IF p \in P THEN "Done" ELSE @[p]]])

-----------------------------------------------------------------------------
(* Entering the pool and leaving it.                                       *)

\* new, then set_no_barrier_phases with an empty set.
EmptyPool ==
    [state    |-> [p \in Phase |-> IF PhaseDeps[p] = {} THEN "Active" ELSE "Blocked"],
     queued   |-> {},
     inFlight |-> [p \in Phase |-> 0],
     blocked  |-> {},
     unmet    |-> [t \in Task |-> {}],
     waiters  |-> [t \in Task |-> {}],
     done     |-> {},
     failed   |-> {},
     soft     |-> {},
     drained  |-> {}]

UnresolvedDeps(q, t) == DependsOn[t] \ q.done

\* commit_item over the tasks T, none of which is in the pool.  A task with a
\* failed prerequisite only leaves its id among the failed.  Within T the
\* order matters for such a task's own dependents, so T is committed at once
\* only where at most one of them is doomed.
CommitItems(q, T) ==
    LET dead    == {t \in T : DependsOn[t] \cap q.failed # {}}
        waiting == {t \in T \ dead : UnresolvedDeps(q, t) # {}}
    IN  [q EXCEPT !.failed  = @ \cup dead,
                  !.queued  = @ \cup (T \ (dead \cup waiting)),
                  !.blocked = @ \cup waiting,
                  !.unmet   = [t \in Task |-> IF t \in waiting THEN UnresolvedDeps(q, t)
                                                               ELSE @[t]],
                  !.waiters = [d \in Task |-> @[d] \cup {t \in waiting : d \in UnresolvedDeps(q, t)}]]

\* Take the tasks T out of blocked and tear their edges down.
ExtractBlocked(q, T) ==
    [q EXCEPT !.blocked = @ \ T,
              !.unmet   = [t \in Task |-> IF t \in T THEN {} ELSE @[t]],
              !.waiters = [d \in Task |-> @[d] \ {t \in T : d \in q.unmet[t]}]]

\* A phase that was draining is active again once a task is queued in it.
Reactivate(q, P) ==
    [q EXCEPT !.state = [p \in Phase |->
        IF p \in P /\ @[p] = "Draining" THEN "Active" ELSE @[p]]]

Phases(T) == {PhaseOf[t] : t \in T}

\* push_to_queue_head.
PushToQueueHead(q, T) == Reactivate([q EXCEPT !.queued = @ \cup T], Phases(T))

\* mark_in_flight, and the counter's saturating decrement.
MarkInFlight(q, p) == [q EXCEPT !.inFlight[p] = @ + 1]
DropInFlight(q, p) == [q EXCEPT !.inFlight[p] = IF @ = 0 THEN 0 ELSE @ - 1]

\* take_at_if_ready takes only a task whose prerequisites are met; any other it
\* would put back, but none of the primary's paths queues one.
TakeReady(q, t) == UnresolvedDeps(q, t) = {}

TakeAt(q, t) ==
    LET p     == PhaseOf[t]
        taken == MarkInFlight([q EXCEPT !.queued = @ \ {t}], p)
    IN  IF QueuedIn(taken, p) = {} THEN TransitionDrain(taken, {p}) ELSE taken

\* Mutant: the phase of a queued task is not looked at.
CanTakeAny(q, t) == t \in q.queued

\* take_first_match: out of the queue of an open phase, and no count changes.
CanTakeMatch(q, t) == t \in q.queued /\ q.state[PhaseOf[t]] \in Open
TakeMatch(q, t) == [q EXCEPT !.queued = @ \ {t}]

\* requeue, for the in-flight tasks T: they are queued again.
Requeue(q, T) ==
    PushToQueueHead([q EXCEPT !.inFlight = [p \in Phase |->
        LET n == Cardinality(T \cap TasksOf(p)) IN IF @[p] < n THEN 0 ELSE @[p] - n]], T)

-----------------------------------------------------------------------------
(* Terminals.                                                              *)

\* resolve_completed_dependents: t is done, and what waited for it alone is
\* queued; a phase that gains a task is not announced as drained any more.
ResolveCompletedDependents(q, t) ==
    LET touched == {u \in q.waiters[t] : q.unmet[u] # {}}
        free    == {u \in touched \cap q.blocked : q.unmet[u] \subseteq {t}}
        r == [q EXCEPT !.done    = @ \cup {t},
                       !.waiters = [@ EXCEPT ![t] = {}],
                       !.unmet   = [u \in Task |-> IF u \in touched THEN @[u] \ {t} ELSE @[u]],
                       !.blocked = @ \ free,
                       !.drained = @ \ Phases(free)]
    IN  PushToQueueHead(r, free)

\* on_item_finished, with the id of the task and without.
OnItemFinished(q, t) ==
    TransitionDrain(ResolveCompletedDependents(DropInFlight(q, PhaseOf[t]), t), {PhaseOf[t]})

OnItemReleased(q, p) == TransitionDrain(DropInFlight(q, p), {p})

\* What cascade_fail_dependents_of reaches from the roots: the least set that
\* holds the waiters of the roots and of its members, failed tasks excluded.
Cascade(q, roots) ==
    LET next(S) == (UNION {q.waiters[t] : t \in roots \cup S}) \ (q.failed \cup roots)
    IN  {t \in Task : \A S \in SUBSET Task : next(S) \subseteq S => t \in S}

\* The tasks the cascade from the roots hands back to the caller.
Cascaded(q, roots) == Cascade(q, roots) \cap q.blocked

\* The roots fail for good and take Cascade along; the phases that lost a
\* task, and P, are re-evaluated.
FailWithCascade(q, roots, P) ==
    LET hit == Cascade(q, roots)
        r == [q EXCEPT !.failed  = @ \cup roots \cup hit,
                       !.soft    = @ \ (roots \cup hit),
                       !.unmet   = [t \in Task |-> IF t \in hit THEN {} ELSE @[t]],
                       !.waiters = [t \in Task |-> IF t \in roots \cup hit THEN {} ELSE @[t]],
                       !.blocked = @ \ hit]
    IN  TransitionDrain(r, P \cup Phases(Cascaded(q, roots)))

\* on_item_failed_permanent.
OnItemFailedPermanent(q, t) ==
    FailWithCascade(DropInFlight(q, PhaseOf[t]), {t}, {PhaseOf[t]})

\* Mutant: the pool forgets that the task failed.
OnItemFailedForgotten(q, t) == OnItemReleased(q, PhaseOf[t])

\* on_item_failed_pending_retry.
OnItemFailedPendingRetry(q, t) ==
    LET p == PhaseOf[t]
    IN  TransitionDrain([DropInFlight(q, p) EXCEPT !.soft = @ \cup ({t} \ q.failed)], {p})

\* finalize_soft_failures.
SoftRoots(q, p) == q.soft \cap TasksOf(p)
FinalizeSoftFailures(q, p) == FailWithCascade(q, SoftRoots(q, p), {})

-----------------------------------------------------------------------------
(* Coming back.                                                            *)

\* reblock_dependents_on_uncompleted: a task of T that had completed runs again,
\* so what is queued or blocked on the strength of it is committed again.
ReblockDependents(q, T) ==
    LET again == T \cap q.done
        waits == {u \in q.blocked : DependsOn[u] \cap again # {}}
        ready == {u \in q.queued : /\ DependsOn[u] \cap again # {}
                                   /\ q.state[PhaseOf[u]] \in Open}
        r     == ExtractBlocked([q EXCEPT !.done = @ \ again, !.queued = @ \ ready], waits)
    IN  TransitionDrain(CommitItems(r, waits \cup ready), Phases(waits \cup ready))

\* reinject, for the tasks T of phase p: they are queued, and the phase is
\* active again even if it had drained or was done.
Reinject(q, T, p) ==
    LET r == [ReblockDependents([q EXCEPT !.soft = @ \ T], T) EXCEPT !.queued = @ \cup T]
    IN  IF r.state[p] \in {"Draining", "Drained", "Done"}
        THEN [r EXCEPT !.state[p] = "Active", !.drained = @ \ {p}]
        ELSE r
=============================================================================
