---------------------------- MODULE LocalManager ----------------------------
(***************************************************************************)
(* The single-machine manager: it takes a batch of tasks through initial   *)
(* assignments, the main phase, retry passes, a memory-pressure phase and  *)
(* a phase for what found no worker.  It drives worker subprocesses        *)
(* through slots; a background poll task per busy slot reads the worker's  *)
(* answers and queues events that the manager handles one at a time.       *)
(*                                                                         *)
(* Slots are replaced while an old poll task may already have queued its   *)
(* last event, a worker may die busy or idle, and a respawn may fail.      *)
(* plan bounds how often each fault strikes.                               *)
(*                                                                         *)
(* Left out: commands from outside (spawn, reinject, fail), sizes in       *)
(* bytes beyond "the estimate fits the budget", log files and profiles.    *)
(***************************************************************************)
EXTENDS PendingPool, SequencesExt, TLC

CONSTANTS
    Worker,        \* the slots of the pool
    Worker0,       \* the slot that works alone under memory pressure
    Type,          \* the task types, one worker program each
    TypeOf,        \* task -> its type
    Estimate,      \* task -> estimated memory
    Budget,        \* slot -> reserved memory
    MaxResources,  \* all the memory there is
    ReuseWorkers,  \* reuse_workers: a slot survives a success
    RetryPasses,   \* retry_max_attempts
    Plans,         \* how often each fault may strike
    NoTask, NoType

ASSUME SlotAssumption ==
    /\ Worker0 \in Worker
    /\ TypeOf \in [Task -> Type]
    /\ Estimate \in [Task -> Nat]
    /\ Budget \in [Worker -> Nat]
    /\ MaxResources \in Nat
    /\ RetryPasses \in Nat
    /\ ReuseWorkers \in BOOLEAN
    /\ NoTask \notin Task
    /\ NoType \notin Type

Fault == {"crash", "error", "spawn", "timeout", "preempt"}
ASSUME PlanAssumption == Plans \subseteq [Fault -> Nat]

VARIABLES
    q,            \* the pending pool
    slot,         \* slot -> its WorkerHandle
    proc,         \* slot -> the subprocess behind the handle
    events,       \* the pool's event channel
    stage, pass,  \* where process_binaries is
    pc, todo,     \* where process_worker_loop is, and the slots left to visit
    active,       \* active_workers
    pend,         \* pending_worker_assignments
    failed, pressure, unassigned,  \* the side queues
    skipped, done,                 \* stats, by task
    deferred,     \* deferred_drain_notifications
    preempted,    \* the tasks taken from a slot under memory pressure
    plan, left    \* the faults of this run, and those still to come

pools == <<q, failed, pressure, unassigned, skipped, done, deferred, preempted>>
slots == <<slot, proc>>
flow == <<stage, pass, pc, todo, active, pend>>
vars == <<pools, slots, flow, events, plan, left>>

Stage == {"initial", "main", "retry", "pressure", "unassigned", "done", "panicked"}

\* proto Stopped stands for Unconnected too: no caller tells them apart.
\* poll Idle and Stopped: the poll task has ended and holds that protocol state.
Slot ==
    [proto   : {"Idle", "Transitioning", "Stopped"},
     poll    : {"none", "running", "Idle", "Stopped"},    \* poll_task
     run     : Task \cup {NoTask},                        \* the poll task's binary
     gen     : Nat,                                       \* generation
     task    : Task \cup {NoTask},                        \* current_binary
     type    : Type \cup {NoType},                        \* loaded_type_id
     ready   : BOOLEAN,                                   \* ever_ready
     fails   : 0..3,                                      \* assignment_failure_count
     opp     : BOOLEAN,                                   \* opportunistic
     initial : BOOLEAN,                                   \* has_initial_assignment
     staged  : BOOLEAN]                                   \* phase is set

Event ==
    [kind : {"TaskCompleted", "Disconnected", "PhaseUpdate"},
     worker : Worker, gen : Nat, task : Task \cup {NoTask},
     result : {"ok", "error", "memory"}]

IsReady(s) == s.proto = "Idle"
IsProcessing(s) == s.poll # "none"

Bag0 == [t \in Task |-> 0]
Push(b, t) == [b EXCEPT ![t] = @ + 1]
PushAll(b, T) == [t \in Task |-> IF t \in T THEN b[t] + 1 ELSE b[t]]
In(b) == {t \in Task : b[t] > 0}

Spend(f) == left[f] > 0 /\ left' = [left EXCEPT ![f] = @ - 1]

-----------------------------------------------------------------------------
(* Slots.                                                                  *)

\* WorkerHandle::new, after the wait for Ready.
FreshSlot(g, ty, ok, n) ==
    [proto |-> IF ok THEN "Idle" ELSE "Stopped", poll |-> "none", run |-> NoTask,
     gen |-> g, task |-> NoTask, type |-> ty, ready |-> ok, fails |-> n,
     opp |-> FALSE, initial |-> FALSE, staged |-> FALSE]

\* stop and abort_poll_task.
Abandoned(s) ==
    [s EXCEPT !.proto = IF @ = "Idle" THEN "Stopped" ELSE @, !.poll = "none", !.run = NoTask]

Outcome == {"ready", "died", "unspawned"}

\* Replace the subprocess of slot s by one for type ty.  The new one becomes
\* ready, dies before it is, or is not spawned at all; then the old handle
\* stays (note_spawn_failure).
Respawn(s, ty, o) ==
    [slot |-> IF o = "unspawned" THEN [Abandoned(s) EXCEPT !.ready = FALSE]
                                 ELSE FreshSlot(s.gen + 1, ty, o = "ready", s.fails),
     proc |-> [type |-> ty, alive |-> o = "ready"],
     ok   |-> o = "ready", panic |-> FALSE,
     used |-> IF o = "ready" THEN 0 ELSE 1]

\* Mutant: a restart spawns the plain worker and keeps the type on the slot.
RestartUntyped(s, o) ==
    [Respawn(s, IF s.ready THEN s.type ELSE NoType, o) EXCEPT !.proc.type = NoType]

\* restart_worker: the type is kept if this generation ever became ready.
Restart(s, o) == Respawn(s, IF s.ready THEN s.type ELSE NoType, o)
Restarts(s) == {Restart(s, o) : o \in Outcome}

\* ensure_worker_for_type, for slot w with handle s.
EnsureWorkerForType(w, s, ty) ==
    IF s.type = ty
    THEN {[slot |-> s, proc |-> proc[w], ok |-> TRUE, panic |-> FALSE, used |-> 0]}
    ELSE {Respawn(s, ty, o) : o \in Outcome}

\* WorkerHandle::assign_task.  A send to a dead worker may still succeed.
Assigned(s, t, opp) ==
    [s EXCEPT !.proto = "Transitioning", !.poll = "running", !.run = t, !.task = t,
              !.opp = opp, !.initial = TRUE, !.fails = 0]

\* clear_task, after reclaim_protocol: a poll task that sent its last event has
\* ended.
Reclaimed(s) ==
    [s EXCEPT !.proto = IF s.poll \in {"Idle", "Stopped"} THEN s.poll ELSE @,
              !.poll = "none", !.run = NoTask, !.task = NoTask, !.staged = FALSE]

-----------------------------------------------------------------------------
(* Assigning.                                                              *)

View(r) == {t \in Task : t \in r.queued /\ r.state[PhaseOf[t]] \in Open}

BudgetOf(w) ==
    IF w = Worker0 /\ stage \in {"pressure", "unassigned"} THEN MaxResources ELSE Budget[w]

Fitting(w, r) == {t \in View(r) : Estimate[t] <= BudgetOf(w)}

\* An opportunistic slot gets what is free now, which may be too little.
MayFindNoFit(w, r) == Fitting(w, r) = {} \/ slot[w].opp

\* Mutant: the limit is one failure too late.
AssignmentFailureLate(x) ==
    LET s == [x.slot EXCEPT !.fails = @ + 1]
    IN  IF s.fails > 3
        THEN {[x EXCEPT !.panic = TRUE]}
        ELSE {[y EXCEPT !.ok = FALSE, !.used = @ + x.used] : y \in Restarts(s)}

\* handle_assignment_failure after attempt x: the third failure in a row is a
\* panic, any other restarts the slot.
AssignmentFailure(x) ==
    LET s == [x.slot EXCEPT !.fails = @ + 1]
    IN  IF s.fails >= 3
        THEN {[x EXCEPT !.slot = s, !.panic = TRUE]}
        ELSE {[y EXCEPT !.ok = FALSE, !.used = @ + x.used] : y \in Restarts(s)}

\* Mutant: a task whose assignment failed stays in flight.
PutBackNowhere(r, t) == r

\* The pool once the assignment of t failed.
PutBack(r, t) == Requeue(r, {t})

\* What try_assign_initial and try_assign_normal may do to slot w, whose handle is
\* s, once the scheduler has picked t.  assign_task refuses a slot that is not
\* Idle; the worker may have died unnoticed: the send fails, or succeeds in vain.
Attempts(w, s, t, opp) ==
    LET loaded  == EnsureWorkerForType(w, s, TypeOf[t])
        bound   == {x \in loaded : x.ok /\ IsReady(x.slot)}
        refused == {[x EXCEPT !.ok = FALSE] : x \in loaded \ bound} \cup
                   {[x EXCEPT !.slot.proto = "Stopped", !.ok = FALSE] : x \in
                        {y \in bound : ~y.proc.alive}}
    IN  {[x EXCEPT !.slot = Assigned(@, t, opp)] : x \in bound}
        \cup UNION {AssignmentFailure(x) : x \in refused}

\* Pool r after attempt x to assign t.
PoolAfter(r, t, x) == IF x.ok THEN TakeAt(r, t) ELSE PutBack(TakeAt(r, t), t)

\* The slot, its process and the faults after outcome x for slot w.
Becomes(w, x) ==
    /\ x.used <= left["spawn"]
    /\ left' = [left EXCEPT !["spawn"] = @ - x.used]
    /\ slot' = [slot EXCEPT ![w] = x.slot]
    /\ proc' = [proc EXCEPT ![w] = x.proc]

StageAfter(x) == IF x.panic THEN "panicked" ELSE stage

-----------------------------------------------------------------------------
(* Results and phase ends.                                                 *)

\* record_phase_completion, for the task of a result, if it has one.
RecordPhaseCompletion(r, t, result) ==
    IF t = NoTask THEN r
    ELSE IF result = "ok" THEN OnItemFinished(r, t) ELSE OnItemReleased(r, PhaseOf[t])

\* record_result: where the task goes.
RecordResult(t, result) ==
    LET to(b, c) == IF t # NoTask /\ result = c THEN Push(b, t) ELSE b
    IN  /\ done' = to(done, "ok")
        /\ failed' = to(failed, "error")
        /\ pressure' = to(pressure, "memory")

\* Mutant: what a side queue holds does not keep a phase from its end.
SideQueuesIgnored(p, f, m) == FALSE

\* phase_has_pending_side_queue_items.
PhaseHasPendingSideQueueItems(p, f, m) ==
    TasksOf(p) \cap (In(f) \cup In(m) \cup unassigned) # {}

\* process_drain_transitions on pool r, with the side queues as they are now.
ProcessDrainTransitions(r, f, m) ==
    LET drained == {p \in deferred \cup r.drained : r.state[p] = "Drained"}
        held    == {p \in drained : PhaseHasPendingSideQueueItems(p, f, m)}
    IN  /\ q' = MarkPhasesDone([r EXCEPT !.drained = {}], drained \ held)
        /\ deferred' = held

\* reinject of the tasks T.
ReinjectAll(T) == FoldSet(LAMBDA p, r : Reinject(r, T \cap TasksOf(p), p), q, Phases(T))

\* drain_queued.
DrainQueued == [q EXCEPT !.queued = {}]

-----------------------------------------------------------------------------
(* initialize and run_initial_assignments.                                 *)

StartupDeath(w) ==
    [kind |-> "Disconnected", worker |-> w, gen |-> 0, task |-> NoTask, result |-> "error"]

\* A spawn here gives a process that dies before it is ready.  One that gives none makes
\* initialize return an error, and there is no run.
Init ==
    /\ plan \in Plans
    /\ \E dead \in {D \in SUBSET Worker : Cardinality(D) <= plan["spawn"]} :
        /\ slot = [w \in Worker |-> FreshSlot(0, NoType, w \notin dead, 0)]
        /\ proc = [w \in Worker |-> [type |-> NoType, alive |-> w \notin dead]]
        /\ events = SetToSeq({StartupDeath(w) : w \in dead})
        /\ left = [plan EXCEPT !["spawn"] = @ - Cardinality(dead)]
    /\ q = CommitItems(EmptyPool, Task)
    /\ stage = "initial" /\ pass = 0 /\ pc = "assign"
    /\ todo = {} /\ active = {} /\ pend = {}
    /\ failed = Bag0 /\ pressure = Bag0 /\ done = Bag0
    /\ unassigned = {} /\ skipped = {} /\ deferred = {} /\ preempted = {}

Busy == {w \in Worker : slot[w].task # NoTask}
AssignedTotal == MapThenSumSet(LAMBDA w : Estimate[slot[w].task], Busy)

\* try_assign_initial finds a task: opportunistic when it overbooks the memory.
AssignInitial(w) ==
    /\ stage = "initial" /\ ~slot[w].initial /\ IsReady(slot[w])
    /\ \E t \in Fitting(w, q) :
        \E x \in Attempts(w, slot[w], t, AssignedTotal + Estimate[t] > MaxResources) :
            /\ Becomes(w, x)
            /\ q' = PoolAfter(q, t, x)
            /\ pend' = IF x.ok THEN pend ELSE pend \cup {w}
            /\ stage' = StageAfter(x)
    /\ UNCHANGED <<events, plan, pass, pc, todo, active, failed, pressure, unassigned,
                   skipped, done, deferred, preempted>>

\* It finds none: the slot counts as served.
NoInitial(w) ==
    /\ stage = "initial" /\ ~slot[w].initial /\ IsReady(slot[w])
    /\ Fitting(w, q) = {}
    /\ slot' = [slot EXCEPT ![w].initial = TRUE]
    /\ UNCHANGED <<proc, pools, flow, events, plan, left>>

\* run_initial_assignments goes round as long as a slot is not served.
SpinInitial ==
    /\ stage = "initial"
    /\ \E w \in Worker : ~slot[w].initial /\ ~IsReady(slot[w])
    /\ UNCHANGED vars

EnterLoop(A) ==
    active' = A /\ todo' = A /\ pc' = "assign"

StartMainPhase ==
    /\ stage = "initial" /\ \A w \in Worker : slot[w].initial
    /\ stage' = "main"
    /\ EnterLoop(Worker)
    /\ UNCHANGED <<slots, pools, events, plan, left, pass, pend>>

-----------------------------------------------------------------------------
(* process_worker_loop.                                                    *)

InLoop(at) == stage \in {"main", "retry", "pressure", "unassigned"} /\ pc = at

AllowStop == stage = "retry"

\* Mutant: a slot that was offered work once is never crossed off.
StillWaiting(w) == pend

\* A slot that was offered work is no longer pending.
Served(w) == pend \ {w}

\* try_assign_normal for slot w.
TryAssign(w) ==
    /\ \E t \in Fitting(w, q) : \E x \in Attempts(w, slot[w], t, FALSE) :
            Becomes(w, x) /\ q' = PoolAfter(q, t, x) /\ stage' = StageAfter(x)
    /\ pend' = Served(w)

\* assign_idle_workers comes to slot w: it is not ready ...
VisitNotReady(w) ==
    /\ InLoop("assign") /\ w \in todo /\ ~IsReady(slot[w])
    /\ todo' = todo \ {w}
    /\ active' = IF IsEmpty(q) /\ AllowStop THEN active \ {w} ELSE active
    /\ UNCHANGED <<slots, pools, events, plan, left, stage, pass, pc, pend>>

\* ... nothing is queued that may run (NoPendingTasks) ...
VisitNoTasks(w) ==
    /\ InLoop("assign") /\ w \in todo /\ IsReady(slot[w])
    /\ View(q) = {}
    /\ todo' = todo \ {w}
    /\ active' = active \ {w}
    /\ UNCHANGED <<slots, pools, events, plan, left, stage, pass, pc, pend>>

\* ... nothing fits (NoFit) ...
VisitNoFit(w) ==
    /\ InLoop("assign") /\ w \in todo /\ IsReady(slot[w])
    /\ View(q) # {} /\ MayFindNoFit(w, q)
    /\ todo' = todo \ {w}
    /\ pend' = Served(w)
    /\ UNCHANGED <<slots, pools, events, plan, left, stage, pass, pc, active>>

\* ... or it gets a task.
VisitAssign(w) ==
    /\ InLoop("assign") /\ w \in todo /\ IsReady(slot[w])
    /\ TryAssign(w)
    /\ todo' = todo \ {w}
    /\ UNCHANGED <<events, plan, pass, pc, active, failed, pressure, unassigned,
                   skipped, done, deferred, preempted>>

\* All slots are visited: the loop ends when nobody works and nobody waits.
Visited ==
    /\ InLoop("assign") /\ todo = {}
    /\ pc' = IF pend = {} /\ \A w \in active : ~IsProcessing(slot[w]) THEN "exit" ELSE "wait"
    /\ UNCHANGED <<slots, pools, events, plan, left, stage, pass, todo, active, pend>>

\* After an event or a sweep the pending slots that are free are offered work.
Eligible == {w \in pend : slot[w].task = NoTask /\ IsReady(slot[w])}

PendingAssign(w) ==
    /\ InLoop("pending") /\ w \in Eligible
    /\ TryAssign(w)
    /\ UNCHANGED <<events, plan, pass, pc, todo, active, failed, pressure, unassigned,
                   skipped, done, deferred, preempted>>

PendingNoFit(w) ==
    /\ InLoop("pending") /\ w \in Eligible
    /\ MayFindNoFit(w, q)
    /\ pend' = Served(w)
    /\ UNCHANGED <<slots, pools, events, plan, left, stage, pass, pc, todo, active>>

NextRound ==
    /\ InLoop("pending") /\ Eligible = {}
    /\ todo' = active
    /\ pc' = IF active = {} THEN "exit" ELSE "assign"
    /\ UNCHANGED <<slots, pools, events, plan, left, stage, pass, active, pend>>

-----------------------------------------------------------------------------
(* handle_event.                                                           *)

\* Mutant: a slot takes the events of its earlier processes for its own.
NeverStale(e) == FALSE

\* is_stale_event.
IsStaleEvent(e) == e.gen # slot[e.worker].gen

\* The next event, of kind k; process_drain_transitions follows every event.
Handles(e, k) ==
    /\ InLoop("wait") /\ events # <<>>
    /\ e = Head(events) /\ e.kind = k /\ ~IsStaleEvent(e)
    /\ events' = Tail(events)
    /\ pc' = "pending"

AfterResult(e) == RecordPhaseCompletion(q, e.task, e.result)

DropStale ==
    /\ InLoop("wait") /\ events # <<>> /\ IsStaleEvent(Head(events))
    /\ events' = Tail(events)
    /\ pc' = "pending"
    /\ ProcessDrainTransitions(q, failed, pressure)
    /\ UNCHANGED <<slots, plan, left, stage, pass, todo, active, pend, failed, pressure,
                   unassigned, skipped, done, preempted>>

\* handle_task_completed, when the slot is restarted: after a success with work
\* left, unless workers are reused and restart_predicate has no objection.
CompletedThenRestart(e) ==
    LET w == e.worker
        r == AfterResult(e)
    IN  /\ Handles(e, "TaskCompleted")
        /\ e.result = "ok" /\ ~IsEmpty(r)
        /\ RecordResult(e.task, e.result)
        /\ \E x \in Restarts(Reclaimed(slot[w])) : Becomes(w, x)
        /\ pend' = pend \cup {w}
        /\ ProcessDrainTransitions(r, failed', pressure')
        /\ UNCHANGED <<plan, stage, pass, todo, active, unassigned, skipped, preempted>>

KeepsSlot(e) == ReuseWorkers \/ e.result # "ok" \/ IsEmpty(AfterResult(e))

\* When it gets its next task at once.
CompletedThenAssign(e) ==
    LET w == e.worker
        r == AfterResult(e)
    IN  /\ Handles(e, "TaskCompleted")
        /\ KeepsSlot(e)
        /\ RecordResult(e.task, e.result)
        /\ \E t \in Fitting(w, r) : \E x \in Attempts(w, Reclaimed(slot[w]), t, FALSE) :
            /\ Becomes(w, x)
            /\ stage' = StageAfter(x)
            /\ pend' = IF x.ok THEN pend ELSE pend \cup {w}
            /\ ProcessDrainTransitions(PoolAfter(r, t, x), failed', pressure')
        /\ UNCHANGED <<plan, pass, todo, active, unassigned, skipped, preempted>>

\* When there is none for it.
CompletedThenIdle(e) ==
    LET w == e.worker
        r == AfterResult(e)
    IN  /\ Handles(e, "TaskCompleted")
        /\ KeepsSlot(e) /\ MayFindNoFit(w, r)
        /\ RecordResult(e.task, e.result)
        /\ slot' = [slot EXCEPT ![w] = Reclaimed(@)]
        /\ active' = IF IsEmpty(r) THEN active \ {w} ELSE active
        /\ ProcessDrainTransitions(r, failed', pressure')
        /\ UNCHANGED <<proc, plan, left, stage, pass, todo, pend, unassigned, skipped, preempted>>

\* The worker is gone, or as good as gone.
HandleDisconnected(e) ==
    LET w == e.worker
    IN  /\ Handles(e, "Disconnected")
        /\ RecordResult(e.task, e.result)
        /\ \E x \in Restarts(Reclaimed(slot[w])) : Becomes(w, x)
        /\ pend' = pend \cup {w}
        /\ ProcessDrainTransitions(AfterResult(e), failed', pressure')
        /\ UNCHANGED <<plan, stage, pass, todo, active, unassigned, skipped, preempted>>

HandlePhaseUpdate(e) ==
    /\ Handles(e, "PhaseUpdate")
    /\ slot' = [slot EXCEPT ![e.worker].staged = TRUE]
    /\ ProcessDrainTransitions(q, failed, pressure)
    /\ UNCHANGED <<proc, plan, left, stage, pass, todo, active, pend, failed, pressure,
                   unassigned, skipped, done, preempted>>

-----------------------------------------------------------------------------
(* The sweep.  It waits its turn behind the events, and reads the workers' *)
(* memory off the loop: events may come in before it decides.  Of a kill   *)
(* and a timeout at most one falls to each sweep.                          *)

SweepStart ==
    /\ InLoop("wait") /\ events = <<>>
    /\ pc' = "sweep"
    /\ UNCHANGED <<slots, pools, events, plan, left, stage, pass, todo, active, pend>>

SweepQuiet ==
    /\ InLoop("sweep")
    /\ pc' = "pending"
    /\ UNCHANGED <<slots, pools, events, plan, left, stage, pass, todo, active, pend>>

\* mark_oom_killed: the slot is free for another task, by its own account.
MarkOomKilled(s) == [s EXCEPT !.task = NoTask, !.opp = TRUE]

\* check_resource_pressure may pick a busy slot: swap is in use and more than one
\* is busy, or it is the pressure phase.
MayPreempt == Cardinality(Busy) > 1 \/ stage = "pressure"

\* handle_resource_pressure_result, without fault.
PreemptNoFault(w) ==
    LET t == slot[w].task
    IN  /\ InLoop("sweep") /\ ~IsEmpty(q) /\ w \in Busy /\ MayPreempt
        /\ Spend("preempt")
        /\ slot' = [slot EXCEPT ![w] = MarkOomKilled(@)]
        /\ q' = Requeue(q, {t})
        /\ preempted' = preempted \cup {t}
        /\ pc' = "pending"
        /\ UNCHANGED <<proc, events, plan, stage, pass, todo, active, pend, failed, pressure,
                       unassigned, skipped, done, deferred>>

\* At fault, in the pressure phase: only the last resort comes back for more.
PreemptAtFault(w) ==
    LET t == slot[w].task
    IN  /\ InLoop("sweep") /\ ~IsEmpty(q) /\ w \in Busy /\ stage = "pressure"
        /\ Spend("preempt")
        /\ slot' = [slot EXCEPT ![w] = MarkOomKilled(@)]
        /\ q' = OnItemReleased(q, PhaseOf[t])
        /\ pressure' = IF Busy = {w} THEN Push(pressure, t) ELSE pressure
        /\ preempted' = preempted \cup {t}
        /\ pc' = "pending"
        /\ UNCHANGED <<proc, events, plan, stage, pass, todo, active, pend, failed,
                       unassigned, skipped, done, deferred>>

\* check_timeouts.
TimeOut(w) ==
    /\ InLoop("sweep") /\ slot[w].staged /\ left["timeout"] > 0
    /\ RecordResult(slot[w].task, "error")
    /\ q' = RecordPhaseCompletion(q, slot[w].task, "error")
    /\ \E x \in Restarts(slot[w]) :
        /\ x.used <= left["spawn"]
        /\ left' = [left EXCEPT !["spawn"] = @ - x.used, !["timeout"] = @ - 1]
        /\ slot' = [slot EXCEPT ![w] = x.slot]
        /\ proc' = [proc EXCEPT ![w] = x.proc]
    /\ pend' = pend \cup {w}
    /\ pc' = "pending"
    /\ UNCHANGED <<events, plan, stage, pass, todo, active, unassigned, skipped, deferred, preempted>>

-----------------------------------------------------------------------------
(* The phases after the main phase.                                        *)

ExitMainPhase ==
    /\ InLoop("exit") /\ stage = "main"
    /\ unassigned' = unassigned \cup q.queued
    /\ q' = DrainQueued
    /\ stage' = "retry" /\ pc' = "enter"
    /\ UNCHANGED <<slots, events, plan, left, pass, todo, active, pend, failed, pressure,
                   skipped, done, deferred, preempted>>

\* A retry pass: the failed tasks are queued again and the slots that are down
\* are restarted.
EnterRetryPass ==
    LET down == {w \in Worker : ~IsReady(slot[w])}
    IN  /\ InLoop("enter") /\ stage = "retry"
        /\ In(failed) # {} /\ pass < RetryPasses
        /\ q' = ReinjectAll(In(failed))
        /\ failed' = Bag0
        /\ pass' = pass + 1
        /\ \E o \in [down -> Outcome] :
            LET lost == Cardinality({w \in down : o[w] # "ready"})
                x(w) == Restart(slot[w], o[w])
            IN  /\ lost <= left["spawn"]
                /\ left' = [left EXCEPT !["spawn"] = @ - lost]
                /\ slot' = [w \in Worker |-> IF w \in down THEN x(w).slot ELSE slot[w]]
                /\ proc' = [w \in Worker |-> IF w \in down THEN x(w).proc ELSE proc[w]]
        /\ pend' = pend \cup down
        /\ EnterLoop(Worker)
        /\ UNCHANGED <<events, plan, stage, pressure, unassigned, skipped, done, deferred, preempted>>

\* What a retry pass could not place has failed again.
ExitRetryPass ==
    /\ InLoop("exit") /\ stage = "retry"
    /\ failed' = PushAll(failed, q.queued)
    /\ q' = DrainQueued
    /\ pc' = "enter"
    /\ UNCHANGED <<slots, events, plan, left, stage, pass, todo, active, pend, pressure,
                   unassigned, skipped, done, deferred, preempted>>

EndRetryPhase ==
    /\ InLoop("enter") /\ stage = "retry"
    /\ In(failed) = {} \/ pass = RetryPasses
    /\ stage' = "pressure"
    /\ UNCHANGED <<slots, pools, events, plan, left, pass, pc, todo, active, pend>>

EnterPressurePhase ==
    /\ InLoop("enter") /\ stage = "pressure" /\ In(pressure) # {}
    /\ q' = ReinjectAll(In(pressure))
    /\ pressure' = Bag0
    /\ EnterLoop({Worker0})
    /\ UNCHANGED <<slots, events, plan, left, stage, pass, pend, failed, unassigned,
                   skipped, done, deferred, preempted>>

EndPressurePhase ==
    /\ stage = "pressure"
    /\ pc = "exit" \/ (pc = "enter" /\ In(pressure) = {})
    /\ stage' = "unassigned" /\ pc' = "enter"
    /\ UNCHANGED <<slots, pools, events, plan, left, pass, todo, active, pend>>

\* The tasks in low are skipped for want of free memory, the rest run on Worker0.
EnterUnassignedPhase ==
    /\ InLoop("enter") /\ stage = "unassigned"
    /\ \E low \in SUBSET unassigned :
        /\ skipped' = skipped \cup low
        /\ q' = ReinjectAll(unassigned \ low)
        /\ IF low = unassigned THEN pc' = "flush" /\ UNCHANGED <<active, todo>>
                               ELSE EnterLoop({Worker0})
    /\ unassigned' = {}
    /\ UNCHANGED <<slots, events, plan, left, stage, pass, pend, failed, pressure,
                   done, deferred, preempted>>

\* What does not even fit the whole machine is reported as failed.
ReportUnfittable(f, T) == PushAll(f, T)

ExitUnassignedPhase ==
    /\ InLoop("exit") /\ stage = "unassigned"
    /\ failed' = ReportUnfittable(failed, q.queued)
    /\ q' = DrainQueued
    /\ pc' = "flush"
    /\ UNCHANGED <<slots, events, plan, left, stage, pass, todo, active, pend, pressure,
                   unassigned, skipped, done, deferred, preempted>>

\* flush_drain_transitions_final, whatever the side queues hold.
Finish ==
    /\ InLoop("flush")
    /\ stage' = "done"
    /\ q' = MarkPhasesDone([q EXCEPT !.drained = {}],
                           {p \in deferred \cup q.drained : q.state[p] = "Drained"})
    /\ deferred' = {}
    /\ UNCHANGED <<slots, events, plan, left, pass, pc, todo, active, pend, failed, pressure,
                   unassigned, skipped, done, preempted>>

Over == stage \in {"done", "panicked"} /\ UNCHANGED vars

-----------------------------------------------------------------------------
(* The workers, each seen through the poll task of its slot.               *)

\* poll_loop reads the last answer of slot w's worker and ends in state st.
Answers(w, k, result, st) ==
    /\ slot[w].poll = "running"
    /\ events' = Append(events, [kind |-> k, worker |-> w, gen |-> slot[w].gen,
                                 task |-> slot[w].run, result |-> result])
    /\ slot' = [slot EXCEPT ![w].poll = st]
    /\ UNCHANGED <<proc, pools, flow, plan>>

WorkerDone(w) == proc[w].alive /\ Answers(w, "TaskCompleted", "ok", "Idle") /\ UNCHANGED left

\* The task fails, in the worker's words or for want of memory ...
WorkerError(w) ==
    /\ proc[w].alive /\ Spend("error")
    /\ \E result \in {"error", "memory"} : Answers(w, "TaskCompleted", result, "Idle")

\* ... or so badly that the worker is not used again.
WorkerNonRecoverable(w) ==
    proc[w].alive /\ Spend("error") /\ Answers(w, "Disconnected", "error", "Stopped")

\* End of file from a dead worker; classify_disconnect may blame the memory.
WorkerLost(w) ==
    /\ ~proc[w].alive
    /\ \E result \in {"error", "memory"} : Answers(w, "Disconnected", result, "Stopped")
    /\ UNCHANGED left

\* The worker names its stage, once a task and only where a timeout may follow.
WorkerStage(w) ==
    LET e == [kind |-> "PhaseUpdate", worker |-> w, gen |-> slot[w].gen,
              task |-> NoTask, result |-> "ok"]
    IN  /\ slot[w].poll = "running" /\ proc[w].alive /\ left["timeout"] > 0
        /\ ~slot[w].staged /\ ~Contains(events, e)
        /\ events' = Append(events, e)
        /\ UNCHANGED <<slots, pools, flow, plan, left>>

WorkerCrash(w) ==
    /\ proc[w].alive /\ Spend("crash")
    /\ stage \notin {"done", "panicked"}
    /\ proc' = [proc EXCEPT ![w].alive = FALSE]
    /\ UNCHANGED <<slot, events, pools, flow, plan>>

WorkerAnswers(w) ==
    WorkerDone(w) \/ WorkerError(w) \/ WorkerNonRecoverable(w) \/ WorkerLost(w)

HandleEvent ==
    \/ DropStale
    \/ \E e \in ToSet(events) :
        \/ CompletedThenRestart(e) \/ CompletedThenAssign(e) \/ CompletedThenIdle(e)
        \/ HandleDisconnected(e) \/ HandlePhaseUpdate(e)

Sweep ==
    \/ SweepStart \/ SweepQuiet
    \/ \E w \in Worker : PreemptNoFault(w) \/ PreemptAtFault(w) \/ TimeOut(w)

Manager ==
    \/ \E w \in Worker :
        \/ AssignInitial(w) \/ NoInitial(w)
        \/ VisitNotReady(w) \/ VisitNoTasks(w) \/ VisitNoFit(w) \/ VisitAssign(w)
        \/ PendingAssign(w) \/ PendingNoFit(w)
    \/ SpinInitial \/ StartMainPhase \/ Visited \/ NextRound
    \/ HandleEvent \/ Sweep
    \/ ExitMainPhase
    \/ EnterRetryPass \/ ExitRetryPass \/ EndRetryPhase
    \/ EnterPressurePhase \/ EndPressurePhase
    \/ EnterUnassignedPhase \/ ExitUnassignedPhase
    \/ Finish \/ Over

Next ==
    \/ Manager
    \/ \E w \in Worker : WorkerAnswers(w) \/ WorkerStage(w) \/ WorkerCrash(w)

\* The manager's task is never parked for good, and a worker that has a task
\* answers or is lost.
Fairness ==
    /\ WF_vars(Manager)
    /\ \A w \in Worker : WF_vars(WorkerAnswers(w))

Spec == Init /\ [][Next]_vars /\ Fairness

-----------------------------------------------------------------------------

\* Every variable has its type, and no slot is used after its third failed
\* assignment in a row (handle_assignment_failure).
LocalTypeOK ==
    /\ q \in Pool
    /\ slot \in [Worker -> Slot]
    /\ \A w \in Worker : slot[w].fails = 3 => stage = "panicked"
    /\ proc \in [Worker -> [type : Type \cup {NoType}, alive : BOOLEAN]]
    /\ ToSet(events) \subseteq Event
    /\ stage \in Stage /\ pass \in 0..RetryPasses
    /\ pc \in {"assign", "wait", "sweep", "pending", "exit", "enter", "flush"}
    /\ todo \subseteq Worker /\ active \subseteq Worker /\ pend \subseteq Worker
    /\ {failed, pressure, done} \subseteq [Task -> Nat]
    /\ unassigned \subseteq Task /\ skipped \subseteq Task
    /\ deferred \subseteq Phase /\ preempted \subseteq Task
    /\ plan \in Plans /\ left \in [Fault -> Nat]

RunningOn(t) == {w \in Worker : slot[w].poll # "none" /\ slot[w].run = t}

Member(t, S) == IF t \in S THEN 1 ELSE 0

\* A task that is never taken from a slot under memory pressure is in one place
\* at any time: in the pool, on one slot, in one side queue, or accounted for
\* once.  Restarts, late answers, timeouts and failed assignments neither lose
\* nor double it.
EveryTaskInOnePlace ==
    \A t \in Task \ preempted :
        Member(t, q.queued) + Member(t, q.blocked) + Cardinality(RunningOn(t))
            + failed[t] + pressure[t] + Member(t, unassigned)
            + done[t] + Member(t, skipped) = 1

\* As long as no task was taken from its slot, the pool's in-flight count of a
\* phase is the number of slots that run its tasks: on_item_finished, requeue
\* and take_selected balance over every path, so a phase drains when it should.
InFlightIsExact ==
    preempted = {} =>
        \A p \in Phase : q.inFlight[p] =
            Cardinality({w \in Worker : slot[w].poll # "none" /\ PhaseOf[slot[w].run] = p})

\* A task runs in a worker program of its own type, through every restart and
\* change of type (ensure_worker_for_type, replace_worker_slot).
RunsInItsType ==
    \A w \in Worker : slot[w].poll = "running" => proc[w].type = TypeOf[slot[w].run]

\* Before the end of the run a phase ends (on_phase_end, mark_phase_done) only
\* when each of its tasks has completed or was skipped: one that waits in a side
\* queue for its retry holds the phase open.
PhaseEndsWithItsTasks ==
    [][\A p \in Phase :
        q.state[p] # "Done" /\ q'.state[p] = "Done" /\ stage' # "done" /\ preempted = {} =>
            \A t \in TasksOf(p) : done'[t] > 0 \/ t \in skipped']_vars

\* The comments say that when the retries are used up on_item_failed_permanent is
\* called for a failed task, which takes what depends on it out of the pool, and that
\* no task is dropped silently: if every respawn succeeds, then after the last phase every
\* task is completed, failed, given up under memory pressure, or skipped.
NothingLeftBehind ==
    (InLoop("flush") /\ plan["spawn"] = 0) =>
        \A t \in Task : done[t] + failed[t] + pressure[t] > 0 \/ t \in skipped

\* If every respawn succeeds, the run ends, whatever the workers do.
RunEnds == (plan["spawn"] = 0) => <>(stage = "done")
=============================================================================
