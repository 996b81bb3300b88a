------------------------- MODULE LocalManagerProofs -------------------------
(***************************************************************************)
(* A task runs in a worker program of its own type: proved for any number  *)
(* of slots, tasks and types and for any faults.                           *)
(*                                                                         *)
(* RunsInItsType speaks of slots at work only.  It is not inductive: a     *)
(* slot gets its next task without a new process when the type it carries  *)
(* is the task's.  Loaded adds that the type a slot carries is its         *)
(* process's wherever the slot may be handed a task again.                 *)
(***************************************************************************)
EXTENDS LocalManager, TLAPS

SlotRec ==
    [proto : {"Idle", "Transitioning", "Stopped"}, poll : {"none", "running", "Idle", "Stopped"},
     run : Task \cup {NoTask}, gen : Nat, task : Task \cup {NoTask}, type : Type \cup {NoType},
     ready : BOOLEAN, fails : Nat, opp : BOOLEAN, initial : BOOLEAN, staged : BOOLEAN]

ProcRec == [type : Type \cup {NoType}, alive : BOOLEAN]

OutcomeRec == [slot : SlotRec, proc : ProcRec, ok : BOOLEAN, panic : BOOLEAN, used : Nat]

\* The slot's handle s knows which program its process p is, unless it carries
\* no type or is down.
Loaded(s, p) ==
    /\ s.proto = "Idle" => s.type = NoType \/ p.type = s.type
    /\ s.poll = "Idle" => p.type = s.type
    /\ s.poll = "running" => p.type = s.type /\ s.type = TypeOf[s.run]

SlotInv ==
    /\ slot \in [Worker -> SlotRec]
    /\ proc \in [Worker -> ProcRec]
    /\ \A w \in Worker : Loaded(slot[w], proc[w])

-----------------------------------------------------------------------------

\* replace_worker_slot and ensure_worker_for_type leave a slot that knows its
\* program or is down, whether the spawn succeeds, dies or fails.
LEMMA RespawnLoads ==
    ASSUME NEW s \in SlotRec, NEW ty \in Type \cup {NoType}, NEW o \in Outcome
    PROVE  /\ Respawn(s, ty, o) \in OutcomeRec
           /\ Loaded(Respawn(s, ty, o).slot, Respawn(s, ty, o).proc)
           /\ Respawn(s, ty, o).ok => Respawn(s, ty, o).slot.type = ty
  <1> DEFINE S == IF o = "unspawned" THEN [Abandoned(s) EXCEPT !.ready = FALSE]
                                     ELSE FreshSlot(s.gen + 1, ty, o = "ready", s.fails)
             P == [type |-> ty, alive |-> o = "ready"]
  <1>1. S \in SlotRec /\ S.poll = "none"
    <2>1. CASE o = "unspawned"
      <3>1. Abandoned(s) \in SlotRec /\ Abandoned(s).poll = "none"
        BY DEF Abandoned, SlotRec
      <3> QED BY <2>1, <3>1 DEF SlotRec
    <2>2. CASE o # "unspawned"
      <3>1. s.gen + 1 \in Nat /\ s.fails \in Nat /\ (o = "ready") \in BOOLEAN
        BY DEF SlotRec
      <3> QED BY <2>2, <3>1 DEF FreshSlot, SlotRec
    <2> QED BY <2>1, <2>2
  <1>2. S.proto = "Idle" => S.type = ty /\ o # "unspawned"
    <2>1. CASE o = "unspawned"
      <3>1. Abandoned(s) \in SlotRec /\ Abandoned(s).proto # "Idle"
        BY DEF Abandoned, SlotRec
      <3> QED BY <2>1, <3>1 DEF SlotRec
    <2>2. CASE o # "unspawned"
      BY <2>2 DEF FreshSlot
    <2> QED BY <2>1, <2>2
  <1>3. o = "ready" => S.type = ty
    BY DEF FreshSlot
  <1>4. P \in ProcRec /\ P.type = ty
    BY DEF ProcRec
  <1>5. Loaded(S, P)
    BY <1>1, <1>2, <1>4 DEF Loaded
  <1>6. Respawn(s, ty, o) = [slot |-> S, proc |-> P, ok |-> o = "ready", panic |-> FALSE,
                             used |-> IF o = "ready" THEN 0 ELSE 1]
    BY DEF Respawn
  <1> HIDE DEF S, P
  <1>7. /\ Respawn(s, ty, o).slot = S /\ Respawn(s, ty, o).proc = P
        /\ Respawn(s, ty, o).ok = (o = "ready")
    BY <1>6
  <1>8. Respawn(s, ty, o) \in OutcomeRec
    <2>1. (IF o = "ready" THEN 0 ELSE 1) \in Nat /\ (o = "ready") \in BOOLEAN
      OBVIOUS
    <2> QED BY <2>1, <1>1, <1>4, <1>6 DEF OutcomeRec
  <1> QED BY <1>3, <1>5, <1>7, <1>8

\* A restart leaves such a slot.
LEMMA RestartLoads ==
    ASSUME NEW s \in SlotRec, NEW x \in Restarts(s)
    PROVE  x \in OutcomeRec /\ Loaded(x.slot, x.proc)
  <1>1. PICK o \in Outcome : x = Restart(s, o)
    BY DEF Restarts
  <1>2. (IF s.ready THEN s.type ELSE NoType) \in Type \cup {NoType}
    BY DEF SlotRec
  <1> QED BY <1>1, <1>2, RespawnLoads DEF Restart

\* So does ensure_worker_for_type, and the slot then carries the type asked for.
LEMMA EnsureLoads ==
    ASSUME NEW w, proc[w] \in ProcRec, NEW s \in SlotRec, Loaded(s, proc[w]),
           NEW ty \in Type, NEW x \in EnsureWorkerForType(w, s, ty)
    PROVE  /\ x \in OutcomeRec
           /\ Loaded(x.slot, x.proc)
           /\ x.ok => x.slot.type = ty
  <1>1. CASE s.type = ty
    <2>1. x = [slot |-> s, proc |-> proc[w], ok |-> TRUE, panic |-> FALSE, used |-> 0]
      BY <1>1 DEF EnsureWorkerForType
    <2>2. x.slot = s /\ x.proc = proc[w]
      BY <2>1
    <2>3. x \in OutcomeRec
      BY <2>1 DEF OutcomeRec
    <2> QED BY <1>1, <2>2, <2>3
  <1>2. CASE s.type # ty
    <2>1. PICK o \in Outcome : x = Respawn(s, ty, o)
      BY <1>2 DEF EnsureWorkerForType
    <2> QED BY <2>1, RespawnLoads
  <1> QED BY <1>1, <1>2

\* And so does handle_assignment_failure.
LEMMA FailureLoads ==
    ASSUME NEW x \in OutcomeRec, Loaded(x.slot, x.proc), NEW y \in AssignmentFailure(x)
    PROVE  y \in OutcomeRec /\ Loaded(y.slot, y.proc)
  <1> DEFINE s == [x.slot EXCEPT !.fails = @ + 1]
  <1>1. s \in SlotRec /\ Loaded(s, x.proc)
    BY DEF OutcomeRec, SlotRec, Loaded
  <1>2. CASE s.fails >= 3
    <2>1. y = [x EXCEPT !.slot = s, !.panic = TRUE]
      BY <1>2 DEF AssignmentFailure
    <2>2. y.slot = s /\ y.proc = x.proc /\ y \in OutcomeRec
      BY <1>1, <2>1 DEF OutcomeRec
    <2> QED BY <1>1, <2>2
  <1>3. CASE ~(s.fails >= 3)
    <2>1. PICK z \in Restarts(s) : y = [z EXCEPT !.ok = FALSE, !.used = @ + x.used]
      BY <1>3 DEF AssignmentFailure
    <2>2. z \in OutcomeRec /\ Loaded(z.slot, z.proc)
      BY <1>1, <2>1, RestartLoads
    <2>3. z.used + x.used \in Nat
      BY <2>2 DEF OutcomeRec
    <2>4. y.slot = z.slot /\ y.proc = z.proc
      BY <2>1, <2>2 DEF OutcomeRec
    <2>5. y \in OutcomeRec
      BY <2>1, <2>2, <2>3 DEF OutcomeRec
    <2> QED BY <2>2, <2>4, <2>5
  <1> QED BY <1>2, <1>3

\* Whatever comes of an attempt to assign t, the slot knows its program, and
\* it is t's if t is under way.
LEMMA AttemptLoads ==
    ASSUME NEW w, proc[w] \in ProcRec, NEW s \in SlotRec, Loaded(s, proc[w]),
           NEW t \in Task, NEW opp \in BOOLEAN, NEW x \in Attempts(w, s, t, opp)
    PROVE  x \in OutcomeRec /\ Loaded(x.slot, x.proc)
  <1> DEFINE loaded  == EnsureWorkerForType(w, s, TypeOf[t])
             bound   == {y \in loaded : y.ok /\ IsReady(y.slot)}
             refused == {[y EXCEPT !.ok = FALSE] : y \in loaded \ bound} \cup
                        {[y EXCEPT !.slot.proto = "Stopped", !.ok = FALSE] : y \in
                            {z \in bound : ~z.proc.alive}}
  <1>1. TypeOf[t] \in Type /\ NoType \notin Type
    BY SlotAssumption
  <1>2. \A y \in loaded : /\ y \in OutcomeRec /\ Loaded(y.slot, y.proc)
                          /\ y.ok => y.slot.type = TypeOf[t]
    BY <1>1, EnsureLoads
  <1>3. \A y \in refused : y \in OutcomeRec /\ Loaded(y.slot, y.proc)
    <2> SUFFICES ASSUME NEW y \in refused
                 PROVE  y \in OutcomeRec /\ Loaded(y.slot, y.proc)
      OBVIOUS
    <2>1. CASE \E z \in loaded : y = [z EXCEPT !.ok = FALSE]
      <3>1. PICK z \in loaded : y = [z EXCEPT !.ok = FALSE]
        BY <2>1
      <3>2. y \in OutcomeRec /\ y.slot = z.slot /\ y.proc = z.proc
        BY <1>2, <3>1 DEF OutcomeRec
      <3> QED BY <1>2, <3>1, <3>2
    <2>2. CASE \E z \in loaded : y = [z EXCEPT !.slot.proto = "Stopped", !.ok = FALSE]
      <3>1. PICK z \in loaded : y = [z EXCEPT !.slot.proto = "Stopped", !.ok = FALSE]
        BY <2>2
      <3>2. z \in OutcomeRec /\ Loaded(z.slot, z.proc)
        BY <1>2
      <3>3. [z.slot EXCEPT !.proto = "Stopped"] \in SlotRec
        BY <3>2 DEF OutcomeRec, SlotRec
      <3>4. y.slot = [z.slot EXCEPT !.proto = "Stopped"] /\ y.proc = z.proc
        BY <3>1, <3>2 DEF OutcomeRec
      <3>5. y \in OutcomeRec
        BY <3>1, <3>2, <3>3 DEF OutcomeRec
      <3>6. Loaded([z.slot EXCEPT !.proto = "Stopped"], z.proc)
        BY <3>2 DEF OutcomeRec, SlotRec, Loaded
      <3> QED BY <3>4, <3>5, <3>6
    <2> QED BY <2>1, <2>2
  <1>4. CASE \E y \in bound : x = [y EXCEPT !.slot = Assigned(@, t, opp)]
    <2>1. PICK y \in bound : x = [y EXCEPT !.slot = Assigned(@, t, opp)]
      BY <1>4
    <2>2. /\ y \in OutcomeRec /\ y.slot.type = TypeOf[t]
          /\ y.slot.proto = "Idle" /\ y.proc.type = y.slot.type
      BY <1>1, <1>2 DEF IsReady, Loaded
    <2>3. /\ Assigned(y.slot, t, opp) \in SlotRec
          /\ Loaded(Assigned(y.slot, t, opp), y.proc)
      BY <2>2 DEF Assigned, SlotRec, OutcomeRec, Loaded
    <2>4. x \in OutcomeRec /\ x.slot = Assigned(y.slot, t, opp) /\ x.proc = y.proc
      BY <2>1, <2>2, <2>3 DEF OutcomeRec
    <2> QED BY <2>3, <2>4
  <1>5. CASE \E y \in refused : x \in AssignmentFailure(y)
    BY <1>3, <1>5, FailureLoads
  <1>6. \/ \E y \in bound : x = [y EXCEPT !.slot = Assigned(@, t, opp)]
        \/ \E y \in refused : x \in AssignmentFailure(y)
    BY DEF Attempts
  <1> QED BY <1>4, <1>5, <1>6

-----------------------------------------------------------------------------

\* A slot whose poll task was reclaimed (reclaim_protocol, clear_task).
LEMMA ReclaimedLoads ==
    ASSUME NEW s \in SlotRec, NEW p \in ProcRec, Loaded(s, p)
    PROVE  Reclaimed(s) \in SlotRec /\ Loaded(Reclaimed(s), p)
  <1>1. CASE s.poll \in {"none", "running"}
    BY <1>1 DEF Reclaimed, SlotRec, Loaded
  <1>2. CASE s.poll \in {"Idle", "Stopped"}
    BY <1>2 DEF Reclaimed, SlotRec, Loaded
  <1> QED BY <1>1, <1>2 DEF SlotRec

\* One slot takes on an outcome that knows its program.
LEMMA BecomesKeeps ==
    ASSUME SlotInv, NEW w, NEW x,
           w \in Worker => x \in OutcomeRec /\ Loaded(x.slot, x.proc),
           slot' = [slot EXCEPT ![w] = x.slot],
           proc' = [proc EXCEPT ![w] = x.proc]
    PROVE  SlotInv'
  <1>1. CASE w \in Worker
    <2>1. x.slot \in SlotRec /\ x.proc \in ProcRec /\ Loaded(x.slot, x.proc)
      BY <1>1 DEF OutcomeRec
    <2>2. slot' \in [Worker -> SlotRec] /\ proc' \in [Worker -> ProcRec]
      BY <2>1 DEF SlotInv
    <2>3. ASSUME NEW v \in Worker PROVE Loaded(slot'[v], proc'[v])
      <3>1. CASE v = w
        <4>1. slot'[v] = x.slot /\ proc'[v] = x.proc
          BY <1>1, <3>1 DEF SlotInv
        <4> QED BY <2>1, <4>1
      <3>2. CASE v # w
        <4>1. slot'[v] = slot[v] /\ proc'[v] = proc[v]
          BY <3>2 DEF SlotInv
        <4> QED BY <4>1 DEF SlotInv
      <3> QED BY <3>1, <3>2
    <2> QED BY <2>2, <2>3 DEF SlotInv
  <1>2. CASE w \notin Worker
    <2>1. slot' = slot /\ proc' = proc
      BY <1>2 DEF SlotInv
    <2> QED BY <2>1 DEF SlotInv
  <1> QED BY <1>1, <1>2

\* One slot changes beside its process.
LEMMA SlotKeeps ==
    ASSUME SlotInv, NEW w, NEW s,
           w \in Worker => s \in SlotRec /\ Loaded(s, proc[w]),
           slot' = [slot EXCEPT ![w] = s],
           proc' = proc
    PROVE  SlotInv'
  <1>1. slot' \in [Worker -> SlotRec]
    BY DEF SlotInv
  <1>2. ASSUME NEW v \in Worker PROVE Loaded(slot'[v], proc[v])
    <2>1. CASE v = w
      <3>1. slot'[v] = s
        BY <2>1 DEF SlotInv
      <3> QED BY <2>1, <3>1
    <2>2. CASE v # w
      <3>1. slot'[v] = slot[v]
        BY <2>2 DEF SlotInv
      <3> QED BY <3>1 DEF SlotInv
    <2> QED BY <2>1, <2>2
  <1> QED BY <1>1, <1>2 DEF SlotInv

\* WorkerPool::initialize: the first processes carry no type and run no task.
THEOREM InitSlots == Init => SlotInv
  <1> SUFFICES ASSUME Init PROVE SlotInv
    OBVIOUS
  <1>1. PICK dead : /\ slot = [w \in Worker |-> FreshSlot(0, NoType, w \notin dead, 0)]
                    /\ proc = [w \in Worker |-> [type |-> NoType, alive |-> w \notin dead]]
    BY DEF Init
  <1>2. ASSUME NEW w \in Worker
        PROVE  /\ FreshSlot(0, NoType, w \notin dead, 0) \in SlotRec
               /\ FreshSlot(0, NoType, w \notin dead, 0).type = NoType
               /\ FreshSlot(0, NoType, w \notin dead, 0).poll = "none"
    <2>1. (w \notin dead) \in BOOLEAN
      OBVIOUS
    <2> QED BY <2>1 DEF FreshSlot, SlotRec
  <1>3. ASSUME NEW w \in Worker
        PROVE  [type |-> NoType, alive |-> w \notin dead] \in ProcRec
    BY DEF ProcRec
  <1>4. slot \in [Worker -> SlotRec] /\ proc \in [Worker -> ProcRec]
    BY <1>1, <1>2, <1>3
  <1>5. ASSUME NEW w \in Worker PROVE Loaded(slot[w], proc[w])
    BY <1>1, <1>2 DEF Loaded
  <1> QED BY <1>4, <1>5 DEF SlotInv

-----------------------------------------------------------------------------
(* The steps.                                                              *)

\* The manager's assignments, in run_initial_assignments and in the worker loop.
LEMMA AssignSteps ==
    ASSUME SlotInv, NEW w \in Worker,
           \/ AssignInitial(w) \/ NoInitial(w) \/ VisitAssign(w) \/ PendingAssign(w)
    PROVE  SlotInv'
  <1>0. slot[w] \in SlotRec /\ proc[w] \in ProcRec /\ Loaded(slot[w], proc[w])
    BY DEF SlotInv
  <1>1. CASE AssignInitial(w)
    <2> DEFINE opp(t) == AssignedTotal + Estimate[t] > MaxResources
    <2>1. PICK t \in Task : \E x \in Attempts(w, slot[w], t, opp(t)) : Becomes(w, x)
      BY <1>1 DEF AssignInitial, Fitting, View
    <2>2. opp(t) \in BOOLEAN
      OBVIOUS
    <2> HIDE DEF opp
    <2>3. PICK x \in Attempts(w, slot[w], t, opp(t)) : Becomes(w, x)
      BY <2>1
    <2>4. x \in OutcomeRec /\ Loaded(x.slot, x.proc)
      BY <1>0, <2>2, AttemptLoads
    <2> QED BY <2>3, <2>4, BecomesKeeps DEF Becomes
  <1>2. CASE NoInitial(w)
    <2>1. /\ [slot[w] EXCEPT !.initial = TRUE] \in SlotRec
          /\ Loaded([slot[w] EXCEPT !.initial = TRUE], proc[w])
      BY <1>0 DEF SlotRec, Loaded
    <2>2. slot' = [slot EXCEPT ![w] = [slot[w] EXCEPT !.initial = TRUE]] /\ proc' = proc
      BY <1>2 DEF NoInitial
    <2> QED BY <2>1, <2>2, SlotKeeps
  <1>3. CASE VisitAssign(w) \/ PendingAssign(w)
    <2>1. PICK t \in Task : \E x \in Attempts(w, slot[w], t, FALSE) : Becomes(w, x)
      BY <1>3 DEF VisitAssign, PendingAssign, TryAssign, Fitting, View
    <2>2. PICK x \in Attempts(w, slot[w], t, FALSE) : Becomes(w, x)
      BY <2>1
    <2>3. x \in OutcomeRec /\ Loaded(x.slot, x.proc)
      BY <1>0, AttemptLoads
    <2> QED BY <2>2, <2>3, BecomesKeeps DEF Becomes
  <1> QED BY <1>1, <1>2, <1>3

\* handle_event.
LEMMA EventSteps ==
    ASSUME SlotInv, NEW e,
           \/ CompletedThenRestart(e) \/ CompletedThenAssign(e) \/ CompletedThenIdle(e)
           \/ HandleDisconnected(e) \/ HandlePhaseUpdate(e)
    PROVE  SlotInv'
  <1> DEFINE w == e.worker
  <1>0. w \in Worker => /\ slot[w] \in SlotRec /\ proc[w] \in ProcRec /\ Loaded(slot[w], proc[w])
                        /\ Reclaimed(slot[w]) \in SlotRec /\ Loaded(Reclaimed(slot[w]), proc[w])
    BY ReclaimedLoads DEF SlotInv
  <1>1. CASE CompletedThenRestart(e) \/ HandleDisconnected(e)
    <2>1. PICK x \in Restarts(Reclaimed(slot[w])) : Becomes(w, x)
      BY <1>1 DEF CompletedThenRestart, HandleDisconnected
    <2>2. w \in Worker => x \in OutcomeRec /\ Loaded(x.slot, x.proc)
      BY <1>0, RestartLoads
    <2> QED BY <2>1, <2>2, BecomesKeeps DEF Becomes
  <1>2. CASE CompletedThenAssign(e)
    <2>1. PICK t \in Task : \E x \in Attempts(w, Reclaimed(slot[w]), t, FALSE) : Becomes(w, x)
      BY <1>2 DEF CompletedThenAssign, Fitting, View
    <2>2. PICK x \in Attempts(w, Reclaimed(slot[w]), t, FALSE) : Becomes(w, x)
      BY <2>1
    <2>3. w \in Worker => x \in OutcomeRec /\ Loaded(x.slot, x.proc)
      BY <1>0, AttemptLoads
    <2> QED BY <2>2, <2>3, BecomesKeeps DEF Becomes
  <1>3. CASE CompletedThenIdle(e)
    <2>1. slot' = [slot EXCEPT ![w] = Reclaimed(slot[w])] /\ proc' = proc
      BY <1>3 DEF CompletedThenIdle
    <2> QED BY <1>0, <2>1, SlotKeeps
  <1>4. CASE HandlePhaseUpdate(e)
    <2>1. w \in Worker => /\ [slot[w] EXCEPT !.staged = TRUE] \in SlotRec
                          /\ Loaded([slot[w] EXCEPT !.staged = TRUE], proc[w])
      BY <1>0 DEF SlotRec, Loaded
    <2>2. slot' = [slot EXCEPT ![w] = [slot[w] EXCEPT !.staged = TRUE]] /\ proc' = proc
      BY <1>4 DEF HandlePhaseUpdate
    <2> QED BY <2>1, <2>2, SlotKeeps
  <1> QED BY <1>1, <1>2, <1>3, <1>4

\* The sweep: memory pressure and timeouts.
LEMMA SweepSteps ==
    ASSUME SlotInv, NEW w \in Worker,
           PreemptNoFault(w) \/ PreemptAtFault(w) \/ TimeOut(w)
    PROVE  SlotInv'
  <1>0. slot[w] \in SlotRec /\ proc[w] \in ProcRec /\ Loaded(slot[w], proc[w])
    BY DEF SlotInv
  <1>1. CASE PreemptNoFault(w) \/ PreemptAtFault(w)
    <2>1. MarkOomKilled(slot[w]) \in SlotRec /\ Loaded(MarkOomKilled(slot[w]), proc[w])
      BY <1>0 DEF MarkOomKilled, SlotRec, Loaded
    <2>2. slot' = [slot EXCEPT ![w] = MarkOomKilled(slot[w])] /\ proc' = proc
      BY <1>1 DEF PreemptNoFault, PreemptAtFault
    <2> QED BY <2>1, <2>2, SlotKeeps
  <1>2. CASE TimeOut(w)
    <2>1. PICK x \in Restarts(slot[w]) : /\ slot' = [slot EXCEPT ![w] = x.slot]
                                         /\ proc' = [proc EXCEPT ![w] = x.proc]
      BY <1>2 DEF TimeOut
    <2>2. x \in OutcomeRec /\ Loaded(x.slot, x.proc)
      BY <1>0, RestartLoads
    <2> QED BY <2>1, <2>2, BecomesKeeps
  <1> QED BY <1>1, <1>2

\* A retry pass restarts every slot that is down.
LEMMA RetryStep ==
    ASSUME SlotInv, EnterRetryPass
    PROVE  SlotInv'
  <1> DEFINE down == {w \in Worker : ~IsReady(slot[w])}
  <1>1. PICK o \in [down -> Outcome] :
            /\ slot' = [w \in Worker |-> IF w \in down THEN Restart(slot[w], o[w]).slot ELSE slot[w]]
            /\ proc' = [w \in Worker |-> IF w \in down THEN Restart(slot[w], o[w]).proc ELSE proc[w]]
    BY DEF EnterRetryPass
  <1>2. ASSUME NEW w \in down
        PROVE  Restart(slot[w], o[w]) \in OutcomeRec
               /\ Loaded(Restart(slot[w], o[w]).slot, Restart(slot[w], o[w]).proc)
    <2>1. slot[w] \in SlotRec /\ Restart(slot[w], o[w]) \in Restarts(slot[w])
      BY DEF SlotInv, Restarts
    <2> QED BY <2>1, RestartLoads
  <1>3. slot' \in [Worker -> SlotRec] /\ proc' \in [Worker -> ProcRec]
    BY <1>1, <1>2 DEF SlotInv, OutcomeRec
  <1>4. ASSUME NEW w \in Worker PROVE Loaded(slot'[w], proc'[w])
    <2>1. CASE w \in down
      <3>1. slot'[w] = Restart(slot[w], o[w]).slot /\ proc'[w] = Restart(slot[w], o[w]).proc
        BY <1>1, <2>1
      <3> QED BY <1>2, <2>1, <3>1
    <2>2. CASE w \notin down
      <3>1. slot'[w] = slot[w] /\ proc'[w] = proc[w]
        BY <1>1, <2>2
      <3> QED BY <3>1 DEF SlotInv
    <2> QED BY <2>1, <2>2
  <1> QED BY <1>3, <1>4 DEF SlotInv

\* What a worker does.
LEMMA WorkerSteps ==
    ASSUME SlotInv, NEW w \in Worker,
           WorkerAnswers(w) \/ WorkerStage(w) \/ WorkerCrash(w)
    PROVE  SlotInv'
  <1>0. slot[w] \in SlotRec /\ proc[w] \in ProcRec /\ Loaded(slot[w], proc[w])
    BY DEF SlotInv
  <1>1. CASE WorkerAnswers(w)
    <2>1. PICK st \in {"Idle", "Stopped"} : /\ slot[w].poll = "running"
                                            /\ slot' = [slot EXCEPT ![w] = [slot[w] EXCEPT !.poll = st]]
                                            /\ proc' = proc
      BY <1>1 DEF WorkerAnswers, WorkerDone, WorkerError, WorkerNonRecoverable, WorkerLost, Answers
    <2>2. /\ [slot[w] EXCEPT !.poll = st] \in SlotRec
          /\ Loaded([slot[w] EXCEPT !.poll = st], proc[w])
      BY <1>0, <2>1 DEF SlotRec, Loaded
    <2> QED BY <2>1, <2>2, SlotKeeps
  <1>2. CASE WorkerStage(w)
    BY <1>2 DEF WorkerStage, slots, SlotInv
  <1>3. CASE WorkerCrash(w)
    <2>1. slot' = slot /\ proc' = [proc EXCEPT ![w] = [proc[w] EXCEPT !.alive = FALSE]]
      BY <1>3 DEF WorkerCrash
    <2>2. [proc[w] EXCEPT !.alive = FALSE] \in ProcRec
          /\ [proc[w] EXCEPT !.alive = FALSE].type = proc[w].type
      BY <1>0 DEF ProcRec
    <2>3. proc' \in [Worker -> ProcRec] /\ \A v \in Worker : proc'[v].type = proc[v].type
      BY <2>1, <2>2 DEF SlotInv
    <2> QED BY <2>1, <2>3 DEF SlotInv, Loaded
  <1> QED BY <1>1, <1>2, <1>3

\* Every step keeps the invariant.
THEOREM NextSlots == SlotInv /\ [Next]_vars => SlotInv'
  <1> SUFFICES ASSUME SlotInv, [Next]_vars PROVE SlotInv'
    OBVIOUS
  <1>1. CASE UNCHANGED slots
    BY <1>1 DEF slots, SlotInv
  <1>2. CASE \E w \in Worker : \/ AssignInitial(w) \/ NoInitial(w)
                               \/ VisitAssign(w) \/ PendingAssign(w)
    BY <1>2, AssignSteps
  <1>3. CASE \E e : \/ CompletedThenRestart(e) \/ CompletedThenAssign(e) \/ CompletedThenIdle(e)
                    \/ HandleDisconnected(e) \/ HandlePhaseUpdate(e)
    BY <1>3, EventSteps
  <1>4. CASE \E w \in Worker : PreemptNoFault(w) \/ PreemptAtFault(w) \/ TimeOut(w)
    BY <1>4, SweepSteps
  <1>5. CASE EnterRetryPass
    BY <1>5, RetryStep
  <1>6. CASE \E w \in Worker : WorkerAnswers(w) \/ WorkerStage(w) \/ WorkerCrash(w)
    BY <1>6, WorkerSteps
  <1>7. ASSUME NEW w \in Worker, \/ VisitNotReady(w) \/ VisitNoTasks(w)
                                 \/ VisitNoFit(w) \/ PendingNoFit(w)
        PROVE  UNCHANGED slots
    BY <1>7 DEF VisitNotReady, VisitNoTasks, VisitNoFit, PendingNoFit
  <1>8. ASSUME \/ SpinInitial \/ StartMainPhase \/ Visited \/ NextRound \/ DropStale
               \/ SweepStart \/ SweepQuiet \/ ExitMainPhase \/ ExitRetryPass \/ EndRetryPhase
               \/ EnterPressurePhase \/ EndPressurePhase \/ EnterUnassignedPhase
               \/ ExitUnassignedPhase \/ Finish \/ Over \/ UNCHANGED vars
        PROVE  UNCHANGED slots
    BY <1>8 DEF SpinInitial, StartMainPhase, Visited, NextRound, DropStale, SweepStart, SweepQuiet,
                ExitMainPhase, ExitRetryPass, EndRetryPhase, EnterPressurePhase, EndPressurePhase,
                EnterUnassignedPhase, ExitUnassignedPhase, Finish, Over, vars
  <1> QED
    BY <1>1, <1>2, <1>3, <1>4, <1>5, <1>6, <1>7, <1>8 DEF Next, Manager, HandleEvent, Sweep

\* A task runs in a worker program of its own type, whatever is restarted, lost,
\* timed out or respawned for another type (ensure_worker_for_type,
\* replace_worker_slot), for any slots, tasks, types and faults.
THEOREM RunsInItsTypeHolds == Spec => []RunsInItsType
  <1>1. SlotInv => RunsInItsType
    BY DEF SlotInv, Loaded, RunsInItsType
  <1> QED BY <1>1, InitSlots, NextSlots, PTL DEF Spec
=============================================================================
