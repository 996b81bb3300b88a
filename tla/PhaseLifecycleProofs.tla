------------------------- MODULE PhaseLifecycleProofs -------------------------
(***************************************************************************)
(* Work runs in order, and a success is for good: in every environment.    *)
(*                                                                         *)
(* OrderInv is inductive.  It says of every task that has begun, in a      *)
(* worker's hands, in a report on its way or in a failure to retry, that it *)
(* may begin, and of the pool that it queues nothing else (InOrder).  A    *)
(* success must not be undone, or the tasks that rest on it would have     *)
(* begun too early: so the key set of the terminals knows every success,   *)
(* and a setup task, which is in no key set, is never in the pool or in    *)
(* flight once it has completed.                                           *)
(***************************************************************************)
EXTENDS PhaseLifecycle, FiniteSetTheorems, TLAPS

\* The tasks and their edges are the same in both pools.
SameWork(q, r) ==
    /\ r.queued = q.queued /\ r.blocked = q.blocked
    /\ r.unmet = q.unmet /\ r.waiters = q.waiters

\* The outcomes are the same.
SameEnds(q, r) ==
    r.done = q.done /\ r.failed = q.failed /\ r.soft = q.soft

\* The states of the phases and the drain edges are the same.
SameFlow(q, r) ==
    r.state = q.state /\ r.drained = q.drained

\* A drain transition ends in a state of phases, and moves only a phase that is open.
LEMMA DrainStateType ==
    ASSUME NEW q \in Pool, NEW p \in Phase
    PROVE  /\ DrainState(q, p) \in PhaseState
           /\ DrainState(q, p) # q.state[p] => q.state[p] \in Open /\ DrainState(q, p) \in {"Active", "Draining", "Drained"}
  <1>1. q.state[p] \in PhaseState
    BY DEF Pool
  <1> QED BY <1>1 DEF DrainState, PhaseState, Open

\* transition_drain over the phases P.
Drains(q, P, r) ==
    /\ r \in Pool /\ SameWork(q, r) /\ SameEnds(q, r) /\ r.inFlight = q.inFlight
    /\ \A p \in Phase : r.state[p] = IF p \in P THEN DrainState(q, p) ELSE q.state[p]
    /\ r.drained = q.drained \cup {p \in P : DrainState(q, p) = "Drained" /\ q.state[p] # "Drained"}

\* transition_drain changes the states of the phases it looks at and the drain edges,
\* nothing else.
LEMMA DrainFields ==
    ASSUME NEW q \in Pool, NEW P \in SUBSET Phase, NEW r, r = TransitionDrain(q, P)
    PROVE  Drains(q, P, r)
  <1> DEFINE st == [p \in Phase |-> IF p \in P THEN DrainState(q, p) ELSE q.state[p]]
             dr == q.drained \cup {p \in P : DrainState(q, p) = "Drained" /\ q.state[p] # "Drained"}
  <1>1. st \in [Phase -> PhaseState] /\ dr \in SUBSET Phase
    BY DrainStateType DEF Pool
  <1>2. r = [q EXCEPT !.state = st, !.drained = dr]
    BY DEF TransitionDrain
  <1> HIDE DEF dr
  <1>3. r \in Pool /\ r.state = st /\ r.drained = dr
    BY <1>1, <1>2 DEF Pool
  <1>4. SameWork(q, r) /\ SameEnds(q, r) /\ r.inFlight = q.inFlight
    BY <1>2 DEF Pool, SameWork, SameEnds
  <1> QED BY <1>3, <1>4 DEF dr, Drains

\* mark_phase_done, with the activation behind it.
Marks(q, P, r) ==
    /\ r \in Pool /\ SameWork(q, r) /\ SameEnds(q, r)
    /\ r.inFlight = q.inFlight /\ r.drained = q.drained
    /\ \A p \in Phase : r.state[p] =
         IF p \in P THEN "Done"
         ELSE IF q.state[p] = "Blocked"
                 /\ \A d \in PhaseDeps[p] : d \in P \/ q.state[d] = "Done"
              THEN "Active" ELSE q.state[p]

\* mark_phase_done closes phases and opens those that waited for no others, and changes
\* nothing else.
LEMMA MarkFields ==
    ASSUME NEW q \in Pool, NEW P \in SUBSET Phase, NEW r, r = MarkPhasesDone(q, P)
    PROVE  Marks(q, P, r)
  <1> DEFINE s1 == [p \in Phase |-> IF p \in P THEN "Done" ELSE q.state[p]]
             m  == [q EXCEPT !.state = s1]
             s2 == [p \in Phase |-> IF s1[p] = "Blocked" /\ PredecessorsDone(m, p)
                                    THEN "Active" ELSE s1[p]]
  <1>1. q.state \in [Phase -> PhaseState]
    BY DEF Pool
  <1>2. s1 \in [Phase -> PhaseState]
    BY <1>1 DEF PhaseState
  <1>3. m \in Pool /\ m.state = s1 /\ SameWork(q, m) /\ SameEnds(q, m)
        /\ m.inFlight = q.inFlight /\ m.drained = q.drained
    BY <1>2 DEF Pool, SameWork, SameEnds
  <1>4. s2 \in [Phase -> PhaseState]
    BY <1>2 DEF PhaseState
  <1>5. r = [m EXCEPT !.state = s2]
    BY <1>3 DEF MarkPhasesDone, ActivatePhases
  <1>6. \A p \in Phase : PredecessorsDone(m, p) <=> \A d \in PhaseDeps[p] : d \in P \/ q.state[d] = "Done"
    BY <1>3, PhaseDepsAssumption DEF PredecessorsDone
  <1> HIDE DEF m
  <1>7. r \in Pool /\ r.state = s2 /\ SameWork(m, r) /\ SameEnds(m, r)
        /\ r.inFlight = m.inFlight /\ r.drained = m.drained
    BY <1>3, <1>4, <1>5 DEF Pool, SameWork, SameEnds
  <1>8. \A p \in Phase : r.state[p] =
                IF p \in P THEN "Done"
                ELSE IF q.state[p] = "Blocked"
                        /\ \A d \in PhaseDeps[p] : d \in P \/ q.state[d] = "Done"
                     THEN "Active" ELSE q.state[p]
    BY <1>6, <1>7
  <1> QED BY <1>3, <1>7, <1>8 DEF SameWork, SameEnds, Marks

\* commit_item.
Commits(q, T, dead, waiting, r) ==
    /\ r \in Pool /\ r.state = q.state /\ r.drained = q.drained
    /\ r.inFlight = q.inFlight /\ r.done = q.done /\ r.soft = q.soft
    /\ r.failed = q.failed \cup dead
    /\ r.queued = q.queued \cup (T \ (dead \cup waiting))
    /\ r.blocked = q.blocked \cup waiting
    /\ \A t \in Task : r.unmet[t] = IF t \in waiting THEN UnresolvedDeps(q, t) ELSE q.unmet[t]
    /\ \A d \in Task : r.waiters[d] = q.waiters[d] \cup {t \in waiting : d \in UnresolvedDeps(q, t)}

\* commit_items: who fails with a prerequisite, who waits, who is queued, and the edges
\* in between.
LEMMA CommitFields ==
    ASSUME NEW q \in Pool, NEW T \in SUBSET Task, NEW r, r = CommitItems(q, T),
           NEW dead, dead = {t \in T : DependsOn[t] \cap q.failed # {}},
           NEW waiting, waiting = {t \in T \ dead : UnresolvedDeps(q, t) # {}}
    PROVE  Commits(q, T, dead, waiting, r)
  <1> DEFINE un == [t \in Task |-> IF t \in waiting THEN UnresolvedDeps(q, t) ELSE q.unmet[t]]
             wa == [d \in Task |-> q.waiters[d] \cup {t \in waiting : d \in UnresolvedDeps(q, t)}]
  <1>1. /\ q.unmet \in [Task -> SUBSET Task] /\ q.waiters \in [Task -> SUBSET Task]
        /\ q.failed \in SUBSET Task /\ q.queued \in SUBSET Task /\ q.blocked \in SUBSET Task
    BY DEF Pool
  <1>2. dead \in SUBSET Task /\ waiting \in SUBSET Task
    OBVIOUS
  <1>3. \A t \in Task : UnresolvedDeps(q, t) \in SUBSET Task
    BY DependsOnAssumption DEF UnresolvedDeps
  <1>4. un \in [Task -> SUBSET Task]
    BY <1>1, <1>3
  <1>5. wa \in [Task -> SUBSET Task]
    BY <1>1, <1>2
  <1> DEFINE fa == q.failed \cup dead
             qu == q.queued \cup (T \ (dead \cup waiting))
             bl == q.blocked \cup waiting
  <1>6. r = [q EXCEPT !.failed = fa, !.queued = qu, !.blocked = bl, !.unmet = un, !.waiters = wa]
    BY DEF CommitItems
  <1>9. fa \in SUBSET Task /\ qu \in SUBSET Task /\ bl \in SUBSET Task
    BY <1>1, <1>2
  <1> HIDE DEF un, wa, fa, qu, bl
  <1>7. /\ r.failed = fa /\ r.queued = qu
        /\ r.blocked = bl /\ r.unmet = un /\ r.waiters = wa
        /\ r.state = q.state /\ r.drained = q.drained
        /\ r.inFlight = q.inFlight /\ r.done = q.done /\ r.soft = q.soft
    BY <1>6 DEF Pool
  <1>8. r \in Pool
    BY <1>4, <1>5, <1>6, <1>9 DEF Pool
  <1> QED BY <1>7, <1>8 DEF un, wa, fa, qu, bl, Commits

\* push_to_queue_head.
Pushes(q, T, r) ==
    /\ r \in Pool /\ SameEnds(q, r)
    /\ r.inFlight = q.inFlight /\ r.drained = q.drained
    /\ r.blocked = q.blocked /\ r.unmet = q.unmet /\ r.waiters = q.waiters
    /\ r.queued = q.queued \cup T
    /\ \A p \in Phase : r.state[p] = IF p \in Phases(T) /\ q.state[p] = "Draining"
                                     THEN "Active" ELSE q.state[p]

\* push_to_queue_head queues the tasks and wakes their draining phases.
LEMMA PushFields ==
    ASSUME NEW q \in Pool, NEW T \in SUBSET Task, NEW r, r = PushToQueueHead(q, T)
    PROVE  Pushes(q, T, r)
  <1> DEFINE qu == q.queued \cup T
             m  == [q EXCEPT !.queued = qu]
             st == [p \in Phase |-> IF p \in Phases(T) /\ q.state[p] = "Draining"
                                    THEN "Active" ELSE q.state[p]]
  <1>1. q.state \in [Phase -> PhaseState] /\ qu \in SUBSET Task
    BY DEF Pool
  <1>2. st \in [Phase -> PhaseState]
    BY <1>1 DEF PhaseState
  <1>3. m.state = q.state
    BY DEF Pool
  <1>4. r = [q EXCEPT !.queued = qu, !.state = st]
    BY <1>3 DEF PushToQueueHead, Reactivate, Pool
  <1> HIDE DEF qu, m
  <1>5. r \in Pool /\ r.state = st /\ r.queued = qu
    BY <1>1, <1>2, <1>4 DEF Pool
  <1>6. SameEnds(q, r) /\ r.inFlight = q.inFlight /\ r.drained = q.drained
        /\ r.blocked = q.blocked /\ r.unmet = q.unmet /\ r.waiters = q.waiters
    BY <1>4 DEF Pool, SameEnds
  <1> QED BY <1>5, <1>6 DEF qu, Pushes

\* A change of the counts alone.
Counts(q, n, r) ==
    /\ r \in Pool /\ SameWork(q, r) /\ SameEnds(q, r) /\ SameFlow(q, r)
    /\ r.inFlight = n

\* A new count in flight changes nothing but the count.
LEMMA CountFields ==
    ASSUME NEW q \in Pool, NEW n \in [Phase -> Nat], NEW r, r = [q EXCEPT !.inFlight = n]
    PROVE  Counts(q, n, r)
  BY DEF Pool, SameWork, SameEnds, SameFlow, Counts

Drops(q, p, r) ==
    /\ r \in Pool /\ SameWork(q, r) /\ SameEnds(q, r) /\ SameFlow(q, r)
    /\ \A o \in Phase : r.inFlight[o] = IF o = p /\ q.inFlight[p] # 0 THEN q.inFlight[o] - 1
                                                                    ELSE q.inFlight[o]

\* A count that is released goes down by one and stops at zero.
LEMMA DropFields ==
    ASSUME NEW q \in Pool, NEW p \in Phase, NEW r, r = DropInFlight(q, p)
    PROVE  Drops(q, p, r)
  <1> DEFINE n == [q.inFlight EXCEPT ![p] = IF @ = 0 THEN 0 ELSE @ - 1]
  <1>1. q.inFlight \in [Phase -> Nat]
    BY DEF Pool
  <1>2. n \in [Phase -> Nat]
    BY <1>1
  <1>3. r = [q EXCEPT !.inFlight = n]
    BY DEF DropInFlight
  <1>4. \A o \in Phase : n[o] = IF o = p /\ q.inFlight[p] # 0 THEN q.inFlight[o] - 1 ELSE q.inFlight[o]
    BY <1>1
  <1> HIDE DEF n
  <1> QED BY <1>2, <1>3, <1>4, CountFields DEF Counts, Drops

\* A task leaves the queue and is counted as in flight.
Taken(q, t) == MarkInFlight([q EXCEPT !.queued = @ \ {t}], PhaseOf[t])

Takes(q, t, r) ==
    /\ r \in Pool /\ SameEnds(q, r) /\ SameFlow(q, r)
    /\ r.blocked = q.blocked /\ r.unmet = q.unmet /\ r.waiters = q.waiters
    /\ r.queued = q.queued \ {t}
    /\ \A p \in Phase : r.inFlight[p] = IF p = PhaseOf[t] THEN q.inFlight[p] + 1
                                                          ELSE q.inFlight[p]

\* A task that is taken leaves the queue and counts as in flight.
LEMMA TakenFields ==
    ASSUME NEW q \in Pool, NEW t \in Task, NEW r, r = Taken(q, t)
    PROVE  Takes(q, t, r)
  <1> DEFINE qu == q.queued \ {t}
             n  == [q.inFlight EXCEPT ![PhaseOf[t]] = @ + 1]
  <1>1. q.inFlight \in [Phase -> Nat] /\ qu \in SUBSET Task /\ PhaseOf[t] \in Phase
    BY PhaseOfAssumption DEF Pool
  <1>2. n \in [Phase -> Nat]
    BY <1>1
  <1>3. \A p \in Phase : n[p] = IF p = PhaseOf[t] THEN q.inFlight[p] + 1 ELSE q.inFlight[p]
    BY <1>1
  <1>4. r = [q EXCEPT !.queued = qu, !.inFlight = n]
    BY DEF Taken, MarkInFlight, Pool
  <1> HIDE DEF qu, n
  <1>5. r \in Pool /\ r.queued = qu /\ r.inFlight = n
    BY <1>1, <1>2, <1>4 DEF Pool
  <1>6. SameEnds(q, r) /\ SameFlow(q, r)
        /\ r.blocked = q.blocked /\ r.unmet = q.unmet /\ r.waiters = q.waiters
    BY <1>4 DEF Pool, SameEnds, SameFlow
  <1> QED BY <1>3, <1>5, <1>6 DEF qu, Takes

\* Every set of tasks is finite and has a size.
LEMMA CountOf ==
    ASSUME NEW S \in SUBSET Task
    PROVE  IsFiniteSet(S) /\ Cardinality(S) \in Nat
  BY TaskAssumption, FS_Subset, FS_CardinalityType

Requeues(q, T, r) ==
    /\ r \in Pool /\ SameEnds(q, r) /\ r.drained = q.drained
    /\ r.blocked = q.blocked /\ r.unmet = q.unmet /\ r.waiters = q.waiters
    /\ r.queued = q.queued \cup T
    /\ \A p \in Phase : r.state[p] = IF p \in Phases(T) /\ q.state[p] = "Draining"
                                     THEN "Active" ELSE q.state[p]
    /\ \A p \in Phase : LET n == Cardinality(T \cap TasksOf(p))
                        IN  r.inFlight[p] = IF q.inFlight[p] < n THEN 0 ELSE q.inFlight[p] - n

\* requeue puts tasks back into the queue, wakes their phases and releases their
\* counts.
LEMMA RequeueFields ==
    ASSUME NEW q \in Pool, NEW T \in SUBSET Task, NEW r, r = Requeue(q, T)
    PROVE  Requeues(q, T, r)
  <1> DEFINE c(p) == Cardinality(T \cap TasksOf(p))
             n == [p \in Phase |-> IF q.inFlight[p] < c(p) THEN 0 ELSE q.inFlight[p] - c(p)]
             m == [q EXCEPT !.inFlight = n]
  <1>1. \A p \in Phase : c(p) \in Nat
    BY CountOf DEF TasksOf
  <1>2. q.inFlight \in [Phase -> Nat]
    BY DEF Pool
  <1> HIDE DEF c
  <1>3. n \in [Phase -> Nat]
    BY <1>1, <1>2
  <1>4. r = PushToQueueHead(m, T)
    BY DEF Requeue, c, Pool
  <1>5. \A p \in Phase : n[p] = IF q.inFlight[p] < c(p) THEN 0 ELSE q.inFlight[p] - c(p)
    OBVIOUS
  <1> HIDE DEF n
  <1>6. m \in Pool /\ SameWork(q, m) /\ SameEnds(q, m) /\ SameFlow(q, m) /\ m.inFlight = n
    BY <1>3, CountFields DEF Counts
  <1> HIDE DEF m
  <1>7. /\ r \in Pool /\ SameEnds(m, r)
        /\ r.inFlight = m.inFlight /\ r.drained = m.drained
        /\ r.blocked = m.blocked /\ r.unmet = m.unmet /\ r.waiters = m.waiters
        /\ r.queued = m.queued \cup T
        /\ \A p \in Phase : r.state[p] = IF p \in Phases(T) /\ m.state[p] = "Draining"
                                            THEN "Active" ELSE m.state[p]
    BY <1>4, <1>6, PushFields DEF Pushes
  <1> QED BY <1>5, <1>6, <1>7 DEF SameWork, SameEnds, SameFlow, c, Requeues

\* What ResolveCompletedDependents sets free.
Freed(q, t) == {u \in q.waiters[t] \cap q.blocked : q.unmet[u] # {} /\ q.unmet[u] \subseteq {t}}

Resolves(q, t, r) ==
    /\ r \in Pool /\ r.inFlight = q.inFlight
    /\ r.failed = q.failed /\ r.soft = q.soft /\ r.done = q.done \cup {t}
    /\ r.blocked = q.blocked \ Freed(q, t)
    /\ r.queued = q.queued \cup Freed(q, t)
    /\ r.drained = q.drained \ Phases(Freed(q, t))
    /\ \A u \in Task : r.unmet[u] = IF u \in q.waiters[t] THEN q.unmet[u] \ {t} ELSE q.unmet[u]
    /\ \A d \in Task : r.waiters[d] = IF d = t THEN {} ELSE q.waiters[d]
    /\ \A p \in Phase : r.state[p] = IF p \in Phases(Freed(q, t)) /\ q.state[p] = "Draining"
                                     THEN "Active" ELSE q.state[p]

\* resolve_completed_dependents queues those that waited for the task alone, and
\* shortens the waits of the others.
LEMMA ResolveFields ==
    ASSUME NEW q \in Pool, NEW t \in Task, NEW r, r = ResolveCompletedDependents(q, t)
    PROVE  Resolves(q, t, r)
  <1> DEFINE touched == {u \in q.waiters[t] : q.unmet[u] # {}}
             free    == {u \in touched \cap q.blocked : q.unmet[u] \subseteq {t}}
             do == q.done \cup {t}
             wa == [q.waiters EXCEPT ![t] = {}]
             un == [u \in Task |-> IF u \in touched THEN q.unmet[u] \ {t} ELSE q.unmet[u]]
             bl == q.blocked \ free
             dr == q.drained \ Phases(free)
             m  == [q EXCEPT !.done = do, !.waiters = wa, !.unmet = un, !.blocked = bl, !.drained = dr]
  <1>1. r = PushToQueueHead(m, free)
    BY DEF ResolveCompletedDependents, Pool
  <1>2. /\ q.waiters \in [Task -> SUBSET Task] /\ q.unmet \in [Task -> SUBSET Task]
        /\ q.blocked \in SUBSET Task /\ q.drained \in SUBSET Phase /\ q.done \in SUBSET Task
    BY DEF Pool
  <1>3. free = Freed(q, t) /\ free \in SUBSET Task
    BY <1>2 DEF Freed
  <1>4. \A u \in Task : un[u] = IF u \in q.waiters[t] THEN q.unmet[u] \ {t} ELSE q.unmet[u]
    BY <1>2
  <1>5. \A d \in Task : wa[d] = IF d = t THEN {} ELSE q.waiters[d]
    BY <1>2
  <1>6. do \in SUBSET Task /\ wa \in [Task -> SUBSET Task] /\ un \in [Task -> SUBSET Task]
        /\ bl \in SUBSET Task /\ dr \in SUBSET Phase
    BY <1>2
  <1> HIDE DEF touched, free, do, wa, un, bl, dr
  <1>7. m \in Pool /\ m.done = do /\ m.waiters = wa /\ m.unmet = un /\ m.blocked = bl /\ m.drained = dr
    BY <1>6 DEF Pool
  <1>8. m.inFlight = q.inFlight /\ m.failed = q.failed /\ m.soft = q.soft /\ m.queued = q.queued
        /\ m.state = q.state
    BY DEF Pool
  <1> HIDE DEF m
  <1>9. /\ r \in Pool /\ SameEnds(m, r)
        /\ r.inFlight = m.inFlight /\ r.drained = m.drained
        /\ r.blocked = m.blocked /\ r.unmet = m.unmet /\ r.waiters = m.waiters
        /\ r.queued = m.queued \cup free
        /\ \A p \in Phase : r.state[p] = IF p \in Phases(free) /\ m.state[p] = "Draining"
                                            THEN "Active" ELSE m.state[p]
    BY <1>1, <1>3, <1>7, PushFields DEF Pushes
  <1>10. /\ r.failed = q.failed /\ r.soft = q.soft /\ r.done = do /\ r.queued = q.queued \cup free
         /\ r.blocked = bl /\ r.drained = dr /\ r.unmet = un /\ r.waiters = wa
         /\ r.inFlight = q.inFlight
    BY <1>7, <1>8, <1>9 DEF SameEnds
  <1>11. \A p \in Phase : r.state[p] = IF p \in Phases(free) /\ q.state[p] = "Draining"
                                            THEN "Active" ELSE q.state[p]
    BY <1>8, <1>9
  <1> QED BY <1>3, <1>4, <1>5, <1>9, <1>10, <1>11 DEF do, bl, dr, Resolves

-----------------------------------------------------------------------------
(* The failure cascade.                                                    *)

\* Whatever waits for a root or for a member of the cascade is in it, unless it
\* has failed already or is a root.
LEMMA CascadeClosed ==
    ASSUME NEW q \in Pool, NEW roots \in SUBSET Task,
           NEW t \in roots \cup Cascade(q, roots), NEW u \in q.waiters[t],
           u \notin q.failed \cup roots
    PROVE  u \in Cascade(q, roots)
  <1> DEFINE next(S) == (UNION {q.waiters[d] : d \in roots \cup S}) \ (q.failed \cup roots)
  <1>1. t \in Task /\ u \in Task
    BY DEF Pool, Cascade
  <1>2. ASSUME NEW S \in SUBSET Task, next(S) \subseteq S
        PROVE  u \in S
    <2>1. t \in roots \cup S
      BY <1>2 DEF Cascade
    <2> QED BY <2>1, <1>2
  <1> QED BY <1>1, <1>2 DEF Cascade

\* The cascade is inside every set that is closed under waiting.
LEMMA CascadeLeast ==
    ASSUME NEW q \in Pool, NEW roots \in SUBSET Task, NEW S \in SUBSET Task,
           \A t \in roots \cup S : q.waiters[t] \ (q.failed \cup roots) \subseteq S
    PROVE  Cascade(q, roots) \subseteq S
  <1>1. (UNION {q.waiters[t] : t \in roots \cup S}) \ (q.failed \cup roots) \subseteq S
    OBVIOUS
  <1> QED BY <1>1 DEF Cascade

\* fail_with_cascade up to the drain edge.
CutOff(q, roots) ==
    LET hit == Cascade(q, roots)
    IN  [q EXCEPT !.failed  = @ \cup roots \cup hit,
                  !.soft    = @ \ (roots \cup hit),
                  !.unmet   = [t \in Task |-> IF t \in hit THEN {} ELSE @[t]],
                  !.waiters = [t \in Task |-> IF t \in roots \cup hit THEN {} ELSE @[t]],
                  !.blocked = @ \ hit]

\* A permanent failure cuts the dependents off and then lets their phases drain.
LEMMA FailIsCutOff ==
    ASSUME NEW q, NEW roots, NEW P
    PROVE  FailWithCascade(q, roots, P)
             = TransitionDrain(CutOff(q, roots), P \cup Phases(Cascaded(q, roots)))
  BY DEF FailWithCascade, CutOff

CutsOff(q, roots, r) ==
    /\ r \in Pool /\ SameFlow(q, r)
    /\ r.queued = q.queued /\ r.inFlight = q.inFlight /\ r.done = q.done
    /\ r.failed = q.failed \cup roots \cup Cascade(q, roots)
    /\ r.soft = q.soft \ (roots \cup Cascade(q, roots))
    /\ r.blocked = q.blocked \ Cascade(q, roots)
    /\ \A t \in Task : r.unmet[t] = IF t \in Cascade(q, roots) THEN {} ELSE q.unmet[t]
    /\ \A t \in Task : r.waiters[t] = IF t \in roots \cup Cascade(q, roots) THEN {}
                                                              ELSE q.waiters[t]

\* Cutting off moves the roots and all that depend on them to the failed ids.
LEMMA CutOffFields ==
    ASSUME NEW q \in Pool, NEW roots \in SUBSET Task, NEW r, r = CutOff(q, roots)
    PROVE  CutsOff(q, roots, r)
  <1> DEFINE hit == Cascade(q, roots)
             fa == q.failed \cup roots \cup hit
             so == q.soft \ (roots \cup hit)
             un == [t \in Task |-> IF t \in hit THEN {} ELSE q.unmet[t]]
             wa == [t \in Task |-> IF t \in roots \cup hit THEN {} ELSE q.waiters[t]]
             bl == q.blocked \ hit
  <1>1. hit \in SUBSET Task
    BY DEF Cascade
  <1> HIDE DEF hit
  <1>2. /\ fa \in SUBSET Task /\ so \in SUBSET Task /\ bl \in SUBSET Task
        /\ un \in [Task -> SUBSET Task] /\ wa \in [Task -> SUBSET Task]
    BY <1>1 DEF Pool
  <1>3. r = [q EXCEPT !.failed = fa, !.soft = so, !.unmet = un, !.waiters = wa, !.blocked = bl]
    BY DEF CutOff, hit, Pool
  <1>4. /\ \A t \in Task : un[t] = IF t \in hit THEN {} ELSE q.unmet[t]
        /\ \A t \in Task : wa[t] = IF t \in roots \cup hit THEN {} ELSE q.waiters[t]
    OBVIOUS
  <1> HIDE DEF fa, so, un, wa, bl
  <1>5. r \in Pool /\ r.failed = fa /\ r.soft = so /\ r.unmet = un /\ r.waiters = wa /\ r.blocked = bl
    BY <1>2, <1>3 DEF Pool
  <1>6. /\ SameFlow(q, r) /\ r.queued = q.queued /\ r.inFlight = q.inFlight /\ r.done = q.done
    BY <1>3 DEF Pool, SameFlow
  <1> QED BY <1>4, <1>5, <1>6 DEF fa, so, bl, hit, CutsOff

-----------------------------------------------------------------------------
(* The other methods.                                                      *)

Softens(q, s, r) ==
    /\ r \in Pool /\ SameWork(q, r) /\ SameFlow(q, r)
    /\ r.inFlight = q.inFlight /\ r.done = q.done /\ r.failed = q.failed /\ r.soft = s

\* A new set of soft failures changes nothing else.
LEMMA SoftenFields ==
    ASSUME NEW q \in Pool, NEW s \in SUBSET Task, NEW r, r = [q EXCEPT !.soft = s]
    PROVE  Softens(q, s, r)
  BY DEF Pool, SameWork, SameFlow, Softens

Announces(q, P, r) ==
    /\ r \in Pool /\ SameWork(q, r) /\ SameEnds(q, r)
    /\ r.inFlight = q.inFlight /\ r.state = q.state /\ r.drained = P

\* A new set of drain edges changes nothing else.
LEMMA DrainedFields ==
    ASSUME NEW q \in Pool, NEW P \in SUBSET Phase, NEW r, r = [q EXCEPT !.drained = P]
    PROVE  Announces(q, P, r)
  BY DEF Pool, SameWork, SameEnds, Announces

\* The empty pool is a pool.
LEMMA EmptyPoolType == EmptyPool \in Pool
  BY DEF EmptyPool, Pool, PhaseState

\* The tasks the primary reinjects have not completed, so nothing is re-blocked.
LEMMA NothingReblocked ==
    ASSUME NEW q \in Pool, NEW T \in SUBSET Task, T \cap q.done = {},
           NEW r, r = ReblockDependents(q, T)
    PROVE  /\ r \in Pool /\ SameWork(q, r) /\ SameEnds(q, r) /\ r.inFlight = q.inFlight
           /\ SameFlow(q, r)
  <1> DEFINE again == T \cap q.done
             waits == {u \in q.blocked : DependsOn[u] \cap again # {}}
             ready == {u \in q.queued : /\ DependsOn[u] \cap again # {}
                                        /\ q.state[PhaseOf[u]] \in Open}
             a     == [q EXCEPT !.done = @ \ again, !.queued = @ \ ready]
             b     == ExtractBlocked(a, waits)
             c     == CommitItems(b, waits \cup ready)
  <1>1. again = {} /\ waits = {} /\ ready = {}
    OBVIOUS
  <1>2. r = TransitionDrain(c, Phases(waits \cup ready))
    BY DEF ReblockDependents
  <1> HIDE DEF again, waits, ready
  <1>3. a = q
    BY <1>1 DEF Pool
  <1> HIDE DEF a
  <1>4. b = q
    <2>1. /\ q.blocked \ {} = q.blocked
          /\ [t \in Task |-> IF t \in {} THEN {} ELSE q.unmet[t]] = q.unmet
          /\ [d \in Task |-> q.waiters[d] \ {t \in {} : d \in q.unmet[t]}] = q.waiters
      BY DEF Pool
    <2> QED BY <1>1, <1>3, <2>1 DEF ExtractBlocked, Pool
  <1> HIDE DEF b
  <1>5. waits \cup ready = {} /\ Phases({}) = {}
    BY <1>1 DEF Phases
  <1>6. c = q
    <2> DEFINE dead == {t \in {} : DependsOn[t] \cap q.failed # {}}
               wt == {t \in {} \ dead : UnresolvedDeps(q, t) # {}}
    <2>1. /\ q.failed \cup dead = q.failed
          /\ q.queued \cup ({} \ (dead \cup wt)) = q.queued /\ q.blocked \cup wt = q.blocked
          /\ [t \in Task |-> IF t \in wt THEN UnresolvedDeps(q, t) ELSE q.unmet[t]] = q.unmet
          /\ [d \in Task |-> q.waiters[d] \cup {t \in wt : d \in UnresolvedDeps(q, t)}] = q.waiters
      BY DEF Pool
    <2>2. c = CommitItems(q, {})
      BY <1>4, <1>5
    <2> QED BY <2>1, <2>2 DEF CommitItems, Pool
  <1> HIDE DEF c
  <1>7. r = TransitionDrain(q, {})
    BY <1>2, <1>5, <1>6
  <1>8. /\ r \in Pool /\ SameWork(q, r) /\ SameEnds(q, r) /\ r.inFlight = q.inFlight
        /\ \A p \in Phase : r.state[p] = q.state[p]
        /\ r.drained = q.drained
    <2> DEFINE P == {}
    <2>1. P \in SUBSET Phase /\ r = TransitionDrain(q, P)
      BY <1>7
    <2> HIDE DEF P
    <2>2. /\ r \in Pool /\ SameWork(q, r) /\ SameEnds(q, r) /\ r.inFlight = q.inFlight
          /\ \A p \in Phase : r.state[p] = IF p \in P THEN DrainState(q, p) ELSE q.state[p]
          /\ r.drained = q.drained \cup {p \in P : DrainState(q, p) = "Drained" /\ q.state[p] # "Drained"}
      BY <2>1, DrainFields DEF Drains
    <2> QED BY <2>2 DEF P
  <1> QED BY <1>8 DEF SameFlow, Pool

Reinjects(q, T, p, r) ==
    /\ r \in Pool /\ r.inFlight = q.inFlight /\ r.blocked = q.blocked
    /\ r.unmet = q.unmet /\ r.waiters = q.waiters
    /\ r.done = q.done /\ r.failed = q.failed /\ r.soft = q.soft \ T
    /\ r.queued = q.queued \cup T
    /\ \A o \in Phase : r.state[o] = IF o = p /\ q.state[p] # "Blocked" THEN "Active"
                                                                      ELSE q.state[o]
    /\ r.drained = IF q.state[p] \in {"Draining", "Drained", "Done"} THEN q.drained \ {p}
                                                                     ELSE q.drained

\* reinject queues tasks that had failed, forgets their failure and opens their phase
\* again.
LEMMA ReinjectFields ==
    ASSUME NEW q \in Pool, NEW T \in SUBSET Task, T \cap q.done = {}, NEW p \in Phase,
           NEW r, r = Reinject(q, T, p)
    PROVE  Reinjects(q, T, p, r)
  <1> DEFINE so == q.soft \ T
             a  == [q EXCEPT !.soft = so]
             b  == ReblockDependents(a, T)
             qu == b.queued \cup T
             c  == [b EXCEPT !.queued = qu]
  <1>1. r = IF c.state[p] \in {"Draining", "Drained", "Done"}
            THEN [c EXCEPT !.state[p] = "Active", !.drained = @ \ {p}]
            ELSE c
    BY DEF Reinject, Pool
  <1>2. so \in SUBSET Task
    BY DEF Pool
  <1>3. /\ a \in Pool /\ SameWork(q, a) /\ SameFlow(q, a)
        /\ a.inFlight = q.inFlight /\ a.done = q.done /\ a.failed = q.failed /\ a.soft = so
    BY <1>2, SoftenFields DEF Softens
  <1> HIDE DEF a
  <1>4. /\ b \in Pool /\ SameWork(a, b) /\ SameEnds(a, b) /\ b.inFlight = a.inFlight
        /\ SameFlow(a, b)
    BY <1>3, NothingReblocked
  <1> HIDE DEF b
  <1>5. qu \in SUBSET Task
    BY <1>4 DEF Pool
  <1>6. /\ c \in Pool /\ c.queued = qu
        /\ c.inFlight = b.inFlight /\ c.blocked = b.blocked
        /\ c.unmet = b.unmet /\ c.waiters = b.waiters
        /\ SameEnds(b, c) /\ SameFlow(b, c)
    BY <1>4, <1>5 DEF Pool, SameEnds, SameFlow
  <1> HIDE DEF c
  <1>7. /\ c.queued = q.queued \cup T /\ c.inFlight = q.inFlight /\ c.blocked = q.blocked
        /\ c.unmet = q.unmet /\ c.waiters = q.waiters
        /\ c.done = q.done /\ c.failed = q.failed /\ c.soft = q.soft \ T
        /\ c.state = q.state /\ c.drained = q.drained
    BY <1>3, <1>4, <1>6 DEF SameWork, SameEnds, SameFlow
  <1>8. c.state[p] \in PhaseState
    BY <1>6 DEF Pool
  <1>9. CASE c.state[p] \in {"Draining", "Drained", "Done"}
    <2> DEFINE st == [c.state EXCEPT ![p] = "Active"]
               dr == c.drained \ {p}
    <2>1. st \in [Phase -> PhaseState] /\ dr \in SUBSET Phase
      BY <1>6 DEF Pool, PhaseState
    <2>2. r = [c EXCEPT !.state = st, !.drained = dr]
      BY <1>1, <1>9 DEF Pool
    <2>3. \A o \in Phase : st[o] = IF o = p THEN "Active" ELSE c.state[o]
      BY <1>6 DEF Pool
    <2> HIDE DEF st, dr
    <2>4. r \in Pool /\ r.state = st /\ r.drained = dr
      BY <1>6, <2>1, <2>2 DEF Pool
    <2>5. /\ r.queued = c.queued /\ r.inFlight = c.inFlight /\ r.blocked = c.blocked
          /\ r.unmet = c.unmet /\ r.waiters = c.waiters
          /\ r.done = c.done /\ r.failed = c.failed /\ r.soft = c.soft
      BY <1>6, <2>2 DEF Pool
    <2> QED BY <1>7, <1>9, <2>3, <2>4, <2>5 DEF dr, Reinjects
  <1>10. CASE c.state[p] \notin {"Draining", "Drained", "Done"}
    <2>1. r = c
      BY <1>1, <1>10
    <2> QED BY <1>6, <1>7, <1>8, <1>10, <2>1 DEF PhaseState, Reinjects
  <1> QED BY <1>9, <1>10

-----------------------------------------------------------------------------
(* Order: what the pool queues and starts, given the tasks C that have     *)
(* completed and the phases E that have ended.                             *)

InOrder(q, C, E) ==
    /\ q \in Pool
    /\ q.done \subseteq C
    /\ \A t \in q.queued : DependsOn[t] \subseteq C
    /\ \A t \in q.blocked : DependsOn[t] \ q.unmet[t] \subseteq C
    /\ \A p \in Phase : q.state[p] # "Blocked" => PhaseDeps[p] \subseteq E
    /\ \A p \in Phase : q.state[p] = "Done" => p \in E

\* No task enters the pool from q to r, and one that waits is not queued twice.
Shrinks(q, r) ==
    /\ r.queued \cup r.blocked \subseteq q.queued \cup q.blocked
    /\ r.blocked \subseteq q.blocked
    /\ r.queued \cap r.blocked \subseteq q.queued \cap q.blocked

\* The tasks T are queued in r, and nothing else moves.
Joins(q, T, r) == r.queued = q.queued \cup T /\ r.blocked = q.blocked

\* Order survives more successes and more ended phases.
LEMMA OrderGrows ==
    ASSUME NEW C, NEW E, NEW C2, NEW E2, NEW q, InOrder(q, C, E), C \subseteq C2, E \subseteq E2
    PROVE  InOrder(q, C2, E2)
  BY DEF InOrder

\* Drain transitions keep the order and queue nothing.
LEMMA OrderDrain ==
    ASSUME NEW C, NEW E, NEW q, InOrder(q, C, E), NEW P \in SUBSET Phase,
           NEW r, r = TransitionDrain(q, P)
    PROVE  InOrder(r, C, E) /\ Shrinks(q, r)
  <1>1. q \in Pool
    BY DEF InOrder
  <1>2. Drains(q, P, r)
    BY <1>1, DrainFields
  <1>3. \A p \in Phase : DrainState(q, p) # q.state[p] => /\ q.state[p] \in Open
                                                       /\ DrainState(q, p) # "Done"
    BY <1>1, DrainStateType
  <1>4. \A p \in Phase : /\ r.state[p] # "Blocked" => q.state[p] # "Blocked"
                         /\ r.state[p] = "Done" => q.state[p] = "Done"
    BY <1>2, <1>3 DEF Open, Drains
  <1>8. InOrder(r, C, E)
    BY <1>2, <1>4 DEF InOrder, SameWork, SameEnds, Drains
  <1>9. Shrinks(q, r)
    BY <1>2 DEF Shrinks, Drains, SameWork
  <1> QED BY <1>8, <1>9

\* A method that adds no work and keeps the completed tasks and the states.
LEMMA OrderKept ==
    ASSUME NEW C, NEW E, NEW q, InOrder(q, C, E), NEW r \in Pool,
           r.queued \subseteq q.queued, r.blocked \subseteq q.blocked,
           \A t \in r.blocked : r.unmet[t] = q.unmet[t],
           r.done = q.done, r.state = q.state
    PROVE  InOrder(r, C, E)
  BY DEF InOrder

\* So does taking a task.
LEMMA OrderTaken ==
    ASSUME NEW C, NEW E, NEW q, InOrder(q, C, E), NEW t \in Task,
           NEW r, r = Taken(q, t)
    PROVE  InOrder(r, C, E) /\ Shrinks(q, r)
  <1>1. q \in Pool
    BY DEF InOrder
  <1>2. Takes(q, t, r)
    BY <1>1, TakenFields
  <1>8. InOrder(r, C, E)
    BY <1>2, OrderKept DEF Takes, SameEnds, SameFlow
  <1>9. Shrinks(q, r)
    BY <1>2 DEF Shrinks, Takes
  <1> QED BY <1>8, <1>9

\* So does releasing a count.
LEMMA OrderDrop ==
    ASSUME NEW C, NEW E, NEW q, InOrder(q, C, E), NEW p \in Phase,
           NEW r, r = DropInFlight(q, p)
    PROVE  InOrder(r, C, E) /\ Shrinks(q, r)
  <1>1. q \in Pool
    BY DEF InOrder
  <1>2. Drops(q, p, r)
    BY <1>1, DropFields
  <1>8. InOrder(r, C, E)
    BY <1>2, OrderKept DEF Drops, SameWork, SameEnds, SameFlow
  <1>9. Shrinks(q, r)
    BY <1>2 DEF Shrinks, Drops, SameWork
  <1> QED BY <1>8, <1>9

\* A task whose prerequisites have completed may go back to the queue.
LEMMA OrderRequeue ==
    ASSUME NEW C, NEW E, NEW q, InOrder(q, C, E), NEW T \in SUBSET Task,
           \A t \in T : DependsOn[t] \subseteq C,
           NEW r, r = Requeue(q, T)
    PROVE  InOrder(r, C, E) /\ Joins(q, T, r)
  <1>1. q \in Pool
    BY DEF InOrder
  <1>2. Requeues(q, T, r)
    BY <1>1, RequeueFields
  <1>3. \A p \in Phase : /\ r.state[p] # "Blocked" => q.state[p] # "Blocked"
                         /\ r.state[p] = "Done" => q.state[p] = "Done"
    BY <1>2 DEF Requeues
  <1>4. \A t \in r.queued : DependsOn[t] \subseteq C
    BY <1>2 DEF Requeues, InOrder
  <1>8. InOrder(r, C, E)
    BY <1>2, <1>3, <1>4 DEF Requeues, SameEnds, InOrder
  <1>9. Joins(q, T, r)
    BY <1>2 DEF Joins, Requeues
  <1> QED BY <1>8, <1>9

\* After a success its dependents may be queued, if they wait for nothing else.
LEMMA OrderResolve ==
    ASSUME NEW C, NEW E, NEW q, InOrder(q, C, E), NEW t \in Task, t \in C,
           NEW r, r = ResolveCompletedDependents(q, t)
    PROVE  InOrder(r, C, E) /\ Shrinks(q, r)
  <1>1. q \in Pool
    BY DEF InOrder
  <1>2. Resolves(q, t, r)
    BY <1>1, ResolveFields
  <1>3. r \in Pool /\ r.done \subseteq C
    BY <1>2 DEF Resolves, InOrder
  <1>4. \A p \in Phase : /\ r.state[p] # "Blocked" => q.state[p] # "Blocked"
                         /\ r.state[p] = "Done" => q.state[p] = "Done"
    BY <1>2 DEF Resolves
  <1>5. \A u \in r.queued : DependsOn[u] \subseteq C
    BY <1>2 DEF Resolves, InOrder, Freed
  <1>6. \A u \in r.blocked : DependsOn[u] \ r.unmet[u] \subseteq C
    BY <1>2 DEF Resolves, InOrder, Pool
  <1>8. InOrder(r, C, E)
    BY <1>2, <1>3, <1>4, <1>5, <1>6 DEF InOrder
  <1>9. Shrinks(q, r)
    BY <1>2 DEF Shrinks, Resolves, Freed
  <1> QED BY <1>8, <1>9

\* Cutting off the dependents of a failure queues nothing.
LEMMA OrderCutOff ==
    ASSUME NEW C, NEW E, NEW q, InOrder(q, C, E), NEW roots \in SUBSET Task,
           NEW r, r = CutOff(q, roots)
    PROVE  InOrder(r, C, E) /\ Shrinks(q, r)
  <1>1. q \in Pool
    BY DEF InOrder
  <1>2. CutsOff(q, roots, r)
    BY <1>1, CutOffFields
  <1>3. \A t \in r.blocked : r.unmet[t] = q.unmet[t]
    BY <1>2 DEF CutsOff, Pool
  <1>8. InOrder(r, C, E)
    BY <1>2, <1>3, OrderKept DEF CutsOff, SameFlow
  <1>9. Shrinks(q, r)
    BY <1>2 DEF Shrinks, CutsOff
  <1> QED BY <1>8, <1>9

\* A phase is opened in order if those that are marked done have ended in order.
LEMMA OrderMark ==
    ASSUME NEW C, NEW E, NEW q, InOrder(q, C, E), NEW P \in SUBSET Phase, P \subseteq E,
           \A p \in P : PhaseDeps[p] \subseteq E,
           NEW r, r = MarkPhasesDone(q, P)
    PROVE  InOrder(r, C, E) /\ Shrinks(q, r)
  <1>1. q \in Pool
    BY DEF InOrder
  <1>2. Marks(q, P, r)
    BY <1>1, MarkFields
  <1>3. \A p \in Phase : \A d \in PhaseDeps[p] : (d \in P \/ q.state[d] = "Done") => d \in E
    BY PhaseDepsAssumption DEF InOrder
  <1>4. \A p \in Phase : /\ r.state[p] # "Blocked" => PhaseDeps[p] \subseteq E
                         /\ r.state[p] = "Done" => p \in E
    BY <1>2, <1>3 DEF InOrder, Marks
  <1>8. InOrder(r, C, E)
    BY <1>2, <1>3, <1>4 DEF InOrder, SameWork, SameEnds, Marks
  <1>9. Shrinks(q, r)
    BY <1>2 DEF Shrinks, Marks, SameWork
  <1> QED BY <1>8, <1>9

\* A failed task whose prerequisites have completed may be queued again.
LEMMA OrderReinject ==
    ASSUME NEW C, NEW E, NEW q, InOrder(q, C, E), NEW T \in SUBSET Task, T \cap q.done = {},
           \A t \in T : DependsOn[t] \subseteq C, NEW p \in Phase,
           NEW r, r = Reinject(q, T, p)
    PROVE  InOrder(r, C, E) /\ Joins(q, T, r)
  <1>1. q \in Pool
    BY DEF InOrder
  <1>2. Reinjects(q, T, p, r)
    BY <1>1, ReinjectFields
  <1>3. \A o \in Phase : /\ r.state[o] # "Blocked" => q.state[o] # "Blocked"
                         /\ r.state[o] = "Done" => q.state[o] = "Done"
    BY <1>2 DEF Reinjects
  <1>4. \A t \in r.queued : DependsOn[t] \subseteq C
    BY <1>2 DEF Reinjects, InOrder
  <1>8. InOrder(r, C, E)
    BY <1>2, <1>3, <1>4 DEF Reinjects, InOrder
  <1>9. Joins(q, T, r)
    BY <1>2 DEF Joins, Reinjects
  <1> QED BY <1>8, <1>9

\* commit_items queues only tasks without an unresolved prerequisite.
LEMMA OrderCommit ==
    ASSUME NEW C, NEW E, NEW q, InOrder(q, C, E), NEW T \in SUBSET Task,
           NEW r, r = CommitItems(q, T)
    PROVE  InOrder(r, C, E)
  <1>1. q \in Pool
    BY DEF InOrder
  <1> DEFINE dead == {t \in T : DependsOn[t] \cap q.failed # {}}
             waiting == {t \in T \ dead : UnresolvedDeps(q, t) # {}}
  <1>2. Commits(q, T, dead, waiting, r)
    BY <1>1, CommitFields
  <1>3. \A t \in r.queued : DependsOn[t] \subseteq C
    BY <1>2 DEF InOrder, UnresolvedDeps, Commits
  <1>4. \A t \in r.blocked : DependsOn[t] \ r.unmet[t] \subseteq C
    <2>1. waiting \in SUBSET Task /\ q.blocked \in SUBSET Task
      BY <1>1 DEF Pool
    <2>2. \A t \in waiting : DependsOn[t] \ UnresolvedDeps(q, t) \subseteq C
      BY DEF InOrder, UnresolvedDeps
    <2> HIDE DEF dead, waiting
    <2> QED BY <1>2, <2>1, <2>2 DEF InOrder, Commits
  <1> QED BY <1>2, <1>3, <1>4 DEF InOrder, Commits

\* Soft failures do not touch the order.
LEMMA OrderSoften ==
    ASSUME NEW C, NEW E, NEW q, InOrder(q, C, E), NEW s \in SUBSET Task,
           NEW r, r = [q EXCEPT !.soft = s]
    PROVE  InOrder(r, C, E) /\ Shrinks(q, r)
  <1>1. q \in Pool
    BY DEF InOrder
  <1>2. Softens(q, s, r)
    BY <1>1, SoftenFields
  <1> QED BY <1>2, OrderKept DEF Softens, SameWork, SameFlow, Shrinks

\* Drain edges do not touch the order.
LEMMA OrderDrained ==
    ASSUME NEW C, NEW E, NEW q, InOrder(q, C, E), NEW P \in SUBSET Phase,
           NEW r, r = [q EXCEPT !.drained = P]
    PROVE  InOrder(r, C, E) /\ Shrinks(q, r)
  <1>1. q \in Pool
    BY DEF InOrder
  <1>2. Announces(q, P, r)
    BY <1>1, DrainedFields
  <1> QED BY <1>2, OrderKept DEF Announces, SameWork, SameEnds, Shrinks

\* take_at keeps the order.
LEMMA OrderTakeAt ==
    ASSUME NEW C, NEW E, NEW q, InOrder(q, C, E), NEW t \in Task, NEW r, r = TakeAt(q, t)
    PROVE  InOrder(r, C, E) /\ Shrinks(q, r)
  <1> DEFINE a == Taken(q, t)
             p == PhaseOf[t]
  <1>1. InOrder(a, C, E) /\ Shrinks(q, a)
    BY OrderTaken
  <1>2. r = IF QueuedIn(a, p) = {} THEN TransitionDrain(a, {p}) ELSE a
    BY DEF TakeAt, Taken
  <1>3. {p} \in SUBSET Phase
    BY PhaseOfAssumption
  <1> HIDE DEF a, p
  <1>4. InOrder(TransitionDrain(a, {p}), C, E) /\ Shrinks(a, TransitionDrain(a, {p}))
    BY <1>1, <1>3, OrderDrain
  <1> QED BY <1>1, <1>2, <1>4 DEF Shrinks

\* on_item_released keeps the order.
LEMMA OrderReleased ==
    ASSUME NEW C, NEW E, NEW q, InOrder(q, C, E), NEW p \in Phase, NEW r, r = OnItemReleased(q, p)
    PROVE  InOrder(r, C, E) /\ Shrinks(q, r)
  <1> DEFINE a == DropInFlight(q, p)
  <1>1. InOrder(a, C, E) /\ Shrinks(q, a)
    BY OrderDrop
  <1>2. r = TransitionDrain(a, {p})
    BY DEF OnItemReleased
  <1> HIDE DEF a
  <1>3. InOrder(r, C, E) /\ Shrinks(a, r)
    BY <1>1, <1>2, OrderDrain
  <1> QED BY <1>1, <1>3 DEF Shrinks

\* on_item_finished keeps the order, once the task is a success.
LEMMA OrderFinished ==
    ASSUME NEW C, NEW E, NEW q, InOrder(q, C, E), NEW t \in Task, t \in C,
           NEW r, r = OnItemFinished(q, t)
    PROVE  InOrder(r, C, E) /\ Shrinks(q, r)
  <1> DEFINE p == PhaseOf[t]
             a == DropInFlight(q, p)
             b == ResolveCompletedDependents(a, t)
  <1>1. p \in Phase
    BY PhaseOfAssumption
  <1>2. r = TransitionDrain(b, {p})
    BY DEF OnItemFinished
  <1> HIDE DEF p
  <1>3. InOrder(a, C, E) /\ Shrinks(q, a)
    BY <1>1, OrderDrop
  <1> HIDE DEF a
  <1>4. InOrder(b, C, E) /\ Shrinks(a, b)
    BY <1>3, OrderResolve
  <1> HIDE DEF b
  <1>5. InOrder(r, C, E) /\ Shrinks(b, r)
    BY <1>1, <1>2, <1>4, OrderDrain
  <1> QED BY <1>3, <1>4, <1>5 DEF Shrinks

\* A permanent failure with its cascade keeps the order.
LEMMA OrderFail ==
    ASSUME NEW C, NEW E, NEW q, InOrder(q, C, E), NEW roots \in SUBSET Task, NEW P \in SUBSET Phase,
           NEW r, r = FailWithCascade(q, roots, P)
    PROVE  InOrder(r, C, E) /\ Shrinks(q, r)
  <1> DEFINE a == CutOff(q, roots)
             R == P \cup Phases(Cascaded(q, roots))
  <1>1. R \in SUBSET Phase
    BY PhaseOfAssumption DEF Phases, Cascaded, Cascade
  <1>2. r = TransitionDrain(a, R)
    BY FailIsCutOff
  <1> HIDE DEF R
  <1>3. InOrder(a, C, E) /\ Shrinks(q, a)
    BY OrderCutOff
  <1> HIDE DEF a
  <1>4. InOrder(r, C, E) /\ Shrinks(a, r)
    BY <1>1, <1>2, <1>3, OrderDrain
  <1> QED BY <1>3, <1>4 DEF Shrinks

\* on_item_failed_permanent keeps the order.
LEMMA OrderFailedPermanent ==
    ASSUME NEW C, NEW E, NEW q, InOrder(q, C, E), NEW t \in Task,
           NEW r, r = OnItemFailedPermanent(q, t)
    PROVE  InOrder(r, C, E) /\ Shrinks(q, r)
  <1> DEFINE p == PhaseOf[t]
             a == DropInFlight(q, p)
  <1>1. p \in Phase
    BY PhaseOfAssumption
  <1>2. r = FailWithCascade(a, {t}, {p})
    BY DEF OnItemFailedPermanent
  <1> HIDE DEF p
  <1>3. InOrder(a, C, E) /\ Shrinks(q, a)
    BY <1>1, OrderDrop
  <1> HIDE DEF a
  <1>4. InOrder(r, C, E) /\ Shrinks(a, r)
    BY <1>1, <1>2, <1>3, OrderFail
  <1> QED BY <1>3, <1>4 DEF Shrinks

\* on_item_failed_pending_retry keeps the order.
LEMMA OrderFailedPendingRetry ==
    ASSUME NEW C, NEW E, NEW q, InOrder(q, C, E), NEW t \in Task,
           NEW r, r = OnItemFailedPendingRetry(q, t)
    PROVE  InOrder(r, C, E) /\ Shrinks(q, r)
  <1> DEFINE p == PhaseOf[t]
             a == DropInFlight(q, p)
             s == a.soft \cup ({t} \ q.failed)
             b == [a EXCEPT !.soft = s]
  <1>1. p \in Phase
    BY PhaseOfAssumption
  <1>2. r = TransitionDrain(b, {p})
    BY DEF OnItemFailedPendingRetry
  <1> HIDE DEF p
  <1>3. InOrder(a, C, E) /\ Shrinks(q, a)
    BY <1>1, OrderDrop
  <1> HIDE DEF a
  <1>4. s \in SUBSET Task
    BY <1>3 DEF InOrder, Pool
  <1> HIDE DEF s
  <1>5. InOrder(b, C, E) /\ Shrinks(a, b)
    BY <1>3, <1>4, OrderSoften
  <1> HIDE DEF b
  <1>6. InOrder(r, C, E) /\ Shrinks(b, r)
    BY <1>1, <1>2, <1>5, OrderDrain
  <1> QED BY <1>3, <1>5, <1>6 DEF Shrinks

\* In the empty pool nothing is out of order.
LEMMA OrderEmpty ==
    ASSUME NEW C, NEW E
    PROVE  InOrder(EmptyPool, C, E)
  <1>1. EmptyPool \in Pool
    BY EmptyPoolType
  <1> QED BY <1>1, PhaseDepsAssumption DEF InOrder, EmptyPool

-----------------------------------------------------------------------------
(* The handlers of the primary.                                            *)

\* Spending from a budget of the environment keeps its type.
LEMMA SpendType ==
    ASSUME env \in EnvironmentType, NEW what \in {"replays", "rejects", "reinjects", "failovers"},
           Spend(what)
    PROVE  env' \in EnvironmentType
  BY DEF Spend, EnvironmentType

\* Every step keeps the types, given that it keeps the pool's.
LEMMA TypeStep ==
    ASSUME TypeOK, Next, pool' \in Pool
    PROVE  TypeOK'
  <1> USE DEF TypeOK, Kind, Status
  <1>1. ASSUME NEW t \in Task, NEW s \in Secondary, Dispatch(t, s) PROVE TypeOK'
    <2>1. inFlight' \in [Task -> Secondary \cup {NoSecondary}] /\ ledger' \in [Task -> Status]
      BY <1>1 DEF Dispatch
    <2>2. running' \subseteq Task \X Secondary /\ wire' \subseteq Report
      BY <1>1 DEF Dispatch, Receive, Report
    <2>3. env' \in EnvironmentType
      BY <1>1, SpendType DEF Dispatch, Receive, NoSpend
    <2> QED BY <1>1, <2>1, <2>2, <2>3 DEF Dispatch, NoCascade, phaseVars
  <1>2. ASSUME NEW t \in Task, NEW s \in Secondary, NEW res \in {"ok"} \cup Kind, Finish(t, s, res)
        PROVE  TypeOK'
    <2>1. running' \subseteq Task \X Secondary /\ wire' \subseteq Report
      BY <1>2 DEF Finish, Report
    <2> QED BY <1>2, <2>1 DEF Finish, work, phaseVars
  <1>3. ASSUME NEW m \in wire, Consume(m)
        PROVE  /\ wire' \subseteq Report /\ env' \in EnvironmentType
               /\ alive' = alive /\ running' = running /\ inherited' = inherited
    BY <1>3, SpendType DEF Consume, NoSpend
  <1>4. ASSUME EnterCascade \/ NoCascade
        PROVE  /\ ended' \subseteq Phase /\ passes' \in [Phase -> [Retryable -> Nat]]
               /\ turn' \in {"idle", "poll", "drained", "look", "soft"}
               /\ todo' \subseteq Phase /\ verdict' \in {"running", "failing", "aborted", "complete"}
    BY <1>4 DEF EnterCascade, NoCascade, phaseVars
  <1>5. ASSUME NEW m \in wire, HandleReport(m) PROVE TypeOK'
    <2>1. m.t \in Task /\ m.res \in {"ok", "busy", "illegal"} \cup Kind
      BY DEF Report
    <2>2. /\ inFlight' \in [Task -> Secondary \cup {NoSecondary}]
          /\ completed' \subseteq Task
          /\ failed' \in [Task -> Kind \cup {"none"}]
          /\ ledger' \in [Task -> Status]
          /\ EnterCascade \/ NoCascade
      <3>1. CASE HandleTaskComplete(m)
        BY <3>1, <2>1 DEF HandleTaskComplete, work
      <3>2. CASE HandleTaskFailed(m)
        <4>1. CASE UNCHANGED work /\ NoCascade
          BY <4>1 DEF work
        <4>2. CASE ~(UNCHANGED work /\ NoCascade)
          <5> PICK lost :
                  /\ failed' = Set([failed EXCEPT ![m.t] = m.res], lost, "final")
                  /\ ledger' = Set([ledger EXCEPT ![m.t] = m.res], lost, "final")
            BY <3>2, <4>2 DEF HandleTaskFailed
          <5>1. /\ [failed EXCEPT ![m.t] = m.res] \in [Task -> Kind \cup {"none"}]
                /\ [ledger EXCEPT ![m.t] = m.res] \in [Task -> Status]
            BY <3>2, <2>1 DEF HandleTaskFailed, IsFailure
          <5>2. failed' \in [Task -> Kind \cup {"none"}] /\ ledger' \in [Task -> Status]
            BY <5>1 DEF Set
          <5> QED BY <3>2, <4>2, <5>2, <2>1, Zenon DEF HandleTaskFailed
        <4> QED BY <4>1, <4>2
      <3>3. CASE GiveBack(m.t)
        BY <3>3, <2>1 DEF GiveBack, work
      <3> QED BY <1>5, <3>1, <3>2, <3>3 DEF HandleReport, HandleBackpressure, HandleIllegallyAssigned
    <2>3. Consume(m)
      BY <1>5 DEF HandleReport
    <2> QED BY <2>2, <2>3, <1>3, <1>4
  <1>6. ASSUME NEW q, NEW t \in Task, NEW res, SettleSetup(q, t, res)
        PROVE  /\ inFlight' \in [Task -> Secondary \cup {NoSecondary}]
               /\ completed' = completed
               /\ failed' \in [Task -> Kind \cup {"none"}]
               /\ ledger' \in [Task -> Status]
               /\ EnterCascade
    <2>1. CASE res = "ok"
      BY <1>6, <2>1 DEF SettleSetup
    <2>2. CASE res # "ok"
      <3>1. failed' = Set(failed, {t} \cup Cascaded(q, {t}), "final")
        BY <1>6, <2>2 DEF SettleSetup
      <3>2. failed' \in [Task -> Kind \cup {"none"}]
        BY <3>1 DEF Set
      <3> QED BY <1>6, <2>2, <3>2, Zenon DEF SettleSetup
    <2> QED BY <2>1, <2>2
  <1>7. ASSUME NEW m \in wire, HandleSetupTerminal(m) PROVE TypeOK'
    <2>1. m.t \in Task /\ Consume(m)
      BY <1>7, SetupAssumption DEF HandleSetupTerminal
    <2>2. CASE Held(m.t)
      BY <1>7, <1>3, <1>4, <1>6, <2>1, <2>2, Zenon DEF HandleSetupTerminal
    <2>3. CASE ~Held(m.t)
      BY <1>7, <1>3, <1>4, <2>1, <2>3 DEF HandleSetupTerminal, work
    <2> QED BY <2>2, <2>3
  <1>8. ASSUME NEW t \in SetupTask, AssignSetup(t) PROVE TypeOK'
    <2>1. t \in Task /\ env.setupAt[t] \in Secondary
      BY <1>8, SetupAssumption DEF AssignSetup
    <2>2. inFlight' \in [Task -> Secondary \cup {NoSecondary}] /\ ledger' \in [Task -> Status]
      BY <1>8, <2>1 DEF AssignSetup
    <2> QED BY <1>8, <1>4, <2>1, <2>2 DEF AssignSetup, NoSpend
  <1>9. ASSUME NEW t \in SetupTask, NEW res \in SetupResults, RunSetupLocally(t, res) PROVE TypeOK'
    <2>1. t \in Task
      BY SetupAssumption
    <2> QED BY <1>9, <1>4, <1>6, <2>1, Zenon DEF RunSetupLocally, NoSpend, net
  <1>10. ASSUME NEW s \in Secondary, DeclareDead(s) PROVE TypeOK'
    <2>1. inFlight' \in [Task -> Secondary \cup {NoSecondary}]
      BY <1>10 DEF DeclareDead, Set
    <2>2. ledger' \in [Task -> Status]
      BY <1>10 DEF DeclareDead, Set
    <2> QED BY <1>10, <1>4, <2>1, <2>2, Zenon DEF DeclareDead, NoSpend
  <1>11. ASSUME NEW t \in Task, ReconcileInherited(t) PROVE TypeOK'
    BY <1>11, <1>4 DEF ReconcileInherited, NoSpend
  <1>12. ASSUME NEW t \in Task, ReinjectTask(t) PROVE TypeOK'
    BY <1>12, <1>4, SpendType DEF ReinjectTask, net
  <1>13. ASSUME NEW lost \in SUBSET wire, Failover(lost) PROVE TypeOK'
    <2>1. inFlight' \in [Task -> Secondary \cup {NoSecondary}]
      BY <1>13 DEF Failover, Set
    <2>2. failed' \in [Task -> Kind \cup {"none"}]
      BY <1>13 DEF Failover
    <2>3. env' \in EnvironmentType
      BY <1>13, SpendType DEF Failover
    <2> QED BY <1>13, <2>1, <2>2, <2>3 DEF Failover, HydratedCompleted, With
  <1>14. ASSUME NEW p \in Phase, Visited(p), turn \in {"drained", "soft"}
         PROVE  /\ todo' \subseteq Phase /\ turn' \in {"idle", "poll", "drained", "look", "soft"}
    BY <1>14 DEF Visited
  <1>15. ASSUME NEW p \in Phase, Finalize(p)
         PROVE  failed' \in [Task -> Kind \cup {"none"}] /\ ledger' \in [Task -> Status]
    BY <1>15 DEF Finalize, Set
  <1>16. ASSUME NEW p \in Phase, Retry(p) PROVE TypeOK'
    <2>1. PICK k \in Retryable : RetryBucket(p, k)
      BY <1>16 DEF Retry, Retryable
    <2>2. failed' \in [Task -> Kind \cup {"none"}] /\ ledger' \in [Task -> Status]
      BY <2>1 DEF RetryBucket, Set
    <2>3. passes' \in [Phase -> [Retryable -> Nat]]
      BY <2>1 DEF RetryBucket
    <2> QED BY <1>16, <1>14, <2>1, <2>2, <2>3 DEF Retry, RetryBucket, InCascade, net
  <1>17. ASSUME NEW p \in Phase, DrainPhase(p) PROVE TypeOK'
    BY <1>17, <1>14, <1>15 DEF DrainPhase, EndPhase, InCascade, net
  <1>18. ASSUME NEW p \in Phase, FinalizeSoft(p) PROVE TypeOK'
    BY <1>18, <1>14, <1>15 DEF FinalizeSoft, InCascade, net
  <1>19. CASE Poll
    <2>1. pool.drained \subseteq Phase /\ PendingSoftFinalize(pool) \subseteq Phase
      BY DEF Pool, PendingSoftFinalize
    <2> QED BY <1>19, <2>1 DEF Poll, InCascade, net
  <1>20. CASE LookAgain
    BY <1>20 DEF LookAgain, InCascade, net
  <1>21. CASE Resurface
    BY <1>21, <1>4 DEF Resurface, NoSpend, net
  <1>22. CASE Abort \/ Complete
    BY <1>22 DEF Abort, Complete, work, net
  <1> QED BY <1>1, <1>2, <1>5, <1>7, <1>8, <1>9, <1>10, <1>11, <1>12, <1>13, <1>16, <1>17, <1>18,
             <1>19, <1>20, <1>21, <1>22, Zenon DEF Next, CascadeStep

-----------------------------------------------------------------------------
(* Order.  Whatever has begun may begin: its prerequisites have completed  *)
(* and the phases before its own have ended.                               *)

Succeeded == With({"completed"})
Ready(t) == DependsOn[t] \subseteq Succeeded /\ PhaseDeps[PhaseOf[t]] \subseteq ended

\* Somebody works on the task, or has something to report of it.
Touched(t) == (\E s \in Secondary : <<t, s>> \in running) \/ (\E m \in wire : m.t = t)

\* The task has been handed out at least once.
Ran == {"inflight", "unfulfillable"} \cup Retryable
Started(t) == Held(t) \/ Touched(t) \/ ledger[t] \in Ran \/ failed[t] \in Retryable

StartedReady == \A t \in Task : Started(t) => Ready(t)

\* The success of a task that is not a setup task is known by its key, and is
\* not retried.
SuccessKnown == \A t \in Task \ SetupTask : ledger[t] = "completed" => t \in completed
SuccessKept == \A t \in Task : failed[t] \in Retryable => ledger[t] # "completed"
InheritedOpen == \A t \in inherited : Held(t) => ledger[t] # "completed"

\* A setup task is not retried, and it is in the pool, in flight or settled,
\* but never in two of these.
InPool(t) == t \in pool.queued \cup pool.blocked
SetupApart(t) ==
    /\ failed[t] \notin Retryable
    /\ ledger[t] \notin Retryable \cup {"unfulfillable"}
    /\ ~(t \in pool.queued /\ t \in pool.blocked)
    /\ Held(t) => ~InPool(t)
    /\ ledger[t] = "completed" => ~Held(t) /\ ~InPool(t)
SetupsApart == \A t \in SetupTask : SetupApart(t)

EndedInOrder == \A p \in ended : PhaseDeps[p] \subseteq ended

WorkInOrder ==
    /\ InOrder(pool, Succeeded, ended)
    /\ StartedReady
    /\ SuccessKnown
    /\ SuccessKept
    /\ InheritedOpen
    /\ SetupsApart
    /\ EndedInOrder

OrderInv == TypeOK /\ WorkInOrder

\* What a step has to show of the tasks that have begun.
LEMMA StartedStep ==
    ASSUME StartedReady, ended \subseteq ended',
           \A t \in Task : ledger[t] = "completed" => ledger'[t] = "completed",
           \A t \in Task : Started(t)' => Started(t) \/ Ready(t)
    PROVE  StartedReady' /\ Succeeded \subseteq Succeeded'
  <1>1. Succeeded \subseteq Succeeded'
    BY DEF Succeeded, With
  <1>2. \A t \in Task : Ready(t) => Ready(t)'
    BY <1>1 DEF Ready
  <1> QED BY <1>1, <1>2 DEF StartedReady

\* A task that can be taken may begin.
LEMMA TakeReadyTask ==
    ASSUME OrderInv, NEW t \in Task, CanTakeMatch(pool, t)
    PROVE  Ready(t)
  <1>1. t \in pool.queued /\ pool.state[PhaseOf[t]] # "Blocked" /\ PhaseOf[t] \in Phase
    BY PhaseOfAssumption DEF CanTakeMatch, Open
  <1> QED BY <1>1 DEF OrderInv, WorkInOrder, InOrder, Ready

\* At the start nothing has begun, and only tasks without prerequisites in open phases
\* are queued.
LEMMA OrderInit == Init => OrderInv
  <1> SUFFICES ASSUME Init PROVE OrderInv
    OBVIOUS
  <1> DEFINE a == CommitItems(EmptyPool, Task)
             dead == {t \in Task : DependsOn[t] \cap EmptyPool.failed # {}}
             waiting == {t \in Task \ dead : UnresolvedDeps(EmptyPool, t) # {}}
  <1>1. InOrder(a, Succeeded, ended)
    BY OrderEmpty, OrderCommit
  <1>2. Commits(EmptyPool, Task, dead, waiting, a)
    BY EmptyPoolType, CommitFields, Zenon
  <1>3. a.queued \cap a.blocked = {}
    BY <1>2, Zenon DEF Commits, EmptyPool
  <1> HIDE DEF a
  <1>4. pool = TransitionDrain(a, Phase)
    BY DEF Init, DrainEmptyActivePhases, a
  <1>5. InOrder(pool, Succeeded, ended) /\ Shrinks(a, pool)
    BY <1>1, <1>4, OrderDrain
  <1>6. TypeOK
    <2>1. pool \in Pool
      BY <1>5 DEF InOrder
    <2>2. passes \in [Phase -> [Retryable -> Nat]]
      BY DEF Init
    <2> QED BY <2>1, <2>2, EnvironmentAssumption DEF Init, TypeOK, Status, Kind
  <1>7. StartedReady
    BY SecondaryAssumption DEF Init, StartedReady, Started, Held, Touched, Ran, Retryable
  <1>8. SetupsApart
    BY <1>3, <1>5, SetupAssumption DEF Init, SetupsApart, SetupApart, Held, Shrinks, Retryable
  <1>9. SuccessKnown /\ SuccessKept /\ InheritedOpen /\ EndedInOrder
    BY DEF Init, SuccessKnown, SuccessKept, InheritedOpen, EndedInOrder
  <1> QED BY <1>5, <1>6, <1>7, <1>8, <1>9 DEF OrderInv, WorkInOrder

\* What the pool gives up has not completed.
LEMMA LostIsOpen ==
    ASSUME OrderInv, NEW T, T \subseteq pool.blocked, NEW u \in TerminalCascade(T)
    PROVE  u \in Task /\ ledger[u] # "completed" /\ u \in pool.blocked
  <1>1. u \in pool.blocked /\ u \notin completed /\ u \in Task
    BY DEF TerminalCascade, OrderInv, TypeOK, Pool
  <1> QED BY <1>1 DEF OrderInv, WorkInOrder, SuccessKnown, SetupsApart, SetupApart, InPool

\* The pool a terminal starts from.
LEMMA OrderReclaimed ==
    ASSUME OrderInv, NEW t \in Task, Residue(t), NEW q, q = Reclaimed(t)
    PROVE  /\ InOrder(q, Succeeded, ended) /\ Shrinks(pool, q) /\ q.blocked = pool.blocked
  <1>1. CASE Held(t)
    BY <1>1 DEF Reclaimed, OrderInv, WorkInOrder, Shrinks
  <1>2. CASE ~Held(t)
    <2>1. q = Taken(pool, t)
      BY <1>2 DEF Reclaimed, TakeMatch, Taken
    <2>2. Takes(pool, t, q)
      BY <2>1, TakenFields DEF OrderInv, TypeOK
    <2> QED BY <2>1, <2>2, OrderTaken DEF OrderInv, WorkInOrder, Takes
  <1> QED BY <1>1, <1>2

\* What is dispatched came out of the queue of an open phase.
LEMMA OrderDispatch ==
    ASSUME OrderInv, NEW t \in Task, NEW s \in Secondary, Dispatch(t, s)
    PROVE  WorkInOrder'
  <1> USE DEF OrderInv, WorkInOrder
  <1>1. Ready(t) /\ t \in pool.queued /\ t \notin SetupTask
    BY TakeReadyTask DEF Dispatch, CanTakeMatch
  <1>2. \A u \in Task : Held(u)' => Held(u) \/ u = t
    BY DEF Dispatch, Held, TypeOK
  <1>3. \A u \in Task : ledger'[u] = IF u = t /\ ledger[t] = "pending" THEN "inflight" ELSE ledger[u]
    BY DEF Dispatch, TypeOK
  <1>4. \A u \in Task : Touched(u)' => Touched(u) \/ u = t
    BY DEF Dispatch, Receive, Touched
  <1>5. /\ failed' = failed /\ completed' = completed /\ ended' = ended
        /\ inherited' = inherited \ {t} /\ inherited \subseteq Task
    BY DEF Dispatch, NoCascade, phaseVars, TypeOK
  <1>6. StartedReady' /\ Succeeded \subseteq Succeeded'
    BY <1>1, <1>2, <1>3, <1>4, <1>5, StartedStep, Zenon DEF Started, Ran
  <1>7. InOrder(pool', Succeeded, ended) /\ Shrinks(pool, pool')
    BY OrderTakeAt DEF Dispatch
  <1>8. InOrder(pool', Succeeded', ended')
    BY <1>5, <1>6, <1>7, OrderGrows
  <1>9. SuccessKnown' /\ SuccessKept' /\ InheritedOpen'
    BY <1>2, <1>3, <1>5 DEF SuccessKnown, SuccessKept, InheritedOpen
  <1>10. SetupsApart'
    BY <1>1, <1>2, <1>3, <1>5, <1>7, SetupAssumption DEF SetupsApart, SetupApart, Shrinks, InPool
  <1> QED BY <1>5, <1>6, <1>8, <1>9, <1>10 DEF EndedInOrder

\* A step that changes nothing but which reports are on their way.
LEMMA OrderIdle ==
    ASSUME OrderInv, UNCHANGED <<work, ended, inherited>>, \A u \in Task : Touched(u)' => Touched(u)
    PROVE  WorkInOrder'
  <1>1. \A u \in Task : Started(u)' => Started(u)
    BY DEF Started, Held, work
  <1>2. StartedReady'
    BY <1>1, StartedStep DEF OrderInv, WorkInOrder, work
  <1> QED BY <1>2 DEF OrderInv, WorkInOrder, work, Succeeded, With, SuccessKnown,
             SuccessKept, InheritedOpen, SetupsApart, SetupApart, InPool, Held, EndedInOrder

\* The end of an execution only turns it into a report.
LEMMA OrderFinish ==
    ASSUME OrderInv, NEW t \in Task, NEW s \in Secondary, NEW res, Finish(t, s, res)
    PROVE  WorkInOrder'
  <1>1. UNCHANGED <<work, ended, inherited>>
    BY DEF Finish, phaseVars
  <1>2. \A u \in Task : Touched(u)' => Touched(u)
    BY DEF Finish, Touched
  <1> QED BY <1>1, <1>2, OrderIdle

\* A step that works on the pool alone, and leaves the tasks where they are.
LEMMA OrderPoolStep ==
    ASSUME OrderInv, InOrder(pool', Succeeded, ended), Shrinks(pool, pool'),
           UNCHANGED <<inFlight, completed, failed, ledger, ended, net>>
    PROVE  WorkInOrder'
  <1>1. \A u \in Task : Started(u)' => Started(u)
    BY DEF Started, Held, Touched, net
  <1>2. StartedReady'
    BY <1>1, StartedStep DEF OrderInv, WorkInOrder
  <1>3. SetupsApart'
    BY DEF OrderInv, WorkInOrder, SetupsApart, SetupApart, InPool, Held, Shrinks
  <1> QED BY <1>2, <1>3 DEF OrderInv, WorkInOrder, Succeeded, With, SuccessKnown,
             SuccessKept, InheritedOpen, Held, EndedInOrder, net

\* poll_drained takes the drain edges or makes new ones.
LEMMA OrderPoll ==
    ASSUME OrderInv, Poll
    PROVE  WorkInOrder'
  <1>1. InOrder(pool, Succeeded, ended)
    BY DEF OrderInv, WorkInOrder
  <1>2. CASE pool' = [pool EXCEPT !.drained = {}]
    BY <1>1, <1>2, OrderDrained, OrderPoolStep DEF Poll, InCascade
  <1>3. CASE pool' = DrainEmptyActivePhases(pool)
    BY <1>1, <1>3, OrderDrain, OrderPoolStep DEF Poll, InCascade, DrainEmptyActivePhases
  <1> QED BY <1>2, <1>3 DEF Poll

\* So does the second look at the phases.
LEMMA OrderLookAgain ==
    ASSUME OrderInv, LookAgain
    PROVE  WorkInOrder'
  <1>1. InOrder(pool, Succeeded, ended)
    BY DEF OrderInv, WorkInOrder
  <1> QED BY <1>1, OrderDrain, OrderPoolStep DEF LookAgain, InCascade, DrainEmptyActivePhases

\* Drained phases announce themselves again.
LEMMA OrderResurface ==
    ASSUME OrderInv, Resurface
    PROVE  WorkInOrder'
  <1> DEFINE P == pool.drained \cup {p \in Phase : pool.state[p] = "Drained"}
  <1>1. InOrder(pool, Succeeded, ended) /\ P \in SUBSET Phase
    BY DEF OrderInv, WorkInOrder, InOrder, Pool
  <1>2. pool' = [pool EXCEPT !.drained = P]
    BY DEF Resurface, ResurfaceDrainedPending
  <1> HIDE DEF P
  <1> QED BY <1>1, <1>2, OrderDrained, OrderPoolStep DEF Resurface, EnterCascade

\* The end of the run leaves the pool alone.
LEMMA OrderVerdict ==
    ASSUME OrderInv, Abort \/ Complete
    PROVE  WorkInOrder'
  <1>1. InOrder(pool, Succeeded, ended) /\ Shrinks(pool, pool)
    BY DEF OrderInv, WorkInOrder, Shrinks
  <1> QED BY <1>1, OrderPoolStep DEF Abort, Complete, work

-----------------------------------------------------------------------------
\* A report is about a task that has begun, and handling it adds no report.
LEMMA OrderConsume ==
    ASSUME OrderInv, NEW m \in wire, Consume(m)
    PROVE  /\ m.t \in Task /\ Ready(m.t)
           /\ \A u \in Task : Touched(u)' => Touched(u)
           /\ inherited' = inherited
  <1>1. m.t \in Task /\ Touched(m.t)
    BY DEF OrderInv, TypeOK, Report, Touched
  <1>2. \A u \in Task : Touched(u)' => Touched(u)
    BY DEF Consume, Touched
  <1> QED BY <1>1, <1>2 DEF Consume, OrderInv, WorkInOrder, StartedReady, Started

\* A step that does nothing to the setup tasks keeps them apart.
LEMMA SetupsLeftAlone ==
    ASSUME SetupsApart,
           \A u \in SetupTask : ledger'[u] = ledger[u] /\ failed'[u] = failed[u],
           \A u \in SetupTask : Held(u)' => Held(u),
           \A u \in SetupTask : InPool(u)' => InPool(u),
           \A u \in SetupTask : u \in pool'.queued /\ u \in pool'.blocked =>
                                   u \in pool.queued /\ u \in pool.blocked
    PROVE  SetupsApart'
  <1> SUFFICES ASSUME NEW u \in SetupTask PROVE SetupApart(u)'
    BY Zenon DEF SetupsApart
  <1>1. SetupApart(u)
    BY Zenon DEF SetupsApart
  <1> QED BY <1>1, Zenon DEF SetupApart

\* A success resolves dependents, in the ledger as in the pool.
LEMMA OrderTaskComplete ==
    ASSUME OrderInv, NEW m \in wire, m.t \notin SetupTask, Consume(m), HandleTaskComplete(m)
    PROVE  WorkInOrder'
  <1> DEFINE t == m.t
  <1> USE DEF OrderInv, WorkInOrder
  <1>1. /\ t \in Task /\ Ready(t) /\ \A u \in Task : Touched(u)' => Touched(u)
        /\ inherited' = inherited
    BY OrderConsume
  <1> HIDE DEF t
  <1>2. CASE t \in completed
    <2>1. UNCHANGED <<work, ended>>
      BY <1>2 DEF HandleTaskComplete, t, NoCascade, phaseVars
    <2> QED BY <1>1, <2>1, OrderIdle
  <1>3. CASE t \notin completed
    <2>1. /\ completed' = completed \cup {t} /\ ended' = ended
          /\ \A u \in Task : ledger'[u] = IF u = t THEN "completed" ELSE ledger[u]
          /\ \A u \in Task : failed'[u] = IF u = t THEN "none" ELSE failed[u]
          /\ \A u \in Task : Held(u)' => Held(u) /\ u # t
      BY <1>1, <1>3, Zenon DEF HandleTaskComplete, t, NoCascade, phaseVars, EnterCascade, Held, TypeOK
    <2>2. \A u \in Task : Started(u)' => Started(u) \/ Ready(u)
      BY <1>1, <2>1 DEF Started
    <2>3. StartedReady' /\ Succeeded \subseteq Succeeded'
      BY <2>1, <2>2, StartedStep
    <2>4. InOrder(pool', Succeeded', ended') /\ Shrinks(pool, pool')
      <3>1. CASE Residue(t)
        <4> DEFINE q == Reclaimed(t)
        <4>1. pool' = OnItemFinished(q, t)
          BY <1>3, <3>1 DEF HandleTaskComplete, t
        <4>2. InOrder(q, Succeeded, ended) /\ Shrinks(pool, q)
          BY <1>1, <3>1, OrderReclaimed
        <4> HIDE DEF q
        <4>3. InOrder(q, Succeeded', ended')
          BY <4>2, <2>1, <2>3, OrderGrows
        <4>4. t \in Succeeded'
          BY <1>1, <2>1, Zenon DEF Succeeded, With
        <4>5. InOrder(pool', Succeeded', ended') /\ Shrinks(q, pool')
          BY <1>1, <4>1, <4>3, <4>4, OrderFinished
        <4> QED BY <4>2, <4>5 DEF Shrinks
      <3>2. CASE ~Residue(t)
        <4>1. pool' = pool
          BY <1>3, <3>2 DEF HandleTaskComplete, t
        <4> QED BY <4>1, <2>1, <2>3, OrderGrows DEF Shrinks
      <3> QED BY <3>1, <3>2
    <2>5. SuccessKnown' /\ SuccessKept' /\ InheritedOpen'
      BY <1>1, <2>1 DEF SuccessKnown, SuccessKept, InheritedOpen, TypeOK, Retryable
    <2>6. SetupsApart'
      <3>1. \A u \in SetupTask : u \in Task /\ u # t
        BY SetupAssumption DEF t
      <3>2. \A u \in SetupTask : InPool(u)' => InPool(u)
        BY <2>4, Zenon DEF Shrinks, InPool
      <3>3. \A u \in SetupTask : u \in pool'.queued /\ u \in pool'.blocked =>
                                    u \in pool.queued /\ u \in pool.blocked
        BY <2>4, Zenon DEF Shrinks
      <3> QED BY <2>1, <3>1, <3>2, <3>3, SetupsLeftAlone
    <2> QED BY <2>1, <2>3, <2>4, <2>5, <2>6 DEF EndedInOrder
  <1> QED BY <1>2, <1>3

\* A failure, retryable or not, takes no success back and queues nothing.
LEMMA OrderTaskFailed ==
    ASSUME OrderInv, NEW m \in wire, m.t \notin SetupTask, Consume(m), HandleTaskFailed(m)
    PROVE  WorkInOrder'
  <1> DEFINE t == m.t
             k == m.res
             lost == IF k = "final" /\ Residue(t)
                     THEN TerminalCascade(Cascaded(Reclaimed(t), {t})) ELSE {}
  <1> USE DEF OrderInv, WorkInOrder
  <1>1. /\ t \in Task /\ Ready(t) /\ \A u \in Task : Touched(u)' => Touched(u)
        /\ inherited' = inherited /\ k \in Kind
    BY OrderConsume DEF HandleTaskFailed, IsFailure
  <1>2. CASE t \in completed \/ failed[t] # "none"
    <2>1. UNCHANGED <<work, ended>>
      BY <1>2 DEF HandleTaskFailed, t, NoCascade, phaseVars
    <2> QED BY <1>1, <2>1, OrderIdle
  <1>3. CASE ~(t \in completed \/ failed[t] # "none")
    <2>1. /\ failed' = Set([failed EXCEPT ![t] = k], lost, "final")
          /\ ledger' = Set([ledger EXCEPT ![t] = k], lost, "final")
          /\ completed' = completed /\ ended' = ended
          /\ inFlight' = [inFlight EXCEPT ![t] = NoSecondary]
      BY <1>3 DEF HandleTaskFailed, NoCascade, phaseVars, EnterCascade
    <2>2. \A u \in lost : ledger[u] # "completed"
      <3>1. CASE k = "final" /\ Residue(t)
        <4>1. Reclaimed(t).blocked = pool.blocked
          BY <1>1, <3>1, OrderReclaimed
        <4>2. Cascaded(Reclaimed(t), {t}) \subseteq pool.blocked
          BY <4>1 DEF Cascaded
        <4> QED BY <3>1, <4>2, LostIsOpen
      <3> QED BY <3>1
    <2>3. ledger[t] # "completed"
      BY <1>1, <1>3 DEF SuccessKnown, t
    <2>4. InOrder(pool', Succeeded, ended) /\ Shrinks(pool, pool')
      <3>1. CASE Residue(t)
        <4> DEFINE q == Reclaimed(t)
        <4>1. \/ pool' = OnItemFailedPendingRetry(q, t)
              \/ pool' = OnItemFailedPermanent(q, t)
              \/ pool' = OnItemReleased(q, PhaseOf[t])
          BY <1>1, <1>3, <3>1 DEF HandleTaskFailed, t, Kind
        <4>2. InOrder(q, Succeeded, ended) /\ Shrinks(pool, q) /\ PhaseOf[t] \in Phase
          BY <1>1, <3>1, OrderReclaimed, PhaseOfAssumption
        <4> HIDE DEF q, t
        <4>3. InOrder(pool', Succeeded, ended) /\ Shrinks(q, pool')
          BY <1>1, <4>1, <4>2, OrderFailedPendingRetry, OrderFailedPermanent, OrderReleased
        <4> QED BY <4>2, <4>3 DEF Shrinks
      <3>2. CASE ~Residue(t)
        <4>1. pool' = pool
          BY <1>3, <3>2 DEF HandleTaskFailed, t
        <4> QED BY <4>1 DEF Shrinks
      <3> QED BY <3>1, <3>2
    <2> HIDE DEF lost, t, k
    <2>5. /\ \A u \in Task : ledger'[u] = IF u \in lost THEN "final"
                                          ELSE IF u = t THEN k ELSE ledger[u]
          /\ \A u \in Task : failed'[u] = IF u \in lost THEN "final"
                                          ELSE IF u = t THEN k ELSE failed[u]
          /\ \A u \in Task : Held(u)' => Held(u) /\ u # t
      BY <1>1, <2>1 DEF Set, TypeOK, Held
    <2>6. \A u \in Task : Started(u)' => Started(u) \/ Ready(u)
      BY <1>1, <2>5, Zenon DEF Started, Ran, Retryable
    <2>7. \A u \in Task : ledger[u] = "completed" => ledger'[u] = "completed"
      BY <2>2, <2>3, <2>5
    <2>8. StartedReady' /\ Succeeded \subseteq Succeeded'
      BY <2>1, <2>6, <2>7, StartedStep, Zenon
    <2>9. InOrder(pool', Succeeded', ended')
      BY <2>1, <2>4, <2>8, OrderGrows
    <2>10. k # "completed" /\ t \notin SetupTask
      BY <1>1 DEF Kind, Retryable, t
    <2>11. SuccessKnown' /\ SuccessKept' /\ InheritedOpen'
      BY <1>1, <2>1, <2>5, <2>10, Zenon DEF SuccessKnown, SuccessKept, InheritedOpen, TypeOK, Retryable
    <2>12. SetupsApart'
      BY <1>1, <2>4, <2>5, <2>10, SetupAssumption, Zenon
         DEF SetupsApart, SetupApart, Shrinks, InPool, Retryable
    <2> QED BY <2>1, <2>8, <2>9, <2>11, <2>12 DEF EndedInOrder
  <1> QED BY <1>2, <1>3

\* The tasks T, which have begun and not completed, go back to the queue, or
\* into it again; a setup task among them comes from its secondary.
LEMMA OrderBackStep ==
    ASSUME OrderInv, NEW T \in SUBSET Task, \A t \in T : Started(t),
           InOrder(pool', Succeeded, ended), Joins(pool, T, pool'),
           \A t \in T \cap SetupTask : Held(t) /\ ledger'[t] # "completed",
           \A t \in Task : Held(t)' => Held(t) /\ t \notin T,
           \A t \in Task : Touched(t)' => Touched(t),
           \A t \in Task : ledger[t] = "completed" => ledger'[t] = "completed",
           \A t \in Task : ledger'[t] # ledger[t] => ledger'[t] \in {"pending", "final"},
           \A t \in Task : failed'[t] # failed[t] => failed'[t] = "none",
           completed' = completed, ended' = ended, inherited' \subseteq inherited
    PROVE  WorkInOrder'
  <1> USE DEF OrderInv, WorkInOrder
  <1>1. \A t \in Task : Started(t)' => Started(t)
    BY DEF Started, Ran, Retryable
  <1>2. StartedReady' /\ Succeeded \subseteq Succeeded'
    BY <1>1, StartedStep, Zenon
  <1>3. InOrder(pool', Succeeded', ended')
    BY <1>2, OrderGrows
  <1>4. SuccessKnown' /\ SuccessKept' /\ InheritedOpen'
    BY Zenon DEF SuccessKnown, SuccessKept, InheritedOpen, TypeOK, Retryable
  <1>5. SetupsApart'
    <2> SUFFICES ASSUME NEW t \in SetupTask PROVE SetupApart(t)'
      BY DEF SetupsApart
    <2>1. t \in Task /\ SetupApart(t)
      BY SetupAssumption DEF SetupsApart
    <2>2. failed'[t] \notin Retryable /\ ledger'[t] \notin Retryable \cup {"unfulfillable"}
      BY <2>1 DEF SetupApart, Retryable
    <2>3. CASE t \in T
      BY <2>1, <2>2, <2>3 DEF SetupApart, Joins, InPool
    <2>4. CASE t \notin T
      <3>1. ledger'[t] = "completed" => ledger[t] = "completed"
        BY <2>1, Zenon
      <3> QED BY <2>1, <2>2, <2>4, <3>1, Zenon DEF SetupApart, Joins, InPool
    <2> QED BY <2>3, <2>4, Zenon
  <1> QED BY <1>2, <1>3, <1>4, <1>5 DEF EndedInOrder

\* A refused or bounced task had begun, so it may go back to the queue.
LEMMA OrderGiveBack ==
    ASSUME OrderInv, NEW m \in wire, m.t \notin SetupTask, Consume(m), GiveBack(m.t)
    PROVE  WorkInOrder'
  <1> DEFINE t == m.t
  <1> USE DEF OrderInv, WorkInOrder
  <1>1. /\ t \in Task /\ Ready(t) /\ \A u \in Task : Touched(u)' => Touched(u)
        /\ inherited' = inherited
    BY OrderConsume
  <1>2. ended' = ended
    BY DEF GiveBack, NoCascade, phaseVars
  <1>3. CASE ~Held(t)
    <2>1. UNCHANGED work
      BY <1>3 DEF GiveBack
    <2> QED BY <1>1, <1>2, <2>1, OrderIdle
  <1>4. CASE Held(t)
    <2>1. /\ inFlight' = [inFlight EXCEPT ![t] = NoSecondary] /\ pool' = Requeue(pool, {t})
          /\ ledger' = IF ledger[t] = "inflight" THEN [ledger EXCEPT ![t] = "pending"] ELSE ledger
          /\ completed' = completed /\ failed' = failed
      BY <1>4 DEF GiveBack
    <2> HIDE DEF t
    <2>2. InOrder(pool', Succeeded, ended) /\ Joins(pool, {t}, pool')
      BY <1>1, <2>1, OrderRequeue, Zenon DEF Ready
    <2>3. \A u \in Task : Held(u)' => Held(u) /\ u \notin {t}
      BY <1>1, <2>1 DEF Held, TypeOK
    <2>4. \A u \in Task : ledger'[u] = IF u = t /\ ledger[t] = "inflight" THEN "pending" ELSE ledger[u]
      BY <1>1, <2>1 DEF TypeOK
    <2>5. Started(t) /\ {t} \in SUBSET Task /\ {t} \cap SetupTask = {}
      BY <1>1, <1>4 DEF Started, t
    <2> QED BY <1>1, <1>2, <2>1, <2>2, <2>3, <2>4, <2>5, OrderBackStep, Zenon
  <1> QED BY <1>3, <1>4

\* Every report keeps the order.
LEMMA OrderReport ==
    ASSUME OrderInv, NEW m \in wire, HandleReport(m)
    PROVE  WorkInOrder'
  BY OrderTaskComplete, OrderTaskFailed, OrderGiveBack
     DEF HandleReport, HandleBackpressure, HandleIllegallyAssigned

\* The tasks of a dead secondary had begun, so they may begin again.
LEMMA OrderDeclareDead ==
    ASSUME OrderInv, NEW s \in Secondary, DeclareDead(s)
    PROVE  WorkInOrder'
  <1> DEFINE back == HeldBy(s) \ SetupTask
             gone == HeldBy(s) \cap SetupTask
  <1> USE DEF OrderInv, WorkInOrder
  <1>1. back \in SUBSET Task /\ back \cap SetupTask = {} /\ gone \subseteq SetupTask
    BY DEF HeldBy
  <1>2. \A t \in back \cup gone : Held(t) /\ t \in Task
    BY SecondaryAssumption DEF HeldBy, Held
  <1>3. \A t \in back : Started(t) /\ Ready(t)
    BY <1>1, <1>2, Zenon DEF Started, StartedReady
  <1>4. /\ pool' = Requeue(pool, back)
        /\ ledger' = Set(Set(ledger, {t \in back : ledger[t] = "inflight"}, "pending"), gone, "final")
        /\ completed' = completed /\ failed' = failed /\ ended' = ended /\ inherited' = inherited
        /\ running' = running /\ wire' = wire
    BY Zenon DEF DeclareDead, NoCascade, phaseVars
  <1>5. inFlight' = Set(inFlight, back \cup gone, NoSecondary)
    <2>1. back \cup gone = HeldBy(s)
      OBVIOUS
    <2> QED BY <2>1, Zenon DEF DeclareDead
  <1> HIDE DEF back, gone
  <1>6. InOrder(pool', Succeeded, ended) /\ Joins(pool, back, pool')
    BY <1>1, <1>3, <1>4, OrderRequeue, Zenon DEF Ready
  <1>7. \A t \in Task : Held(t)' => Held(t) /\ t \notin back
    BY <1>5 DEF Held, Set, TypeOK
  <1>8. \A t \in Task : ledger'[t] = IF t \in gone THEN "final"
                                     ELSE IF t \in back /\ ledger[t] = "inflight" THEN "pending"
                                     ELSE ledger[t]
    BY <1>4 DEF Set, TypeOK
  <1>9. \A t \in gone : ledger[t] # "completed"
    BY <1>1, <1>2, Zenon DEF SetupsApart, SetupApart
  <1>10. /\ \A t \in Task : ledger[t] = "completed" => ledger'[t] = "completed"
         /\ \A t \in Task : ledger'[t] # ledger[t] => ledger'[t] \in {"pending", "final"}
    BY <1>8, <1>9, Zenon
  <1>11. \A t \in Task : Touched(t)' => Touched(t)
    BY <1>4, Zenon DEF Touched
  <1> QED BY <1>1, <1>3, <1>4, <1>6, <1>7, <1>10, <1>11, OrderBackStep, Zenon

\* So had an inherited task that nobody holds any more.
LEMMA OrderReconcile ==
    ASSUME OrderInv, NEW t \in Task, ReconcileInherited(t)
    PROVE  WorkInOrder'
  <1> USE DEF OrderInv, WorkInOrder
  <1>1. /\ Held(t) /\ t \in inherited /\ pool' = Requeue(pool, {t})
        /\ inFlight' = [inFlight EXCEPT ![t] = NoSecondary]
        /\ ledger' = [ledger EXCEPT ![t] = "pending"]
        /\ inherited' \subseteq inherited
        /\ completed' = completed /\ failed' = failed /\ ended' = ended
        /\ running' = running /\ wire' = wire
    BY DEF ReconcileInherited, NoCascade, phaseVars
  <1>2. Started(t) /\ Ready(t) /\ ledger[t] # "completed"
    BY <1>1 DEF Started, StartedReady, InheritedOpen
  <1>3. InOrder(pool', Succeeded, ended) /\ Joins(pool, {t}, pool')
    BY <1>1, <1>2, OrderRequeue, Zenon DEF Ready
  <1>4. \A u \in Task : Held(u)' => Held(u) /\ u \notin {t}
    BY <1>1 DEF Held, TypeOK
  <1>5. \A u \in Task : ledger'[u] = IF u = t THEN "pending" ELSE ledger[u]
    BY <1>1 DEF TypeOK
  <1>6. \A u \in Task : Touched(u)' => Touched(u)
    BY <1>1 DEF Touched
  <1> DEFINE T == {t}
  <1>7. T \in SUBSET Task /\ \A u \in T : u = t
    OBVIOUS
  <1>8. InOrder(pool', Succeeded, ended) /\ Joins(pool, T, pool')
    BY <1>3
  <1>9. \A u \in Task : Held(u)' => Held(u) /\ u \notin T
    BY <1>4
  <1> HIDE DEF T
  <1>10. /\ \A u \in T : Started(u)
         /\ \A u \in T \cap SetupTask : Held(u) /\ ledger'[u] # "completed"
    BY <1>1, <1>2, <1>5, <1>7
  <1>11. /\ \A u \in Task : ledger[u] = "completed" => ledger'[u] = "completed"
         /\ \A u \in Task : ledger'[u] # ledger[u] => ledger'[u] \in {"pending", "final"}
    BY <1>2, <1>5
  <1> QED BY <1>1, <1>6, <1>7, <1>8, <1>9, <1>10, <1>11, OrderBackStep

\* A task an operator revives had begun before it was given up.
LEMMA OrderReinjectTask ==
    ASSUME OrderInv, NEW t \in Task, ReinjectTask(t)
    PROVE  WorkInOrder'
  <1> USE DEF OrderInv, WorkInOrder
  <1>1. /\ ledger[t] = "unfulfillable" /\ pool' = Reinject(pool, {t}, PhaseOf[t])
        /\ failed' = [failed EXCEPT ![t] = "none"]
        /\ ledger' = [ledger EXCEPT ![t] = "pending"]
        /\ inFlight' = inFlight /\ completed' = completed /\ inherited' = inherited
        /\ running' = running /\ wire' = wire /\ ended' = ended
    BY DEF ReinjectTask, net, NoCascade, phaseVars
  <1>2. Started(t) /\ Ready(t) /\ t \notin SetupTask /\ t \notin pool.done
    BY <1>1, Zenon DEF Started, Ran, StartedReady, SetupsApart, SetupApart, InOrder, Succeeded, With
  <1>3. InOrder(pool', Succeeded, ended) /\ Joins(pool, {t}, pool')
    BY <1>1, <1>2, OrderReinject, PhaseOfAssumption, Zenon DEF Ready
  <1>4. /\ \A u \in Task : ledger'[u] = IF u = t THEN "pending" ELSE ledger[u]
        /\ \A u \in Task : failed'[u] = IF u = t THEN "none" ELSE failed[u]
    BY <1>1 DEF TypeOK
  <1>5. \A u \in Task : Started(u)' => Started(u)
    BY <1>1, <1>4, Zenon DEF Started, Ran, Touched, Held, Retryable
  <1>6. StartedReady' /\ Succeeded \subseteq Succeeded'
    BY <1>1, <1>4, <1>5, StartedStep
  <1>7. InOrder(pool', Succeeded', ended')
    BY <1>1, <1>3, <1>6, OrderGrows
  <1>8. SuccessKnown' /\ SuccessKept' /\ InheritedOpen'
    BY <1>1, <1>4 DEF SuccessKnown, SuccessKept, InheritedOpen, TypeOK, Retryable, Held
  <1>9. SetupsApart'
    <2>1. \A u \in SetupTask : u \in Task /\ u # t
      BY <1>2, SetupAssumption
    <2>2. \A u \in SetupTask : InPool(u)' => InPool(u)
      BY <1>3, <2>1, Zenon DEF Joins, InPool
    <2>3. \A u \in SetupTask : u \in pool'.queued /\ u \in pool'.blocked =>
                                  u \in pool.queued /\ u \in pool.blocked
      BY <1>3, <2>1, Zenon DEF Joins
    <2>4. \A u \in SetupTask : Held(u)' => Held(u)
      BY <1>1 DEF Held
    <2> QED BY <1>4, <2>1, <2>2, <2>3, <2>4, SetupsLeftAlone
  <1> QED BY <1>1, <1>6, <1>7, <1>8, <1>9, Zenon DEF EndedInOrder

\* settle_setup_terminal, for a task that was in flight or has just been taken.
LEMMA OrderSettle ==
    ASSUME OrderInv, NEW t \in SetupTask, Ready(t), NEW q, InOrder(q, Succeeded, ended),
           Shrinks(pool, q), t \notin q.queued \cup q.blocked, ledger[t] # "completed",
           NEW res, SettleSetup(q, t, res),
           \A u \in Task : Touched(u)' => Touched(u), inherited' = inherited
    PROVE  WorkInOrder'
  <1> DEFINE lost == Cascaded(q, {t})
  <1> USE DEF OrderInv, WorkInOrder
  <1>1. t \in Task /\ PhaseOf[t] \in Phase
    BY SetupAssumption, PhaseOfAssumption
  <1>2. /\ completed' = completed /\ ended' = ended
        /\ \A u \in Task : Held(u)' => Held(u) /\ u # t
    BY <1>1, Zenon DEF SettleSetup, EnterCascade, Held, TypeOK
  <1>3. /\ \A u \in Task : ledger'[u] = IF u = t THEN ledger'[t] ELSE ledger[u]
        /\ ledger'[t] \in {"completed", "final"}
        /\ res = "ok" <=> ledger'[t] = "completed"
    BY <1>1, Zenon DEF SettleSetup, TypeOK
  <1>4. \A u \in Task : failed'[u] # failed[u] => failed'[u] = "final"
    BY Zenon DEF SettleSetup, Set, TypeOK
  <1>5. \A u \in Task : Started(u)' => Started(u) \/ Ready(u)
    BY <1>1, <1>2, <1>3, <1>4, Zenon DEF Started, Ran, Retryable
  <1>6. StartedReady' /\ Succeeded \subseteq Succeeded'
    BY <1>2, <1>3, <1>5, StartedStep, Zenon
  <1>7. InOrder(q, Succeeded', ended')
    BY <1>2, <1>6, OrderGrows, Zenon
  <1>8. InOrder(pool', Succeeded', ended') /\ Shrinks(q, pool')
    <2>1. CASE res = "ok"
      <3>1. pool' = OnItemFinished(q, t) /\ t \in Succeeded'
        BY <1>1, <1>3, <2>1, Zenon DEF SettleSetup, Succeeded, With
      <3> QED BY <1>1, <1>7, <3>1, OrderFinished
    <2>2. CASE res # "ok"
      <3> DEFINE a == OnItemFailedPermanent(q, t)
      <3>1. pool' = OnItemReleased(a, PhaseOf[t])
        BY <2>2, Zenon DEF SettleSetup
      <3>2. InOrder(a, Succeeded', ended') /\ Shrinks(q, a)
        BY <1>1, <1>7, OrderFailedPermanent, Zenon
      <3> HIDE DEF a
      <3>3. InOrder(pool', Succeeded', ended') /\ Shrinks(a, pool')
        BY <1>1, <3>1, <3>2, OrderReleased, Zenon
      <3> QED BY <3>2, <3>3, Zenon DEF Shrinks
    <2> QED BY <2>1, <2>2
  <1>9. SuccessKnown' /\ SuccessKept' /\ InheritedOpen'
    BY <1>1, <1>2, <1>3, <1>4, Zenon
       DEF SuccessKnown, SuccessKept, InheritedOpen, TypeOK, Retryable, SetupsApart, SetupApart
  <1>10. SetupsApart'
    <2> SUFFICES ASSUME NEW u \in SetupTask PROVE SetupApart(u)'
      BY Zenon DEF SetupsApart
    <2>1. u \in Task /\ SetupApart(u)
      BY SetupAssumption, Zenon DEF SetupsApart
    <2>2. failed'[u] \notin Retryable /\ ledger'[u] \notin Retryable \cup {"unfulfillable"}
      BY <1>3, <1>4, <2>1, Zenon DEF SetupApart, Retryable
    <2>3. CASE u = t
      BY <1>1, <1>2, <1>8, <2>2, <2>3, Zenon DEF SetupApart, Shrinks, InPool
    <2>4. CASE u # t
      BY <1>2, <1>3, <1>8, <2>1, <2>2, <2>4, Zenon DEF SetupApart, Shrinks, InPool
    <2> QED BY <2>3, <2>4, Zenon
  <1> QED BY <1>2, <1>6, <1>8, <1>9, <1>10, Zenon DEF EndedInOrder

\* A setup task out of the queue.
LEMMA OrderSetupTaken ==
    ASSUME OrderInv, NEW t \in SetupTask, CanTakeMatch(pool, t),
           NEW q, q = MarkInFlight(TakeMatch(pool, t), PhaseOf[t])
    PROVE  /\ t \in Task /\ Ready(t) /\ InOrder(q, Succeeded, ended) /\ Shrinks(pool, q)
           /\ t \notin q.queued \cup q.blocked /\ ledger[t] # "completed"
  <1>1. t \in Task /\ t \in pool.queued
    BY SetupAssumption DEF CanTakeMatch
  <1>2. q = Taken(pool, t)
    BY DEF Taken, TakeMatch
  <1>3. Takes(pool, t, q)
    BY <1>1, <1>2, TakenFields, Zenon DEF OrderInv, TypeOK
  <1>4. InOrder(q, Succeeded, ended) /\ Shrinks(pool, q)
    BY <1>1, <1>2, OrderTaken, Zenon DEF OrderInv, WorkInOrder
  <1>5. t \notin pool.blocked /\ ledger[t] # "completed"
    BY <1>1 DEF OrderInv, WorkInOrder, SetupsApart, SetupApart, InPool
  <1> QED BY <1>1, <1>3, <1>4, <1>5, TakeReadyTask, Zenon DEF Takes

\* A setup task that is run by the primary is taken from the queue and settled in one
\* step.
LEMMA OrderRunSetup ==
    ASSUME OrderInv, NEW t \in SetupTask, NEW res, RunSetupLocally(t, res)
    PROVE  WorkInOrder'
  <1> DEFINE q == MarkInFlight(TakeMatch(pool, t), PhaseOf[t])
  <1>1. CanTakeMatch(pool, t) /\ SettleSetup(q, t, res) /\ UNCHANGED net
    BY DEF RunSetupLocally
  <1>2. \A u \in Task : Touched(u)' => Touched(u)
    BY <1>1 DEF Touched, net
  <1>3. /\ Ready(t) /\ InOrder(q, Succeeded, ended) /\ Shrinks(pool, q)
        /\ t \notin q.queued \cup q.blocked /\ ledger[t] # "completed"
    BY <1>1, OrderSetupTaken, Zenon
  <1> HIDE DEF q
  <1> QED BY <1>1, <1>2, <1>3, OrderSettle, Zenon DEF net

\* A setup task that is placed on a member is taken from the queue.
LEMMA OrderAssignSetup ==
    ASSUME OrderInv, NEW t \in SetupTask, AssignSetup(t)
    PROVE  WorkInOrder'
  <1> USE DEF OrderInv, WorkInOrder
  <1>1. /\ t \in Task /\ Ready(t) /\ InOrder(pool', Succeeded, ended) /\ Shrinks(pool, pool')
        /\ t \notin pool'.queued \cup pool'.blocked /\ ledger[t] # "completed"
    BY OrderSetupTaken, Zenon DEF AssignSetup
  <1>2. \A u \in Task : Held(u)' => Held(u) \/ u = t
    BY Zenon DEF AssignSetup, Held, TypeOK
  <1>3. \A u \in Task : ledger'[u] = IF u = t /\ ledger[t] = "pending" THEN "inflight" ELSE ledger[u]
    BY Zenon DEF AssignSetup, TypeOK
  <1>4. \A u \in Task : Touched(u)' => Touched(u) \/ u = t
    BY Zenon DEF AssignSetup, Touched
  <1>5. /\ failed' = failed /\ completed' = completed /\ ended' = ended
        /\ inherited' = inherited /\ inherited \subseteq Task
    BY Zenon DEF AssignSetup, NoCascade, phaseVars, TypeOK
  <1>6. StartedReady' /\ Succeeded \subseteq Succeeded'
    BY <1>1, <1>2, <1>3, <1>4, <1>5, StartedStep, Zenon DEF Started, Ran
  <1>7. InOrder(pool', Succeeded', ended')
    BY <1>1, <1>5, <1>6, OrderGrows
  <1>8. SuccessKnown' /\ SuccessKept' /\ InheritedOpen'
    BY <1>1, <1>2, <1>3, <1>5 DEF SuccessKnown, SuccessKept, InheritedOpen
  <1>9. SetupsApart'
    BY <1>1, <1>2, <1>3, <1>5, SetupAssumption
       DEF SetupsApart, SetupApart, Shrinks, InPool, Retryable
  <1> QED BY <1>5, <1>6, <1>7, <1>8, <1>9, Zenon DEF EndedInOrder

\* The report of a setup task settles it if it is still held.
LEMMA OrderSetupTerminal ==
    ASSUME OrderInv, NEW m \in wire, HandleSetupTerminal(m)
    PROVE  WorkInOrder'
  <1> USE DEF OrderInv, WorkInOrder
  <1>1. /\ m.t \in Task /\ Ready(m.t) /\ \A u \in Task : Touched(u)' => Touched(u)
        /\ inherited' = inherited /\ m.t \in SetupTask
    BY OrderConsume DEF HandleSetupTerminal
  <1>2. CASE Held(m.t)
    <2>1. SettleSetup(pool, m.t, m.res)
      BY <1>2 DEF HandleSetupTerminal
    <2>2. m.t \notin pool.queued \cup pool.blocked /\ ledger[m.t] # "completed"
      BY <1>1, <1>2, Zenon DEF SetupsApart, SetupApart, InPool
    <2>3. InOrder(pool, Succeeded, ended) /\ Shrinks(pool, pool)
      BY Zenon DEF Shrinks
    <2> QED BY <1>1, <2>1, <2>2, <2>3, OrderSettle
  <1>3. CASE ~Held(m.t)
    <2>1. UNCHANGED <<work, ended>>
      BY <1>3 DEF HandleSetupTerminal, NoCascade, phaseVars
    <2> QED BY <1>1, <2>1, OrderIdle
  <1> QED BY <1>2, <1>3

\* The pool a new primary builds from the ledger.
LEMMA OrderHydrated ==
    ASSUME OrderInv
    PROVE  /\ InOrder(HydratedPool, Succeeded, ended)
           /\ HydratedPool.queued \cup HydratedPool.blocked \subseteq With({"pending"})
           /\ HydratedPool.queued \cap HydratedPool.blocked = {}
  <1> DEFINE so == With(Retryable \cup {"final"})
             fl == [p \in Phase |-> Cardinality(With({"inflight"}) \cap TasksOf(p))]
             T  == With({"pending"})
             a  == [EmptyPool EXCEPT !.done = Succeeded, !.soft = so, !.inFlight = fl]
             q  == CommitItems(a, T)
             over == {p \in ended : TasksOf(p) # {} /\ \A t \in TasksOf(p) : ~Live(t)}
             dead == {t \in T : DependsOn[t] \cap a.failed # {}}
             waiting == {t \in T \ dead : UnresolvedDeps(a, t) # {}}
  <1>1. HydratedPool = MarkPhasesDone(q, over)
    BY DEF HydratedPool, Succeeded
  <1>2. so \in SUBSET Task /\ T \in SUBSET Task /\ Succeeded \in SUBSET Task
    BY DEF With, Succeeded
  <1>3. fl \in [Phase -> Nat]
    <2>1. \A p \in Phase : Cardinality(With({"inflight"}) \cap TasksOf(p)) \in Nat
      BY CountOf DEF With
    <2> QED BY <2>1
  <1> HIDE DEF so, fl, T
  <1>4. /\ a \in Pool /\ a.done = Succeeded /\ a.queued = {} /\ a.blocked = {}
        /\ a.state = EmptyPool.state
    BY <1>2, <1>3, EmptyPoolType, Zenon DEF Pool, EmptyPool
  <1>5. InOrder(a, Succeeded, ended)
    BY <1>4, OrderEmpty, Zenon DEF InOrder
  <1> HIDE DEF a
  <1>6. InOrder(q, Succeeded, ended)
    BY <1>2, <1>5, OrderCommit
  <1>7. Commits(a, T, dead, waiting, q)
    BY <1>2, <1>4, CommitFields, Zenon
  <1>8. q.queued \cup q.blocked \subseteq T /\ q.queued \cap q.blocked = {}
    BY <1>4, <1>7, Zenon DEF Commits
  <1> HIDE DEF q
  <1>9. over \in SUBSET Phase /\ over \subseteq ended /\ \A p \in over : PhaseDeps[p] \subseteq ended
    BY Zenon DEF OrderInv, TypeOK, WorkInOrder, EndedInOrder
  <1> HIDE DEF over
  <1>10. InOrder(HydratedPool, Succeeded, ended) /\ Shrinks(q, HydratedPool)
    BY <1>1, <1>6, <1>9, OrderMark, Zenon
  <1> QED BY <1>8, <1>10 DEF Shrinks, T

\* The pool a new primary builds from its replica is in order, whatever reports were
\* lost with the old one.
LEMMA OrderFailover ==
    ASSUME OrderInv, NEW lost \in SUBSET wire, Failover(lost)
    PROVE  WorkInOrder'
  <1> USE DEF OrderInv, WorkInOrder
  <1>1. pool' = TransitionDrain(HydratedPool, Phase)
    BY DEF Failover, DrainEmptyActivePhases
  <1>2. InOrder(pool', Succeeded, ended) /\ Shrinks(HydratedPool, pool')
    BY <1>1, OrderHydrated, OrderDrain
  <1>3. /\ ledger' = ledger /\ ended' = ended /\ running' = running /\ wire' \subseteq wire
        /\ \A t \in Task : failed'[t] \in Retryable => failed'[t] = ledger[t]
        /\ \A t \in Task : Held(t)' => Held(t)
        /\ \A t \in SetupTask : ~Held(t)
    BY DEF Failover, Held, Set, TypeOK, Retryable
  <1>4. \A t \in Task : Touched(t)' => Touched(t)
    BY <1>3, Zenon DEF Touched
  <1>5. \A t \in Task : Started(t)' => Started(t)
    BY <1>3, <1>4 DEF Started, Ran
  <1>6. StartedReady'
    BY <1>3, <1>5, StartedStep
  <1>7. InOrder(pool', Succeeded', ended')
    BY <1>2, <1>3, Zenon DEF Succeeded, With
  <1>8. SuccessKnown' /\ InheritedOpen'
    BY DEF Failover, SuccessKnown, InheritedOpen, HydratedCompleted, With
  <1>9. SuccessKept'
    BY <1>3 DEF SuccessKept, Retryable
  <1>10. SetupsApart'
    <2>1. \A t \in Task : t \in pool'.queued \cup pool'.blocked => ledger[t] = "pending"
      BY <1>2, OrderHydrated DEF Shrinks, With
    <2>2. pool'.queued \cap pool'.blocked = {}
      BY <1>2, OrderHydrated DEF Shrinks
    <2> QED BY <1>3, <2>1, <2>2, SetupAssumption, Zenon DEF SetupsApart, SetupApart, InPool
  <1> QED BY <1>3, <1>6, <1>7, <1>8, <1>9, <1>10 DEF EndedInOrder

\* A retry bucket queues tasks that had begun.
LEMMA OrderRetryStep ==
    ASSUME OrderInv, NEW p \in Phase, Retry(p)
    PROVE  WorkInOrder'
  <1> USE DEF OrderInv, WorkInOrder
  <1>1. PICK k \in Retryable : RetryBucket(p, k)
    BY DEF Retry, Retryable
  <1> DEFINE T == Candidates(p, k)
  <1>2. T \in SUBSET Task /\ \A t \in T : failed[t] \in Retryable
    BY DEF Candidates, TasksOf
  <1>3. /\ failed' = Set(failed, T, "none") /\ pool' = Reinject(pool, T, p)
        /\ ledger' = Set(ledger, {t \in T : ledger[t] \in Retryable \cup {"final"}}, "pending")
        /\ inFlight' = inFlight /\ completed' = completed /\ ended' = ended
        /\ UNCHANGED net
    BY <1>1 DEF RetryBucket, Retry, InCascade
  <1> HIDE DEF T
  <1>4. \A t \in T : Started(t) /\ Ready(t) /\ t \notin SetupTask /\ t \notin pool.done
    BY <1>2, Zenon DEF Started, StartedReady, SetupsApart, SetupApart, SuccessKept, InOrder, Succeeded, With
  <1>5. InOrder(pool', Succeeded, ended) /\ Joins(pool, T, pool')
    <2>1. T \cap pool.done = {} /\ \A t \in T : DependsOn[t] \subseteq Succeeded
      BY <1>4 DEF Ready
    <2> QED BY <1>2, <1>3, <2>1, OrderReinject, Zenon
  <1>6. /\ \A u \in Task : ledger'[u] = IF u \in T /\ ledger[u] \in Retryable \cup {"final"}
                                        THEN "pending" ELSE ledger[u]
        /\ \A u \in Task : failed'[u] = IF u \in T THEN "none" ELSE failed[u]
    BY <1>3 DEF Set, TypeOK
  <1>7. \A u \in Task : Started(u)' => Started(u)
    BY <1>3, <1>6, Zenon DEF Started, Ran, Touched, Held, Retryable, net
  <1>8. \A u \in Task : ledger[u] = "completed" => ledger'[u] = "completed"
    BY <1>6 DEF Retryable
  <1>9. StartedReady' /\ Succeeded \subseteq Succeeded'
    BY <1>3, <1>7, <1>8, StartedStep, Zenon
  <1>10. InOrder(pool', Succeeded', ended')
    BY <1>3, <1>5, <1>9, OrderGrows, Zenon
  <1>11. SuccessKnown' /\ SuccessKept' /\ InheritedOpen'
    BY <1>3, <1>6 DEF SuccessKnown, SuccessKept, InheritedOpen, TypeOK, Retryable, Held, net
  <1>12. SetupsApart'
    BY <1>3, <1>4, <1>5, <1>6, SetupAssumption, Zenon DEF SetupsApart, SetupApart, Joins, InPool, Held
  <1> QED BY <1>3, <1>9, <1>10, <1>11, <1>12 DEF EndedInOrder

\* finalize_phase_soft_failures, and mark_phase_done where the phase ends.
LEMMA OrderFinalize ==
    ASSUME OrderInv, NEW p \in Phase, Finalize(p),
           ended' = ended \/ (ended' = ended \cup {p} /\ PhaseDeps[p] \subseteq ended),
           \/ pool' = FinalizePool(p)
           \/ p \in ended' /\ pool' = MarkPhasesDone(FinalizePool(p), {p}),
           UNCHANGED <<inFlight, completed, net>>
    PROVE  WorkInOrder'
  <1> DEFINE q == FinalizePool(p)
             L == Given(p)
  <1> USE DEF OrderInv, WorkInOrder
  <1>1. InOrder(q, Succeeded, ended) /\ Shrinks(pool, q)
    <2>1. CASE SoftRoots(pool, p) = {}
      BY <2>1, Zenon DEF FinalizePool, Shrinks
    <2>2. CASE SoftRoots(pool, p) # {}
      <3> DEFINE P == {}
      <3>1. q = FailWithCascade(pool, SoftRoots(pool, p), P) /\ P \in SUBSET Phase
        BY <2>2, Zenon DEF FinalizePool, FinalizeSoftFailures
      <3>2. SoftRoots(pool, p) \in SUBSET Task
        BY Zenon DEF SoftRoots, TypeOK, Pool
      <3> HIDE DEF q, P
      <3> QED BY <3>1, <3>2, OrderFail, Zenon
    <2> QED BY <2>1, <2>2, Zenon
  <1>2. \A u \in L : ledger[u] # "completed"
    BY LostIsOpen, Zenon DEF Given, Cascaded
  <1> HIDE DEF q, L
  <1>3. /\ \A u \in Task : ledger'[u] = IF u \in L THEN "final" ELSE ledger[u]
        /\ \A u \in Task : failed'[u] = IF u \in L THEN "final" ELSE failed[u]
    BY Zenon DEF Finalize, Set, TypeOK, L
  <1>4. \A u \in Task : Started(u)' => Started(u)
    BY <1>3, Zenon DEF Started, Ran, Touched, Held, Retryable, net
  <1>5. \A u \in Task : ledger[u] = "completed" => ledger'[u] = "completed"
    BY <1>2, <1>3, Zenon
  <1>6. StartedReady' /\ Succeeded \subseteq Succeeded'
    BY <1>4, <1>5, StartedStep, Zenon
  <1>7. InOrder(q, Succeeded', ended')
    BY <1>1, <1>6, OrderGrows, Zenon
  <1>8. EndedInOrder'
    BY DEF EndedInOrder
  <1>9. InOrder(pool', Succeeded', ended') /\ Shrinks(q, pool')
    <2>1. CASE pool' = q
      BY <1>7, <2>1 DEF Shrinks
    <2>2. CASE p \in ended' /\ pool' = MarkPhasesDone(q, {p})
      <3>1. {p} \in SUBSET Phase /\ {p} \subseteq ended' /\ \A o \in {p} : PhaseDeps[o] \subseteq ended'
        BY <1>8, <2>2, Zenon DEF EndedInOrder
      <3> QED BY <1>7, <2>2, <3>1, OrderMark, Zenon
    <2> QED BY <2>1, <2>2, Zenon DEF q
  <1>10. SuccessKnown' /\ SuccessKept' /\ InheritedOpen'
    BY <1>3, Zenon DEF SuccessKnown, SuccessKept, InheritedOpen, TypeOK, Retryable, Held, net
  <1>11. Shrinks(pool, pool')
    BY <1>1, <1>9, Zenon DEF Shrinks
  <1>12. SetupsApart'
    BY <1>3, <1>11, SetupAssumption, Zenon
       DEF SetupsApart, SetupApart, Shrinks, InPool, Held, Retryable
  <1> QED BY <1>6, <1>8, <1>9, <1>10, <1>12, Zenon

\* A phase ends after its predecessors, and its end opens only what waited for it.
LEMMA OrderEnd ==
    ASSUME OrderInv, NEW p \in Phase, DrainPhase(p) \/ FinalizeSoft(p)
    PROVE  WorkInOrder'
  <1>1. CASE DrainPhase(p)
    <2>1. \/ PhaseDeps[p] \subseteq ended /\ ended' = ended \cup {p}
             /\ pool' = MarkPhasesDone(FinalizePool(p), {p})
          \/ pool' = FinalizePool(p) /\ ended' = ended
      BY <1>1, Zenon DEF DrainPhase, EndPhase, PhaseCanProceed
    <2>2. Finalize(p) /\ UNCHANGED <<inFlight, completed, net>>
      BY <1>1 DEF DrainPhase, EndPhase, InCascade
    <2> QED BY <2>1, <2>2, OrderFinalize, Zenon
  <1>2. CASE FinalizeSoft(p)
    BY <1>2, OrderFinalize, Zenon DEF FinalizeSoft, InCascade
  <1> QED BY <1>1, <1>2

\* No step of any actor, in any environment, breaks the order.
LEMMA OrderNext ==
    ASSUME OrderInv, [Next]_vars
    PROVE  OrderInv'
  <1>1. CASE Next
    <2>1. WorkInOrder'
      BY <1>1, OrderDispatch, OrderFinish, OrderReport, OrderSetupTerminal, OrderAssignSetup,
         OrderRunSetup, OrderDeclareDead, OrderReconcile, OrderReinjectTask, OrderFailover,
         OrderPoll, OrderLookAgain, OrderRetryStep, OrderEnd, OrderResurface, OrderVerdict, Zenon
         DEF Next, CascadeStep
    <2>2. TypeOK'
      BY <1>1, <2>1, TypeStep DEF OrderInv, WorkInOrder, InOrder
    <2> QED BY <2>1, <2>2 DEF OrderInv
  <1>2. CASE UNCHANGED vars
    BY <1>2, Zenon DEF OrderInv, TypeOK, WorkInOrder, Succeeded, With, StartedReady, Started, Ready, Touched,
       SuccessKnown, SuccessKept, InheritedOpen, SetupsApart, SetupApart, InPool, Held, EndedInOrder,
       vars, work, phaseVars, net
  <1> QED BY <1>1, <1>2

-----------------------------------------------------------------------------
\* In every state, through every report, requeue, retry and takeover: what has begun
\* had its prerequisites completed and the phases before its own ended, and so has
\* whatever the pool hands out next.
THEOREM OrderIsKept == Spec => []OrderInv
  BY OrderInit, OrderNext, PTL DEF Spec

\* The records of the primary keep their types; the pool's, because no operation of the
\* pool leaves its type.
THEOREM TypeCorrect == Spec => []TypeOK
  <1>1. OrderInv => TypeOK
    BY DEF OrderInv
  <1> QED BY <1>1, OrderIsKept, PTL

\* No task is in a worker's hands unless its prerequisites have completed in the ledger
\* and the phases before its own have ended: whatever is lost, late or repeated.
THEOREM WorkRunsInOrder == Spec => []RunsInOrder
  <1>1. OrderInv => RunsInOrder
    BY DependsOnAssumption
       DEF OrderInv, WorkInOrder, StartedReady, Started, Ready, Succeeded, With, RunsInOrder
  <1> QED BY <1>1, OrderIsKept, PTL

-----------------------------------------------------------------------------
(* What has succeeded and what has ended.                                  *)

\* A success and the end of a phase are for good: no late failure, retry, requeue,
\* cascade, reinjection or takeover takes either back.
SuccessIsFinal ==
    /\ \A t \in Task : ledger[t] = "completed" => ledger'[t] = "completed"
    /\ ended \subseteq ended'

\* Settling a setup task that has not completed takes no success back.
LEMMA SettleKeepsSuccess ==
    ASSUME OrderInv, NEW t \in SetupTask, t \in Task, ledger[t] # "completed", NEW q, NEW res,
           SettleSetup(q, t, res)
    PROVE  SuccessIsFinal
  <1>1. (\A u \in Task : u # t => ledger'[u] = ledger[u]) /\ ended' = ended
    BY Zenon DEF SettleSetup, EnterCascade, OrderInv, TypeOK
  <1> QED BY <1>1 DEF SuccessIsFinal

\* A late failure of a completed task is dropped by its key, and its cascade reaches no
\* success.
LEMMA FailureKeepsSuccess ==
    ASSUME OrderInv, NEW m \in wire, m.t \notin SetupTask, HandleTaskFailed(m)
    PROVE  SuccessIsFinal
  <1> DEFINE t == m.t
             k == m.res
             lost == IF k = "final" /\ Residue(t) THEN TerminalCascade(Cascaded(Reclaimed(t), {t})) ELSE {}
  <1>1. t \in Task /\ ended' = ended
    BY DEF OrderInv, TypeOK, Report, HandleTaskFailed, NoCascade, EnterCascade, phaseVars
  <1>2. CASE t \in completed \/ failed[t] # "none"
    BY <1>1, <1>2 DEF HandleTaskFailed, work, SuccessIsFinal
  <1>3. CASE t \notin completed /\ failed[t] = "none"
    <2>1. ledger' = Set([ledger EXCEPT ![t] = k], lost, "final")
      BY <1>3 DEF HandleTaskFailed
    <2>2. ledger[t] # "completed"
      BY <1>1, <1>3 DEF OrderInv, WorkInOrder, SuccessKnown
    <2>3. \A u \in lost : ledger[u] # "completed"
      <3>1. CASE Residue(t)
        <4>1. Cascaded(Reclaimed(t), {t}) \subseteq pool.blocked
          BY <1>1, <3>1, OrderReclaimed DEF Cascaded
        <4> QED BY <4>1, LostIsOpen, Zenon
      <3> QED BY <3>1
    <2> HIDE DEF lost
    <2>4. \A u \in Task : ledger'[u] = IF u \in lost THEN "final" ELSE IF u = t THEN k ELSE ledger[u]
      BY <1>1, <2>1 DEF Set, OrderInv, TypeOK
    <2> QED BY <1>1, <2>2, <2>3, <2>4, Zenon DEF SuccessIsFinal
  <1> QED BY <1>2, <1>3

\* No report takes a success back.
LEMMA ReportKeepsSuccess ==
    ASSUME OrderInv, NEW m \in wire, HandleReport(m)
    PROVE  SuccessIsFinal
  <1>1. m.t \in Task /\ m.t \notin SetupTask
    BY DEF OrderInv, TypeOK, Report, HandleReport
  <1>2. CASE HandleTaskComplete(m)
    <2>1. ended' = ended
      BY <1>2 DEF HandleTaskComplete, NoCascade, EnterCascade, phaseVars
    <2> QED BY <1>1, <1>2, <2>1, Zenon DEF HandleTaskComplete, work, SuccessIsFinal, OrderInv, TypeOK
  <1>3. CASE GiveBack(m.t)
    BY <1>1, <1>3 DEF GiveBack, NoCascade, phaseVars, work, SuccessIsFinal, OrderInv, TypeOK
  <1> QED BY <1>1, <1>2, <1>3, FailureKeepsSuccess DEF HandleReport, HandleBackpressure, HandleIllegallyAssigned

\* A setup task in the queue has not completed.
LEMMA SetupKeepsSuccess ==
    ASSUME OrderInv, NEW t \in SetupTask,
           AssignSetup(t) \/ \E res \in SetupResults : RunSetupLocally(t, res)
    PROVE  SuccessIsFinal
  <1>1. CanTakeMatch(pool, t)
    BY Zenon DEF AssignSetup, RunSetupLocally
  <1>2. t \in Task /\ ledger[t] # "completed"
    BY <1>1, OrderSetupTaken, Zenon
  <1>3. CASE AssignSetup(t)
    BY <1>2, <1>3, Zenon DEF AssignSetup, NoCascade, phaseVars, SuccessIsFinal, OrderInv, TypeOK
  <1>4. ASSUME NEW res \in SetupResults, RunSetupLocally(t, res) PROVE SuccessIsFinal
    BY <1>2, <1>4, SettleKeepsSuccess, Zenon DEF RunSetupLocally
  <1> QED BY <1>3, <1>4

\* A setup task that is held has not completed.
LEMMA SetupReportKeepsSuccess ==
    ASSUME OrderInv, NEW m \in wire, HandleSetupTerminal(m)
    PROVE  SuccessIsFinal
  <1>1. m.t \in Task /\ m.t \in SetupTask
    BY SetupAssumption DEF HandleSetupTerminal
  <1>2. CASE Held(m.t)
    <2>1. ledger[m.t] # "completed"
      BY <1>1, <1>2, Zenon DEF OrderInv, WorkInOrder, SetupsApart, SetupApart
    <2> QED BY <1>1, <1>2, <2>1, SettleKeepsSuccess DEF HandleSetupTerminal
  <1>3. CASE ~Held(m.t)
    BY <1>3 DEF HandleSetupTerminal, NoCascade, phaseVars, work, SuccessIsFinal
  <1> QED BY <1>2, <1>3

\* Neither a death nor a takeover, a reconciliation or a revival takes a success back.
LEMMA RecoveryKeepsSuccess ==
    ASSUME OrderInv,
           \/ \E s \in Secondary : DeclareDead(s)
           \/ \E t \in Task : ReconcileInherited(t) \/ ReinjectTask(t)
           \/ \E lost \in SUBSET wire : Failover(lost)
    PROVE  SuccessIsFinal
  <1>1. ASSUME NEW s \in Secondary, DeclareDead(s) PROVE SuccessIsFinal
    <2> DEFINE back == HeldBy(s) \ SetupTask
               gone == HeldBy(s) \cap SetupTask
    <2>1. ledger' = Set(Set(ledger, {t \in back : ledger[t] = "inflight"}, "pending"), gone, "final")
          /\ ended' = ended
      BY <1>1, Zenon DEF DeclareDead, NoCascade, phaseVars
    <2>2. \A t \in gone : ledger[t] # "completed"
      BY SecondaryAssumption, Zenon DEF HeldBy, Held, OrderInv, WorkInOrder, SetupsApart, SetupApart
    <2> HIDE DEF back, gone
    <2> QED BY <2>1, <2>2, Zenon DEF Set, SuccessIsFinal, OrderInv, TypeOK
  <1>2. ASSUME NEW t \in Task, ReconcileInherited(t) \/ ReinjectTask(t) PROVE SuccessIsFinal
    <2>1. /\ ledger[t] # "completed" /\ ended' = ended
          /\ ledger' = [ledger EXCEPT ![t] = "pending"]
      BY <1>2, Zenon DEF ReconcileInherited, ReinjectTask, NoCascade, phaseVars,
         OrderInv, WorkInOrder, InheritedOpen
    <2> QED BY <2>1 DEF SuccessIsFinal, OrderInv, TypeOK
  <1>3. ASSUME NEW lost \in SUBSET wire, Failover(lost) PROVE SuccessIsFinal
    BY <1>3 DEF Failover, SuccessIsFinal
  <1> QED BY <1>1, <1>2, <1>3

\* No step of the cascade over the phases does.
LEMMA CascadeKeepsSuccess ==
    ASSUME OrderInv, CascadeStep
    PROVE  SuccessIsFinal
  <1>1. ASSUME NEW p \in Phase, Retry(p) PROVE SuccessIsFinal
    <2>1. PICK k \in Retryable : RetryBucket(p, k)
      BY <1>1 DEF Retry, Retryable
    <2> DEFINE T == {t \in Candidates(p, k) : ledger[t] \in Retryable \cup {"final"}}
    <2>2. ledger' = Set(ledger, T, "pending") /\ ended' = ended
      BY <2>1 DEF RetryBucket
    <2>3. \A t \in T : ledger[t] # "completed"
      BY DEF Retryable
    <2> HIDE DEF T
    <2> QED BY <2>2, <2>3 DEF Set, SuccessIsFinal, OrderInv, TypeOK
  <1>2. ASSUME NEW p \in Phase, DrainPhase(p) \/ FinalizeSoft(p) PROVE SuccessIsFinal
    <2>1. ledger' = Set(ledger, Given(p), "final") /\ ended \subseteq ended'
      BY <1>2 DEF DrainPhase, EndPhase, FinalizeSoft, Finalize
    <2>2. \A t \in Given(p) : ledger[t] # "completed"
      BY LostIsOpen, Zenon DEF Given, Cascaded
    <2> QED BY <2>1, <2>2 DEF Set, SuccessIsFinal, OrderInv, TypeOK
  <1>3. CASE Poll \/ LookAgain
    BY <1>3 DEF Poll, LookAgain, SuccessIsFinal
  <1> QED BY <1>1, <1>2, <1>3 DEF CascadeStep

\* No step at all takes a success back or opens an ended phase again.
LEMMA StepKeepsSuccess ==
    ASSUME OrderInv, [Next]_vars
    PROVE  SuccessIsFinal
  <1>1. CASE Next
    <2>1. ASSUME NEW t \in Task, NEW s \in Secondary,
                 Dispatch(t, s) \/ \E res \in {"ok"} \cup Kind : Finish(t, s, res)
          PROVE  SuccessIsFinal
      BY <2>1, Zenon DEF Dispatch, Finish, NoCascade, phaseVars, work, SuccessIsFinal, OrderInv, TypeOK
    <2>2. CASE Resurface \/ Abort \/ Complete
      BY <2>2 DEF Resurface, Abort, Complete, EnterCascade, work, SuccessIsFinal
    <2> QED BY <1>1, <2>1, <2>2, ReportKeepsSuccess, SetupReportKeepsSuccess, SetupKeepsSuccess,
               RecoveryKeepsSuccess, CascadeKeepsSuccess DEF Next
  <1>2. CASE UNCHANGED vars
    BY <1>2 DEF vars, work, phaseVars, SuccessIsFinal
  <1> QED BY <1>1, <1>2

\* Every step of every actor keeps the successes of the ledger and the ended phases.
THEOREM SuccessIsKept == Spec => [][SuccessIsFinal]_vars
  BY OrderIsKept, StepKeepsSuccess, PTL DEF Spec
=============================================================================
