--------------------------- MODULE TaskLedgerProofs ---------------------------
(***************************************************************************)
(* The join key and the arms of apply, then the safety of the replicated   *)
(* ledger, for any number of replicas, tasks, originations, duplicates,    *)
(* attempts and epochs, any dependency graph and any payload hash.         *)
(***************************************************************************)
EXTENDS TaskLedger, TLAPS, WellFoundedInduction, NaturalsInduction

\* Every nonempty set of naturals has a least member.
LEMMA LeastNatural ==
    ASSUME NEW T \in SUBSET Nat, T # {}
    PROVE  \E x \in T : \A y \in T : x <= y
<1>1. PICK x \in T : \A y \in T : <<y, x>> \notin OpToRel(<, Nat)
  BY NatLessThanWellFounded, WFMin
<1>2. \A y \in T : ~(y < x)
  BY <1>1 DEF OpToRel
<1> QED
  BY <1>2

-----------------------------------------------------------------------------
(* The join key is a strict order.                                         *)

\* The join key of every task state is eight naturals (task_join_key).
LEMMA JoinKeyType ==
    ASSUME NEW s \in TaskState
    PROVE  JoinKey(s) \in Key
<1>1. s.att \in Nat /\ s.ver[1] \in Nat /\ s.ver[2] \in Nat
  BY DEF TaskState, Version
<1>2. Band(s) \in Nat /\ TerminalRank(s) \in Nat /\ NonTerminalRank(s) \in Nat
        /\ FailedLikeRank(s) \in Nat
  BY DEF Band, TerminalRank, NonTerminalRank, FailedLikeRank
<1>3. TerminalPayloadHash(s) \in Nat
  BY HashAssumption DEF TerminalPayloadHash, TaskState
<1> QED
  BY <1>1, <1>2, <1>3 DEF JoinKey, Key, KeyLen

\* Nothing is below itself: a redelivered update never wins (the tie arm of
\* task_join_key_dominates).
LEMMA KeyIrreflexive ==
    ASSUME NEW a \in Key
    PROVE  ~KeyLess(a, a)
  BY DEF KeyLess, Key, KeyLen

\* Two wins in a row are a win.
LEMMA KeyTransitive ==
    ASSUME NEW a \in Key, NEW b \in Key, NEW c \in Key,
           KeyLess(a, b), KeyLess(b, c)
    PROVE  KeyLess(a, c)
<1>1. PICK i \in 1 .. KeyLen : a[i] < b[i] /\ \A k \in 1 .. i - 1 : a[k] = b[k]
  BY DEF KeyLess
<1>2. PICK j \in 1 .. KeyLen : b[j] < c[j] /\ \A k \in 1 .. j - 1 : b[k] = c[k]
  BY DEF KeyLess
<1>3. CASE i <= j
  <2>1. a[i] < c[i]
    BY <1>1, <1>2, <1>3 DEF Key, KeyLen
  <2>2. \A k \in 1 .. i - 1 : a[k] = c[k]
    BY <1>1, <1>2, <1>3 DEF KeyLen
  <2> QED
    BY <2>1, <2>2 DEF KeyLess
<1>4. CASE j < i
  <2>1. a[j] < c[j]
    BY <1>1, <1>2, <1>4 DEF Key, KeyLen
  <2>2. \A k \in 1 .. j - 1 : a[k] = c[k]
    BY <1>1, <1>2, <1>4 DEF KeyLen
  <2> QED
    BY <2>1, <2>2 DEF KeyLess
<1> QED
  BY <1>3, <1>4 DEF KeyLen

\* Of two different keys one is above the other, so anti-entropy always has a
\* winner to spread when two digests differ.
LEMMA KeyTotal ==
    ASSUME NEW a \in Key, NEW b \in Key, a # b
    PROVE  KeyLess(a, b) \/ KeyLess(b, a)
<1>1. a[1] # b[1] \/ a[2] # b[2] \/ a[3] # b[3] \/ a[4] # b[4]
        \/ a[5] # b[5] \/ a[6] # b[6] \/ a[7] # b[7] \/ a[8] # b[8]
  <2>1. PICK i \in 1 .. KeyLen : a[i] # b[i]
    <3>1. a = [i \in 1 .. KeyLen |-> a[i]] /\ b = [i \in 1 .. KeyLen |-> b[i]]
      BY DEF Key
    <3> QED
      BY <3>1, Zenon
  <2>2. i \in {1, 2, 3, 4, 5, 6, 7, 8}
    BY DEF KeyLen
  <2> QED
    BY <2>1, <2>2
<1>2. PICK i \in 1 .. KeyLen : a[i] # b[i] /\ \A k \in 1 .. i - 1 : a[k] = b[k]
  <2>1. CASE a[1] # b[1]
    BY <2>1 DEF KeyLen
  <2>2. CASE a[1] = b[1] /\ a[2] # b[2]
    BY <2>2 DEF KeyLen
  <2>3. CASE a[1] = b[1] /\ a[2] = b[2] /\ a[3] # b[3]
    BY <2>3 DEF KeyLen
  <2>4. CASE a[1] = b[1] /\ a[2] = b[2] /\ a[3] = b[3] /\ a[4] # b[4]
    BY <2>4 DEF KeyLen
  <2>5. CASE a[1] = b[1] /\ a[2] = b[2] /\ a[3] = b[3] /\ a[4] = b[4] /\ a[5] # b[5]
    BY <2>5 DEF KeyLen
  <2>6. CASE a[1] = b[1] /\ a[2] = b[2] /\ a[3] = b[3] /\ a[4] = b[4]
               /\ a[5] = b[5] /\ a[6] # b[6]
    BY <2>6 DEF KeyLen
  <2>7. CASE a[1] = b[1] /\ a[2] = b[2] /\ a[3] = b[3] /\ a[4] = b[4]
               /\ a[5] = b[5] /\ a[6] = b[6] /\ a[7] # b[7]
    BY <2>7 DEF KeyLen
  <2>8. CASE a[1] = b[1] /\ a[2] = b[2] /\ a[3] = b[3] /\ a[4] = b[4]
               /\ a[5] = b[5] /\ a[6] = b[6] /\ a[7] = b[7] /\ a[8] # b[8]
    BY <2>8 DEF KeyLen
  <2> QED
    BY <1>1, <2>1, <2>2, <2>3, <2>4, <2>5, <2>6, <2>7, <2>8
<1>3. a[i] \in Nat /\ b[i] \in Nat
  BY DEF Key
<1>4. \A k \in 1 .. i - 1 : b[k] = a[k]
  BY <1>2
<1>5. a[i] < b[i] \/ b[i] < a[i]
  BY <1>2, <1>3
<1> QED
  BY <1>2, <1>4, <1>5 DEF KeyLess

-----------------------------------------------------------------------------
(* Every arm of apply keeps the ledger a ledger.                           *)

\* The constructors build task states.
LEMMA StateTypes ==
    ASSUME NEW att \in Nat, NEW ver \in Version
    PROVE  /\ Pending(att, ver) \in TaskState
           /\ InFlight(att, ver) \in TaskState
           /\ Completed(att) \in TaskState
           /\ \A on \in Task : Blocked(att, on) \in TaskState
           /\ Skipped(att) \in TaskState
           /\ SetupCompleted(att) \in TaskState
           /\ \A err \in Payload : FailureState(err, att, ver) \in TaskState
           /\ UpstreamFailed(att) \in TaskState
<1>1. NoVersion \in Version
  BY DEF NoVersion, Version
<1>2. \A err \in Payload : FailureState(err, att, ver) \in TaskState
  BY DEF FailureState, Make, TaskState, Status
<1>3. UpstreamFailed(att) \in TaskState
  BY <1>1 DEF UpstreamFailed, FailureState, Make, TaskState, Status, Payload
<1>4. Pending(att, ver) \in TaskState /\ InFlight(att, ver) \in TaskState
  BY DEF Pending, InFlight, Make, TaskState, Status, Payload
<1> QED
  BY <1>1, <1>2, <1>3, <1>4
  DEF Completed, Blocked, Skipped, SetupCompleted, Make, TaskState, Status, Payload

\* merge_task_state with its two walks.
LEMMA MergeType ==
    ASSUME NEW L \in Ledger, NEW t \in Task, NEW inc \in TaskState
    PROVE  MergeTaskState(L, t, inc) \in Ledger
<1>0. NoVersion \in Version
  BY DEF NoVersion, Version
<1>1. \A M \in Ledger, u \in Task : M[u].att \in Nat
  BY DEF Ledger, TaskState
<1>2. ResumeBlockedOn(L, t) \in Ledger
  BY <1>0, <1>1, StateTypes DEF ResumeBlockedOn, Ledger
<1>3. \A M \in Ledger : [M EXCEPT ![t] = inc] \in Ledger
  BY DEF Ledger
<1>4. \A M \in Ledger : CascadeFailBlockedDependents(M, t) \in Ledger
  BY <1>0, <1>1, StateTypes DEF CascadeFailBlockedDependents, Ledger
<1> QED
  BY <1>2, <1>3, <1>4 DEF MergeTaskState

\* The scan over task_depends_on in declaration order finds the first match.
LEMMA FirstDepType ==
    ASSUME NEW t \in Task, NEW D \in SUBSET Deps(t), D # {}
    PROVE  FirstDep(t, D) \in D
<1> DEFINE T == {i \in 1 .. Len(DepSeq[t]) : DepSeq[t][i] \in D}
<1>1. DepSeq[t] \in Seq(Task) /\ Len(DepSeq[t]) \in Nat
  BY DepSeqAssumption
<1>2. T \in SUBSET Nat /\ T # {}
  BY <1>1 DEF Deps
<1>3. PICK x \in T : \A y \in T : x <= y
  BY <1>2, LeastNatural
<1>4. \A j \in 1 .. x - 1 : DepSeq[t][j] \notin D
  BY <1>1, <1>3
<1> QED
  BY <1>3, <1>4 DEF FirstDep

\* A dependency is another task.
LEMMA DepsType ==
    ASSUME NEW t \in Task
    PROVE  Deps(t) \in SUBSET (Task \ {t})
  BY DepSeqAssumption, NoSelfDependency DEF Deps

\* The classification of a spawned task.
LEMMA SpawnType ==
    ASSUME NEW L \in Ledger, NEW t \in Task
    PROVE  /\ SpawnState(L, t) \in TaskState
           /\ SpawnState(L, t).att = 0
           /\ SpawnState(L, t).st \in {"Failed", "Blocked", "Pending"}
           /\ SpawnState(L, t).st = "Blocked" => SpawnState(L, t).on \in Deps(t)
<1> DEFINE paused == {d \in Deps(t) : L[d].st = "Unfulfillable"}
           waiting == {d \in Deps(t) : L[d].st \in {"Pending", "InFlight", "Blocked", "Failed"}}
<1>1. paused # {} => FirstDep(t, paused) \in Deps(t)
  BY FirstDepType
<1>2. waiting # {} => FirstDep(t, waiting) \in Deps(t)
  BY FirstDepType
<1>3. NoVersion \in Version
  BY DEF NoVersion, Version
<1>4. SpawnState(L, t) = UpstreamFailed(0)
        \/ (\E d \in Deps(t) : SpawnState(L, t) = Blocked(0, d))
        \/ SpawnState(L, t) = Pending(0, NoVersion)
  BY <1>1, <1>2 DEF SpawnState
<1>5. SpawnState(L, t) \in TaskState
  BY <1>3, <1>4, StateTypes, DepsType
<1> QED
  BY <1>4, <1>5 DEF UpstreamFailed, FailureState, Blocked, Pending, Make

\* A run of TaskFailed over the dependents of a root.
LEMMA UpstreamType ==
    ASSUME NEW L \in Ledger, NEW m \in Mutation
    PROVE  ApplyUpstreamFailed(L, m) \in Ledger
<1> DEFINE inc(d) == FailureState("upstream", d.att, d.ver)
           hit == {d \in m.deps : Present(L, d.t) /\ Wins(L, d.t, inc(d))}
           roots == {d.t : d \in hit}
<1>1. hit \subseteq Dependent
  BY DEF Mutation
<1>2. \A d \in hit : inc(d) \in TaskState
  BY <1>1, StateTypes DEF Dependent, Payload
<1>3. \A t \in roots : (CHOOSE d \in hit : d.t = t) \in hit
  OBVIOUS
<1>4. \A t \in Task : UpstreamFailed(L[t].att) \in TaskState /\ L[t] \in TaskState
  BY StateTypes DEF Ledger, TaskState, Version
<1>5. \A t \in Task : ApplyUpstreamFailed(L, m)[t] \in TaskState
  BY <1>2, <1>3, <1>4 DEF ApplyUpstreamFailed
<1>6. ApplyUpstreamFailed(L, m) = [t \in Task |-> ApplyUpstreamFailed(L, m)[t]]
  BY DEF ApplyUpstreamFailed
<1> QED
  BY <1>5, <1>6 DEF Ledger

\* Every arm of ClusterState::apply.
LEMMA ApplyType ==
    ASSUME NEW L \in Ledger, NEW m \in Mutation
    PROVE  Apply(L, m) \in Ledger
<1>0. /\ m.t \in Task /\ m.att \in Nat /\ m.ver \in Version /\ m.err \in Payload
      /\ NoVersion \in Version
  BY DEF Mutation, NoVersion, Version
<1>1. \A t \in Task : L[t] \in TaskState /\ L[t].att \in Nat
  BY DEF Ledger, TaskState
<1>2. \A s \in TaskState : Set(L, m.t, s) \in Ledger
  BY <1>0 DEF Set, Ledger
<1>3. \A M \in Ledger : ResumeBlockedOn(M, m.t) \in Ledger
  BY <1>0, StateTypes DEF ResumeBlockedOn, Ledger, TaskState
<1>4. ApplyTaskAdded(L, m) \in Ledger
  BY <1>0, <1>2, StateTypes DEF ApplyTaskAdded
<1>5. ApplyTaskAssigned(L, m) \in Ledger
  BY <1>0, MergeType, StateTypes DEF ApplyTaskAssigned
<1>6. ApplyTaskCompleted(L, m) \in Ledger
  BY <1>0, MergeType, StateTypes DEF ApplyTaskCompleted
<1>7. ApplyTaskFailed(L, m) \in Ledger
  BY <1>0, MergeType, StateTypes DEF ApplyTaskFailed
<1>8. ApplyTaskReinjected(L, m) \in Ledger
  BY <1>0, <1>1, <1>2, StateTypes DEF ApplyTaskReinjected
<1>9. ApplyTaskRequeued(L, m) \in Ledger
  BY <1>0, <1>1, <1>2, StateTypes DEF ApplyTaskRequeued
<1>10. ApplyTaskRetried(L, m) \in Ledger
  BY <1>0, <1>2, StateTypes DEF ApplyTaskRetried
<1>11. ApplyTaskBlocked(L, m) \in Ledger
  BY <1>0, <1>1, StateTypes DEF ApplyTaskBlocked, Ledger
<1>12. ApplyTaskSkippedAlreadyDone(L, m) \in Ledger
  BY <1>0, <1>1, <1>2, StateTypes DEF ApplyTaskSkippedAlreadyDone
<1>13. ApplySetupCompleted(L, m) \in Ledger
  BY <1>0, <1>1, <1>2, <1>3, StateTypes DEF ApplySetupCompleted
<1>14. ApplyTasksSpawned(L, m) \in Ledger
  BY <1>0, <1>2, SpawnType DEF ApplyTasksSpawned
<1> QED
  BY <1>4, <1>5, <1>6, <1>7, <1>8, <1>9, <1>10, <1>11, <1>12, <1>13, <1>14,
     UpstreamType DEF Apply

-----------------------------------------------------------------------------
(* What an arm may do to an entry.                                         *)

\* The entry is left alone or replaced by a state the join ranks above it.
Rises(old, new) == new = old \/ Dominates(new, old)

\* Two joins in a row raise an entry, or leave it as it was.
LEMMA RisesTransitive ==
    ASSUME NEW a \in TaskState, NEW b \in TaskState, NEW c \in TaskState,
           Rises(a, b), Rises(b, c)
    PROVE  Rises(a, c)
  BY JoinKeyType, KeyTransitive DEF Rises, Dominates

\* A higher attempt is enough to win, and a winner's attempt is never lower.
LEMMA AttemptFirst ==
    ASSUME NEW old \in TaskState, NEW new \in TaskState
    PROVE  /\ Rises(old, new) => new.att >= old.att
           /\ new.att > old.att => Dominates(new, old)
<1>1. /\ JoinKey(old)[1] = old.att /\ JoinKey(new)[1] = new.att
      /\ old.att \in Nat /\ new.att \in Nat
  BY DEF JoinKey, TaskState
<1>2. Dominates(new, old) => new.att >= old.att
  <2>1. SUFFICES ASSUME NEW i \in 1 .. KeyLen, JoinKey(old)[i] < JoinKey(new)[i],
                        \A j \in 1 .. i - 1 : JoinKey(old)[j] = JoinKey(new)[j]
                 PROVE  new.att >= old.att
    BY DEF Dominates, KeyLess
  <2>2. CASE i = 1
    BY <1>1, <2>1, <2>2
  <2>3. CASE i # 1
    <3>1. 1 \in 1 .. i - 1
      BY <2>3 DEF KeyLen
    <3> QED
      BY <1>1, <2>1, <3>1
  <2> QED
    BY <2>2, <2>3
<1>3. new.att > old.att => Dominates(new, old)
  BY <1>1 DEF Dominates, KeyLess, KeyLen
<1> QED
  BY <1>1, <1>2, <1>3 DEF Rises

\* At one attempt the band decides: a terminal over Blocked over the rest.
LEMMA BandSecond ==
    ASSUME NEW old \in TaskState, NEW new \in TaskState,
           new.att = old.att, Band(new) > Band(old)
    PROVE  Dominates(new, old)
<1>1. /\ JoinKey(old)[1] = old.att /\ JoinKey(new)[1] = new.att
      /\ JoinKey(old)[2] = Band(old) /\ JoinKey(new)[2] = Band(new)
  BY DEF JoinKey
<1>2. Band(old) \in Nat /\ Band(new) \in Nat
  BY DEF Band
<1>3. 2 \in 1 .. KeyLen /\ \A j \in 1 .. 2 - 1 : j = 1
  BY DEF KeyLen
<1> QED
  BY <1>1, <1>2, <1>3 DEF Dominates, KeyLess

\* What merge_task_state leaves in an entry: the old state, the winner, the
\* resumed dependent of a completion, or the cascaded dependent of a failure.
LEMMA MergeEntry ==
    ASSUME NEW L \in Ledger, NEW t \in Task, NEW inc \in TaskState, NEW u \in Task
    PROVE  LET n == MergeTaskState(L, t, inc)[u]
           IN  \/ n = L[u]
               \/ u = t /\ Wins(L, t, inc) /\ n = inc
               \/ inc.st = "Completed" /\ L[u].st = "Blocked" /\ n = Pending(L[u].att, NoVersion)
               \/ L[u].st = "Blocked" /\ n = UpstreamFailed(L[u].att)
<1> DEFINE resumed == IF NewlyCompleted(L, t, inc) THEN ResumeBlockedOn(L, t) ELSE L
           written == [resumed EXCEPT ![t] = inc]
<1>1. resumed[u] = L[u] \/ (/\ inc.st = "Completed" /\ L[u].st = "Blocked"
                            /\ resumed[u] = Pending(L[u].att, NoVersion))
  BY DEF ResumeBlockedOn, BlockedOn, NewlyCompleted
<1>2. DOMAIN resumed = Task
  BY DEF ResumeBlockedOn, Ledger
<1>3. written[u] = IF u = t THEN inc ELSE resumed[u]
  BY <1>2
<1>4. CASE ~Wins(L, t, inc)
  BY <1>4 DEF MergeTaskState
<1>5. CASE Wins(L, t, inc) /\ ~IsCascadeTerminal(inc)
  <2>1. MergeTaskState(L, t, inc) = written
    BY <1>5 DEF MergeTaskState
  <2> HIDE DEF resumed, written
  <2> QED
    BY <1>1, <1>3, <1>5, <2>1
<1>6. CASE Wins(L, t, inc) /\ IsCascadeTerminal(inc)
  <2>1. inc.st # "Completed" /\ inc.st # "Blocked"
    BY <1>6 DEF IsCascadeTerminal
  <2>2. MergeTaskState(L, t, inc)[u] =
          IF u \in Stranded(written, {t}) THEN UpstreamFailed(written[u].att) ELSE written[u]
    BY <1>6 DEF MergeTaskState, CascadeFailBlockedDependents
  <2>3. u \in Stranded(written, {t}) => written[u].st = "Blocked"
    BY DEF Stranded
  <2> HIDE DEF resumed, written
  <2> QED
    BY <1>1, <1>3, <1>6, <2>1, <2>2, <2>3
<1> QED
  BY <1>4, <1>5, <1>6

\* A cascaded dependent rises: Failed is a terminal, Blocked is not.
LEMMA UpstreamRises ==
    ASSUME NEW s \in TaskState, s.st = "Blocked"
    PROVE  Rises(s, UpstreamFailed(s.att))
<1>1. s.att \in Nat /\ NoVersion \in Version
  BY DEF TaskState, NoVersion, Version
<1>2. UpstreamFailed(s.att) \in TaskState
  BY <1>1, StateTypes
<1>3. UpstreamFailed(s.att).att = s.att /\ UpstreamFailed(s.att).st = "Failed"
  BY DEF UpstreamFailed, FailureState, Make
<1>4. Band(s) = 1 /\ Band(UpstreamFailed(s.att)) = 2
  BY <1>3 DEF Band, Terminals, Failures
<1> QED
  BY <1>2, <1>3, <1>4, BandSecond DEF Rises

\* The join is monotone, except that a completion resumes what it blocked.
LEMMA MergeRises ==
    ASSUME NEW L \in Ledger, NEW t \in Task, NEW inc \in TaskState, NEW u \in Task,
           Present(L, u)
    PROVE  LET n == MergeTaskState(L, t, inc)[u]
           IN  \/ Rises(L[u], n)
               \/ /\ inc.st = "Completed" /\ L[u].st = "Blocked"
                  /\ n = Pending(L[u].att, NoVersion)
<1>1. L[u] \in TaskState
  BY DEF Ledger
<1>2. u = t /\ Wins(L, t, inc) => Dominates(inc, L[u])
  BY DEF Wins
<1> QED
  BY <1>1, <1>2, MergeEntry, UpstreamRises DEF Rises

\* What any mutation may do to the entry of u: let it rise, create it at
\* attempt 0, resume it, or reset it from the one source its arm names.
EntryStep(L, m, u, n) ==
    \/ Present(L, u) /\ Rises(L[u], n)
    \/ ~Present(L, u) /\ (n = L[u] \/ n.att = 0)
    \/ /\ m.op \in {"TaskCompleted", "SetupCompleted"}
       /\ L[u].st = "Blocked" /\ n = Pending(L[u].att, NoVersion)
    \/ /\ m.op \in {"TaskReinjected", "TaskRequeued"}
       /\ L[u].st \in {"Unfulfillable", "InFlight"} /\ n = Pending(L[u].att, m.ver)
    \/ m.op = "TaskRetried" /\ L[u].st = "Failed" /\ n = Pending(m.att, m.ver)

\* Where a Blocked entry may come from, and that no entry disappears.
BlockedStep(L, m, u, n) ==
    /\ n.st = "Absent" => n = L[u]
    /\ n.st = "Blocked" =>
          \/ n = L[u]
          \/ m.op = "TaskBlocked" /\ n.on = m.t /\ \E d \in m.deps : d.t = u
          \/ m.op = "TasksSpawned" /\ n.on \in Deps(u)

\* The joins: TaskAssigned, TaskCompleted, TaskFailed.
LEMMA JoinArmEntry ==
    ASSUME NEW L \in Ledger, NEW m \in Mutation, NEW u \in Task,
           NEW inc \in TaskState, inc.st \notin {"Absent", "Blocked"},
           inc.st = "Completed" => m.op = "TaskCompleted",
           NEW M, M = IF Present(L, m.t) THEN MergeTaskState(L, m.t, inc) ELSE L
    PROVE  EntryStep(L, m, u, M[u]) /\ BlockedStep(L, m, u, M[u])
<1>1. m.t \in Task
  BY DEF Mutation
<1>2. CASE ~Present(L, m.t)
  BY <1>2 DEF EntryStep, BlockedStep, Rises
<1>3. CASE Present(L, m.t)
  <2>1. M = MergeTaskState(L, m.t, inc)
    BY <1>3
  <2>2. EntryStep(L, m, u, M[u])
    <3>1. CASE Present(L, u)
      BY <1>1, <2>1, <3>1, MergeRises DEF EntryStep
    <3>2. CASE ~Present(L, u)
      <4>1. L[u].st # "Blocked" /\ u # m.t
        BY <1>3, <3>2 DEF Present
      <4> QED
        BY <1>1, <2>1, <3>2, <4>1, MergeEntry DEF EntryStep
    <3> QED
      BY <3>1, <3>2
  <2>3. BlockedStep(L, m, u, M[u])
    <3>1. \A att : Pending(att, NoVersion).st = "Pending" /\ UpstreamFailed(att).st = "Failed"
      BY DEF Pending, UpstreamFailed, FailureState, Make
    <3> QED
      BY <1>1, <2>1, <3>1, MergeEntry DEF BlockedStep
  <2> QED
    BY <2>2, <2>3
<1> QED
  BY <1>2, <1>3

\* The resets: TaskReinjected, TaskRequeued, TaskRetried.
LEMMA ResetArmEntry ==
    ASSUME NEW L \in Ledger, NEW m \in Mutation, NEW u \in Task,
           m.op \in {"TaskReinjected", "TaskRequeued", "TaskRetried"}
    PROVE  EntryStep(L, m, u, Apply(L, m)[u]) /\ BlockedStep(L, m, u, Apply(L, m)[u])
<1>1. m.t \in Task /\ DOMAIN L = Task
  BY DEF Mutation, Ledger
<1>2. \A s : Set(L, m.t, s)[u] = IF u = m.t THEN s ELSE L[u]
  BY <1>1 DEF Set
<1>3. \A att, ver : Pending(att, ver).st = "Pending"
  BY DEF Pending, Make
<1>4. (Present(L, u) \/ ~Present(L, u)) /\ Rises(L[u], L[u])
  BY DEF Rises
<1>5. CASE m.op = "TaskReinjected"
  BY <1>2, <1>3, <1>4, <1>5 DEF Apply, ApplyTaskReinjected, EntryStep, BlockedStep
<1>6. CASE m.op = "TaskRequeued"
  BY <1>2, <1>3, <1>4, <1>6 DEF Apply, ApplyTaskRequeued, EntryStep, BlockedStep
<1>7. CASE m.op = "TaskRetried"
  BY <1>2, <1>3, <1>4, <1>7 DEF Apply, ApplyTaskRetried, EntryStep, BlockedStep
<1> QED
  BY <1>5, <1>6, <1>7

\* The arms that raise a live entry in place: TaskBlocked,
\* TaskSkippedAlreadyDone, SetupCompleted.
LEMMA RaiseArmEntry ==
    ASSUME NEW L \in Ledger, NEW m \in Mutation, NEW u \in Task,
           m.op \in {"TaskBlocked", "TaskSkippedAlreadyDone", "SetupCompleted"}
    PROVE  EntryStep(L, m, u, Apply(L, m)[u]) /\ BlockedStep(L, m, u, Apply(L, m)[u])
<1>1. /\ m.t \in Task /\ DOMAIN L = Task /\ L[u] \in TaskState /\ L[u].att \in Nat
      /\ NoVersion \in Version
  BY DEF Mutation, Ledger, TaskState, NoVersion, Version
<1>2. \A s : Set(L, m.t, s)[u] = IF u = m.t THEN s ELSE L[u]
  BY <1>1 DEF Set
<1>3. (Present(L, u) \/ ~Present(L, u)) /\ Rises(L[u], L[u])
  BY DEF Rises
<1>4. L[u].st \in {"Pending", "InFlight"} => Present(L, u) /\ Band(L[u]) = 0
  BY DEF Present, Band, Terminals, Failures
<1>5. L[u].st = "Pending" => Rises(L[u], Blocked(L[u].att, m.t))
  <2>1. /\ Blocked(L[u].att, m.t) \in TaskState /\ Blocked(L[u].att, m.t).att = L[u].att
        /\ Band(Blocked(L[u].att, m.t)) = 1
    BY <1>1, StateTypes DEF Blocked, Make, Band, Terminals, Failures
  <2> QED
    BY <1>1, <1>4, <2>1, BandSecond DEF Rises
<1>6. L[u].st \in {"Pending", "InFlight"} =>
        Rises(L[u], Skipped(L[u].att)) /\ Rises(L[u], SetupCompleted(L[u].att))
  <2>1. /\ Skipped(L[u].att) \in TaskState /\ Skipped(L[u].att).att = L[u].att
        /\ Band(Skipped(L[u].att)) = 2
    BY <1>1, StateTypes DEF Skipped, Make, Band, Terminals, Failures
  <2>2. /\ SetupCompleted(L[u].att) \in TaskState /\ SetupCompleted(L[u].att).att = L[u].att
        /\ Band(SetupCompleted(L[u].att)) = 2
    BY <1>1, StateTypes DEF SetupCompleted, Make, Band, Terminals, Failures
  <2> QED
    BY <1>1, <1>4, <2>1, <2>2, BandSecond DEF Rises
<1>7. CASE m.op = "TaskBlocked"
  <2>1. Apply(L, m)[u] = IF L[u].st = "Pending" /\ \E d \in m.deps : d.t = u
                         THEN Blocked(L[u].att, m.t) ELSE L[u]
    BY <1>7 DEF Apply, ApplyTaskBlocked
  <2>2. Blocked(L[u].att, m.t).on = m.t /\ Blocked(L[u].att, m.t).st = "Blocked"
    BY DEF Blocked, Make
  <2> QED
    BY <1>3, <1>4, <1>5, <1>7, <2>1, <2>2 DEF EntryStep, BlockedStep
<1>8. CASE m.op = "TaskSkippedAlreadyDone"
  <2>1. Skipped(L[u].att).st = "Skipped"
    BY DEF Skipped, Make
  <2> QED
    BY <1>2, <1>3, <1>4, <1>6, <1>8, <2>1
    DEF Apply, ApplyTaskSkippedAlreadyDone, EntryStep, BlockedStep
<1>9. CASE m.op = "SetupCompleted"
  <2> DEFINE set == Set(L, m.t, SetupCompleted(L[m.t].att))
  <2>1. SetupCompleted(L[m.t].att).st = "SetupCompleted"
          /\ \A att : Pending(att, NoVersion).st = "Pending"
    BY DEF SetupCompleted, Pending, Make
  <2>2. set[u] = IF u = m.t THEN SetupCompleted(L[m.t].att) ELSE L[u]
    BY <1>2
  <2>3. Apply(L, m)[u] = IF L[m.t].st \in {"InFlight", "Pending"}
                         THEN IF set[u].st = "Blocked" /\ set[u].on = m.t
                              THEN Pending(set[u].att, NoVersion) ELSE set[u]
                         ELSE L[u]
    BY <1>9 DEF Apply, ApplySetupCompleted, ResumeBlockedOn, BlockedOn
  <2> HIDE DEF set
  <2> QED
    BY <1>3, <1>4, <1>6, <1>9, <2>1, <2>2, <2>3 DEF EntryStep, BlockedStep
<1> QED
  BY <1>7, <1>8, <1>9

\* A run of TaskFailed raises what it touches.
LEMMA UpstreamArmEntry ==
    ASSUME NEW L \in Ledger, NEW m \in Mutation, NEW u \in Task
    PROVE  LET n == ApplyUpstreamFailed(L, m)[u]
           IN  EntryStep(L, m, u, n) /\ BlockedStep(L, m, u, n)
<1> DEFINE inc(d) == FailureState("upstream", d.att, d.ver)
           hit == {d \in m.deps : Present(L, d.t) /\ Wins(L, d.t, inc(d))}
           roots == {d.t : d \in hit}
           n == ApplyUpstreamFailed(L, m)[u]
<1>1. L[u] \in TaskState
  BY DEF Ledger
<1>2. CASE u \in roots
  <2>1. PICK d \in hit : d.t = u /\ n = inc(d)
    <3>1. n = inc(CHOOSE d \in hit : d.t = u)
      BY <1>2 DEF ApplyUpstreamFailed
    <3>2. (CHOOSE d \in hit : d.t = u) \in hit /\ (CHOOSE d \in hit : d.t = u).t = u
      BY <1>2
    <3> QED
      BY <3>1, <3>2
  <2>2. Present(L, u) /\ Dominates(n, L[u])
    BY <2>1 DEF Wins
  <2>3. n.st = "Failed"
    BY <2>1 DEF FailureState, Make
  <2> QED
    BY <2>2, <2>3 DEF EntryStep, BlockedStep, Rises
<1>3. CASE u \notin roots /\ u \in Stranded(L, roots)
  <2>1. n = UpstreamFailed(L[u].att) /\ L[u].st = "Blocked"
    BY <1>3 DEF ApplyUpstreamFailed, Stranded
  <2>2. n.st = "Failed"
    BY <2>1 DEF UpstreamFailed, FailureState, Make
  <2> QED
    BY <1>1, <2>1, <2>2, UpstreamRises DEF EntryStep, BlockedStep, Present
<1>4. CASE u \notin roots /\ u \notin Stranded(L, roots)
  <2>1. n = L[u]
    BY <1>4 DEF ApplyUpstreamFailed
  <2> QED
    BY <2>1 DEF EntryStep, BlockedStep, Rises
<1> QED
  BY <1>2, <1>3, <1>4

\* Any mutation, any entry.
LEMMA ApplyEntry ==
    ASSUME NEW L \in Ledger, NEW m \in Mutation, NEW u \in Task
    PROVE  EntryStep(L, m, u, Apply(L, m)[u]) /\ BlockedStep(L, m, u, Apply(L, m)[u])
<1>1. /\ m.t \in Task /\ m.att \in Nat /\ m.ver \in Version /\ m.err \in Payload
      /\ DOMAIN L = Task /\ L[u] \in TaskState /\ NoVersion \in Version
  BY DEF Mutation, Ledger, NoVersion, Version
<1>2. \A s : Set(L, m.t, s)[u] = IF u = m.t THEN s ELSE L[u]
  BY <1>1 DEF Set
<1>3. EntryStep(L, m, u, L[u]) /\ BlockedStep(L, m, u, L[u])
  BY DEF EntryStep, BlockedStep, Rises
<1>4. CASE m.op = "TaskAdded"
  <2>1. Pending(0, NoVersion).att = 0 /\ Pending(0, NoVersion).st = "Pending"
    BY DEF Pending, Make
  <2> QED
    BY <1>2, <1>3, <1>4, <2>1 DEF Apply, ApplyTaskAdded, EntryStep, BlockedStep
<1>5. CASE m.op = "TasksSpawned"
  <2>1. Apply(L, m)[u] = IF ~Present(L, m.t) /\ u = m.t THEN SpawnState(L, u) ELSE L[u]
    BY <1>2, <1>5 DEF Apply, ApplyTasksSpawned
  <2> QED
    BY <1>3, <1>5, <2>1, SpawnType DEF EntryStep, BlockedStep
<1>6. CASE m.op = "TaskAssigned"
  <2>1. InFlight(m.att, m.ver) \in TaskState /\ InFlight(m.att, m.ver).st = "InFlight"
    BY <1>1, StateTypes DEF InFlight, Make
  <2>2. Apply(L, m) = IF Present(L, m.t) THEN MergeTaskState(L, m.t, InFlight(m.att, m.ver)) ELSE L
    BY <1>6 DEF Apply, ApplyTaskAssigned
  <2> QED
    BY <2>1, <2>2, JoinArmEntry
<1>7. CASE m.op = "TaskCompleted"
  <2>1. Completed(m.att) \in TaskState /\ Completed(m.att).st = "Completed"
    BY <1>1, StateTypes DEF Completed, Make
  <2>2. Apply(L, m) = IF Present(L, m.t) THEN MergeTaskState(L, m.t, Completed(m.att)) ELSE L
    BY <1>7 DEF Apply, ApplyTaskCompleted
  <2> QED
    BY <1>7, <2>1, <2>2, JoinArmEntry
<1>8. CASE m.op = "TaskFailed"
  <2> DEFINE inc == FailureState(m.err, m.att, m.ver)
  <2>1. inc \in TaskState /\ inc.st \in Failures
    BY <1>1, StateTypes DEF FailureState, Make, Failures
  <2>2. Apply(L, m) = IF Present(L, m.t) THEN MergeTaskState(L, m.t, inc) ELSE L
    BY <1>8 DEF Apply, ApplyTaskFailed
  <2> HIDE DEF inc
  <2>3. inc.st \notin {"Absent", "Blocked"} /\ inc.st # "Completed"
    BY <2>1 DEF Failures
  <2> QED
    BY <2>1, <2>2, <2>3, JoinArmEntry
<1>9. CASE m.op \in {"TaskReinjected", "TaskRequeued", "TaskRetried"}
  BY <1>9, ResetArmEntry
<1>10. CASE m.op \in {"TaskBlocked", "TaskSkippedAlreadyDone", "SetupCompleted"}
  BY <1>10, RaiseArmEntry
<1>11. CASE m.op = "UpstreamFailed"
  <2>1. Apply(L, m) = ApplyUpstreamFailed(L, m)
    BY <1>11 DEF Apply
  <2> QED
    BY <2>1, UpstreamArmEntry
<1>12. CASE m.op = "Nothing"
  <2>1. Apply(L, m) = L
    BY <1>12 DEF Apply
  <2> QED
    BY <1>3, <2>1
<1>13. m.op \in Op
  BY DEF Mutation
<1> QED
  BY <1>4, <1>5, <1>6, <1>7, <1>8, <1>9, <1>10, <1>11, <1>12, <1>13 DEF Op

-----------------------------------------------------------------------------
(* Frames: two mutations, the second of which never lowers an entry.       *)

\* The ops that only ever raise an entry.
RaisingOp == Op \ {"TaskCompleted", "SetupCompleted", "TaskReinjected",
                   "TaskRequeued", "TaskRetried"}

\* An entry that was never written has no attempt.
Blank(L) == \A t \in Task : L[t].st = "Absent" => L[t].att = 0

\* No mutation gives an absent entry an attempt.
LEMMA ApplyBlank ==
    ASSUME NEW L \in Ledger, NEW m \in Mutation, Blank(L)
    PROVE  Blank(Apply(L, m))
  BY ApplyEntry DEF Blank, BlockedStep

\* The arms that are not resets never lower an entry that is present.
LEMMA RaisingEntry ==
    ASSUME NEW L \in Ledger, NEW m \in Mutation, NEW u \in Task,
           m.op \in RaisingOp, Present(L, u)
    PROVE  Rises(L[u], Apply(L, m)[u])
  BY ApplyEntry DEF EntryStep, RaisingOp

\* No mutation takes a settled entry down: the reset arms do not match it.
LEMMA SettledEntry ==
    ASSUME NEW L \in Ledger, NEW m \in Mutation, NEW u \in Task,
           L[u].st \in Settled
    PROVE  Rises(L[u], Apply(L, m)[u])
<1>1. Present(L, u) /\ L[u].st \notin {"Blocked", "Unfulfillable", "InFlight", "Failed"}
  BY DEF Present, Settled
<1> QED
  BY <1>1, ApplyEntry DEF EntryStep

\* No mutation lowers the attempt of an entry that is not Failed.
LEMMA AttemptEntry ==
    ASSUME NEW L \in Ledger, NEW m \in Mutation, NEW u \in Task, Blank(L),
           L[u].st # "Failed"
    PROVE  Apply(L, m)[u].att >= L[u].att
<1>1. L[u] \in TaskState /\ L[u].att \in Nat /\ Apply(L, m)[u] \in TaskState
        /\ Apply(L, m)[u].att \in Nat
  BY ApplyType DEF Ledger, TaskState
<1>2. \A att, ver : Pending(att, ver).att = att
  BY DEF Pending, Make
<1>3. ~Present(L, u) => L[u].att = 0
  BY DEF Blank, Present
<1>4. Rises(L[u], Apply(L, m)[u]) => Apply(L, m)[u].att >= L[u].att
  BY <1>1, AttemptFirst
<1>5. EntryStep(L, m, u, Apply(L, m)[u])
  BY ApplyEntry
<1> QED
  BY <1>1, <1>2, <1>3, <1>4, <1>5 DEF EntryStep

-----------------------------------------------------------------------------
(* Ledgers and mutations as the system builds them, and what a whole step  *)
(* of a handler does to a ledger.                                          *)

BlockedOK(t, s) == s.st = "Blocked" => s.on \in Prerequisites(t)

LedgerOK(L) == L \in Ledger /\ Blank(L) /\ \A t \in Task : BlockedOK(t, L[t])

MutationOK(m) ==
    /\ m \in Mutation
    /\ m.op = "TaskBlocked" => \A d \in m.deps : m.t \in Prerequisites(d.t)

FrameOK(f) == f \in Frame /\ MutationOK(f[1]) /\ MutationOK(f[2]) /\ f[2].op \in RaisingOp

LedgerStep(L, N) ==
    \A u \in Task : /\ L[u].st \in Settled => Rises(L[u], N[u])
                    /\ L[u].st # "Failed" => N[u].att >= L[u].att

\* A direct dependency is a prerequisite.
LEMMA DepsArePrerequisites ==
    ASSUME NEW t \in Task
    PROVE  Deps(t) \subseteq Prerequisites(t)
<1> SUFFICES ASSUME NEW d \in Deps(t) PROVE d \in Prerequisites(t)
  OBVIOUS
<1>1. d \in Task /\ t # d
  BY DepsType
<1>2. \A S \in SUBSET Task :
        (d \in S /\ \A u \in Task : Deps(u) \cap S # {} => u \in S) => t \in S
  OBVIOUS
<1> QED
  BY <1>1, <1>2 DEF Prerequisites, Dependents

\* One mutation keeps a ledger well formed.
LEMMA ApplyOK ==
    ASSUME NEW L, NEW m, LedgerOK(L), MutationOK(m)
    PROVE  LedgerOK(Apply(L, m))
<1>1. L \in Ledger /\ Blank(L) /\ m \in Mutation
  BY DEF LedgerOK, MutationOK
<1>2. Apply(L, m) \in Ledger /\ Blank(Apply(L, m))
  BY <1>1, ApplyType, ApplyBlank
<1>3. ASSUME NEW u \in Task PROVE BlockedOK(u, Apply(L, m)[u])
  <2>1. BlockedStep(L, m, u, Apply(L, m)[u])
    BY <1>1, ApplyEntry
  <2>2. Deps(u) \subseteq Prerequisites(u)
    BY DepsArePrerequisites
  <2> QED
    BY <2>1, <2>2 DEF BlockedStep, BlockedOK, LedgerOK, MutationOK
<1> QED
  BY <1>2, <1>3 DEF LedgerOK

\* Two mutations in one handler, the second a raising one.
LEMMA FrameStep ==
    ASSUME NEW L, NEW m1, NEW m2, LedgerOK(L), MutationOK(m1), MutationOK(m2),
           m2.op \in RaisingOp
    PROVE  LedgerOK(Apply(Apply(L, m1), m2)) /\ LedgerStep(L, Apply(Apply(L, m1), m2))
<1> DEFINE mid == Apply(L, m1)
           new == Apply(mid, m2)
<1>1. LedgerOK(mid) /\ LedgerOK(new)
  BY ApplyOK
<1>2. L \in Ledger /\ Blank(L) /\ mid \in Ledger /\ Blank(mid) /\ new \in Ledger
        /\ m1 \in Mutation /\ m2 \in Mutation
  BY <1>1 DEF LedgerOK, MutationOK
<1>3. \A u \in Task : /\ L[u] \in TaskState /\ mid[u] \in TaskState /\ new[u] \in TaskState
                      /\ L[u].att \in Nat /\ mid[u].att \in Nat /\ new[u].att \in Nat
  BY <1>2 DEF Ledger, TaskState
<1>4. \A u \in Task : Present(L, u) => Present(mid, u)
  BY <1>2, ApplyEntry DEF BlockedStep, Present
<1>5. \A u \in Task : Present(mid, u) => Rises(mid[u], new[u])
  BY <1>2, RaisingEntry
<1>6. ASSUME NEW u \in Task, L[u].st \in Settled PROVE Rises(L[u], new[u])
  <2>1. Rises(L[u], mid[u])
    BY <1>2, <1>6, SettledEntry
  <2>2. Present(mid, u)
    BY <1>4, <1>6 DEF Present, Settled
  <2> QED
    BY <1>3, <1>5, <2>1, <2>2, RisesTransitive
<1>7. ASSUME NEW u \in Task, L[u].st # "Failed" PROVE new[u].att >= L[u].att
  <2>1. mid[u].att >= L[u].att
    BY <1>2, <1>7, AttemptEntry
  <2>2. Present(mid, u) => new[u].att >= mid[u].att
    BY <1>3, <1>5, AttemptFirst
  <2>3. ~Present(mid, u) => mid[u].att = 0
    BY <1>2 DEF Blank, Present
  <2> HIDE DEF mid, new
  <2> QED
    BY <1>3, <2>1, <2>2, <2>3
<1> QED
  BY <1>1, <1>6, <1>7 DEF LedgerStep

\* One entry of a stream merged by restore.
LEMMA MergeStep ==
    ASSUME NEW L, NEW t \in Task, NEW inc \in TaskState, LedgerOK(L),
           inc.st # "Absent", BlockedOK(t, inc)
    PROVE  LedgerOK(MergeTaskState(L, t, inc)) /\ LedgerStep(L, MergeTaskState(L, t, inc))
<1> DEFINE new == MergeTaskState(L, t, inc)
<1>1. L \in Ledger /\ Blank(L) /\ new \in Ledger
  BY MergeType DEF LedgerOK
<1>2. \A u \in Task : /\ L[u] \in TaskState /\ new[u] \in TaskState
                      /\ L[u].att \in Nat /\ new[u].att \in Nat
  BY <1>1 DEF Ledger, TaskState
<1>3. \A att : /\ Pending(att, NoVersion).st = "Pending" /\ Pending(att, NoVersion).att = att
               /\ UpstreamFailed(att).st = "Failed"
  BY DEF Pending, UpstreamFailed, FailureState, Make
<1>4. LedgerOK(new)
  BY <1>1, <1>3, MergeEntry DEF LedgerOK, Blank, BlockedOK
<1>5. ASSUME NEW u \in Task, L[u].st \in Settled PROVE Rises(L[u], new[u])
  <2>1. Present(L, u) /\ L[u].st # "Blocked"
    BY <1>5 DEF Present, Settled
  <2> QED
    BY <1>1, <2>1, MergeRises
<1>6. ASSUME NEW u \in Task PROVE new[u].att >= L[u].att
  <2>1. CASE Present(L, u)
    BY <1>1, <1>2, <1>3, <2>1, MergeRises, AttemptFirst
  <2>2. CASE ~Present(L, u)
    BY <1>1, <1>2, <2>2 DEF Blank, Present
  <2> QED
    BY <2>1, <2>2
<1> QED
  BY <1>4, <1>5, <1>6 DEF LedgerStep

\* A replica nothing happens to.
LEMMA SameStep ==
    ASSUME NEW L, LedgerOK(L)
    PROVE  LedgerStep(L, L)
  BY DEF LedgerStep, LedgerOK, Ledger, TaskState, Rises

-----------------------------------------------------------------------------
(* The replicated ledger.                                                  *)

\* The inductive invariant.  The last two conjuncts are what makes the action
\* properties provable: an entry that was never written has no attempt, a
\* Blocked entry or mutation names a prerequisite, and the second mutation of
\* a frame in flight never lowers an entry.
IInv ==
    /\ TypeOK
    /\ \A r \in Replica : LedgerOK(tasks[r])
    /\ \A m \in net : m \in TaskMsg => FrameOK(m.f)

\* What every step does to every replica.
StepOK == \A r \in Replica : LedgerStep(tasks[r], tasks'[r])

\* A mutation stamped from a replica is a mutation.
LEMMA StampedOK ==
    ASSUME TypeOK, NEW p \in Replica, NEW t \in Task, NEW op \in Op, NEW err \in Payload
    PROVE  /\ Stamped(p, op, t, err) \in Mutation
           /\ Stamped(p, op, t, err).op = op
           /\ MutationOK(Stamped(p, op, t, err))
           /\ NextTaskVersion(p, t) \in Version
           /\ tasks[p][t].att \in Nat
<1>1. tasks[p][t].att \in Nat /\ epoch[p] \in Nat /\ taskSeq[p][t] \in Nat
  BY DEF TypeOK, Ledger, TaskState
<1>2. NextTaskVersion(p, t) \in Version
  BY <1>1 DEF NextTaskVersion, Version
<1> QED
  BY <1>1, <1>2 DEF Stamped, Mut, Mutation, MutationOK

\* So is the placeholder.
LEMMA NothingOK ==
    ASSUME NEW t \in Task
    PROVE  MutationOK(Nothing(t)) /\ Nothing(t).op \in RaisingOp /\ Nothing(t).t = t
<1>1. NoVersion \in Version
  BY DEF NoVersion, Version
<1> QED
  BY <1>1 DEF Nothing, Mut, Mutation, MutationOK, Op, Payload, RaisingOp

\* The run of TaskFailed over a set of dependents, too.
LEMMA CascadeOK ==
    ASSUME TypeOK, NEW p \in Replica, NEW t \in Task, NEW D \in SUBSET Task
    PROVE  MutationOK(CascadeTerminal(p, t, D)) /\ CascadeTerminal(p, t, D).op \in RaisingOp
<1>1. \A u \in D : tasks[p][u].att \in Nat /\ NextTaskVersion(p, u) \in Version
  BY StampedOK DEF Op, Payload
<1>2. {[t |-> u, att |-> tasks[p][u].att, ver |-> NextTaskVersion(p, u)] : u \in D}
        \in SUBSET Dependent
  BY <1>1 DEF Dependent
<1>3. NoVersion \in Version
  BY DEF NoVersion, Version
<1> QED
  BY <1>2, <1>3 DEF CascadeTerminal, Mut, Mutation, MutationOK, Op, Payload, RaisingOp

\* One origination: the local apply and the frames it puts on the wire.
LEMMA OriginateOK ==
    ASSUME IInv, NEW p \in Replica, NEW m1, NEW m2,
           MutationOK(m1), MutationOK(m2), m2.op \in RaisingOp,
           OriginateAs(p, m1, m2, Together) \/ OriginateAs(p, m1, m2, Apart)
    PROVE  /\ tasks' \in [Replica -> Ledger]
           /\ \A r \in Replica : LedgerOK(tasks'[r])
           /\ StepOK
           /\ net' \subseteq TaskMsg \cup PrimaryMsg
           /\ \A m \in net' : m \in TaskMsg => FrameOK(m.f)
<1> DEFINE mid == Apply(tasks[p], m1)
           new == Apply(mid, m2)
           s1 == IF mid # tasks[p] THEN m1 ELSE Nothing(m1.t)
           s2 == IF new # mid THEN m2 ELSE Nothing(m1.t)
<1>0. m1.t \in Task
  BY DEF MutationOK, Mutation
<1>1. LedgerOK(new) /\ LedgerStep(tasks[p], new)
  BY FrameStep DEF IInv
<1>2. tasks' = [tasks EXCEPT ![p] = new]
  BY DEF OriginateAs
<1>3. \A r \in Replica : tasks'[r] = IF r = p THEN new ELSE tasks[r]
  BY <1>2 DEF IInv, TypeOK
<1>4. \A r \in Replica : LedgerOK(tasks[r]) /\ LedgerStep(tasks[r], tasks[r])
  BY SameStep DEF IInv
<1>5. tasks' \in [Replica -> Ledger]
  BY <1>1, <1>2 DEF IInv, TypeOK, LedgerOK
<1>6. MutationOK(s1) /\ MutationOK(s2) /\ s2.op \in RaisingOp /\ s1.t \in Task /\ s2.t \in Task
  BY <1>0, NothingOK DEF MutationOK, Mutation
<1>7. \A f \in Together(s1, s2) \cup Apart(s1, s2) : FrameOK(f)
  <2> HIDE DEF s1, s2
  <2>1. MutationOK(Nothing(s1.t)) /\ MutationOK(Nothing(s2.t))
          /\ Nothing(s1.t).op \in RaisingOp /\ Nothing(s2.t).op \in RaisingOp
    BY <1>6, NothingOK
  <2>2. \A x, y : MutationOK(x) /\ MutationOK(y) /\ y.op \in RaisingOp => FrameOK(<<x, y>>)
    BY DEF FrameOK, Frame, MutationOK
  <2> QED
    BY <1>6, <2>1, <2>2 DEF Together, Apart, One
<1>8. ASSUME NEW m \in net', m \notin net
      PROVE  m \in TaskMsg /\ FrameOK(m.f)
  <2> HIDE DEF s1, s2, mid, new
  <2>1. \E f \in Together(s1, s2) \cup Apart(s1, s2) : m \in Broadcast(p, f)
    BY <1>8 DEF OriginateAs, s1, s2, mid, new
  <2>2. PICK f : FrameOK(f) /\ m \in Broadcast(p, f)
    BY <1>7, <2>1
  <2>3. PICK r \in Replica : m = [to |-> r, f |-> f]
    BY <2>2 DEF Broadcast
  <2> QED
    BY <2>2, <2>3 DEF TaskMsg, FrameOK
<1> HIDE DEF mid, new, s1, s2
<1> QED
  BY <1>1, <1>3, <1>4, <1>5, <1>8 DEF IInv, TypeOK, StepOK

\* The parts of the state beside the ledgers and the network.
RestOK ==
    /\ taskSeq \in [Replica -> [Task -> Nat]]
    /\ primary \in [Replica -> Replica]
    /\ epoch \in [Replica -> Nat]
    /\ runs \subseteq Execution
    /\ ops \in Nat
    /\ dups \in Nat
    /\ env \in Environment

\* Stamping keeps the sequence counters naturals.
LEMMA SeqType ==
    ASSUME TypeOK, NEW p \in Replica, NEW D \in SUBSET Task,
           BumpSeqs(p, D) \/ Unstamped
    PROVE  taskSeq' \in [Replica -> [Task -> Nat]]
<1>1. [t \in Task |-> taskSeq[p][t] + (IF t \in D THEN 1 ELSE 0)] \in [Task -> Nat]
  BY DEF TypeOK
<1> QED
  BY <1>1 DEF TypeOK, BumpSeqs, Unstamped

\* Reporting an outcome, once or again, keeps the executions well formed.
LEMMA ReportType ==
    ASSUME TypeOK, NEW t \in Task, NEW res \in Outcome, Report(t, res) \/ NoReport
    PROVE  runs' \subseteq Execution /\ dups' \in Nat
<1>1. CASE NoReport
  BY <1>1 DEF TypeOK, NoReport
<1>2. CASE Report(t, res)
  <2>1. PICK x \in runs : /\ x \in Execution
                          /\ \/ runs' = runs \ {x} /\ UNCHANGED dups
                             \/ /\ dups' = dups + 1
                                /\ runs' = (runs \ {x}) \cup {[x EXCEPT !.res = res]}
    BY <1>2 DEF Report, TypeOK
  <2>2. [x EXCEPT !.res = res] \in Execution
    BY <2>1 DEF Execution
  <2>3. runs' \subseteq Execution
    <3>1. runs \subseteq Execution
      BY DEF TypeOK
    <3>2. runs' \subseteq runs \cup {[x EXCEPT !.res = res]}
      BY <2>1
    <3> QED
      BY <2>2, <3>1, <3>2
  <2>4. dups' \in Nat
    <3>1. dups' = dups \/ dups' = dups + 1
      BY <2>1
    <3> QED
      BY <3>1 DEF TypeOK
  <2> QED
    BY <2>3, <2>4
<1> QED
  BY <1>1, <1>2

\* p originates well-formed mutations, the second a raising one.
GoodOrigination(p) ==
    /\ RestOK'
    /\ \E m1, m2 :
          /\ MutationOK(m1) /\ MutationOK(m2) /\ m2.op \in RaisingOp
          /\ OriginateAs(p, m1, m2, Together) \/ OriginateAs(p, m1, m2, Apart)

\* Every action by which a primary originates mutations.
LEMMA OriginatesWell ==
    ASSUME IInv, NEW p \in Replica, NEW t \in Task, OriginateStep(p, t)
    PROVE  GoodOrigination(p)
<1>0. TypeOK
  BY DEF IInv
<1>1. /\ NoVersion \in Version
      /\ {"none", "recoverable", "nonrecoverable", "unfulfillable", "invalid"} \subseteq Payload
      /\ Outcome \ {"ok"} \subseteq Payload
      /\ {"TaskFailed", "TaskSkippedAlreadyDone", "Nothing", "TaskBlocked"} \subseteq RaisingOp
  BY DEF NoVersion, Version, Payload, Outcome, RaisingOp, Op
<1>3. MayOriginate(p)
  BY DEF OriginateStep, SeedTask, SpawnTask, AssignTask, HandleTaskComplete,
         HandleTaskFailed, FinalizeSoftFailure, RequeueTask, RetryTask, ReinjectTask,
         FailPermanent, SettleSetup
<1>4. /\ primary' \in [Replica -> Replica] /\ epoch' \in [Replica -> Nat]
      /\ ops' \in Nat /\ env' \in Environment
  BY <1>0, <1>3 DEF MayOriginate, TypeOK
<1>5. \A op \in Op, err \in Payload : MutationOK(Stamped(p, op, t, err))
                                     /\ Stamped(p, op, t, err).op = op
  BY <1>0, StampedOK
<1>6. MutationOK(Nothing(t)) /\ Nothing(t).op \in RaisingOp
  BY NothingOK
<1>7. \A op \in {"TaskAdded", "TasksSpawned"} : MutationOK(Mut(op, t, 0, NoVersion, "none", {}))
  BY <1>1 DEF Mut, Mutation, MutationOK, Op
<1>8. NoReport => runs' \subseteq Execution /\ dups' \in Nat
  BY <1>0 DEF NoReport, TypeOK
<1>9. BumpSeq(p, t) \/ Unstamped => taskSeq' \in [Replica -> [Task -> Nat]]
  BY <1>0, SeqType DEF BumpSeq
<1>10. \A res \in Outcome : Report(t, res) => runs' \subseteq Execution /\ dups' \in Nat
  BY <1>0, ReportType
<1>11. ASSUME NEW mark \in {"new", "done", "invalid"}, SeedTask(p, t, mark)
       PROVE  GoodOrigination(p)
  <2> DEFINE m2 == CASE mark = "done"    -> Stamped(p, "TaskSkippedAlreadyDone", t, "none")
                     [] mark = "invalid" -> Stamped(p, "TaskFailed", t, "invalid")
                     [] OTHER            -> Nothing(t)
  <2>1. MutationOK(m2) /\ m2.op \in RaisingOp
    BY <1>1, <1>5, <1>6 DEF RaisingOp
  <2>2. RestOK'
    BY <1>4, <1>8, <1>9, <1>11 DEF SeedTask, RestOK
  <2>3. OriginateAs(p, Mut("TaskAdded", t, 0, NoVersion, "none", {}), m2, Together)
    BY <1>11 DEF SeedTask, Originate
  <2> QED
    BY <1>7, <2>1, <2>2, <2>3 DEF GoodOrigination
<1>12. ASSUME SpawnTask(p, t) PROVE GoodOrigination(p)
  BY <1>4, <1>6, <1>7, <1>8, <1>9, <1>12 DEF SpawnTask, Originate, GoodOrigination, RestOK
<1>13. ASSUME AssignTask(p, t) PROVE GoodOrigination(p)
  <2>1. [t |-> t, id |-> ops, res |-> "running"] \in Execution
    BY <1>0 DEF Execution, TypeOK
  <2>2. RestOK'
    BY <1>0, <1>4, <1>9, <1>13, <2>1 DEF AssignTask, RestOK, TypeOK
  <2>3. MutationOK(Stamped(p, "TaskAssigned", t, "none"))
    BY <1>1, <1>5 DEF Op
  <2> QED
    BY <1>6, <1>13, <2>2, <2>3 DEF AssignTask, Originate, GoodOrigination
<1>14. ASSUME HandleTaskComplete(p, t) PROVE GoodOrigination(p)
  <2>1. RestOK'
    BY <1>4, <1>9, <1>10, <1>14 DEF HandleTaskComplete, RestOK, Outcome
  <2>2. MutationOK(Stamped(p, "TaskCompleted", t, "none"))
    BY <1>1, <1>5 DEF Op
  <2> QED
    BY <1>6, <1>14, <2>1, <2>2 DEF HandleTaskComplete, Originate, GoodOrigination
<1>15. ASSUME NEW err \in Outcome \ {"ok"}, HandleTaskFailed(p, t, err)
       PROVE  GoodOrigination(p)
  <2>1. PICK D \in SUBSET Task :
          /\ OriginateAs(p, Stamped(p, "TaskFailed", t, err), CascadeTerminal(p, t, D), Apart)
          /\ BumpSeqs(p, {t} \cup D)
    BY <1>15 DEF HandleTaskFailed, Pooled, Waiting, Dependents
  <2>2. RestOK'
    BY <1>0, <1>4, <1>10, <1>15, <2>1, SeqType DEF HandleTaskFailed, RestOK
  <2>3. MutationOK(Stamped(p, "TaskFailed", t, err))
    BY <1>1, <1>5 DEF Op
  <2> QED
    BY <1>0, <2>1, <2>2, <2>3, CascadeOK DEF GoodOrigination
<1>16. ASSUME FinalizeSoftFailure(p, t) PROVE GoodOrigination(p)
  <2>1. PICK D \in SUBSET Task :
          /\ OriginateAs(p, CascadeTerminal(p, t, D), Nothing(t), Together)
          /\ BumpSeqs(p, D)
    BY <1>16 DEF FinalizeSoftFailure, Originate, Pooled, Waiting, Dependents
  <2>2. RestOK'
    BY <1>0, <1>4, <1>8, <1>16, <2>1, SeqType DEF FinalizeSoftFailure, RestOK
  <2> QED
    BY <1>0, <1>6, <2>1, <2>2, CascadeOK DEF GoodOrigination
<1>17. ASSUME RequeueTask(p, t) PROVE GoodOrigination(p)
  <2>1. MutationOK(Stamped(p, "TaskRequeued", t, "none"))
    BY <1>1, <1>5 DEF Op
  <2> QED
    BY <1>4, <1>6, <1>8, <1>9, <1>17, <2>1 DEF RequeueTask, Originate, GoodOrigination, RestOK
<1>18. ASSUME RetryTask(p, t) PROVE GoodOrigination(p)
  <2> DEFINE m1 == [Stamped(p, "TaskRetried", t, "none") EXCEPT !.att = @ + 1]
  <2>1. Stamped(p, "TaskRetried", t, "none") \in Mutation
          /\ Stamped(p, "TaskRetried", t, "none").op = "TaskRetried"
    BY <1>0, <1>1, StampedOK DEF Op
  <2>2. m1 \in Mutation /\ m1.op = "TaskRetried"
    BY <2>1 DEF Mutation
  <2>3. MutationOK(m1)
    BY <2>2 DEF MutationOK
  <2>4. OriginateAs(p, m1, Nothing(t), Together)
    BY <1>18 DEF RetryTask, Originate
  <2>5. RestOK'
    BY <1>4, <1>8, <1>9, <1>18 DEF RetryTask, RestOK
  <2> QED
    BY <1>6, <2>3, <2>4, <2>5 DEF GoodOrigination
<1>19. ASSUME ReinjectTask(p, t) PROVE GoodOrigination(p)
  <2>1. MutationOK(Stamped(p, "TaskReinjected", t, "none"))
    BY <1>1, <1>5 DEF Op
  <2> QED
    BY <1>4, <1>6, <1>8, <1>9, <1>19, <2>1 DEF ReinjectTask, Originate, GoodOrigination, RestOK
<1>20. ASSUME NEW err \in {"nonrecoverable", "unfulfillable"}, FailPermanent(p, t, err)
       PROVE  GoodOrigination(p)
  <2> DEFINE deps == {[t |-> u, att |-> 0, ver |-> NoVersion]
                        : u \in PausedBy(tasks[p], t)}
             block == Mut("TaskBlocked", t, 0, NoVersion, "none", deps)
  <2>1. deps \in SUBSET Dependent /\ \A d \in deps : t \in Prerequisites(d.t)
    BY <1>1 DEF PausedBy, Waiting, Dependent, Dependents, Prerequisites
  <2>2. MutationOK(block) /\ block.op \in RaisingOp
    <3> HIDE DEF deps
    <3> QED
      BY <1>1, <2>1 DEF Mut, Mutation, MutationOK, Op, RaisingOp
  <2>3. MutationOK(Stamped(p, "TaskFailed", t, err))
    BY <1>1, <1>5 DEF Op
  <2>4. \E m2 \in {block, Nothing(t)} :
          OriginateAs(p, Stamped(p, "TaskFailed", t, err), m2, Together)
    BY <1>20 DEF FailPermanent, Originate
  <2>5. RestOK'
    BY <1>4, <1>8, <1>9, <1>20 DEF FailPermanent, RestOK
  <2> HIDE DEF block
  <2> QED
    BY <1>6, <2>2, <2>3, <2>4, <2>5 DEF GoodOrigination
<1>21. ASSUME SettleSetup(p, t) PROVE GoodOrigination(p)
  <2>1. MutationOK(Stamped(p, "SetupCompleted", t, "none"))
    BY <1>1, <1>5 DEF Op
  <2> QED
    BY <1>4, <1>6, <1>8, <1>9, <1>21, <2>1 DEF SettleSetup, Originate, GoodOrigination, RestOK
<1> QED
  BY <1>11, <1>12, <1>13, <1>14, <1>15, <1>16, <1>17, <1>18, <1>19, <1>20, <1>21
  DEF OriginateStep

\* Every origination keeps the invariant and the action properties.
LEMMA OriginateStepOK ==
    ASSUME IInv, NEW p \in Replica, NEW t \in Task, OriginateStep(p, t)
    PROVE  IInv' /\ StepOK
<1>1. GoodOrigination(p)
  BY OriginatesWell
<1> QED
  BY <1>1, OriginateOK DEF GoodOrigination, IInv, TypeOK, RestOK

-----------------------------------------------------------------------------
(* Deliveries, streams and failover.                                       *)

\* A step that leaves every ledger but that of r alone.
LEMMA OneReplicaOK ==
    ASSUME IInv, NEW r \in Replica, NEW N, LedgerOK(N), LedgerStep(tasks[r], N),
           tasks' = [tasks EXCEPT ![r] = N],
           net' \subseteq net, RestOK'
    PROVE  IInv' /\ StepOK
<1>1. \A s \in Replica : tasks'[s] = IF s = r THEN N ELSE tasks[s]
  BY DEF IInv, TypeOK
<1>2. \A s \in Replica : LedgerOK(tasks[s]) /\ LedgerStep(tasks[s], tasks[s])
  BY SameStep DEF IInv
<1>3. tasks' \in [Replica -> Ledger]
  BY DEF IInv, TypeOK, LedgerOK
<1> QED
  BY <1>1, <1>2, <1>3 DEF IInv, TypeOK, RestOK, StepOK

\* A step that leaves every ledger alone.
LEMMA NoReplicaOK ==
    ASSUME IInv, tasks' = tasks, net' \subseteq TaskMsg \cup PrimaryMsg,
           \A m \in net' : m \in net \/ m \notin TaskMsg, RestOK'
    PROVE  IInv' /\ StepOK
<1>1. \A s \in Replica : LedgerStep(tasks[s], tasks[s])
  BY SameStep DEF IInv
<1> QED
  BY <1>1 DEF IInv, TypeOK, RestOK, StepOK

\* primary_register_adopt keeps the register typed.
LEMMA AdoptType ==
    ASSUME TypeOK, NEW r \in Replica, NEW new \in Replica, NEW e \in Nat,
           AdoptPrimary(r, new, e)
    PROVE  primary' \in [Replica -> Replica] /\ epoch' \in [Replica -> Nat]
  BY DEF TypeOK, AdoptPrimary

\* Delivering a frame, once or again, adds nothing to the network.
LEMMA ConsumeType ==
    ASSUME TypeOK, NEW m, Consume(m)
    PROVE  net' \subseteq net /\ dups' \in Nat
  BY DEF TypeOK, Consume

\* Every step keeps the inductive invariant and changes every replica only
\* in the ways LedgerStep allows.  One step per action of Next.
LEMMA NextOK ==
    ASSUME IInv, [Next]_vars
    PROVE  IInv' /\ StepOK
<1>0. TypeOK
  BY DEF IInv
<1>1. ASSUME NEW p \in Replica, NEW t \in Task, OriginateStep(p, t)
      PROVE  IInv' /\ StepOK
  BY <1>1, OriginateStepOK
<1>2. ASSUME NEW m \in net, DeliverTasks(m) PROVE IInv' /\ StepOK
  <2>1. m \in TaskMsg /\ m.to \in Replica /\ FrameOK(m.f)
    BY <1>2 DEF DeliverTasks, IInv, TaskMsg
  <2>2. LedgerOK(ApplyFrame(tasks[m.to], m.f))
          /\ LedgerStep(tasks[m.to], ApplyFrame(tasks[m.to], m.f))
    BY <2>1, FrameStep DEF IInv, FrameOK, ApplyFrame
  <2>3. tasks' = [tasks EXCEPT ![m.to] = ApplyFrame(tasks[m.to], m.f)]
    BY <1>2 DEF DeliverTasks
  <2>4. net' \subseteq net /\ RestOK'
    BY <1>0, <1>2, ConsumeType DEF DeliverTasks, RestOK, TypeOK
  <2> QED
    BY <2>1, <2>2, <2>3, <2>4, OneReplicaOK
<1>3. ASSUME NEW m \in net, DeliverPrimary(m) PROVE IInv' /\ StepOK
  <2>1. m.to \in Replica /\ m.new \in Replica /\ m.epoch \in Nat
    BY <1>3 DEF DeliverPrimary, PrimaryMsg
  <2>2. net' \subseteq net /\ RestOK' /\ tasks' = tasks
    BY <1>0, <1>3, <2>1, ConsumeType, AdoptType DEF DeliverPrimary, RestOK, TypeOK
  <2> QED
    BY <1>0, <2>2, NoReplicaOK DEF TypeOK
<1>4. ASSUME NEW r \in Replica, NEW s \in Replica, NEW t \in Task, RestoreTask(r, s, t)
      PROVE  IInv' /\ StepOK
  <2>1. tasks[s][t] \in TaskState /\ tasks[s][t].st # "Absent" /\ BlockedOK(t, tasks[s][t])
    BY <1>0, <1>4 DEF RestoreTask, Present, TypeOK, Ledger, IInv, LedgerOK
  <2>2. LedgerOK(MergeTaskState(tasks[r], t, tasks[s][t]))
          /\ LedgerStep(tasks[r], MergeTaskState(tasks[r], t, tasks[s][t]))
    BY <2>1, MergeStep DEF IInv
  <2>3. tasks' = [tasks EXCEPT ![r] = MergeTaskState(tasks[r], t, tasks[s][t])]
    BY <1>4 DEF RestoreTask
  <2>4. net' \subseteq net /\ RestOK'
    BY <1>0, <1>4 DEF RestoreTask, RestOK, TypeOK
  <2> QED
    BY <2>2, <2>3, <2>4, OneReplicaOK
<1>5. ASSUME NEW r \in Replica, NEW s \in Replica, RestoreHead(r, s)
      PROVE  IInv' /\ StepOK
  <2>1. primary[s] \in Replica /\ epoch[s] \in Nat
    BY <1>0 DEF TypeOK
  <2>2. RestOK' /\ tasks' = tasks /\ net' = net
    BY <1>0, <1>5, <2>1, AdoptType DEF RestoreHead, RestOK, TypeOK
  <2> QED
    BY <1>0, <2>2, NoReplicaOK DEF TypeOK
<1>6. ASSUME NEW r \in Replica, Promote(r) PROVE IInv' /\ StepOK
  <2>1. epoch[r] + 1 \in Nat
    BY <1>0 DEF TypeOK
  <2>2. RestOK' /\ tasks' = tasks
    BY <1>0, <1>6, <2>1, AdoptType DEF Promote, RestOK, TypeOK
  <2>3. \A s \in Replica : [to |-> s, new |-> r, epoch |-> epoch[r] + 1] \in PrimaryMsg
    BY <2>1 DEF PrimaryMsg
  <2>4. \A x \in PrimaryMsg : x \notin TaskMsg
    BY DEF PrimaryMsg, TaskMsg
  <2>5. \A m \in net' : m \in net \/ m \in PrimaryMsg
    BY <1>6, <2>3 DEF Promote
  <2>6. net' \subseteq TaskMsg \cup PrimaryMsg
    BY <1>0, <2>5 DEF TypeOK
  <2> QED
    BY <2>2, <2>4, <2>5, <2>6, NoReplicaOK
<1>7. ASSUME NEW p \in Replica, NEW t \in Task, NEW res \in Outcome, DropReport(p, t, res)
      PROVE  IInv' /\ StepOK
  <2>1. RestOK' /\ tasks' = tasks /\ net' = net
    BY <1>0, <1>7, ReportType DEF DropReport, RestOK, TypeOK
  <2> QED
    BY <1>0, <2>1, NoReplicaOK DEF TypeOK
<1>8. CASE UNCHANGED vars
  <2>1. RestOK' /\ tasks' = tasks /\ net' = net
    BY <1>0, <1>8 DEF vars, RestOK, TypeOK
  <2> QED
    BY <1>0, <2>1, NoReplicaOK DEF TypeOK
<1> QED
  BY <1>1, <1>2, <1>3, <1>4, <1>5, <1>6, <1>7, <1>8 DEF Next

-----------------------------------------------------------------------------
(* The theorems.                                                           *)

\* The seeded ledger satisfies the inductive invariant.
LEMMA InitOK == Init => IInv
<1> SUFFICES ASSUME Init PROVE IInv
  OBVIOUS
<1>1. FirstPrimary \in Replica
  BY ReplicaAssumption, LeastNatural DEF FirstPrimary
<1>2. /\ Pending(0, NoVersion) \in TaskState /\ Pending(0, NoVersion).st = "Pending"
      /\ Absent \in TaskState /\ Absent.st = "Absent" /\ Absent.att = 0
  BY DEF Pending, Absent, Make, TaskState, Status, Payload, Version, NoVersion
<1>3. \A r \in Replica : LedgerOK(tasks[r])
  BY <1>2 DEF Init, LedgerOK, Ledger, Blank, BlockedOK
<1>4. TypeOK
  BY <1>1, <1>2 DEF Init, TypeOK, Ledger
<1> QED
  BY <1>3, <1>4 DEF IInv, Init

\* The inductive invariant holds in every reachable state.
LEMMA Invariance == Spec => []IInv
<1>1. IInv /\ [Next]_vars => IInv'
  BY NextOK
<1> QED
  BY <1>1, InitOK, PTL DEF Spec

\* Type correctness of the replicated ledger.
THEOREM TypeCorrect == Spec => []TypeOK
<1>1. IInv => TypeOK
  BY DEF IInv
<1> QED
  BY <1>1, Invariance, PTL

\* A Blocked entry waits on one of its own prerequisites, on every replica: the
\* resume and cascade walks only ever descend the dependency graph.
THEOREM BlockedOnPrerequisiteHolds == Spec => []BlockedOnPrerequisite
<1>1. IInv => BlockedOnPrerequisite
  BY DEF IInv, LedgerOK, BlockedOK, BlockedOnPrerequisite
<1> QED
  BY <1>1, Invariance, PTL

\* Terminal lockout: no late, duplicated or zombie mutation and no stale stream
\* replaces a settled entry by a state the join does not rank above it.
THEOREM TerminalLockoutHolds == Spec => TerminalLockout
<1>1. IInv /\ [Next]_vars =>
        [\A r \in Replica, t \in Task :
            tasks[r][t].st \in Settled =>
               \/ tasks'[r][t] = tasks[r][t]
               \/ Dominates(tasks'[r][t], tasks[r][t])]_vars
  BY NextOK DEF StepOK, LedgerStep, Rises
<1> QED
  BY <1>1, Invariance, PTL DEF Spec, TerminalLockout

\* A retry generation survives: only an entry that is Failed ever goes back to
\* an earlier attempt.
THEOREM RetrySurvivesHolds == Spec => RetrySurvives
<1>1. IInv /\ [Next]_vars =>
        [\A r \in Replica, t \in Task :
            tasks[r][t].st # "Failed" => tasks'[r][t].att >= tasks[r][t].att]_vars
  BY NextOK DEF StepOK, LedgerStep
<1> QED
  BY <1>1, Invariance, PTL DEF Spec, RetrySurvives

-----------------------------------------------------------------------------
(* The register of the primary implements the office of Leadership.        *)

\* Whomever a replica or an announcement under way names has reached that epoch.
Named ==
    /\ \A r \in Replica : epoch[primary[r]] >= epoch[r]
    /\ \A m \in net \cap PrimaryMsg : epoch[m.new] >= m.epoch

\* What one step may do to the registers: nothing, or to one of them a step of the
\* office; and it announces only that.
OfficeStep ==
    \/ primary' = primary /\ epoch' = epoch
    \/ \E r, l \in Replica, e \in Nat :
          /\ primary' = [primary EXCEPT ![r] = l] /\ epoch' = [epoch EXCEPT ![r] = e]
          /\ Adopts(r, l, e)
          /\ (l = r /\ e = epoch[r] + 1) \/ epoch[l] >= e

\* An origination announces no primary.
LEMMA OriginationAnnouncesNobody ==
    ASSUME IInv, NEW p \in Replica, NEW t \in Task, OriginateStep(p, t)
    PROVE  net' \cap PrimaryMsg \subseteq net /\ primary' = primary /\ epoch' = epoch
<1>1. PICK m1, m2 : OriginateAs(p, m1, m2, Together) \/ OriginateAs(p, m1, m2, Apart)
  BY OriginatesWell DEF GoodOrigination
<1>2. ASSUME NEW m \in net', m \notin net PROVE m \notin PrimaryMsg
  <2>1. \E f : m \in Broadcast(p, f)
    BY <1>1, <1>2 DEF OriginateAs
  <2>2. PICK f : m \in Broadcast(p, f)
    BY <2>1
  <2>3. PICK r \in Replica : m = [to |-> r, f |-> f]
    BY <2>2 DEF Broadcast
  <2> QED
    BY <2>3 DEF PrimaryMsg
<1>3. primary' = primary /\ epoch' = epoch
  BY DEF OriginateStep, SeedTask, SpawnTask, AssignTask, HandleTaskComplete,
         HandleTaskFailed, FinalizeSoftFailure, RequeueTask, RetryTask, ReinjectTask,
         FailPermanent, SettleSetup, MayOriginate
<1> QED
  BY <1>2, <1>3

\* A register that is offered and adopted, or not.
LEMMA AdoptIsOfficeStep ==
    ASSUME IInv, NEW r \in Replica, NEW l \in Replica, NEW e \in Nat,
           AdoptPrimary(r, l, e), (l = r /\ e = epoch[r] + 1) \/ epoch[l] >= e
    PROVE  OfficeStep
<1>1. CASE Adopts(r, l, e)
  BY <1>1 DEF AdoptPrimary, OfficeStep
<1>2. CASE ~Adopts(r, l, e)
  BY <1>2 DEF AdoptPrimary, OfficeStep
<1> QED
  BY <1>1, <1>2

\* A step moves at most one register, to one that somebody took, and announces no
\* other.
LEMMA NextIsOfficeStep ==
    ASSUME IInv, Named, [Next]_vars
    PROVE  OfficeStep /\ \A m \in net' \cap PrimaryMsg : m \in net \/ epoch'[m.new] >= m.epoch
<1>0. /\ primary \in [Replica -> Replica] /\ epoch \in [Replica -> Nat]
  BY DEF IInv, TypeOK
<1>1. CASE UNCHANGED vars
  BY <1>1 DEF vars, OfficeStep
<1>2. ASSUME NEW p \in Replica, NEW t \in Task, OriginateStep(p, t)
      PROVE  OfficeStep /\ net' \cap PrimaryMsg \subseteq net
  BY <1>2, OriginationAnnouncesNobody DEF OfficeStep
<1>3. ASSUME NEW m \in net, DeliverTasks(m)
      PROVE  OfficeStep /\ net' \subseteq net
  BY <1>3 DEF DeliverTasks, Consume, OfficeStep
<1>4. ASSUME NEW m \in net, DeliverPrimary(m)
      PROVE  OfficeStep /\ net' \subseteq net
  <2>1. m.to \in Replica /\ m.new \in Replica /\ m.epoch \in Nat /\ epoch[m.new] >= m.epoch
    BY <1>4 DEF DeliverPrimary, PrimaryMsg, Named
  <2>2. AdoptPrimary(m.to, m.new, m.epoch)
    BY <1>4 DEF DeliverPrimary
  <2>3. net' \subseteq net
    BY <1>4 DEF DeliverPrimary, Consume
  <2> QED
    BY <2>1, <2>2, <2>3, AdoptIsOfficeStep
<1>5. ASSUME NEW r \in Replica, NEW s \in Replica, NEW t \in Task, RestoreTask(r, s, t)
      PROVE  OfficeStep /\ net' = net
  BY <1>5 DEF RestoreTask, OfficeStep
<1>6. ASSUME NEW r \in Replica, NEW s \in Replica, RestoreHead(r, s)
      PROVE  OfficeStep /\ net' = net
  <2>1. primary[s] \in Replica /\ epoch[s] \in Nat /\ epoch[primary[s]] >= epoch[s]
    BY <1>0 DEF Named
  <2>2. AdoptPrimary(r, primary[s], epoch[s]) /\ net' = net
    BY <1>6 DEF RestoreHead
  <2> QED
    BY <2>1, <2>2, AdoptIsOfficeStep
<1>7. ASSUME NEW r \in Replica, Promote(r)
      PROVE  OfficeStep /\ \A m \in net' : m \in net \/ epoch'[m.new] >= m.epoch
  <2>1. epoch[r] + 1 \in Nat /\ AdoptPrimary(r, r, epoch[r] + 1)
    BY <1>0, <1>7 DEF Promote
  <2>2. Adopts(r, r, epoch[r] + 1)
    BY <1>0 DEF Adopts
  <2>3. epoch'[r] = epoch[r] + 1
    BY <1>0, <2>1, <2>2 DEF AdoptPrimary
  <2>4. ASSUME NEW m \in net', m \notin net PROVE epoch'[m.new] >= m.epoch
    <3>1. PICK s \in Replica : m = [to |-> s, new |-> r, epoch |-> epoch[r] + 1]
      BY <1>7, <2>4 DEF Promote
    <3> QED
      BY <2>1, <2>3, <3>1
  <2> QED
    BY <2>1, <2>4, AdoptIsOfficeStep
<1>8. ASSUME NEW p \in Replica, NEW t \in Task, NEW res \in Outcome, DropReport(p, t, res)
      PROVE  OfficeStep /\ net' = net
  BY <1>8 DEF DropReport, OfficeStep
<1> QED
  BY <1>1, <1>2, <1>3, <1>4, <1>5, <1>6, <1>7, <1>8 DEF Next, vars

\* The epochs only rise, so what was named stays named rightly.
LEMMA NamedPreserved == IInv /\ Named /\ [Next]_vars => Named'
<1> SUFFICES ASSUME IInv, Named, [Next]_vars PROVE Named'
  OBVIOUS
<1>0. primary \in [Replica -> Replica] /\ epoch \in [Replica -> Nat]
  BY DEF IInv, TypeOK
<1>1. OfficeStep /\ \A m \in net' \cap PrimaryMsg : m \in net \/ epoch'[m.new] >= m.epoch
  BY NextIsOfficeStep
<1>2. \A r \in Replica : epoch'[r] \in Nat /\ epoch'[r] >= epoch[r]
  BY <1>0, <1>1 DEF OfficeStep, Adopts
<1>3. \A r \in Replica : epoch'[primary'[r]] >= epoch'[r]
  BY <1>0, <1>1, <1>2 DEF OfficeStep, Named, Adopts
<1>4. ASSUME NEW m \in net' \cap PrimaryMsg PROVE epoch'[m.new] >= m.epoch
  <2>1. m.new \in Replica /\ m.epoch \in Nat
    BY DEF PrimaryMsg
  <2>2. CASE m \in net
    BY <1>0, <1>2, <2>1, <2>2 DEF Named
  <2> QED
    BY <1>1, <2>2
<1> QED
  BY <1>3, <1>4 DEF Named

\* Every step is a step of Leadership or leaves the registers alone.
LEMMA StepImplements == IInv /\ Named /\ [Next]_vars => [Office!Next]_Registers
<1> SUFFICES ASSUME IInv, Named, [Next]_vars, Registers' # Registers PROVE Office!Next
  OBVIOUS
<1>0. primary \in [Replica -> Replica] /\ epoch \in [Replica -> Nat]
  BY DEF IInv, TypeOK
<1>1. PICK r, l \in Replica, e \in Nat :
        /\ primary' = [primary EXCEPT ![r] = l] /\ epoch' = [epoch EXCEPT ![r] = e]
        /\ Adopts(r, l, e)
        /\ (l = r /\ e = epoch[r] + 1) \/ epoch[l] >= e
  BY NextIsOfficeStep DEF OfficeStep, Registers
<1>2. Registers' = [Registers EXCEPT ![r] = [id |-> l, epoch |-> e]]
  BY <1>0, <1>1 DEF Registers
<1>3. Registers[r] = [id |-> primary[r], epoch |-> epoch[r]] /\ Registers[l].epoch = epoch[l]
  BY DEF Registers
<1> HIDE DEF Registers
<1>4. CASE l = r /\ e = epoch[r] + 1
  BY <1>2, <1>3, <1>4 DEF Office!Next, Office!TakeOffice
<1>5. CASE epoch[l] >= e
  <2>1. e \in 0..Registers[l].epoch
    BY <1>0, <1>3, <1>5
  <2>2. Office!Over([id |-> l, epoch |-> e], Registers[r])
    BY <1>1, <1>3 DEF Office!Over, Adopts
  <2> QED
    BY <1>2, <2>1, <2>2 DEF Office!Next, Office!Follow
<1> QED
  BY <1>1, <1>4, <1>5

\* For any tasks, replicas and bounds the ledger's register of the primary behaves like the
\* office of Leadership, as the election that feeds it does: what TaskLedger assumes
\* of a failover is no more than what Election provides.
THEOREM LedgerImplementsLeadership == Spec => ImplementsLeadership
<1>0. FirstPrimary \in Replica
  BY ReplicaAssumption, LeastNatural DEF FirstPrimary
<1>1. Init => Office!Init
  BY <1>0 DEF Init, Office!Init, Registers
<1>2. Init => Named
  BY <1>0 DEF Init, Named
<1> QED
  BY <1>1, <1>2, Invariance, NamedPreserved, StepImplements, PTL
     DEF Spec, ImplementsLeadership, Office!Spec
=============================================================================
