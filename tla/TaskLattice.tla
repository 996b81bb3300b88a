----------------------------- MODULE TaskLattice -----------------------------
(***************************************************************************)
(* One replica's task ledger: the states of a task, the join key that      *)
(* orders them, the join every monotone transition goes through, and the   *)
(* arms of ClusterState::apply that change a task.  Everything here is a   *)
(* pure operator on a ledger, a function from tasks to task states;        *)
(* TaskLedger builds its actions from these.                               *)
(*                                                                         *)
(* A task state is one record shape for every variant of TaskState.  The   *)
(* frozen definition and the routing tail are left out: no transition      *)
(* reads them.  A field a variant does not carry holds its neutral value.  *)
(***************************************************************************)
EXTENDS Integers, FiniteSets, Sequences

CONSTANTS
    Task,         \* the content hashes of the tasks
    NoTask,       \* the `on` of a state that is not Blocked
    DepSeq,       \* task -> its task_depends_on, in declaration order
    PayloadHash   \* error payload -> its content hash (DefaultHasher, 64 bits)

\* What a failure carries: its ErrorType and error text.  "upstream" is the
\* Failed{NonRecoverable, "upstream-failed"} shape of the cascades.
Payload == {"none", "recoverable", "nonrecoverable", "upstream",
            "unfulfillable", "invalid"}

ASSUME NoTaskAssumption == NoTask \notin Task
ASSUME DepSeqAssumption == DepSeq \in [Task -> Seq(Task)]
ASSUME HashAssumption == PayloadHash \in [Payload -> Nat]

Status == {"Absent", "Pending", "InFlight", "Completed", "Failed",
           "Unfulfillable", "Blocked", "InvalidTask", "Skipped",
           "SetupCompleted"}

\* A TaskVersion is the pair (primary_epoch, seq); Default is (0, 0).
Version == Nat \X Nat
NoVersion == <<0, 0>>

TaskState == [st : Status, att : Nat, ver : Version,
              on : Task \cup {NoTask}, err : Payload]

Make(st, att, ver, on, err) ==
    [st |-> st, att |-> att, ver |-> ver, on |-> on, err |-> err]

Absent == Make("Absent", 0, NoVersion, NoTask, "none")
Pending(att, ver) == Make("Pending", att, ver, NoTask, "none")
InFlight(att, ver) == Make("InFlight", att, ver, NoTask, "none")
Completed(att) == Make("Completed", att, NoVersion, NoTask, "none")
Blocked(att, on) == Make("Blocked", att, NoVersion, on, "none")
Skipped(att) == Make("Skipped", att, NoVersion, NoTask, "none")
SetupCompleted(att) == Make("SetupCompleted", att, NoVersion, NoTask, "none")

\* The state a TaskFailed mutation stands for: its kind selects the variant.
FailureState(err, att, ver) ==
    Make(CASE err = "unfulfillable" -> "Unfulfillable"
           [] err = "invalid"       -> "InvalidTask"
           [] OTHER                 -> "Failed",
         att, ver, NoTask, err)

UpstreamFailed(att) == FailureState("upstream", att, NoVersion)

Failures == {"Failed", "Unfulfillable", "InvalidTask"}
Terminals == Failures \cup {"Completed", "Skipped", "SetupCompleted"}
NonRecoverable == {"nonrecoverable", "upstream"}

Ledger == [Task -> TaskState]

Present(L, t) == L[t].st # "Absent"

Deps(t) == {DepSeq[t][i] : i \in 1 .. Len(DepSeq[t])}

\* The pool refuses a cyclic batch; no proof needs more than this.
ASSUME NoSelfDependency == \A t \in Task : t \notin Deps(t)

\* The transitive dependents of root.
Dependents(root) ==
    {t \in Task \ {root} : \A S \in SUBSET Task :
        (root \in S /\ \A u \in Task : Deps(u) \cap S # {} => u \in S) => t \in S}

\* The prerequisites of t, direct and transitive.
Prerequisites(t) == {d \in Task : t \in Dependents(d)}

-----------------------------------------------------------------------------
(* The join key: eight naturals compared lexicographically.                *)

\* Mutant: Blocked shares the band of the live states.
BandWithoutBlocked(s) == IF s.st \in Terminals THEN 2 ELSE 0

Band(s) == CASE s.st \in Terminals -> 2
             [] s.st = "Blocked"   -> 1
             [] OTHER              -> 0

TerminalRank(s) == CASE s.st = "Skipped"        -> 0
                     [] s.st = "SetupCompleted" -> 1
                     [] s.st = "Completed"      -> 3
                     [] s.st = "InvalidTask"    -> 4
                     [] OTHER                   -> 2

NonTerminalRank(s) == IF s.st = "InFlight" THEN 1 ELSE 0
FailedLikeRank(s) == IF s.st = "Unfulfillable" THEN 1 ELSE 0
TerminalPayloadHash(s) == IF s.st \in Failures THEN PayloadHash[s.err] ELSE 0

\* Mutant: the band is compared before the attempt.
JoinKeyBandFirst(s) ==
    <<Band(s), s.att, TerminalRank(s), s.ver[1], s.ver[2],
      NonTerminalRank(s), FailedLikeRank(s), TerminalPayloadHash(s)>>

JoinKey(s) == <<s.att, Band(s), TerminalRank(s), s.ver[1], s.ver[2],
                NonTerminalRank(s), FailedLikeRank(s), TerminalPayloadHash(s)>>

KeyLen == 8
Key == [1 .. KeyLen -> Nat]

\* a < b, lexicographically.
KeyLess(a, b) ==
    \E i \in 1 .. KeyLen : /\ a[i] < b[i]
                           /\ \A j \in 1 .. i - 1 : a[j] = b[j]

\* task_join_key_dominates: strictly greater wins, a tie does not.
Dominates(inc, loc) == KeyLess(JoinKey(loc), JoinKey(inc))

-----------------------------------------------------------------------------
(* merge_task_state and the two walks it runs over the dependents.         *)

BlockedOn(L, t) == {u \in Task : L[u].st = "Blocked" /\ L[u].on = t}

\* resume_blocked_on: every dependent blocked on t is Pending again, at the
\* default version.
ResumeBlockedOn(L, t) ==
    [u \in Task |-> IF u \in BlockedOn(L, t) THEN Pending(L[u].att, NoVersion)
                                             ELSE L[u]]

\* The tasks the recursive walk of cascade_fail_blocked_dependents reaches
\* from the roots: the least set closed under "blocked on a member".
Stranded(L, roots) ==
    {t \in Task :
        /\ L[t].st = "Blocked"
        /\ \A S \in SUBSET Task :
              (roots \subseteq S /\ \A u \in S : BlockedOn(L, u) \subseteq S) => t \in S}

CascadeFailBlockedDependents(L, root) ==
    [t \in Task |-> IF t \in Stranded(L, {root}) THEN UpstreamFailed(L[t].att)
                                                 ELSE L[t]]

IsCascadeTerminal(s) ==
    s.st = "InvalidTask" \/ (s.st = "Failed" /\ s.err \in NonRecoverable)

\* Mutant: a stream does not insert an entry the replica lacks.
WinsOnlyPresent(L, t, inc) == Present(L, t) /\ Dominates(inc, L[t])

Wins(L, t, inc) == ~Present(L, t) \/ Dominates(inc, L[t])

NewlyCompleted(L, t, inc) == inc.st = "Completed" /\ L[t].st # "Completed"

MergeTaskState(L, t, inc) ==
    LET resumed == IF NewlyCompleted(L, t, inc) THEN ResumeBlockedOn(L, t) ELSE L
        written == [resumed EXCEPT ![t] = inc]
    IN  IF ~Wins(L, t, inc) THEN L
        ELSE IF IsCascadeTerminal(inc) THEN CascadeFailBlockedDependents(written, t)
        ELSE written

-----------------------------------------------------------------------------
(* The arms of ClusterState::apply that change a task.  A mutation has one *)
(* record shape too.  Two ops stand for a run of mutations about the       *)
(* dependents of one root, whose order does not matter: TaskBlocked pauses *)
(* each of deps on t, UpstreamFailed is one TaskFailed for each of deps.   *)

Op == {"Nothing", "TaskAdded", "TaskAssigned", "TaskCompleted", "TaskFailed",
       "TaskReinjected", "TaskRequeued", "TaskRetried", "TaskBlocked",
       "TaskSkippedAlreadyDone", "SetupCompleted", "TasksSpawned",
       "UpstreamFailed"}

\* A dependent in a run, with the attempt and the version its mutation carries.
Dependent == [t : Task, att : Nat, ver : Version]

Mutation == [op : Op, t : Task, att : Nat, ver : Version, err : Payload,
             deps : SUBSET Dependent]

Mut(op, t, att, ver, err, deps) ==
    [op |-> op, t |-> t, att |-> att, ver |-> ver, err |-> err, deps |-> deps]

Set(L, t, s) == [L EXCEPT ![t] = s]

ApplyTaskAdded(L, m) ==
    IF Present(L, m.t) THEN L ELSE Set(L, m.t, Pending(0, NoVersion))

\* The joins: a mutation for an unknown task is dropped, any other goes
\* through merge_task_state.
ApplyTaskAssigned(L, m) ==
    IF Present(L, m.t) THEN MergeTaskState(L, m.t, InFlight(m.att, m.ver)) ELSE L

ApplyTaskCompleted(L, m) ==
    IF Present(L, m.t) THEN MergeTaskState(L, m.t, Completed(m.att)) ELSE L

ApplyTaskFailed(L, m) ==
    IF Present(L, m.t)
    THEN MergeTaskState(L, m.t, FailureState(m.err, m.att, m.ver)) ELSE L

\* The resets: authoritative rank drops outside the join, gated on the source
\* state alone.
ApplyTaskReinjected(L, m) ==
    IF L[m.t].st = "Unfulfillable"
    THEN Set(L, m.t, Pending(L[m.t].att, m.ver)) ELSE L

\* Mutant: the requeue arm forgets its source gate.
ApplyTaskRequeuedUngated(L, m) ==
    IF Present(L, m.t) THEN Set(L, m.t, Pending(L[m.t].att, m.ver)) ELSE L

\* Mutant: a requeue gives the attempt back.
ApplyTaskRequeuedRefund(L, m) ==
    IF L[m.t].st = "InFlight" THEN Set(L, m.t, Pending(L[m.t].att - 1, m.ver)) ELSE L

ApplyTaskRequeued(L, m) ==
    IF L[m.t].st = "InFlight"
    THEN Set(L, m.t, Pending(L[m.t].att, m.ver)) ELSE L

ApplyTaskRetried(L, m) ==
    IF L[m.t].st = "Failed" THEN Set(L, m.t, Pending(m.att, m.ver)) ELSE L

\* Mutant: the dependent and the root of a TaskBlocked are swapped.
ApplyTaskBlockedSwapped(L, m) ==
    [u \in Task |-> IF L[u].st = "Pending" /\ \E d \in m.deps : d.t = u
                    THEN Blocked(L[u].att, u) ELSE L[u]]

\* Pending dependents pause on the cascade root; everything else locks out.
ApplyTaskBlocked(L, m) ==
    [u \in Task |-> IF L[u].st = "Pending" /\ \E d \in m.deps : d.t = u
                    THEN Blocked(L[u].att, m.t) ELSE L[u]]

\* A TaskFailed{NonRecoverable} for each dependent, as if one after the other:
\* each joins its own entry, and what was blocked on a loser falls with it.
ApplyUpstreamFailed(L, m) ==
    LET inc(d) == FailureState("upstream", d.att, d.ver)
        hit    == {d \in m.deps : Present(L, d.t) /\ Wins(L, d.t, inc(d))}
        roots  == {d.t : d \in hit}
    IN  [t \in Task |->
            CASE t \in roots -> inc(CHOOSE d \in hit : d.t = t)
              [] t \notin roots /\ t \in Stranded(L, roots) -> UpstreamFailed(L[t].att)
              [] OTHER -> L[t]]

ApplyTaskSkippedAlreadyDone(L, m) ==
    IF L[m.t].st = "Pending" THEN Set(L, m.t, Skipped(L[m.t].att)) ELSE L

\* A succeeded setup task resumes its dependents, outside the join.
ApplySetupCompleted(L, m) ==
    IF L[m.t].st \in {"InFlight", "Pending"}
    THEN ResumeBlockedOn(Set(L, m.t, SetupCompleted(L[m.t].att)), m.t) ELSE L

\* The classification of a brand-new task from the states of its deps, in
\* declaration order, on the replica that applies the spawn.
FirstDep(t, D) ==
    DepSeq[t][CHOOSE i \in 1 .. Len(DepSeq[t]) :
                 /\ DepSeq[t][i] \in D
                 /\ \A j \in 1 .. i - 1 : DepSeq[t][j] \notin D]

SpawnState(L, t) ==
    LET dead    == {d \in Deps(t) : IsCascadeTerminal(L[d])}
        paused  == {d \in Deps(t) : L[d].st = "Unfulfillable"}
        waiting == {d \in Deps(t) : L[d].st \in {"Pending", "InFlight", "Blocked", "Failed"}}
    IN  IF dead # {} THEN UpstreamFailed(0)
        ELSE IF paused # {} THEN Blocked(0, FirstDep(t, paused))
        ELSE IF waiting # {} THEN Blocked(0, FirstDep(t, waiting))
        ELSE Pending(0, NoVersion)

ApplyTasksSpawned(L, m) ==
    IF Present(L, m.t) THEN L ELSE Set(L, m.t, SpawnState(L, m.t))

Apply(L, m) ==
    CASE m.op = "TaskAdded"      -> ApplyTaskAdded(L, m)
      [] m.op = "TaskAssigned"   -> ApplyTaskAssigned(L, m)
      [] m.op = "TaskCompleted"  -> ApplyTaskCompleted(L, m)
      [] m.op = "TaskFailed"     -> ApplyTaskFailed(L, m)
      [] m.op = "TaskReinjected" -> ApplyTaskReinjected(L, m)
      [] m.op = "TaskRequeued"   -> ApplyTaskRequeued(L, m)
      [] m.op = "TaskRetried"    -> ApplyTaskRetried(L, m)
      [] m.op = "TaskBlocked"    -> ApplyTaskBlocked(L, m)
      [] m.op = "UpstreamFailed" -> ApplyUpstreamFailed(L, m)
      [] m.op = "SetupCompleted" -> ApplySetupCompleted(L, m)
      [] m.op = "TasksSpawned"   -> ApplyTasksSpawned(L, m)
      [] m.op = "TaskSkippedAlreadyDone" -> ApplyTaskSkippedAlreadyDone(L, m)
      [] OTHER                   -> L

\* A frame is applied mutation by mutation, in order, by one handler.
Frame == Mutation \X Mutation
Nothing(t) == Mut("Nothing", t, 0, NoVersion, "none", {})
One(m) == <<m, Nothing(m.t)>>
ApplyFrame(L, f) == Apply(Apply(L, f[1]), f[2])
=============================================================================
