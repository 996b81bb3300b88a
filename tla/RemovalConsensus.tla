-------------------------- MODULE RemovalConsensus --------------------------
(***************************************************************************)
(* How a primary declares a secondary dead: the two-round consensus of     *)
(* primary/consensus and secondary/consensus, and the heartbeat that opens *)
(* and drives it.                                                          *)
(*                                                                         *)
(* The primary names the secondaries it has not heard (SuspectPeers); the  *)
(* others probe them and contradict it with what answers (ResolvedPeer).   *)
(* Whoever is left is put to them once more (RestartRequest), and only     *)
(* what all of them still suspect (RestartConfirm) is removed.             *)
(*                                                                         *)
(* One primary's tenure: no failover, hence no epochs.  Frames between two *)
(* hosts keep their order and may be lost.  Time is not measured: a        *)
(* deadline passes when what it waits for has had its time, or, as often   *)
(* as the environment allows, before.                                      *)
(***************************************************************************)
EXTENDS Integers, Sequences, FiniteSets, FiniteSetsExt

CONSTANTS
    Secondary,    \* the hosts a primary may have
    Environment   \* the fleets and faults a behaviour may have

VARIABLES
    env,       \* this behaviour's fleet and faults
    host,      \* secondary -> "up", "paused" (it runs but does nothing) or "down"
    roster,    \* PrimaryCoordinator.secondaries
    silent,    \* those whose silence has reached the hard threshold
    fsm,       \* ConsensusFsm
    ids,       \* ConsensusIdAllocator: the last id given
    sec,       \* secondary -> SecondaryConsensusFsm
    toSec,     \* secondary -> frames from the primary, in order
    toPri,     \* secondary -> frames to the primary, in order
    acks,      \* PeerProbeAck frames under way
    declared,  \* declared dead by the consensus, and not readmitted since
    vouched,   \* <<r, x>>: r credited x in this round, before it was asked to confirm
    faults     \* faults left: frames lost, deadlines passed early, running hosts that lapse

primaryVars == <<roster, silent, fsm, ids, declared>>
wire == <<toSec, toPri, acks>>
vars == <<env, host, primaryVars, sec, wire, vouched, faults>>

EnvironmentType ==
    [fleet : SUBSET Secondary, crash : SUBSET Secondary, pause : SUBSET Secondary,
     fatal : SUBSET Secondary, cut : SUBSET Secondary, apart : SUBSET Secondary,
     lost : Nat, early : Nat, lapses : Nat, rounds : Nat]

ASSUME EnvironmentAssumption == Environment \subseteq EnvironmentType

\* ConsensusState.  A tally is what its sender still suspects: what it retracts leaves set.
ConsensusState(f) ==
    /\ f.st \in {"Idle", "Scheduling", "Resolving", "Confirming"}
    /\ f.id \in Nat
    /\ f.set \subseteq Secondary /\ f.expected \subseteq Secondary
    /\ DOMAIN f.still \subseteq f.expected /\ Range(f.still) \subseteq SUBSET Secondary
    /\ f.retries \in 0..1

NoRound == [st |-> "Idle", id |-> 0, set |-> {}, expected |-> {}, still |-> <<>>, retries |-> 0]

SecondaryConsensusState ==
    [st : {"Idle", "Probing", "Awaiting"}, id : Nat,
     suspects : SUBSET Secondary, resolved : SUBSET Secondary]

NotAsked == [st |-> "Idle", id |-> 0, suspects |-> {}, resolved |-> {}]

PrimaryFrame == [kind : {"SuspectPeers", "RestartRequest"}, id : Nat, peers : SUBSET Secondary]
SecondaryFrame ==
    [kind : {"ResolvedPeer", "RestartConfirm"}, id : Nat,
     resolved : SUBSET Secondary, still : SUBSET Secondary]
Ack == [from : Secondary, to : Secondary, id : Nat]

Budget == [lost : Nat, early : Nat, lapses : Nat]

TypeOK ==
    /\ env \in EnvironmentType
    /\ host \in [Secondary -> {"up", "paused", "down"}]
    /\ roster \subseteq Secondary /\ silent \subseteq Secondary /\ declared \subseteq Secondary
    /\ ConsensusState(fsm)
    /\ ids \in 0..env.rounds
    /\ sec \in [Secondary -> SecondaryConsensusState]
    /\ \A r \in Secondary : /\ Range(toSec[r]) \subseteq PrimaryFrame
                            /\ Range(toPri[r]) \subseteq SecondaryFrame
    /\ acks \subseteq Ack
    /\ vouched \subseteq Secondary \X Secondary
    /\ faults \in Budget

Init ==
    /\ env \in Environment
    /\ host = [r \in Secondary |-> IF r \in env.fleet THEN "up" ELSE "down"]
    /\ roster = env.fleet
    /\ silent = {}
    /\ fsm = NoRound
    /\ ids = 0
    /\ sec = [r \in Secondary |-> NotAsked]
    /\ toSec = [r \in Secondary |-> <<>>]
    /\ toPri = [r \in Secondary |-> <<>>]
    /\ acks = {}
    /\ declared = {}
    /\ vouched = {}
    /\ faults = [lost |-> env.lost, early |-> env.early, lapses |-> env.lapses]

-----------------------------------------------------------------------------
(* The primary.                                                            *)

InFlight == fsm.st \in {"Resolving", "Confirming"}

\* failover_quorum_threshold: n.div_ceil(2) + 1.
FailoverQuorumThreshold(n) == (n + 1) \div 2 + 1

\* dispatch_consensus_frame, Destination::All: everybody connected, the suspects included.
Broadcast(frame) ==
    toSec' = [r \in Secondary |-> IF r \in roster /\ host[r] # "down"
                                  THEN Append(toSec[r], frame) ELSE toSec[r]]

\* What is under way to a host that goes down is gone.
Unreachable(r) ==
    /\ toSec' = [toSec EXCEPT ![r] = <<>>]
    /\ acks' = {a \in acks : a.to # r}

AllDown == \A r \in Secondary : host[r] = "down"

\* CollectiveSilenceGate: when nobody at all is heard, the primary first suspects its own
\* wire, until the batch system says that every job is gone.
Deferring == /\ Cardinality(roster) >= 2 /\ roster \subseteq silent
             /\ \E r \in roster : host[r] # "down"

\* The hard sweep of decide_dead_secondaries: everybody silent is suspected, and unless a
\* round is in flight one is opened (set_scheduling_suspect, escalate, the first poll).
\* Once nobody is left to hear of it, a round needs no id of its own.
Sweep ==
    /\ ~InFlight
    /\ silent \cap roster # {}
    /\ ~Deferring
    /\ ids < env.rounds \/ AllDown
    /\ ids' = IF ids < env.rounds THEN ids + 1 ELSE ids
    /\ LET suspects == silent \cap roster
       IN  /\ fsm' = [NoRound EXCEPT !.st = "Resolving", !.id = ids', !.set = suspects,
                                     !.expected = roster \ suspects]
           /\ Broadcast([kind |-> "SuspectPeers", id |-> ids', peers |-> suspects])
    /\ vouched' = {}
    /\ UNCHANGED <<env, host, roster, silent, declared, sec, toPri, acks, faults>>

\* maybe_requeue_silent_held_work: the silent holders are suspected locally; no round.
LazySuspect ==
    /\ ~InFlight
    /\ ~Deferring
    /\ ids < env.rounds
    /\ \E holders \in SUBSET (silent \cap roster) \ {{}} :
          fsm' = [NoRound EXCEPT !.st = "Scheduling", !.set = holders]
    /\ UNCHANGED <<env, host, roster, silent, ids, declared, sec, wire, vouched, faults>>

\* The intersection taken when all have answered.
Targets(f) == {x \in f.set : \A r \in DOMAIN f.still : x \in f.still[r]}

\* drive_consensus_fsm between deadlines: nobody is left to suspect, or all have
\* confirmed.  commit_consensus_restart then takes the targets out of the roster.
Drive(f, members, unheard) ==
    LET targets == IF f.st = "Confirming" THEN Targets(f) ELSE {}
    IN  IF \/ f.st = "Resolving" /\ f.set = {}
           \/ f.st = "Confirming" /\ f.expected \subseteq DOMAIN f.still
        THEN /\ fsm' = NoRound
             /\ roster' = members \ targets
             /\ silent' = unheard \ targets
             /\ declared' = (declared \ members) \cup targets
        ELSE /\ fsm' = f
             /\ roster' = members
             /\ silent' = unheard
             /\ declared' = declared \ members

\* record_keepalive, clear_scheduling_suspect_if_present: a local suspicion ends with the
\* next frame of the suspect; one that is put to the others does not.
Cleared(r) ==
    IF fsm.st # "Scheduling" THEN fsm
    ELSE IF fsm.set \subseteq {r} THEN NoRound
    ELSE [fsm EXCEPT !.set = @ \ {r}]

ApplyResolved(f, frame) ==
    IF f.st \in {"Resolving", "Confirming"} /\ f.id = frame.id
    THEN [f EXCEPT !.set = @ \ frame.resolved]
    ELSE f

ApplyConfirm(f, r, frame) ==
    IF f.st = "Confirming" /\ f.id = frame.id /\ r \in f.expected
    THEN [f EXCEPT !.set = @ \ frame.resolved,
                   !.still = [q \in DOMAIN @ \cup {r} |-> IF q = r THEN frame.still ELSE @[q]]]
    ELSE f

\* dispatch_message: a frame from a removed member readmits it and any frame is a sign of
\* life, before the frame itself is handled.
HandleFrame(r) ==
    /\ toPri[r] # <<>>
    /\ toPri' = [toPri EXCEPT ![r] = Tail(@)]
    /\ LET frame == Head(toPri[r])
       IN  Drive(IF frame.kind = "ResolvedPeer" THEN ApplyResolved(Cleared(r), frame)
                                                ELSE ApplyConfirm(Cleared(r), r, frame),
                 roster \cup {r}, silent \ {r})
    /\ UNCHANGED <<env, host, ids, sec, toSec, acks, vouched, faults>>

HandleKeepalive(r) ==
    /\ host[r] = "up"
    /\ r \in silent \/ r \notin roster
    /\ fsm' = Cleared(r)
    /\ roster' = roster \cup {r}
    /\ silent' = silent \ {r}
    /\ declared' = declared \ {r}
    /\ UNCHANGED <<env, host, ids, sec, wire, vouched, faults>>

\* handle_secondary_fatal_error: the word of the secondary itself needs no consensus, and
\* a round in flight is not told.
HandleFatalError(r) ==
    /\ r \in env.fatal /\ r \in roster /\ host[r] = "up" /\ toPri[r] = <<>>
    /\ host' = [host EXCEPT ![r] = "down"]
    /\ Unreachable(r)
    /\ roster' = roster \ {r}
    /\ silent' = silent \ {r}
    /\ UNCHANGED <<env, fsm, ids, declared, sec, toPri, vouched, faults>>

\* A deadline passes in time once nothing that could still change the round is under way.
Passes(quiet) ==
    \/ quiet /\ UNCHANGED faults
    \/ ~quiet /\ faults.early > 0 /\ faults' = [faults EXCEPT !.early = @ - 1]

Live == {r \in Secondary : host[r] = "up"}

NoFrames == /\ \A r \in Live : toSec[r] = <<>>
            /\ \A r \in Secondary : toPri[r] = <<>>

\* Whoever a partition sets apart does not reach those it cuts off.
Reaches(r, x) == host[x] = "up" /\ ~(x \in env.cut /\ r \in env.apart)

Unprobed == {r \in Live : sec[r].st # "Idle" /\ \E x \in sec[r].suspects : Reaches(r, x)}

\* Mutant: one more than the quorum is asked for.
SideGateTooHigh ==
    Cardinality(roster \ fsm.set) > FailoverQuorumThreshold(Cardinality(roster) + 1)

\* The side gate, on consensus_mesh_snapshot.
SideGate ==
    Cardinality(roster \ fsm.set) >= FailoverQuorumThreshold(Cardinality(roster) + 1)

\* RESOLUTION_DEADLINE: the side gate, and the second round.
ResolutionDeadline ==
    /\ fsm.st = "Resolving"
    /\ Passes(NoFrames /\ Unprobed = {} /\ \A a \in acks : a.to \notin Live)
    /\ IF SideGate
       THEN /\ fsm' = [fsm EXCEPT !.st = "Confirming", !.retries = 1]
            /\ Broadcast([kind |-> "RestartRequest", id |-> fsm.id, peers |-> fsm.set])
       ELSE fsm' = NoRound /\ UNCHANGED toSec
    /\ UNCHANGED <<env, host, roster, silent, ids, declared, sec, toPri, acks, vouched>>

\* Mutant: the second deadline asks again, too.
AskAgainForEver ==
    /\ fsm.st = "Confirming"
    /\ Passes(NoFrames)
    /\ Broadcast([kind |-> "RestartRequest", id |-> fsm.id, peers |-> fsm.set])
    /\ UNCHANGED <<env, host, primaryVars, sec, toPri, acks, vouched>>

\* Mutant: the retries are counted down past zero.
AskAgainUncounted ==
    /\ fsm.st = "Confirming"
    /\ Passes(NoFrames)
    /\ fsm' = [fsm EXCEPT !.retries = @ - 1]
    /\ Broadcast([kind |-> "RestartRequest", id |-> fsm.id, peers |-> fsm.set])
    /\ UNCHANGED <<env, host, roster, silent, ids, declared, sec, toPri, acks, vouched>>

\* CONFIRMATION_DEADLINE: ask once more, then give up.
ConfirmationDeadline ==
    /\ fsm.st = "Confirming"
    /\ Passes(NoFrames)
    /\ IF fsm.retries > 0
       THEN /\ fsm' = [fsm EXCEPT !.retries = @ - 1]
            /\ Broadcast([kind |-> "RestartRequest", id |-> fsm.id, peers |-> fsm.set])
       ELSE fsm' = NoRound /\ UNCHANGED toSec
    /\ UNCHANGED <<env, host, roster, silent, ids, declared, sec, toPri, acks, vouched>>

-----------------------------------------------------------------------------
(* A secondary.                                                            *)

\* Mutant: the check for a round about nobody else is the wrong way round.
ApplySuspectPeersInverted(r, frame) ==
    /\ sec' = IF ~(frame.peers \subseteq {r}) THEN sec
              ELSE [sec EXCEPT ![r] = [st |-> "Probing", id |-> frame.id,
                                       suspects |-> frame.peers \ {r}, resolved |-> {}]]
    /\ UNCHANGED toPri

\* apply_suspect_peers: a new round replaces the old one; one about nobody else is ignored.
ApplySuspectPeers(r, frame) ==
    /\ sec' = IF frame.peers \subseteq {r} THEN sec
              ELSE [sec EXCEPT ![r] = [st |-> "Probing", id |-> frame.id,
                                       suspects |-> frame.peers \ {r}, resolved |-> {}]]
    /\ UNCHANGED toPri

\* Mutant: the request starts from nothing, as if no round had gone before it.
ApplyRestartRequestAfresh(r, frame) ==
    LET asked == frame.peers \ {r}
    IN  /\ sec' = [sec EXCEPT ![r] = [st |-> "Awaiting", id |-> frame.id,
                                      suspects |-> asked, resolved |-> {}]]
        /\ toPri' = [toPri EXCEPT ![r] = Append(@, [kind |-> "RestartConfirm", id |-> frame.id,
                                                   resolved |-> {}, still |-> asked])]

\* apply_restart_request: what answered is retracted, whatever round it answered in.
ApplyRestartRequest(r, frame) ==
    LET asked == frame.peers \ {r}
        credited == asked \cap sec[r].resolved
    IN  /\ sec' = [sec EXCEPT ![r] = [st |-> "Awaiting", id |-> frame.id,
                                      suspects |-> asked \ credited, resolved |-> credited]]
        /\ toPri' = [toPri EXCEPT ![r] = Append(@, [kind |-> "RestartConfirm", id |-> frame.id,
                                                   resolved |-> credited,
                                                   still |-> asked \ credited])]

HandlePrimaryFrame(r) ==
    /\ host[r] = "up"
    /\ toSec[r] # <<>>
    /\ toSec' = [toSec EXCEPT ![r] = Tail(@)]
    /\ IF Head(toSec[r]).kind = "SuspectPeers" THEN ApplySuspectPeers(r, Head(toSec[r]))
                                               ELSE ApplyRestartRequest(r, Head(toSec[r]))
    /\ UNCHANGED <<env, host, primaryVars, acks, vouched, faults>>

\* poll sends a PeerProbe and apply_probe_request answers it, in whatever state the probed
\* is.  One that is down or paused answers nothing; the probe is repeated.
Probe(r, x) ==
    LET ack == [from |-> x, to |-> r, id |-> sec[r].id]
    IN  /\ sec[r].st # "Idle" /\ x \in sec[r].suspects
        /\ host[r] = "up" /\ Reaches(r, x)
        /\ ack \notin acks
        /\ acks' = acks \cup {ack}
        /\ UNCHANGED <<env, host, primaryVars, sec, toSec, toPri, vouched, faults>>

\* apply_probe_ack: an answer of this round from one that is still suspected.
HandleProbeAck(a) ==
    LET r == a.to
        counts == sec[r].st # "Idle" /\ sec[r].id = a.id /\ a.from \in sec[r].suspects
    IN  /\ host[r] = "up"
        /\ acks' = acks \ {a}
        /\ IF counts
           THEN /\ sec' = [sec EXCEPT ![r].suspects = @ \ {a.from},
                                      ![r].resolved = @ \cup {a.from}]
                /\ toPri' = [toPri EXCEPT ![r] = Append(@, [kind |-> "ResolvedPeer", id |-> a.id,
                                                           resolved |-> {a.from}, still |-> {}])]
                /\ vouched' = IF sec[r].st = "Probing" /\ a.id = fsm.id
                              THEN vouched \cup {<<r, a.from>>} ELSE vouched
           ELSE UNCHANGED <<sec, toPri, vouched>>
        /\ UNCHANGED <<env, host, primaryVars, toSec, faults>>

\* poll, AWAITING_ROUND_END_TIMEOUT: sixty seconds outlast what is left of the round.
AwaitingRoundEndTimeout(r) ==
    /\ host[r] = "up"
    /\ sec[r].st = "Awaiting" /\ sec[r].id # fsm.id
    /\ sec' = [sec EXCEPT ![r] = NotAsked]
    /\ UNCHANGED <<env, host, primaryVars, wire, vouched, faults>>

-----------------------------------------------------------------------------
(* Faults.                                                                 *)

Crash(r) ==
    /\ r \in env.crash /\ host[r] # "down"
    /\ host' = [host EXCEPT ![r] = "down"]
    /\ Unreachable(r)
    /\ UNCHANGED <<env, primaryVars, sec, toPri, vouched, faults>>

Pause(r) ==
    /\ r \in env.pause /\ host[r] = "up" /\ faults.lapses > 0
    /\ faults' = [faults EXCEPT !.lapses = @ - 1]
    /\ host' = [host EXCEPT ![r] = "paused"]
    /\ UNCHANGED <<env, primaryVars, sec, wire, vouched>>

Wake(r) ==
    /\ host[r] = "paused"
    /\ host' = [host EXCEPT ![r] = "up"]
    /\ UNCHANGED <<env, primaryVars, sec, wire, vouched, faults>>

\* Nothing has come from r for the hard threshold: it does nothing, or its link is cut.
GoSilent(r) ==
    /\ r \in roster \ silent
    /\ \/ host[r] # "up" /\ toPri[r] = <<>> /\ UNCHANGED faults
       \/ /\ host[r] = "up" /\ r \in env.cut /\ faults.lapses > 0
          /\ faults' = [faults EXCEPT !.lapses = @ - 1]
    /\ silent' = silent \cup {r}
    /\ UNCHANGED <<env, host, roster, fsm, ids, declared, sec, wire, vouched>>

Lose(r) ==
    /\ faults.lost > 0
    /\ faults' = [faults EXCEPT !.lost = @ - 1]
    /\ \/ toSec[r] # <<>> /\ toSec' = [toSec EXCEPT ![r] = Tail(@)] /\ UNCHANGED <<toPri, acks>>
       \/ toPri[r] # <<>> /\ toPri' = [toPri EXCEPT ![r] = Tail(@)] /\ UNCHANGED <<toSec, acks>>
    /\ UNCHANGED <<env, host, primaryVars, sec, vouched>>

-----------------------------------------------------------------------------
PrimaryStep ==
    \/ Sweep
    \/ LazySuspect
    \/ ResolutionDeadline
    \/ ConfirmationDeadline

SecondaryStep(r) ==
    \/ HandleFrame(r)
    \/ HandleKeepalive(r)
    \/ HandleFatalError(r)
    \/ HandlePrimaryFrame(r)
    \/ \E x \in Secondary \ {r} : Probe(r, x)
    \/ AwaitingRoundEndTimeout(r)

FaultStep(r) == Crash(r) \/ Pause(r) \/ Wake(r) \/ GoSilent(r) \/ Lose(r)

Next ==
    \/ PrimaryStep
    \/ \E r \in Secondary : SecondaryStep(r) \/ FaultStep(r)
    \/ \E a \in acks : HandleProbeAck(a)

Spec == Init /\ [][Next]_vars

\* The heartbeat ticks, so sweeps are made and deadlines pass; a running host handles what
\* arrives and probes; one that is down falls silent, and one that is up is heard again.
\* Frames and lapses are finite, and so are the rounds while somebody is up, so it is enough
\* that some such step is taken; silence does not wait for the rounds of a dead fleet.
Progress ==
    \/ Sweep
    \/ ResolutionDeadline
    \/ ConfirmationDeadline
    \/ \E r \in Secondary :
          \/ HandleFrame(r)
          \/ HandleKeepalive(r)
          \/ HandlePrimaryFrame(r)
          \/ \E x \in Secondary \ {r} : Probe(r, x)
          \/ host[r] = "down" /\ GoSilent(r)
    \/ \E a \in acks : HandleProbeAck(a)

FairSpec ==
    /\ Spec
    /\ WF_vars(Progress)
    /\ \A r \in Secondary : WF_vars(host[r] = "down" /\ GoSilent(r))

-----------------------------------------------------------------------------
(* What it promises.                                                       *)

\* The consensus declares x dead in this step.
Declares(x) == x \in declared' \ declared

\* A responder that had an answer from a suspect before it was asked to confirm saves it,
\* even if its ResolvedPeer is lost, its confirmation has to be asked for twice, and every
\* deadline passes early.
VouchedForIsSpared ==
    [][\A r, x \in Secondary :
          Declares(x) /\ r \in fsm.expected => <<r, x>> \notin vouched]_vars

\* A secondary that merely lost its link to the primary answers the others' probes, and
\* is not declared dead unless frames are lost or the deadlines do not leave it time.
CutOffIsSpared ==
    [][\A x \in Secondary :
          Declares(x) /\ host[x] # "down" /\ x \notin env.pause
             => env.lost > faults.lost \/ env.early > faults.early]_vars

\* No secondary stays frozen out of dispatch: whoever is suspected is cleared, removed or
\* at least released by the end of the round.
SuspicionEnds == \A x \in Secondary : x \in fsm.set ~> x \notin fsm.set

\* "A genuinely all-dead fleet must STILL be declared dead, or the fleet-dead arm never
\* arms and the run hangs forever."
DeadFleetIsDeclared == []AllDown ~> roster = {}

SideSuffices == \* enough are up for the side gate
    Cardinality({r \in roster : host[r] = "up"}) >= FailoverQuorumThreshold(Cardinality(roster) + 1)

\* A secondary that died is removed in the end, although rounds about it are lost to lost
\* frames and early deadlines, as long as enough are up for the side gate.  (Where others
\* lapse as well, they may use up the rounds of the instance.)
DeadIsRemoved ==
    \A x \in Secondary :
        env.lapses = 0 /\ <>[](host[x] = "down") /\ <>[]SideSuffices => <>[](x \notin roster)
=============================================================================
