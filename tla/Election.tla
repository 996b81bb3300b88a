------------------------------ MODULE Election ------------------------------
(***************************************************************************)
(* Failover: how the secondaries notice that the primary is gone, agree on *)
(* its death, elect the lowest of them and follow it.                      *)
(*                                                                         *)
(* Every node judges for itself, from three clocks that it keeps for every *)
(* other node: the frames it hears, the beacon, and the transport's view   *)
(* of the mesh.  The survivors notice a death at different instants and in *)
(* different orders, a node that lives may be unheard for a while, and     *)
(* what one node says of another may be old when it arrives.               *)
(*                                                                         *)
(* Time is left out: a clock that has run out is a step the environment    *)
(* takes, and a tick that waits (the settle window after a change, the     *)
(* silence backstop, the interval before a tally) is a tick that has not   *)
(* happened yet.                                                           *)
(***************************************************************************)
EXTENDS Naturals, Sequences, FiniteSets, FiniteSetsExt

CONSTANTS
    Node,        \* the hosts, by their place in the order of the ids
    Environment  \* the environments the fleet may meet: a set of records

EnvironmentType ==
    [first   : Node,         \* the primary at the start
     gone    : SUBSET Node,  \* the nodes that died before, as everybody has seen
     crashes : Nat,          \* bound: nodes that crash
     starves : Nat,          \* bound: times that a node hears only another's beacon
     freezes : Nat,          \* bound: times that it does not hear another that runs
     cuts    : Nat,          \* bound: connections lost between two that run
     rounds  : Nat \ {0}]    \* bound: the round at which a candidate stops counting

ASSUME NodeAssumption == Node \subseteq Nat
ASSUME EnvironmentAssumption == Environment \subseteq EnvironmentType

VARIABLES
    up,          \* the nodes that run
    register,    \* node -> current_primary and primary_epoch of its replica
    election,    \* node -> its ElectionState
    known,       \* node -> the keys of its peer_keepalives
    heard,       \* node -> the peers whose entry in peer_keepalives is fresh
    beacons,     \* node -> the nodes whose beacon is fresh
    silent,      \* the nodes whose primary_last_seen has run out
    members,     \* node -> the peers with a connection of their own (has_peer)
    unroutable,  \* node -> the peers every relay to which has bounced
    deposed,     \* the nodes with deposed_primary set
    net,         \* node -> node -> the frames under way from one to the other
    env,         \* the environment, chosen at the start
    past         \* how many crashes, starvations, freezes and cuts so far, and whether
                 \* a node that runs has forgotten another that runs

clocks == <<known, heard, beacons, silent>>
mesh == <<members, unroutable>>
world == <<env, past>>
vars == <<up, register, election, deposed, net, clocks, mesh, world>>

-----------------------------------------------------------------------------
(* Types and small operators.                                              *)

Round == Nat \ {0}
Register == [id : Node, epoch : Nat]

Normal            == [state |-> "normal"]
Suspecting(agree) == [state |-> "suspecting", agree |-> agree]  \* who answered: silent
Voting(r, c)      == [state |-> "voting", round |-> r, candidate |-> c]

\* Mutant: the rounds of a candidacy are counted from zero.
CandidateFromZero(r, c) == [state |-> "candidate", round |-> r - 1, confirms |-> c]

Candidate(r, c) == [state |-> "candidate", round |-> r, confirms |-> c]

ElectionState ==
    [state : {"normal"}]
    \cup [state : {"suspecting"}, agree : SUBSET Node]
    \cup [state : {"candidate"}, round : Round, confirms : SUBSET Node]
    \cup [state : {"voting"}, round : Round, candidate : Node]

Frame ==
    [type : {"query"}, about : Node]
    \cup [type : {"response"}, silent : BOOLEAN]
    \cup [type : {"vote"}, round : Round]
    \cup [type : {"confirm"}, round : Round]
    \cup [type : {"changed"}, reg : Register]

Primary(n) == register[n].id

\* The host whose own replica names it runs the primary.
Leads(n) == n \in up /\ Primary(n) = n

-----------------------------------------------------------------------------
(* What a node knows.                                                      *)

\* has_route: a connection of its own, or some other peer that may relay.
IsMeshRoutable(n, m) ==
    m \in members[n] \/ (members[n] \ {m} # {} /\ m \notin unroutable[n])

NodeBeaconFresh(n, m) == m \in beacons[n]

PrimaryDepartedMembership(n) == Primary(n) # n /\ ~IsMeshRoutable(n, Primary(n))

PeerDeathObserved(n, m) ==
    m \in known[n] /\ m # n /\ ~IsMeshRoutable(n, m) /\ ~NodeBeaconFresh(n, m)

\* What n answers when asked about q: that it sees no life in it.
AnswersSilent(n, q) ==
    n # q /\ (q \notin known[n] \/ q \notin heard[n] \/ PeerDeathObserved(n, q))

\* Mutant: the peers are counted by their beacons, which a secondary sends to its primary.
LivePeersByBeacon(n) == {m \in beacons[n] : m # Primary(n) /\ m \in members[n]}

LivePeers(n) == {m \in known[n] : m # Primary(n) /\ m \in members[n]}

CurrentPrimaryInQuorum(n) == Primary(n) # n /\ Primary(n) \in members[n]

FailoverQuorumPeerCount(n) ==
    Cardinality(LivePeers(n)) + (IF CurrentPrimaryInQuorum(n) THEN 1 ELSE 0)

FailoverQuorum(peers) == (peers + 1) \div 2 + 1

Quorum(n) == FailoverQuorum(FailoverQuorumPeerCount(n))

Lowest(n) == Min(LivePeers(n) \cup {n})

\* Mutant: the beacon is not consulted.
PrimarySilentOnTheMesh(n) == n \in silent \/ PrimaryDepartedMembership(n)

\* The frames of a primary have stopped or the transport has lost the present one, and
\* no beacon of it comes.  A change of the primary does not touch the clock.
PrimarySilent(n) ==
    /\ n \in silent \/ PrimaryDepartedMembership(n)
    /\ ~NodeBeaconFresh(n, Primary(n))

-----------------------------------------------------------------------------
(* Frames.                                                                 *)

Query(n)     == [type |-> "query", about |-> Primary(n)]
Vote(r)      == [type |-> "vote", round |-> r]
Changed(reg) == [type |-> "changed", reg |-> reg]

Holds(queue, type) == \E i \in DOMAIN queue : queue[i].type = type

\* A connection is one stream: what n sends to m arrives in its order.
Send(queues, n, M, f) ==
    [queues EXCEPT ![n] = [m \in Node |-> IF m \in M THEN Append(@[m], f) ELSE @[m]]]

\* Destination::All: the peers with a connection of their own, if they run.
Broadcast(queues, n, f) == Send(queues, n, members[n] \cap up, f)

\* The queues once n has taken the first frame of m.
Taken(n, m) == [net EXCEPT ![m][n] = Tail(@)]

\* n answers the frame it took: over the connection to m, or through a relay.  To a
\* dead peer the answer is lost.  When every relay bounces it, n learns that no
\* relay reaches that peer.
Reply(n, m, f) ==
    LET relays == (members[n] \cap up) \ {m}
        reached == m \in members[n] \/ \E r \in relays : m \in members[r]
    IN  /\ net' = Send(Taken(n, m), n, IF reached THEN {m} \cap up ELSE {}, f)
        /\ unroutable' = IF reached \/ relays = {}
                         THEN unroutable
                         ELSE [unroutable EXCEPT ![n] = @ \cup {m}]

-----------------------------------------------------------------------------
(* The register of the primary.                                            *)

\* Mutant: whoever announces itself last is followed.
AdoptsTheLast(local, incoming) == incoming.epoch >= local.epoch /\ incoming # local

\* primary_register_adopt: the higher epoch wins, then the lower id.
Adopts(local, incoming) ==
    \/ incoming.epoch > local.epoch
    \/ incoming.epoch = local.epoch /\ incoming.id < local.id

\* apply_primary_changed and on_primary_identity_advanced.
Adopt(n, reg) ==
    /\ register' = [register EXCEPT ![n] = reg]
    /\ deposed' = IF reg.id = n THEN deposed \ {n}
                  ELSE IF Primary(n) = n THEN deposed \cup {n} ELSE deposed
    /\ election' = [election EXCEPT ![n] = Normal]

\* Mutant: the epoch is counted again for the announcement.
FireWithAnotherEpoch(n, queues) ==
    LET reg == [id |-> n, epoch |-> register[n].epoch + 1]
    IN  /\ Adopt(n, reg)
        /\ net' = Broadcast(queues, n, Changed([reg EXCEPT !.epoch = @ + 1]))

\* fire_local_promotion, on the way out of Promoted.
FireLocalPromotion(n, queues) ==
    LET reg == [id |-> n, epoch |-> register[n].epoch + 1]
    IN  /\ Adopt(n, reg)
        /\ net' = Broadcast(queues, n, Changed(reg))

-----------------------------------------------------------------------------
(* run_election_tick, an arm at a time.                                    *)

Suspect(n) ==
    /\ election' = [election EXCEPT ![n] = Suspecting({})]
    /\ net' = Broadcast(net, n, Query(n))
    /\ UNCHANGED <<register, deposed>>

\* The settle window after a change and the silence backstop outlast the first keepalive
\* of a new primary that runs, so its host has fallen silent as well.
NeedElection(n) ==
    /\ PrimarySilent(n)
    /\ Primary(n) \notin heard[n] \cup {n} \/ PrimaryDepartedMembership(n)

\* Normal: the primary looks dead.
Arm(n) ==
    /\ n \in up
    /\ election[n] = Normal
    /\ NeedElection(n)
    /\ Suspect(n)
    /\ UNCHANGED <<up, clocks, mesh, world>>

Agreed(n) == Cardinality(election[n].agree) + 1 >= Quorum(n)

\* Mutant: without a quorum the node waits for the answers it has asked for.
RepollNobody(n) ==
    /\ n \in up
    /\ election[n].state = "suspecting"
    /\ ~Agreed(n)
    /\ UNCHANGED vars

\* Suspecting, without a quorum: ask again.  A bound: only when the last question and its
\* answer are no longer under way.
Asked(n) == {m \in Node : Holds(net[n][m], "query") \/ Holds(net[m][n], "response")}

Repoll(n) ==
    /\ n \in up
    /\ election[n].state = "suspecting"
    /\ ~Agreed(n)
    /\ (members[n] \cap up) \ Asked(n) # {}
    /\ net' = Send(net, n, (members[n] \cap up) \ Asked(n), Query(n))
    /\ UNCHANGED <<up, register, election, deposed, clocks, mesh, world>>

\* Suspecting, with a quorum: the lowest stands, the others wait for it.
Tally(n) ==
    /\ n \in up
    /\ election[n].state = "suspecting"
    /\ Agreed(n)
    /\ \/ /\ Lowest(n) # n
          /\ election' = [election EXCEPT ![n] = Voting(1, Lowest(n))]
          /\ UNCHANGED <<register, deposed, net>>
       \/ /\ Lowest(n) = n
          /\ Quorum(n) <= 1 /\ n \notin deposed
          /\ FireLocalPromotion(n, net)
       \/ /\ Lowest(n) = n
          /\ ~(Quorum(n) <= 1 /\ n \notin deposed)
          /\ election' = [election EXCEPT ![n] = Candidate(1, {n})]
          /\ net' = Broadcast(net, n, Vote(1))
          /\ UNCHANGED <<register, deposed>>
    /\ UNCHANGED <<up, clocks, mesh, world>>

\* Candidate: five intervals without a quorum.  Once the round is at its bound it
\* starts again at that round, and only when nothing of it is under way.
Retry(n) ==
    /\ n \in up
    /\ election[n].state = "candidate"
    /\ LET r == election[n].round
           next == IF r < env.rounds THEN r + 1 ELSE r
       IN  /\ \/ r < env.rounds
              \/ \A m \in Node : ~Holds(net[n][m], "vote") /\ ~Holds(net[m][n], "confirm")
           /\ election' = [election EXCEPT ![n] = Candidate(next, {n})]
           /\ net' = Broadcast(net, n, Vote(next))
    /\ UNCHANGED <<up, register, deposed, clocks, mesh, world>>

\* Voting: the candidate died.
ReleasesVote(n) ==
    election[n].state = "voting" /\ PeerDeathObserved(n, election[n].candidate)

Release(n) ==
    /\ n \in up
    /\ ReleasesVote(n)
    /\ Suspect(n)
    /\ UNCHANGED <<up, clocks, mesh, world>>

-----------------------------------------------------------------------------
(* handle_inbound, a frame at a time.                                      *)

HandleTimeoutQuery(n, m, f) ==
    /\ f.type = "query"
    /\ Reply(n, m, [type |-> "response", silent |-> AnswersSilent(n, f.about)])
    /\ UNCHANGED <<up, register, election, deposed, clocks, members, world>>

\* record_timeout_response: the last answer of a peer counts, whomever it is about.
HandleTimeoutResponse(n, m, f) ==
    /\ f.type = "response"
    /\ net' = Taken(n, m)
    /\ election' =
          IF election[n].state = "suspecting"
          THEN [election EXCEPT ![n].agree = IF f.silent THEN @ \cup {m} ELSE @ \ {m}]
          ELSE election
    /\ UNCHANGED <<up, register, deposed, clocks, mesh, world>>

\* record_promotion_vote: the voter must itself find the primary silent.
GrantsVote(n, c) == PrimarySilent(n) /\ c \in members[n] /\ Lowest(n) = c

HandlePromotionVote(n, m, f) ==
    /\ f.type = "vote"
    /\ \/ /\ GrantsVote(n, m)
          /\ election' = [election EXCEPT ![n] = Voting(f.round, m)]
          /\ Reply(n, m, [type |-> "confirm", round |-> f.round])
       \/ /\ ~GrantsVote(n, m)
          /\ net' = Taken(n, m)
          /\ UNCHANGED <<election, unroutable>>
    /\ UNCHANGED <<up, register, deposed, clocks, members, world>>

\* record_promotion_confirm.
HandlePromotionConfirm(n, m, f) ==
    LET counts == election[n].state = "candidate" /\ election[n].round = f.round
        confirms == election[n].confirms \cup {m}
    IN  /\ f.type = "confirm"
        /\ IF counts /\ Cardinality(confirms) >= Quorum(n)
           THEN FireLocalPromotion(n, Taken(n, m))
           ELSE /\ election' = IF counts
                              THEN [election EXCEPT ![n].confirms = confirms]
                              ELSE election
                /\ net' = Taken(n, m)
                /\ UNCHANGED <<register, deposed>>
        /\ UNCHANGED <<up, clocks, mesh, world>>

\* ClusterMutation with a PrimaryChanged.
HandlePrimaryChanged(n, m, f) ==
    /\ f.type = "changed"
    /\ net' = Taken(n, m)
    /\ IF Adopts(register[n], f.reg)
       THEN Adopt(n, f.reg)
       ELSE UNCHANGED <<register, election, deposed>>
    /\ UNCHANGED <<up, clocks, mesh, world>>

\* n handles the first frame of m.
Receive(n, m) ==
    /\ net[m][n] # <<>>
    /\ LET f == Head(net[m][n])
       IN  \/ HandleTimeoutQuery(n, m, f)
           \/ HandleTimeoutResponse(n, m, f)
           \/ HandlePromotionVote(n, m, f)
           \/ HandlePromotionConfirm(n, m, f)
           \/ HandlePrimaryChanged(n, m, f)

\* What m broadcasts reaches n.
Connected(m, n) == {n, m} \subseteq up /\ n \in members[m]

\* Anti-entropy: n restores the register of a peer that is ahead of it.
Reconcile(n, m) ==
    /\ Connected(m, n)
    /\ Adopts(register[n], register[m])
    /\ Adopt(n, register[m])
    /\ UNCHANGED <<up, net, clocks, mesh, world>>

-----------------------------------------------------------------------------
(* The clocks and the mesh.                                                *)

\* What m keeps sending to n: the keepalive of a secondary, that of a primary (n's own
\* included) and the beacon, which needs no connection; a primary sends its beacon to
\* every node, a secondary to the primary it follows.
SendsPrimaryKeepalive(m, n) == Leads(m) /\ (m = n \/ Connected(m, n))
SendsBeacon(m, n) == m \in up /\ m # n /\ Primary(m) \in {m, n}

\* The keepalives and the beacon of m arrive; that of the primary ends an election.
Hear(n, m) ==
    LET resumes == m = Primary(n) /\ SendsPrimaryKeepalive(m, n)
    IN  /\ n \in up
        /\ known' = IF Connected(m, n) THEN [known EXCEPT ![n] = @ \cup {m}] ELSE known
        /\ heard' = IF Connected(m, n) THEN [heard EXCEPT ![n] = @ \cup {m}] ELSE heard
        /\ beacons' = IF SendsBeacon(m, n) THEN [beacons EXCEPT ![n] = @ \cup {m}]
                      ELSE beacons
        /\ silent' = IF resumes THEN silent \ {n} ELSE silent
        /\ election' = IF resumes THEN [election EXCEPT ![n] = Normal] ELSE election
        /\ <<clocks, election>>' # <<clocks, election>>
        /\ UNCHANGED <<up, register, deposed, net, mesh, world>>

\* The clocks run out for what m no longer sends.
Expire(n, m) ==
    /\ n \in up
    /\ heard' = IF Connected(m, n) THEN heard ELSE [heard EXCEPT ![n] = @ \ {m}]
    /\ beacons' = IF SendsBeacon(m, n) THEN beacons ELSE [beacons EXCEPT ![n] = @ \ {m}]
    /\ silent' = IF m = Primary(n) /\ ~SendsPrimaryKeepalive(m, n) THEN silent \cup {n}
                 ELSE silent
    /\ <<heard, beacons, silent>>' # <<heard, beacons, silent>>
    /\ UNCHANGED <<up, register, election, deposed, net, known, mesh, world>>

\* m runs, but n hears only its beacon: it is starved of processor time.
Starve(n, m) ==
    /\ past.starves < env.starves
    /\ past' = [past EXCEPT !.starves = @ + 1]
    /\ Connected(m, n) /\ m \in heard[n]
    /\ heard' = [heard EXCEPT ![n] = @ \ {m}]
    /\ silent' = IF m = Primary(n) THEN silent \cup {n} ELSE silent
    /\ UNCHANGED <<up, register, election, deposed, net, known, beacons, mesh, env>>

\* m runs, but n does not even hear its beacon.
Freeze(n, m) ==
    /\ past.freezes < env.freezes
    /\ past' = [past EXCEPT !.freezes = @ + 1]
    /\ Connected(m, n) /\ m \in heard[n]
    /\ heard' = [heard EXCEPT ![n] = @ \ {m}]
    /\ beacons' = [beacons EXCEPT ![n] = @ \ {m}]
    /\ silent' = IF m = Primary(n) THEN silent \cup {n} ELSE silent
    /\ UNCHANGED <<up, register, election, deposed, net, known, mesh, env>>

\* A node is lost, with what was to reach it and, for some peers, what it had sent.
Crash(n) ==
    /\ past.crashes < env.crashes
    /\ past' = [past EXCEPT !.crashes = @ + 1]
    /\ n \in up
    /\ up' = up \ {n}
    /\ \E cut \in SUBSET {m \in Node : net[n][m] # <<>>} :
          net' = [k \in Node |-> [m \in Node |->
                    IF m = n \/ (k = n /\ m \in cut) THEN <<>> ELSE net[k][m]]]
    /\ UNCHANGED <<register, election, deposed, clocks, mesh, env>>

\* The connection to a dead node is torn down.
Disconnect(n, m) ==
    /\ n \in up /\ m \in members[n] \ up
    /\ members' = [members EXCEPT ![n] = @ \ {m}]
    /\ UNCHANGED <<up, register, election, deposed, net, clocks, unroutable, world>>

\* n loses its connection to a node that runs, which may keep its own, and dials again.
Cut(n, m) ==
    /\ past.cuts < env.cuts
    /\ past' = [past EXCEPT !.cuts = @ + 1]
    /\ n \in up /\ m \in members[n] \cap up
    /\ members' = [members EXCEPT ![n] = @ \ {m}]
    /\ net' \in {net, [net EXCEPT ![n][m] = <<>>]}
    /\ UNCHANGED <<up, register, election, deposed, clocks, unroutable, env>>

Redial(n, m) ==
    /\ n # m /\ {n, m} \subseteq up /\ m \notin members[n]
    /\ members' = [members EXCEPT ![n] = @ \cup {m}]
    /\ UNCHANGED <<up, register, election, deposed, net, clocks, unroutable, world>>

\* check_peer_timeouts: a peer unheard for long is forgotten, unless it is the primary.
\* By then the connection to a dead peer is down and the ticks have seen it.
Reap(n, m) ==
    /\ n \in up /\ m \in known[n] /\ m # Primary(n)
    /\ m \notin heard[n]
    /\ m \in up \/ m \notin members[n]
    /\ ~ReleasesVote(n)
    /\ known' = [known EXCEPT ![n] = @ \ {m}]
    /\ past' = [past EXCEPT !.forgot = @ \/ m \in up]
    /\ UNCHANGED <<up, register, election, deposed, net, heard, beacons, silent, mesh, env>>

-----------------------------------------------------------------------------

Init ==
    /\ env \in Environment
    /\ up = Node \ env.gone
    /\ register = [n \in Node |-> [id |-> env.first, epoch |-> 1]]
    /\ election = [n \in Node |-> Normal]
    /\ known = [n \in Node |-> Node \ {n}]
    /\ heard = [n \in Node |-> up \ {n}]
    /\ beacons = [n \in Node |-> {m \in up \ {n} : env.first \in {m, n}}]
    /\ silent = up \ {n \in up : env.first \in up}
    /\ members = [n \in Node |-> up \ {n}]
    /\ unroutable = [n \in Node |-> {}]
    /\ deposed = {}
    /\ net = [n \in Node |-> [m \in Node |-> <<>>]]
    /\ past = [crashes |-> 0, starves |-> 0, freezes |-> 0, cuts |-> 0, forgot |-> FALSE]

Tick(n) == Arm(n) \/ Repoll(n) \/ Tally(n) \/ Retry(n) \/ Release(n)

Clocks(n, m) ==
    Hear(n, m) \/ Expire(n, m) \/ Disconnect(n, m) \/ Redial(n, m) \/ Reconcile(n, m)

Next ==
    \/ \E n \in Node : Tick(n) \/ Crash(n)
    \/ \E n, m \in Node :
          \/ Receive(n, m)
          \/ Clocks(n, m) \/ Starve(n, m) \/ Freeze(n, m) \/ Cut(n, m) \/ Reap(n, m)

Spec == Init /\ [][Next]_vars

\* Every node keeps ticking, its clocks run, and what is under way to a node that runs
\* arrives.
FairSpec ==
    /\ Spec
    /\ \A n \in Node : WF_vars(Tick(n))
    /\ \A n, m \in Node : WF_vars(Clocks(n, m)) /\ WF_vars(Receive(n, m))

-----------------------------------------------------------------------------

\* Every variable keeps its type: in particular a candidacy and the votes for it have a
\* round, and an ElectionState has the fields of its variant only.
TypeOK ==
    /\ up \subseteq Node
    /\ register \in [Node -> Register]
    /\ election \in [Node -> ElectionState]
    /\ known \in [Node -> SUBSET Node]
    /\ heard \in [Node -> SUBSET Node]
    /\ beacons \in [Node -> SUBSET Node]
    /\ silent \subseteq Node
    /\ members \in [Node -> SUBSET Node]
    /\ unroutable \in [Node -> SUBSET Node]
    /\ deposed \subseteq Node
    /\ net \in [Node -> [Node -> Seq(Frame)]]
    /\ env \in Environment
    /\ past \in [crashes : 0..env.crashes, starves : 0..env.starves,
                freezes : 0..env.freezes, cuts : 0..env.cuts,
                forgot : BOOLEAN]

\* record_promotion_vote and record_promotion_confirm elect one: while nodes that run
\* keep their connections and are not reaped from peer_keepalives, no two nodes lead at
\* the same primary_epoch, though each suspects and counts by its own clocks.
OneLeaderPerEpoch ==
    past.cuts = 0 /\ ~past.forgot =>
        \A n, m \in Node :
            Leads(n) /\ Leads(m) /\ register[n].epoch = register[m].epoch => n = m

\* Nobody is named primary without having taken the role: whomever a replica names, by
\* PrimaryChanged or by restore, that node has itself reached the epoch at which
\* it is named.
FollowsTheWilling ==
    \A n \in Node : register[Primary(n)].epoch >= register[n].epoch

\* The election implements the office of Leadership: a register changes only when its
\* node takes the role at the epoch after its own (fire_local_promotion), or when it
\* comes to know of a node that did and that primary_register_adopt puts before
\* the one it follows.
Office == INSTANCE Leadership WITH Node <- Node, register <- register
ImplementsLeadership == Office!Spec

\* The union of frames and beacon in run_election_tick and record_promotion_vote: as long
\* as beacons come and connections hold, a primary that runs is not deposed, even when
\* every secondary has missed its keepalives and another node has crashed.
LivePrimaryStays ==
    [][past'.freezes = 0 /\ past'.cuts = 0 =>
          \A n \in Node : Leads(n) /\ n \in up' => Leads(n)']_vars

\* run_election_tick converges: in the end every node that runs follows one that runs,
\* after a crash, after a live primary was taken for dead and after a cut
\* that let two lead at once.
FailoverCompletes ==
    <>[](up # {} => \E l \in up : \A n \in up : Primary(n) = l)

\* What the next tick of n would do something about.
TickPending(n) ==
    \/ election[n] = Normal /\ NeedElection(n)
    \/ election[n].state \in {"suspecting", "candidate"}
    \/ ReleasesVote(n)

\* Nothing is under way, and everybody has seen who is dead.
Settled ==
    /\ \A n, m \in Node : net[n][m] = <<>>
    /\ \A n \in up :
          /\ members[n] \cup heard[n] \cup beacons[n] \subseteq up
          /\ Primary(n) \in up \/ n \in silent

\* The Voting arm of run_election_tick releases a vote lent to a candidate that died, so
\* that a survivor emerges: once things have settled, a node whose primary is dead is
\* not left in a fleet where nobody leads and no tick has anything to do.
NoWedge ==
    Settled =>
        \A n \in up : Primary(n) \in up \/ \E m \in up : Leads(m) \/ TickPending(m)
=============================================================================
