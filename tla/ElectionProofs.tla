--------------------------- MODULE ElectionProofs ---------------------------
(***************************************************************************)
(* Nobody is named primary without having taken the role, for any fleet    *)
(* and any faults.                                                         *)
(*                                                                         *)
(* A replica learns of a primary from an announcement or from another      *)
(* replica, so the claim must also hold of the announcements under way.    *)
(* It survives because no node's epoch ever falls: a node that was named   *)
(* may be deposed, but what was said of it stays true.                     *)
(***************************************************************************)
EXTENDS Election, WellFoundedInduction, TLAPS

Queues == [Node -> [Node -> Seq(Frame)]]

\* The registers announced by what is under way.
Announced(queues) ==
    {reg \in Register :
        \E n, m \in Node : \E i \in 1..Len(queues[n][m]) : queues[n][m][i] = Changed(reg)}

-----------------------------------------------------------------------------
(* What the queues carry.                                                  *)

\* What each kind of frame carries.
LEMMA FrameShape ==
    ASSUME NEW f \in Frame
    PROVE  /\ f.type = "query" => f.about \in Node
           /\ f.type \in {"vote", "confirm"} => f.round \in Round
           /\ f.type = "response" => f.silent \in BOOLEAN
           /\ f.type = "changed" => f.reg \in Register /\ f = Changed(f.reg)
  BY DEF Frame, Changed

\* A send adds no announcement but its own.
LEMMA SendQueues ==
    ASSUME NEW queues \in Queues, NEW n \in Node, NEW M, NEW f \in Frame
    PROVE  /\ Send(queues, n, M, f) \in Queues
           /\ Announced(Send(queues, n, M, f))
                 \subseteq Announced(queues) \cup {reg \in Register : f = Changed(reg)}
  <1> DEFINE after == Send(queues, n, M, f)
  <1>1. \A k, m \in Node : after[k][m] = IF k = n /\ m \in M THEN Append(queues[k][m], f)
                                         ELSE queues[k][m]
    BY DEF Send, Queues
  <1>2. after \in Queues
    BY DEF Send, Queues
  <1>3. ASSUME NEW k \in Node, NEW m \in Node, NEW i \in 1..Len(after[k][m])
        PROVE  \/ i \in 1..Len(queues[k][m]) /\ after[k][m][i] = queues[k][m][i]
               \/ after[k][m][i] = f
    <2>1. queues[k][m] \in Seq(Frame)
      BY DEF Queues
    <2> HIDE DEF after
    <2>2. CASE after[k][m] = queues[k][m]
      BY <2>2
    <2>3. CASE after[k][m] = Append(queues[k][m], f)
      <3>1. Len(after[k][m]) = Len(queues[k][m]) + 1 /\ Len(queues[k][m]) \in Nat
        BY <2>1, <2>3
      <3>2. CASE i = Len(queues[k][m]) + 1
        BY <3>2, <2>1, <2>3
      <3>3. CASE i # Len(queues[k][m]) + 1
        <4>1. i \in 1..Len(queues[k][m])
          BY <3>1, <3>3
        <4> QED
          BY <4>1, <2>1, <2>3
      <3> QED
        BY <3>2, <3>3
    <2> QED
      BY <1>1, <2>2, <2>3
  <1> HIDE DEF after
  <1>4. Announced(after) \subseteq Announced(queues) \cup {reg \in Register : f = Changed(reg)}
    <2> SUFFICES ASSUME NEW reg \in Register, reg \in Announced(after), f # Changed(reg)
                 PROVE  reg \in Announced(queues)
      BY DEF Announced
    <2>1. PICK k \in Node, m \in Node :
             \E i \in 1..Len(after[k][m]) : after[k][m][i] = Changed(reg)
      BY DEF Announced
    <2>2. \E i \in 1..Len(queues[k][m]) : queues[k][m][i] = Changed(reg)
      BY <1>3, <2>1
    <2> QED
      BY <2>2 DEF Announced
  <1> QED
    BY <1>2, <1>4 DEF after

\* Taking a frame adds no announcement, and the frame was announced.
LEMMA TakenQueues ==
    ASSUME net \in Queues, NEW n \in Node, NEW m \in Node, net[m][n] # <<>>
    PROVE  /\ Taken(n, m) \in Queues
           /\ Announced(Taken(n, m)) \subseteq Announced(net)
           /\ Head(net[m][n]) \in Frame
           /\ \A reg \in Register :
                 Head(net[m][n]) = Changed(reg) => reg \in Announced(net)
  <1>1. net[m][n] \in Seq(Frame) /\ Len(net[m][n]) >= 1
    BY DEF Queues
  <1>2. Head(net[m][n]) \in Frame /\ Head(net[m][n]) = net[m][n][1]
    BY <1>1
  <1>3. Taken(n, m) \in Queues
    BY <1>1 DEF Taken, Queues
  <1>4. ASSUME NEW k \in Node, NEW l \in Node, NEW i \in 1..Len(Taken(n, m)[k][l])
        PROVE  \E j \in 1..Len(net[k][l]) : Taken(n, m)[k][l][i] = net[k][l][j]
    <2>1. CASE k = m /\ l = n
      <3>1. Taken(n, m)[k][l] = Tail(net[k][l])
        BY <2>1 DEF Taken, Queues
      <3>2. i + 1 \in 1..Len(net[k][l]) /\ Tail(net[k][l])[i] = net[k][l][i + 1]
        BY <3>1, <2>1, <1>1
      <3> QED
        BY <3>1, <3>2
    <2>2. CASE ~(k = m /\ l = n)
      <3>1. Taken(n, m)[k][l] = net[k][l]
        BY <2>2 DEF Taken, Queues
      <3> QED
        BY <3>1
    <2> QED
      BY <2>1, <2>2
  <1>5. Announced(Taken(n, m)) \subseteq Announced(net)
    <2> SUFFICES ASSUME NEW reg \in Register, reg \in Announced(Taken(n, m))
                 PROVE  reg \in Announced(net)
      BY DEF Announced
    <2>1. PICK k \in Node, l \in Node :
             \E i \in 1..Len(Taken(n, m)[k][l]) : Taken(n, m)[k][l][i] = Changed(reg)
      BY DEF Announced
    <2>2. PICK i \in 1..Len(Taken(n, m)[k][l]) : Taken(n, m)[k][l][i] = Changed(reg)
      BY <2>1
    <2>3. \E j \in 1..Len(net[k][l]) : Taken(n, m)[k][l][i] = net[k][l][j]
      BY <1>4
    <2> QED
      BY <2>2, <2>3 DEF Announced
  <1>6. \A reg \in Register : Head(net[m][n]) = Changed(reg) => reg \in Announced(net)
    BY <1>1, <1>2 DEF Announced
  <1> QED
    BY <1>2, <1>3, <1>5, <1>6

\* Queues of which some are emptied announce nothing new.
LEMMA LostQueues ==
    ASSUME NEW before \in Queues, NEW after \in [Node -> [Node -> Seq(Frame)]],
           \A k, l \in Node : after[k][l] = before[k][l] \/ after[k][l] = <<>>
    PROVE  Announced(after) \subseteq Announced(before)
  <1> SUFFICES ASSUME NEW reg \in Register, reg \in Announced(after)
               PROVE  reg \in Announced(before)
    BY DEF Announced
  <1>1. PICK k \in Node, l \in Node :
           \E i \in 1..Len(after[k][l]) : after[k][l][i] = Changed(reg)
    BY DEF Announced
  <1>2. PICK i \in 1..Len(after[k][l]) : after[k][l][i] = Changed(reg)
    BY <1>1
  <1>3. after[k][l] # <<>>
    OBVIOUS
  <1>4. after[k][l] = before[k][l]
    BY <1>3
  <1>5. \E j \in 1..Len(before[k][l]) : before[k][l][j] = Changed(reg)
    BY <1>2, <1>4
  <1> QED
    BY <1>5 DEF Announced

-----------------------------------------------------------------------------
(* Types.                                                                  *)

\* The types hold at the start.
LEMMA InitTypeOK == Init => TypeOK
  <1> SUFFICES ASSUME Init PROVE TypeOK
    OBVIOUS
  <1>1. env \in Environment /\ env \in EnvironmentType
    BY EnvironmentAssumption DEF Init
  <1>2. net \in [Node -> [Node -> Seq(Frame)]]
    BY DEF Init
  <1>3. register \in [Node -> Register] /\ election \in [Node -> ElectionState]
    BY <1>1 DEF Init, Register, ElectionState, EnvironmentType, Normal
  <1>4. past \in [crashes : 0..env.crashes, starves : 0..env.starves,
                 freezes : 0..env.freezes, cuts : 0..env.cuts, forgot : BOOLEAN]
    BY <1>1 DEF Init, EnvironmentType
  <1> QED
    BY <1>1, <1>2, <1>3, <1>4 DEF Init, TypeOK

\* Adopting a register keeps the types.
LEMMA AdoptType ==
    ASSUME TypeOK, NEW n \in Node, NEW reg \in Register, Adopt(n, reg)
    PROVE  /\ register' \in [Node -> Register]
           /\ election' \in [Node -> ElectionState]
           /\ deposed' \subseteq Node
  BY DEF Adopt, TypeOK, ElectionState, Normal

\* A promotion keeps the types.
LEMMA FireType ==
    ASSUME TypeOK, NEW n \in Node, NEW queues \in Queues, FireLocalPromotion(n, queues)
    PROVE  /\ register' \in [Node -> Register]
           /\ election' \in [Node -> ElectionState]
           /\ deposed' \subseteq Node
           /\ net' \in Queues
  <1> DEFINE reg == [id |-> n, epoch |-> register[n].epoch + 1]
  <1>1. reg \in Register /\ Changed(reg) \in Frame
    BY DEF TypeOK, Register, Frame, Changed
  <1>2. Adopt(n, reg) /\ net' = Broadcast(queues, n, Changed(reg))
    BY DEF FireLocalPromotion
  <1> HIDE DEF reg
  <1> QED
    BY <1>1, <1>2, AdoptType, SendQueues DEF Broadcast

\* The lowest live id is a node, since there is at least the node itself.
LEMMA LowestType ==
    ASSUME TypeOK, NEW n \in Node
    PROVE  Lowest(n) \in Node
  <1> DEFINE S == LivePeers(n) \cup {n}
  <1>1. S \subseteq Node /\ n \in S
    BY DEF TypeOK, LivePeers
  <1>2. PICK x \in S : \A y \in S : ~(<<y, x>> \in OpToRel(<, Nat))
    BY <1>1, NodeAssumption, NatLessThanWellFounded, WFMin
  <1>3. ASSUME NEW y \in S PROVE x <= y
    <2>1. x \in Nat /\ y \in Nat
      BY <1>1, NodeAssumption
    <2>2. y < x => <<y, x>> \in OpToRel(<, Nat)
      BY <2>1 DEF OpToRel
    <2>3. ~(y < x)
      BY <1>2, <2>2, Zenon
    <2> QED
      BY <2>1, <2>3
  <1> QED
    BY <1>1, <1>3 DEF Lowest, Min

\* Every arm of run_election_tick keeps the types.
LEMMA TickType ==
    ASSUME TypeOK, NEW n \in Node, Tick(n)
    PROVE  TypeOK'
  <1>0. net \in Queues
    BY DEF TypeOK, Queues
  <1>1. Query(n) \in Frame /\ Vote(1) \in Frame /\ \A r \in Round : Vote(r) \in Frame
    BY DEF TypeOK, Frame, Query, Vote, Primary, Register, Round
  <1>2. ASSUME Suspect(n), UNCHANGED <<up, clocks, mesh, world>> PROVE TypeOK'
    <2>1. net' \in [Node -> [Node -> Seq(Frame)]]
      BY <1>0, <1>1, <1>2, SendQueues DEF Suspect, Broadcast, Queues
    <2>2. election' \in [Node -> ElectionState]
      BY <1>2 DEF Suspect, TypeOK, ElectionState, Suspecting
    <2> QED
      BY <1>2, <2>1, <2>2 DEF Suspect, TypeOK, clocks, mesh, world
  <1>3. CASE Arm(n)
    BY <1>2, <1>3 DEF Arm
  <1>4. CASE Repoll(n)
    <2>1. net' \in [Node -> [Node -> Seq(Frame)]]
      BY <1>0, <1>1, <1>4, SendQueues DEF Repoll, Queues
    <2> QED
      BY <1>4, <2>1 DEF Repoll, TypeOK, clocks, mesh, world
  <1>5. CASE Tally(n)
    <2>1. UNCHANGED <<up, clocks, mesh, world>>
      BY <1>5 DEF Tally
    <2>2. CASE FireLocalPromotion(n, net)
      <3>1. /\ register' \in [Node -> Register] /\ election' \in [Node -> ElectionState]
            /\ deposed' \subseteq Node /\ net' \in Queues
        BY <1>0, <2>2, FireType
      <3> QED
        BY <2>1, <3>1 DEF TypeOK, Queues, clocks, mesh, world
    <2>3. CASE ~FireLocalPromotion(n, net)
      <3>1. UNCHANGED <<register, deposed>> /\ (net' = net \/ net' = Broadcast(net, n, Vote(1)))
        BY <1>5, <2>3 DEF Tally
      <3>2. net' \in [Node -> [Node -> Seq(Frame)]]
        <4>1. Broadcast(net, n, Vote(1)) \in Queues
          BY <1>0, <1>1, SendQueues DEF Broadcast
        <4> QED
          BY <1>0, <3>1, <4>1 DEF Queues
      <3>3. \/ election' = [election EXCEPT ![n] = Voting(1, Lowest(n))] /\ Lowest(n) # n
            \/ election' = [election EXCEPT ![n] = Candidate(1, {n})]
        BY <1>5, <2>3 DEF Tally
      <3>4. Lowest(n) \in Node
        BY LowestType
      <3>5. Voting(1, Lowest(n)) \in ElectionState /\ Candidate(1, {n}) \in ElectionState
        BY <3>4 DEF Voting, Candidate, ElectionState, Round
      <3>6. election' \in [Node -> ElectionState]
        BY <3>3, <3>5 DEF TypeOK
      <3> QED
        BY <2>1, <3>1, <3>2, <3>6 DEF TypeOK, clocks, mesh, world
    <2> QED
      BY <2>2, <2>3
  <1>6. CASE Retry(n)
    <2> DEFINE r == election[n].round
               next == IF r < env.rounds THEN r + 1 ELSE r
    <2>1. election[n] \in ElectionState /\ election[n].state = "candidate"
      BY <1>6 DEF TypeOK, Retry
    <2>2. r \in Round
      BY <2>1 DEF ElectionState
    <2>3. next \in Round
      BY <2>2 DEF Round
    <2>4. election' = [election EXCEPT ![n] = Candidate(next, {n})]
          /\ net' = Broadcast(net, n, Vote(next))
          /\ UNCHANGED <<up, register, deposed, clocks, mesh, world>>
      BY <1>6 DEF Retry
    <2> HIDE DEF r, next
    <2>5. Candidate(next, {n}) \in ElectionState
      BY <2>3 DEF Candidate, ElectionState
    <2>6. net' \in [Node -> [Node -> Seq(Frame)]]
      BY <1>0, <1>1, <2>3, <2>4, SendQueues DEF Broadcast, Queues
    <2>7. election' \in [Node -> ElectionState]
      BY <2>4, <2>5 DEF TypeOK
    <2> QED
      BY <2>4, <2>6, <2>7 DEF TypeOK, clocks, mesh, world
  <1>7. CASE Release(n)
    BY <1>2, <1>7 DEF Release
  <1> QED
    BY <1>3, <1>4, <1>5, <1>6, <1>7 DEF Tick

\* Every handler of a frame keeps the types.
LEMMA ReceiveType ==
    ASSUME TypeOK, NEW n \in Node, NEW m \in Node, Receive(n, m)
    PROVE  TypeOK'
  <1> DEFINE f == Head(net[m][n])
  <1>0. net \in Queues /\ net[m][n] # <<>>
    BY DEF TypeOK, Queues, Receive
  <1>1. Taken(n, m) \in Queues /\ f \in Frame
    BY <1>0, TakenQueues
  <1>2. ASSUME NEW g \in Frame, Reply(n, m, g)
        PROVE  net' \in Queues /\ unroutable' \in [Node -> SUBSET Node]
    BY <1>1, <1>2, SendQueues DEF Reply, TypeOK
  <1> HIDE DEF f
  <1>3. CASE HandleTimeoutQuery(n, m, f)
    <2>1. [type |-> "response", silent |-> AnswersSilent(n, f.about)] \in Frame
      BY DEF Frame, AnswersSilent, PeerDeathObserved
    <2>2. net' \in Queues /\ unroutable' \in [Node -> SUBSET Node]
      BY <1>2, <1>3, <2>1 DEF HandleTimeoutQuery
    <2> QED
      BY <1>3, <2>2 DEF HandleTimeoutQuery, TypeOK, Queues, clocks, world
  <1>4. CASE HandleTimeoutResponse(n, m, f)
    <2>1. election' \in [Node -> ElectionState]
      <3>1. CASE election[n].state = "suspecting"
        <4>1. election[n] \in [state : {"suspecting"}, agree : SUBSET Node]
          BY <3>1 DEF TypeOK, ElectionState
        <4>2. \A S \in SUBSET Node : [election[n] EXCEPT !.agree = S] \in ElectionState
          BY <4>1 DEF ElectionState
        <4>3. \E S \in SUBSET Node :
                 election' = [election EXCEPT ![n] = [election[n] EXCEPT !.agree = S]]
          BY <1>4, <3>1, <4>1 DEF HandleTimeoutResponse, TypeOK
        <4>4. \E e \in ElectionState : election' = [election EXCEPT ![n] = e]
          BY <4>2, <4>3
        <4> QED
          BY <4>4 DEF TypeOK
      <3>2. CASE election[n].state # "suspecting"
        BY <1>4, <3>2 DEF HandleTimeoutResponse, TypeOK
      <3> QED
        BY <3>1, <3>2
    <2> QED
      BY <1>1, <1>4, <2>1 DEF HandleTimeoutResponse, TypeOK, Queues, clocks, mesh, world
  <1>5. CASE HandlePromotionVote(n, m, f)
    <2>1. f.round \in Round
      BY <1>1, <1>5, FrameShape DEF HandlePromotionVote
    <2>2. [type |-> "confirm", round |-> f.round] \in Frame
      BY <2>1 DEF Frame
    <2>3. Voting(f.round, m) \in ElectionState
      BY <2>1 DEF Voting, ElectionState
    <2>4. /\ net' \in Queues /\ unroutable' \in [Node -> SUBSET Node]
          /\ election' \in [Node -> ElectionState]
      <3>1. CASE GrantsVote(n, m)
        BY <1>2, <1>5, <2>2, <2>3, <3>1 DEF HandlePromotionVote, TypeOK
      <3>2. CASE ~GrantsVote(n, m)
        BY <1>1, <1>5, <3>2 DEF HandlePromotionVote, TypeOK
      <3> QED
        BY <3>1, <3>2
    <2> QED
      BY <1>5, <2>4 DEF HandlePromotionVote, TypeOK, Queues, clocks, world
  <1>6. CASE HandlePromotionConfirm(n, m, f)
    <2>1. UNCHANGED <<up, clocks, mesh, world>>
      BY <1>6 DEF HandlePromotionConfirm
    <2>2. CASE FireLocalPromotion(n, Taken(n, m))
      <3>1. /\ register' \in [Node -> Register] /\ election' \in [Node -> ElectionState]
            /\ deposed' \subseteq Node /\ net' \in Queues
        BY <1>1, <2>2, FireType
      <3> QED
        BY <2>1, <3>1 DEF TypeOK, Queues, clocks, mesh, world
    <2>3. CASE ~FireLocalPromotion(n, Taken(n, m))
      <3> DEFINE confirms == election[n].confirms \cup {m}
      <3>1. net' = Taken(n, m) /\ UNCHANGED <<register, deposed>>
        BY <1>6, <2>3 DEF HandlePromotionConfirm
      <3>2. \/ election' = election
            \/ /\ election[n].state = "candidate"
               /\ election' = [election EXCEPT ![n].confirms = confirms]
        BY <1>6, <2>3 DEF HandlePromotionConfirm
      <3>3. CASE election[n].state = "candidate"
        <4>1. election[n] \in [state : {"candidate"}, round : Round, confirms : SUBSET Node]
          BY <3>3 DEF TypeOK, ElectionState
        <4>2. [election[n] EXCEPT !.confirms = confirms] \in ElectionState
          BY <4>1 DEF ElectionState
        <4>3. election' \in [Node -> ElectionState]
          BY <3>2, <4>2 DEF TypeOK
        <4> QED
          BY <1>1, <2>1, <3>1, <4>3 DEF TypeOK, Queues, clocks, mesh, world
      <3>4. CASE election[n].state # "candidate"
        BY <1>1, <2>1, <3>1, <3>2, <3>4 DEF TypeOK, Queues, clocks, mesh, world
      <3> QED
        BY <3>3, <3>4
    <2> QED
      BY <2>2, <2>3
  <1>7. CASE HandlePrimaryChanged(n, m, f)
    <2>1. f.reg \in Register
      BY <1>1, <1>7, FrameShape DEF HandlePrimaryChanged
    <2>2. /\ register' \in [Node -> Register] /\ election' \in [Node -> ElectionState]
          /\ deposed' \subseteq Node
      BY <1>7, <2>1, AdoptType DEF HandlePrimaryChanged, TypeOK
    <2> QED
      BY <1>1, <1>7, <2>2 DEF HandlePrimaryChanged, TypeOK, Queues, clocks, mesh, world
  <1> QED
    BY <1>3, <1>4, <1>5, <1>6, <1>7 DEF Receive, f

\* What the clocks, the mesh and the faults do to the queues: nothing, or they lose some.
LEMMA FaultQueues ==
    ASSUME TypeOK, NEW n \in Node, NEW m \in Node, Crash(n) \/ Cut(n, m)
    PROVE  net' \in Queues /\ Announced(net') \subseteq Announced(net)
  <1>1. net \in Queues
    BY DEF TypeOK, Queues
  <1>2. /\ net' \in [Node -> [Node -> Seq(Frame)]]
        /\ \A k, l \in Node : net'[k][l] = net[k][l] \/ net'[k][l] = <<>>
    <2>1. CASE Crash(n)
      <3>1. PICK cut \in SUBSET Node :
               net' = [k \in Node |-> [l \in Node |->
                         IF l = n \/ (k = n /\ l \in cut) THEN <<>> ELSE net[k][l]]]
        BY <2>1 DEF Crash
      <3>2. \A k, l \in Node : net'[k][l] = net[k][l] \/ net'[k][l] = <<>>
        BY <3>1
      <3>3. <<>> \in Seq(Frame) /\ \A k, l \in Node : net[k][l] \in Seq(Frame)
        BY <1>1 DEF Queues
      <3>4. net' \in [Node -> [Node -> Seq(Frame)]]
        BY <3>1, <3>3
      <3> QED
        BY <3>2, <3>4
    <2>2. CASE Cut(n, m)
      <3>1. net' = net \/ net' = [net EXCEPT ![n][m] = <<>>]
        BY <2>2 DEF Cut
      <3>2. CASE net' = net
        BY <1>1, <3>2 DEF Queues
      <3>3. CASE net' = [net EXCEPT ![n][m] = <<>>]
        <4>1. [net[n] EXCEPT ![m] = <<>>] \in [Node -> Seq(Frame)]
          BY <1>1 DEF Queues
        <4>2. net' = [net EXCEPT ![n] = [net[n] EXCEPT ![m] = <<>>]]
          BY <3>3
        <4>3. net' \in [Node -> [Node -> Seq(Frame)]]
          BY <1>1, <4>1, <4>2 DEF Queues
        <4>4. \A k, l \in Node : net'[k][l] = net[k][l] \/ net'[k][l] = <<>>
          BY <1>1, <4>2 DEF Queues
        <4> QED
          BY <4>3, <4>4
      <3> QED
        BY <3>1, <3>2, <3>3
    <2> QED
      BY <2>1, <2>2
  <1> QED
    BY <1>1, <1>2, LostQueues DEF Queues

\* The clocks, the faults and the reaper keep the types.
LEMMA MeshType ==
    ASSUME TypeOK, NEW n \in Node, NEW m \in Node,
           \/ Clocks(n, m) \/ Starve(n, m) \/ Freeze(n, m) \/ Cut(n, m) \/ Reap(n, m)
           \/ Crash(n)
    PROVE  TypeOK'
  <1> DEFINE Past == [crashes : 0..env.crashes, starves : 0..env.starves,
                      freezes : 0..env.freezes, cuts : 0..env.cuts, forgot : BOOLEAN]
  <1>0. /\ env.crashes \in Nat /\ env.starves \in Nat /\ env.freezes \in Nat
        /\ env.cuts \in Nat /\ past \in Past
    BY EnvironmentAssumption DEF TypeOK, EnvironmentType
  <1>1. CASE Hear(n, m)
    <2>1. election' \in [Node -> ElectionState]
      BY <1>1 DEF Hear, TypeOK, ElectionState, Normal
    <2> QED
      BY <1>1, <2>1 DEF Hear, TypeOK, mesh, world
  <1>2. CASE Expire(n, m)
    BY <1>2 DEF Expire, TypeOK, mesh, world
  <1>3. CASE Disconnect(n, m)
    BY <1>3 DEF Disconnect, TypeOK, clocks, world
  <1>4. CASE Redial(n, m)
    BY <1>4 DEF Redial, TypeOK, clocks, world
  <1>5. CASE Reconcile(n, m)
    <2>1. register[m] \in Register
      BY DEF TypeOK
    <2> QED
      BY <1>5, <2>1, AdoptType DEF Reconcile, TypeOK, clocks, mesh, world
  <1>6. CASE Starve(n, m)
    <2>1. past' \in Past
      BY <1>0, <1>6 DEF Starve
    <2> QED
      BY <1>6, <2>1 DEF Starve, TypeOK, mesh
  <1>7. CASE Freeze(n, m)
    <2>1. past' \in Past
      BY <1>0, <1>7 DEF Freeze
    <2> QED
      BY <1>7, <2>1 DEF Freeze, TypeOK, mesh
  <1>8. CASE Cut(n, m)
    <2>1. net' \in [Node -> [Node -> Seq(Frame)]]
      BY <1>8, FaultQueues DEF Queues
    <2>2. past' \in Past
      BY <1>0, <1>8 DEF Cut
    <2> QED
      BY <1>8, <2>1, <2>2 DEF Cut, TypeOK, clocks
  <1>9. CASE Reap(n, m)
    BY <1>9 DEF Reap, TypeOK, mesh
  <1>10. CASE Crash(n)
    <2>1. net' \in [Node -> [Node -> Seq(Frame)]]
      BY <1>10, FaultQueues DEF Queues
    <2>2. past' \in Past
      BY <1>0, <1>10 DEF Crash
    <2> QED
      BY <1>10, <2>1, <2>2 DEF Crash, TypeOK, clocks, mesh
  <1> QED
    BY <1>1, <1>2, <1>3, <1>4, <1>5, <1>6, <1>7, <1>8, <1>9, <1>10 DEF Clocks

\* Every step keeps the types.
LEMMA NextTypeOK == TypeOK /\ [Next]_vars => TypeOK'
  <1> SUFFICES ASSUME TypeOK, [Next]_vars PROVE TypeOK'
    OBVIOUS
  <1>1. CASE UNCHANGED vars
    BY <1>1 DEF vars, TypeOK, clocks, mesh, world
  <1>2. CASE Next
    BY <1>2, TickType, ReceiveType, MeshType DEF Next
  <1> QED
    BY <1>1, <1>2

\* Every variable of the election keeps its type, in any fleet and under any faults.
THEOREM TypeCorrect == Spec => []TypeOK
  BY InitTypeOK, NextTypeOK, PTL DEF Spec

-----------------------------------------------------------------------------
(* Who is named primary.                                                   *)

\* Whomever a register or an announcement under way names has reached that epoch.
IInv ==
    /\ TypeOK
    /\ FollowsTheWilling
    /\ \A reg \in Announced(net) : register[reg.id].epoch >= reg.epoch

\* A step that touches no register and announces nothing keeps the invariant.
LEMMA KeepPreserves ==
    ASSUME IInv, TypeOK', register' = register, Announced(net') \subseteq Announced(net)
    PROVE  IInv'
  BY DEF IInv, FollowsTheWilling, Primary

\* So does a step in which one node adopts a register that does not lower its epoch
\* and names the node itself or one that has reached that epoch.
LEMMA AdoptPreserves ==
    ASSUME IInv, TypeOK', NEW n \in Node, NEW reg \in Register,
           register' = [register EXCEPT ![n] = reg],
           reg.epoch >= register[n].epoch,
           reg.id = n \/ register[reg.id].epoch >= reg.epoch,
           Announced(net') \subseteq Announced(net) \cup {reg}
    PROVE  IInv'
  <1>0. register \in [Node -> Register]
    BY DEF IInv, TypeOK
  <1>1. \A x \in Node : register'[x].epoch \in Nat /\ register[x].epoch \in Nat
                          /\ register'[x].epoch >= register[x].epoch
    BY <1>0 DEF Register
  <1>2. reg.id \in Node /\ register'[reg.id].epoch >= reg.epoch
    BY <1>0, <1>1 DEF Register
  <1>3. FollowsTheWilling'
    <2> SUFFICES ASSUME NEW x \in Node
                 PROVE  register'[register'[x].id].epoch >= register'[x].epoch
      BY DEF FollowsTheWilling, Primary
    <2>1. CASE x = n
      BY <2>1, <1>0, <1>2
    <2>2. CASE x # n
      <3>1. register'[x] = register[x] /\ register[x].id \in Node
        BY <2>2, <1>0 DEF Register
      <3>2. register[register[x].id].epoch >= register[x].epoch
        BY DEF IInv, FollowsTheWilling, Primary
      <3> QED
        BY <3>1, <3>2, <1>1
    <2> QED
      BY <2>1, <2>2
  <1>4. ASSUME NEW a \in Announced(net') PROVE register'[a.id].epoch >= a.epoch
    <2>1. CASE a = reg
      BY <2>1, <1>2
    <2>2. CASE a \in Announced(net)
      <3>1. a \in Register /\ register[a.id].epoch >= a.epoch
        BY <2>2 DEF Announced, IInv
      <3> QED
        BY <3>1, <1>1 DEF Register
    <2> QED
      BY <2>1, <2>2
  <1> QED
    BY <1>3, <1>4 DEF IInv

\* Epochs are numbers.
LEMMA EpochType == IInv => \A n \in Node : register[n].epoch \in Nat
  BY DEF IInv, TypeOK, Register

\* A promoted node has reached the epoch it announces.
LEMMA FirePreserves ==
    ASSUME IInv, TypeOK', NEW n \in Node, NEW queues \in Queues,
           Announced(queues) \subseteq Announced(net), FireLocalPromotion(n, queues)
    PROVE  IInv'
  <1> DEFINE reg == [id |-> n, epoch |-> register[n].epoch + 1]
  <1>1. reg \in Register /\ reg.epoch >= register[n].epoch /\ reg.id = n
    BY EpochType DEF Register
  <1>2. Changed(reg) \in Frame
    BY <1>1 DEF Frame, Changed
  <1>3. register' = [register EXCEPT ![n] = reg] /\ net' = Broadcast(queues, n, Changed(reg))
    BY DEF FireLocalPromotion, Adopt
  <1> HIDE DEF reg
  <1>4. \A r \in Register : Changed(reg) = Changed(r) => r = reg
    BY <1>1 DEF Changed
  <1>5. Announced(net') \subseteq Announced(net) \cup {reg}
    BY <1>2, <1>3, <1>4, SendQueues DEF Broadcast
  <1> QED
    BY <1>1, <1>3, <1>5, AdoptPreserves

\* Frames that announce nothing.
LEMMA SendKeeps ==
    ASSUME NEW queues \in Queues, NEW n \in Node, NEW M, NEW f \in Frame, f.type # "changed"
    PROVE  Announced(Send(queues, n, M, f)) \subseteq Announced(queues)
  <1>1. \A reg : f # Changed(reg)
    BY DEF Changed
  <1> QED
    BY <1>1, SendQueues

\* A tick announces nothing else.
LEMMA TickPreserves ==
    ASSUME IInv, TypeOK', NEW n \in Node, Tick(n)
    PROVE  IInv'
  <1>0. net \in Queues
    BY DEF IInv, TypeOK, Queues
  <1>1. /\ Query(n) \in Frame /\ Query(n).type # "changed"
        /\ \A r \in Round : Vote(r) \in Frame /\ Vote(r).type # "changed"
    BY DEF IInv, TypeOK, Frame, Query, Vote, Primary, Register
  <1>2. CASE Suspect(n)
    BY <1>0, <1>1, <1>2, SendKeeps, KeepPreserves DEF Suspect, Broadcast
  <1>3. CASE Repoll(n)
    BY <1>0, <1>1, <1>3, SendKeeps, KeepPreserves DEF Repoll
  <1>4. CASE FireLocalPromotion(n, net)
    BY <1>0, <1>4, FirePreserves
  <1>5. CASE Tally(n) /\ ~FireLocalPromotion(n, net)
    <2>1. register' = register /\ (net' = net \/ net' = Broadcast(net, n, Vote(1)))
      BY <1>5 DEF Tally
    <2>2. 1 \in Round
      BY DEF Round
    <2>3. Announced(net') \subseteq Announced(net)
      BY <1>0, <1>1, <2>1, <2>2, SendKeeps DEF Broadcast
    <2> QED
      BY <2>1, <2>3, KeepPreserves
  <1>6. CASE Retry(n)
    <2> DEFINE r == election[n].round
               next == IF r < env.rounds THEN r + 1 ELSE r
    <2>1. election[n] \in ElectionState /\ election[n].state = "candidate"
      BY <1>6 DEF IInv, TypeOK, Retry
    <2>2. next \in Round
      BY <2>1 DEF ElectionState, Round
    <2>3. register' = register /\ net' = Broadcast(net, n, Vote(next))
      BY <1>6 DEF Retry
    <2> HIDE DEF r, next
    <2> QED
      BY <1>0, <1>1, <2>2, <2>3, SendKeeps, KeepPreserves DEF Broadcast
  <1> QED
    BY <1>2, <1>3, <1>4, <1>5, <1>6 DEF Tick, Arm, Release

\* A register that is adopted was announced by a node that had reached its epoch.
LEMMA ReceivePreserves ==
    ASSUME IInv, TypeOK', NEW n \in Node, NEW m \in Node, Receive(n, m)
    PROVE  IInv'
  <1> DEFINE f == Head(net[m][n])
  <1>0. net \in Queues /\ net[m][n] # <<>>
    BY DEF IInv, TypeOK, Queues, Receive
  <1>1. /\ Taken(n, m) \in Queues /\ Announced(Taken(n, m)) \subseteq Announced(net)
        /\ f \in Frame /\ \A reg \in Register : f = Changed(reg) => reg \in Announced(net)
    BY <1>0, TakenQueues
  <1>2. ASSUME NEW g \in Frame, g.type # "changed", Reply(n, m, g), register' = register
        PROVE  IInv'
    <2>1. Announced(net') \subseteq Announced(Taken(n, m))
      BY <1>1, <1>2, SendKeeps DEF Reply
    <2> QED
      BY <1>1, <1>2, <2>1, KeepPreserves
  <1>3. ASSUME net' = Taken(n, m), register' = register PROVE IInv'
    BY <1>1, <1>3, KeepPreserves
  <1> HIDE DEF f
  <1>4. CASE HandleTimeoutQuery(n, m, f)
    <2> DEFINE g == [type |-> "response", silent |-> AnswersSilent(n, f.about)]
    <2>1. g \in Frame /\ g.type # "changed"
      BY DEF Frame, AnswersSilent, PeerDeathObserved
    <2>2. Reply(n, m, g) /\ register' = register
      BY <1>4 DEF HandleTimeoutQuery
    <2> QED
      BY <1>2, <2>1, <2>2
  <1>5. CASE HandleTimeoutResponse(n, m, f)
    BY <1>3, <1>5 DEF HandleTimeoutResponse
  <1>6. CASE HandlePromotionVote(n, m, f)
    <2> DEFINE g == [type |-> "confirm", round |-> f.round]
    <2>1. f.round \in Round
      BY <1>1, <1>6, FrameShape DEF HandlePromotionVote
    <2>2. g \in Frame /\ g.type # "changed"
      BY <2>1 DEF Frame
    <2>3. (Reply(n, m, g) \/ net' = Taken(n, m)) /\ register' = register
      BY <1>6 DEF HandlePromotionVote
    <2> QED
      BY <1>2, <1>3, <2>2, <2>3
  <1>7. CASE HandlePromotionConfirm(n, m, f)
    <2>1. \/ FireLocalPromotion(n, Taken(n, m))
          \/ net' = Taken(n, m) /\ register' = register
      BY <1>7 DEF HandlePromotionConfirm
    <2> QED
      BY <1>1, <1>3, <2>1, FirePreserves
  <1>8. CASE HandlePrimaryChanged(n, m, f)
    <2>1. f.reg \in Register /\ f = Changed(f.reg)
      BY <1>1, <1>8, FrameShape DEF HandlePrimaryChanged
    <2>2. f.reg \in Announced(net)
      BY <1>1, <2>1
    <2>3. register[f.reg.id].epoch >= f.reg.epoch
      BY <2>2 DEF IInv
    <2>4. CASE Adopts(register[n], f.reg)
      <3>1. register' = [register EXCEPT ![n] = f.reg] /\ net' = Taken(n, m)
        BY <1>8, <2>4 DEF HandlePrimaryChanged, Adopt
      <3>2. f.reg.epoch >= register[n].epoch
        BY <2>1, <2>4, EpochType DEF Adopts, Register
      <3> QED
        BY <1>1, <2>1, <2>3, <3>1, <3>2, AdoptPreserves
    <2>5. CASE ~Adopts(register[n], f.reg)
      BY <1>3, <1>8, <2>5 DEF HandlePrimaryChanged
    <2> QED
      BY <2>4, <2>5
  <1> QED
    BY <1>4, <1>5, <1>6, <1>7, <1>8 DEF Receive, f

\* The clocks, the mesh and the faults announce nothing, though a crash and a cut may
\* lose an announcement; anti-entropy hands on a register that satisfies the claim.
LEMMA MeshPreserves ==
    ASSUME IInv, TypeOK', NEW n \in Node, NEW m \in Node,
           \/ Clocks(n, m) \/ Starve(n, m) \/ Freeze(n, m) \/ Cut(n, m) \/ Reap(n, m)
           \/ Crash(n)
    PROVE  IInv'
  <1>1. CASE Crash(n) \/ Cut(n, m)
    <2>1. Announced(net') \subseteq Announced(net)
      BY <1>1, FaultQueues DEF IInv
    <2> QED
      BY <1>1, <2>1, KeepPreserves DEF Crash, Cut
  <1>2. CASE Reconcile(n, m)
    <2>1. register[m] \in Register /\ register[register[m].id].epoch >= register[m].epoch
      BY DEF IInv, TypeOK, FollowsTheWilling, Primary
    <2>2. register' = [register EXCEPT ![n] = register[m]] /\ net' = net
      BY <1>2 DEF Reconcile, Adopt
    <2>3. register[m].epoch >= register[n].epoch
      BY <1>2, <2>1, EpochType DEF Reconcile, Adopts
    <2> QED
      BY <2>1, <2>2, <2>3, AdoptPreserves
  <1>3. CASE \/ Hear(n, m) \/ Expire(n, m) \/ Disconnect(n, m) \/ Redial(n, m)
            \/ Starve(n, m) \/ Freeze(n, m) \/ Reap(n, m)
    <2>1. register' = register /\ net' = net
      BY <1>3 DEF Hear, Expire, Disconnect, Redial, Starve, Freeze, Reap
    <2> QED
      BY <2>1, KeepPreserves
  <1> QED
    BY <1>1, <1>2, <1>3 DEF Clocks

\* At the start the primary has reached the first epoch and nothing is announced.
LEMMA InitInvariant == Init => IInv
  <1> SUFFICES ASSUME Init PROVE IInv
    OBVIOUS
  <1>1. TypeOK
    BY InitTypeOK
  <1>2. FollowsTheWilling
    BY EnvironmentAssumption DEF Init, FollowsTheWilling, Primary, EnvironmentType
  <1>3. \A n, m \in Node : net[n][m] = <<>>
    BY DEF Init
  <1>4. Announced(net) = {}
    BY <1>3 DEF Announced
  <1> QED
    BY <1>1, <1>2, <1>4 DEF IInv

\* Every step keeps the invariant.
LEMMA NextPreserves == IInv /\ [Next]_vars => IInv'
  <1> SUFFICES ASSUME IInv, [Next]_vars PROVE IInv'
    OBVIOUS
  <1>1. TypeOK'
    BY NextTypeOK DEF IInv
  <1>2. CASE UNCHANGED vars
    BY <1>1, <1>2, KeepPreserves DEF vars
  <1>3. CASE Next
    BY <1>1, <1>3, TickPreserves, ReceivePreserves, MeshPreserves DEF Next
  <1> QED
    BY <1>2, <1>3

\* Nobody is named primary without having taken the role: in any fleet, under any crashes,
\* freezes and cuts, whomever a replica names has itself reached that epoch.
THEOREM FollowsTheWillingHolds == Spec => []FollowsTheWilling
  <1>1. IInv => FollowsTheWilling
    BY DEF IInv
  <1> QED
    BY <1>1, InitInvariant, NextPreserves, PTL DEF Spec

-----------------------------------------------------------------------------
(* The election implements the office of Leadership.                       *)

\* A node that adopts the register of a node that has reached its epoch follows it.
LEMMA AdoptFollows ==
    ASSUME IInv, NEW n \in Node, NEW reg \in Register,
           Adopts(register[n], reg), register[reg.id].epoch >= reg.epoch, Adopt(n, reg)
    PROVE  Office!Next
  <1>1. reg.id \in Node /\ reg.epoch \in Nat /\ reg = [id |-> reg.id, epoch |-> reg.epoch]
    BY DEF Register
  <1>2. reg.epoch \in 0..register[reg.id].epoch
    BY <1>1, EpochType
  <1>3. Office!Over(reg, register[n])
    BY DEF Office!Over, Adopts
  <1>4. register' = [register EXCEPT ![n] = reg]
    BY DEF Adopt
  <1>5. Office!Follow(n, reg.id)
    BY <1>1, <1>2, <1>3, <1>4 DEF Office!Follow
  <1> QED
    BY <1>1, <1>5 DEF Office!Next

\* A node that promotes itself takes the office.
LEMMA FireTakesOffice ==
    ASSUME NEW n \in Node, NEW queues, FireLocalPromotion(n, queues), register \in [Node -> Register]
    PROVE  Office!Next
  <1>1. register' = [register EXCEPT ![n] = [id |-> n, epoch |-> register[n].epoch + 1]]
    BY DEF FireLocalPromotion, Adopt
  <1> QED
    BY <1>1 DEF Office!TakeOffice, Office!Next

\* Every step of the election is a step of the office, or none.
LEMMA NextImplements == IInv /\ [Next]_vars => [Office!Next]_register
  <1> SUFFICES ASSUME IInv, [Next]_vars, register' # register PROVE Office!Next
    OBVIOUS
  <1>0. register \in [Node -> Register]
    BY DEF IInv, TypeOK
  <1>1. ASSUME NEW n \in Node, Tick(n) PROVE Office!Next
    <2>1. FireLocalPromotion(n, net)
      BY <1>1 DEF Tick, Arm, Repoll, Tally, Retry, Release, Suspect
    <2> QED
      BY <1>0, <2>1, FireTakesOffice
  <1>2. ASSUME NEW n \in Node, NEW m \in Node, Receive(n, m) PROVE Office!Next
    <2> DEFINE f == Head(net[m][n])
    <2>0. net \in Queues /\ net[m][n] # <<>>
      BY <1>2 DEF IInv, TypeOK, Queues, Receive
    <2>1. f \in Frame /\ \A reg \in Register : f = Changed(reg) => reg \in Announced(net)
      BY <2>0, TakenQueues
    <2>2. \/ FireLocalPromotion(n, Taken(n, m))
          \/ f.type = "changed" /\ Adopts(register[n], f.reg) /\ Adopt(n, f.reg)
      BY <1>2 DEF Receive, HandleTimeoutQuery, HandleTimeoutResponse, HandlePromotionVote,
                  HandlePromotionConfirm, HandlePrimaryChanged
    <2> HIDE DEF f
    <2>3. CASE FireLocalPromotion(n, Taken(n, m))
      BY <1>0, <2>3, FireTakesOffice
    <2>4. CASE f.type = "changed" /\ Adopts(register[n], f.reg) /\ Adopt(n, f.reg)
      <3>1. f.reg \in Register /\ f = Changed(f.reg)
        BY <2>1, <2>4, FrameShape
      <3>2. register[f.reg.id].epoch >= f.reg.epoch
        BY <2>1, <3>1 DEF IInv
      <3> QED
        BY <2>4, <3>1, <3>2, AdoptFollows
    <2> QED
      BY <2>2, <2>3, <2>4
  <1>3. ASSUME NEW n \in Node, NEW m \in Node, Reconcile(n, m) PROVE Office!Next
    <2>1. register[m] \in Register /\ register[register[m].id].epoch >= register[m].epoch
      BY DEF IInv, TypeOK, FollowsTheWilling, Primary
    <2> QED
      BY <1>3, <2>1, AdoptFollows DEF Reconcile
  <1>4. ASSUME NEW n \in Node, NEW m \in Node,
               \/ Clocks(n, m) \/ Starve(n, m) \/ Freeze(n, m) \/ Cut(n, m) \/ Reap(n, m)
               \/ Crash(n)
        PROVE  Reconcile(n, m)
    BY <1>4 DEF Clocks, Hear, Expire, Disconnect, Redial, Starve, Freeze, Cut, Reap, Crash
  <1> QED
    BY <1>1, <1>2, <1>3, <1>4 DEF Next, vars

\* The failover keeps the promise of Leadership in any fleet and under any crashes,
\* freezes and cuts: an epoch is taken by its own node and by nobody else, and everybody
\* else follows it in the order of primary_register_adopt.
THEOREM ElectionImplementsLeadership == Spec => ImplementsLeadership
  <1>1. Init => Office!Init
    BY EnvironmentAssumption DEF Init, Office!Init, EnvironmentType
  <1> QED
    BY <1>1, InitInvariant, NextPreserves, NextImplements, PTL
       DEF Spec, ImplementsLeadership, Office!Spec
=============================================================================
