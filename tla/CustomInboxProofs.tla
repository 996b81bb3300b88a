-------------------------- MODULE CustomInboxProofs ---------------------------
(* The inbox proved for any hosts, any number of messages and any budget   *)
(* of faults.  The strengthening says that a replica holds nothing below   *)
(* its watermark, that a host's own replica remembers what its handler     *)
(* was given, and that every outcome frame stands for a handler that ran.  *)
EXTENDS CustomInbox, TLAPS, WellFoundedInduction, NaturalsInduction

BoxType == [msgs : [MsgSeq -> CustomMsgState], mark : 0 .. MaxMsgs]

Done(x, q) == q <= x.mark \/ x.msgs[q] \in Terminal

Clean(x) == \A q \in MsgSeq : q <= x.mark => x.msgs[q] = "Absent"

Replicas == \A n \in Node : Clean(Box(n))

CalledIsResolved == \A h \in Host, q \in MsgSeq : Called(h, q) => Resolved(h, q)

OutcomesWereHandled ==
    \A m \in net : m.kind \in Terminal => \E h \in Host : Called(h, m.seq)

-----------------------------------------------------------------------------
(* The operations on one replica's inbox.                                  *)

\* Every nonempty set of naturals has a least member: the walk of
\* compact_custom_watermark stops.
LEMMA LeastNatural ==
    ASSUME NEW T \in SUBSET Nat, T # {}
    PROVE  \E x \in T : \A y \in T : x <= y
<1>1. PICK x \in T : \A y \in T : <<y, x>> \notin OpToRel(<, Nat)
  BY NatLessThanWellFounded, WFMin
<1>2. \A y \in T : ~(y < x)
  BY <1>1 DEF OpToRel
<1> QED
  BY <1>2

\* The walk ends between the watermark and the last message, and has passed
\* terminal entries only.
LEMMA WalkFacts ==
    ASSUME NEW x \in BoxType
    PROVE  /\ WalkFrom(x) \in x.mark .. MaxMsgs
           /\ \A q \in x.mark + 1 .. WalkFrom(x) : x.msgs[q] \in Terminal
<1> DEFINE stops == {w \in x.mark .. MaxMsgs : StopsAt(x, w)}
<1>0. x.mark \in Nat /\ x.mark <= MaxMsgs /\ MaxMsgs \in Nat
  BY BoundAssumption DEF BoxType
<1>1. MaxMsgs \in stops
  BY <1>0 DEF StopsAt
<1>2. stops \in SUBSET Nat
  BY <1>0
<1>3. \E w \in stops : \A v \in stops : w <= v
  BY <1>1, <1>2, LeastNatural
<1>4. WalkFrom(x) \in stops /\ \A v \in stops : WalkFrom(x) <= v
  BY <1>3 DEF WalkFrom
<1>5. ASSUME NEW q \in x.mark + 1 .. WalkFrom(x)
      PROVE  x.msgs[q] \in Terminal
  <2>1. q - 1 \in x.mark .. MaxMsgs /\ q - 1 < WalkFrom(x)
    BY <1>0, <1>4
  <2>2. q - 1 \notin stops
    BY <1>0, <1>2, <1>4, <2>1
  <2>3. ~StopsAt(x, q - 1)
    BY <2>1, <2>2
  <2> QED
    BY <1>0, <1>4, <2>1, <2>3 DEF StopsAt
<1> QED
  BY <1>4, <1>5

\* Compaction forgets labels and nothing else: the same messages are resolved
\* before and after it (compact_custom_watermark).
LEMMA CompactFacts ==
    ASSUME NEW x \in BoxType
    PROVE  /\ Compact(x) \in BoxType
           /\ Clean(Compact(x))
           /\ \A q \in MsgSeq : Done(Compact(x), q) <=> Done(x, q)
<1>0. x.mark \in Nat /\ MaxMsgs \in Nat /\ x.msgs \in [MsgSeq -> CustomMsgState]
  BY BoundAssumption DEF BoxType
<1>1. WalkFrom(x) \in x.mark .. MaxMsgs
  BY WalkFacts
<1>2. PruneBelow(x.msgs, WalkFrom(x)) \in [MsgSeq -> CustomMsgState]
  BY <1>0 DEF PruneBelow, CustomMsgState
<1>3. Compact(x) \in BoxType
  BY <1>0, <1>1, <1>2 DEF Compact, BoxType
<1>4. Clean(Compact(x))
  BY DEF Clean, Compact, PruneBelow
<1>5. ASSUME NEW q \in MsgSeq PROVE Done(Compact(x), q) <=> Done(x, q)
  <2>1. CASE q <= x.mark
    BY <1>0, <1>1, <2>1 DEF Done, Compact, MsgSeq
  <2>2. CASE q > x.mark /\ q <= WalkFrom(x)
    <3>1. x.msgs[q] \in Terminal
      BY <1>0, <1>1, <2>2, WalkFacts DEF MsgSeq
    <3> QED
      BY <2>2, <3>1 DEF Done, Compact
  <2>3. CASE q > WalkFrom(x)
    <3>1. Compact(x).msgs[q] = x.msgs[q]
      BY <1>0, <1>1, <2>3 DEF Compact, PruneBelow, MsgSeq
    <3> QED
      BY <1>0, <1>1, <2>3, <3>1 DEF Done, Compact, MsgSeq
  <2> QED
    BY <1>0, <1>1, <2>1, <2>2, <2>3 DEF MsgSeq
<1> QED
  BY <1>3, <1>4, <1>5

\* A post resolves nothing and forgets nothing (apply_custom_message_posted).
LEMMA PostedFacts ==
    ASSUME NEW x \in BoxType, Clean(x), NEW p \in MsgSeq
    PROVE  /\ ApplyPosted(x, p) \in BoxType
           /\ Clean(ApplyPosted(x, p))
           /\ \A q \in MsgSeq : Done(ApplyPosted(x, p), q) <=> Done(x, q)
<1>1. CASE ~(p > x.mark /\ x.msgs[p] = "Absent")
  BY <1>1 DEF ApplyPosted
<1>2. CASE p > x.mark /\ x.msgs[p] = "Absent"
  <2> DEFINE y == [x EXCEPT !.msgs[p] = "Unhandled"]
  <2>1. ApplyPosted(x, p) = y
    BY <1>2 DEF ApplyPosted
  <2>2. /\ y \in BoxType
        /\ y.mark = x.mark
        /\ \A q \in MsgSeq : y.msgs[q] = IF q = p THEN "Unhandled" ELSE x.msgs[q]
    BY DEF BoxType, CustomMsgState
  <2>3. Clean(y)
    BY <1>2, <2>2, BoundAssumption DEF Clean, BoxType, MsgSeq
  <2>4. \A q \in MsgSeq : Done(y, q) <=> Done(x, q)
    BY <1>2, <2>2 DEF Done, Terminal
  <2> QED
    BY <2>1, <2>2, <2>3, <2>4
<1> QED
  BY <1>1, <1>2

\* An outcome resolves its message, keeps what was resolved, and resolves
\* nothing else (apply_custom_message_handled, apply_custom_message_failed).
LEMMA TerminalFacts ==
    ASSUME NEW x \in BoxType, Clean(x), NEW p \in MsgSeq, NEW out \in Terminal
    PROVE  /\ ApplyTerminal(x, p, out) \in BoxType
           /\ Clean(ApplyTerminal(x, p, out))
           /\ \A q \in MsgSeq : Done(x, q) => Done(ApplyTerminal(x, p, out), q)
           /\ \A q \in MsgSeq : Done(ApplyTerminal(x, p, out), q) => Done(x, q) \/ q = p
<1>1. CASE ~Latches(x, p, out)
  BY <1>1 DEF ApplyTerminal
<1>2. CASE Latches(x, p, out)
  <2> DEFINE y == [x EXCEPT !.msgs[p] = out]
  <2>1. ApplyTerminal(x, p, out) = Compact(y)
    BY <1>2 DEF ApplyTerminal
  <2>2. /\ y \in BoxType
        /\ y.mark = x.mark
        /\ \A q \in MsgSeq : y.msgs[q] = IF q = p THEN out ELSE x.msgs[q]
    BY DEF BoxType, CustomMsgState
  <2>3. \A q \in MsgSeq : Done(y, q) <=> Done(x, q) \/ q = p
    BY <2>2 DEF Done
  <2>4. /\ Compact(y) \in BoxType
        /\ Clean(Compact(y))
        /\ \A q \in MsgSeq : Done(Compact(y), q) <=> Done(y, q)
    BY <2>2, CompactFacts
  <2> HIDE DEF y
  <2> QED
    BY <2>1, <2>3, <2>4
<1> QED
  BY <1>1, <1>2

\* A restore resolves what either side had resolved (the inbox part of
\* restore).
LEMMA RestoreFacts ==
    ASSUME NEW x \in BoxType, Clean(x), NEW y \in BoxType, Clean(y)
    PROVE  /\ Restore(x, y) \in BoxType
           /\ Clean(Restore(x, y))
           /\ \A q \in MsgSeq : Done(x, q) => Done(Restore(x, y), q)
           /\ \A q \in MsgSeq : Done(Restore(x, y), q) => Done(x, q) \/ Done(y, q)
<1> DEFINE m == Merge(x, y)
           w == IF y.mark > x.mark THEN y.mark ELSE x.mark
<1>0. /\ x.mark \in Nat /\ y.mark \in Nat /\ MaxMsgs \in Nat
      /\ w \in 0 .. MaxMsgs /\ x.mark <= w
      /\ x.msgs \in [MsgSeq -> CustomMsgState] /\ y.msgs \in [MsgSeq -> CustomMsgState]
  BY BoundAssumption DEF BoxType
<1>1. /\ m.mark = w
      /\ \A q \in MsgSeq : m.msgs[q] = IF q <= w THEN "Absent" ELSE
                               IF Takes(x, y, q) THEN y.msgs[q] ELSE x.msgs[q]
  BY DEF Merge, PruneBelow
<1>2. m \in BoxType
  BY <1>0 DEF Merge, PruneBelow, BoxType, CustomMsgState
<1>3. Clean(m)
  BY <1>1 DEF Clean
<1>4. ASSUME NEW q \in MsgSeq, Done(x, q) PROVE Done(m, q)
  BY <1>0, <1>1, <1>4 DEF Done, Takes, Terminal, MsgSeq
<1>5. ASSUME NEW q \in MsgSeq, Done(m, q) PROVE Done(x, q) \/ Done(y, q)
  BY <1>0, <1>1, <1>5 DEF Done, Terminal, MsgSeq
<1>6. /\ Compact(m) \in BoxType
      /\ Clean(Compact(m))
      /\ \A q \in MsgSeq : Done(Compact(m), q) <=> Done(m, q)
  BY <1>2, CompactFacts
<1>7. Restore(x, y) = m \/ Restore(x, y) = Compact(m)
  BY DEF Restore
<1> HIDE DEF m
<1> QED
  BY <1>2, <1>3, <1>4, <1>5, <1>6, <1>7

\* A dispatch resolves the unhandled messages and no other.
LEMMA ResolveFacts ==
    ASSUME NEW x \in BoxType, Clean(x), NEW out \in Outcomes(x)
    PROVE  /\ Resolve(x, out) \in BoxType
           /\ Clean(Resolve(x, out))
           /\ \A q \in MsgSeq : Done(Resolve(x, out), q) <=> Done(x, q) \/ q \in Unhandled(x)
<1> DEFINE y == [msgs |-> [q \in MsgSeq |-> IF q \in Unhandled(x) THEN out[q] ELSE x.msgs[q]],
                 mark |-> x.mark]
<1>1. CASE Unhandled(x) = {}
  BY <1>1 DEF Resolve
<1>2. CASE Unhandled(x) # {}
  <2>1. out \in [Unhandled(x) -> Terminal]
    BY DEF Outcomes
  <2>2. y \in BoxType
    BY <2>1 DEF BoxType, CustomMsgState
  <2>3. \A q \in MsgSeq : Done(y, q) <=> Done(x, q) \/ q \in Unhandled(x)
    BY <2>1 DEF Done
  <2>4. /\ Compact(y) \in BoxType
        /\ Clean(Compact(y))
        /\ \A q \in MsgSeq : Done(Compact(y), q) <=> Done(y, q)
    BY <2>2, CompactFacts
  <2>5. Resolve(x, out) = Compact(y)
    BY <1>2 DEF Resolve
  <2> HIDE DEF y
  <2> QED
    BY <2>3, <2>4, <2>5
<1> QED
  BY <1>1, <1>2

\* A message to be dispatched is unresolved: its host was never given it.
LEMMA UnhandledIsOpen ==
    ASSUME NEW x \in BoxType, Clean(x), NEW q \in Unhandled(x)
    PROVE  q \in MsgSeq /\ ~Done(x, q)
  BY DEF Unhandled, Clean, Done, Terminal

-----------------------------------------------------------------------------
(* The steps.                                                              *)

\* Everything about the replicas, the calls and the frames; what TypeOK says of
\* the other variables is left to each action.
Core ==
    /\ inbox \in [Node -> [MsgSeq -> CustomMsgState]]
    /\ mark \in [Node -> 0 .. MaxMsgs]
    /\ calls \in [Host -> [MsgSeq -> Nat]]
    /\ net \subseteq Frame
    /\ Replicas
    /\ HandlerOncePerHost
    /\ CalledIsResolved
    /\ ResolvedWasHandled
    /\ OutcomesWereHandled

\* Resolved, said of a box.
LEMMA ResolvedIsDone ==
    ASSUME NEW n \in Node, NEW q \in MsgSeq
    PROVE  Resolved(n, q) <=> Done(Box(n), q)
  BY DEF Resolved, Done, Box

\* The box of a node.
LEMMA BoxIsTyped ==
    ASSUME Core, NEW n \in Node
    PROVE  Box(n) \in BoxType /\ Clean(Box(n))
  BY DEF Core, Box, BoxType, Replicas

\* A step that replaces one replica's inbox leaves the others alone.
LEMMA SetBoxFacts ==
    ASSUME Core, NEW n \in Node, NEW x \in BoxType, Clean(x), SetBox(n, x)
    PROVE  /\ inbox' \in [Node -> [MsgSeq -> CustomMsgState]]
           /\ mark' \in [Node -> 0 .. MaxMsgs]
           /\ Replicas'
           /\ \A k \in Node, q \in MsgSeq :
                 Resolved(k, q)' <=> IF k = n THEN Done(x, q) ELSE Resolved(k, q)
<1>1. x.msgs \in [MsgSeq -> CustomMsgState] /\ x.mark \in 0 .. MaxMsgs
  BY DEF BoxType
<1>2. /\ inbox' \in [Node -> [MsgSeq -> CustomMsgState]]
      /\ mark' \in [Node -> 0 .. MaxMsgs]
      /\ inbox'[n] = x.msgs /\ mark'[n] = x.mark
      /\ \A k \in Node \ {n} : inbox'[k] = inbox[k] /\ mark'[k] = mark[k]
  BY <1>1 DEF SetBox, Core
<1>3. ASSUME NEW k \in Node PROVE Clean(Box(k))'
  <2>1. CASE k = n
    BY <1>2, <2>1 DEF Clean, Box
  <2>2. CASE k # n
    BY <1>2, <2>2 DEF Clean, Box, Core, Replicas
  <2> QED
    BY <2>1, <2>2
<1>4. ASSUME NEW k \in Node, NEW q \in MsgSeq
      PROVE  Resolved(k, q)' <=> IF k = n THEN Done(x, q) ELSE Resolved(k, q)
  BY <1>2 DEF Resolved, Done
<1> QED
  BY <1>2, <1>3, <1>4 DEF Replicas

\* A replica that learns only of handled messages, while no handler runs.
LEMMA LearnStep ==
    ASSUME Core, NEW n \in Node, NEW x \in BoxType, Clean(x), SetBox(n, x),
           \A q \in MsgSeq : Done(Box(n), q) => Done(x, q),
           \A q \in MsgSeq : Done(x, q) => \E h \in Host : Called(h, q),
           UNCHANGED <<calls, net>>
    PROVE  Core'
<1>1. /\ inbox' \in [Node -> [MsgSeq -> CustomMsgState]]
      /\ mark' \in [Node -> 0 .. MaxMsgs]
      /\ Replicas'
      /\ \A k \in Node, q \in MsgSeq :
            Resolved(k, q)' <=> IF k = n THEN Done(x, q) ELSE Resolved(k, q)
  BY SetBoxFacts
<1>2. calls' = calls /\ net' = net /\ Host \subseteq Node
  BY DEF Node
<1>3. \A k \in Node, q \in MsgSeq : Resolved(k, q) => Resolved(k, q)'
  BY <1>1, ResolvedIsDone
<1>4. CalledIsResolved'
  BY <1>2, <1>3 DEF Core, CalledIsResolved, Called
<1>5. ResolvedWasHandled'
  BY <1>1, <1>2 DEF Core, ResolvedWasHandled, Called
<1>6. HandlerOncePerHost' /\ OutcomesWereHandled'
  BY <1>2 DEF Core, HandlerOncePerHost, OutcomesWereHandled, Called
<1> QED
  BY <1>1, <1>2, <1>4, <1>5, <1>6 DEF Core

\* A dispatch: the handler of h is given what h's replica holds unhandled, and
\* h was given none of it before.
LEMMA DispatchStep ==
    ASSUME Core, NEW h \in Host, NEW x \in BoxType, Clean(x),
           \A q \in MsgSeq : Done(x, q) <=> Done(Box(h), q),
           NEW frames \in SUBSET Frame,
           \A m \in frames : m.kind \notin Terminal,
           Dispatch(h, x, frames)
    PROVE  Core'
<1> DEFINE U == Unhandled(x)
<1>1. PICK out \in Outcomes(x) :
        /\ SetBox(h, Resolve(x, out))
        /\ net' = net \cup frames \cup Fan("Handled", {q \in U : out[q] = "Handled"})
                     \cup Fan("Failed", U \ {q \in U : out[q] = "Handled"})
        /\ calls' = [calls EXCEPT ![h] = [q \in MsgSeq |-> IF q \in U THEN @[q] + 1 ELSE @[q]]]
  BY DEF Dispatch
<1> DEFINE y == Resolve(x, out)
<1>2. /\ y \in BoxType /\ Clean(y)
      /\ \A q \in MsgSeq : Done(y, q) <=> Done(x, q) \/ q \in U
  BY ResolveFacts
<1>3. U \subseteq MsgSeq /\ \A q \in U : ~Done(Box(h), q)
  BY UnhandledIsOpen
<1>4. h \in Node /\ Host \subseteq Node
  BY DEF Node
<1> HIDE DEF y, U
<1>5. /\ inbox' \in [Node -> [MsgSeq -> CustomMsgState]]
      /\ mark' \in [Node -> 0 .. MaxMsgs]
      /\ Replicas'
      /\ \A k \in Node, q \in MsgSeq :
            Resolved(k, q)' <=> IF k = h THEN Done(y, q) ELSE Resolved(k, q)
  BY <1>1, <1>2, <1>4, SetBoxFacts DEF y
<1>6. /\ calls' \in [Host -> [MsgSeq -> Nat]]
      /\ \A g \in Host, q \in MsgSeq :
            calls'[g][q] = IF g = h /\ q \in U THEN calls[g][q] + 1 ELSE calls[g][q]
  BY <1>1 DEF Core
<1>7. ASSUME NEW q \in U PROVE calls[h][q] = 0
  <2>1. ~Resolved(h, q)
    BY <1>3, <1>4, ResolvedIsDone
  <2> QED
    BY <1>3, <2>1 DEF Core, CalledIsResolved, Called
<1>8. HandlerOncePerHost'
  BY <1>6, <1>7 DEF Core, HandlerOncePerHost
<1>9. \A k \in Node, q \in MsgSeq :
         Resolved(k, q)' <=> Resolved(k, q) \/ (k = h /\ q \in U)
  BY <1>2, <1>4, <1>5, ResolvedIsDone
<1>10. \A g \in Host, q \in MsgSeq :
          Called(g, q)' <=> Called(g, q) \/ (g = h /\ q \in U)
  BY <1>6, <1>7 DEF Called, Core
<1>11. CalledIsResolved'
  BY <1>4, <1>9, <1>10 DEF Core, CalledIsResolved
<1>12. ResolvedWasHandled'
  BY <1>9, <1>10 DEF Core, ResolvedWasHandled
<1>13. net' \subseteq Frame
  BY <1>1, <1>3 DEF Core, Fan, Frame
<1>14. ASSUME NEW m \in net', m.kind \in Terminal
       PROVE  \E g \in Host : Called(g, m.seq)'
  <2>1. CASE m \in net
    <3>1. PICK g \in Host : Called(g, m.seq)
      BY <1>14, <2>1 DEF Core, OutcomesWereHandled
    <3>2. m.seq \in MsgSeq
      BY <1>14, <2>1 DEF Core, Frame, Terminal
    <3> QED
      BY <1>10, <3>1, <3>2
  <2>2. CASE m \notin net
    <3>1. m.seq \in U
      BY <1>1, <1>14, <2>2 DEF Fan
    <3> QED
      BY <1>3, <1>10, <3>1
  <2> QED
    BY <2>1, <2>2
<1>15. OutcomesWereHandled'
  BY <1>14 DEF OutcomesWereHandled
<1> QED
  BY <1>5, <1>6, <1>8, <1>11, <1>12, <1>13, <1>15 DEF Core

\* The inductive invariant.
IInv == TypeOK /\ Core

\* A step that changes neither a replica nor a call, and sends no outcome.
LEMMA SendStep ==
    ASSUME Core, UNCHANGED <<nodeVars, calls>>,
           net' \subseteq Frame, \A m \in net' \ net : m.kind \notin Terminal
    PROVE  Core'
<1>1. inbox' = inbox /\ mark' = mark /\ calls' = calls
  BY DEF nodeVars
<1>2. Replicas' /\ HandlerOncePerHost' /\ CalledIsResolved' /\ ResolvedWasHandled'
  BY <1>1 DEF Core, Replicas, Clean, Box, HandlerOncePerHost, CalledIsResolved,
              ResolvedWasHandled, Called, Resolved
<1>3. OutcomesWereHandled'
  BY <1>1 DEF Core, OutcomesWereHandled, Called
<1> QED
  BY <1>1, <1>2, <1>3 DEF Core

\* A landing: the post, and the dispatch behind it (handle_custom_message).
LEMMA LandingStep ==
    ASSUME IInv, NEW m \in net, HandleCustomMessage(m)
    PROVE  Core'
<1>1. /\ m.to \in Host /\ m.to \in Node /\ m.seq \in MsgSeq
  BY DEF HandleCustomMessage, Lands, IInv, TypeOK, Frame, Node
<1>2. Box(m.to) \in BoxType /\ Clean(Box(m.to))
  BY <1>1, BoxIsTyped DEF IInv
<1> DEFINE x == Box(m.to)
           y == ApplyPosted(x, m.seq)
           fan == IF y = x THEN {} ELSE Fan("Posted", {m.seq})
           frames == fan \cup {[kind |-> "ack", seq |-> m.seq]}
<1>3. y \in BoxType /\ Clean(y) /\ \A q \in MsgSeq : Done(y, q) <=> Done(x, q)
  BY <1>1, <1>2, PostedFacts
<1>4. frames \in SUBSET Frame /\ \A f \in frames : f.kind \notin Terminal
  BY <1>1 DEF Frame, Fan, Terminal
<1>5. Dispatch(m.to, y, frames)
  BY DEF HandleCustomMessage
<1> HIDE DEF x, y, frames
<1> QED
  BY <1>1, <1>3, <1>4, <1>5, DispatchStep DEF IInv, x

\* The dispatches that no landing triggers: the heartbeat's and a promotion's.
LEMMA BackstopStep ==
    ASSUME IInv, NEW h \in Host, Dispatch(h, Box(h), {})
    PROVE  Core'
<1>1. h \in Node
  BY DEF Node
<1>2. Box(h) \in BoxType /\ Clean(Box(h))
  BY <1>1, BoxIsTyped DEF IInv
<1> QED
  BY <1>2, DispatchStep DEF IInv

\* A delivered mutation (apply_cluster_mutations).
LEMMA DeliverStep ==
    ASSUME IInv, NEW n \in Node, NEW m \in net, DeliverMutation(n, m)
    PROVE  Core'
<1>1. Box(n) \in BoxType /\ Clean(Box(n))
  BY BoxIsTyped DEF IInv
<1>2. m.kind \in {"Posted", "Handled", "Failed"} /\ m.seq \in MsgSeq
  BY DEF DeliverMutation, IInv, TypeOK, Frame
<1>3. UNCHANGED <<calls, net>>
  BY DEF DeliverMutation
<1>4. \A q \in MsgSeq : Done(Box(n), q) => \E h \in Host : Called(h, q)
  BY ResolvedIsDone DEF IInv, Core, ResolvedWasHandled
<1>5. CASE m.kind = "Posted"
  <2> DEFINE x == ApplyPosted(Box(n), m.seq)
  <2>1. /\ x \in BoxType /\ Clean(x)
        /\ \A q \in MsgSeq : Done(x, q) <=> Done(Box(n), q)
    BY <1>1, <1>2, PostedFacts
  <2>2. SetBox(n, x)
    BY <1>5 DEF DeliverMutation
  <2> HIDE DEF x
  <2> QED
    BY <1>3, <1>4, <2>1, <2>2, LearnStep DEF IInv
<1>6. CASE m.kind # "Posted"
  <2> DEFINE x == ApplyTerminal(Box(n), m.seq, m.kind)
  <2>1. m.kind \in Terminal
    BY <1>2, <1>6 DEF Terminal
  <2>2. /\ x \in BoxType /\ Clean(x)
        /\ \A q \in MsgSeq : Done(Box(n), q) => Done(x, q)
        /\ \A q \in MsgSeq : Done(x, q) => Done(Box(n), q) \/ q = m.seq
    BY <1>1, <1>2, <2>1, TerminalFacts
  <2>3. SetBox(n, x)
    BY <1>6 DEF DeliverMutation
  <2>4. \E h \in Host : Called(h, m.seq)
    BY <2>1 DEF IInv, Core, OutcomesWereHandled
  <2> HIDE DEF x
  <2>5. \A q \in MsgSeq : Done(x, q) => \E h \in Host : Called(h, q)
    BY <1>4, <2>2, <2>4
  <2> QED
    BY <1>3, <2>2, <2>3, <2>5, LearnStep DEF IInv
<1> QED
  BY <1>5, <1>6

\* A restored head (the inbox part of restore).
LEMMA RestoreStep ==
    ASSUME IInv, NEW r \in Node, NEW s \in Node, RestoreHead(r, s)
    PROVE  Core'
<1> DEFINE x == Restore(Box(r), Box(s))
<1>1. /\ Box(r) \in BoxType /\ Clean(Box(r))
      /\ Box(s) \in BoxType /\ Clean(Box(s))
  BY BoxIsTyped DEF IInv
<1>2. /\ x \in BoxType /\ Clean(x)
      /\ \A q \in MsgSeq : Done(Box(r), q) => Done(x, q)
      /\ \A q \in MsgSeq : Done(x, q) => Done(Box(r), q) \/ Done(Box(s), q)
  BY <1>1, RestoreFacts
<1>3. SetBox(r, x) /\ UNCHANGED <<calls, net>>
  BY DEF RestoreHead
<1> HIDE DEF x
<1>4. \A q \in MsgSeq : Done(x, q) => \E h \in Host : Called(h, q)
  BY <1>2, ResolvedIsDone DEF IInv, Core, ResolvedWasHandled
<1> QED
  BY <1>2, <1>3, <1>4, LearnStep DEF IInv

\* What TypeOK says beyond Core.
Others ==
    /\ up \subseteq Host /\ acting \subseteq Host /\ expelled \subseteq Host
    /\ target \in Host
    /\ sent \in 0 .. MaxMsgs /\ stamp \in 0 .. MaxMsgs
    /\ kept \in [MsgSeq -> Retention]
    /\ report \in Retention \cup {"Unsent"}
    /\ parked \subseteq Host /\ settled \subseteq Host
    /\ env \in EnvironmentType

\* The two halves of the inductive invariant.
LEMMA Halves ==
    /\ IInv => Core /\ Others
    /\ Core' /\ Others' => IInv'
<1>1. IInv => Core /\ Others
  BY DEF IInv, Others, TypeOK
<1>2. Core' /\ Others' => IInv'
  BY DEF IInv, Core, Others, TypeOK
<1> QED
  BY <1>1, <1>2

\* A dispatch moves only the host's own parked terminal.
LEMMA DispatchGate ==
    ASSUME Others, NEW h \in Host, NEW x, NEW frames, Dispatch(h, x, frames)
    PROVE  parked' \subseteq Host /\ settled' \subseteq Host
  BY DEF Others, Dispatch

\* The faults that are left stay a number.
LEMMA FaultsAreCounted ==
    ASSUME Others, (\E f : Strikes(f)) \/ NoFault
    PROVE  env' \in EnvironmentType
<1>1. CASE NoFault
  BY <1>1 DEF Others, NoFault
<1>2. CASE \E f : Strikes(f)
  <2>1. env.faults > 0 /\ env' = [env EXCEPT !.faults = env.faults - 1]
    BY <1>2 DEF Strikes
  <2> QED
    BY <2>1 DEF Others, EnvironmentType
<1> QED
  BY <1>1, <1>2

\* The steps of the primary preserve the invariant.
LEMMA PrimaryStep ==
    ASSUME IInv, NEW h \in Host,
           \/ HeartbeatDispatch(h) \/ Promote(h) \/ Demote(h)
           \/ Crash(h) \/ ExpelOrigin(h) \/ HearOrigin(h)
    PROVE  IInv'
<1>0. Core /\ Others
  BY Halves
<1>1. CASE HeartbeatDispatch(h)
  <2>1. Core'
    BY <1>1, BackstopStep DEF HeartbeatDispatch
  <2>2. Others'
    BY <1>0, <1>1, DispatchGate, FaultsAreCounted
       DEF Others, HeartbeatDispatch, hostVars, originVars
  <2> QED
    BY <2>1, <2>2, Halves
<1>2. CASE Promote(h)
  <2>1. Core'
    BY <1>2, BackstopStep DEF Promote
  <2>2. env' \in EnvironmentType
    BY <1>0, <1>2, FaultsAreCounted DEF Promote
  <2>3. Others'
    BY <1>0, <1>2, <2>2, DispatchGate DEF Others, Promote, originVars
  <2> QED
    BY <2>1, <2>3, Halves
<1>3. CASE Demote(h)
  <2>1. UNCHANGED <<nodeVars, calls>> /\ net' = net
    BY <1>3 DEF Demote
  <2>2. Core'
    BY <1>0, <2>1, SendStep DEF Core
  <2>3. Others'
    BY <1>0, <1>3, FaultsAreCounted DEF Others, Demote, originVars
  <2> QED
    BY <2>2, <2>3, Halves
<1>4. CASE Crash(h)
  <2>1. UNCHANGED <<nodeVars, calls>> /\ net' = net
    BY <1>4 DEF Crash
  <2>2. Core'
    BY <1>0, <2>1, SendStep DEF Core
  <2>3. Others'
    BY <1>0, <1>4, FaultsAreCounted DEF Others, Crash, originVars
  <2> QED
    BY <2>2, <2>3, Halves
<1>5. CASE ExpelOrigin(h)
  <2>1. UNCHANGED <<nodeVars, calls>> /\ net' = net
    BY <1>5 DEF ExpelOrigin
  <2>2. Core'
    BY <1>0, <2>1, SendStep DEF Core
  <2>3. Others'
    BY <1>0, <1>5, FaultsAreCounted DEF Others, ExpelOrigin, originVars, gateVars
  <2> QED
    BY <2>2, <2>3, Halves
<1>6. CASE HearOrigin(h)
  <2>1. UNCHANGED <<nodeVars, calls>> /\ net' = net
    BY <1>6 DEF HearOrigin
  <2>2. Core'
    BY <1>0, <2>1, SendStep DEF Core
  <2>3. Others'
    BY <1>0, <1>6, FaultsAreCounted DEF Others, HearOrigin, Readmit, originVars, gateVars
  <2> QED
    BY <2>2, <2>3, Halves
<1> QED
  BY <1>1, <1>2, <1>3, <1>4, <1>5, <1>6

\* The steps of a frame that lands at a primary preserve the invariant.
LEMMA LandsStep ==
    ASSUME IInv, NEW m \in net, HandleCustomMessage(m) \/ IngestTaskTerminal(m)
    PROVE  IInv'
<1>0. Core /\ Others
  BY Halves
<1>1. CASE HandleCustomMessage(m)
  <2>1. Core'
    BY <1>1, LandingStep
  <2>2. m.to \in Host
    BY <1>0, <1>1 DEF HandleCustomMessage, Lands, Others
  <2>3. parked' \subseteq Host /\ settled' \subseteq Host
    BY <1>0, <1>1, <2>2, DispatchGate DEF HandleCustomMessage
  <2>4. Others'
    BY <1>0, <1>1, <2>3, FaultsAreCounted
       DEF Others, HandleCustomMessage, Lands, Readmit, originVars
  <2> QED
    BY <2>1, <2>4, Halves
<1>2. CASE IngestTaskTerminal(m)
  <2>1. UNCHANGED <<nodeVars, calls>> /\ net' = net \cup {[kind |-> "ack", seq |-> 0]}
    BY <1>2 DEF IngestTaskTerminal
  <2>2. [kind |-> "ack", seq |-> 0] \in Frame
    BY DEF Frame
  <2>3. net' \subseteq Frame /\ \A f \in net' \ net : f.kind \notin Terminal
    BY <1>0, <2>1, <2>2 DEF Core, Terminal
  <2>4. Core'
    BY <1>0, <2>1, <2>3, SendStep
  <2>5. Others'
    BY <1>0, <1>2, FaultsAreCounted
       DEF Others, IngestTaskTerminal, Lands, Readmit, originVars
  <2> QED
    BY <2>4, <2>5, Halves
<1> QED
  BY <1>1, <1>2

\* A send: it queues its frame, or finds no route (send_to_primary).
LEMMA EgressStep ==
    ASSUME IInv, NEW frame \in Frame, frame.kind \notin Terminal,
           NEW state, Egress(frame, state), OriginStep
    PROVE  Core' /\ env' \in EnvironmentType
<1>0. Core /\ Others
  BY Halves
<1>1. net' \subseteq Frame /\ \A f \in net' \ net : f.kind \notin Terminal
  BY <1>0 DEF Egress, Core
<1>2. UNCHANGED <<nodeVars, calls>>
  BY DEF OriginStep
<1>3. (\E f : Strikes(f)) \/ NoFault
  BY DEF Egress
<1> QED
  BY <1>0, <1>1, <1>2, <1>3, SendStep, FaultsAreCounted

\* The frames the origin sends.
LEMMA OriginFrames ==
    ASSUME Others
    PROVE  /\ \A q \in MsgSeq : Custom(q) \in Frame /\ Custom(q).kind \notin Terminal
           /\ TaskTerminal \in Frame /\ TaskTerminal.kind \notin Terminal
  BY DEF Others, Custom, TaskTerminal, Frame, Terminal

\* The sends and replays of the origin preserve the invariant.
LEMMA SendingStep ==
    ASSUME IInv, Sending
    PROVE  IInv'
<1>0. Core /\ Others
  BY Halves
<1>1. PICK state \in {"NoRoute", "Sent"} :
         \/ SendCustom(state)
         \/ SendTerminal(state)
         \/ \E q \in MsgSeq : ReplayCustom(q, state)
         \/ ReplayTerminal(state)
  BY DEF Sending
<1>2. CASE SendCustom(state)
  <2>1. sent + 1 \in MsgSeq
    <3>1. env.msgs \in 0 .. MaxMsgs
      BY <1>0 DEF Others, EnvironmentType
    <3> QED
      BY <1>0, <1>2, <3>1, BoundAssumption DEF SendCustom, Others, MsgSeq
  <2>2. Core' /\ env' \in EnvironmentType
    BY <1>0, <1>2, <2>1, EgressStep, OriginFrames DEF SendCustom
  <2>3. Others'
    BY <1>0, <1>2, <2>1, <2>2
       DEF SendCustom, OriginStep, Others, Retention, MsgSeq, hostVars, gateVars
  <2> QED
    BY <2>2, <2>3, Halves
<1>3. CASE SendTerminal(state)
  <2>1. Core' /\ env' \in EnvironmentType
    BY <1>0, <1>3, EgressStep, OriginFrames DEF SendTerminal
  <2>2. Others'
    BY <1>0, <1>3, <2>1
       DEF SendTerminal, OriginStep, Others, Retention, hostVars, gateVars
  <2> QED
    BY <2>1, <2>2, Halves
<1>4. ASSUME NEW q \in MsgSeq, ReplayCustom(q, state) PROVE IInv'
  <2>1. Core' /\ env' \in EnvironmentType
    BY <1>0, <1>4, EgressStep, OriginFrames DEF ReplayCustom
  <2>2. Others'
    BY <1>0, <1>4, <2>1
       DEF ReplayCustom, OriginStep, Others, Retention, hostVars, gateVars
  <2> QED
    BY <2>1, <2>2, Halves
<1>5. CASE ReplayTerminal(state)
  <2>1. Core' /\ env' \in EnvironmentType
    BY <1>0, <1>5, EgressStep, OriginFrames DEF ReplayTerminal
  <2>2. Others'
    BY <1>0, <1>5, <2>1
       DEF ReplayTerminal, OriginStep, Others, Retention, hostVars, gateVars
  <2> QED
    BY <2>1, <2>2, Halves
<1> QED
  BY <1>1, <1>2, <1>3, <1>4, <1>5

\* The other steps of the origin preserve the invariant.
LEMMA OriginHears ==
    ASSUME IInv, (\E m \in net : AckDelivery(m)) \/ (\E h \in Host : Retarget(h))
    PROVE  IInv'
<1>0. Core /\ Others
  BY Halves
<1>1. UNCHANGED <<nodeVars, calls>> /\ net' = net /\ NoFault
  BY DEF AckDelivery, Retarget, OriginStep
<1>2. Core' /\ env' \in EnvironmentType
  BY <1>0, <1>1, SendStep, FaultsAreCounted DEF Core
<1>3. ASSUME NEW m \in net, AckDelivery(m) PROVE Others'
  <2>1. m.seq \in MsgSeq \cup {0}
    BY <1>0, <1>3 DEF AckDelivery, Core, Frame
  <2>2. kept' \in [MsgSeq -> Retention] /\ report' \in Retention \cup {"Unsent"}
    BY <1>0, <1>3, <2>1 DEF AckDelivery, Others, Retention
  <2> QED
    BY <1>0, <1>2, <1>3, <2>2 DEF AckDelivery, OriginStep, Others, hostVars, gateVars
<1>4. ASSUME NEW h \in Host, Retarget(h) PROVE Others'
  BY <1>0, <1>2, <1>4 DEF Retarget, OriginStep, Others, hostVars, gateVars
<1> QED
  BY <1>2, <1>3, <1>4, Halves

\* Replication preserves the invariant.
LEMMA ExchangeStep ==
    ASSUME IInv, Exchange
    PROVE  IInv'
<1>0. Core /\ Others
  BY Halves
<1>1. ASSUME NEW n \in Node, NEW m \in net, DeliverMutation(n, m) PROVE IInv'
  <2>1. Core'
    BY <1>1, DeliverStep
  <2>2. kept' \in [MsgSeq -> Retention]
    BY <1>0, <1>1 DEF DeliverMutation, Others, Retention
  <2>3. Others'
    BY <1>0, <1>1, <2>2 DEF DeliverMutation, Others, hostVars, gateVars
  <2> QED
    BY <2>1, <2>3, Halves
<1>2. ASSUME NEW r \in Node, NEW s \in Node, RestoreHead(r, s) PROVE IInv'
  <2>1. Core'
    BY <1>2, RestoreStep
  <2>2. Others'
    BY <1>0, <1>2 DEF RestoreHead, Others, hostVars, originVars, gateVars
  <2> QED
    BY <2>1, <2>2, Halves
<1> QED
  BY <1>1, <1>2 DEF Exchange

\* Every step preserves the invariant.
LEMMA NextStep ==
    ASSUME IInv, [Next]_vars
    PROVE  IInv'
<1>1. CASE Next
  BY <1>1, SendingStep, LandsStep, OriginHears, PrimaryStep, ExchangeStep DEF Next
<1>2. CASE UNCHANGED vars
  <2>1. UNCHANGED <<nodeVars, calls>> /\ net' = net
    BY <1>2 DEF vars, nodeVars
  <2>2. Core'
    BY <2>1, Halves, SendStep DEF Core
  <2>3. Others'
    BY <1>2, Halves DEF vars, Others
  <2> QED
    BY <2>2, <2>3, Halves
<1> QED
  BY <1>1, <1>2

\* The initial states satisfy it.
LEMMA InitHolds ==
    Init => IInv
<1> SUFFICES ASSUME Init PROVE IInv
  OBVIOUS
<1>1. TypeOK
  BY HostAssumption, BoundAssumption, EnvironmentAssumption
     DEF Init, TypeOK, Node, CustomMsgState, Retention, MsgSeq
<1>2. /\ \A n \in Node, q \in MsgSeq : inbox[n][q] = "Absent" /\ mark[n] = 0
      /\ \A h \in Host, q \in MsgSeq : calls[h][q] = 0
      /\ net = {}
  BY DEF Init
<1>3. Replicas /\ HandlerOncePerHost /\ CalledIsResolved /\ OutcomesWereHandled
  BY <1>2 DEF Replicas, Clean, Box, HandlerOncePerHost, CalledIsResolved, Called,
              OutcomesWereHandled
<1>4. ResolvedWasHandled
  BY <1>2 DEF ResolvedWasHandled, Resolved, MsgSeq, Terminal
<1> QED
  BY <1>1, <1>3, <1>4 DEF IInv, Core, TypeOK

\* The strengthening is an invariant of the inbox.
THEOREM InboxInvariant == Spec => []IInv
<1>1. Init => IInv
  BY InitHolds
<1>2. IInv /\ [Next]_vars => IInv'
  BY NextStep
<1> QED
  BY <1>1, <1>2, PTL DEF Spec

\* Every reachable state of the inbox has its type.
THEOREM InboxTypeCorrect == Spec => []TypeOK
<1>1. IInv => TypeOK
  BY DEF IInv
<1> QED
  BY <1>1, InboxInvariant, PTL

\* Whatever is lost, duplicated, reordered or restored, and whoever is the
\* primary, no replica holds a message resolved that no handler was given.
THEOREM ResolvedWasHandledHolds == Spec => []ResolvedWasHandled
<1>1. IInv => ResolvedWasHandled
  BY DEF IInv, Core
<1> QED
  BY <1>1, InboxInvariant, PTL

\* No host's handler is given a message twice, across replays, restores and
\* repeated promotions.
THEOREM HandlerOncePerHostHolds == Spec => []HandlerOncePerHost
<1>1. IInv => HandlerOncePerHost
  BY DEF IInv, Core
<1> QED
  BY <1>1, InboxInvariant, PTL

\* A host whose gate admits the terminal, while the origin is a member, holds
\* every message the stamp counts resolved (terminal_gate_admits).
LEMMA AdmittedIsCovered ==
    ASSUME NEW h, NEW x \in BoxType, Admits(h, x), h \notin expelled', stamp \in Nat
    PROVE  \A q \in 1 .. stamp : Done(x, q)
  BY BoundAssumption DEF Admits, Done, BoxType

\* A dispatch that settles the terminal settles it with the handlers done.
LEMMA DispatchSettles ==
    ASSUME IInv, Core', NEW h \in Host, NEW x \in BoxType, Clean(x), NEW frames,
           Dispatch(h, x, frames), stamp' = stamp,
           NEW g \in Host, g \in settled' \ settled, g \notin expelled'
    PROVE  \A q \in 1 .. stamp : \E k \in Host : Called(k, q)'
<1>1. PICK out \in Outcomes(x) :
        /\ SetBox(h, Resolve(x, out))
        /\ settled' = IF h \in parked /\ Admits(h, Resolve(x, out))
                       THEN settled \cup {h} ELSE settled
  BY DEF Dispatch
<1> DEFINE y == Resolve(x, out)
<1>2. g = h /\ Admits(h, y)
  BY <1>1
<1>3. y \in BoxType /\ Clean(y)
  BY ResolveFacts
<1>4. stamp \in 0 .. MaxMsgs /\ MaxMsgs \in Nat /\ h \in Node
  BY BoundAssumption DEF IInv, TypeOK, Node
<1> HIDE DEF y
<1>5. \A q \in 1 .. stamp : Done(y, q) /\ q \in MsgSeq
  BY <1>2, <1>3, <1>4, AdmittedIsCovered DEF MsgSeq
<1>6. \A q \in MsgSeq : Resolved(h, q)' <=> Done(y, q)
  BY <1>1, <1>3, <1>4, SetBoxFacts DEF IInv, y
<1> QED
  BY <1>4, <1>5, <1>6 DEF Core, ResolvedWasHandled

\* A primary that holds the origin as a member never processes the task's
\* terminal before the handlers of the messages the task sent first have run.
THEOREM GateOrderHolds == Spec => GateOrder
<1> DEFINE Ordered ==
      \A h \in Host :
          h \in settled' \ settled /\ h \notin expelled' =>
             \A q \in 1 .. stamp : \E g \in Host : Called(g, q)'
<1>1. IInv /\ [Next]_vars => Ordered
  <2> SUFFICES ASSUME IInv, [Next]_vars, NEW g \in Host,
                      g \in settled' \ settled, g \notin expelled'
               PROVE  \A q \in 1 .. stamp : \E k \in Host : Called(k, q)'
    OBVIOUS
  <2>0. Core' /\ IInv'
    BY NextStep, Halves DEF IInv
  <2>1. ASSUME NEW m \in net, HandleCustomMessage(m)
        PROVE  \A q \in 1 .. stamp : \E k \in Host : Called(k, q)'
    <3>1. m.to \in Host /\ m.to \in Node /\ m.seq \in MsgSeq
      BY <2>1 DEF HandleCustomMessage, Lands, IInv, TypeOK, Frame, Node
    <3>2. Box(m.to) \in BoxType /\ Clean(Box(m.to))
      BY <3>1, BoxIsTyped DEF IInv
    <3>3. ApplyPosted(Box(m.to), m.seq) \in BoxType /\ Clean(ApplyPosted(Box(m.to), m.seq))
      BY <3>1, <3>2, PostedFacts
    <3>4. stamp' = stamp
      BY <2>1 DEF HandleCustomMessage, Lands, originVars
    <3>5. \E frames : Dispatch(m.to, ApplyPosted(Box(m.to), m.seq), frames)
      BY <2>1 DEF HandleCustomMessage
    <3> QED
      BY <2>0, <3>1, <3>3, <3>4, <3>5, DispatchSettles
  <2>2. ASSUME NEW h \in Host, HeartbeatDispatch(h) \/ Promote(h)
        PROVE  \A q \in 1 .. stamp : \E k \in Host : Called(k, q)'
    <3>1. Box(h) \in BoxType /\ Clean(Box(h))
      BY BoxIsTyped DEF IInv, Node
    <3>2. stamp' = stamp /\ Dispatch(h, Box(h), {})
      BY <2>2 DEF HeartbeatDispatch, Promote, originVars
    <3> QED
      BY <2>0, <3>1, <3>2, DispatchSettles
  <2>3. ASSUME NEW m \in net, IngestTaskTerminal(m)
        PROVE  \A q \in 1 .. stamp : \E k \in Host : Called(k, q)'
    <3>1. g = m.to /\ Admits(m.to, Box(m.to)) /\ calls' = calls
      BY <2>3 DEF IngestTaskTerminal
    <3>2. Box(g) \in BoxType /\ g \in Node
      BY BoxIsTyped DEF IInv, Node
    <3>3. stamp \in 0 .. MaxMsgs /\ MaxMsgs \in Nat
      BY BoundAssumption DEF IInv, TypeOK
    <3>4. \A q \in 1 .. stamp : q \in MsgSeq /\ Resolved(g, q)
      BY <3>1, <3>2, <3>3, AdmittedIsCovered, ResolvedIsDone DEF MsgSeq
    <3> QED
      BY <3>1, <3>2, <3>3, <3>4 DEF IInv, Core, ResolvedWasHandled, Called
  <2>4. ASSUME ~(\E m \in net : HandleCustomMessage(m) \/ IngestTaskTerminal(m)),
               ~(\E h \in Host : HeartbeatDispatch(h) \/ Promote(h))
        PROVE  settled' = settled
    <3>1. CASE Sending
      BY <3>1 DEF Sending, SendCustom, SendTerminal, ReplayCustom, ReplayTerminal,
                  OriginStep, gateVars
    <3>2. CASE \E m \in net : AckDelivery(m)
      BY <3>2 DEF AckDelivery, OriginStep, gateVars
    <3>3. CASE \E h \in Host : Demote(h) \/ Crash(h) \/ ExpelOrigin(h)
                            \/ HearOrigin(h) \/ Retarget(h)
      BY <3>3 DEF Demote, Crash, ExpelOrigin, HearOrigin, Retarget, OriginStep, gateVars
    <3>4. CASE Exchange
      BY <3>4 DEF Exchange, DeliverMutation, RestoreHead, gateVars
    <3>5. CASE UNCHANGED vars
      BY <3>5 DEF vars
    <3> QED
      BY <2>4, <3>1, <3>2, <3>3, <3>4, <3>5 DEF Next
  <2> QED
    BY <2>1, <2>2, <2>3, <2>4
<1>2. IInv /\ [Next]_vars => [Ordered]_vars
  BY <1>1
<1> QED
  BY <1>2, InboxInvariant, PTL DEF Spec, GateOrder
=============================================================================
