------------------------ MODULE RemovalConsensusProofs ------------------------
(***************************************************************************)
(* A responder's word saves a suspect, for any fleet and any faults.       *)
(*                                                                         *)
(* A responder's word for a suspect is given before it is asked to confirm *)
(* and counted when its confirmation is; between the two lie both queues of *)
(* the link.  So the word is carried through them (Link): the rounds a     *)
(* responder hears of come in order, a confirmation of this round cannot be *)
(* older than the word, and what a repeated request no longer names has left *)
(* the set that the primary suspects.                                      *)
(*                                                                         *)
(* Link speaks of one responder, and reading, sending and losing frames keep *)
(* it.  Types has the queues as sequences and the round as a record.  The  *)
(* invariant is both, for every responder; a host that is down has an empty *)
(* queue, which is what lets a round of a dead fleet reuse an id.          *)
(***************************************************************************)
EXTENDS RemovalConsensus, TLAPS

\* ConsensusFsm, its tallies apart.
FsmRecord(still) ==
    [st : {"Idle", "Scheduling", "Resolving", "Confirming"}, id : Nat, set : SUBSET Secondary,
     expected : SUBSET Secondary, still : {still}, retries : 0..1]

\* The rounds reach a responder in order: with q under way to it and s its state, what it
\* has yet to read is no older than what it has read, and a SuspectPeers is newer than
\* whatever precedes it.
RoundsInOrder(q, s, last) ==
    /\ s.id <= last
    /\ \A i \in 1..Len(q) :
          /\ s.id <= q[i].id /\ q[i].id <= last
          /\ q[i].kind = "SuspectPeers" => s.id < q[i].id
    /\ \A i, j \in 1..Len(q) :
          i < j => /\ q[i].id <= q[j].id
                   /\ q[j].kind = "SuspectPeers" => q[i].id < q[j].id

\* The confirmations o under way from a responder are of rounds before the one it probes
\* for, and before those it has yet to hear of.
ConfirmsAreOlder(q, o, s, last) ==
    \A k \in 1..Len(o) :
        o[k].kind = "RestartConfirm" =>
            /\ o[k].id <= last
            /\ s.st = "Probing" => o[k].id < s.id
            /\ \A i \in 1..Len(q) : q[i].kind = "SuspectPeers" => o[k].id < q[i].id

\* Whoever is still to hear of the round f, or probes for it, has not confirmed it.
NotYetConfirmed(r, q, s, f) ==
    /\ \A i \in 1..Len(q) : q[i].kind = "SuspectPeers" /\ q[i].id = f.id => r \notin DOMAIN f.still
    /\ s.st = "Probing" /\ s.id = f.id => r \notin DOMAIN f.still

\* The requests of the round f name fewer and fewer, and never fewer than it suspects.
RequestsShrink(q, f) ==
    /\ \A i \in 1..Len(q) :
          q[i].kind = "RestartRequest" /\ q[i].id = f.id => f.set \subseteq q[i].peers
    /\ \A i, j \in 1..Len(q) :
          /\ i < j
          /\ q[i].kind = "RestartRequest" /\ q[i].id = f.id
          /\ q[j].kind = "RestartRequest" /\ q[j].id = f.id
          => q[j].peers \subseteq q[i].peers

\* The word of r for x: r remembers it, or nobody asks about x any more; and no
\* confirmation of r, under way or counted, takes it back.
WordIsKept(r, x, q, o, s, f) ==
    /\ x # r
    /\ s.st # "Idle" /\ s.id = f.id
    /\ \/ x \in s.resolved
       \/ /\ x \notin f.set
          /\ \A i \in 1..Len(q) : q[i].id = f.id => x \notin q[i].peers
    /\ \A k \in 1..Len(o) : o[k].kind = "RestartConfirm" /\ o[k].id = f.id => x \notin o[k].still
    /\ r \in DOMAIN f.still => x \notin f.still[r]

\* All of it for one responder, while f.st says that a round is in flight.
Link(r, q, o, s, f, last, words) ==
    /\ r \notin s.suspects
    /\ RoundsInOrder(q, s, last)
    /\ ConfirmsAreOlder(q, o, s, last)
    /\ f.st \in {"Resolving", "Confirming"} =>
          /\ f.id = last
          /\ NotYetConfirmed(r, q, s, f)
          /\ RequestsShrink(q, f)
          /\ \A x \in Secondary : <<r, x>> \in words => WordIsKept(r, x, q, o, s, f)

-----------------------------------------------------------------------------
(* Queues.                                                                 *)

\* What a queue holds after a frame is appended.
LEMMA Appended ==
    ASSUME NEW S, NEW q \in Seq(S), NEW e \in S
    PROVE  /\ Append(q, e) \in Seq(S)
           /\ \A i \in 1..Len(Append(q, e)) :
                 \/ i \in 1..Len(q) /\ Append(q, e)[i] = q[i]
                 \/ i = Len(q) + 1 /\ Append(q, e)[i] = e
  <1>1. Len(q) \in Nat /\ Len(Append(q, e)) = Len(q) + 1
    OBVIOUS
  <1>2. \A i \in 1..Len(q) : Append(q, e)[i] = q[i]
    OBVIOUS
  <1>3. Append(q, e)[Len(q) + 1] = e
    OBVIOUS
  <1>4. \A i \in 1..Len(Append(q, e)) : i \in 1..Len(q) \/ i = Len(q) + 1
    BY <1>1
  <1> QED
    BY <1>2, <1>3, <1>4

\* What a queue holds after its first frame is taken.
LEMMA Taken ==
    ASSUME NEW S, NEW q \in Seq(S), q # <<>>
    PROVE  /\ Tail(q) \in Seq(S) /\ Head(q) \in S
           /\ 1 \in 1..Len(q) /\ Head(q) = q[1]
           /\ \A i \in 1..Len(Tail(q)) : i + 1 \in 1..Len(q) /\ Tail(q)[i] = q[i + 1] /\ 1 < i + 1
  <1>1. Len(q) \in Nat /\ Len(q) # 0 /\ Len(Tail(q)) = Len(q) - 1
    OBVIOUS
  <1>2. 1 \in 1..Len(q) /\ Head(q) = q[1] /\ q[1] \in S
    BY <1>1
  <1>3. \A i \in 1..Len(Tail(q)) : i + 1 \in 1..Len(q) /\ Tail(q)[i] = q[i + 1] /\ 1 < i + 1
    BY <1>1
  <1> QED
    BY <1>2, <1>3

-----------------------------------------------------------------------------
(* What keeps a link as it should be.                                      *)

Responder(r, q, o, s, f, last) ==
    /\ r \in Secondary
    /\ q \in Seq(PrimaryFrame) /\ o \in Seq(SecondaryFrame) /\ s \in SecondaryConsensusState
    /\ f \in FsmRecord(f.still) /\ last \in Nat

\* A frame of the primary is lost.
LEMMA FrameLost ==
    ASSUME NEW r, NEW q, NEW o, NEW s, NEW f, NEW last, NEW words,
           Responder(r, q, o, s, f, last), Link(r, q, o, s, f, last, words), q # <<>>
    PROVE  Link(r, Tail(q), o, s, f, last, words)
  <1>1. \A i \in 1..Len(Tail(q)) : i + 1 \in 1..Len(q) /\ Tail(q)[i] = q[i + 1]
    BY Taken DEF Responder
  <1> DEFINE t == Tail(q)
  <1>2. \A i, j \in 1..Len(t) : i < j => i + 1 < j + 1
    OBVIOUS
  <1> HIDE DEF t
  <1>3. \A i \in 1..Len(t) : i + 1 \in 1..Len(q) /\ t[i] = q[i + 1]
    BY <1>1 DEF t
  <1>4. RoundsInOrder(t, s, last)
    BY ZenonT(30), <1>2, <1>3 DEF Link, RoundsInOrder
  <1>5. ConfirmsAreOlder(t, o, s, last)
    BY <1>3 DEF Link, ConfirmsAreOlder
  <1>6. NotYetConfirmed(r, q, s, f) => NotYetConfirmed(r, t, s, f)
    BY <1>3 DEF NotYetConfirmed
  <1>7. ASSUME RequestsShrink(q, f) PROVE RequestsShrink(t, f)
    <2>1. ASSUME NEW i \in 1..Len(t), t[i].kind = "RestartRequest", t[i].id = f.id
          PROVE  f.set \subseteq t[i].peers
      BY <1>3, <1>7, <2>1 DEF RequestsShrink
    <2>2. ASSUME NEW i \in 1..Len(t), NEW j \in 1..Len(t), i < j,
                 t[i].kind = "RestartRequest", t[i].id = f.id,
                 t[j].kind = "RestartRequest", t[j].id = f.id
          PROVE  t[j].peers \subseteq t[i].peers
      <3>1. i + 1 < j + 1
        BY <1>2, <2>2
      <3> QED
        BY <1>3, <1>7, <2>2, <3>1 DEF RequestsShrink
    <2> QED
      BY <2>1, <2>2 DEF RequestsShrink
  <1>8. \A x \in Secondary : WordIsKept(r, x, q, o, s, f) => WordIsKept(r, x, t, o, s, f)
    BY <1>3 DEF WordIsKept
  <1> QED
    BY <1>4, <1>5, <1>6, <1>7, <1>8 DEF Link, t

\* Everything under way to the responder is lost.
LEMMA AllLost ==
    ASSUME NEW r, NEW q, NEW o, NEW s, NEW f, NEW last, NEW words,
           Responder(r, q, o, s, f, last), Link(r, q, o, s, f, last, words)
    PROVE  Link(r, <<>>, o, s, f, last, words)
  <1>1. \A i \in 1..Len(<<>>) : FALSE
    OBVIOUS
  <1> DEFINE t == <<>>
  <1>2. \A i \in 1..Len(t) : FALSE
    BY <1>1
  <1> HIDE DEF t
  <1>3. RoundsInOrder(t, s, last) /\ ConfirmsAreOlder(t, o, s, last)
    BY <1>2 DEF Link, RoundsInOrder, ConfirmsAreOlder
  <1>4. NotYetConfirmed(r, q, s, f) => NotYetConfirmed(r, t, s, f)
    BY <1>2 DEF NotYetConfirmed
  <1>5. RequestsShrink(t, f)
    BY <1>2 DEF RequestsShrink
  <1>6. \A x \in Secondary : WordIsKept(r, x, q, o, s, f) => WordIsKept(r, x, t, o, s, f)
    BY <1>2 DEF WordIsKept
  <1> QED
    BY <1>3, <1>4, <1>5, <1>6 DEF Link, t

\* A frame to the primary is lost, or read.
LEMMA AnswerTaken ==
    ASSUME NEW r, NEW q, NEW o, NEW s, NEW f, NEW last, NEW words,
           Responder(r, q, o, s, f, last), Link(r, q, o, s, f, last, words), o # <<>>
    PROVE  Link(r, q, Tail(o), s, f, last, words)
  <1>1. \A i \in 1..Len(Tail(o)) : i + 1 \in 1..Len(o) /\ Tail(o)[i] = o[i + 1]
    BY Taken DEF Responder
  <1> DEFINE t == Tail(o)
  <1>2. \A i \in 1..Len(t) : i + 1 \in 1..Len(o) /\ t[i] = o[i + 1]
    BY <1>1
  <1> HIDE DEF t
  <1>3. ConfirmsAreOlder(q, t, s, last)
    BY <1>2 DEF Link, ConfirmsAreOlder
  <1>4. \A x \in Secondary : WordIsKept(r, x, q, o, s, f) => WordIsKept(r, x, q, t, s, f)
    BY <1>2 DEF WordIsKept
  <1> QED
    BY <1>3, <1>4 DEF Link, t

\* The round ends, or there is none.
LEMMA RoundOver ==
    ASSUME NEW r, NEW q, NEW o, NEW s, NEW f, NEW last, NEW words, NEW g,
           Link(r, q, o, s, f, last, words), g.st \notin {"Resolving", "Confirming"}
    PROVE  Link(r, q, o, s, g, last, words)
  BY DEF Link

\* The round goes on with fewer suspects and the same tally of r.
LEMMA RoundGoesOn ==
    ASSUME NEW r, NEW q, NEW o, NEW s, NEW f, NEW last, NEW words, NEW g,
           Link(r, q, o, s, f, last, words),
           f.st \in {"Resolving", "Confirming"}, g.id = f.id, g.set \subseteq f.set,
           r \in DOMAIN g.still => r \in DOMAIN f.still /\ g.still[r] = f.still[r]
    PROVE  Link(r, q, o, s, g, last, words)
  <1>1. f.id = last /\ NotYetConfirmed(r, q, s, f) /\ RequestsShrink(q, f)
    BY DEF Link
  <1>2. NotYetConfirmed(r, q, s, g)
    BY <1>1 DEF NotYetConfirmed
  <1>3. RequestsShrink(q, g)
    BY <1>1 DEF RequestsShrink
  <1>4. \A x \in Secondary : WordIsKept(r, x, q, o, s, f) => WordIsKept(r, x, q, o, s, g)
    BY DEF WordIsKept
  <1> QED
    BY <1>1, <1>2, <1>3, <1>4 DEF Link

\* apply_confirm: the tally of r is what its confirmation says.
LEMMA ConfirmCounted ==
    ASSUME NEW r, NEW q, NEW o, NEW s, NEW f, NEW last, NEW words, NEW g,
           Responder(r, q, o, s, f, last), Link(r, q, o, s, f, last, words), o # <<>>,
           f.st \in {"Resolving", "Confirming"},
           Head(o).kind = "RestartConfirm", Head(o).id = f.id,
           g.id = f.id, g.set \subseteq f.set, g.still[r] = Head(o).still
    PROVE  Link(r, q, Tail(o), s, g, last, words)
  <1>1. 1 \in 1..Len(o) /\ Head(o) = o[1]
    BY Taken DEF Responder
  <1>2. Link(r, q, Tail(o), s, f, last, words)
    BY AnswerTaken
  <1>3. f.id = last /\ RequestsShrink(q, f)
    BY DEF Link
  <1>4. NotYetConfirmed(r, q, s, g)
    <2>1. \A i \in 1..Len(q) : q[i].kind = "SuspectPeers" => o[1].id < q[i].id
      BY <1>1 DEF Link, ConfirmsAreOlder
    <2>2. s.st = "Probing" => o[1].id < s.id
      BY <1>1 DEF Link, ConfirmsAreOlder
    <2>3. f.id \in Nat
      BY DEF Responder, FsmRecord
    <2>4. ~(f.id < f.id)
      BY <2>3
    <2> QED
      BY <1>1, <2>1, <2>2, <2>4 DEF NotYetConfirmed
  <1>5. RequestsShrink(q, g)
    BY <1>3 DEF RequestsShrink
  <1>6. ASSUME NEW x \in Secondary, <<r, x>> \in words
        PROVE  WordIsKept(r, x, q, Tail(o), s, g)
    <2>1. WordIsKept(r, x, q, o, s, f) /\ WordIsKept(r, x, q, Tail(o), s, f)
      BY <1>2, <1>6 DEF Link
    <2>2. x \notin Head(o).still
      BY <1>1, <2>1 DEF WordIsKept
    <2> QED
      BY <2>1, <2>2 DEF WordIsKept
  <1> QED
    BY <1>2, <1>3, <1>4, <1>5, <1>6 DEF Link

\* ResolutionDeadline and ConfirmationDeadline: the suspects are put to the responder.
LEMMA RequestSent ==
    ASSUME NEW r, NEW q, NEW o, NEW s, NEW f, NEW last, NEW words, NEW e \in PrimaryFrame,
           Responder(r, q, o, s, f, last), Link(r, q, o, s, f, last, words),
           f.st \in {"Resolving", "Confirming"},
           e.kind = "RestartRequest", e.id = f.id, e.peers = f.set
    PROVE  Link(r, Append(q, e), o, s, f, last, words)
  <1> DEFINE t == Append(q, e)
  <1>1. \A i \in 1..Len(t) : (i \in 1..Len(q) /\ t[i] = q[i]) \/ (i = Len(q) + 1 /\ t[i] = e)
    BY Appended DEF Responder
  <1>2. Len(q) \in Nat
    BY DEF Responder
  <1> HIDE DEF t
  <1>3. \A i, j \in 1..Len(t) : i < j => i \in 1..Len(q) /\ t[i] = q[i]
    BY <1>1, <1>2
  <1>4. f.id = last /\ NotYetConfirmed(r, q, s, f) /\ RequestsShrink(q, f)
    BY DEF Link
  <1>5. last \in Nat /\ s.id \in Nat
    BY DEF Responder, SecondaryConsensusState
  <1>6. RoundsInOrder(t, s, last)
    <2>1. s.id <= last /\ \A i \in 1..Len(q) : q[i].id <= last
      BY DEF Link, RoundsInOrder
    <2>2. ASSUME NEW i \in 1..Len(t)
          PROVE  /\ s.id <= t[i].id /\ t[i].id <= last
                 /\ t[i].kind = "SuspectPeers" => s.id < t[i].id
      BY <1>1, <1>4, <1>5, <2>1 DEF Link, RoundsInOrder
    <2>3. ASSUME NEW i \in 1..Len(t), NEW j \in 1..Len(t), i < j
          PROVE  /\ t[i].id <= t[j].id
                 /\ t[j].kind = "SuspectPeers" => t[i].id < t[j].id
      <3>1. i \in 1..Len(q) /\ t[i] = q[i]
        BY <1>3, <2>3
      <3>2. CASE j \in 1..Len(q) /\ t[j] = q[j]
        BY <2>3, <3>1, <3>2 DEF Link, RoundsInOrder
      <3>3. CASE t[j] = e
        BY <1>4, <2>1, <3>1, <3>3
      <3> QED
        BY <1>1, <3>2, <3>3
    <2> QED
      BY <2>1, <2>2, <2>3 DEF RoundsInOrder
  <1>7. ConfirmsAreOlder(t, o, s, last)
    BY <1>1 DEF Link, ConfirmsAreOlder
  <1>8. NotYetConfirmed(r, t, s, f)
    BY <1>1, <1>4 DEF NotYetConfirmed
  <1>9. RequestsShrink(t, f)
    BY <1>1, <1>3, <1>4 DEF RequestsShrink
  <1>10. ASSUME NEW x \in Secondary, <<r, x>> \in words
         PROVE  WordIsKept(r, x, t, o, s, f)
    BY <1>1, <1>10 DEF Link, WordIsKept
  <1> QED
    BY <1>4, <1>6, <1>7, <1>8, <1>9, <1>10 DEF Link, t

\* Sweep: a round g that the responder is told of, or not; nobody has vouched in it.
LEMMA RoundOpened ==
    ASSUME NEW r, NEW q, NEW o, NEW s, NEW f, NEW last, NEW words, NEW g, NEW t,
           Responder(r, q, o, s, f, last), Link(r, q, o, s, f, last, words),
           DOMAIN g.still = {},
           \/ /\ g.id = last + 1
              /\ \/ t = q
                 \/ \E e \in PrimaryFrame :
                       t = Append(q, e) /\ e.kind = "SuspectPeers" /\ e.id = last + 1
           \/ g.id = last /\ q = <<>> /\ t = q
    PROVE  Link(r, t, o, s, g, g.id, {})
  <1>1. last \in Nat /\ s.id \in Nat /\ Len(q) \in Nat
    BY DEF Responder, SecondaryConsensusState
  <1>2. \A i \in 1..Len(q) : q[i].id \in Nat
    <2>1. \A i \in 1..Len(q) : q[i] \in PrimaryFrame
      BY DEF Responder
    <2> QED
      BY <2>1 DEF PrimaryFrame
  <1>3. \A i \in 1..Len(o) : o[i].id \in Nat
    <2>1. \A i \in 1..Len(o) : o[i] \in SecondaryFrame
      BY DEF Responder
    <2> QED
      BY <2>1 DEF SecondaryFrame
  <1>4. s.id <= last /\ \A i \in 1..Len(q) : q[i].id <= last
    BY DEF Link, RoundsInOrder
  <1>5. \A k \in 1..Len(o) : o[k].kind = "RestartConfirm" => o[k].id <= last
    BY DEF Link, ConfirmsAreOlder
  <1>6. CASE g.id = last /\ q = <<>> /\ t = q
    <2>1. \A i \in 1..Len(t) : FALSE
      BY <1>6
    <2>2. RequestsShrink(t, g)
      BY <2>1 DEF RequestsShrink
    <2> QED
      BY <1>6, <2>2 DEF Link, NotYetConfirmed
  <1>7. CASE g.id = last + 1 /\ t = q
    <2>1. RoundsInOrder(t, s, g.id)
      BY <1>1, <1>2, <1>4, <1>7 DEF Link, RoundsInOrder
    <2>2. ConfirmsAreOlder(t, o, s, g.id)
      BY <1>1, <1>3, <1>5, <1>7 DEF Link, ConfirmsAreOlder
    <2>3. RequestsShrink(t, g)
      <3>1. \A i \in 1..Len(t) : t[i].id # g.id
        BY <1>1, <1>2, <1>4, <1>7
      <3> QED
        BY <3>1 DEF RequestsShrink
    <2> QED
      BY <2>1, <2>2, <2>3 DEF Link, NotYetConfirmed
  <1>8. ASSUME NEW e \in PrimaryFrame, g.id = last + 1, t = Append(q, e),
               e.kind = "SuspectPeers", e.id = last + 1
        PROVE  Link(r, t, o, s, g, g.id, {})
    <2>1. \A i \in 1..Len(t) : (i \in 1..Len(q) /\ t[i] = q[i]) \/ (i = Len(q) + 1 /\ t[i] = e)
      BY <1>8, Appended DEF Responder
    <2>2. \A i, j \in 1..Len(t) : i < j => i \in 1..Len(q) /\ t[i] = q[i]
      BY <1>1, <2>1
    <2>3. RoundsInOrder(t, s, g.id)
      <3>1. ASSUME NEW i \in 1..Len(t)
            PROVE  /\ s.id <= t[i].id /\ t[i].id <= g.id
                   /\ t[i].kind = "SuspectPeers" => s.id < t[i].id
        BY <1>1, <1>2, <1>4, <1>8, <2>1 DEF Link, RoundsInOrder
      <3>2. ASSUME NEW i \in 1..Len(t), NEW j \in 1..Len(t), i < j
            PROVE  /\ t[i].id <= t[j].id
                   /\ t[j].kind = "SuspectPeers" => t[i].id < t[j].id
        <4>1. i \in 1..Len(q) /\ t[i] = q[i]
          BY <2>2, <3>2
        <4>2. CASE j \in 1..Len(q) /\ t[j] = q[j]
          BY <3>2, <4>1, <4>2 DEF Link, RoundsInOrder
        <4>3. CASE t[j] = e
          BY <1>1, <1>2, <1>4, <1>8, <4>1, <4>3
        <4> QED
          BY <2>1, <4>2, <4>3
      <3>3. s.id <= g.id
        BY <1>1, <1>4, <1>8
      <3> QED
        BY <3>1, <3>2, <3>3 DEF RoundsInOrder
    <2>4. ConfirmsAreOlder(t, o, s, g.id)
      BY <1>1, <1>3, <1>5, <1>8, <2>1 DEF Link, ConfirmsAreOlder
    <2>5. RequestsShrink(t, g)
      <3>1. \A i \in 1..Len(t) : t[i].kind = "RestartRequest" => t[i].id # g.id
        BY <1>1, <1>2, <1>4, <1>8, <2>1
      <3> QED
        BY <3>1 DEF RequestsShrink
    <2> QED
      BY <2>3, <2>4, <2>5 DEF Link, NotYetConfirmed
  <1> QED
    BY <1>6, <1>7, <1>8

\* What a responder reads brings it to the round it is about.
LEMMA ReadInOrder ==
    ASSUME NEW q \in Seq(PrimaryFrame), NEW s, NEW last, NEW t,
           RoundsInOrder(q, s, last), q # <<>>, t.id = Head(q).id
    PROVE  RoundsInOrder(Tail(q), t, last)
  <1> DEFINE u == Tail(q)
  <1>1. /\ 1 \in 1..Len(q) /\ Head(q) = q[1]
        /\ \A i \in 1..Len(u) : i + 1 \in 1..Len(q) /\ u[i] = q[i + 1] /\ 1 < i + 1
    BY Taken
  <1>2. \A i, j \in 1..Len(u) : i < j => i + 1 < j + 1
    OBVIOUS
  <1> HIDE DEF u
  <1>3. t.id <= last
    BY <1>1 DEF RoundsInOrder
  <1>4. ASSUME NEW i \in 1..Len(u)
        PROVE  /\ t.id <= u[i].id /\ u[i].id <= last
               /\ u[i].kind = "SuspectPeers" => t.id < u[i].id
    BY <1>1 DEF RoundsInOrder
  <1>5. ASSUME NEW i \in 1..Len(u), NEW j \in 1..Len(u), i < j
        PROVE  /\ u[i].id <= u[j].id
               /\ u[j].kind = "SuspectPeers" => u[i].id < u[j].id
    BY <1>1, <1>2, <1>5 DEF RoundsInOrder
  <1> QED
    BY <1>3, <1>4, <1>5 DEF RoundsInOrder, u

\* apply_suspect_peers: a new round, in which the responder has not vouched for anybody.
LEMMA SuspectPeersRead ==
    ASSUME NEW r, NEW q, NEW o, NEW s, NEW f, NEW last, NEW words, NEW t,
           Responder(r, q, o, s, f, last), Link(r, q, o, s, f, last, words), q # <<>>,
           Head(q).kind = "SuspectPeers",
           t = [st |-> "Probing", id |-> Head(q).id,
                suspects |-> Head(q).peers \ {r}, resolved |-> {}]
    PROVE  Link(r, Tail(q), o, t, f, last, words)
  <1>1. /\ 1 \in 1..Len(q) /\ Head(q) = q[1] /\ Head(q) \in PrimaryFrame
        /\ \A i \in 1..Len(Tail(q)) : i + 1 \in 1..Len(q) /\ Tail(q)[i] = q[i + 1]
    BY Taken DEF Responder
  <1>2. Link(r, Tail(q), o, s, f, last, words)
    BY FrameLost
  <1>3. t.st = "Probing" /\ t.id = Head(q).id /\ r \notin t.suspects
    OBVIOUS
  <1>4. RoundsInOrder(Tail(q), t, last)
    BY <1>3, ReadInOrder DEF Link, Responder
  <1>5. ConfirmsAreOlder(Tail(q), o, t, last)
    <2>1. \A k \in 1..Len(o) : o[k].kind = "RestartConfirm" => o[k].id < q[1].id
      BY <1>1 DEF Link, ConfirmsAreOlder
    <2> QED
      BY <1>1, <1>2, <1>3, <2>1 DEF Link, ConfirmsAreOlder
  <1>6. ASSUME f.st \in {"Resolving", "Confirming"}
        PROVE  NotYetConfirmed(r, Tail(q), t, f)
    <2>1. NotYetConfirmed(r, q, s, f) /\ NotYetConfirmed(r, Tail(q), s, f)
      BY <1>2, <1>6 DEF Link
    <2> QED
      BY <1>1, <1>3, <2>1 DEF NotYetConfirmed
  <1>7. ASSUME f.st \in {"Resolving", "Confirming"}, NEW x \in Secondary, <<r, x>> \in words
        PROVE  FALSE
    <2>1. s.id = f.id /\ f.id = last
      BY <1>7 DEF Link, WordIsKept
    <2>2. s.id < q[1].id /\ q[1].id <= last
      BY <1>1 DEF Link, RoundsInOrder
    <2>3. s.id \in Nat /\ q[1].id \in Nat
      BY <1>1 DEF Responder, SecondaryConsensusState, PrimaryFrame
    <2> QED
      BY <2>1, <2>2, <2>3
  <1> QED
    BY <1>2, <1>3, <1>4, <1>5, <1>6, <1>7 DEF Link

\* apply_restart_request: the responder keeps its word in what it confirms, and forgets it
\* only of those it is not asked about.
LEMMA RestartRequestRead ==
    ASSUME NEW r, NEW q, NEW o, NEW s, NEW f, NEW last, NEW words, NEW t,
           NEW e \in SecondaryFrame, NEW asked, NEW credited,
           Responder(r, q, o, s, f, last), Link(r, q, o, s, f, last, words), q # <<>>,
           Head(q).kind = "RestartRequest",
           asked = Head(q).peers \ {r}, credited = asked \cap s.resolved,
           t = [st |-> "Awaiting", id |-> Head(q).id,
                suspects |-> asked \ credited, resolved |-> credited],
           e = [kind |-> "RestartConfirm", id |-> Head(q).id,
                resolved |-> credited, still |-> asked \ credited]
    PROVE  Link(r, Tail(q), Append(o, e), t, f, last, words)
  <1> DEFINE p == Append(o, e)
  <1> DEFINE u == Tail(q)
  <1>1. /\ 1 \in 1..Len(q) /\ Head(q) = q[1] /\ Head(q) \in PrimaryFrame
        /\ \A i \in 1..Len(u) : i + 1 \in 1..Len(q) /\ u[i] = q[i + 1] /\ 1 < i + 1
    BY Taken DEF Responder
  <1>2. \A k \in 1..Len(p) : (k \in 1..Len(o) /\ p[k] = o[k]) \/ (k = Len(o) + 1 /\ p[k] = e)
    BY Appended DEF Responder
  <1>3. Link(r, u, o, s, f, last, words)
    BY FrameLost
  <1>4. RoundsInOrder(u, t, last)
    BY ReadInOrder DEF Link, Responder
  <1>5. /\ t.st = "Awaiting" /\ t.id = Head(q).id /\ r \notin t.suspects
        /\ t.resolved = credited
        /\ e.kind = "RestartConfirm" /\ e.id = Head(q).id /\ e.still = asked \ credited
    OBVIOUS
  <1> HIDE DEF p, u
  <1>6. q[1].id <= last /\ \A i \in 1..Len(u) : u[i].kind = "SuspectPeers" => q[1].id < u[i].id
    BY <1>1 DEF Link, RoundsInOrder
  <1>7. ConfirmsAreOlder(u, p, t, last)
    BY <1>1, <1>2, <1>3, <1>5, <1>6 DEF Link, ConfirmsAreOlder
  <1>8. NotYetConfirmed(r, u, s, f) => NotYetConfirmed(r, u, t, f)
    BY <1>5 DEF NotYetConfirmed
  <1>9. ASSUME f.st \in {"Resolving", "Confirming"}, NEW x \in Secondary, <<r, x>> \in words
        PROVE  WordIsKept(r, x, u, p, t, f)
    <2>1. /\ f.id = last /\ RequestsShrink(q, f)
          /\ WordIsKept(r, x, q, o, s, f) /\ WordIsKept(r, x, u, o, s, f)
      BY <1>3, <1>9 DEF Link
    <2>2. q[1].id = f.id
      <3>1. s.id = f.id /\ s.id <= q[1].id
        BY <1>1, <2>1 DEF Link, RoundsInOrder, WordIsKept
      <3>2. s.id \in Nat /\ q[1].id \in Nat
        BY <1>1 DEF Responder, SecondaryConsensusState, PrimaryFrame
      <3> QED
        BY <1>6, <2>1, <3>1, <3>2
    <2>3. x \notin e.still
      BY <1>1, <1>5, <2>1, <2>2 DEF WordIsKept
    <2>4. \/ x \in t.resolved
          \/ x \notin f.set /\ \A i \in 1..Len(u) : u[i].id = f.id => x \notin u[i].peers
      <3>1. CASE x \in q[1].peers
        BY <1>1, <1>5, <2>1, <2>2, <3>1 DEF WordIsKept
      <3>2. CASE x \notin q[1].peers
        <4>1. x \notin f.set
          BY <1>1, <2>1, <2>2, <3>2 DEF RequestsShrink
        <4>2. ASSUME NEW i \in 1..Len(u), u[i].id = f.id
              PROVE  x \notin u[i].peers
          <5>1. q[i + 1] \in PrimaryFrame
            BY <1>1 DEF Responder
          <5>2. f.id \in Nat
            BY DEF Responder, FsmRecord
          <5>3. u[i].kind # "SuspectPeers"
            BY <1>6, <2>2, <4>2, <5>2
          <5>4. q[i + 1].kind = "RestartRequest" /\ q[i + 1].id = f.id
            BY <1>1, <4>2, <5>1, <5>3 DEF PrimaryFrame
          <5>5. q[i + 1].peers \subseteq q[1].peers
            BY <1>1, <2>1, <2>2, <5>4 DEF RequestsShrink
          <5> QED
            BY <1>1, <3>2, <5>5
        <4> QED
          BY <4>1, <4>2
      <3> QED
        BY <3>1, <3>2
    <2> QED
      BY <1>1, <1>2, <1>5, <2>1, <2>2, <2>3, <2>4 DEF WordIsKept
  <1> QED
    BY Zenon, <1>3, <1>4, <1>5, <1>7, <1>8, <1>9 DEF Link, p, u

\* apply_probe_ack: the responder gives its word for x, which counts (more) if it probes
\* for the round f.
LEMMA ProbeAckRead ==
    ASSUME NEW r, NEW q, NEW o, NEW s, NEW f, NEW last, NEW words, NEW t, NEW more,
           NEW x \in Secondary, NEW e \in SecondaryFrame,
           Responder(r, q, o, s, f, last), Link(r, q, o, s, f, last, words),
           s.st # "Idle", x \in s.suspects, e.kind = "ResolvedPeer",
           t.st = s.st, t.id = s.id, t.suspects = s.suspects \ {x},
           t.resolved = s.resolved \cup {x},
           \/ more = words
           \/ s.st = "Probing" /\ s.id = f.id /\ more = words \cup {<<r, x>>}
    PROVE  Link(r, q, Append(o, e), t, f, last, more)
  <1> DEFINE p == Append(o, e)
  <1>1. \A k \in 1..Len(p) : (k \in 1..Len(o) /\ p[k] = o[k]) \/ (k = Len(o) + 1 /\ p[k] = e)
    BY Appended DEF Responder
  <1> HIDE DEF p
  <1>2. r \notin t.suspects /\ x # r
    BY DEF Link
  <1>3. RoundsInOrder(q, t, last)
    BY DEF Link, RoundsInOrder
  <1>4. ConfirmsAreOlder(q, p, t, last)
    BY <1>1 DEF Link, ConfirmsAreOlder
  <1>5. NotYetConfirmed(r, q, s, f) => NotYetConfirmed(r, q, t, f)
    BY DEF NotYetConfirmed
  <1>6. \A y \in Secondary : WordIsKept(r, y, q, o, s, f) => WordIsKept(r, y, q, p, t, f)
    BY <1>1 DEF WordIsKept
  <1>7. ASSUME f.st \in {"Resolving", "Confirming"}, s.st = "Probing", s.id = f.id
        PROVE  WordIsKept(r, x, q, p, t, f)
    <2>1. r \notin DOMAIN f.still
      BY <1>7 DEF Link, NotYetConfirmed
    <2>2. \A k \in 1..Len(o) : o[k].kind = "RestartConfirm" => o[k].id < f.id
      BY <1>7 DEF Link, ConfirmsAreOlder
    <2>3. f.id \in Nat /\ ~(f.id < f.id)
      BY DEF Responder, FsmRecord
    <2> QED
      BY <1>1, <1>2, <1>7, <2>1, <2>2, <2>3 DEF WordIsKept
  <1>8. ASSUME f.st \in {"Resolving", "Confirming"}, NEW y \in Secondary, <<r, y>> \in more
        PROVE  WordIsKept(r, y, q, p, t, f)
    <2>1. CASE <<r, y>> \in words
      BY <1>6, <1>8, <2>1 DEF Link
    <2>2. CASE <<r, y>> \notin words
      <3>1. s.st = "Probing" /\ s.id = f.id /\ <<r, y>> = <<r, x>>
        BY <1>8, <2>2
      <3> QED
        BY <1>7, <1>8, <3>1
    <2> QED
      BY <2>1, <2>2
  <1> QED
    BY <1>2, <1>3, <1>4, <1>5, <1>8 DEF Link, p

\* poll, once the round the responder waits for is over.
LEMMA WaitedInVain ==
    ASSUME NEW r, NEW q, NEW o, NEW s, NEW f, NEW last, NEW words,
           Responder(r, q, o, s, f, last), Link(r, q, o, s, f, last, words), s.id # f.id
    PROVE  Link(r, q, o, NotAsked, f, last, words)
  <1>1. /\ NotAsked.st = "Idle" /\ NotAsked.id = 0 /\ r \notin NotAsked.suspects
        /\ last \in Nat /\ s.id \in Nat
    BY DEF NotAsked, Responder, SecondaryConsensusState
  <1>2. \A i \in 1..Len(q) : q[i].id \in Nat
    <2>1. \A i \in 1..Len(q) : q[i] \in PrimaryFrame
      BY DEF Responder
    <2> QED
      BY <2>1 DEF PrimaryFrame
  <1>3. RoundsInOrder(q, NotAsked, last)
    BY <1>1, <1>2 DEF Link, RoundsInOrder
  <1>4. ConfirmsAreOlder(q, o, NotAsked, last)
    BY <1>1 DEF Link, ConfirmsAreOlder
  <1>5. NotYetConfirmed(r, q, s, f) => NotYetConfirmed(r, q, NotAsked, f)
    BY <1>1 DEF NotYetConfirmed
  <1>6. \A x \in Secondary : ~WordIsKept(r, x, q, o, s, f)
    BY DEF WordIsKept
  <1> QED
    BY <1>1, <1>3, <1>4, <1>5, <1>6 DEF Link
Types ==
    /\ env \in EnvironmentType
    /\ host \in [Secondary -> {"up", "paused", "down"}]
    /\ roster \in SUBSET Secondary /\ silent \in SUBSET Secondary
    /\ declared \in SUBSET Secondary
    /\ fsm \in FsmRecord(fsm.still)
    /\ DOMAIN fsm.still \subseteq fsm.expected
    /\ \A r \in DOMAIN fsm.still : fsm.still[r] \in SUBSET Secondary
    /\ ids \in 0..env.rounds
    /\ sec \in [Secondary -> SecondaryConsensusState]
    /\ toSec \in [Secondary -> Seq(PrimaryFrame)]
    /\ toPri \in [Secondary -> Seq(SecondaryFrame)]
    /\ acks \in SUBSET Ack
    /\ vouched \in SUBSET (Secondary \X Secondary)
    /\ faults \in Budget

-----------------------------------------------------------------------------
(* The primary's half of a frame.                                          *)

\* The round after dispatch_message has applied the next frame of r, before it is driven.
After(r) ==
    IF Head(toPri[r]).kind = "ResolvedPeer" THEN ApplyResolved(Cleared(r), Head(toPri[r]))
                                            ELSE ApplyConfirm(Cleared(r), r, Head(toPri[r]))

\* The state machine after a frame of a secondary has its type, and its tallies are of
\* those expected.
LEMMA AfterFrame ==
    ASSUME Types, NEW r \in Secondary, toPri[r] # <<>>
    PROVE  /\ After(r) \in FsmRecord(After(r).still)
           /\ DOMAIN After(r).still \subseteq After(r).expected
           /\ \A p \in DOMAIN After(r).still : After(r).still[p] \in SUBSET Secondary
           /\ After(r).st \in {"Resolving", "Confirming"} =>
                 /\ InFlight
                 /\ After(r).id = fsm.id /\ After(r).st = fsm.st
                 /\ After(r).expected = fsm.expected /\ After(r).set \subseteq fsm.set
                 /\ \A p \in Secondary \ {r} :
                       p \in DOMAIN After(r).still =>
                          p \in DOMAIN fsm.still /\ After(r).still[p] = fsm.still[p]
                 /\ \/ After(r).still = fsm.still
                    \/ /\ Head(toPri[r]).kind = "RestartConfirm" /\ Head(toPri[r]).id = fsm.id
                       /\ After(r).still[r] = Head(toPri[r]).still
  <1> DEFINE frame == Head(toPri[r])
  <1>1. frame \in SecondaryFrame
    BY Taken DEF Types
  <1>2. /\ fsm.st \in {"Idle", "Scheduling", "Resolving", "Confirming"} /\ fsm.id \in Nat
        /\ fsm.set \in SUBSET Secondary /\ fsm.expected \in SUBSET Secondary
        /\ fsm.retries \in 0..1
    BY DEF Types, FsmRecord
  <1>3. NoRound \in FsmRecord(NoRound.still) /\ DOMAIN NoRound.still = {} /\ NoRound.st = "Idle"
    BY DEF NoRound, FsmRecord
  <1>4. /\ Cleared(r) \in FsmRecord(Cleared(r).still)
        /\ DOMAIN Cleared(r).still \subseteq Cleared(r).expected
        /\ \A p \in DOMAIN Cleared(r).still : Cleared(r).still[p] \in SUBSET Secondary
        /\ Cleared(r).st \in {"Resolving", "Confirming"} => Cleared(r) = fsm /\ InFlight
    <2>1. CASE fsm.st # "Scheduling"
      BY <2>1, <1>2 DEF Cleared, Types, InFlight
    <2>2. CASE fsm.st = "Scheduling" /\ fsm.set \subseteq {r}
      BY <2>2, <1>3 DEF Cleared
    <2>3. CASE fsm.st = "Scheduling" /\ ~(fsm.set \subseteq {r})
      <3>1. Cleared(r) = [fsm EXCEPT !.set = fsm.set \ {r}]
        BY <2>3 DEF Cleared
      <3> QED
        BY ZenonT(30), <2>3, <3>1, <1>2 DEF Types, FsmRecord
    <2> QED
      BY <2>1, <2>2, <2>3
  <1>5. CASE After(r) = Cleared(r)
    BY <1>2, <1>4, <1>5 DEF InFlight
  <1>6. CASE /\ Cleared(r).st \in {"Resolving", "Confirming"}
             /\ After(r) = [fsm EXCEPT !.set = fsm.set \ frame.resolved]
    <2>1. /\ After(r).st = fsm.st /\ After(r).id = fsm.id /\ After(r).retries = fsm.retries
          /\ After(r).set = fsm.set \ frame.resolved /\ After(r).expected = fsm.expected
          /\ After(r).still = fsm.still /\ After(r) \in FsmRecord(fsm.still)
      BY ZenonT(30), <1>2, <1>6 DEF Types, FsmRecord
    <2> QED
      BY <1>2, <1>4, <1>6, <2>1 DEF Types
  <1>7. CASE /\ Cleared(r).st = "Confirming" /\ fsm.id = frame.id /\ r \in fsm.expected
             /\ frame.kind = "RestartConfirm"
             /\ After(r) = [fsm EXCEPT !.set = fsm.set \ frame.resolved,
                                       !.still = [q \in DOMAIN fsm.still \cup {r} |->
                                                    IF q = r THEN frame.still ELSE fsm.still[q]]]
    <2>1. frame.still \in SUBSET Secondary
      BY <1>1 DEF SecondaryFrame
    <2> DEFINE tally == [q \in DOMAIN fsm.still \cup {r} |->
                            IF q = r THEN frame.still ELSE fsm.still[q]]
    <2>2. /\ DOMAIN tally = DOMAIN fsm.still \cup {r}
          /\ tally[r] = frame.still
          /\ \A p \in DOMAIN fsm.still : p # r => tally[p] = fsm.still[p]
      OBVIOUS
    <2> HIDE DEF tally
    <2>3. After(r) = [st |-> fsm.st, id |-> fsm.id, set |-> fsm.set \ frame.resolved,
                      expected |-> fsm.expected, still |-> tally, retries |-> fsm.retries]
      BY ZenonT(30), <1>7 DEF Types, FsmRecord, tally
    <2>4. /\ After(r).st = fsm.st /\ After(r).id = fsm.id /\ After(r).retries = fsm.retries
          /\ After(r).set = fsm.set \ frame.resolved /\ After(r).expected = fsm.expected
          /\ After(r).still = tally /\ After(r) \in FsmRecord(tally)
      BY <1>2, <2>3 DEF FsmRecord
    <2> QED
      BY ZenonT(30), <1>2, <1>4, <1>7, <2>1, <2>2, <2>4 DEF Types
  <1> QED
    <2>1. CASE frame.kind = "ResolvedPeer"
      BY Zenon, <1>4, <1>5, <1>6, <2>1 DEF After, ApplyResolved
    <2>2. CASE frame.kind # "ResolvedPeer"
      <3>1. frame.kind = "RestartConfirm"
        BY <1>1, <2>2 DEF SecondaryFrame
      <3> QED
        BY Zenon, <1>4, <1>5, <1>7, <2>2, <3>1 DEF After, ApplyConfirm
    <2> QED
      BY <2>1, <2>2

\* drive_consensus_fsm leaves that round as it is, or ends it.
LEMMA FrameHandled ==
    ASSUME Types, NEW r \in Secondary, HandleFrame(r)
    PROVE  /\ fsm' = After(r) \/ fsm' = NoRound
           /\ roster' \in SUBSET Secondary /\ silent' \in SUBSET Secondary
           /\ declared' \in SUBSET Secondary
           /\ declared' \subseteq declared \/ /\ After(r).st = "Confirming"
                                              /\ After(r).expected \subseteq DOMAIN After(r).still
                                              /\ declared' \subseteq declared \cup Targets(After(r))
  <1>1. Drive(After(r), roster \cup {r}, silent \ {r})
    BY DEF HandleFrame, After
  <1>2. After(r).set \in SUBSET Secondary
    BY AfterFrame DEF HandleFrame, FsmRecord
  <1>3. Targets(After(r)) \in SUBSET Secondary
    BY <1>2 DEF Targets
  <1>4. roster \in SUBSET Secondary /\ silent \in SUBSET Secondary /\ declared \in SUBSET Secondary
    BY DEF Types
  <1> QED
    BY <1>1, <1>3, <1>4 DEF Drive

-----------------------------------------------------------------------------
(* Types.                                                                  *)

\* Without a round the state machine is idle and has no tally.
LEMMA NoRoundType ==
    /\ NoRound.st = "Idle" /\ NoRound \in FsmRecord(NoRound.still)
    /\ DOMAIN NoRound.still = {} /\ NoRound.still = <<>>
  BY DEF NoRound, FsmRecord

\* A broadcast keeps the queues' type.
LEMMA BroadcastType ==
    ASSUME toSec \in [Secondary -> Seq(PrimaryFrame)], NEW e \in PrimaryFrame, Broadcast(e)
    PROVE  toSec' \in [Secondary -> Seq(PrimaryFrame)]
  BY Appended DEF Broadcast

\* The types hold at the start.
LEMMA TypesInit == Init => Types
  <1> SUFFICES ASSUME Init PROVE Types
    OBVIOUS
  <1>1. env \in EnvironmentType
    BY EnvironmentAssumption DEF Init
  <1>2. ids \in 0..env.rounds /\ faults \in Budget /\ roster \in SUBSET Secondary
    BY <1>1 DEF Init, EnvironmentType, Budget
  <1>3. sec \in [Secondary -> SecondaryConsensusState]
    BY DEF Init, NotAsked, SecondaryConsensusState
  <1>4. toSec \in [Secondary -> Seq(PrimaryFrame)] /\ toPri \in [Secondary -> Seq(SecondaryFrame)]
    BY DEF Init
  <1>5. host \in [Secondary -> {"up", "paused", "down"}]
    BY DEF Init
  <1> QED
    BY <1>1, <1>2, <1>3, <1>4, <1>5, NoRoundType DEF Init, Types

\* The primary's own steps keep the types.
LEMMA TypesPrimary == Types /\ PrimaryStep => Types'
  <1> SUFFICES ASSUME Types, PrimaryStep PROVE Types'
    OBVIOUS
  <1>0. 0 \in 0..1 /\ 1 \in 0..1 /\ 0 \in Nat
    OBVIOUS
  <1>1. /\ fsm.st \in {"Idle", "Scheduling", "Resolving", "Confirming"} /\ fsm.id \in Nat
        /\ fsm.set \in SUBSET Secondary /\ fsm.expected \in SUBSET Secondary
        /\ fsm.retries \in 0..1 /\ env.rounds \in Nat
    BY DEF Types, FsmRecord, EnvironmentType
  <1>2. \A quiet : Passes(quiet) => faults' \in Budget
    <2> SUFFICES ASSUME NEW quiet, Passes(quiet), faults' # faults PROVE faults' \in Budget
      BY DEF Types
    <2>1. faults.early > 0 /\ faults' = [faults EXCEPT !.early = @ - 1]
      BY DEF Passes
    <2>2. faults \in [lost : Nat, early : Nat, lapses : Nat]
      BY DEF Types, Budget
    <2>3. faults.early - 1 \in Nat
      BY <2>1, <2>2
    <2> QED
      BY <2>1, <2>2, <2>3 DEF Budget
  <1>3. [kind |-> "RestartRequest", id |-> fsm.id, peers |-> fsm.set] \in PrimaryFrame
    BY <1>1 DEF PrimaryFrame
  <1>4. CASE Sweep
    <2> DEFINE suspects == silent \cap roster
    <2>1. ids' \in 0..env.rounds /\ ids' \in Nat
      BY <1>1, <1>4 DEF Sweep, Types
    <2>2. suspects \in SUBSET Secondary /\ roster \ suspects \in SUBSET Secondary
      BY DEF Types
    <2>3. fsm' = [st |-> "Resolving", id |-> ids', set |-> suspects,
                  expected |-> roster \ suspects, still |-> <<>>, retries |-> 0]
      BY Zenon, <1>4 DEF Sweep, NoRound
    <2> HIDE DEF suspects
    <2>4. fsm' \in FsmRecord(<<>>) /\ fsm'.still = <<>>
      BY <1>0, <2>1, <2>2, <2>3 DEF FsmRecord
    <2>5. [kind |-> "SuspectPeers", id |-> ids', peers |-> suspects] \in PrimaryFrame
      BY <2>1, <2>2 DEF PrimaryFrame
    <2>6. toSec' \in [Secondary -> Seq(PrimaryFrame)]
      <3>1. Broadcast([kind |-> "SuspectPeers", id |-> ids', peers |-> suspects])
        BY <1>4 DEF Sweep, suspects
      <3> QED
        BY <2>5, <3>1, BroadcastType DEF Types
    <2> QED
      BY <1>4, <2>1, <2>4, <2>6 DEF Sweep, Types
  <1>5. CASE LazySuspect
    <2>1. PICK holders \in SUBSET (silent \cap roster) \ {{}} :
             fsm' = [st |-> "Scheduling", id |-> 0, set |-> holders,
                     expected |-> {}, still |-> <<>>, retries |-> 0]
      BY Zenon, <1>5 DEF LazySuspect, NoRound
    <2>2. holders \in SUBSET Secondary
      BY DEF Types
    <2>3. fsm' \in FsmRecord(<<>>) /\ fsm'.still = <<>>
      BY <1>0, <2>1, <2>2 DEF FsmRecord
    <2> QED
      BY <1>5, <2>3 DEF LazySuspect, wire, Types
  <1>6. CASE ResolutionDeadline
    <2>1. CASE SideGate
      <3>1. fsm' = [st |-> "Confirming", id |-> fsm.id, set |-> fsm.set,
                    expected |-> fsm.expected, still |-> fsm.still, retries |-> 1]
        BY ZenonT(30), <1>6, <2>1 DEF ResolutionDeadline, Types, FsmRecord
      <3>2. /\ fsm' \in FsmRecord(fsm.still) /\ fsm'.still = fsm.still
            /\ fsm'.expected = fsm.expected
        BY <1>0, <1>1, <3>1 DEF FsmRecord
      <3>3. toSec' \in [Secondary -> Seq(PrimaryFrame)]
        BY <1>3, <1>6, <2>1, BroadcastType DEF ResolutionDeadline, Types
      <3> QED
        BY <1>2, <1>6, <3>2, <3>3 DEF ResolutionDeadline, Types
    <2>2. CASE ~SideGate
      BY <1>2, <1>6, <2>2, NoRoundType DEF ResolutionDeadline, Types
    <2> QED
      BY <2>1, <2>2
  <1>7. CASE ConfirmationDeadline
    <2>1. CASE fsm.retries > 0
      <3>1. fsm' = [fsm EXCEPT !.retries = fsm.retries - 1]
        BY <1>7, <2>1 DEF ConfirmationDeadline
      <3>2. fsm.retries - 1 \in 0..1
        BY <1>1, <2>1
      <3>3. /\ fsm' \in FsmRecord(fsm.still) /\ fsm'.still = fsm.still
            /\ fsm'.expected = fsm.expected
        BY Zenon, <1>1, <3>1, <3>2 DEF FsmRecord, Types
      <3>4. toSec' \in [Secondary -> Seq(PrimaryFrame)]
        BY <1>3, <1>7, <2>1, BroadcastType DEF ConfirmationDeadline, Types
      <3> QED
        BY <1>2, <1>7, <3>3, <3>4 DEF ConfirmationDeadline, Types
    <2>2. CASE ~(fsm.retries > 0)
      BY <1>2, <1>7, <2>2, NoRoundType DEF ConfirmationDeadline, Types
    <2> QED
      BY <2>1, <2>2
  <1> QED
    BY <1>4, <1>5, <1>6, <1>7 DEF PrimaryStep

\* What is under way to a host that goes down is gone.
LEMMA UnreachableType ==
    ASSUME Types, NEW r \in Secondary, Unreachable(r), host' = [host EXCEPT ![r] = "down"]
    PROVE  /\ toSec' \in [Secondary -> Seq(PrimaryFrame)] /\ acks' \in SUBSET Ack
           /\ host' \in [Secondary -> {"up", "paused", "down"}]
  <1>1. <<>> \in Seq(PrimaryFrame)
    OBVIOUS
  <1> QED
    BY <1>1 DEF Types, Unreachable

\* A secondary's steps, and the frames it sends, keep the types.
LEMMA TypesSecondary ==
    ASSUME Types, NEW r \in Secondary, SecondaryStep(r)
    PROVE  Types'
  <1>1. CASE HandleFrame(r)
    <2>1. /\ fsm' \in FsmRecord(fsm'.still) /\ DOMAIN fsm'.still \subseteq fsm'.expected
          /\ \A p \in DOMAIN fsm'.still : fsm'.still[p] \in SUBSET Secondary
      BY Zenon, <1>1, AfterFrame, FrameHandled, NoRoundType DEF HandleFrame
    <2>2. toPri' \in [Secondary -> Seq(SecondaryFrame)]
      BY <1>1, Taken DEF HandleFrame, Types
    <2>3. roster' \in SUBSET Secondary /\ silent' \in SUBSET Secondary /\ declared' \in SUBSET Secondary
      BY <1>1, FrameHandled
    <2> QED
      BY <1>1, <2>1, <2>2, <2>3 DEF HandleFrame, Types
  <1>2. CASE HandleKeepalive(r)
    <2>1. fsm' = Cleared(r)
      BY <1>2 DEF HandleKeepalive
    <2>2. /\ fsm' \in FsmRecord(fsm'.still) /\ DOMAIN fsm'.still \subseteq fsm'.expected
          /\ \A p \in DOMAIN fsm'.still : fsm'.still[p] \in SUBSET Secondary
      <3>1. CASE fsm' = fsm
        BY <3>1 DEF Types
      <3>2. CASE fsm' = NoRound
        BY <3>2, NoRoundType
      <3>3. CASE fsm' = [fsm EXCEPT !.set = fsm.set \ {r}]
        <4>1. /\ fsm' \in FsmRecord(fsm.still) /\ fsm'.still = fsm.still
              /\ fsm'.expected = fsm.expected
          BY Zenon, <3>3 DEF Types, FsmRecord
        <4> QED
          BY <4>1 DEF Types
      <3> QED
        BY <2>1, <3>1, <3>2, <3>3 DEF Cleared
    <2> QED
      BY <1>2, <2>2 DEF HandleKeepalive, wire, Types
  <1>3. CASE HandleFatalError(r)
    BY Zenon, <1>3, UnreachableType DEF HandleFatalError, Types
  <1>4. CASE HandlePrimaryFrame(r)
    <2> DEFINE frame == Head(toSec[r])
    <2>1. frame \in PrimaryFrame /\ toSec' \in [Secondary -> Seq(PrimaryFrame)]
      BY <1>4, Taken DEF HandlePrimaryFrame, Types
    <2> HIDE DEF frame
    <2>2. /\ frame.id \in Nat /\ frame.peers \in SUBSET Secondary
          /\ sec[r].resolved \in SUBSET Secondary
      BY <2>1 DEF PrimaryFrame, Types, SecondaryConsensusState
    <2>3. CASE ApplySuspectPeers(r, frame)
      <3>1. [st |-> "Probing", id |-> frame.id, suspects |-> frame.peers \ {r}, resolved |-> {}]
               \in SecondaryConsensusState
        BY <2>2 DEF SecondaryConsensusState
      <3>2. sec' \in [Secondary -> SecondaryConsensusState] /\ UNCHANGED toPri
        BY <2>3, <3>1 DEF ApplySuspectPeers, Types
      <3> QED
        BY <1>4, <2>1, <3>2 DEF HandlePrimaryFrame, primaryVars, Types
    <2>4. CASE ApplyRestartRequest(r, frame)
      <3> DEFINE asked == frame.peers \ {r}
                 credited == asked \cap sec[r].resolved
                 t == [st |-> "Awaiting", id |-> frame.id,
                       suspects |-> asked \ credited, resolved |-> credited]
                 e == [kind |-> "RestartConfirm", id |-> frame.id,
                       resolved |-> credited, still |-> asked \ credited]
      <3>1. t \in SecondaryConsensusState /\ e \in SecondaryFrame
        BY <2>2 DEF SecondaryConsensusState, SecondaryFrame
      <3>2. sec' = [sec EXCEPT ![r] = t] /\ toPri' = [toPri EXCEPT ![r] = Append(toPri[r], e)]
        BY <2>4 DEF ApplyRestartRequest
      <3> HIDE DEF t, e
      <3>3. sec' \in [Secondary -> SecondaryConsensusState]
        BY <3>1, <3>2 DEF Types
      <3>4. toPri' \in [Secondary -> Seq(SecondaryFrame)]
        BY <3>1, <3>2, Appended DEF Types
      <3> QED
        BY <1>4, <2>1, <3>3, <3>4 DEF HandlePrimaryFrame, primaryVars, Types
    <2> QED
      BY <1>4, <2>3, <2>4 DEF HandlePrimaryFrame, frame
  <1>5. ASSUME NEW x \in Secondary \ {r}, Probe(r, x) PROVE Types'
    <2> DEFINE ack == [from |-> x, to |-> r, id |-> sec[r].id]
    <2>1. sec[r].id \in Nat
      BY DEF Types, SecondaryConsensusState
    <2>2. ack \in Ack
      BY <2>1 DEF Ack
    <2>3. acks' = acks \cup {ack}
      BY <1>5 DEF Probe
    <2>4. acks' \in SUBSET Ack
      BY <2>2, <2>3 DEF Types
    <2> QED
      BY <1>5, <2>4 DEF Probe, primaryVars, Types
  <1>6. CASE AwaitingRoundEndTimeout(r)
    <2>1. NotAsked \in SecondaryConsensusState
      BY DEF NotAsked, SecondaryConsensusState
    <2>2. sec' \in [Secondary -> SecondaryConsensusState]
      BY <1>6, <2>1 DEF AwaitingRoundEndTimeout, Types
    <2> QED
      BY <1>6, <2>2 DEF AwaitingRoundEndTimeout, primaryVars, wire, Types
  <1> QED
    BY <1>1, <1>2, <1>3, <1>4, <1>5, <1>6 DEF SecondaryStep

\* The answer to a probe keeps the types.
LEMMA TypesProbeAck ==
    ASSUME Types, NEW a \in acks, HandleProbeAck(a)
    PROVE  Types'
  <1> DEFINE r == a.to
             s == sec[r]
             t == [s EXCEPT !.suspects = @ \ {a.from}, !.resolved = @ \cup {a.from}]
             e == [kind |-> "ResolvedPeer", id |-> a.id, resolved |-> {a.from}, still |-> {}]
             counts == s.st # "Idle" /\ s.id = a.id /\ a.from \in s.suspects
  <1>1. r \in Secondary /\ a.from \in Secondary /\ a.id \in Nat
    BY DEF Types, Ack
  <1>2. acks' \in SUBSET Ack
    BY DEF HandleProbeAck, Types
  <1>3. CASE counts
    <2>1. e \in SecondaryFrame
      BY <1>1 DEF SecondaryFrame
    <2>2. s \in SecondaryConsensusState
      BY <1>1 DEF Types
    <2>3. t \in SecondaryConsensusState
      BY Zenon, <1>1, <2>2 DEF SecondaryConsensusState
    <2>4. sec' = [sec EXCEPT ![r] = t]
      BY Zenon, <1>1, <1>3, <2>2 DEF HandleProbeAck, SecondaryConsensusState, Types
    <2>5. toPri' = [toPri EXCEPT ![r] = Append(toPri[r], e)]
      BY <1>3 DEF HandleProbeAck
    <2>6. vouched' \in SUBSET (Secondary \X Secondary)
      BY <1>1, <1>3 DEF HandleProbeAck, Types
    <2> HIDE DEF r, s, t, e
    <2>7. sec' \in [Secondary -> SecondaryConsensusState]
      BY <1>1, <2>3, <2>4 DEF Types
    <2>8. toPri' \in [Secondary -> Seq(SecondaryFrame)]
      BY <1>1, <2>1, <2>5, Appended DEF Types
    <2> QED
      BY <1>2, <2>6, <2>7, <2>8 DEF HandleProbeAck, primaryVars, Types
  <1>4. CASE ~counts
    BY <1>2, <1>4 DEF HandleProbeAck, primaryVars, Types
  <1> QED
    BY <1>3, <1>4

\* Faults keep the types.
LEMMA TypesFault ==
    ASSUME Types, NEW r \in Secondary, FaultStep(r)
    PROVE  Types'
  <1>1. faults \in [lost : Nat, early : Nat, lapses : Nat]
    BY DEF Types, Budget
  <1>2. faults.lapses > 0 => [faults EXCEPT !.lapses = @ - 1] \in Budget
    <2> SUFFICES ASSUME faults.lapses > 0 PROVE [faults EXCEPT !.lapses = @ - 1] \in Budget
      OBVIOUS
    <2>1. faults.lapses - 1 \in Nat
      BY <1>1
    <2> QED
      BY <1>1, <2>1 DEF Budget
  <1>3. faults.lost > 0 => [faults EXCEPT !.lost = @ - 1] \in Budget
    <2> SUFFICES ASSUME faults.lost > 0 PROVE [faults EXCEPT !.lost = @ - 1] \in Budget
      OBVIOUS
    <2>1. faults.lost - 1 \in Nat
      BY <1>1
    <2> QED
      BY <1>1, <2>1 DEF Budget
  <1>4. CASE Crash(r)
    BY Zenon, <1>4, UnreachableType DEF Crash, primaryVars, Types
  <1>5. CASE Pause(r)
    BY <1>2, <1>5 DEF Pause, primaryVars, wire, Types
  <1>6. CASE Wake(r)
    BY <1>6 DEF Wake, primaryVars, wire, Types
  <1>7. CASE GoSilent(r)
    BY Zenon, <1>2, <1>7 DEF GoSilent, wire, Types
  <1>8. CASE Lose(r)
    <2>1. faults' \in Budget
      BY <1>3, <1>8 DEF Lose
    <2>2. /\ toSec' \in [Secondary -> Seq(PrimaryFrame)]
          /\ toPri' \in [Secondary -> Seq(SecondaryFrame)]
          /\ UNCHANGED acks
      <3>1. CASE toSec[r] # <<>> /\ toSec' = [toSec EXCEPT ![r] = Tail(@)] /\ UNCHANGED <<toPri, acks>>
        BY Zenon, <3>1, Taken DEF Types
      <3>2. CASE toPri[r] # <<>> /\ toPri' = [toPri EXCEPT ![r] = Tail(@)] /\ UNCHANGED <<toSec, acks>>
        BY <3>2, Taken DEF Types
      <3> QED
        BY <1>8, <3>1, <3>2 DEF Lose
    <2> QED
      BY <1>8, <2>1, <2>2 DEF Lose, primaryVars, Types
  <1> QED
    BY <1>4, <1>5, <1>6, <1>7, <1>8 DEF FaultStep
Linked ==
    \A r \in Secondary :
        /\ host[r] = "down" => toSec[r] = <<>>
        /\ Link(r, toSec[r], toPri[r], sec[r], fsm, ids, vouched)

Inv == Types /\ Linked

-----------------------------------------------------------------------------
(* Every step keeps the links.                                             *)

\* The link lemmas, which are about values, apply to every secondary.
LEMMA Responders ==
    ASSUME Types, NEW r \in Secondary
    PROVE  Responder(r, toSec[r], toPri[r], sec[r], fsm, ids)
  <1>1. env.rounds \in Nat
    BY DEF Types, EnvironmentType
  <1> QED
    BY <1>1 DEF Types, Responder

\* At the start nothing is under way.
LEMMA LinkedInit == Init => Linked
  <1> SUFFICES ASSUME Init, NEW r \in Secondary
               PROVE  /\ host[r] = "down" => toSec[r] = <<>>
                      /\ Link(r, toSec[r], toPri[r], sec[r], fsm, ids, vouched)
    BY DEF Linked
  <1>1. toSec[r] = <<>> /\ toPri[r] = <<>> /\ sec[r] = NotAsked /\ ids = 0 /\ fsm = NoRound
    BY DEF Init
  <1>2. NotAsked.st = "Idle" /\ NotAsked.id = 0 /\ r \notin NotAsked.suspects
    BY DEF NotAsked
  <1>3. \A i \in 1..Len(<<>>) : FALSE
    OBVIOUS
  <1>4. RoundsInOrder(<<>>, NotAsked, 0) /\ ConfirmsAreOlder(<<>>, <<>>, NotAsked, 0)
    BY <1>2, <1>3 DEF RoundsInOrder, ConfirmsAreOlder
  <1> QED
    BY Zenon, <1>1, <1>2, <1>4, NoRoundType DEF Link

\* A request is broadcast and the round goes on, or it ends.
LEMMA LinkedDeadline ==
    ASSUME Types, Linked, InFlight, UNCHANGED <<host, toPri, sec, ids, vouched>>,
           \/ /\ fsm'.id = fsm.id /\ fsm'.set = fsm.set /\ fsm'.still = fsm.still
              /\ Broadcast([kind |-> "RestartRequest", id |-> fsm.id, peers |-> fsm.set])
           \/ fsm' = NoRound /\ UNCHANGED toSec
    PROVE  Linked'
  <1> DEFINE e == [kind |-> "RestartRequest", id |-> fsm.id, peers |-> fsm.set]
  <1>1. e \in PrimaryFrame /\ e.kind = "RestartRequest" /\ e.id = fsm.id /\ e.peers = fsm.set
    BY DEF Types, FsmRecord, PrimaryFrame
  <1> HIDE DEF e
  <1> SUFFICES ASSUME NEW r \in Secondary
               PROVE  /\ host'[r] = "down" => toSec'[r] = <<>>
                      /\ Link(r, toSec'[r], toPri'[r], sec'[r], fsm', ids', vouched')
    BY DEF Linked
  <1>2. /\ Responder(r, toSec[r], toPri[r], sec[r], fsm, ids)
        /\ Link(r, toSec[r], toPri[r], sec[r], fsm, ids, vouched)
        /\ host[r] = "down" => toSec[r] = <<>>
    BY Responders DEF Linked
  <1>3. CASE fsm' = NoRound /\ UNCHANGED toSec
    BY <1>2, <1>3, RoundOver, NoRoundType
  <1>4. CASE /\ fsm'.id = fsm.id /\ fsm'.set = fsm.set /\ fsm'.still = fsm.still
             /\ Broadcast(e)
    <2>1. /\ host'[r] = "down" => toSec'[r] = <<>>
          /\ toSec'[r] = toSec[r] \/ toSec'[r] = Append(toSec[r], e)
      BY Zenon, <1>2, <1>4 DEF Broadcast
    <2>2. Link(r, toSec'[r], toPri[r], sec[r], fsm, ids, vouched)
      BY Zenon, <1>1, <1>2, <2>1, RequestSent DEF InFlight
    <2> QED
      BY Zenon, <1>4, <2>1, <2>2, RoundGoesOn DEF InFlight
  <1> QED
    BY <1>3, <1>4 DEF e

\* The primary's own steps keep every link.
LEMMA LinkedPrimary ==
    ASSUME Types, Linked, PrimaryStep
    PROVE  Linked'
  <1>1. CASE Sweep
    <2> SUFFICES ASSUME NEW r \in Secondary
                 PROVE  /\ host'[r] = "down" => toSec'[r] = <<>>
                        /\ Link(r, toSec'[r], toPri'[r], sec'[r], fsm', ids', vouched')
      BY DEF Linked
    <2> DEFINE e == [kind |-> "SuspectPeers", id |-> ids', peers |-> silent \cap roster]
    <2>1. /\ Responder(r, toSec[r], toPri[r], sec[r], fsm, ids)
          /\ Link(r, toSec[r], toPri[r], sec[r], fsm, ids, vouched)
          /\ host[r] = "down" => toSec[r] = <<>>
      BY Responders DEF Linked
    <2>2. ids \in Nat /\ silent \cap roster \in SUBSET Secondary
      BY <2>1 DEF Responder, Types
    <2>3. fsm'.id = ids' /\ DOMAIN fsm'.still = {}
      BY <1>1 DEF Sweep, NoRound
    <2>4. \/ ids' = ids + 1
          \/ ids' = ids /\ AllDown
      BY <1>1 DEF Sweep
    <2>5. e \in PrimaryFrame /\ e.kind = "SuspectPeers" /\ e.id = ids'
      BY <2>2, <2>4 DEF PrimaryFrame
    <2>6. Broadcast(e) /\ UNCHANGED <<host, toPri, sec>> /\ vouched' = {}
      BY <1>1 DEF Sweep
    <2> HIDE DEF e
    <2>7. /\ host[r] = "down" => toSec'[r] = toSec[r]
          /\ toSec'[r] = toSec[r] \/ toSec'[r] = Append(toSec[r], e)
      BY <2>6 DEF Broadcast
    <2>8. Link(r, toSec'[r], toPri[r], sec[r], fsm', fsm'.id, {})
      <3>1. CASE ids' = ids + 1
        BY Zenon, <2>1, <2>3, <2>5, <2>7, <3>1, RoundOpened
      <3>2. CASE ids' = ids /\ AllDown
        BY Zenon, <2>1, <2>3, <2>7, <3>2, RoundOpened DEF AllDown
      <3> QED
        BY <2>4, <3>1, <3>2
    <2> QED
      BY Zenon, <2>1, <2>3, <2>6, <2>7, <2>8
  <1>2. CASE LazySuspect
    <2>1. fsm'.st = "Scheduling"
      BY <1>2 DEF LazySuspect, NoRound
    <2>2. UNCHANGED <<host, toSec, toPri, sec, ids, vouched>>
      BY <1>2 DEF LazySuspect, wire
    <2> QED
      BY <2>1, <2>2, RoundOver DEF Linked
  <1>3. CASE ResolutionDeadline
    <2>1. InFlight /\ UNCHANGED <<host, toPri, sec, ids, vouched>>
      BY <1>3 DEF ResolutionDeadline, InFlight
    <2>2. CASE SideGate
      <3>1. /\ fsm' = [fsm EXCEPT !.st = "Confirming", !.retries = 1]
            /\ Broadcast([kind |-> "RestartRequest", id |-> fsm.id, peers |-> fsm.set])
        BY <1>3, <2>2 DEF ResolutionDeadline
      <3>2. fsm'.id = fsm.id /\ fsm'.set = fsm.set /\ fsm'.still = fsm.still
        BY <3>1 DEF Types, FsmRecord
      <3> QED
        BY <2>1, <3>1, <3>2, LinkedDeadline
    <2>3. CASE ~SideGate
      BY <1>3, <2>1, <2>3, LinkedDeadline DEF ResolutionDeadline
    <2> QED
      BY <2>2, <2>3
  <1>4. CASE ConfirmationDeadline
    <2>1. InFlight /\ UNCHANGED <<host, toPri, sec, ids, vouched>>
      BY <1>4 DEF ConfirmationDeadline, InFlight
    <2>2. CASE fsm.retries > 0
      <3>1. /\ fsm' = [fsm EXCEPT !.retries = @ - 1]
            /\ Broadcast([kind |-> "RestartRequest", id |-> fsm.id, peers |-> fsm.set])
        BY <1>4, <2>2 DEF ConfirmationDeadline
      <3>2. fsm'.id = fsm.id /\ fsm'.set = fsm.set /\ fsm'.still = fsm.still
        BY <3>1 DEF Types, FsmRecord
      <3> QED
        BY <2>1, <3>1, <3>2, LinkedDeadline
    <2>3. CASE ~(fsm.retries > 0)
      BY <1>4, <2>1, <2>3, LinkedDeadline DEF ConfirmationDeadline
    <2> QED
      BY <2>2, <2>3
  <1> QED
    BY <1>1, <1>2, <1>3, <1>4 DEF PrimaryStep

\* A secondary's steps keep its link and touch no other.
LEMMA LinkedSecondary ==
    ASSUME Types, Linked, NEW r \in Secondary, SecondaryStep(r)
    PROVE  Linked'
  <1> SUFFICES ASSUME NEW p \in Secondary
               PROVE  /\ host'[p] = "down" => toSec'[p] = <<>>
                      /\ Link(p, toSec'[p], toPri'[p], sec'[p], fsm', ids', vouched')
    BY Zenon DEF Linked
  <1>1. /\ Responder(p, toSec[p], toPri[p], sec[p], fsm, ids)
        /\ Link(p, toSec[p], toPri[p], sec[p], fsm, ids, vouched)
        /\ host[p] = "down" => toSec[p] = <<>>
    BY Responders DEF Linked
  <1>2. CASE HandleFrame(r)
    <2>1. /\ UNCHANGED <<host, toSec, sec, ids, vouched>> /\ toPri[r] # <<>>
          /\ toPri'[r] = Tail(toPri[r])
          /\ p # r => toPri'[p] = toPri[p]
      BY <1>2 DEF HandleFrame, Types
    <2>2. Link(p, toSec[p], toPri'[p], sec[p], fsm, ids, vouched)
      BY <1>1, <2>1, AnswerTaken
    <2>3. CASE fsm'.st \notin {"Resolving", "Confirming"}
      BY Zenon, <1>1, <2>1, <2>2, <2>3, RoundOver
    <2>4. CASE fsm'.st \in {"Resolving", "Confirming"}
      <3>1. fsm' = After(r)
        BY <1>2, <2>4, FrameHandled, NoRoundType
      <3>2. /\ fsm.st \in {"Resolving", "Confirming"}
            /\ fsm'.id = fsm.id /\ fsm'.set \subseteq fsm.set
            /\ p # r => (p \in DOMAIN fsm'.still =>
                           p \in DOMAIN fsm.still /\ fsm'.still[p] = fsm.still[p])
            /\ \/ fsm'.still = fsm.still
               \/ /\ Head(toPri[r]).kind = "RestartConfirm" /\ Head(toPri[r]).id = fsm.id
                  /\ fsm'.still[r] = Head(toPri[r]).still
        BY <2>1, <2>4, <3>1, AfterFrame DEF InFlight
      <3>3. CASE p # r \/ fsm'.still = fsm.still
        BY Zenon, <1>1, <2>1, <2>2, <3>2, <3>3, RoundGoesOn
      <3>4. CASE p = r /\ fsm'.still # fsm.still
        <4>1. Link(r, toSec[r], Tail(toPri[r]), sec[r], fsm', ids, vouched)
          BY Zenon, <1>1, <2>1, <3>2, <3>4, ConfirmCounted
        <4> QED
          BY Zenon, <1>1, <2>1, <3>4, <4>1
      <3> QED
        BY <3>3, <3>4
    <2> QED
      BY <2>3, <2>4
  <1>3. CASE HandleKeepalive(r)
    <2>1. UNCHANGED <<host, toSec, toPri, sec, ids, vouched>> /\ fsm' = Cleared(r)
      BY <1>3 DEF HandleKeepalive, wire
    <2>2. fsm' = fsm \/ fsm'.st \notin {"Resolving", "Confirming"}
      <3>1. CASE fsm' = [fsm EXCEPT !.set = @ \ {r}] /\ fsm.st = "Scheduling"
        <4>1. fsm'.st = "Scheduling"
          BY <3>1 DEF Types, FsmRecord
        <4> QED
          BY <4>1
      <3> QED
        BY <2>1, <3>1, NoRoundType DEF Cleared
    <2> QED
      BY <1>1, <2>1, <2>2, RoundOver
  <1>4. CASE HandleFatalError(r)
    <2>1. /\ UNCHANGED <<toPri, sec, fsm, ids, vouched>> /\ toSec'[r] = <<>>
          /\ p # r => toSec'[p] = toSec[p] /\ host'[p] = host[p]
      BY <1>4 DEF HandleFatalError, Unreachable, Types
    <2> QED
      BY <1>1, <2>1, AllLost
  <1>5. CASE HandlePrimaryFrame(r)
    <2>1. /\ UNCHANGED <<host, fsm, ids, vouched>>
          /\ host[r] = "up" /\ toSec[r] # <<>>
          /\ toSec'[r] = Tail(toSec[r])
          /\ p # r => toSec'[p] = toSec[p]
      BY <1>5 DEF HandlePrimaryFrame, primaryVars, Types
    <2>2. Head(toSec[r]) \in PrimaryFrame
      BY <2>1, Taken DEF Types
    <2>3. CASE Head(toSec[r]).kind = "SuspectPeers"
      <3>1. ApplySuspectPeers(r, Head(toSec[r]))
        BY <1>5, <2>3 DEF HandlePrimaryFrame
      <3>2. /\ UNCHANGED toPri
            /\ p # r => sec'[p] = sec[p]
            /\ \/ sec'[r] = sec[r]
               \/ sec'[r] = [st |-> "Probing", id |-> Head(toSec[r]).id,
                             suspects |-> Head(toSec[r]).peers \ {r}, resolved |-> {}]
        BY <3>1 DEF ApplySuspectPeers, Types
      <3>3. CASE p # r
        BY Zenon, <1>1, <2>1, <3>2, <3>3
      <3>4. CASE p = r /\ sec'[r] = sec[r]
        BY Zenon, <1>1, <2>1, <3>2, <3>4, FrameLost
      <3>5. CASE p = r /\ sec'[r] # sec[r]
        BY Zenon, <1>1, <2>1, <2>3, <3>2, <3>5, SuspectPeersRead
      <3> QED
        BY Zenon, <3>3, <3>4, <3>5
    <2>4. CASE Head(toSec[r]).kind = "RestartRequest"
      <3> DEFINE asked == Head(toSec[r]).peers \ {r}
                 credited == asked \cap sec[r].resolved
                 t == [st |-> "Awaiting", id |-> Head(toSec[r]).id,
                       suspects |-> asked \ credited, resolved |-> credited]
                 e == [kind |-> "RestartConfirm", id |-> Head(toSec[r]).id,
                       resolved |-> credited, still |-> asked \ credited]
      <3>1. ApplyRestartRequest(r, Head(toSec[r]))
        BY <1>5, <2>4 DEF HandlePrimaryFrame
      <3>2. sec' = [sec EXCEPT ![r] = t] /\ toPri' = [toPri EXCEPT ![r] = Append(toPri[r], e)]
        BY <3>1 DEF ApplyRestartRequest
      <3>3. e \in SecondaryFrame
        BY <2>2 DEF PrimaryFrame, SecondaryFrame
      <3>4. CASE p # r
        BY Zenon, <1>1, <2>1, <3>2, <3>4 DEF Types
      <3>5. CASE p = r
        <4>1. sec'[r] = t /\ toPri'[r] = Append(toPri[r], e)
          BY <3>2 DEF Types
        <4>2. Link(r, Tail(toSec[r]), Append(toPri[r], e), t, fsm, ids, vouched)
          BY Zenon, <1>1, <2>1, <2>4, <3>3, <3>5, RestartRequestRead
        <4> QED
          BY Zenon, <2>1, <3>5, <4>1, <4>2
      <3> QED
        BY <3>4, <3>5
    <2> QED
      BY <2>2, <2>3, <2>4 DEF PrimaryFrame
  <1>6. ASSUME NEW x \in Secondary \ {r}, Probe(r, x)
        PROVE  /\ host'[p] = "down" => toSec'[p] = <<>>
               /\ Link(p, toSec'[p], toPri'[p], sec'[p], fsm', ids', vouched')
    BY Zenon, <1>1, <1>6 DEF Probe, primaryVars
  <1>7. CASE AwaitingRoundEndTimeout(r)
    <2>1. /\ UNCHANGED <<host, toSec, toPri, fsm, ids, vouched>> /\ sec[r].id # fsm.id
          /\ sec'[r] = NotAsked
          /\ p # r => sec'[p] = sec[p]
      BY Zenon, <1>7 DEF AwaitingRoundEndTimeout, primaryVars, wire, Types
    <2> QED
      BY Zenon, <1>1, <2>1, WaitedInVain
  <1> QED
    BY Zenon, <1>2, <1>3, <1>4, <1>5, <1>6, <1>7 DEF SecondaryStep

\* The answer to a probe is a word, and the link remembers it.
LEMMA LinkedProbeAck ==
    ASSUME Types, Linked, NEW a \in acks, HandleProbeAck(a)
    PROVE  Linked'
  <1> DEFINE r == a.to
             s == sec[r]
             e == [kind |-> "ResolvedPeer", id |-> a.id, resolved |-> {a.from}, still |-> {}]
             counts == s.st # "Idle" /\ s.id = a.id /\ a.from \in s.suspects
  <1> SUFFICES ASSUME NEW p \in Secondary
               PROVE  /\ host'[p] = "down" => toSec'[p] = <<>>
                      /\ Link(p, toSec'[p], toPri'[p], sec'[p], fsm', ids', vouched')
    BY DEF Linked
  <1>1. /\ Responder(p, toSec[p], toPri[p], sec[p], fsm, ids)
        /\ Link(p, toSec[p], toPri[p], sec[p], fsm, ids, vouched)
        /\ host[p] = "down" => toSec[p] = <<>>
    BY Responders DEF Linked
  <1>2. r \in Secondary /\ a.from \in Secondary /\ a.id \in Nat
    BY DEF Types, Ack
  <1>3. UNCHANGED <<host, toSec, fsm, ids>>
    BY DEF HandleProbeAck, primaryVars
  <1>4. CASE ~counts
    BY <1>1, <1>3, <1>4 DEF HandleProbeAck
  <1>5. CASE counts
    <2>1. e \in SecondaryFrame /\ e.kind = "ResolvedPeer"
      BY Zenon, <1>2 DEF SecondaryFrame
    <2>2. /\ sec' = [sec EXCEPT ![r].suspects = @ \ {a.from}, ![r].resolved = @ \cup {a.from}]
          /\ toPri' = [toPri EXCEPT ![r] = Append(@, e)]
          /\ \/ vouched' = vouched
             \/ /\ s.st = "Probing" /\ s.id = fsm.id
                /\ vouched' = vouched \cup {<<r, a.from>>}
      BY <1>5 DEF HandleProbeAck
    <2>3. CASE p # r
      <3>1. sec'[p] = sec[p] /\ toPri'[p] = toPri[p]
        BY <1>2, <2>2, <2>3 DEF Types
      <3>2. \A x \in Secondary : <<p, x>> \in vouched' => <<p, x>> \in vouched
        BY <2>2, <2>3
      <3> HIDE DEF r, s, e, counts
      <3> QED
        BY Zenon, <1>1, <1>3, <3>1, <3>2 DEF Link
    <2>4. CASE p = r
      <3>1. s \in SecondaryConsensusState
        BY <1>2 DEF Types
      <3>2. /\ sec'[r].st = s.st /\ sec'[r].id = s.id
            /\ sec'[r].suspects = s.suspects \ {a.from}
            /\ sec'[r].resolved = s.resolved \cup {a.from}
        BY <1>2, <2>2, <3>1 DEF SecondaryConsensusState, Types
      <3>3. toPri'[r] = Append(toPri[r], e)
        BY <1>2, <2>2 DEF Types
      <3>4. s.st # "Idle" /\ a.from \in s.suspects
        BY <1>5
      <3>5. /\ Responder(r, toSec[r], toPri[r], s, fsm, ids)
            /\ Link(r, toSec[r], toPri[r], s, fsm, ids, vouched)
        BY Zenon, <1>1, <2>4
      <3> HIDE DEF r, s, e, counts
      <3>6. Link(r, toSec[r], Append(toPri[r], e), sec'[r], fsm, ids, vouched')
        BY Zenon, <1>2, <2>1, <2>2, <3>2, <3>4, <3>5, ProbeAckRead
      <3> QED
        BY <1>1, <1>3, <2>4, <3>3, <3>6
    <2> QED
      BY <2>3, <2>4
  <1> QED
    BY Zenon, <1>4, <1>5

\* A lost frame or a crash keeps the links.
LEMMA LinkedFault ==
    ASSUME Types, Linked, NEW r \in Secondary, FaultStep(r)
    PROVE  Linked'
  <1> SUFFICES ASSUME NEW p \in Secondary
               PROVE  /\ host'[p] = "down" => toSec'[p] = <<>>
                      /\ Link(p, toSec'[p], toPri'[p], sec'[p], fsm', ids', vouched')
    BY Zenon DEF Linked
  <1>1. /\ Responder(p, toSec[p], toPri[p], sec[p], fsm, ids)
        /\ Link(p, toSec[p], toPri[p], sec[p], fsm, ids, vouched)
        /\ host[p] = "down" => toSec[p] = <<>>
    BY Responders DEF Linked
  <1>2. UNCHANGED <<sec, fsm, ids, vouched>>
    BY DEF FaultStep, Crash, Pause, Wake, GoSilent, Lose, primaryVars
  <1>3. CASE Crash(r)
    <2>1. /\ UNCHANGED toPri /\ toSec'[r] = <<>>
          /\ p # r => toSec'[p] = toSec[p] /\ host'[p] = host[p]
      BY <1>3 DEF Crash, Unreachable, Types
    <2> QED
      BY <1>1, <1>2, <2>1, AllLost
  <1>4. CASE Pause(r) \/ Wake(r) \/ GoSilent(r)
    <2>1. UNCHANGED <<toSec, toPri>> /\ (host'[p] = "down" => host[p] = "down")
      BY <1>4 DEF Pause, Wake, GoSilent, wire, Types
    <2> QED
      BY <1>1, <1>2, <2>1
  <1>5. CASE Lose(r)
    <2>1. UNCHANGED host
      BY <1>5 DEF Lose
    <2>2. \/ /\ UNCHANGED toPri /\ toSec[r] # <<>> /\ toSec'[r] = Tail(toSec[r])
             /\ p # r => toSec'[p] = toSec[p]
          \/ /\ UNCHANGED toSec /\ toPri[r] # <<>> /\ toPri'[r] = Tail(toPri[r])
             /\ p # r => toPri'[p] = toPri[p]
      BY <1>5 DEF Lose, Types
    <2>3. CASE p # r
      BY Zenon, <1>1, <1>2, <2>1, <2>2, <2>3
    <2>4. CASE p = r
      BY Zenon, <1>1, <1>2, <2>1, <2>2, <2>4, FrameLost, AnswerTaken
    <2> QED
      BY <2>3, <2>4
  <1> QED
    BY <1>3, <1>4, <1>5 DEF FaultStep

-----------------------------------------------------------------------------
\* Every step keeps the types and the links.
LEMMA InvStep == Inv /\ [Next]_vars => Inv'
  <1>1. ASSUME Inv, Next PROVE Inv'
    <2>1. CASE PrimaryStep
      BY <1>1, <2>1, TypesPrimary, LinkedPrimary DEF Inv
    <2>2. ASSUME NEW r \in Secondary, SecondaryStep(r) PROVE Inv'
      BY <1>1, <2>2, TypesSecondary, LinkedSecondary DEF Inv
    <2>3. ASSUME NEW r \in Secondary, FaultStep(r) PROVE Inv'
      BY <1>1, <2>3, TypesFault, LinkedFault DEF Inv
    <2>4. ASSUME NEW a \in acks, HandleProbeAck(a) PROVE Inv'
      BY <1>1, <2>4, TypesProbeAck, LinkedProbeAck DEF Inv
    <2> QED
      BY <1>1, <2>1, <2>2, <2>3, <2>4 DEF Next
  <1>2. ASSUME Inv, UNCHANGED vars PROVE Inv'
    BY <1>2 DEF Inv, Types, Linked, vars, primaryVars, wire
  <1> QED
    BY <1>1, <1>2

\* Only a driven confirmation declares a death, and only of those that every responder
\* still suspects in its tally.
LEMMA DeclaredByAll ==
    ASSUME Types, Next, NEW x \in Secondary, Declares(x)
    PROVE  \E q \in Secondary :
              /\ toPri[q] # <<>> /\ After(q).st = "Confirming"
              /\ \A r \in After(q).expected :
                    r \in DOMAIN After(q).still /\ x \in After(q).still[r]
  <1>1. x \in declared' /\ x \notin declared
    BY DEF Declares
  <1>2. ~PrimaryStep
    BY Zenon, <1>1 DEF PrimaryStep, Sweep, LazySuspect, ResolutionDeadline, ConfirmationDeadline
  <1>3. \A r \in Secondary : ~FaultStep(r)
    BY <1>1 DEF FaultStep, Crash, Pause, Wake, GoSilent, Lose, primaryVars
  <1>4. \A a \in acks : ~HandleProbeAck(a)
    BY <1>1 DEF HandleProbeAck, primaryVars
  <1>5. PICK q \in Secondary : SecondaryStep(q)
    BY <1>2, <1>3, <1>4 DEF Next
  <1>6. HandleFrame(q)
    BY Zenon, <1>1, <1>5 DEF SecondaryStep, HandleKeepalive, HandleFatalError, HandlePrimaryFrame,
                     Probe, AwaitingRoundEndTimeout, primaryVars
  <1>7. /\ After(q).st = "Confirming" /\ After(q).expected \subseteq DOMAIN After(q).still
        /\ x \in Targets(After(q))
    BY <1>1, <1>6, FrameHandled
  <1> QED
    BY Zenon, <1>6, <1>7 DEF HandleFrame, Targets

\* A step that declares x dead has the confirmation of every expected responder, so
\* none of them vouched for x.
LEMMA WordCounts ==
    ASSUME Inv, Next, NEW r \in Secondary, NEW x \in Secondary, Declares(x), r \in fsm.expected
    PROVE  <<r, x>> \notin vouched
  <1>1. PICK q \in Secondary :
              /\ toPri[q] # <<>> /\ After(q).st = "Confirming"
              /\ \A p \in After(q).expected :
                    p \in DOMAIN After(q).still /\ x \in After(q).still[p]
    BY DeclaredByAll DEF Inv
  <1>2. /\ InFlight /\ After(q).expected = fsm.expected
        /\ \A p \in Secondary \ {q} :
              p \in DOMAIN After(q).still =>
                 p \in DOMAIN fsm.still /\ After(q).still[p] = fsm.still[p]
        /\ \/ After(q).still = fsm.still
           \/ /\ Head(toPri[q]).kind = "RestartConfirm" /\ Head(toPri[q]).id = fsm.id
              /\ After(q).still[q] = Head(toPri[q]).still
    BY <1>1, AfterFrame DEF Inv
  <1>3. r \in DOMAIN After(q).still /\ x \in After(q).still[r]
    BY <1>1, <1>2
  <1> SUFFICES ASSUME <<r, x>> \in vouched PROVE FALSE
    OBVIOUS
  <1>4. WordIsKept(r, x, toSec[r], toPri[r], sec[r], fsm)
    BY Zenon, <1>2 DEF Inv, Linked, Link, InFlight
  <1>5. CASE r # q \/ After(q).still = fsm.still
    BY <1>2, <1>3, <1>4, <1>5 DEF WordIsKept
  <1>6. CASE r = q /\ After(q).still # fsm.still
    <2>1. 1 \in 1..Len(toPri[q]) /\ Head(toPri[q]) = toPri[q][1]
      BY <1>1, Taken DEF Inv, Types
    <2> QED
      BY <1>2, <1>3, <1>4, <1>6, <2>1 DEF WordIsKept
  <1> QED
    BY <1>5, <1>6

\* ConsensusFsm, SecondaryConsensusFsm and the frames between them keep their types, for
\* any fleet and any faults.
THEOREM TypeCorrect == Spec => []TypeOK
  <1>1. Init => Inv
    BY TypesInit, LinkedInit DEF Inv
  <1>2. Inv => TypeOK
    <2> SUFFICES ASSUME Inv PROVE TypeOK
      OBVIOUS
    <2>1. ConsensusState(fsm)
      BY DEF Inv, Types, FsmRecord, ConsensusState, Range
    <2>2. \A r \in Secondary : /\ Range(toSec[r]) \subseteq PrimaryFrame
                               /\ Range(toPri[r]) \subseteq SecondaryFrame
      BY DEF Inv, Types, Range
    <2> QED
      BY <2>1, <2>2 DEF Inv, Types, TypeOK
  <1> QED
    BY <1>1, <1>2, InvStep, PTL DEF Spec

\* A suspect for which a responder of the round had an answer before it was asked to
\* confirm is not declared dead by commit_consensus_restart, whatever is lost, late,
\* paused or down, in any fleet.
THEOREM VouchedForIsSparedHolds == Spec => VouchedForIsSpared
  <1>1. Init => Inv
    BY TypesInit, LinkedInit DEF Inv
  <1>2. Inv /\ [Next]_vars =>
           [\A r, x \in Secondary :
               Declares(x) /\ r \in fsm.expected => <<r, x>> \notin vouched]_vars
    BY WordCounts
  <1> QED
    BY <1>1, <1>2, InvStep, PTL DEF Spec, VouchedForIsSpared
=============================================================================
