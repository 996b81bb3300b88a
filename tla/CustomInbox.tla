----------------------------- MODULE CustomInbox -----------------------------
(***************************************************************************)
(* Important custom messages: what a secondary's consumer sends to the     *)
(* primary and must not lose.  One origin numbers its messages 1, 2, ...,  *)
(* retains each until it sees its own post come back, and replays it to    *)
(* whoever is the primary.  The primary posts a landing to the replicated  *)
(* inbox, runs the consumer's handler and broadcasts its outcome.  A task  *)
(* terminal is stamped with the number of messages sent before it; the     *)
(* primary parks it until the origin's terminal watermark covers the stamp. *)
(*                                                                         *)
(* Origins do not interact, so one is modelled.  Frames are never removed  *)
(* from `net`: a frame that is not delivered is lost or late, one that is  *)
(* delivered again is a duplicate.  Left out: droppable messages, which    *)
(* carry no number and touch neither the inbox nor the retention, and the  *)
(* commands a handler queues, which ride in the frame of its Handled.      *)
(***************************************************************************)
EXTENDS Naturals

CONSTANTS
    Host,         \* the nodes that may be the primary
    Origin,       \* the secondary that sends
    First,        \* the primary at the start
    MaxMsgs,      \* bound: important messages
    Environment   \* the environments to check

\* A send that finds no route, a crash, a promotion beside a running primary, the
\* demotion of one of the two, and the expulsion of the origin.
Fault == {"noroute", "crash", "usurp", "demote", "expel"}

\* What the environment does: it sends up to msgs messages, ends the task after a number
\* of them in ends, lets the handler raise on those in raise, and strikes faults
\* times with one of kinds.
EnvironmentType ==
    [msgs : 0 .. MaxMsgs, ends : SUBSET Nat, raise : SUBSET Nat,
     faults : Nat, kinds : SUBSET Fault]

ASSUME HostAssumption == Origin \notin Host /\ First \in Host
ASSUME BoundAssumption == MaxMsgs \in Nat
ASSUME EnvironmentAssumption == Environment \subseteq EnvironmentType

Node == Host \cup {Origin}
MsgSeq == 1 .. MaxMsgs

Terminal == {"Handled", "Failed"}
CustomMsgState == Terminal \cup {"Absent", "Unhandled"}

VARIABLES
    inbox,     \* node -> custom_messages, of this origin
    mark,      \* node -> custom_terminal_watermarks, of this origin
    up,        \* the hosts that have not crashed
    acting,    \* the hosts that run the primary role
    target,    \* the host the origin resolves the primary to
    expelled,  \* the hosts that hold the origin removed from the membership
    sent,      \* next_custom_msg_seq - 1
    kept,      \* message -> how the origin retains it
    report,    \* how the origin retains the task terminal
    stamp,     \* msgs_posted_through of the task terminal
    net,       \* every frame sent so far
    parked,    \* the hosts whose gate holds the task terminal
    settled,   \* the hosts that processed the task terminal
    calls,     \* host -> message -> how often its handler was given it
    env        \* the environment, with the faults that are left

nodeVars == <<inbox, mark>>
hostVars == <<up, acting, expelled>>
originVars == <<target, sent, kept, report, stamp>>
gateVars == <<parked, settled>>
vars == <<inbox, mark, up, acting, target, expelled, sent, kept, report,
          stamp, net, parked, settled, calls, env>>

\* RetainedSendState: a first send or a replay either found no route or was
\* queued; what was queued waits for the ack (the task terminal) or for the
\* origin's own post to come back (a message).
Retention == {"None", "NoRoute", "Sent"}

Frame ==
    [kind : {"custom"}, to : Host, seq : MsgSeq]
      \cup [kind : {"terminal"}, to : Host]
      \cup [kind : {"ack"}, seq : MsgSeq \cup {0}]
      \cup [kind : {"Posted", "Handled", "Failed"}, seq : MsgSeq]

TypeOK ==
    /\ inbox \in [Node -> [MsgSeq -> CustomMsgState]]
    /\ mark \in [Node -> 0 .. MaxMsgs]
    /\ up \subseteq Host /\ acting \subseteq Host /\ expelled \subseteq Host
    /\ target \in Host
    /\ sent \in 0 .. MaxMsgs /\ stamp \in 0 .. MaxMsgs
    /\ kept \in [MsgSeq -> Retention]
    /\ report \in Retention \cup {"Unsent"}
    /\ net \subseteq Frame
    /\ parked \subseteq Host /\ settled \subseteq Host
    /\ calls \in [Host -> [MsgSeq -> Nat]]
    /\ env \in EnvironmentType

Init ==
    /\ inbox = [n \in Node |-> [q \in MsgSeq |-> "Absent"]]
    /\ mark = [n \in Node |-> 0]
    /\ up = Host
    /\ acting = {First}
    /\ target = First
    /\ expelled = {}
    /\ sent = 0
    /\ kept = [q \in MsgSeq |-> "None"]
    /\ report = "Unsent"
    /\ stamp = 0
    /\ net = {}
    /\ parked = {}
    /\ settled = {}
    /\ calls = [h \in Host |-> [q \in MsgSeq |-> 0]]
    /\ env \in Environment

Strikes(f) ==
    /\ f \in env.kinds
    /\ env.faults > 0
    /\ env' = [env EXCEPT !.faults = @ - 1]

NoFault == UNCHANGED env

-----------------------------------------------------------------------------
(* The replicated inbox: a pair of the entries and the watermark.          *)

Box(n) == [msgs |-> inbox[n], mark |-> mark[n]]

\* The entry above w is not terminal, or there is none.
StopsAt(x, w) == w = MaxMsgs \/ x.msgs[w + 1] \notin Terminal

\* The first stop at or above the watermark.
WalkFrom(x) ==
    LET stops == {w \in x.mark .. MaxMsgs : StopsAt(x, w)}
    IN  CHOOSE w \in stops : \A v \in stops : w <= v

\* What a watermark covers is dropped.
PruneBelow(msgs, w) == [q \in MsgSeq |-> IF q <= w THEN "Absent" ELSE msgs[q]]

\* Mutation of Compact: the cursor, one past the prefix, is stored.
CompactStoresNext(x) ==
    LET w == WalkFrom(x)
    IN  [msgs |-> PruneBelow(x.msgs, w), mark |-> IF w > x.mark THEN w + 1 ELSE w]

\* Mutation of Compact: a gap from a post that has not arrived does not stop
\* the walk.
CompactOverGaps(x) ==
    LET y == [x EXCEPT !.msgs = [q \in MsgSeq |-> IF @[q] = "Absent" /\ q < MaxMsgs
                                                  THEN "Handled" ELSE @[q]]]
        w == WalkFrom(y)
    IN  [msgs |-> PruneBelow(x.msgs, w), mark |-> w]

\* compact_custom_watermark: the watermark walks over the terminal entries
\* that directly follow it, and drops them.
Compact(x) == [msgs |-> PruneBelow(x.msgs, WalkFrom(x)), mark |-> WalkFrom(x)]

\* Mutation of ApplyPosted: the watermark is not consulted.
ApplyPostedAnew(x, q) ==
    IF x.msgs[q] = "Absent" THEN [x EXCEPT !.msgs[q] = "Unhandled"] ELSE x

\* apply_custom_message_posted.
ApplyPosted(x, q) ==
    IF q > x.mark /\ x.msgs[q] = "Absent"
    THEN [x EXCEPT !.msgs[q] = "Unhandled"] ELSE x

\* apply_custom_message_handled, apply_custom_message_failed: a sticky latch;
\* Handled also wins over Failed.
Latches(x, q, out) ==
    /\ q > x.mark
    /\ x.msgs[q] \in IF out = "Handled" THEN {"Absent", "Unhandled", "Failed"}
                                        ELSE {"Absent", "Unhandled"}

ApplyTerminal(x, q, out) ==
    IF Latches(x, q, out) THEN Compact([x EXCEPT !.msgs[q] = out]) ELSE x

\* The inbox part of restore: the watermarks join, what the joined watermark
\* covers is pruned, then entry by entry a vacant entry is filled and Handled
\* wins over Unhandled; a compaction runs if a Handled entry was taken.
Takes(x, y, q) ==
    \/ x.msgs[q] = "Absent"
    \/ x.msgs[q] = "Unhandled" /\ y.msgs[q] = "Handled"

Merge(x, y) ==
    LET w == IF y.mark > x.mark THEN y.mark ELSE x.mark
    IN  [msgs |-> PruneBelow([q \in MsgSeq |-> IF Takes(x, y, q) THEN y.msgs[q]
                                                               ELSE x.msgs[q]], w),
         mark |-> w]

Restore(x, y) ==
    LET m == Merge(x, y)
    IN  IF \E q \in MsgSeq : m.msgs[q] = "Handled" /\ Takes(x, y, q)
        THEN Compact(m) ELSE m

\* A message n holds as resolved, the label perhaps compacted away.
Resolved(n, q) == q <= mark[n] \/ inbox[n][q] \in Terminal

SetBox(n, x) ==
    /\ inbox' = [inbox EXCEPT ![n] = x.msgs]
    /\ mark' = [mark EXCEPT ![n] = x.mark]

-----------------------------------------------------------------------------
(* The primary: landing, dispatch, and the terminal-ordering gate.         *)

\* A broadcast; its sender has applied it, so hearing it again changes nothing.
Fan(kind, Q) == [kind : {kind}, seq : Q]

Unhandled(x) == {q \in MsgSeq : x.msgs[q] = "Unhandled"}

\* Mutation of Admits: the last message before the terminal is not awaited.
AdmitsEarly(h, x) == h \in expelled' \/ x.mark + 1 >= stamp

\* terminal_gate_admits.
Admits(h, x) == h \in expelled' \/ x.mark >= stamp

\* What the handler makes of the unhandled messages.
Outcomes(x) ==
    {out \in [Unhandled(x) -> Terminal] :
        \A q \in Unhandled(x) \ env.raise : out[q] = "Handled"}

Resolve(x, out) ==
    IF Unhandled(x) = {} THEN x
    ELSE Compact([msgs |-> [q \in MsgSeq |-> IF q \in Unhandled(x) THEN out[q]
                                                                  ELSE x.msgs[q]],
                  mark |-> x.mark])

\* dispatch_unhandled_custom_messages, on an inbox x of host h: every unhandled
\* message is handed to the handler and lands as Handled, or as Failed if it
\* raises; then the parked terminal is released if the gate admits it.
Dispatch(h, x, frames) ==
    \E out \in Outcomes(x) :
        LET U == Unhandled(x)
            ok == {q \in U : out[q] = "Handled"}
            open == h \in parked /\ Admits(h, Resolve(x, out))
        IN  /\ SetBox(h, Resolve(x, out))
            /\ net' = net \cup frames \cup Fan("Handled", ok) \cup Fan("Failed", U \ ok)
            /\ calls' = [calls EXCEPT ![h] = [q \in MsgSeq |-> IF q \in U THEN @[q] + 1 ELSE @[q]]]
            /\ parked' = IF open THEN parked \ {h} ELSE parked
            /\ settled' = IF open THEN settled \cup {h} ELSE settled

\* maybe_readmit_sender: a frame from a removed member is proof of life.
Readmit(h) == expelled' = expelled \ {h}

Lands(m, kind) ==
    /\ m.kind = kind
    /\ m.to \in acting
    /\ Readmit(m.to)
    /\ UNCHANGED <<up, acting, originVars>>
    /\ NoFault

\* handle_custom_message: post, dispatch, and only then acknowledge.
HandleCustomMessage(m) ==
    /\ Lands(m, "custom")
    /\ LET x == Box(m.to)
           new == ApplyPosted(x, m.seq)
           fan == IF new = x THEN {} ELSE Fan("Posted", {m.seq})
       IN  Dispatch(m.to, new, fan \cup {[kind |-> "ack", seq |-> m.seq]})

\* ingest_task_terminal: the ack comes first, then the gate.
IngestTaskTerminal(m) ==
    /\ Lands(m, "terminal")
    /\ net' = net \cup {[kind |-> "ack", seq |-> 0]}
    /\ IF Admits(m.to, Box(m.to))
       THEN settled' = settled \cup {m.to} /\ UNCHANGED parked
       ELSE parked' = parked \cup {m.to} /\ UNCHANGED settled
    /\ UNCHANGED <<nodeVars, calls>>

\* The heartbeat's backstop dispatch.
HeartbeatDispatch(h) ==
    /\ h \in acting
    /\ UNCHANGED <<hostVars, originVars>>
    /\ NoFault
    /\ Dispatch(h, Box(h), {})

\* A host takes the primary role; its pipeline replays what is unhandled.
Promote(h) ==
    /\ h \in up \ acting
    /\ IF acting = {} THEN NoFault ELSE Strikes("usurp")
    /\ acting' = acting \cup {h}
    /\ UNCHANGED <<up, expelled, originVars>>
    /\ Dispatch(h, Box(h), {})

\* A deposed primary drops its pipeline, and the terminals it parked.
Demote(h) ==
    /\ h \in acting
    /\ acting \ {h} # {}
    /\ Strikes("demote")
    /\ acting' = acting \ {h}
    /\ parked' = parked \ {h}
    /\ UNCHANGED <<nodeVars, up, expelled, originVars, net, settled, calls>>

\* A host dies with its replica; what it queued is in `net`, or is not.
Crash(h) ==
    /\ h \in up
    /\ up \ {h} # {}
    /\ Strikes("crash")
    /\ up' = up \ {h}
    /\ acting' = acting \ {h}
    /\ parked' = parked \ {h}
    /\ UNCHANGED <<nodeVars, expelled, originVars, net, settled, calls>>

\* The origin is declared dead, rightly or not.
ExpelOrigin(h) ==
    /\ h \in acting \ expelled
    /\ Strikes("expel")
    /\ expelled' = expelled \cup {h}
    /\ UNCHANGED <<nodeVars, up, acting, originVars, net, gateVars, calls>>

\* Any other frame of the origin, a keepalive say, readmits it too.
HearOrigin(h) ==
    /\ h \in acting \cap expelled
    /\ Readmit(h)
    /\ NoFault
    /\ UNCHANGED <<nodeVars, up, acting, originVars, net, gateVars, calls>>

-----------------------------------------------------------------------------
(* The origin: send_to_primary, the replay drain, and the drop triggers.   *)

OriginStep == UNCHANGED <<nodeVars, hostVars, gateVars, calls>>

\* A send either finds no route or queues the frame, which proves nothing.
Egress(frame, state) ==
    \/ state = "NoRoute" /\ Strikes("noroute") /\ UNCHANGED net
    \/ state = "Sent" /\ NoFault /\ net' = net \cup {frame}

Custom(q) == [kind |-> "custom", to |-> target, seq |-> q]
TaskTerminal == [kind |-> "terminal", to |-> target]

\* send_custom_to_primary.
SendCustom(state) ==
    /\ sent < env.msgs
    /\ sent' = sent + 1
    /\ kept' = [kept EXCEPT ![sent + 1] = state]
    /\ Egress(Custom(sent + 1), state)
    /\ UNCHANGED <<target, report, stamp>>
    /\ OriginStep

\* The task ends; its terminal carries the number of messages sent before it.
SendTerminal(state) ==
    /\ report = "Unsent"
    /\ sent \in env.ends
    /\ report' = state
    /\ stamp' = sent
    /\ Egress(TaskTerminal, state)
    /\ UNCHANGED <<target, sent, kept>>
    /\ OriginStep

\* drain_report_replays: each retained report is due again and again.
ReplayCustom(q, state) ==
    /\ kept[q] # "None"
    /\ kept' = [kept EXCEPT ![q] = state]
    /\ Egress(Custom(q), state)
    /\ UNCHANGED <<target, sent, report, stamp>>
    /\ OriginStep

ReplayTerminal(state) ==
    /\ report \in {"NoRoute", "Sent"}
    /\ report' = state
    /\ Egress(TaskTerminal, state)
    /\ UNCHANGED <<target, sent, kept, stamp>>
    /\ OriginStep

\* ack_delivery: drops the task terminal, and a message whose last send found
\* no route; a message in flight waits for its own post.
AckDelivery(m) ==
    /\ m.kind = "ack"
    /\ IF m.seq = 0
       THEN report' = "None" /\ UNCHANGED kept
       ELSE /\ kept' = [kept EXCEPT ![m.seq] = IF @ = "NoRoute" THEN "None" ELSE @]
            /\ UNCHANGED report
    /\ UNCHANGED <<target, sent, stamp, net>>
    /\ NoFault
    /\ OriginStep

\* The origin learns of another primary.
Retarget(h) ==
    /\ h \in acting \ {target}
    /\ target' = h
    /\ UNCHANGED <<sent, kept, report, stamp, net>>
    /\ NoFault
    /\ OriginStep

-----------------------------------------------------------------------------
(* Replication.                                                            *)

Running == up \cup {Origin}

\* apply_cluster_mutations: the origin's own post coming back drops the
\* retention that waits for it.
DeliverMutation(n, m) ==
    /\ m.kind \in {"Posted", "Handled", "Failed"}
    /\ n \in Running
    /\ LET x == Box(n)
       IN  SetBox(n, IF m.kind = "Posted" THEN ApplyPosted(x, m.seq)
                                          ELSE ApplyTerminal(x, m.seq, m.kind))
    /\ kept' = IF m.kind = "Posted" /\ n = Origin /\ kept[m.seq] = "Sent"
               THEN [kept EXCEPT ![m.seq] = "None"] ELSE kept
    /\ UNCHANGED <<hostVars, target, sent, report, stamp, net, gateVars, calls, env>>

\* The inbox travels in the head of a snapshot stream.
RestoreHead(r, s) ==
    /\ {r, s} \subseteq Running
    /\ SetBox(r, Restore(Box(r), Box(s)))
    /\ UNCHANGED <<hostVars, originVars, net, gateVars, calls, env>>

-----------------------------------------------------------------------------
Sending ==
    \E state \in {"NoRoute", "Sent"} :
        \/ SendCustom(state)
        \/ SendTerminal(state)
        \/ \E q \in MsgSeq : ReplayCustom(q, state)
        \/ ReplayTerminal(state)

Exchange ==
    \/ \E n \in Node, m \in net : DeliverMutation(n, m)
    \/ \E r, s \in Node : RestoreHead(r, s)

Next ==
    \/ Sending
    \/ \E m \in net : HandleCustomMessage(m) \/ IngestTaskTerminal(m) \/ AckDelivery(m)
    \/ \E h \in Host :
          \/ HeartbeatDispatch(h)
          \/ Promote(h)
          \/ Demote(h)
          \/ Crash(h)
          \/ ExpelOrigin(h)
          \/ HearOrigin(h)
          \/ Retarget(h)
    \/ Exchange

Spec == Init /\ [][Next]_vars

-----------------------------------------------------------------------------
(* What the inbox promises.                                                *)

Called(h, q) == calls[h][q] > 0

\* A watermark covers, and a terminal entry stands for, only messages whose
\* handler ran somewhere: compaction, restore and reordered frames never make
\* a message that no consumer saw look resolved, so nothing is skipped.
ResolvedWasHandled ==
    \A n \in Node, q \in MsgSeq : Resolved(n, q) => \E h \in Host : Called(h, q)

\* One host's handler sees a message at most once, whatever is replayed,
\* duplicated, posted late, restored from a stale replica or inherited at a
\* second promotion.
HandlerOncePerHost ==
    \A h \in Host, q \in MsgSeq : calls[h][q] <= 1

\* The terminal-ordering gate: a primary that holds the origin as a member
\* processes the task terminal only after the handlers of all the messages the
\* task sent first have run.
GateOrder ==
    [][\A h \in Host :
          h \in settled' \ settled /\ h \notin expelled' =>
             \A q \in 1 .. stamp : \E g \in Host : Called(g, q)']_vars

\* The gate waits on nothing that can still come: every node that runs holds all the
\* messages before the terminal as resolved and no watermark covers the stamp, so no
\* outcome is applied that would move one, unless the origin sends another message.
Wedged(h) ==
    /\ h \in parked \ expelled
    /\ \A n \in Running : mark[n] < stamp /\ \A q \in 1 .. stamp : Resolved(n, q)

\* The comment on the gate says that it "can never wedge", and the one on restore that
\* it compacts "exactly like the live apply path would": a terminal is not
\* held for good by messages that have all been handled.
NeverWedged == \A h \in Host : ~Wedged(h)
=============================================================================
