------------------------- MODULE MCRemovalConsensus -------------------------
(* Small instances of RemovalConsensus for TLC.                            *)
EXTENDS RemovalConsensus

\* Five secondaries are the fewest that can ever remove one of themselves.
Quiet == [fleet |-> 1..5, crash |-> {}, pause |-> {}, fatal |-> {}, cut |-> {}, apart |-> {},
          lost |-> 0, early |-> 0, lapses |-> 0, rounds |-> 1]

\* A death with a round spoilt by a lost frame and an early deadline; a death while another
\* is cut off; one cut off or paused that only one other reaches; one that reports its own
\* end in the middle of a round; and a fleet that is too small for the side gate.
MCEnvironment ==
    {[Quiet EXCEPT !.crash = {1}, !.lost = 1, !.early = 1, !.rounds = 2],
     [Quiet EXCEPT !.crash = {1}, !.cut = {2}, !.apart = {4, 5}, !.lapses = 1, !.rounds = 2],
     [Quiet EXCEPT !.cut = {1}, !.apart = {3, 4, 5}, !.lapses = 1, !.lost = 1],
     [Quiet EXCEPT !.pause = {1}, !.cut = {1}, !.apart = {3, 4, 5}, !.lapses = 1],
     [Quiet EXCEPT !.crash = {1}, !.fatal = {1, 2}],
     [Quiet EXCEPT !.fleet = 1..3, !.crash = {1}, !.rounds = 2]}

\* All the secondaries of a fleet die.
DeadFleetEnvironment == {[Quiet EXCEPT !.fleet = 1..n, !.crash = 1..n] : n \in {3, 5}}
=============================================================================
