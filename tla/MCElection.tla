---------------------------- MODULE MCElection -----------------------------
(***************************************************************************)
(* A few nodes, of which the last is the primary, and the faults they      *)
(* meet.                                                                   *)
(***************************************************************************)
EXTENDS Election

Calm ==
    [first |-> 3, gone |-> {}, crashes |-> 0, starves |-> 0, freezes |-> 0, cuts |-> 0,
     rounds |-> 1]

\* Nobody dies, but keepalives are missed; a node dies while another is starved, is
\* frozen or loses a connection; a candidacy of more than one round.
MCEnvironment ==
    {[Calm EXCEPT !.starves = 3],
     [Calm EXCEPT !.crashes = 1, !.starves = 1],
     [Calm EXCEPT !.crashes = 1, !.freezes = 1],
     [Calm EXCEPT !.crashes = 1, !.cuts = 1],
     [Calm EXCEPT !.crashes = 1, !.rounds = 2]}

\* The primary of four is gone, and one of the three survivors dies.
MCCandidateDies == {[Calm EXCEPT !.first = 4, !.gone = {4}, !.crashes = 1]}
=============================================================================
