--------------------------- MODULE MCCustomInbox ----------------------------
(* Small instances of CustomInbox for TLC.                                 *)
EXTENDS CustomInbox

\* Two messages and a fault; one message, a handler that may raise, and two faults.
Two == [msgs |-> 2, ends |-> {2}, raise |-> {}, faults |-> 1, kinds |-> Fault]
One == [msgs |-> 1, ends |-> {1}, raise |-> {1}, faults |-> 2, kinds |-> Fault]

\* Two messages, a handler that may raise on the first, and a failover.
Raising == [Two EXCEPT !.raise = {1}, !.kinds = {"crash"}]

MCEnvironment == {Two, One, Raising}

\* A second primary takes over while the first runs on, and then the first crashes.
Takeover == [Two EXCEPT !.faults = 2, !.kinds = {"usurp", "crash"}]

MCTakeover == {Takeover}
=============================================================================
