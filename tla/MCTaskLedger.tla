---------------------------- MODULE MCTaskLedger -----------------------------
(* Small instances of TaskLedger for TLC.                                  *)
EXTENDS TaskLedger

CONSTANTS a, b

Hashes == [e \in Payload |->
    CASE e = "none" -> 0 [] e = "recoverable" -> 1 [] e = "nonrecoverable" -> 2
      [] e = "upstream" -> 3 [] e = "unfulfillable" -> 4 [] OTHER -> 5]

\* b depends on a.
Chain2 == [t \in {a, b} |-> IF t = b THEN <<a>> ELSE <<>>]

\* a and b are known from the start, and the lead passes on once.
Known ==
    [setup |-> {}, seeded |-> {a, b}, ops |-> 3, dups |-> 0, attempts |-> 1, epochs |-> 2]

\* A frame comes twice: under one leader, and with fewer operations under two.
Duplicated ==
    {[Known EXCEPT !.dups = 1, !.epochs = 1], [Known EXCEPT !.dups = 1, !.ops = 2]}

\* a is a setup task, and b is spawned while the run goes on.
Spawning ==
    [setup |-> {a}, seeded |-> {a}, ops |-> 3, dups |-> 0, attempts |-> 1, epochs |-> 1]

MCEnvironment == {Known, Spawning} \cup Duplicated
MCSpawning == {[Spawning EXCEPT !.ops = 2]}
=============================================================================
