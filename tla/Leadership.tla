----------------------------- MODULE Leadership -----------------------------
(***************************************************************************)
(* What a failover promises, whatever the fleet went through: an office    *)
(* that is taken and followed.                                             *)
(*                                                                         *)
(* A node takes the office itself, at the term after the one it knows;     *)
(* nobody is appointed.  The others learn of it late, out of order or not  *)
(* at all, and follow whoever took it at the latest term they know of.     *)
(* Two may take it at one term; then the order of the ids decides, so      *)
(* that everybody who knows of both follows the same one.                  *)
(***************************************************************************)
EXTENDS Naturals

CONSTANT Node  \* the hosts, by their place in the order of the ids

VARIABLE register  \* node -> the primary it follows, and at which epoch

Over(new, old) ==
    \/ new.epoch > old.epoch
    \/ new.epoch = old.epoch /\ new.id < old.id

Init == \E first \in Node : register = [n \in Node |-> [id |-> first, epoch |-> 1]]

TakeOffice(n) == register' = [register EXCEPT ![n] = [id |-> n, epoch |-> @.epoch + 1]]

\* n hears that l took the office, perhaps at an earlier term than the one l is at now.
Follow(n, l) ==
    \E term \in 0..register[l].epoch :
        LET office == [id |-> l, epoch |-> term]
        IN  Over(office, register[n]) /\ register' = [register EXCEPT ![n] = office]

Next == \E n \in Node : TakeOffice(n) \/ \E l \in Node : Follow(n, l)

Spec == Init /\ [][Next]_register
=============================================================================
