------------------------------ MODULE BlockStore ------------------------------
(***************************************************************************)
(* What the buffer cache promises its callers: the blocks of a device      *)
(* behave as if every modification were applied to the device at once.     *)
(* A block is the number of modifications it has seen, so losing one, or   *)
(* going back to an older content, is visible.                             *)
(***************************************************************************)
EXTENDS Naturals

CONSTANT Blocks

VARIABLE content

Init == content = [n \in Blocks |-> 0]

Modify(n) == content' = [content EXCEPT ![n] = @ + 1]

Next == \E n \in Blocks : Modify(n)

Spec == Init /\ [][Next]_content

=============================================================================
