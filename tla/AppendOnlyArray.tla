--------------------------- MODULE AppendOnlyArray ---------------------------
(***************************************************************************)
(* What a push-only store promises: a cell is written once and then keeps  *)
(* its element for good.                                                   *)
(***************************************************************************)
EXTENDS Integers

CONSTANTS Items, NoItem, Size

VARIABLE cells

Init == cells = [i \in 0 .. Size - 1 |-> NoItem]

Store(i, x) == cells[i] = NoItem /\ cells' = [cells EXCEPT ![i] = x]

Next == \E i \in 0 .. Size - 1, x \in Items : Store(i, x)

Spec == Init /\ [][Next]_cells
=============================================================================
