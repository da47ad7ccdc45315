------------------------------ MODULE BoundedBag ------------------------------
(***************************************************************************)
(* What a bounded unordered container promises: Capacity elements fit in,  *)
(* each comes out as often as it went in, and a call is refused only when  *)
(* the container is full or empty.                                         *)
(***************************************************************************)
EXTENDS Integers, FiniteSets

CONSTANTS Items, Capacity

VARIABLES
  bag,   \* how many copies of each item are inside
  size,  \* how many elements are inside
  out    \* the result of the last call

Init ==
  /\ bag = [x \in Items |-> 0]
  /\ size = 0
  /\ out = <<"none">>

Add(x) ==
  /\ size < Capacity
  /\ bag' = [bag EXCEPT ![x] = @ + 1]
  /\ size' = size + 1
  /\ out' = <<"added">>

Remove(x) ==
  /\ bag[x] > 0
  /\ bag' = [bag EXCEPT ![x] = @ - 1]
  /\ size' = size - 1
  /\ out' = <<"removed", x>>

RefuseAdd == size = Capacity /\ out' = <<"full">> /\ UNCHANGED <<bag, size>>

RefuseRemove == size = 0 /\ out' = <<"empty">> /\ UNCHANGED <<bag, size>>

Next == (\E x \in Items : Add(x) \/ Remove(x)) \/ RefuseAdd \/ RefuseRemove

Spec == Init /\ [][Next]_<<bag, size, out>>
=============================================================================
