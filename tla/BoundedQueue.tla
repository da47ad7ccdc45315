----------------------------- MODULE BoundedQueue -----------------------------
(***************************************************************************)
(* What a bounded queue with several consumers promises: elements come out *)
(* in the order they went in, each to one consumer, and the queue never    *)
(* holds more than Capacity.  A consumer first takes the oldest element,   *)
(* then returns with it.                                                   *)
(***************************************************************************)
EXTENDS Integers, Sequences

CONSTANTS Consumers, Items, NoItem, Capacity

VARIABLES queue, held

Init == queue = << >> /\ held = [c \in Consumers |-> NoItem]

Put(x) ==
  /\ Len(queue) < Capacity
  /\ queue' = Append(queue, x)
  /\ UNCHANGED held

Take(c) ==
  /\ held[c] = NoItem
  /\ queue # << >>
  /\ held' = [held EXCEPT ![c] = Head(queue)]
  /\ queue' = Tail(queue)

Deliver(c) ==
  /\ held[c] # NoItem
  /\ held' = [held EXCEPT ![c] = NoItem]
  /\ UNCHANGED queue

Next ==
  \/ \E x \in Items : Put(x)
  \/ \E c \in Consumers : Take(c) \/ Deliver(c)

Spec == Init /\ [][Next]_<<queue, held>>
=============================================================================
