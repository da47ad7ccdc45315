------------------------------ MODULE SlowQueue ------------------------------
(***************************************************************************)
(* SlowQueue<ElementType> of include/coplus/fast_queue.h, the free list of *)
(* FastQueue: a ring behind one mutex.  head = tail means empty when both  *)
(* are 0 and full otherwise; to keep that apart pop resets both to 0 when  *)
(* it empties the ring, and push moves both to 1 when it fills it at 0.    *)
(* Every operation holds the mutex from its first to its last access, so   *)
(* an operation is one step.                                               *)
(***************************************************************************)
EXTENDS Integers, FiniteSets

CONSTANTS
  Elements,   \* the elements
  NoElement,  \* what a slot holds before it is first written
  maxSize     \* size of the ring, kFreeListSize in FastQueue

(* With a ring of one slot the second push would write beyond it. *)
ASSUME RingAssumption == maxSize \in Nat /\ maxSize >= 2

ASSUME ElementsAssumption == NoElement \notin Elements

VARIABLES ring, head, tail,
          out  \* the result of the last call

ringVars == <<ring, head, tail, out>>

RingInit ==
  /\ ring = [i \in 0 .. maxSize - 1 |-> NoElement]
  /\ head = 0 /\ tail = 0
  /\ out = <<"none">>

Advance(i) == IF i = maxSize - 1 THEN 0 ELSE i + 1

IsEmpty == head = tail /\ tail = 0
IsFull == head = tail /\ head # 0

pop ==
  /\ ~IsEmpty
  /\ head' = IF Advance(head) = tail THEN 0 ELSE Advance(head)
  /\ tail' = IF Advance(head) = tail THEN 0 ELSE tail
  /\ out' = <<"removed", ring[head]>>
  /\ UNCHANGED ring

PopFails == IsEmpty /\ out' = <<"empty">> /\ UNCHANGED <<ring, head, tail>>

(* Mutant: a ring filled at slot 0 keeps head = tail = 0, which means empty. *)
pushNoShift(x) ==
  /\ ~IsFull
  /\ ring' = [ring EXCEPT ![tail] = x]
  /\ tail' = Advance(tail)
  /\ out' = <<"added">>
  /\ UNCHANGED head

(* The branch for an empty ring writes slot 0, which is ring[tail]. *)
push(x) ==
  /\ ~IsFull
  /\ ring' = [ring EXCEPT ![tail] = x]
  /\ LET filledAtZero == head = 0 /\ Advance(tail) = 0
     IN  /\ head' = IF filledAtZero THEN 1 ELSE head
         /\ tail' = IF filledAtZero THEN 1 ELSE Advance(tail)
  /\ out' = <<"added">>

PushFails == IsFull /\ out' = <<"full">> /\ UNCHANGED <<ring, head, tail>>

RingNext == (\E x \in Elements : push(x)) \/ PushFails \/ pop \/ PopFails

RingSpec == RingInit /\ [][RingNext]_ringVars

(* size() *)
size ==
  CASE IsEmpty     -> 0
    [] IsFull      -> maxSize
    [] head > tail -> tail - head + maxSize
    [] head < tail -> tail - head

-----------------------------------------------------------------------------
(* Properties *)

(* The slots that hold an element. *)
Occupied ==
  CASE IsEmpty     -> {}
    [] IsFull      -> 0 .. maxSize - 1
    [] head > tail -> (0 .. maxSize - 1) \ (tail .. head - 1)
    [] head < tail -> head .. tail - 1

(* head and tail stay inside the ring and occupied slots hold elements, so  *)
(* pop never hands out a default-constructed one.                           *)
RingTypeOK ==
  /\ ring \in [0 .. maxSize - 1 -> Elements \cup {NoElement}]
  /\ head \in 0 .. maxSize - 1
  /\ tail \in 0 .. maxSize - 1
  /\ \A i \in Occupied : ring[i] \in Elements

Bag == INSTANCE BoundedBag WITH
  Items <- Elements,
  Capacity <- maxSize,
  bag <- [x \in Elements |-> Cardinality({i \in Occupied : ring[i] = x})]

(* Whatever the order of pushes and pops, the ring is a bounded bag: it      *)
(* takes maxSize elements, loses and duplicates none, refuses push only     *)
(* when full and pop only when empty, and size() counts what is inside.     *)
ImplementsBag == Bag!Spec
=============================================================================
