--------------------------- MODULE FastLocalQueue ---------------------------
(***************************************************************************)
(* FastLocalQueue<ElementType, QueueSize> of include/coplus/fast_queue.h:  *)
(* a ring with two layers of counters.  A thread first passes a gate on    *)
(* the outer layer (count and revoke), then takes a slot with the fast     *)
(* counters, touches the data, and at last publishes on head or tail.      *)
(* One step of the model is one atomic access of the code.                 *)
(*                                                                         *)
(* A counter variable holds the number of increments since construction;   *)
(* the uint32_t of the code is its residue modulo Width.  Counters are     *)
(* only ever subtracted, compared and reduced to a slot, so taking the     *)
(* residue there (Sub, Slot) is the wrap-around of the code.               *)
(***************************************************************************)
EXTENDS Integers, FiniteSets

CONSTANTS
  Producers,  \* threads that call push; the code asks for a single one
  Consumers,  \* threads that call pop
  Items,      \* the elements
  NoItem,     \* what a slot holds before it is first written
  QueueSize,  \* the template parameter
  Width,      \* 2^32 in the code
  MaxPush,    \* bound of the model: no push starts after this many
  MaxPop      \* bound of the model: no pop starts after this many

Threads == Producers \cup Consumers
HalfWidth == Width \div 2

ASSUME ThreadsAssumption ==
  /\ IsFiniteSet(Consumers)
  /\ Producers \cap Consumers = {}

ASSUME SizeAssumption ==
  /\ QueueSize \in Nat \ {0}
  /\ Width \in Nat
  /\ QueueSize + 1 < HalfWidth
  /\ Width = 2 * HalfWidth

ASSUME ItemsAssumption == Items # {} /\ NoItem \notin Items

ASSUME BoundsAssumption == MaxPush \in Nat /\ MaxPop \in Nat

VARIABLES
  enqueue_count, enqueue_revoke,  \* outer layer, producers
  dequeue_count, dequeue_revoke,  \* outer layer, consumers
  head, tail,                     \* inner layer: finished pops and pushes
  head_fast, tail_fast,           \* next slot to read and to write
  data,                           \* the ring
  pc,                             \* where each thread is in push or pop
  item,                           \* the argument of push, the result of pop
  revoke,                         \* local enq_revoke, deq_revoke
  count,                          \* local enq, deq
  slot                            \* the value the fast counter returned

counters == <<enqueue_count, enqueue_revoke, dequeue_count, dequeue_revoke,
              head, tail, head_fast, tail_fast>>
vars == <<enqueue_count, enqueue_revoke, dequeue_count, dequeue_revoke,
          head, tail, head_fast, tail_fast, data, pc, item, revoke, count, slot>>

-----------------------------------------------------------------------------
(* uint32_t subtraction, and the index expression "counter % QueueSize".   *)
Sub(a, b) == (a - b) % Width

Slot(n) == (n % Width) % QueueSize

Goto(t, from, to) == pc[t] = from /\ pc' = [pc EXCEPT ![t] = to]

Init ==
  /\ enqueue_count = 0 /\ enqueue_revoke = 0
  /\ dequeue_count = 0 /\ dequeue_revoke = 0
  /\ head = 0 /\ tail = 0
  /\ head_fast = 0 /\ tail_fast = 0
  /\ data = [i \in 0 .. QueueSize - 1 |-> NoItem]
  /\ pc = [t \in Threads |-> "idle"]
  /\ item = [t \in Threads |-> NoItem]
  /\ revoke = [t \in Threads |-> 0]
  /\ count = [t \in Threads |-> 0]
  /\ slot = [t \in Threads |-> 0]

-----------------------------------------------------------------------------
(* push *)

(* uint32_t enq_revoke = enqueue_revoke_.load() *)
PushLoad(p, x) ==
  /\ enqueue_count < MaxPush
  /\ Goto(p, "idle", "push_count")
  /\ item' = [item EXCEPT ![p] = x]
  /\ revoke' = [revoke EXCEPT ![p] = enqueue_revoke]
  /\ UNCHANGED <<counters, data, count, slot>>

PushCount(p) ==
  /\ Goto(p, "push_count", "push_test")
  /\ enqueue_count' = enqueue_count + 1
  /\ count' = [count EXCEPT ![p] = enqueue_count + 1]
  /\ UNCHANGED <<enqueue_revoke, dequeue_count, dequeue_revoke,
                 head, tail, head_fast, tail_fast, data, item, revoke, slot>>

(* Mutant: one slot too many. *)
FullOffByOne(p) == Sub(count[p] - revoke[p], head) > QueueSize + 1

(* (enq - enq_revoke) - head_.load() > QueueSize *)
Full(p) == Sub(count[p] - revoke[p], head) > QueueSize

PushTest(p) ==
  /\ Goto(p, "push_test", IF Full(p) THEN "push_revoke" ELSE "push_claim")
  /\ UNCHANGED <<counters, data, item, revoke, count, slot>>

(* Mutant: the attempt is subtracted from the revoke counter. *)
PushRevokeSub(p) ==
  /\ Goto(p, "push_revoke", "idle")
  /\ enqueue_revoke' = enqueue_revoke - 1
  /\ UNCHANGED <<enqueue_count, dequeue_count, dequeue_revoke,
                 head, tail, head_fast, tail_fast, data, item, revoke, count, slot>>

(* the failing branch: the attempt is taken back, push returns false *)
PushRevoke(p) ==
  /\ Goto(p, "push_revoke", "idle")
  /\ enqueue_revoke' = enqueue_revoke + 1
  /\ UNCHANGED <<enqueue_count, dequeue_count, dequeue_revoke,
                 head, tail, head_fast, tail_fast, data, item, revoke, count, slot>>

PushClaim(p) ==
  /\ Goto(p, "push_claim", "push_write")
  /\ slot' = [slot EXCEPT ![p] = tail_fast]
  /\ tail_fast' = tail_fast + 1
  /\ UNCHANGED <<enqueue_count, enqueue_revoke, dequeue_count, dequeue_revoke,
                 head, tail, head_fast, data, item, revoke, count>>

PushWrite(p) ==
  /\ Goto(p, "push_write", "push_commit")
  /\ data' = [data EXCEPT ![Slot(slot[p])] = item[p]]
  /\ UNCHANGED <<counters, item, revoke, count, slot>>

PushCommit(p) ==
  /\ Goto(p, "push_commit", "idle")
  /\ tail' = tail + 1
  /\ UNCHANGED <<enqueue_count, enqueue_revoke, dequeue_count, dequeue_revoke,
                 head, head_fast, tail_fast, data, item, revoke, count, slot>>

-----------------------------------------------------------------------------
(* pop *)

PopLoad(c) ==
  /\ dequeue_count < MaxPop
  /\ Goto(c, "idle", "pop_count")
  /\ revoke' = [revoke EXCEPT ![c] = dequeue_revoke]
  /\ UNCHANGED <<counters, data, item, count, slot>>

(* "here we assump the hazard is limited in half the max": the snapshot of  *)
(* the revoke counter is not so old that the test below wraps around.       *)
HazardLimited(c) == dequeue_count + 1 - revoke[c] - tail <= HalfWidth

(* Mutant: pop uses the count before its own increment. *)
PopCountLate(c) ==
  /\ HazardLimited(c)
  /\ Goto(c, "pop_count", "pop_test")
  /\ dequeue_count' = dequeue_count + 1
  /\ count' = [count EXCEPT ![c] = dequeue_count]
  /\ UNCHANGED <<enqueue_count, enqueue_revoke, dequeue_revoke,
                 head, tail, head_fast, tail_fast, data, item, revoke, slot>>

PopCount(c) ==
  /\ HazardLimited(c)
  /\ Goto(c, "pop_count", "pop_test")
  /\ dequeue_count' = dequeue_count + 1
  /\ count' = [count EXCEPT ![c] = dequeue_count + 1]
  /\ UNCHANGED <<enqueue_count, enqueue_revoke, dequeue_revoke,
                 head, tail, head_fast, tail_fast, data, item, revoke, slot>>

(* tail_.load() - (deq - deq_revoke) > 2147483647 *)
Empty(c) == Sub(tail, count[c] - revoke[c]) > HalfWidth - 1

PopTest(c) ==
  /\ Goto(c, "pop_test", IF Empty(c) THEN "pop_revoke" ELSE "pop_claim")
  /\ UNCHANGED <<counters, data, item, revoke, count, slot>>

(* Mutant: a failed pop is not taken back. *)
PopRevokeDropped(c) ==
  /\ Goto(c, "pop_revoke", "idle")
  /\ UNCHANGED <<counters, data, item, revoke, count, slot>>

PopRevoke(c) ==
  /\ Goto(c, "pop_revoke", "idle")
  /\ dequeue_revoke' = dequeue_revoke + 1
  /\ UNCHANGED <<enqueue_count, enqueue_revoke, dequeue_count,
                 head, tail, head_fast, tail_fast, data, item, revoke, count, slot>>

(* Mutant: the slot after the increment instead of before. *)
PopClaimPreIncrement(c) ==
  /\ Goto(c, "pop_claim", "pop_read")
  /\ slot' = [slot EXCEPT ![c] = head_fast + 1]
  /\ head_fast' = head_fast + 1
  /\ UNCHANGED <<enqueue_count, enqueue_revoke, dequeue_count, dequeue_revoke,
                 head, tail, tail_fast, data, item, revoke, count>>

PopClaim(c) ==
  /\ Goto(c, "pop_claim", "pop_read")
  /\ slot' = [slot EXCEPT ![c] = head_fast]
  /\ head_fast' = head_fast + 1
  /\ UNCHANGED <<enqueue_count, enqueue_revoke, dequeue_count, dequeue_revoke,
                 head, tail, tail_fast, data, item, revoke, count>>

PopRead(c) ==
  /\ Goto(c, "pop_read", "pop_commit")
  /\ item' = [item EXCEPT ![c] = data[Slot(slot[c])]]
  /\ UNCHANGED <<counters, data, revoke, count, slot>>

PopCommit(c) ==
  /\ Goto(c, "pop_commit", "idle")
  /\ head' = head + 1
  /\ UNCHANGED <<enqueue_count, enqueue_revoke, dequeue_count, dequeue_revoke,
                 tail, head_fast, tail_fast, data, item, revoke, count, slot>>

-----------------------------------------------------------------------------
Quiescent == \A t \in Threads : pc[t] = "idle"

(* Nobody is obliged to call push or pop. *)
Rest == Quiescent /\ UNCHANGED vars

Push(p) ==
  \/ \E x \in Items : PushLoad(p, x)
  \/ PushCount(p) \/ PushTest(p) \/ PushRevoke(p)
  \/ PushClaim(p) \/ PushWrite(p) \/ PushCommit(p)

Pop(c) ==
  \/ PopLoad(c) \/ PopCount(c) \/ PopTest(c) \/ PopRevoke(c)
  \/ PopClaim(c) \/ PopRead(c) \/ PopCommit(c)

Next ==
  \/ \E p \in Producers : Push(p)
  \/ \E c \in Consumers : Pop(c)
  \/ Rest

Spec == Init /\ [][Next]_vars

-----------------------------------------------------------------------------
(* Properties *)

PushPC == {"idle", "push_count", "push_test", "push_revoke", "push_claim",
           "push_write", "push_commit"}
PopPC == {"idle", "pop_count", "pop_test", "pop_revoke", "pop_claim",
          "pop_read", "pop_commit"}

(* Every counter is a natural number and every local of push and pop holds  *)
(* a value of its C++ type.                                                 *)
TypeOK ==
  /\ enqueue_count \in Nat /\ enqueue_revoke \in Nat
  /\ dequeue_count \in Nat /\ dequeue_revoke \in Nat
  /\ head \in Nat /\ tail \in Nat
  /\ head_fast \in Nat /\ tail_fast \in Nat
  /\ data \in [0 .. QueueSize - 1 -> Items \cup {NoItem}]
  /\ pc \in [Threads -> PushPC \cup PopPC]
  /\ \A p \in Producers : pc[p] \in PushPC
  /\ \A c \in Consumers : pc[c] \in PopPC
  /\ item \in [Threads -> Items \cup {NoItem}]
  /\ revoke \in [Threads -> Nat]
  /\ count \in [Threads -> Nat]
  /\ slot \in [Threads -> Nat]

(* A pop that passed the gate reads a slot whose push has finished, however *)
(* stale the revoke snapshot it used: the gate of pop never lets in more    *)
(* threads than there are elements ("safe for its increasing nature").      *)
ReadsCommitted == \A c \in Consumers : pc[c] = "pop_read" => slot[c] < tail

(* The gate of push: slots taken and not yet given back never exceed the    *)
(* ring, so size() at rest is at most QueueSize.                            *)
OccupancyBound == tail_fast - head <= QueueSize

(* Failed attempts leave no trace: when no call is under way the two layers *)
(* agree, so a revoke that is lost or late never shrinks the queue for good *)
(* and a lone pop fails only on an empty queue.                             *)
BalancedAtRest ==
  Quiescent => /\ enqueue_count - enqueue_revoke = tail
               /\ tail_fast = tail
               /\ dequeue_count - dequeue_revoke = head
               /\ head_fast = head

(* The elements pushed and not yet read, by their position in the stream.   *)
Unread == head_fast .. tail - 1
BeingRead == {slot[c] : c \in {d \in Consumers : pc[d] = "pop_read"}}

(* A push never writes a slot whose element has still to be read.  It holds *)
(* with one consumer; with two, head counts a pop that overtook a slower    *)
(* one and push reuses the slot the slower one is about to read.            *)
WriteHitsFreeSlot ==
  \A p \in Producers : pc[p] = "push_write" =>
    \A i \in Unread \cup BeingRead : Slot(i) # Slot(slot[p])

(* What a caller may rely on: the abstract queue holds the published and    *)
(* unclaimed elements; a claimed one is in the hands of its consumer.       *)
Queue == INSTANCE BoundedQueue WITH
  Capacity <- QueueSize,
  queue <- [i \in 1 .. tail - head_fast |-> data[Slot(head_fast + i - 1)]],
  held <- [c \in Consumers |->
             CASE pc[c] = "pop_read"   -> data[Slot(slot[c])]
               [] pc[c] = "pop_commit" -> item[c]
               [] OTHER                -> NoItem]

(* Every push and pop of the code is a push and a pop of a bounded FIFO     *)
(* queue: each element comes out once, whole and in order.                  *)
ImplementsQueue == Queue!Spec
=============================================================================
