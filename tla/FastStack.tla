------------------------------ MODULE FastStack ------------------------------
(***************************************************************************)
(* PushOnlyFastStack<ElementType, unitSize> of include/coplus/fast_queue.h *)
(* and its specialisation for unique_ptr, which has the same steps.  The   *)
(* store is a table of blocks, allocated by the first push that needs one: *)
(* the loser of that race deletes its block and uses the winner's.         *)
(* One step of the model is one atomic access of the code.                 *)
(***************************************************************************)
EXTENDS Integers, FiniteSets

CONSTANTS
  Pushers, Readers,  \* threads that call push, threads that call get
  Items,             \* the elements
  NoItem,            \* what a cell of a new block holds
  unitSize,          \* cells per block
  max_size,          \* capacity of the store
  MaxPush            \* bound of the model: no push starts after this many

ASSUME SizeAssumption == unitSize \in Nat \ {0} /\ max_size \in Nat \ {0}

ASSUME ItemsAssumption == NoItem \notin Items

ASSUME ThreadsAssumption == Pushers \cap Readers = {}

ASSUME BoundsAssumption == MaxPush \in Nat

Threads == Pushers \cup Readers
Blocks == 0 .. max_size - 1                   \* a block is named by the push that allocates it
NULL == -1
Table == 0 .. (max_size + unitSize - 1) \div unitSize - 1

mainSlot(k) == k \div unitSize
subSlot(k) == k - mainSlot(k) * unitSize

VARIABLES
  end,       \* number of push calls so far
  stacks,    \* the table of blocks
  cell,      \* contents of the blocks
  live,      \* blocks that are allocated
  pc, item,  \* per thread: its place, the argument of push or result of get
  slot,      \* per thread: slot of push, token of get
  oldStack   \* per thread: the block it goes on to use

vars == <<end, stacks, cell, live, pc, item, slot, oldStack>>

Init ==
  /\ end = 0
  /\ stacks = [m \in Table |-> NULL]
  /\ cell = [b \in Blocks |-> [j \in 0 .. unitSize - 1 |-> NoItem]]
  /\ live = {}
  /\ pc = [t \in Threads |-> "idle"]
  /\ item = [t \in Threads |-> NoItem]
  /\ slot = [t \in Threads |-> 0]
  /\ oldStack = [t \in Threads |-> NULL]

Goto(t, from, to) == pc[t] = from /\ pc' = [pc EXCEPT ![t] = to]

-----------------------------------------------------------------------------
(* push *)

(* int slot = fetch_add(&end, 1); a full store returns -1 *)
PushReserve(p, x) ==
  /\ end < MaxPush
  /\ Goto(p, "idle", IF end >= max_size THEN "idle" ELSE "load")
  /\ end' = end + 1
  /\ slot' = [slot EXCEPT ![p] = end]
  /\ item' = [item EXCEPT ![p] = x]
  /\ UNCHANGED <<stacks, cell, live, oldStack>>

(* The load of the table entry; if it is NULL a block is allocated, which   *)
(* nobody else sees yet.                                                    *)
PushLoad(p) ==
  LET b == stacks[mainSlot(slot[p])] IN
  /\ Goto(p, "load", IF b = NULL THEN "cas" ELSE "write")
  /\ oldStack' = [oldStack EXCEPT ![p] = b]
  /\ live' = IF b = NULL THEN live \cup {slot[p]} ELSE live
  /\ UNCHANGED <<end, stacks, cell, item, slot>>

(* Mutant: a plain store instead of the exchange. *)
PushCasStore(p) ==
  /\ Goto(p, "cas", "write")
  /\ stacks' = [stacks EXCEPT ![mainSlot(slot[p])] = slot[p]]
  /\ oldStack' = [oldStack EXCEPT ![p] = slot[p]]
  /\ UNCHANGED <<end, cell, live, item, slot>>

(* Mutant: the winner of the exchange deletes its block as well. *)
PushCasDelete(p) ==
  LET m == mainSlot(slot[p]) IN
  /\ Goto(p, "cas", "write")
  /\ stacks' = IF stacks[m] = NULL THEN [stacks EXCEPT ![m] = slot[p]] ELSE stacks
  /\ oldStack' = [oldStack EXCEPT ![p] = stacks'[m]]
  /\ live' = live \ {slot[p]}
  /\ UNCHANGED <<end, cell, item, slot>>

(* compare_exchange: the loser deletes its block and finds the winner's in  *)
(* oldStack                                                                 *)
PushCas(p) ==
  LET m == mainSlot(slot[p]) IN
  /\ Goto(p, "cas", "write")
  /\ IF stacks[m] = NULL
       THEN /\ stacks' = [stacks EXCEPT ![m] = slot[p]]
            /\ oldStack' = [oldStack EXCEPT ![p] = slot[p]]
            /\ UNCHANGED live
       ELSE /\ oldStack' = [oldStack EXCEPT ![p] = stacks[m]]
            /\ live' = live \ {slot[p]}
            /\ UNCHANGED stacks
  /\ UNCHANGED <<end, cell, item, slot>>

(* oldStack[subSlot] = newItem; return slot *)
PushWrite(p) ==
  /\ Goto(p, "write", "idle")
  /\ cell' = [cell EXCEPT ![oldStack[p]][subSlot(slot[p])] = item[p]]
  /\ UNCHANGED <<end, stacks, live, item, slot, oldStack>>

-----------------------------------------------------------------------------
(* get *)

(* A token beyond max_size is refused.  Callers take tokens below size()    *)
(* (FastQueue::pop, pop_hard, element_count) or tokens push returned.       *)
GetStart(r, k) ==
  /\ Goto(r, "idle", IF k > max_size THEN "idle" ELSE "get_load")
  /\ slot' = [slot EXCEPT ![r] = k]
  /\ item' = [item EXCEPT ![r] = NoItem]
  /\ UNCHANGED <<end, stacks, cell, live, oldStack>>

InTable(k) == mainSlot(k) \in Table

(* Beyond the table the entry is whatever the memory holds. *)
Entries(k) == IF InTable(k) THEN {stacks[mainSlot(k)]} ELSE Blocks \cup {NULL}

GetLoad(r) ==
  \E b \in Entries(slot[r]) :
    /\ Goto(r, "get_load", IF b = NULL THEN "idle" ELSE "get_read")
    /\ oldStack' = [oldStack EXCEPT ![r] = b]
    /\ UNCHANGED <<end, stacks, cell, live, item, slot>>

GetRead(r) ==
  /\ Goto(r, "get_read", "got")
  /\ item' = [item EXCEPT ![r] = cell[oldStack[r]][subSlot(slot[r])]]
  /\ UNCHANGED <<end, stacks, cell, live, slot, oldStack>>

GetReturn(r) ==
  /\ Goto(r, "got", "idle")
  /\ UNCHANGED <<end, stacks, cell, live, item, slot, oldStack>>

-----------------------------------------------------------------------------
Push(p) == (\E x \in Items : PushReserve(p, x)) \/ PushLoad(p) \/ PushCas(p) \/ PushWrite(p)

Get(r) == (\E k \in 0 .. end - 1 : GetStart(r, k)) \/ GetLoad(r) \/ GetRead(r) \/ GetReturn(r)

(* Nobody is obliged to call. *)
Rest == (\A t \in Threads : pc[t] = "idle") /\ UNCHANGED vars

Next == (\E p \in Pushers : Push(p)) \/ (\E r \in Readers : Get(r)) \/ Rest

Spec == Init /\ [][Next]_vars

-----------------------------------------------------------------------------
(* Properties *)

PushPC == {"idle", "load", "cas", "write"}
GetPC == {"idle", "get_load", "get_read", "got"}

(* Every variable and local holds a value of its C++ type.                  *)
TypeOK ==
  /\ end \in 0 .. MaxPush
  /\ stacks \in [Table -> Blocks \cup {NULL}]
  /\ cell \in [Blocks -> [0 .. unitSize - 1 -> Items \cup {NoItem}]]
  /\ live \subseteq Blocks
  /\ pc \in [Threads -> PushPC \cup GetPC]
  /\ \A p \in Pushers : pc[p] \in PushPC
  /\ \A r \in Readers : pc[r] \in GetPC
  /\ item \in [Threads -> Items \cup {NoItem}]
  /\ slot \in [Threads -> 0 .. MaxPush]
  /\ oldStack \in [Threads -> Blocks \cup {NULL}]

(* Two pushes that race for the first use of a block agree on it: no thread *)
(* holds a deleted block, and a block that lost the race is not kept.       *)
NoDanglingBlock ==
  /\ \A t \in Threads : pc[t] \in {"write", "get_read"} => oldStack[t] \in live
  /\ live = ({stacks[m] : m \in Table} \ {NULL})
              \cup {slot[p] : p \in {q \in Pushers : pc[q] = "cas"}}

(* What get(k, ret) finds at once. *)
At(k) == LET b == stacks[mainSlot(k)] IN IF b = NULL THEN NoItem ELSE cell[b][subSlot(k)]

Cells == INSTANCE AppendOnlyArray WITH Size <- max_size, cells <- [k \in Blocks |-> At(k)]

(* Pushes write distinct cells, once: none is lost to a racing allocation   *)
(* and none is overwritten.                                                 *)
ImplementsCells == Cells!Spec
=============================================================================
