----------------------------- MODULE StoreProofs -----------------------------
(***************************************************************************)
(* Theorems about the stores: the two that FastQueue keeps its queues in,  *)
(* and the Arena.                                                          *)
(* FastStack, for any number of threads, any capacity and any size of the  *)
(* blocks: types, the refinement of AppendOnlyArray and no use of a        *)
(* deleted block.                                                          *)
(* SlowQueue, the free list: for every size of the ring from two on, pop   *)
(* hands out only what push stored, and the ring implements a bounded bag. *)
(* Arena, for any number of pages and any table of classes that leaves room*)
(* for two objects in a page span: spans tile the pages, lists and counts  *)
(* agree with the chunks in use, and chunks never overlap.                 *)
(***************************************************************************)
EXTENDS FastStack, SlowQueue, Arena, FiniteSetTheorems, NaturalsInduction, WellFoundedInduction,
        TLAPS

(* Pushes that have a slot and have not returned.                           *)
Active == {p \in Pushers : pc[p] \in {"load", "cas", "write"}}

-----------------------------------------------------------------------------
(* Slots *)

(* A slot is its block and its place in the block.                          *)
LEMMA Division ==
  ASSUME NEW k \in Nat
  PROVE  /\ mainSlot(k) \in Nat
         /\ subSlot(k) \in 0 .. unitSize - 1
         /\ k = mainSlot(k) * unitSize + subSlot(k)
BY SizeAssumption DEF mainSlot, subSlot

(* The table has an entry for every slot below the capacity.                *)
LEMMA BlockInTable ==
  ASSUME NEW k \in Blocks
  PROVE  mainSlot(k) \in Table
<1> DEFINE u == unitSize
           n == max_size
<1>1. k \in Nat /\ n \in Nat /\ u \in Nat /\ u > 0 /\ k < n
  BY SizeAssumption DEF Blocks
<1> HIDE DEF u, n
<1>2. k \div u \in Nat /\ k \div u <= (n + u - 1) \div u - 1
  BY <1>1
<1>3. (n + u - 1) \div u \in Nat
  BY <1>1
<1> QED
  BY <1>2, <1>3 DEF u, n, mainSlot, Table

-----------------------------------------------------------------------------
(* The inductive invariant *)

(* A push that has not returned has a cell of its own and its element.      *)
CellsReserved ==
  /\ \A p \in Active : slot[p] \in Blocks /\ slot[p] < end /\ item[p] \in Items
  /\ \A p, q \in Active : slot[p] = slot[q] => p = q

(* An installed block was allocated by a push that has gone on since, and   *)
(* a push that is about to write has the installed block.                   *)
BlocksPlaced ==
  /\ \A m \in Table : stacks[m] # NULL =>
       /\ mainSlot(stacks[m]) = m /\ stacks[m] < end
       /\ \A p \in Pushers : pc[p] \in {"load", "cas"} => slot[p] # stacks[m]
  /\ \A p \in Pushers : pc[p] = "write" =>
       oldStack[p] # NULL /\ oldStack[p] = stacks[mainSlot(slot[p])]
  /\ \A r \in Readers : pc[r] = "get_read" => oldStack[r] # NULL

(* Blocks that are not installed are empty, and so are the cells of pushes  *)
(* that have not written and of those to come.                              *)
CellsFresh ==
  /\ \A b \in Blocks : (\A m \in Table : stacks[m] # b) =>
       \A j \in 0 .. unitSize - 1 : cell[b][j] = NoItem
  /\ \A k \in Blocks : k >= end => At(k) = NoItem
  /\ \A p \in Active : At(slot[p]) = NoItem

IInv == TypeOK /\ CellsReserved /\ BlocksPlaced /\ CellsFresh

(* The constructor establishes the invariant.                               *)
LEMMA InitIInv == Init => IInv
<1> SUFFICES ASSUME Init
             PROVE  IInv
  OBVIOUS
<1>0. \A k \in Blocks : At(k) = NoItem
  BY BlockInTable DEF Init, At
<1>1. TypeOK
  BY SizeAssumption, BoundsAssumption DEF Init, TypeOK, NULL, PushPC, GetPC, Threads
<1>2. Active = {}
  BY DEF Init, Active, Threads
<1>3. CellsReserved /\ CellsFresh
  BY <1>0, <1>2 DEF Init, CellsReserved, CellsFresh
<1>4. BlocksPlaced
  BY DEF Init, BlocksPlaced, Threads
<1> QED
  BY <1>1, <1>3, <1>4 DEF IInv

(* fetch_add gives a push a slot that nobody has, or refuses it.            *)
LEMMA PushReserveKeeps ==
  ASSUME IInv, NEW p \in Pushers, NEW x \in Items, PushReserve(p, x)
  PROVE  IInv'
<1> DEFINE to == IF end >= max_size THEN "idle" ELSE "load"
<1>0. /\ p \in Threads /\ TypeOK
      /\ pc[p] = "idle" /\ pc' = [pc EXCEPT ![p] = to]
      /\ end' = end + 1 /\ end' \in 0 .. MaxPush
      /\ slot' = [slot EXCEPT ![p] = end]
      /\ item' = [item EXCEPT ![p] = x]
      /\ UNCHANGED <<stacks, cell, live, oldStack>>
  BY BoundsAssumption DEF IInv, TypeOK, PushReserve, Goto, Threads
<1>1. TypeOK'
  <2>1. pc' \in [Threads -> PushPC \cup GetPC] /\ \A q \in Pushers : pc'[q] \in PushPC
    BY <1>0 DEF TypeOK, PushPC, Threads
  <2>2. \A r \in Readers : pc'[r] \in GetPC
    BY <1>0, ThreadsAssumption DEF TypeOK, Threads
  <2>3. slot' \in [Threads -> 0 .. MaxPush] /\ item' \in [Threads -> Items \cup {NoItem}]
    BY <1>0, BoundsAssumption DEF TypeOK
  <2> QED
    BY <1>0, <2>1, <2>2, <2>3 DEF TypeOK
<1>2. /\ p \notin Active
      /\ Active' = IF end >= max_size THEN Active ELSE Active \cup {p}
      /\ \A q \in Active : slot'[q] = slot[q]
      /\ slot'[p] = end
  BY <1>0 DEF Active, TypeOK, Threads
<1>3. CellsReserved'
  BY <1>0, <1>2, SizeAssumption DEF IInv, CellsReserved, Blocks, TypeOK, Threads, Active
<1>4. BlocksPlaced'
  <2>1. \A m \in Table : stacks[m] # NULL => stacks[m] \in Nat /\ stacks[m] < end
    BY <1>0, SizeAssumption DEF IInv, BlocksPlaced, TypeOK, Blocks, NULL
  <2>2. \A q \in Pushers \ {p} : pc'[q] = pc[q] /\ slot'[q] = slot[q]
    BY <1>0 DEF TypeOK, Threads
  <2>3. \A r \in Readers : pc'[r] = pc[r]
    BY <1>0, ThreadsAssumption DEF TypeOK, Threads
  <2>4. pc'[p] \in {"idle", "load"}
    BY <1>0 DEF TypeOK
  <2> QED
    BY <1>0, <1>2, <2>1, <2>2, <2>3, <2>4 DEF IInv, BlocksPlaced, TypeOK
<1>5. CellsFresh'
  <2>1. \A k \in Blocks : At(k)' = At(k)
    BY <1>0 DEF At
  <2>2. end < max_size => end \in Blocks
    BY <1>0, SizeAssumption DEF TypeOK, Blocks
  <2>3. ASSUME NEW q \in Active'
        PROVE  At(slot[q])' = NoItem
    <3>1. CASE q = p
      <4>1. end \in Blocks
        BY <1>0, <1>2, <2>2, <3>1, SizeAssumption DEF TypeOK
      <4>2. At(end) = NoItem
        BY <1>0, <4>1 DEF IInv, CellsFresh, Blocks
      <4> QED
        BY <1>0, <1>2, <3>1, <4>2 DEF At
    <3>2. CASE q # p
      <4>1. q \in Active /\ slot'[q] = slot[q]
        BY <1>2, <3>2
      <4>2. At(slot[q]) = NoItem
        BY <4>1 DEF IInv, CellsFresh
      <4> QED
        BY <1>0, <4>1, <4>2 DEF At
    <3> QED
      BY <3>1, <3>2
  <2>4. \A k \in Blocks : k >= end' => At(k)' = NoItem
    BY <1>0, <2>1 DEF IInv, CellsFresh, Blocks, TypeOK
  <2>5. \A b \in Blocks : (\A m \in Table : stacks'[m] # b) =>
          \A j \in 0 .. unitSize - 1 : cell'[b][j] = NoItem
    BY <1>0 DEF IInv, CellsFresh
  <2> QED
    BY <2>3, <2>4, <2>5 DEF CellsFresh
<1> QED
  BY <1>1, <1>3, <1>4, <1>5 DEF IInv

(* A block that a push allocates is not in the table yet.                   *)
LEMMA PushLoadKeeps ==
  ASSUME IInv, NEW p \in Pushers, PushLoad(p)
  PROVE  IInv'
<1> DEFINE m0 == mainSlot(slot[p])
           b == stacks[m0]
           to == IF b = NULL THEN "cas" ELSE "write"
<1>0. /\ p \in Threads /\ TypeOK
      /\ pc[p] = "load" /\ pc' = [pc EXCEPT ![p] = to]
      /\ oldStack' = [oldStack EXCEPT ![p] = b]
      /\ live' = IF b = NULL THEN live \cup {slot[p]} ELSE live
      /\ UNCHANGED <<end, stacks, cell, item, slot>>
  BY DEF IInv, PushLoad, Goto, Threads
<1>1. p \in Active /\ slot[p] \in Blocks /\ m0 \in Table /\ b \in Blocks \cup {NULL}
  BY <1>0, BlockInTable DEF IInv, CellsReserved, Active, TypeOK
<1> HIDE DEF m0, b
<1>2. Active' = Active
  BY <1>0 DEF Active, TypeOK, Threads
<1>3. TypeOK'
  <2>1. pc' \in [Threads -> PushPC \cup GetPC] /\ \A q \in Pushers : pc'[q] \in PushPC
    BY <1>0 DEF TypeOK, PushPC, Threads
  <2>2. \A r \in Readers : pc'[r] \in GetPC
    BY <1>0, ThreadsAssumption DEF TypeOK, Threads
  <2> QED
    BY <1>0, <1>1, <2>1, <2>2 DEF TypeOK
<1>4. CellsReserved'
  BY <1>0, <1>2 DEF IInv, CellsReserved
<1>5. BlocksPlaced'
  <2>1. \A q \in Pushers \ {p} : pc'[q] = pc[q] /\ oldStack'[q] = oldStack[q]
    BY <1>0 DEF TypeOK, Threads
  <2>2. \A r \in Readers : pc'[r] = pc[r] /\ oldStack'[r] = oldStack[r]
    BY <1>0, ThreadsAssumption DEF TypeOK, Threads
  <2>3. pc'[p] = to /\ oldStack'[p] = b
    BY <1>0 DEF TypeOK
  <2> QED
    BY <1>0, <2>1, <2>2, <2>3 DEF IInv, BlocksPlaced, m0, b
<1>6. CellsFresh'
  BY <1>0, <1>2 DEF IInv, CellsFresh, At
<1> QED
  BY <1>3, <1>4, <1>5, <1>6 DEF IInv

(* The block that is installed is empty, so the contents stay.              *)
LEMMA PushCasSame ==
  ASSUME IInv, NEW p \in Pushers, PushCas(p)
  PROVE  \A k \in Blocks : At(k)' = At(k)
<1> DEFINE m0 == mainSlot(slot[p])
<1>0. /\ p \in Threads /\ TypeOK
      /\ pc[p] = "cas" /\ pc' = [pc EXCEPT ![p] = "write"]
      /\ UNCHANGED <<end, cell, item, slot>>
  BY DEF IInv, PushCas, Goto, Threads
<1>1. p \in Active /\ slot[p] \in Blocks /\ m0 \in Table /\ slot[p] < end
  BY <1>0, BlockInTable DEF IInv, CellsReserved, Active
<1>2. Active' = Active
  BY <1>0 DEF Active, TypeOK, Threads
<1>3. \/ /\ stacks[m0] = NULL
         /\ stacks' = [stacks EXCEPT ![m0] = slot[p]]
         /\ oldStack' = [oldStack EXCEPT ![p] = slot[p]]
         /\ live' = live
      \/ /\ stacks[m0] # NULL
         /\ stacks' = stacks
         /\ oldStack' = [oldStack EXCEPT ![p] = stacks[m0]]
         /\ live' = live \ {slot[p]}
  BY DEF PushCas
<1>a. slot[p] # NULL /\ mainSlot(slot[p]) = m0
  BY <1>1, SizeAssumption DEF Blocks, NULL
<1> HIDE DEF m0
<1>8. ASSUME NEW k \in Blocks
      PROVE  At(k)' = At(k)
  <2>1. mainSlot(k) \in Table /\ subSlot(k) \in 0 .. unitSize - 1
    BY BlockInTable, Division, SizeAssumption DEF Blocks
  <2>2. CASE stacks'[mainSlot(k)] = stacks[mainSlot(k)]
    BY <1>0, <2>2 DEF At
  <2>3. CASE stacks'[mainSlot(k)] # stacks[mainSlot(k)]
    <3>1. stacks[mainSlot(k)] = NULL /\ stacks'[mainSlot(k)] = slot[p]
      BY <1>0, <1>1, <1>3, <2>1, <2>3 DEF TypeOK
    <3>2. \A m \in Table : stacks[m] # slot[p]
      BY <1>0, <1>a DEF IInv, BlocksPlaced
    <3>3. cell[slot[p]][subSlot(k)] = NoItem
      BY <1>1, <2>1, <3>2 DEF IInv, CellsFresh
    <3> QED
      BY <1>0, <1>a, <3>1, <3>3 DEF At
  <2> QED
    BY <2>2, <2>3
<1> QED
  BY <1>8

(* Winner and loser of the exchange go on with the installed block.         *)
LEMMA PushCasKeeps ==
  ASSUME IInv, NEW p \in Pushers, PushCas(p)
  PROVE  IInv'
<1> DEFINE m0 == mainSlot(slot[p])
<1>0. /\ p \in Threads /\ TypeOK
      /\ pc[p] = "cas" /\ pc' = [pc EXCEPT ![p] = "write"]
      /\ UNCHANGED <<end, cell, item, slot>>
  BY DEF IInv, PushCas, Goto, Threads
<1>1. p \in Active /\ slot[p] \in Blocks /\ m0 \in Table /\ slot[p] < end
  BY <1>0, BlockInTable DEF IInv, CellsReserved, Active
<1>2. Active' = Active
  BY <1>0 DEF Active, TypeOK, Threads
<1>3. \/ /\ stacks[m0] = NULL
         /\ stacks' = [stacks EXCEPT ![m0] = slot[p]]
         /\ oldStack' = [oldStack EXCEPT ![p] = slot[p]]
         /\ live' = live
      \/ /\ stacks[m0] # NULL
         /\ stacks' = stacks
         /\ oldStack' = [oldStack EXCEPT ![p] = stacks[m0]]
         /\ live' = live \ {slot[p]}
  BY DEF PushCas
<1>a. slot[p] # NULL /\ mainSlot(slot[p]) = m0
  BY <1>1, SizeAssumption DEF Blocks, NULL
<1> HIDE DEF m0
<1>4. TypeOK'
  <2>1. pc' \in [Threads -> PushPC \cup GetPC] /\ \A q \in Pushers : pc'[q] \in PushPC
    BY <1>0 DEF TypeOK, PushPC, Threads
  <2>2. \A r \in Readers : pc'[r] \in GetPC
    BY <1>0, ThreadsAssumption DEF TypeOK, Threads
  <2> QED
    BY <1>0, <1>1, <1>3, <2>1, <2>2 DEF TypeOK
<1>5. CellsReserved'
  BY <1>0, <1>2 DEF IInv, CellsReserved
<1>6. stacks'[m0] # NULL /\ oldStack'[p] = stacks'[m0]
  BY <1>0, <1>1, <1>3, <1>a DEF TypeOK
<1>7. BlocksPlaced'
  <2>1. \A q \in Pushers \ {p} : pc'[q] = pc[q] /\ oldStack'[q] = oldStack[q]
    BY <1>0, <1>3 DEF TypeOK, Threads
  <2>2. \A r \in Readers : pc'[r] = pc[r] /\ oldStack'[r] = oldStack[r]
    BY <1>0, <1>3, ThreadsAssumption DEF TypeOK, Threads
  <2>3. pc'[p] = "write"
    BY <1>0 DEF TypeOK
  <2>4. \A m \in Table : stacks[m] # NULL => stacks'[m] = stacks[m]
    BY <1>0, <1>1, <1>3 DEF TypeOK
  <2>5. \A q \in Pushers : pc[q] = "write" => mainSlot(slot[q]) \in Table
    BY BlockInTable DEF IInv, CellsReserved, Active
  <2>6. \A q \in Pushers : pc'[q] = "write" =>
          oldStack'[q] # NULL /\ oldStack'[q] = stacks'[mainSlot(slot[q])]
    BY <1>6, <2>1, <2>4, <2>5 DEF IInv, BlocksPlaced, m0
  <2>7. ASSUME NEW m \in Table, stacks'[m] # NULL
        PROVE  /\ mainSlot(stacks'[m]) = m /\ stacks'[m] < end
               /\ \A q \in Pushers : pc'[q] \in {"load", "cas"} => slot[q] # stacks'[m]
    <3>1. CASE stacks'[m] = stacks[m]
      BY <2>1, <2>3, <2>7, <3>1 DEF IInv, BlocksPlaced
    <3>2. CASE stacks'[m] # stacks[m]
      <4>1. m = m0 /\ stacks'[m] = slot[p]
        BY <1>0, <1>1, <1>3, <3>2 DEF TypeOK
      <4>2. \A q \in Pushers \ {p} : pc[q] \in {"load", "cas"} => slot[q] # slot[p]
        BY <1>1 DEF IInv, CellsReserved, Active
      <4> QED
        BY <1>1, <1>a, <2>1, <2>3, <4>1, <4>2
    <3> QED
      BY <3>1, <3>2
  <2> QED
    BY <1>0, <2>2, <2>6, <2>7 DEF IInv, BlocksPlaced
<1>8. \A k \in Blocks : At(k)' = At(k)
  BY PushCasSame
<1>9. CellsFresh'
  <2>1. ASSUME NEW q \in Active'
        PROVE  At(slot[q])' = NoItem
    <3>1. PICK k \in Blocks : k = slot[q] /\ At(k) = NoItem
      BY <1>2 DEF IInv, CellsFresh, CellsReserved
    <3>2. At(k)' = NoItem
      BY <1>8, <3>1
    <3> QED
      BY <1>0, <3>1, <3>2
  <2>2. \A k \in Blocks : k >= end' => At(k)' = NoItem
    BY <1>0, <1>8 DEF IInv, CellsFresh
  <2>3. \A c \in Blocks : (\A m \in Table : stacks'[m] # c) => (\A m \in Table : stacks[m] # c)
    BY <1>0, <1>1, <1>3, SizeAssumption DEF TypeOK, Blocks, NULL
  <2> QED
    BY <1>0, <2>1, <2>2, <2>3 DEF IInv, CellsFresh
<1> QED
  BY <1>4, <1>5, <1>7, <1>9 DEF IInv

(* A write fills the cell of its push and no other.                         *)
LEMMA PushWriteStores ==
  ASSUME IInv, NEW p \in Pushers, PushWrite(p)
  PROVE  /\ slot[p] \in Blocks /\ item[p] \in Items
         /\ At(slot[p]) = NoItem
         /\ \A k \in Blocks : At(k)' = IF k = slot[p] THEN item[p] ELSE At(k)
         /\ stacks' = stacks
<1> DEFINE b == oldStack[p]
           j == subSlot(slot[p])
<1>0. /\ p \in Threads /\ TypeOK
      /\ pc[p] = "write"
      /\ cell' = [cell EXCEPT ![b][j] = item[p]]
      /\ stacks' = stacks
  BY DEF IInv, PushWrite, Goto, Threads
<1>1. p \in Active /\ slot[p] \in Blocks /\ mainSlot(slot[p]) \in Table
  BY <1>0, BlockInTable DEF IInv, CellsReserved, Active
<1>2. b \in Blocks /\ b = stacks[mainSlot(slot[p])] /\ b # NULL
  BY <1>0, <1>1 DEF IInv, BlocksPlaced, TypeOK
<1>3. At(slot[p]) = NoItem
  BY <1>1 DEF IInv, CellsFresh
<1>4. ASSUME NEW k \in Blocks
      PROVE  At(k)' = IF k = slot[p] THEN item[p] ELSE At(k)
  <2>1. k \in Nat /\ slot[p] \in Nat
    BY <1>1, SizeAssumption DEF Blocks
  <2>2. /\ mainSlot(k) \in Table
        /\ subSlot(k) \in 0 .. unitSize - 1 /\ j \in 0 .. unitSize - 1
    BY <2>1, BlockInTable, Division
  <2>3. mainSlot(k) = mainSlot(slot[p]) /\ subSlot(k) = j => k = slot[p]
    BY <2>1, Division
  <2>4. stacks[mainSlot(k)] = b => mainSlot(k) = mainSlot(slot[p])
    BY <1>1, <1>2, <2>2 DEF IInv, BlocksPlaced
  <2>5. stacks[mainSlot(k)] \in Blocks \cup {NULL}
    BY <1>0, <2>2 DEF TypeOK
  <2> HIDE DEF b, j
  <2>6. CASE k = slot[p]
    BY <1>0, <1>2, <2>2, <2>6 DEF At, TypeOK, j
  <2>7. CASE k # slot[p] /\ stacks[mainSlot(k)] = b
    <3>1. subSlot(k) # j
      BY <2>3, <2>4, <2>7
    <3>2. cell'[b][subSlot(k)] = cell[b][subSlot(k)]
      BY <1>0, <1>2, <2>2, <3>1 DEF TypeOK
    <3> QED
      BY <1>0, <1>2, <2>7, <3>2 DEF At
  <2>8. CASE k # slot[p] /\ stacks[mainSlot(k)] # b
    <3>1. CASE stacks[mainSlot(k)] = NULL
      BY <1>0, <2>8, <3>1 DEF At
    <3>2. CASE stacks[mainSlot(k)] # NULL
      <4>1. cell'[stacks[mainSlot(k)]] = cell[stacks[mainSlot(k)]]
        BY <1>0, <1>2, <2>5, <2>8, <3>2 DEF TypeOK
      <4> QED
        BY <1>0, <2>8, <4>1 DEF At
    <3> QED
      BY <3>1, <3>2
  <2> QED
    BY <2>6, <2>7, <2>8
<1>5. item[p] \in Items
  BY <1>1 DEF IInv, CellsReserved
<1> QED
  BY <1>0, <1>1, <1>3, <1>4, <1>5

(* The write of a push leaves the cells of the others as they were.         *)
LEMMA PushWriteKeeps ==
  ASSUME IInv, NEW p \in Pushers, PushWrite(p)
  PROVE  IInv'
<1> DEFINE b == oldStack[p]
           j == subSlot(slot[p])
<1>0. /\ p \in Threads /\ TypeOK
      /\ pc[p] = "write" /\ pc' = [pc EXCEPT ![p] = "idle"]
      /\ cell' = [cell EXCEPT ![b][j] = item[p]]
      /\ UNCHANGED <<end, stacks, live, item, slot, oldStack>>
  BY DEF IInv, PushWrite, Goto, Threads
<1>1. p \in Active /\ slot[p] \in Blocks /\ mainSlot(slot[p]) \in Table /\ slot[p] < end
  BY <1>0, BlockInTable DEF IInv, CellsReserved, Active
<1>2. b \in Blocks /\ b = stacks[mainSlot(slot[p])] /\ j \in 0 .. unitSize - 1
  <2>1. slot[p] \in Nat
    BY <1>1, SizeAssumption DEF Blocks
  <2> QED
    BY <1>0, <1>1, <2>1, Division DEF IInv, BlocksPlaced, TypeOK
<1> HIDE DEF b, j
<1>3. Active' = Active \ {p}
  BY <1>0 DEF Active, TypeOK, Threads
<1>4. TypeOK'
  <2>1. pc' \in [Threads -> PushPC \cup GetPC] /\ \A q \in Pushers : pc'[q] \in PushPC
    BY <1>0 DEF TypeOK, PushPC, Threads
  <2>2. \A r \in Readers : pc'[r] \in GetPC
    BY <1>0, ThreadsAssumption DEF TypeOK, Threads
  <2>3. cell' \in [Blocks -> [0 .. unitSize - 1 -> Items \cup {NoItem}]]
    BY <1>0, <1>2 DEF TypeOK
  <2> QED
    BY <1>0, <2>1, <2>2, <2>3 DEF TypeOK
<1>5. CellsReserved'
  BY <1>0, <1>3 DEF IInv, CellsReserved
<1>6. BlocksPlaced'
  <2>1. \A q \in Pushers \ {p} : pc'[q] = pc[q]
    BY <1>0 DEF TypeOK, Threads
  <2>2. \A r \in Readers : pc'[r] = pc[r]
    BY <1>0, ThreadsAssumption DEF TypeOK, Threads
  <2>3. pc'[p] = "idle"
    BY <1>0 DEF TypeOK
  <2> QED
    BY <1>0, <2>1, <2>2, <2>3 DEF IInv, BlocksPlaced
<1>7. CellsFresh'
  <2>1. \A k \in Blocks \ {slot[p]} : At(k)' = At(k)
    BY PushWriteStores
  <2>2. ASSUME NEW q \in Active'
        PROVE  At(slot[q])' = NoItem
    <3>1. PICK k \in Blocks \ {slot[p]} : k = slot[q] /\ At(k) = NoItem
      BY <1>1, <1>3 DEF IInv, CellsFresh, CellsReserved
    <3>2. At(k)' = NoItem
      BY <2>1, <3>1
    <3> QED
      BY <1>0, <3>1, <3>2
  <2>3. \A k \in Blocks : k >= end' => At(k)' = NoItem
    BY <1>0, <1>1, <2>1 DEF IInv, CellsFresh, TypeOK, Blocks
  <2>4. \A c \in Blocks \ {b} : cell'[c] = cell[c]
    BY <1>0, <1>2 DEF TypeOK
  <2> QED
    BY <1>0, <1>1, <1>2, <2>2, <2>3, <2>4 DEF IInv, CellsFresh
<1> QED
  BY <1>4, <1>5, <1>6, <1>7 DEF IInv

(* What a get can change: its own place and its locals.                     *)
LEMMA GetSteps ==
  ASSUME IInv, NEW r \in Readers, Get(r)
  PROVE  /\ r \in Threads \ Pushers
         /\ UNCHANGED <<end, stacks, cell, live>>
         /\ \E to \in GetPC : pc' = [pc EXCEPT ![r] = to]
         /\ \E k \in 0 .. MaxPush : slot' = [slot EXCEPT ![r] = k]
         /\ \E x \in Items \cup {NoItem} : item' = [item EXCEPT ![r] = x]
         /\ \E b \in Blocks \cup {NULL} : oldStack' = [oldStack EXCEPT ![r] = b]
         /\ pc'[r] = "get_read" => oldStack'[r] # NULL
<1>0. TypeOK /\ r \in Threads \ Pushers
  BY ThreadsAssumption DEF IInv, Threads
<1>a. /\ slot = [slot EXCEPT ![r] = slot[r]] /\ slot[r] \in 0 .. MaxPush
      /\ item = [item EXCEPT ![r] = item[r]] /\ item[r] \in Items \cup {NoItem}
      /\ oldStack = [oldStack EXCEPT ![r] = oldStack[r]] /\ oldStack[r] \in Blocks \cup {NULL}
  BY <1>0 DEF TypeOK
<1>1. ASSUME NEW k \in 0 .. end - 1, GetStart(r, k)
      PROVE  /\ UNCHANGED <<end, stacks, cell, live, oldStack>>
             /\ pc' = [pc EXCEPT ![r] = IF k > max_size THEN "idle" ELSE "get_load"]
             /\ k \in 0 .. MaxPush /\ slot' = [slot EXCEPT ![r] = k]
             /\ item' = [item EXCEPT ![r] = NoItem]
  BY <1>0, <1>1, BoundsAssumption DEF GetStart, Goto, TypeOK
<1>2. ASSUME GetLoad(r)
      PROVE  \E b \in Blocks \cup {NULL} :
               /\ UNCHANGED <<end, stacks, cell, live, slot, item>>
               /\ pc' = [pc EXCEPT ![r] = IF b = NULL THEN "idle" ELSE "get_read"]
               /\ oldStack' = [oldStack EXCEPT ![r] = b]
  <2>1. Entries(slot[r]) \subseteq Blocks \cup {NULL}
    BY <1>0 DEF Entries, InTable, TypeOK
  <2> QED
    BY <1>2, <2>1 DEF GetLoad, Goto
<1>3. ASSUME GetRead(r)
      PROVE  /\ UNCHANGED <<end, stacks, cell, live, slot, oldStack>>
             /\ pc' = [pc EXCEPT ![r] = "got"]
             /\ \E x \in Items \cup {NoItem} : item' = [item EXCEPT ![r] = x]
  <2>1. pc[r] = "get_read" /\ oldStack[r] \in Blocks
    BY <1>0, <1>3 DEF GetRead, Goto, IInv, BlocksPlaced, TypeOK
  <2>2. subSlot(slot[r]) \in 0 .. unitSize - 1
    BY <1>0, BoundsAssumption, Division DEF TypeOK
  <2> QED
    BY <1>0, <1>3, <2>1, <2>2, ZenonT(30) DEF GetRead, Goto, TypeOK
<1>4. ASSUME GetReturn(r)
      PROVE  /\ UNCHANGED <<end, stacks, cell, live, slot, oldStack, item>>
             /\ pc' = [pc EXCEPT ![r] = "idle"]
  BY <1>4 DEF GetReturn, Goto
<1>5. ASSUME NEW to, pc' = [pc EXCEPT ![r] = to]
      PROVE  pc'[r] = to
  BY <1>0, <1>5 DEF TypeOK
<1>6. CASE \E k \in 0 .. end - 1 : GetStart(r, k)
  BY <1>0, <1>1, <1>5, <1>6, <1>a DEF GetPC
<1>7. CASE GetLoad(r)
  <2>1. PICK b \in Blocks \cup {NULL} :
               /\ UNCHANGED <<end, stacks, cell, live, slot, item>>
               /\ pc' = [pc EXCEPT ![r] = IF b = NULL THEN "idle" ELSE "get_read"]
               /\ oldStack' = [oldStack EXCEPT ![r] = b]
    BY <1>2, <1>7
  <2>2. oldStack'[r] = b
    BY <1>0, <2>1 DEF TypeOK
  <2>3. CASE b = NULL
    <3>1. pc' = [pc EXCEPT ![r] = "idle"] /\ "idle" \in GetPC
      BY <2>1, <2>3 DEF GetPC
    <3>2. pc'[r] = "idle"
      BY <1>5, <3>1
    <3> QED
      BY <1>0, <1>a, <2>1, <3>1, <3>2
  <2>4. CASE b # NULL
    <3>1. pc' = [pc EXCEPT ![r] = "get_read"] /\ "get_read" \in GetPC
      BY <2>1, <2>4 DEF GetPC
    <3> QED
      BY <1>0, <1>a, <2>1, <2>2, <2>4, <3>1
  <2> QED
    BY <2>3, <2>4
<1>8. CASE GetRead(r)
  BY <1>0, <1>3, <1>5, <1>8, <1>a DEF GetPC
<1>9. CASE GetReturn(r)
  BY <1>0, <1>4, <1>5, <1>9, <1>a DEF GetPC
<1> QED
  BY <1>6, <1>7, <1>8, <1>9 DEF Get

(* A get changes nothing that a push relies on.                             *)
LEMMA GetKeeps ==
  ASSUME IInv, NEW r \in Readers, Get(r)
  PROVE  IInv'
<1>0. /\ r \in Threads \ Pushers /\ TypeOK
      /\ UNCHANGED <<end, stacks, cell, live>>
  BY GetSteps DEF IInv
<1>1. PICK to \in GetPC : pc' = [pc EXCEPT ![r] = to]
  BY GetSteps
<1>2. PICK k \in 0 .. MaxPush : slot' = [slot EXCEPT ![r] = k]
  BY GetSteps
<1>3. PICK x \in Items \cup {NoItem} : item' = [item EXCEPT ![r] = x]
  BY GetSteps
<1>4. PICK b \in Blocks \cup {NULL} : oldStack' = [oldStack EXCEPT ![r] = b]
  BY GetSteps
<1>5. \A t \in Threads \ {r} :
        pc'[t] = pc[t] /\ slot'[t] = slot[t] /\ item'[t] = item[t] /\ oldStack'[t] = oldStack[t]
  BY <1>0, <1>1, <1>2, <1>3, <1>4 DEF TypeOK
<1>6. Active' = Active /\ Pushers \subseteq Threads \ {r} /\ Active \subseteq Pushers
  BY <1>0, <1>5 DEF Active, Threads
<1>7. TypeOK'
  <2>1. pc' \in [Threads -> PushPC \cup GetPC] /\ pc'[r] \in GetPC
    BY <1>0, <1>1 DEF TypeOK
  <2>2. /\ \A q \in Pushers : pc'[q] \in PushPC
        /\ \A q \in Readers : pc'[q] \in GetPC
    BY <1>0, <1>5, <1>6, <2>1 DEF TypeOK, Threads
  <2> QED
    BY <1>0, <1>2, <1>3, <1>4, <2>1, <2>2 DEF TypeOK
<1>8. CellsReserved'
  BY <1>0, <1>5, <1>6 DEF IInv, CellsReserved
<1>9. BlocksPlaced'
  <2>1. \A q \in Readers : pc'[q] = "get_read" => oldStack'[q] # NULL
    BY <1>5, GetSteps DEF IInv, BlocksPlaced, Threads
  <2> QED
    BY <1>0, <1>5, <1>6, <2>1 DEF IInv, BlocksPlaced
<1>10. CellsFresh'
  BY <1>0, <1>5, <1>6 DEF IInv, CellsFresh, At
<1> QED
  BY <1>7, <1>8, <1>9, <1>10 DEF IInv

(* Every step keeps the invariant.                                          *)
LEMMA NextIInv == IInv /\ [Next]_vars => IInv'
<1> SUFFICES ASSUME IInv, [Next]_vars
             PROVE  IInv'
  OBVIOUS
<1>1. ASSUME NEW p \in Pushers, Push(p)
      PROVE  IInv'
  BY <1>1, PushReserveKeeps, PushLoadKeeps, PushCasKeeps, PushWriteKeeps DEF Push
<1>2. ASSUME NEW r \in Readers, Get(r)
      PROVE  IInv'
  BY <1>2, GetKeeps
<1>3. CASE UNCHANGED vars
  BY <1>3 DEF vars, IInv, TypeOK, CellsReserved, BlocksPlaced, CellsFresh, Active, At
<1> QED
  BY <1>1, <1>2, <1>3 DEF Next, Rest

(* The inductive invariant: pushes have distinct cells, blocks are where    *)
(* their slots say, and cells stay empty until their push writes them.      *)
THEOREM Inductive == Spec => []IInv
BY InitIInv, NextIInv, PTL DEF Spec

(* Counters, tokens and blocks keep their types, for any number of threads: *)
(* in particular a push that has passed the test of the capacity stays in   *)
(* the table.                                                               *)
THEOREM TypeCorrect == Spec => []TypeOK
BY Inductive, PTL DEF IInv

-----------------------------------------------------------------------------
(* The refinement *)

(* A push-only store is an array whose cells are written once: whatever     *)
(* pushes race for a block, no element is lost and none overwritten.        *)
THEOREM StoreIsArray == Spec => ImplementsCells
<1>1. Init => Cells!Init
  <2> SUFFICES ASSUME Init
               PROVE  Cells!Init
    OBVIOUS
  <2>1. \A k \in Blocks : At(k) = NoItem
    BY BlockInTable DEF Init, At
  <2> QED
    BY <2>1 DEF Cells!Init, Blocks
<1>2. IInv /\ [Next]_vars => [Cells!Next]_[k \in Blocks |-> At(k)]
  <2> SUFFICES ASSUME IInv, [Next]_vars
               PROVE  [Cells!Next]_[k \in Blocks |-> At(k)]
    OBVIOUS
  <2> DEFINE Same == \A k \in Blocks : At(k)' = At(k)
  <2>1. ASSUME NEW p \in Pushers, PushWrite(p)
        PROVE  Cells!Next
    <3>1. /\ slot[p] \in Blocks /\ item[p] \in Items
          /\ At(slot[p]) = NoItem
          /\ \A k \in Blocks : At(k)' = IF k = slot[p] THEN item[p] ELSE At(k)
      BY <2>1, PushWriteStores
    <3>2. [k \in Blocks |-> At(k)'] = [[k \in Blocks |-> At(k)] EXCEPT ![slot[p]] = item[p]]
      BY <3>1
    <3> QED
      BY <3>1, <3>2 DEF Cells!Next, Cells!Store, Blocks
  <2>2. ASSUME UNCHANGED <<stacks, cell>>
        PROVE  Same
    BY <2>2 DEF At
  <2>3. ASSUME NEW p \in Pushers, PushCas(p)
        PROVE  Same
    BY <2>3, PushCasSame
  <2>4. Cells!Next \/ Same
    <3>1. ASSUME NEW p \in Pushers, NEW x \in Items, PushReserve(p, x)
          PROVE  Same
      BY <2>2, <3>1 DEF PushReserve
    <3>2. ASSUME NEW p \in Pushers, PushLoad(p)
          PROVE  Same
      BY <2>2, <3>2 DEF PushLoad
    <3>3. ASSUME NEW r \in Readers, Get(r)
          PROVE  Same
      BY <2>2, <3>3, GetSteps
    <3>4. CASE UNCHANGED vars
      BY <2>2, <3>4 DEF vars
    <3> QED
      BY <2>1, <2>3, <3>1, <3>2, <3>3, <3>4 DEF Next, Push, Rest
  <2>5. Same => [k \in Blocks |-> At(k)]' = [k \in Blocks |-> At(k)]
    OBVIOUS
  <2> QED
    BY <2>4, <2>5
<1> QED
  BY <1>1, <1>2, Inductive, PTL DEF Spec, ImplementsCells, Cells!Spec

-----------------------------------------------------------------------------
(* Deleted blocks *)

Installed == {stacks[m] : m \in Table} \ {NULL}
Allocating == {slot[p] : p \in {q \in Pushers : pc[q] = "cas"}}

(* Blocks that exist are in the table or in the hands of the push that has  *)
(* allocated them, and a get has a block of the table.                      *)
BlocksLive ==
  /\ \A r \in Readers : pc[r] = "get_load" => InTable(slot[r])
  /\ \A r \in Readers : pc[r] = "get_read" => oldStack[r] \in Installed
  /\ live = Installed \cup Allocating

(* Steps of a push that allocate and delete nothing.                        *)
LEMMA PushKeepsLive ==
  ASSUME IInv, BlocksLive, NEW p \in Pushers,
         (\E x \in Items : PushReserve(p, x)) \/ PushWrite(p)
  PROVE  BlocksLive'
<1>1. /\ TypeOK /\ p \in Threads /\ p \notin Readers /\ pc[p] \in {"idle", "write"}
      /\ UNCHANGED <<stacks, live, oldStack>>
  BY ThreadsAssumption DEF IInv, PushReserve, PushWrite, Goto, Threads
<1>2. PICK to \in {"idle", "load"} : pc' = [pc EXCEPT ![p] = to]
  BY DEF PushReserve, PushWrite, Goto
<1>3. \A t \in Threads \ {p} : pc'[t] = pc[t] /\ slot'[t] = slot[t]
  BY <1>1, <1>2 DEF TypeOK, PushReserve, PushWrite
<1>4. pc'[p] = to
  BY <1>1, <1>2 DEF TypeOK
<1>5. Allocating' = Allocating /\ Installed' = Installed
  BY <1>1, <1>2, <1>3, <1>4 DEF Allocating, Installed, Threads
<1> QED
  BY <1>1, <1>3, <1>5 DEF BlocksLive, InTable, Threads

(* The load that finds no block allocates one.                              *)
LEMMA PushLoadKeepsLive ==
  ASSUME IInv, BlocksLive, NEW p \in Pushers, PushLoad(p)
  PROVE  BlocksLive'
<1> DEFINE b == stacks[mainSlot(slot[p])]
<1>1. /\ TypeOK /\ p \in Threads /\ p \notin Readers /\ pc[p] = "load"
      /\ pc' = [pc EXCEPT ![p] = IF b = NULL THEN "cas" ELSE "write"]
      /\ oldStack' = [oldStack EXCEPT ![p] = b]
      /\ live' = IF b = NULL THEN live \cup {slot[p]} ELSE live
      /\ UNCHANGED <<stacks, slot>>
  BY ThreadsAssumption DEF IInv, PushLoad, Goto, Threads
<1> HIDE DEF b
<1>2. \A t \in Threads \ {p} : pc'[t] = pc[t] /\ oldStack'[t] = oldStack[t]
  BY <1>1 DEF TypeOK
<1>3. pc'[p] = IF b = NULL THEN "cas" ELSE "write"
  BY <1>1 DEF TypeOK
<1>4. Installed' = Installed
  BY <1>1 DEF Installed
<1>5. Allocating' = IF b = NULL THEN Allocating \cup {slot[p]} ELSE Allocating
  BY <1>1, <1>2, <1>3 DEF Allocating, Threads
<1> QED
  BY <1>1, <1>2, <1>4, <1>5 DEF BlocksLive, InTable, Threads

(* The winner's block is installed, the loser's deleted and used by nobody. *)
LEMMA PushCasKeepsLive ==
  ASSUME IInv, BlocksLive, NEW p \in Pushers, PushCas(p)
  PROVE  BlocksLive'
<1> DEFINE m0 == mainSlot(slot[p])
<1>1. /\ TypeOK /\ p \in Threads /\ p \notin Readers /\ p \in Active
      /\ pc[p] = "cas" /\ pc' = [pc EXCEPT ![p] = "write"]
      /\ UNCHANGED slot
  BY ThreadsAssumption DEF IInv, PushCas, Goto, Threads, Active
<1>2. slot[p] \in Blocks /\ m0 \in Table /\ slot[p] # NULL
  BY <1>1, BlockInTable, SizeAssumption DEF IInv, CellsReserved, Blocks, NULL
<1>3. \/ /\ stacks[m0] = NULL
         /\ stacks' = [stacks EXCEPT ![m0] = slot[p]]
         /\ oldStack' = [oldStack EXCEPT ![p] = slot[p]]
         /\ live' = live
      \/ /\ stacks[m0] # NULL
         /\ stacks' = stacks
         /\ oldStack' = [oldStack EXCEPT ![p] = stacks[m0]]
         /\ live' = live \ {slot[p]}
  BY DEF PushCas
<1> HIDE DEF m0
<1>4. \A t \in Threads \ {p} : pc'[t] = pc[t] /\ oldStack'[t] = oldStack[t]
  BY <1>1, <1>3 DEF TypeOK
<1>5. pc'[p] = "write"
  BY <1>1 DEF TypeOK
<1>6. \A q \in Pushers \ {p} : pc[q] = "cas" => slot[q] # slot[p]
  BY <1>1 DEF IInv, CellsReserved, Active
<1>7. Allocating' = Allocating \ {slot[p]} /\ slot[p] \in Allocating
  BY <1>1, <1>4, <1>5, <1>6 DEF Allocating, Threads
<1>8. CASE stacks[m0] = NULL
  <2>1. /\ stacks'[m0] = slot[p] /\ \A m \in Table \ {m0} : stacks'[m] = stacks[m]
        /\ live' = live
    BY <1>1, <1>2, <1>3, <1>8 DEF TypeOK
  <2>2. Installed' = Installed \cup {slot[p]}
    BY <1>2, <1>8, <2>1 DEF Installed
  <2> QED
    BY <1>1, <1>4, <1>7, <2>1, <2>2 DEF BlocksLive, InTable, Threads
<1>9. CASE stacks[m0] # NULL
  <2>1. Installed' = Installed /\ live' = live \ {slot[p]}
    BY <1>3, <1>9 DEF Installed
  <2>2. slot[p] \notin Installed
    BY <1>1, <1>2 DEF IInv, BlocksPlaced, Installed
  <2> QED
    BY <1>1, <1>4, <1>7, <2>1, <2>2 DEF BlocksLive, InTable, Threads
<1> QED
  BY <1>8, <1>9

(* A get takes its block from the table.                                    *)
LEMMA GetKeepsLive ==
  ASSUME IInv, BlocksLive, NEW r \in Readers, Get(r),
         mainSlot(max_size) \in Table \/ MaxPush <= max_size
  PROVE  BlocksLive'
<1>1. /\ TypeOK /\ r \in Threads /\ r \notin Pushers
      /\ UNCHANGED <<stacks, live>>
  BY GetSteps DEF IInv
<1>2. \A t \in Threads \ {r} :
        pc'[t] = pc[t] /\ slot'[t] = slot[t] /\ oldStack'[t] = oldStack[t]
  BY <1>1, GetSteps DEF TypeOK
<1>3. Allocating' = Allocating /\ Installed' = Installed
  BY <1>1, <1>2 DEF Allocating, Installed, Threads
<1>4. pc'[r] = "get_load" => InTable(slot'[r])
  <2>1. CASE \E k \in 0 .. end - 1 : GetStart(r, k)
    <3>1. PICK k \in 0 .. end - 1 : GetStart(r, k)
      BY <2>1
    <3>2. /\ slot'[r] = k /\ k \in Nat /\ k < MaxPush
          /\ pc'[r] = "get_load" => k <= max_size
      BY <1>1, <3>1, BoundsAssumption, SizeAssumption DEF GetStart, Goto, TypeOK
    <3>3. k < max_size => mainSlot(k) \in Table
      BY <3>2, BlockInTable, SizeAssumption DEF Blocks
    <3>4. k <= max_size => k < max_size \/ (k = max_size /\ ~(MaxPush <= max_size))
      BY <3>2, BoundsAssumption, SizeAssumption
    <3> QED
      BY <3>2, <3>3, <3>4 DEF InTable
  <2>2. CASE GetLoad(r) \/ GetRead(r) \/ GetReturn(r)
    BY <1>1, <2>2 DEF GetLoad, GetRead, GetReturn, Goto, TypeOK
  <2> QED
    BY <2>1, <2>2 DEF Get
<1>5. pc'[r] = "get_read" => oldStack'[r] \in Installed
  <2>1. CASE GetLoad(r)
    <3>1. InTable(slot[r])
      BY <2>1 DEF GetLoad, Goto, BlocksLive
    <3>2. PICK b : b = stacks[mainSlot(slot[r])] /\ pc' = [pc EXCEPT ![r] = IF b = NULL THEN "idle" ELSE "get_read"]
                   /\ oldStack' = [oldStack EXCEPT ![r] = b]
      BY <2>1, <3>1 DEF GetLoad, Goto, Entries
    <3>3. oldStack'[r] = b /\ (pc'[r] = "get_read" => b # NULL)
      BY <1>1, <3>2 DEF TypeOK
    <3> QED
      BY <3>1, <3>2, <3>3 DEF Installed, InTable
  <2>2. CASE (\E k \in 0 .. end - 1 : GetStart(r, k)) \/ GetRead(r) \/ GetReturn(r)
    BY <1>1, <2>2 DEF GetStart, GetRead, GetReturn, Goto, TypeOK
  <2> QED
    BY <2>1, <2>2 DEF Get
<1> QED
  BY <1>1, <1>2, <1>3, <1>4, <1>5 DEF BlocksLive, InTable, Threads

(* No thread uses a deleted block and no block is leaked, for any number of *)
(* threads, as long as every token that get accepts lies in the table: the  *)
(* token max_size does unless the blocks divide the capacity, and it is     *)
(* never asked for unless a push has been refused.                          *)
THEOREM NoBlockDangles ==
  ASSUME mainSlot(max_size) \in Table \/ MaxPush <= max_size
  PROVE  Spec => []NoDanglingBlock
<1>1. Init => BlocksLive
  BY DEF Init, BlocksLive, Installed, Allocating, Threads
<1>2. IInv /\ BlocksLive /\ [Next]_vars => BlocksLive'
  <2> SUFFICES ASSUME IInv, BlocksLive, [Next]_vars
               PROVE  BlocksLive'
    OBVIOUS
  <2>1. ASSUME NEW p \in Pushers, Push(p)
        PROVE  BlocksLive'
    BY <2>1, PushKeepsLive, PushLoadKeepsLive, PushCasKeepsLive DEF Push
  <2>2. ASSUME NEW r \in Readers, Get(r)
        PROVE  BlocksLive'
    BY <2>2, GetKeepsLive
  <2>3. CASE UNCHANGED vars
    BY <2>3 DEF vars, BlocksLive, Installed, Allocating, InTable
  <2> QED
    BY <2>1, <2>2, <2>3 DEF Next, Rest
<1>3. IInv /\ BlocksLive => NoDanglingBlock
  <2> SUFFICES ASSUME IInv, BlocksLive
               PROVE  NoDanglingBlock
    OBVIOUS
  <2>1. \A p \in Pushers : pc[p] = "write" => oldStack[p] \in Installed
    BY BlockInTable DEF IInv, BlocksPlaced, CellsReserved, Active, Installed
  <2>2. \A p \in Pushers : pc[p] # "get_read"
    BY DEF IInv, TypeOK, PushPC
  <2>3. \A r \in Readers : pc[r] # "write"
    BY DEF IInv, TypeOK, GetPC
  <2> QED
    BY <2>1, <2>2, <2>3 DEF BlocksLive, NoDanglingBlock, Installed, Allocating, Threads
<1> QED
  BY <1>1, <1>2, <1>3, Inductive, PTL DEF Spec

-----------------------------------------------------------------------------
(* SlowQueue *)

(* The ring as seen by its users: what an operation does to the occupied    *)
(* slots, whichever branch it takes.                                        *)
InRing == head \in 0 .. maxSize - 1 /\ tail \in 0 .. maxSize - 1

(* A push on a ring that is not full occupies one more slot, tail.          *)
LEMMA PushOccupies ==
  ASSUME InRing, NEW x \in Elements, push(x)
  PROVE  /\ InRing'
         /\ tail \notin Occupied
         /\ Occupied' = Occupied \cup {tail}
         /\ size' = size + 1
         /\ size < maxSize
<1> USE RingAssumption DEF InRing
<1>1. InRing'
  BY DEF push, Advance
<1>2. CASE head = 0 /\ Advance(tail) = 0
  <2>1. head' = 1 /\ tail' = 1 /\ tail = maxSize - 1
    BY <1>2 DEF push, Advance
  <2>2. ~IsEmpty /\ ~IsFull /\ head < tail /\ IsFull' /\ ~IsEmpty'
    BY <1>2, <2>1 DEF IsEmpty, IsFull
  <2>3. Occupied = 0 .. maxSize - 2 /\ Occupied' = 0 .. maxSize - 1
    BY <1>2, <2>1, <2>2 DEF Occupied, IsEmpty, IsFull
  <2>4. size = maxSize - 1 /\ size' = maxSize
    BY <1>2, <2>1, <2>2 DEF size, IsEmpty, IsFull
  <2> QED
    BY <1>1, <2>1, <2>3, <2>4
<1>3. CASE ~(head = 0 /\ Advance(tail) = 0)
  <2>1. head' = head /\ tail' = Advance(tail)
    BY <1>3 DEF push
  <2>2. CASE IsEmpty
    <3>1. head = 0 /\ tail = 0 /\ head' = 0 /\ tail' = 1
      BY <2>1, <2>2 DEF IsEmpty, Advance
    <3>2. ~IsEmpty' /\ ~IsFull' /\ ~IsFull
      BY <3>1 DEF IsEmpty, IsFull
    <3>3. Occupied = {} /\ size = 0
      BY <2>2 DEF Occupied, size, IsEmpty, IsFull
    <3>4. Occupied' = 0 .. 0 /\ size' = 1
      BY <3>1, <3>2 DEF Occupied, size, IsEmpty, IsFull
    <3> QED
      BY <1>1, <3>1, <3>3, <3>4
  <2>3. CASE ~IsEmpty /\ head < tail /\ tail < maxSize - 1
    <3>1. head' = head /\ tail' = tail + 1
      BY <2>1, <2>3 DEF Advance
    <3>2. ~IsEmpty' /\ ~IsFull' /\ ~IsFull
      BY <2>3, <3>1 DEF IsEmpty, IsFull
    <3>3. Occupied = head .. tail - 1 /\ size = tail - head
      BY <2>3, <3>2 DEF Occupied, size, IsEmpty, IsFull
    <3>4. Occupied' = head .. tail /\ size' = tail + 1 - head
      BY <2>3, <3>1, <3>2 DEF Occupied, size, IsEmpty, IsFull
    <3> QED
      BY <1>1, <2>3, <3>3, <3>4
  <2>4. CASE ~IsEmpty /\ head < tail /\ tail = maxSize - 1
    <3>1. head' = head /\ tail' = 0 /\ head > 0
      BY <1>3, <2>1, <2>4 DEF Advance
    <3>2. ~IsEmpty' /\ ~IsFull' /\ ~IsFull
      BY <2>4, <3>1 DEF IsEmpty, IsFull
    <3>3. Occupied = head .. tail - 1 /\ size = tail - head
      BY <2>4, <3>2 DEF Occupied, size, IsEmpty, IsFull
    <3>4. Occupied' = (0 .. maxSize - 1) \ (0 .. head - 1) /\ size' = maxSize - head
      BY <2>4, <3>1, <3>2 DEF Occupied, size, IsEmpty, IsFull
    <3> QED
      BY <1>1, <2>4, <3>1, <3>3, <3>4
  <2>5. CASE head > tail
    <3>1. head' = head /\ tail' = tail + 1
      BY <2>1, <2>5 DEF Advance
    <3>2. ~IsEmpty /\ ~IsFull /\ ~IsEmpty'
      BY <2>5, <3>1 DEF IsEmpty, IsFull
    <3>3. Occupied = (0 .. maxSize - 1) \ (tail .. head - 1) /\ size = tail - head + maxSize
      BY <2>5, <3>2 DEF Occupied, size, IsEmpty, IsFull
    <3>4. CASE tail + 1 = head
      <4>1. Occupied' = 0 .. maxSize - 1 /\ size' = maxSize
        BY <2>5, <3>1, <3>4 DEF Occupied, size, IsEmpty, IsFull
      <4> QED
        BY <1>1, <2>5, <3>3, <3>4, <4>1
    <3>5. CASE tail + 1 < head
      <4>1. ~IsFull'
        BY <3>1, <3>5 DEF IsFull
      <4>2. /\ Occupied' = (0 .. maxSize - 1) \ (tail + 1 .. head - 1)
            /\ size' = tail + 1 - head + maxSize
        BY <3>1, <3>2, <3>5, <4>1 DEF Occupied, size, IsEmpty, IsFull
      <4> QED
        BY <1>1, <2>5, <3>3, <3>5, <4>2
    <3> QED
      BY <2>5, <3>4, <3>5
  <2>6. ~IsFull
    BY DEF push
  <2> QED
    BY <2>2, <2>3, <2>4, <2>5, <2>6 DEF IsEmpty, IsFull
<1> QED
  BY <1>2, <1>3

(* A pop on a ring that is not empty frees one slot, head.                  *)
LEMMA PopFrees ==
  ASSUME InRing, pop
  PROVE  /\ InRing'
         /\ head \in Occupied
         /\ Occupied' = Occupied \ {head}
         /\ size' = size - 1
<1> USE RingAssumption DEF InRing
<1>1. InRing'
  BY DEF pop, Advance
<1>2. CASE Advance(head) = tail
  <2>1. head' = 0 /\ tail' = 0
    BY <1>2 DEF pop
  <2>2. Occupied' = {} /\ size' = 0
    BY <2>1 DEF Occupied, size, IsEmpty, IsFull
  <2>3. Occupied = {head} /\ size = 1
    <3>1. CASE head = maxSize - 1
      <4>1. tail = 0 /\ head > tail /\ ~IsEmpty /\ ~IsFull
        BY <1>2, <3>1 DEF Advance, IsEmpty, IsFull
      <4>2. Occupied = (0 .. maxSize - 1) \ (0 .. maxSize - 2) /\ size = 1
        BY <3>1, <4>1 DEF Occupied, size, IsEmpty, IsFull
      <4> QED
        BY <3>1, <4>2
    <3>2. CASE head # maxSize - 1
      <4>1. tail = head + 1 /\ ~IsEmpty /\ ~IsFull
        BY <1>2, <3>2 DEF Advance, IsEmpty, IsFull
      <4>2. Occupied = head .. head /\ size = 1
        BY <4>1 DEF Occupied, size, IsEmpty, IsFull
      <4> QED
        BY <4>2
    <3> QED
      BY <3>1, <3>2
  <2> QED
    BY <1>1, <2>2, <2>3
<1>3. CASE Advance(head) # tail
  <2>1. head' = Advance(head) /\ tail' = tail
    BY <1>3 DEF pop
  <2>2. CASE IsFull
    <3>1. Occupied = 0 .. maxSize - 1 /\ size = maxSize /\ head = tail /\ head # 0
      BY <2>2 DEF Occupied, size, IsEmpty, IsFull
    <3>2. CASE head = maxSize - 1
      <4>1. head' = 0 /\ tail' = maxSize - 1 /\ ~IsEmpty' /\ ~IsFull'
        BY <2>1, <3>1, <3>2 DEF Advance, IsEmpty, IsFull
      <4>2. Occupied' = 0 .. maxSize - 2 /\ size' = maxSize - 1
        BY <4>1 DEF Occupied, size, IsEmpty, IsFull
      <4> QED
        BY <1>1, <3>1, <3>2, <4>2
    <3>3. CASE head # maxSize - 1
      <4>1. head' = head + 1 /\ tail' = head /\ ~IsEmpty' /\ ~IsFull'
        BY <2>1, <3>1, <3>3 DEF Advance, IsEmpty, IsFull
      <4>2. Occupied' = (0 .. maxSize - 1) \ (head .. head) /\ size' = maxSize - 1
        BY <4>1 DEF Occupied, size, IsEmpty, IsFull
      <4> QED
        BY <1>1, <3>1, <4>2
    <3> QED
      BY <3>2, <3>3
  <2>3. CASE head > tail /\ head = maxSize - 1
    <3>1. head' = 0 /\ tail' = tail /\ tail > 0
      BY <1>3, <2>1, <2>3 DEF Advance
    <3>2. ~IsEmpty /\ ~IsFull /\ ~IsEmpty' /\ ~IsFull'
      BY <2>3, <3>1 DEF IsEmpty, IsFull
    <3>3. Occupied = (0 .. maxSize - 1) \ (tail .. head - 1) /\ size = tail - head + maxSize
      BY <2>3, <3>2 DEF Occupied, size, IsEmpty, IsFull
    <3>4. Occupied' = 0 .. tail - 1 /\ size' = tail
      BY <3>1, <3>2 DEF Occupied, size, IsEmpty, IsFull
    <3> QED
      BY <1>1, <2>3, <3>1, <3>3, <3>4
  <2>4. CASE head > tail /\ head # maxSize - 1
    <3>1. head' = head + 1 /\ tail' = tail
      BY <2>1, <2>4 DEF Advance
    <3>2. ~IsEmpty /\ ~IsFull /\ ~IsEmpty' /\ ~IsFull'
      BY <2>4, <3>1 DEF IsEmpty, IsFull
    <3>3. Occupied = (0 .. maxSize - 1) \ (tail .. head - 1) /\ size = tail - head + maxSize
      BY <2>4, <3>2 DEF Occupied, size, IsEmpty, IsFull
    <3>4. Occupied' = (0 .. maxSize - 1) \ (tail .. head) /\ size' = tail - head - 1 + maxSize
      BY <2>4, <3>1, <3>2 DEF Occupied, size, IsEmpty, IsFull
    <3> QED
      BY <1>1, <2>4, <3>3, <3>4
  <2>5. CASE head < tail
    <3>1. head' = head + 1 /\ tail' = tail /\ head + 1 < tail
      BY <1>3, <2>1, <2>5 DEF Advance
    <3>2. ~IsEmpty /\ ~IsFull /\ ~IsEmpty' /\ ~IsFull'
      BY <2>5, <3>1 DEF IsEmpty, IsFull
    <3>3. Occupied = head .. tail - 1 /\ size = tail - head
      BY <2>5, <3>2 DEF Occupied, size, IsEmpty, IsFull
    <3>4. Occupied' = head + 1 .. tail - 1 /\ size' = tail - head - 1
      BY <3>1, <3>2 DEF Occupied, size, IsEmpty, IsFull
    <3> QED
      BY <1>1, <2>5, <3>3, <3>4
  <2>6. ~IsEmpty
    BY DEF pop
  <2> QED
    BY <2>2, <2>3, <2>4, <2>5, <2>6 DEF IsEmpty, IsFull
<1> QED
  BY <1>2, <1>3

(* The occupied slots are finitely many.                                    *)
LEMMA OccupiedFinite ==
  ASSUME InRing
  PROVE  Occupied \subseteq 0 .. maxSize - 1 /\ IsFiniteSet(Occupied)
<1>1. Occupied \subseteq 0 .. maxSize - 1
  BY RingAssumption DEF InRing, Occupied, IsEmpty, IsFull
<1>2. IsFiniteSet(0 .. maxSize - 1)
  BY RingAssumption, FS_Interval
<1> QED
  BY <1>1, <1>2, FS_Subset

(* Every call keeps the types.                                              *)
LEMMA RingNextTypeOK == RingTypeOK /\ [RingNext]_ringVars => RingTypeOK'
<1> SUFFICES ASSUME RingTypeOK, [RingNext]_ringVars
             PROVE  RingTypeOK'
  OBVIOUS
<1>0. InRing
  BY DEF RingTypeOK, InRing
<1>1. ASSUME NEW x \in Elements, push(x)
      PROVE  RingTypeOK'
  <2>1. /\ InRing'
        /\ Occupied' = Occupied \cup {tail}
    BY <1>0, <1>1, PushOccupies
  <2>2. ring' = [ring EXCEPT ![tail] = x]
    BY <1>1 DEF push
  <2>3. Occupied \subseteq 0 .. maxSize - 1
    BY <1>0, OccupiedFinite
  <2>4. \A i \in Occupied' : ring'[i] \in Elements
    BY <1>0, <2>1, <2>2, <2>3 DEF RingTypeOK, InRing
  <2> QED
    BY <2>1, <2>2, <2>4 DEF RingTypeOK, InRing
<1>2. CASE pop
  <2>1. InRing' /\ Occupied' = Occupied \ {head} /\ ring' = ring
    BY <1>0, <1>2, PopFrees DEF pop
  <2> QED
    BY <2>1 DEF RingTypeOK, InRing
<1>3. CASE PushFails \/ PopFails \/ UNCHANGED ringVars
  BY <1>3 DEF PushFails, PopFails, ringVars, RingTypeOK, Occupied, IsEmpty, IsFull
<1> QED
  BY <1>1, <1>2, <1>3 DEF RingNext

(* head and tail stay inside the ring and every occupied slot holds an      *)
(* element that push stored, in whatever order push and pop are called.     *)
THEOREM RingTypeCorrect == RingSpec => []RingTypeOK
<1>1. RingInit => RingTypeOK
  BY RingAssumption DEF RingInit, RingTypeOK, Occupied, IsEmpty, IsFull
<1> QED
  BY <1>1, RingNextTypeOK, PTL DEF RingSpec

(* The slots that hold x.                                                   *)
Copies(x) == {i \in Occupied : ring[i] = x}

(* So are the slots that hold one element.                                  *)
LEMMA CopiesFinite ==
  ASSUME InRing, NEW x
  PROVE  IsFiniteSet(Copies(x))
BY OccupiedFinite, FS_Subset DEF Copies

(* A push that is accepted adds one copy of its element.                    *)
LEMMA PushAdds ==
  ASSUME RingTypeOK, NEW x \in Elements, push(x)
  PROVE  Bag!Add(x)
<1>0. InRing
  BY DEF RingTypeOK, InRing
<1>1. /\ tail \notin Occupied
      /\ Occupied' = Occupied \cup {tail}
      /\ size' = size + 1
      /\ size < maxSize
  BY <1>0, PushOccupies
<1>2. ring' = [ring EXCEPT ![tail] = x] /\ out' = <<"added">>
  BY DEF push
<1>3. Occupied \subseteq 0 .. maxSize - 1 /\ tail \in 0 .. maxSize - 1
  BY <1>0, OccupiedFinite DEF InRing
<1>4. Copies(x)' = Copies(x) \cup {tail} /\ tail \notin Copies(x)
  BY <1>1, <1>2, <1>3 DEF Copies, RingTypeOK
<1>5. Cardinality(Copies(x)') = Cardinality(Copies(x)) + 1
  BY <1>0, <1>4, CopiesFinite, FS_AddElement
<1>6. ASSUME NEW y \in Elements, y # x
      PROVE  Copies(y)' = Copies(y)
  BY <1>1, <1>2, <1>3, <1>6 DEF Copies, RingTypeOK
<1>7. [y \in Elements |-> Cardinality(Copies(y)')]
        = [[y \in Elements |-> Cardinality(Copies(y))] EXCEPT ![x] = @ + 1]
  BY <1>5, <1>6
<1> QED
  BY <1>1, <1>2, <1>7 DEF Bag!Add, Copies

(* A pop that is served removes one copy of what it returns.                *)
LEMMA PopRemoves ==
  ASSUME RingTypeOK, pop
  PROVE  \E x \in Elements : Bag!Remove(x)
<1>0. InRing
  BY DEF RingTypeOK, InRing
<1>1. /\ head \in Occupied
      /\ Occupied' = Occupied \ {head}
      /\ size' = size - 1
  BY <1>0, PopFrees
<1>2. PICK x \in Elements : x = ring[head]
  BY <1>1 DEF RingTypeOK
<1>3. ring' = ring /\ out' = <<"removed", x>>
  BY <1>2 DEF pop
<1>4. Copies(x)' = Copies(x) \ {head} /\ head \in Copies(x)
  BY <1>1, <1>2, <1>3 DEF Copies
<1>5. /\ Cardinality(Copies(x)') = Cardinality(Copies(x)) - 1
      /\ Cardinality(Copies(x)') \in Nat
      /\ Cardinality(Copies(x)) \in Nat
  BY <1>0, <1>4, CopiesFinite, FS_RemoveElement, FS_CardinalityType
<1>6. ASSUME NEW y \in Elements, y # x
      PROVE  Copies(y)' = Copies(y)
  BY <1>1, <1>2, <1>3, <1>6 DEF Copies
<1>7. [y \in Elements |-> Cardinality(Copies(y)')]
        = [[y \in Elements |-> Cardinality(Copies(y))] EXCEPT ![x] = @ - 1]
  BY <1>5, <1>6
<1>8. Cardinality(Copies(x)) > 0
  BY <1>5
<1> QED
  BY <1>1, <1>3, <1>7, <1>8 DEF Bag!Remove, Copies

(* Whatever the order of pushes and pops, the ring implements the bounded   *)
(* bag: nothing is lost or doubled where it wraps around, is filled at slot *)
(* 0 or is emptied, and a call is refused only when it must be.             *)
THEOREM RingIsBag == RingSpec => ImplementsBag
<1>1. RingInit => Bag!Init
  <2> SUFFICES ASSUME RingInit
               PROVE  Bag!Init
    OBVIOUS
  <2>1. Occupied = {} /\ size = 0
    BY DEF RingInit, Occupied, size, IsEmpty, IsFull
  <2>2. \A x \in Elements : {i \in Occupied : ring[i] = x} = {}
    BY <2>1
  <2>3. Cardinality({}) = 0
    BY FS_EmptySet
  <2> QED
    BY <2>1, <2>2, <2>3 DEF RingInit, Bag!Init
<1>2. RingTypeOK /\ [RingNext]_ringVars => [Bag!Next]_<<[x \in Elements |-> Cardinality(Copies(x))], size, out>>
  <2> SUFFICES ASSUME RingTypeOK, [RingNext]_ringVars
               PROVE  [Bag!Next]_<<[x \in Elements |-> Cardinality(Copies(x))], size, out>>
    OBVIOUS
  <2>1. ASSUME NEW x \in Elements, push(x)
        PROVE  Bag!Next
    BY <2>1, PushAdds DEF Bag!Next
  <2>2. CASE pop
    BY <2>2, PopRemoves DEF Bag!Next
  <2>3. CASE PushFails
    <3>1. Occupied' = Occupied /\ size' = size /\ ring' = ring /\ out' = <<"full">>
      BY <2>3 DEF PushFails, size, Occupied, IsFull, IsEmpty
    <3>2. size = maxSize
      BY <2>3, RingAssumption DEF PushFails, size, IsFull, IsEmpty, RingTypeOK
    <3>3. Bag!RefuseAdd
      BY <3>1, <3>2 DEF Bag!RefuseAdd
    <3> QED
      BY <3>3 DEF Bag!Next
  <2>4. CASE PopFails
    BY <2>4 DEF PopFails, Bag!Next, Bag!RefuseRemove, size, Occupied, IsFull, IsEmpty
  <2>5. CASE UNCHANGED ringVars
    <3>1. Occupied' = Occupied /\ size' = size /\ ring' = ring /\ out' = out
      BY <2>5 DEF ringVars, size, Occupied, IsFull, IsEmpty
    <3>2. \A x \in Elements : Cardinality(Copies(x))' = Cardinality(Copies(x))
      BY <3>1 DEF Copies
    <3> QED
      BY <3>1, <3>2
  <2> QED
    BY <2>1, <2>2, <2>3, <2>4, <2>5 DEF RingNext
<1> QED
  BY <1>1, <1>2, RingTypeCorrect, PTL DEF RingSpec, ImplementsBag, Bag!Spec, Copies


-----------------------------------------------------------------------------
(* Arena: least and greatest numbers *)

(* A set of numbers that is not empty has a least element.                  *)
LEMMA Least ==
  ASSUME NEW S \in SUBSET Nat, S # {}
  PROVE  Min(S) \in S /\ \A y \in S : Min(S) <= y
<1>1. PICK x \in S : \A y \in S : ~(<<y, x>> \in OpToRel(<, Nat))
  BY NatLessThanWellFounded, WFMin
<1>2. ASSUME NEW y \in S PROVE x <= y
  <2>1. ~(<<y, x>> \in {z \in Nat \X Nat : z[1] < z[2]})
    BY <1>1, Zenon DEF OpToRel
  <2> QED
    BY <2>1
<1> QED
  BY <1>2 DEF Min

(* One that is bounded has a greatest.                                      *)
LEMMA Greatest ==
  ASSUME NEW m \in Nat, NEW S \in SUBSET (0 .. m), S # {}
  PROVE  Max(S) \in S /\ \A y \in S : y <= Max(S)
<1> DEFINE U == {x \in Nat : m - x \in S}
<1>1. U \in SUBSET Nat /\ U # {}
  <2>1. PICK y \in S : TRUE
    OBVIOUS
  <2>2. m - y \in Nat /\ m - (m - y) = y
    BY <2>1
  <2>3. m - y \in U
    BY <2>1, <2>2
  <2> QED
    BY <2>3
<1>2. Min(U) \in U /\ \A y \in U : Min(U) <= y
  BY <1>1, Least
<1>3. m - Min(U) \in S /\ \A y \in S : y <= m - Min(U)
  <2>1. Min(U) \in Nat /\ m - Min(U) \in S
    BY <1>2
  <2>2. ASSUME NEW y \in S PROVE y <= m - Min(U)
    <3>1. m - y \in Nat /\ m - (m - y) = y
      OBVIOUS
    <3>2. m - y \in U
      BY <3>1
    <3> QED
      BY <1>2, <2>1, <3>1, <3>2
  <2> QED
    BY <2>1, <2>2
<1> QED
  BY <1>3 DEF Max

-----------------------------------------------------------------------------
(* Arena: lists *)

(* A doubly linked list without a cycle: every set of its members has one   *)
(* that no other of them leads to.                                          *)
List(first, S, next, pri) ==
  /\ 0 \notin S
  /\ first # 0 => first \in S /\ pri[first] = 0
  /\ \A x \in S : next[x] # 0 => next[x] \in S /\ pri[next[x]] = x
  /\ \A x \in S : IF pri[x] = 0 THEN x = first ELSE pri[x] \in S /\ next[pri[x]] = x
  /\ \A T \in SUBSET S : T # {} => \E x \in T : pri[x] \notin T

(* It has exactly its members. *)
LEMMA ListReaches ==
  ASSUME NEW first, NEW S, NEW next, NEW pri, List(first, S, next, pri)
  PROVE  Reaches(first, [x \in S |-> next[x]], S)
<1>1. ASSUME NEW T \in SUBSET S, first # 0 => first \in T, \A x \in T : next[x] # 0 => next[x] \in T
      PROVE  T = S
  <2> SUFFICES ASSUME S \ T # {} PROVE FALSE
    OBVIOUS
  <2>1. PICK x \in S \ T : pri[x] \notin S \ T
    BY DEF List
  <2> QED
    BY <1>1, <2>1 DEF List
<1> QED
  BY <1>1 DEF Reaches, List

(* The list does not depend on what others store.                           *)
LEMMA ListSame ==
  ASSUME NEW first, NEW S, NEW next, NEW pri, List(first, S, next, pri),
         NEW next2, NEW pri2, \A x \in S : next2[x] = next[x] /\ pri2[x] = pri[x]
  PROVE  List(first, S, next2, pri2)
BY DEF List

(* A new member comes first. *)
LEMMA ListPush ==
  ASSUME NEW first, NEW S, NEW next, NEW pri, List(first, S, next, pri),
         NEW h, h \notin S, h # 0, NEW next2, NEW pri2,
         next2[h] = first, pri2[h] = 0,
         \A x \in S : next2[x] = next[x] /\ pri2[x] = IF x = first THEN h ELSE pri[x]
  PROVE  List(h, S \cup {h}, next2, pri2)
<1>1. ASSUME NEW T \in SUBSET (S \cup {h}), T # {}
      PROVE  \E x \in T : pri2[x] \notin T
  <2>1. CASE h \in T
    <3>1. CASE 0 \notin T
      BY <2>1, <3>1
    <3> QED
      BY <3>1 DEF List
  <2>2. CASE h \notin T
    <3>1. PICK x \in T : pri[x] \notin T
      BY <1>1, <2>2 DEF List
    <3> QED
      BY <2>2, <3>1
  <2> QED
    BY <2>1, <2>2
<1>2. \A x \in S \cup {h} : next2[x] # 0 => next2[x] \in S \cup {h} /\ pri2[next2[x]] = x
  BY DEF List
<1>3. \A x \in S \cup {h} : IF pri2[x] = 0 THEN x = h ELSE pri2[x] \in S \cup {h} /\ next2[pri2[x]] = x
  BY DEF List
<1> QED
  BY <1>1, <1>2, <1>3 DEF List

(* A member leaves, and its neighbours are linked to each other. *)
LEMMA ListRemove ==
  ASSUME NEW first, NEW S, NEW next, NEW pri, List(first, S, next, pri),
         NEW h \in S, NEW next2, NEW pri2,
         \A x \in S \ {h} : /\ next2[x] = IF x = pri[h] THEN next[h] ELSE next[x]
                            /\ pri2[x] = IF x = next[h] THEN pri[h] ELSE pri[x],
         NEW first2, first2 = IF pri[h] = 0 THEN next[h] ELSE first
  PROVE  List(first2, S \ {h}, next2, pri2)
<1>0. next[h] # h /\ pri[h] # h
  <2>1. {h} \in SUBSET S /\ {h} # {}
    OBVIOUS
  <2>2. pri[h] \notin {h}
    BY <2>1 DEF List
  <2> QED
    BY <2>2 DEF List
<1>1. ASSUME NEW T \in SUBSET (S \ {h}), T # {}
      PROVE  \E x \in T : pri2[x] \notin T
  <2>1. PICK x \in T : pri[x] \notin T
    BY <1>1 DEF List
  <2>2. T \cup {h} \in SUBSET S /\ T \cup {h} # {}
    OBVIOUS
  <2>3. PICK y \in T \cup {h} : pri[y] \notin T \cup {h}
    BY <2>2 DEF List
  <2>4. CASE y # h
    <3>1. y \in T /\ y # next[h]
      BY <2>3, <2>4 DEF List
    <3> QED
      BY <2>3, <2>4, <3>1
  <2>5. CASE y = h /\ next[h] \in T
    BY <1>0, <2>3, <2>5 DEF List
  <2>6. CASE y = h /\ next[h] \notin T
    BY <2>1, <2>6
  <2> QED
    BY <2>4, <2>5, <2>6
<1>2. \A x \in S \ {h} : next2[x] # 0 => next2[x] \in S \ {h} /\ pri2[next2[x]] = x
  BY <1>0 DEF List
<1>3. \A x \in S \ {h} : IF pri2[x] = 0 THEN x = first2 ELSE pri2[x] \in S \ {h} /\ next2[pri2[x]] = x
  BY <1>0 DEF List
<1>4. first2 # 0 => first2 \in S \ {h} /\ pri2[first2] = 0
  BY <1>0 DEF List
<1> QED
  BY <1>1, <1>2, <1>3, <1>4 DEF List

-----------------------------------------------------------------------------
(* Arena: what the operations on headers and lists change *)

(* What a link may be, of its type. *)
Refs == PageHandles \cup {0}

Header ==
  [Flag : Int, hPri : Refs,
   hNext : PageHandles \cup {0, -1}, oFree : Nat, nUsed : Nat]

(* The record of the heap, with the types of its fields. *)
IsHeap(s) ==
  /\ s = [pages |-> s.pages, header |-> s.header, span_list_ |-> s.span_list_,
          bin_ |-> s.bin_, offset |-> s.offset]
  /\ s.header = [h \in is_head_(s) |-> s.header[h]]
  /\ is_head_(s) \subseteq PageHandles
  /\ \A h \in is_head_(s) : s.header[h] \in Header
  /\ s.span_list_ \in [0 .. kSpanSlotSize -> Refs]
  /\ s.bin_ \in [Bins -> Refs]

(* What the links may be, and the fields of a header that are no links. *)
Links(s) == is_head_(s) \cup {0}


Kept(s, t, h) ==
  /\ t.header[h].Flag = s.header[h].Flag
  /\ t.header[h].oFree = s.header[h].oFree
  /\ t.header[h].nUsed = s.header[h].nUsed

(* The size classes are those of the table. *)
LEMMA ClassCount == kBinSlotSize = 39 /\ Bins = 1 .. 39
<1>1. kBinSlotSize = 39
  BY DEF kBinSlotSize, kBinSlotTemplate
<1>2. Bins = 1 .. 39
  BY <1>1 DEF Bins
<1> QED
  BY <1>1, <1>2

(* The objects of every class have between 4 and 4080 bytes. *)
LEMMA ClassSizes ==
  \A b \in Bins : kBinSlotTemplate[b] \in Nat /\ 4 <= kBinSlotTemplate[b] /\ kBinSlotTemplate[b] <= 4080
BY ClassCount DEF kBinSlotTemplate

(* The page span of a class is shorter than the longest span. *)
LEMMA ClassPages ==
  ASSUME NEW b \in Bins
  PROVE  BinPages[b] \in Nat /\ 1 <= BinPages[b] /\ BinPages[b] < kSpanSlotSize
<1>1. PICK x \in 1 .. kSpanSlotSize - 1 : x = BinPages[b]
  BY PagesAssumption
<1> QED
  BY <1>1, PagesAssumption

(* A handle is the number of a page or the one behind the last. *)
LEMMA HandleRange == \A h \in PageHandles : h \in Nat /\ h > 0 /\ h <= kPageTotal + 1
BY PagesAssumption DEF PageHandles

(* A heap with other headers is a heap. *)
LEMMA WithHeader ==
  ASSUME NEW s, IsHeap(s), NEW g, g = [h \in DOMAIN g |-> g[h]],
         DOMAIN g \subseteq PageHandles, \A h \in DOMAIN g : g[h] \in Header
  PROVE  LET t == [s EXCEPT !.header = g]
         IN  /\ IsHeap(t)
             /\ t.header = g /\ t.pages = s.pages /\ t.span_list_ = s.span_list_
             /\ t.bin_ = s.bin_ /\ t.offset = s.offset
BY DEF IsHeap, is_head_

(* One with other lists. *)
LEMMA WithList ==
  ASSUME NEW s, IsHeap(s), NEW n \in 0 .. kSpanSlotSize, NEW h \in Refs
  PROVE  LET t == [s EXCEPT !.span_list_[n] = h]
         IN  /\ IsHeap(t)
             /\ t.header = s.header /\ t.pages = s.pages
             /\ t.span_list_ = [s.span_list_ EXCEPT ![n] = h]
             /\ t.bin_ = s.bin_ /\ t.offset = s.offset
BY DEF IsHeap, is_head_

(* One with other pages or other bins. *)
LEMMA WithBin ==
  ASSUME NEW s, IsHeap(s), NEW b \in Bins, NEW h \in Refs
  PROVE  LET t == [s EXCEPT !.bin_[b] = h]
         IN  /\ IsHeap(t)
             /\ t.header = s.header /\ t.pages = s.pages
             /\ t.span_list_ = s.span_list_
             /\ t.bin_ = [s.bin_ EXCEPT ![b] = h] /\ t.offset = s.offset
BY DEF IsHeap, is_head_

(* A heap that only has more pages is a heap. *)
LEMMA WithPages ==
  ASSUME NEW s, IsHeap(s), NEW n
  PROVE  LET t == [s EXCEPT !.pages = n]
         IN  /\ IsHeap(t)
             /\ t.header = s.header /\ t.pages = n
             /\ t.span_list_ = s.span_list_
             /\ t.bin_ = s.bin_ /\ t.offset = s.offset
BY DEF IsHeap, is_head_

(* A heap in which only the free objects store something else is a heap. *)
LEMMA WithOffset ==
  ASSUME NEW s, IsHeap(s), NEW f
  PROVE  LET t == [s EXCEPT !.offset = f]
         IN  /\ IsHeap(t)
             /\ t.header = s.header /\ t.pages = s.pages
             /\ t.span_list_ = s.span_list_
             /\ t.bin_ = s.bin_ /\ t.offset = f
BY DEF IsHeap, is_head_

(* One with another header of a span, with one more, with one less. *)
LEMMA WithRecord ==
  ASSUME NEW s, IsHeap(s), NEW h \in is_head_(s), NEW r \in Header
  PROVE  LET t == [s EXCEPT !.header[h] = r]
         IN  /\ IsHeap(t)
             /\ t.pages = s.pages /\ t.span_list_ = s.span_list_
             /\ t.bin_ = s.bin_ /\ t.offset = s.offset
             /\ is_head_(t) = is_head_(s) /\ t.header[h] = r
             /\ \A x \in is_head_(s) \ {h} : t.header[x] = s.header[x]
<1> DEFINE g == [s.header EXCEPT ![h] = r]
<1>1. /\ g = [x \in DOMAIN g |-> g[x]] /\ DOMAIN g = is_head_(s)
      /\ \A x \in is_head_(s) : g[x] = IF x = h THEN r ELSE s.header[x]
  BY DEF IsHeap, is_head_
<1> HIDE DEF g
<1>2. DOMAIN g \subseteq PageHandles /\ \A x \in DOMAIN g : g[x] \in Header
  BY <1>1 DEF IsHeap
<1> DEFINE t == [s EXCEPT !.header = g]
<1>3. /\ IsHeap(t)
      /\ t.header = g /\ t.pages = s.pages /\ t.span_list_ = s.span_list_
      /\ t.bin_ = s.bin_ /\ t.offset = s.offset
  BY <1>1, <1>2, WithHeader
<1> HIDE DEF t
<1>4. is_head_(t) = is_head_(s) /\ t.header[h] = r /\ \A x \in is_head_(s) \ {h} : t.header[x] = s.header[x]
  BY <1>1, <1>3 DEF is_head_
<1>5. t = [s EXCEPT !.header[h] = r]
  BY DEF t, g
<1> QED
  BY <1>3, <1>4, <1>5

(* A heap in which a handle gets a header is a heap. *)
LEMMA WithPut ==
  ASSUME NEW s, IsHeap(s), NEW h \in PageHandles, NEW r \in Header
  PROVE  LET t == [s EXCEPT !.header = Put(s.header, h, r)]
         IN  /\ IsHeap(t)
             /\ t.pages = s.pages /\ t.span_list_ = s.span_list_
             /\ t.bin_ = s.bin_ /\ t.offset = s.offset
             /\ is_head_(t) = is_head_(s) \cup {h} /\ t.header[h] = r
             /\ \A x \in is_head_(s) \ {h} : t.header[x] = s.header[x]
<1> DEFINE g == Put(s.header, h, r)
<1>1. /\ g = [x \in DOMAIN g |-> g[x]] /\ DOMAIN g = is_head_(s) \cup {h}
      /\ \A x \in is_head_(s) \cup {h} : g[x] = IF x = h THEN r ELSE s.header[x]
  BY DEF Put, is_head_
<1> HIDE DEF g
<1>2. DOMAIN g \subseteq PageHandles /\ \A x \in DOMAIN g : g[x] \in Header
  BY <1>1 DEF IsHeap
<1> DEFINE t == [s EXCEPT !.header = g]
<1>3. /\ IsHeap(t)
      /\ t.header = g /\ t.pages = s.pages /\ t.span_list_ = s.span_list_
      /\ t.bin_ = s.bin_ /\ t.offset = s.offset
  BY <1>1, <1>2, WithHeader
<1> HIDE DEF t
<1>4. /\ is_head_(t) = is_head_(s) \cup {h} /\ t.header[h] = r
      /\ \A x \in is_head_(s) \ {h} : t.header[x] = s.header[x]
  BY <1>1, <1>3 DEF is_head_
<1> QED
  BY <1>3, <1>4 DEF t, g

(* A heap in which a handle loses its header is a heap. *)
LEMMA WithDrop ==
  ASSUME NEW s, IsHeap(s), NEW h, NEW t, t = [s EXCEPT !.header = Drop(s.header, h)]
  PROVE  /\ IsHeap(t)
         /\ t.pages = s.pages /\ t.span_list_ = s.span_list_
         /\ t.bin_ = s.bin_ /\ t.offset = s.offset
         /\ is_head_(t) = is_head_(s) \ {h}
         /\ \A x \in is_head_(s) \ {h} : t.header[x] = s.header[x]
<1> DEFINE g == Drop(s.header, h)
<1>1. /\ g = [x \in DOMAIN g |-> g[x]] /\ DOMAIN g = is_head_(s) \ {h}
      /\ \A x \in is_head_(s) \ {h} : g[x] = s.header[x]
  BY DEF Drop, Restrict, is_head_
<1> HIDE DEF g
<1>2. DOMAIN g \subseteq PageHandles /\ \A x \in DOMAIN g : g[x] \in Header
  BY <1>1 DEF IsHeap
<1>3. /\ IsHeap(t)
      /\ t.header = g /\ t.pages = s.pages /\ t.span_list_ = s.span_list_
      /\ t.bin_ = s.bin_ /\ t.offset = s.offset
  <2> DEFINE w == [s EXCEPT !.header = g]
  <2>1. /\ IsHeap(w)
        /\ w.header = g /\ w.pages = s.pages /\ w.span_list_ = s.span_list_
        /\ w.bin_ = s.bin_ /\ w.offset = s.offset
    BY <1>1, <1>2, WithHeader
  <2>2. t = w
    BY DEF g
  <2> HIDE DEF w
  <2> QED
    BY <2>1, <2>2
<1>4. is_head_(t) = is_head_(s) \ {h} /\ \A x \in is_head_(s) \ {h} : t.header[x] = s.header[x]
  BY <1>1, <1>3 DEF is_head_
<1> QED
  BY <1>3, <1>4

(* SetPri and SetNext change one field of one header. *)
LEMMA SetPriIs ==
  ASSUME NEW s, IsHeap(s), NEW h \in Links(s), NEW v \in Refs
  PROVE  LET t == SetPri(s, h, v)
         IN  /\ IsHeap(t)
             /\ t.pages = s.pages /\ t.span_list_ = s.span_list_
             /\ t.bin_ = s.bin_ /\ t.offset = s.offset
             /\ is_head_(t) = is_head_(s)
             /\ \A x \in is_head_(s) :
                  /\ Kept(s, t, x)
                  /\ t.header[x].hNext = s.header[x].hNext
                  /\ t.header[x].hPri = IF x = h THEN v ELSE s.header[x].hPri
<1>1. CASE h = 0
  <2>1. h \notin is_head_(s) /\ SetPri(s, h, v) = s
    BY <1>1, HandleRange DEF IsHeap, SetPri
  <2> QED
    BY <2>1 DEF Kept
<1>2. CASE h # 0
  <2>1. h \in is_head_(s) /\ h \in Nat /\ h > 0
    BY <1>2, HandleRange DEF IsHeap, Links
  <2> DEFINE r == [s.header[h] EXCEPT !.hPri = v]
             t == [s EXCEPT !.header[h] = r]
  <2>2. SetPri(s, h, v) = t
    BY <2>1 DEF SetPri
  <2>3. s.header[h] \in Header
    BY <2>1 DEF IsHeap
  <2>4. r \in Header /\ r.hPri = v /\ r.Flag = s.header[h].Flag /\ r.hNext = s.header[h].hNext
        /\ r.oFree = s.header[h].oFree /\ r.nUsed = s.header[h].nUsed
    BY <2>3 DEF Header
  <2> HIDE DEF r
  <2>5. /\ IsHeap(t)
        /\ t.pages = s.pages /\ t.span_list_ = s.span_list_
        /\ t.bin_ = s.bin_ /\ t.offset = s.offset
        /\ is_head_(t) = is_head_(s) /\ t.header[h] = r
        /\ \A x \in is_head_(s) \ {h} : t.header[x] = s.header[x]
    BY <2>1, <2>4, WithRecord
  <2> HIDE DEF t
  <2>6. \A x \in is_head_(s) :
          /\ Kept(s, t, x)
          /\ t.header[x].hNext = s.header[x].hNext
          /\ t.header[x].hPri = IF x = h THEN v ELSE s.header[x].hPri
    BY <2>4, <2>5 DEF Kept
  <2> QED
    BY <2>2, <2>5, <2>6
<1> QED
  BY <1>1, <1>2

(* What writing the successor of a handle changes. *)
LEMMA SetNextIs ==
  ASSUME NEW s, IsHeap(s), NEW h \in Links(s), NEW v \in Refs
  PROVE  LET t == SetNext(s, h, v)
         IN  /\ IsHeap(t)
             /\ t.pages = s.pages /\ t.span_list_ = s.span_list_
             /\ t.bin_ = s.bin_ /\ t.offset = s.offset
             /\ is_head_(t) = is_head_(s)
             /\ \A x \in is_head_(s) :
                  /\ Kept(s, t, x)
                  /\ t.header[x].hNext = IF x = h THEN v ELSE s.header[x].hNext
                  /\ t.header[x].hPri = s.header[x].hPri
<1>1. CASE h = 0
  <2>1. h \notin is_head_(s) /\ SetNext(s, h, v) = s
    BY <1>1, HandleRange DEF IsHeap, SetNext
  <2> QED
    BY <2>1 DEF Kept
<1>2. CASE h # 0
  <2>1. h \in is_head_(s) /\ h \in Nat /\ h > 0
    BY <1>2, HandleRange DEF IsHeap, Links
  <2> DEFINE r == [s.header[h] EXCEPT !.hNext = v]
             t == [s EXCEPT !.header[h] = r]
  <2>2. SetNext(s, h, v) = t
    BY <2>1 DEF SetNext
  <2>3. s.header[h] \in Header
    BY <2>1 DEF IsHeap
  <2>4. r \in Header /\ r.hNext = v /\ r.Flag = s.header[h].Flag /\ r.hPri = s.header[h].hPri
        /\ r.oFree = s.header[h].oFree /\ r.nUsed = s.header[h].nUsed
    BY <2>3 DEF Header, Refs
  <2> HIDE DEF r
  <2>5. /\ IsHeap(t)
        /\ t.pages = s.pages /\ t.span_list_ = s.span_list_
        /\ t.bin_ = s.bin_ /\ t.offset = s.offset
        /\ is_head_(t) = is_head_(s) /\ t.header[h] = r
        /\ \A x \in is_head_(s) \ {h} : t.header[x] = s.header[x]
    BY <2>1, <2>4, WithRecord
  <2> HIDE DEF t
  <2>6. \A x \in is_head_(s) :
          /\ Kept(s, t, x)
          /\ t.header[x].hNext = IF x = h THEN v ELSE s.header[x].hNext
          /\ t.header[x].hPri = s.header[x].hPri
    BY <2>4, <2>5 DEF Kept
  <2> QED
    BY <2>2, <2>5, <2>6
<1> QED
  BY <1>1, <1>2

(* PushSpan: h begins a free span that is first in its list. *)
SpanPushed(s, t, h, n) ==
  /\ IsHeap(t)
  /\ t.pages = s.pages /\ t.span_list_ = [s.span_list_ EXCEPT ![n] = h]
  /\ t.bin_ = s.bin_ /\ t.offset = s.offset
  /\ is_head_(t) = is_head_(s) \cup {h}
  /\ t.header[h] = Span(n, s.span_list_[n])
  /\ \A x \in is_head_(s) \ {h} :
       /\ Kept(s, t, x)
       /\ t.header[x].hNext = s.header[x].hNext
       /\ t.header[x].hPri = IF x = s.span_list_[n] THEN h ELSE s.header[x].hPri

(* What push of a span list changes. *)
LEMMA PushSpanIs ==
  ASSUME NEW s, IsHeap(s), NEW h \in PageHandles, NEW n \in 0 .. kSpanSlotSize,
         s.span_list_[n] \in Links(s) \ {h}
  PROVE  SpanPushed(s, PushSpan(s, h, n), h, n)
<1> DEFINE next == s.span_list_[n]
           r == Span(n, next)
           s1 == [s EXCEPT !.header = Put(s.header, h, r)]
           s2 == [s1 EXCEPT !.span_list_[n] = h]
           t == SetPri(s2, next, h)
<1>1. PushSpan(s, h, n) = t
  BY DEF PushSpan
<1>2. next \in Links(s) \ {h} /\ next \in Refs
  BY DEF IsHeap
<1> HIDE DEF next
<1>3. r \in Header
  BY <1>2, PagesAssumption DEF Header, Span, Refs
<1>4. r.Flag = n /\ r.hNext = next /\ r.hPri = 0
  BY DEF Span
<1> HIDE DEF r
<1>5. /\ IsHeap(s1)
      /\ s1.pages = s.pages /\ s1.span_list_ = s.span_list_
      /\ s1.bin_ = s.bin_ /\ s1.offset = s.offset
      /\ is_head_(s1) = is_head_(s) \cup {h} /\ s1.header[h] = r
      /\ \A x \in is_head_(s) \ {h} : s1.header[x] = s.header[x]
  BY <1>3, WithPut
<1> HIDE DEF s1
<1>6. /\ IsHeap(s2)
      /\ s2.header = s1.header /\ s2.pages = s.pages
      /\ s2.span_list_ = [s.span_list_ EXCEPT ![n] = h]
      /\ s2.bin_ = s.bin_ /\ s2.offset = s.offset
  BY <1>5, WithList DEF Refs
<1> HIDE DEF s2
<1>7. is_head_(s2) = is_head_(s) \cup {h}
  BY <1>5, <1>6 DEF is_head_
<1>8. next \in Links(s2)
  BY <1>2, <1>7 DEF Links
<1>9. /\ IsHeap(t)
      /\ t.pages = s2.pages /\ t.span_list_ = s2.span_list_
      /\ t.bin_ = s2.bin_ /\ t.offset = s2.offset
      /\ is_head_(t) = is_head_(s2)
      /\ \A x \in is_head_(s2) :
           /\ Kept(s2, t, x)
           /\ t.header[x].hNext = s2.header[x].hNext
           /\ t.header[x].hPri = IF x = next THEN h ELSE s2.header[x].hPri
  BY <1>6, <1>8, SetPriIs DEF Refs
<1> HIDE DEF t
<1>10. h # next
  BY <1>2, HandleRange
<1>11. t.header[h] = r
  <2>1. t.header[h] \in Header
    BY <1>7, <1>9 DEF IsHeap
  <2>2. h \in is_head_(s2) /\ s2.header[h] = r
    BY <1>5, <1>6, <1>7
  <2>3. /\ t.header[h].Flag = r.Flag /\ t.header[h].hNext = r.hNext /\ t.header[h].hPri = r.hPri
        /\ t.header[h].oFree = r.oFree /\ t.header[h].nUsed = r.nUsed
    BY <1>9, <1>10, <2>2 DEF Kept
  <2> QED
    BY <1>3, <2>1, <2>3 DEF Header
<1>12. \A x \in is_head_(s) \ {h} :
         /\ Kept(s, t, x)
         /\ t.header[x].hNext = s.header[x].hNext
         /\ t.header[x].hPri = IF x = next THEN h ELSE s.header[x].hPri
  BY <1>5, <1>6, <1>7, <1>9 DEF Kept
<1> QED
  BY <1>1, <1>6, <1>7, <1>9, <1>11, <1>12 DEF next, r, SpanPushed

(* PopSpan: the first span of a list leaves it. *)
LEMMA PopSpanIs ==
  ASSUME NEW s, IsHeap(s), NEW n \in 0 .. kSpanSlotSize, NEW h \in is_head_(s), h = s.span_list_[n],
         s.header[h].hNext \in Links(s)
  PROVE  LET t == PopSpan(s, n)
         IN  /\ IsHeap(t)
             /\ t.pages = s.pages /\ t.span_list_ = [s.span_list_ EXCEPT ![n] = s.header[h].hNext]
             /\ t.bin_ = s.bin_ /\ t.offset = s.offset
             /\ is_head_(t) = is_head_(s)
             /\ \A x \in is_head_(s) :
                  /\ Kept(s, t, x)
                  /\ t.header[x].hNext = s.header[x].hNext
                  /\ t.header[x].hPri = IF x = s.header[h].hNext THEN 0 ELSE s.header[x].hPri
<1> DEFINE next == s.header[h].hNext
           s1 == [s EXCEPT !.span_list_[n] = next]
           t == SetPri(s1, next, 0)
<1>1. PopSpan(s, n) = t
  BY DEF PopSpan
<1>2. next \in Links(s) /\ next \in Refs
  BY DEF IsHeap, Links, Refs
<1> HIDE DEF next
<1>3. /\ IsHeap(s1)
      /\ s1.header = s.header /\ s1.pages = s.pages
      /\ s1.span_list_ = [s.span_list_ EXCEPT ![n] = next]
      /\ s1.bin_ = s.bin_ /\ s1.offset = s.offset
  BY <1>2, WithList
<1> HIDE DEF s1
<1>4. is_head_(s1) = is_head_(s)
  BY <1>3 DEF is_head_
<1>41. next \in Links(s1) /\ 0 \in Refs
  BY <1>2, <1>4 DEF Links, Refs
<1>5. /\ IsHeap(t)
      /\ t.pages = s1.pages /\ t.span_list_ = s1.span_list_
      /\ t.bin_ = s1.bin_ /\ t.offset = s1.offset
      /\ is_head_(t) = is_head_(s1)
      /\ \A x \in is_head_(s1) :
           /\ Kept(s1, t, x)
           /\ t.header[x].hNext = s1.header[x].hNext
           /\ t.header[x].hPri = IF x = next THEN 0 ELSE s1.header[x].hPri
  BY <1>3, <1>41, SetPriIs
<1> HIDE DEF t
<1> QED
  BY <1>1, <1>3, <1>4, <1>5 DEF next, Kept

(* LinkedNodeMerge: the neighbours of a span are linked to each other. *)
LEMMA LinkedNodeMergeIs ==
  ASSUME NEW s, IsHeap(s), NEW pri \in Links(s), NEW next \in Links(s)
  PROVE  LET t == LinkedNodeMerge(s, pri, next)
         IN  /\ IsHeap(t)
             /\ t.pages = s.pages /\ t.span_list_ = s.span_list_
             /\ t.bin_ = s.bin_ /\ t.offset = s.offset
             /\ is_head_(t) = is_head_(s)
             /\ \A x \in is_head_(s) :
                  /\ Kept(s, t, x)
                  /\ t.header[x].hNext = IF x = pri THEN next ELSE s.header[x].hNext
                  /\ t.header[x].hPri = IF x = next THEN pri ELSE s.header[x].hPri
<1> DEFINE s1 == SetNext(s, pri, next)
           t == SetPri(s1, next, pri)
<1>1. /\ pri \in Refs /\ next \in Refs
      /\ pri \in Links(s) /\ next \in Links(s)
  BY DEF IsHeap, Links, Refs
<1>2. /\ IsHeap(s1)
      /\ s1.pages = s.pages /\ s1.span_list_ = s.span_list_
      /\ s1.bin_ = s.bin_ /\ s1.offset = s.offset
      /\ is_head_(s1) = is_head_(s)
      /\ \A x \in is_head_(s) :
           /\ Kept(s, s1, x)
           /\ s1.header[x].hNext = IF x = pri THEN next ELSE s.header[x].hNext
           /\ s1.header[x].hPri = s.header[x].hPri
  BY <1>1, SetNextIs
<1> HIDE DEF s1
<1>3. next \in Links(s1)
  BY <1>1, <1>2 DEF Links
<1>4. /\ IsHeap(t)
      /\ t.pages = s1.pages /\ t.span_list_ = s1.span_list_
      /\ t.bin_ = s1.bin_ /\ t.offset = s1.offset
      /\ is_head_(t) = is_head_(s1)
      /\ \A x \in is_head_(s1) :
           /\ Kept(s1, t, x)
           /\ t.header[x].hNext = s1.header[x].hNext
           /\ t.header[x].hPri = IF x = next THEN pri ELSE s1.header[x].hPri
  BY <1>1, <1>2, <1>3, SetPriIs
<1> HIDE DEF t
<1>5. /\ IsHeap(t)
      /\ t.pages = s.pages /\ t.span_list_ = s.span_list_
      /\ t.bin_ = s.bin_ /\ t.offset = s.offset
      /\ is_head_(t) = is_head_(s)
      /\ \A x \in is_head_(s) :
           /\ Kept(s, t, x)
           /\ t.header[x].hNext = IF x = pri THEN next ELSE s.header[x].hNext
           /\ t.header[x].hPri = IF x = next THEN pri ELSE s.header[x].hPri
  BY <1>2, <1>4 DEF Kept
<1>6. t = LinkedNodeMerge(s, pri, next)
  BY DEF LinkedNodeMerge, t, s1
<1> QED
  BY <1>5, <1>6

(* RemoveSpan: a free span leaves its list and begins no span any more. *)
LEMMA RemoveSpanIs ==
  ASSUME NEW s, IsHeap(s), NEW h \in is_head_(s), s.header[h].Flag \in 0 .. kSpanSlotSize,
         s.header[h].hNext \in Links(s), s.header[h].hPri \in Links(s)
  PROVE  LET t == RemoveSpan(s, h)
             pri == s.header[h].hPri
             next == s.header[h].hNext
         IN  /\ IsHeap(t)
             /\ t.pages = s.pages
             /\ t.span_list_ = IF pri = 0 THEN [s.span_list_ EXCEPT ![s.header[h].Flag] = next]
                                          ELSE s.span_list_
             /\ t.bin_ = s.bin_ /\ t.offset = s.offset
             /\ is_head_(t) = is_head_(s) \ {h}
             /\ \A x \in is_head_(s) \ {h} :
                  /\ Kept(s, t, x)
                  /\ t.header[x].hNext = IF x = pri THEN next ELSE s.header[x].hNext
                  /\ t.header[x].hPri = IF x = next THEN pri ELSE s.header[x].hPri
<1> DEFINE before == s.header[h].hPri
           after == s.header[h].hNext
           k == s.header[h].Flag
           s1 == [s EXCEPT !.span_list_[k] = after]
           s2 == IF before = 0 THEN SetPri(s1, after, 0) ELSE LinkedNodeMerge(s, before, after)
           t == [s2 EXCEPT !.header = Drop(s2.header, h)]
<1>1. RemoveSpan(s, h) = t
  BY DEF RemoveSpan
<1>2. after \in Links(s) /\ after \in Refs
  BY DEF IsHeap, Links, Refs
<1>20. after \in Links(s)
  BY DEF Links
<1>21. before \in Links(s)
  BY DEF Links
<1>22. k \in 0 .. kSpanSlotSize
  OBVIOUS
<1> HIDE DEF after, before, k
<1>3. /\ IsHeap(s2)
      /\ s2.pages = s.pages
      /\ s2.span_list_ = IF before = 0 THEN [s.span_list_ EXCEPT ![k] = after] ELSE s.span_list_
      /\ s2.bin_ = s.bin_ /\ s2.offset = s.offset
      /\ is_head_(s2) = is_head_(s)
      /\ \A x \in is_head_(s) :
           /\ Kept(s, s2, x)
           /\ s2.header[x].hNext = IF x = before THEN after ELSE s.header[x].hNext
           /\ s2.header[x].hPri = IF x = after THEN before ELSE s.header[x].hPri
  <2>1. CASE before = 0
    <3>1. /\ IsHeap(s1)
          /\ s1.header = s.header /\ s1.pages = s.pages
          /\ s1.span_list_ = [s.span_list_ EXCEPT ![k] = after]
          /\ s1.bin_ = s.bin_ /\ s1.offset = s.offset
      BY <1>2, <1>22, WithList
    <3> HIDE DEF s1
    <3>2. is_head_(s1) = is_head_(s)
      BY <3>1 DEF is_head_
    <3>21. after \in Links(s1) /\ 0 \in Refs
      BY <1>2, <3>2 DEF Links, Refs
    <3> DEFINE u == SetPri(s1, after, 0)
    <3>3. /\ IsHeap(u)
          /\ u.pages = s1.pages /\ u.span_list_ = s1.span_list_
          /\ u.bin_ = s1.bin_ /\ u.offset = s1.offset
          /\ is_head_(u) = is_head_(s1)
          /\ \A x \in is_head_(s1) :
               /\ Kept(s1, u, x)
               /\ u.header[x].hNext = s1.header[x].hNext
               /\ u.header[x].hPri = IF x = after THEN 0 ELSE s1.header[x].hPri
      BY <3>1, <3>21, SetPriIs
    <3>4. 0 \notin is_head_(s) /\ s2 = u
      BY <2>1, HandleRange DEF IsHeap
    <3> HIDE DEF u, s2
    <3> QED
      BY <2>1, <3>1, <3>2, <3>3, <3>4 DEF Kept
  <2>2. CASE before # 0
    <3> DEFINE u == LinkedNodeMerge(s, before, after)
    <3>1. /\ IsHeap(u)
          /\ u.pages = s.pages /\ u.span_list_ = s.span_list_
          /\ u.bin_ = s.bin_ /\ u.offset = s.offset
          /\ is_head_(u) = is_head_(s)
          /\ \A x \in is_head_(s) :
               /\ Kept(s, u, x)
               /\ u.header[x].hNext = IF x = before THEN after ELSE s.header[x].hNext
               /\ u.header[x].hPri = IF x = after THEN before ELSE s.header[x].hPri
      BY <1>20, <1>21, LinkedNodeMergeIs
    <3>2. s2 = u
      BY <2>2
    <3> HIDE DEF u, s2
    <3> QED
      BY <2>2, <3>1, <3>2
  <2> QED
    BY <2>1, <2>2
<1> HIDE DEF s2
<1>31. t = [s2 EXCEPT !.header = Drop(s2.header, h)] /\ IsHeap(s2)
  BY <1>3
<1> HIDE DEF t
<1>4. /\ IsHeap(t)
      /\ t.pages = s2.pages /\ t.span_list_ = s2.span_list_
      /\ t.bin_ = s2.bin_ /\ t.offset = s2.offset
      /\ is_head_(t) = is_head_(s2) \ {h}
      /\ \A x \in is_head_(s2) \ {h} : t.header[x] = s2.header[x]
  BY <1>31, WithDrop, SMTT(30)
<1> QED
  BY <1>1, <1>3, <1>4 DEF after, before, k, Kept

-----------------------------------------------------------------------------
(* Arena: the lists of free spans and the bins *)

(* The list of the spans of a Flag, one of free spans or a bin; X are spans *)
(* that are in no list, as they are just taken or freed.                    *)
Kinds == 1 .. kSpanSlotSize \cup (-39) .. (-1)

First(s, k) == IF k > 0 THEN s.span_list_[k] ELSE s.bin_[-k]

Members(s, X, k) == {h \in is_head_(s) \ X : s.header[h].Flag = k /\ s.header[h].hNext # -1}

Nx(s) == [h \in is_head_(s) |-> s.header[h].hNext]
Pr(s) == [h \in is_head_(s) |-> s.header[h].hPri]

Lists(s, X) == \A k \in Kinds : List(First(s, k), Members(s, X, k), Nx(s), Pr(s))

(* What a list says of its members. *)
LEMMA Listed ==
  ASSUME NEW s, NEW X, Lists(s, X), NEW k \in Kinds
  PROVE  /\ First(s, k) # 0 => First(s, k) \in Members(s, X, k) /\ s.header[First(s, k)].hPri = 0
         /\ First(s, k) \in Links(s)
         /\ \A h \in Members(s, X, k) :
              /\ s.header[h].hNext # 0 => s.header[h].hNext \in Members(s, X, k)
                                          /\ s.header[s.header[h].hNext].hPri = h
              /\ s.header[h].hPri = 0 => h = First(s, k)
              /\ s.header[h].hPri # 0 => s.header[h].hPri \in Members(s, X, k)
                                         /\ s.header[s.header[h].hPri].hNext = h
              /\ s.header[h].hNext \in Links(s) /\ s.header[h].hPri \in Links(s)
<1>1. List(First(s, k), Members(s, X, k), Nx(s), Pr(s))
  BY DEF Lists
<1>2. Members(s, X, k) \subseteq is_head_(s)
  BY DEF Members
<1>3. \A h \in Members(s, X, k) : Nx(s)[h] = s.header[h].hNext /\ Pr(s)[h] = s.header[h].hPri
  BY <1>2 DEF Nx, Pr
<1>4. First(s, k) # 0 => First(s, k) \in Members(s, X, k) /\ s.header[First(s, k)].hPri = 0
  BY <1>1, <1>3 DEF List
<1>5. ASSUME NEW h \in Members(s, X, k)
      PROVE  /\ s.header[h].hNext # 0 => s.header[h].hNext \in Members(s, X, k)
                                          /\ s.header[s.header[h].hNext].hPri = h
             /\ s.header[h].hPri = 0 => h = First(s, k)
             /\ s.header[h].hPri # 0 => s.header[h].hPri \in Members(s, X, k)
                                         /\ s.header[s.header[h].hPri].hNext = h
  <2>1. /\ s.header[h].hNext # 0 => s.header[h].hNext \in Members(s, X, k)
                                    /\ Pr(s)[s.header[h].hNext] = h
        /\ s.header[h].hPri = 0 => h = First(s, k)
        /\ s.header[h].hPri # 0 => s.header[h].hPri \in Members(s, X, k)
                                   /\ Nx(s)[s.header[h].hPri] = h
    BY <1>1, <1>3 DEF List
  <2> QED
    BY <1>3, <2>1
<1> QED
  BY <1>2, <1>4, <1>5 DEF Links

(* A span h comes first in the list of k. *)
LEMMA ListsPush ==
  ASSUME NEW s, NEW X, Lists(s, X), NEW k \in Kinds, NEW h, h # 0, h \notin is_head_(s) \ X,
         NEW t, is_head_(t) = is_head_(s) \cup {h},
         First(t, k) = h, \A j \in Kinds \ {k} : First(t, j) = First(s, j),
         t.header[h].Flag = k, t.header[h].hNext = First(s, k), t.header[h].hPri = 0,
         First(s, k) # -1,
         \A x \in is_head_(s) \ {h} :
           /\ t.header[x].Flag = s.header[x].Flag
           /\ t.header[x].hNext = s.header[x].hNext
           /\ t.header[x].hPri = IF x = First(s, k) THEN h ELSE s.header[x].hPri
  PROVE  Lists(t, X \ {h})
<1> SUFFICES ASSUME NEW j \in Kinds
             PROVE  List(First(t, j), Members(t, X \ {h}, j), Nx(t), Pr(t))
  BY DEF Lists
<1>1. List(First(s, j), Members(s, X, j), Nx(s), Pr(s)) /\ List(First(s, k), Members(s, X, k), Nx(s), Pr(s))
  BY DEF Lists
<1>2. /\ \A x \in is_head_(s) : Nx(s)[x] = s.header[x].hNext /\ Pr(s)[x] = s.header[x].hPri
      /\ \A x \in is_head_(t) : Nx(t)[x] = t.header[x].hNext /\ Pr(t)[x] = t.header[x].hPri
  BY DEF Nx, Pr
<1>3. CASE j = k
  <2>1. Members(t, X \ {h}, k) = Members(s, X, k) \cup {h}
    BY DEF Members
  <2>2. h \notin Members(s, X, k)
    BY DEF Members
  <2>3. Nx(t)[h] = First(s, k) /\ Pr(t)[h] = 0
    BY <1>2
  <2>4. \A x \in Members(s, X, k) :
          Nx(t)[x] = Nx(s)[x] /\ Pr(t)[x] = IF x = First(s, k) THEN h ELSE Pr(s)[x]
    BY <1>2, <2>2 DEF Members
  <2>5. List(h, Members(s, X, k) \cup {h}, Nx(t), Pr(t))
    BY <1>1, <2>2, <2>3, <2>4, ListPush
  <2> QED
    BY <1>3, <2>1, <2>5
<1>4. CASE j # k
  <2>1. Members(t, X \ {h}, j) = Members(s, X, j)
    BY <1>4 DEF Members
  <2>2. First(s, k) \notin Members(s, X, j)
    <3>1. First(s, k) # 0 => First(s, k) \in Members(s, X, k)
      BY <1>1 DEF List
    <3>2. 0 \notin Members(s, X, j)
      BY <1>1 DEF List
    <3> QED
      BY <1>4, <3>1, <3>2 DEF Members
  <2>3. \A x \in Members(s, X, j) : Nx(t)[x] = Nx(s)[x] /\ Pr(t)[x] = Pr(s)[x]
    BY <1>2, <1>4, <2>2 DEF Members
  <2>4. First(t, j) = First(s, j)
    BY <1>4
  <2> QED
    BY <1>1, <2>1, <2>3, <2>4, ListSame
<1> QED
  BY <1>3, <1>4

(* A member h of the list of k leaves it. *)
Unlinked(s, t, h, k) ==
  /\ First(t, k) = IF s.header[h].hPri = 0 THEN s.header[h].hNext ELSE First(s, k)
  /\ \A j \in Kinds \ {k} : First(t, j) = First(s, j)
  /\ \A x \in is_head_(s) \ {h} :
       /\ t.header[x].Flag = s.header[x].Flag
       /\ t.header[x].hNext = IF x = s.header[h].hPri THEN s.header[h].hNext ELSE s.header[x].hNext
       /\ t.header[x].hPri = IF x = s.header[h].hNext THEN s.header[h].hPri ELSE s.header[x].hPri

(* A span that is unlinked is in hand, and the lists are lists. *)
LEMMA ListsRemove ==
  ASSUME NEW s, NEW X, Lists(s, X), 0 \notin is_head_(s), NEW k \in Kinds, NEW h \in Members(s, X, k),
         NEW t, is_head_(t) \cup {h} = is_head_(s), Unlinked(s, t, h, k)
  PROVE  Lists(t, X \cup {h})
<1> USE DEF Unlinked
<1> SUFFICES ASSUME NEW j \in Kinds
             PROVE  List(First(t, j), Members(t, X \cup {h}, j), Nx(t), Pr(t))
  BY DEF Lists
<1>1. List(First(s, j), Members(s, X, j), Nx(s), Pr(s)) /\ List(First(s, k), Members(s, X, k), Nx(s), Pr(s))
  BY DEF Lists
<1>2. /\ \A x \in is_head_(s) : Nx(s)[x] = s.header[x].hNext /\ Pr(s)[x] = s.header[x].hPri
      /\ \A x \in is_head_(t) : Nx(t)[x] = t.header[x].hNext /\ Pr(t)[x] = t.header[x].hPri
  BY DEF Nx, Pr
<1>3. h \in is_head_(s) /\ s.header[h].hNext # -1 /\ s.header[h].Flag = k /\ h \notin X
  BY DEF Members
<1>4. \A x \in is_head_(s) \ {h} : t.header[x].hNext # -1 <=> s.header[x].hNext # -1
  <2> SUFFICES ASSUME NEW x \in is_head_(s) \ {h}, x = s.header[h].hPri
               PROVE  t.header[x].hNext # -1 /\ s.header[x].hNext # -1
    OBVIOUS
  <2>1. Pr(s)[h] = x /\ x # 0
    BY <1>2, <1>3
  <2>2. x \in Members(s, X, k)
    BY <1>1, <2>1 DEF List
  <2> QED
    BY <1>3, <2>2 DEF Members
<1>5. CASE j = k
  <2>1. Members(t, X \cup {h}, k) = Members(s, X, k) \ {h}
    BY <1>3, <1>4 DEF Members
  <2>2. \A x \in Members(s, X, k) \ {h} :
          /\ Nx(t)[x] = IF x = Pr(s)[h] THEN Nx(s)[h] ELSE Nx(s)[x]
          /\ Pr(t)[x] = IF x = Nx(s)[h] THEN Pr(s)[h] ELSE Pr(s)[x]
    BY <1>2, <1>3 DEF Members
  <2>3. First(t, k) = IF Pr(s)[h] = 0 THEN Nx(s)[h] ELSE First(s, k)
    BY <1>2, <1>3
  <2>4. List(First(t, k), Members(s, X, k) \ {h}, Nx(t), Pr(t))
    BY <1>1, <2>2, <2>3, ListRemove
  <2> QED
    BY <1>5, <2>1, <2>4
<1>6. CASE j # k
  <2>1. Members(s, X, j) \cap Members(s, X, k) = {} /\ h \notin Members(s, X, j)
    BY <1>6 DEF Members
  <2>2. Pr(s)[h] \notin Members(s, X, j) /\ Nx(s)[h] \notin Members(s, X, j)
    BY <1>1, <2>1 DEF List
  <2>3. Members(t, X \cup {h}, j) = Members(s, X, j)
    BY <1>4, <2>1 DEF Members
  <2>4. \A x \in Members(s, X, j) : Nx(t)[x] = Nx(s)[x] /\ Pr(t)[x] = Pr(s)[x]
    BY <1>2, <1>3, <2>1, <2>2 DEF Members
  <2>5. First(t, j) = First(s, j)
    BY <1>6
  <2> QED
    BY <1>1, <2>3, <2>4, <2>5, ListSame
<1> QED
  BY <1>5, <1>6

(* What a span in hand stores is in no list. *)
LEMMA ListsHand ==
  ASSUME NEW s, NEW X, Lists(s, X), NEW t, is_head_(t) \ X = is_head_(s) \ X,
         \A k \in Kinds : First(t, k) = First(s, k),
         \A x \in is_head_(s) \ X : t.header[x] = s.header[x]
  PROVE  Lists(t, X)
<1> SUFFICES ASSUME NEW j \in Kinds
             PROVE  List(First(t, j), Members(t, X, j), Nx(t), Pr(t))
  BY DEF Lists
<1>1. List(First(s, j), Members(s, X, j), Nx(s), Pr(s))
  BY DEF Lists
<1>2. Members(t, X, j) = Members(s, X, j)
  BY DEF Members
<1>3. \A x \in Members(s, X, j) : Nx(t)[x] = Nx(s)[x] /\ Pr(t)[x] = Pr(s)[x]
  BY DEF Members, Nx, Pr
<1> QED
  BY <1>1, <1>2, <1>3, ListSame

-----------------------------------------------------------------------------
(* Arena: tilings *)

(* The spans that begin at the pages D and have the lengths len tile the    *)
(* pages 1 .. P.                                                            *)
Tiles(D, len, P) ==
  /\ P \in Nat /\ (P > 0 => 1 \in D)
  /\ \A h \in D : h \in Nat /\ h >= 1 /\ len[h] \in Nat /\ len[h] >= 1
  /\ \A h \in D : h + len[h] \in D \/ h + len[h] = P + 1
  /\ \A h \in D : h + len[h] <= P + 1
  /\ \A h, x \in D : x <= h \/ x >= h + len[h]

(* The span of a page is the last one that begins at it or before it. *)
LEMMA TilesAt ==
  ASSUME NEW D, NEW len, NEW P, Tiles(D, len, P), NEW h \in D, NEW p \in Nat, h <= p, p < h + len[h]
  PROVE  Max({x \in D : x <= p} \cup {0}) = h
<1> DEFINE S == {x \in D : x <= p} \cup {0}
<1>1. S \in SUBSET (0 .. p) /\ S # {}
  BY DEF Tiles
<1>2. Max(S) \in S /\ \A y \in S : y <= Max(S)
  BY <1>1, Greatest
<1>3. Max(S) \in Nat
  BY <1>1, <1>2
<1>4. h \in S /\ h >= 1
  BY DEF Tiles
<1>5. h <= Max(S)
  BY <1>2, <1>4
<1>6. Max(S) \in D /\ Max(S) <= p
  BY <1>2, <1>3, <1>4, <1>5 DEF Tiles
<1> HIDE DEF S
<1>7. Max(S) <= h
  BY <1>3, <1>6 DEF Tiles
<1> QED
  BY <1>3, <1>4, <1>5, <1>7 DEF Tiles, S

(* Every page has one. *)
LEMMA TilesCover ==
  ASSUME NEW D, NEW len, NEW P, Tiles(D, len, P), NEW p \in 1 .. P
  PROVE  LET h == Max({x \in D : x <= p} \cup {0}) IN h \in D /\ h <= p /\ p < h + len[h]
<1> DEFINE S == {x \in D : x <= p} \cup {0}
<1>0. P \in Nat /\ p \in Nat /\ p <= P /\ p >= 1 /\ 1 \in D
  BY DEF Tiles
<1>1. S \in SUBSET (0 .. p) /\ S # {}
  BY <1>0 DEF Tiles
<1>2. Max(S) \in S /\ \A y \in S : y <= Max(S)
  BY <1>0, <1>1, Greatest
<1>3. Max(S) \in Nat
  BY <1>0, <1>1, <1>2
<1>4. 1 \in S
  BY <1>0
<1>5. 1 <= Max(S)
  BY <1>2, <1>4
<1>6. Max(S) \in D /\ Max(S) <= p
  BY <1>2, <1>3, <1>5
<1> DEFINE h == Max(S)
<1>7. \A y \in D : y <= p => y <= h
  BY <1>2
<1> HIDE DEF S, h
<1>8. h \in D /\ h \in Nat /\ h <= p
  BY <1>3, <1>6 DEF h
<1>9. p < h + len[h]
  <2>1. len[h] \in Nat /\ len[h] >= 1 /\ (h + len[h] \in D \/ h + len[h] = P + 1)
    BY <1>8 DEF Tiles
  <2>2. CASE h + len[h] \in D
    BY <1>0, <1>7, <1>8, <2>1, <2>2
  <2> QED
    BY <1>0, <1>8, <2>1, <2>2
<1> QED
  BY <1>8, <1>9 DEF S, h

(* A span that is joined with the one behind it. *)
LEMMA TilesMerge ==
  ASSUME NEW D, NEW len, NEW P, Tiles(D, len, P), NEW h \in D, NEW b \in D, b = h + len[h],
         NEW len2, len2[h] = len[h] + len[b], \A x \in D \ {h, b} : len2[x] = len[x]
  PROVE  Tiles(D \ {b}, len2, P)
<1>0. /\ h \in Nat /\ h >= 1 /\ len[h] \in Nat /\ len[h] >= 1 /\ len[b] \in Nat /\ len[b] >= 1
      /\ b \in Nat /\ P \in Nat
  BY DEF Tiles
<1>1. h # b /\ b # 1
  BY <1>0
<1>2. \A x \in D \ {b} : x \in Nat /\ x >= 1 /\ len2[x] \in Nat /\ len2[x] >= 1
  BY <1>0 DEF Tiles
<1>3. ASSUME NEW x \in D \ {b}
      PROVE  (x + len2[x] \in D \ {b} \/ x + len2[x] = P + 1) /\ x + len2[x] <= P + 1
  <2>1. CASE x = h
    <3>1. x + len2[x] = b + len[b]
      BY <1>0, <2>1
    <3> QED
      BY <1>0, <3>1 DEF Tiles
  <2>2. CASE x # h
    <3>1. len2[x] = len[x] /\ x \in Nat /\ len[x] \in Nat /\ len[x] >= 1
      BY <2>2 DEF Tiles
    <3>2. x + len[x] # b
      <4>1. h <= x \/ h >= x + len[x]
        BY DEF Tiles
      <4>2. x <= h \/ x >= b
        BY DEF Tiles
      <4> QED
        BY <1>0, <2>2, <3>1, <4>1, <4>2
    <3> QED
      BY <3>1, <3>2 DEF Tiles
  <2> QED
    BY <2>1, <2>2
<1>4. ASSUME NEW x \in D \ {b}, NEW y \in D \ {b}
      PROVE  y <= x \/ y >= x + len2[x]
  <2>0. x \in Nat /\ y \in Nat
    BY DEF Tiles
  <2>1. CASE x = h
    <3>1. y <= h \/ y >= b
      BY DEF Tiles
    <3>2. y <= b \/ y >= b + len[b]
      BY DEF Tiles
    <3> QED
      BY <1>0, <2>0, <2>1, <3>1, <3>2
  <2>2. CASE x # h
    BY <2>2 DEF Tiles
  <2> QED
    BY <2>1, <2>2
<1>5. P > 0 => 1 \in D \ {b}
  BY <1>1 DEF Tiles
<1> QED
  BY <1>0, <1>2, <1>3, <1>4, <1>5 DEF Tiles

(* A span that is split. *)
LEMMA TilesSplit ==
  ASSUME NEW D, NEW len, NEW P, Tiles(D, len, P), NEW h \in D, NEW n \in Nat, n >= 1, n < len[h],
         NEW len2, len2[h] = n, len2[h + n] = len[h] - n, \A x \in D \ {h} : len2[x] = len[x]
  PROVE  Tiles(D \cup {h + n}, len2, P) /\ h + n \notin D
<1>0. h \in Nat /\ h >= 1 /\ len[h] \in Nat /\ P \in Nat
  BY DEF Tiles
<1>1. h + n \notin D
  <2>1. \A x \in D : x <= h \/ x >= h + len[h]
    BY DEF Tiles
  <2> QED
    BY <1>0, <2>1
<1>2. \A x \in D \cup {h + n} : x \in Nat /\ x >= 1 /\ len2[x] \in Nat /\ len2[x] >= 1
  BY <1>0 DEF Tiles
<1>3. ASSUME NEW x \in D \cup {h + n}
      PROVE  (x + len2[x] \in D \cup {h + n} \/ x + len2[x] = P + 1) /\ x + len2[x] <= P + 1
  <2>0. (h + len[h] \in D \/ h + len[h] = P + 1) /\ h + len[h] <= P + 1
    BY DEF Tiles
  <2>1. CASE x = h
    BY <1>0, <2>0, <2>1
  <2>2. CASE x = h + n
    <3>1. x + len2[x] = h + len[h]
      BY <1>0, <2>2
    <3> QED
      BY <2>0, <3>1
  <2>3. CASE x # h /\ x # h + n
    <3>1. x \in D /\ len2[x] = len[x]
      BY <2>3
    <3> QED
      BY <3>1 DEF Tiles
  <2> QED
    BY <2>1, <2>2, <2>3
<1>4. ASSUME NEW x \in D \cup {h + n}, NEW y \in D \cup {h + n}
      PROVE  y <= x \/ y >= x + len2[x]
  <2>0. x \in Nat /\ y \in Nat
    BY <1>2
  <2>1. CASE x = h
    <3>1. CASE y = h + n
      BY <2>1, <3>1
    <3>2. CASE y \in D
      <4>1. y <= h \/ y >= h + len[h]
        BY <3>2 DEF Tiles
      <4> QED
        BY <1>0, <2>0, <2>1, <4>1
    <3> QED
      BY <3>1, <3>2
  <2>2. CASE x = h + n
    <3>1. x + len2[x] = h + len[h]
      BY <1>0, <2>2
    <3>2. CASE y = h + n
      BY <2>0, <2>2, <3>2
    <3>3. CASE y \in D
      <4>1. y <= h \/ y >= h + len[h]
        BY <3>3 DEF Tiles
      <4> QED
        BY <1>0, <2>0, <2>2, <3>1, <4>1
    <3> QED
      BY <3>2, <3>3
  <2>3. CASE x # h /\ x # h + n
    <3>1. x \in D /\ len2[x] = len[x] /\ len[x] \in Nat
      BY <2>3 DEF Tiles
    <3>2. CASE y = h + n
      <4>1. (h <= x \/ h >= x + len[x]) /\ (x <= h \/ x >= h + len[h])
        BY <3>1 DEF Tiles
      <4> QED
        BY <1>0, <2>0, <3>1, <3>2, <4>1
    <3>3. CASE y \in D
      BY <3>1, <3>3 DEF Tiles
    <3> QED
      BY <3>2, <3>3
  <2> QED
    BY <2>1, <2>2, <2>3
<1>5. P > 0 => 1 \in D \cup {h + n}
  BY DEF Tiles
<1> QED
  BY <1>0, <1>1, <1>2, <1>3, <1>4, <1>5 DEF Tiles

(* A span of n more pages. *)
LEMMA TilesGrow ==
  ASSUME NEW D, NEW len, NEW P, Tiles(D, len, P), NEW n \in Nat, n >= 1,
         NEW len2, len2[P + 1] = n, \A x \in D : len2[x] = len[x]
  PROVE  Tiles(D \cup {P + 1}, len2, P + n) /\ P + 1 \notin D
<1>0. P \in Nat
  BY DEF Tiles
<1>1. \A x \in D : x \in Nat /\ x >= 1 /\ len[x] \in Nat /\ len[x] >= 1 /\ x + len[x] <= P + 1
  BY DEF Tiles
<1>2. P + 1 \notin D
  BY <1>0, <1>1
<1>3. \A x \in D \cup {P + 1} : x \in Nat /\ x >= 1 /\ len2[x] \in Nat /\ len2[x] >= 1
  BY <1>0, <1>1
<1>4. ASSUME NEW x \in D \cup {P + 1}
      PROVE  (x + len2[x] \in D \cup {P + 1} \/ x + len2[x] = P + n + 1) /\ x + len2[x] <= P + n + 1
  <2>1. CASE x = P + 1
    BY <1>0, <2>1
  <2>2. CASE x \in D
    <3>1. x + len[x] \in D \/ x + len[x] = P + 1
      BY <2>2 DEF Tiles
    <3> QED
      BY <1>0, <1>1, <2>2, <3>1
  <2> QED
    BY <2>1, <2>2
<1>5. ASSUME NEW x \in D \cup {P + 1}, NEW y \in D \cup {P + 1}
      PROVE  y <= x \/ y >= x + len2[x]
  <2>1. CASE x = P + 1
    BY <1>0, <1>1, <2>1
  <2>2. CASE x \in D /\ y = P + 1
    BY <1>0, <1>1, <2>2
  <2>3. CASE x \in D /\ y \in D
    BY <2>3 DEF Tiles
  <2> QED
    BY <2>1, <2>2, <2>3
<1>6. P = 0 => 1 \in D \cup {P + 1}
  OBVIOUS
<1>7. P + n > 0 => 1 \in D \cup {P + 1}
  BY <1>0, <1>6 DEF Tiles
<1> QED
  BY <1>0, <1>2, <1>3, <1>4, <1>5, <1>7 DEF Tiles

(* Only the lengths of the spans matter. *)
LEMMA TilesSame ==
  ASSUME NEW D, NEW len, NEW P, Tiles(D, len, P), NEW len2, \A x \in D : len2[x] = len[x]
  PROVE  Tiles(D, len2, P)
BY DEF Tiles

-----------------------------------------------------------------------------
(* Arena: heaps in order *)

Spans(s) == {h \in is_head_(s) : h <= s.pages}
Lengths(s) == [h \in is_head_(s) |-> Pages(s, h)]

(* Every span has a length; a page span is no big chunk. *)
Shaped(s, X) ==
  \A h \in Spans(s) \ X : s.header[h].Flag \in Kinds /\ (s.header[h].Flag < 0 => s.header[h].hNext # -1)

Tiled(s) == Tiles(Spans(s), Lengths(s), s.pages) /\ Shaped(s, {})

(* The span h is in hand, all others are in order. *)
InHand(s, h) ==
  /\ IsHeap(s)
  /\ is_head_(s) = Spans(s)
  /\ h \in is_head_(s)
  /\ Shaped(s, {h})
  /\ Lists(s, {h})
  /\ s.pages \in Nat /\ s.pages <= kPageTotal /\ s.span_list_[0] = 0

InOrder(s) ==
  /\ IsHeap(s)
  /\ is_head_(s) = Spans(s)
  /\ Tiled(s)
  /\ Lists(s, {})
  /\ s.pages \in Nat /\ s.pages <= kPageTotal /\ s.span_list_[0] = 0

(* A page span or the span of a big chunk, and that all of these but X are  *)
(* the same in s and in t.                                                  *)
InUse(s, h) == h \in is_head_(s) /\ (s.header[h].Flag < 0 \/ s.header[h].hNext = -1)

Untouched(s, t, X) ==
  \A x : x \notin X /\ (InUse(s, x) \/ InUse(t, x)) =>
    /\ x \in is_head_(s) /\ x \in is_head_(t) /\ Kept(s, t, x)
    /\ s.header[x].hNext = -1 <=> t.header[x].hNext = -1

(* Two steps that leave the spans in use alone, one after the other. *)
LEMMA UntouchedTrans ==
  ASSUME NEW s, NEW t, NEW u, NEW X, Untouched(s, t, X), Untouched(t, u, X)
  PROVE  Untouched(s, u, X)
BY DEF Untouched, InUse, Kept

(* What the types say of a header. *)
LEMMA HeaderTypes ==
  ASSUME NEW s, IsHeap(s), NEW h \in is_head_(s)
  PROVE  /\ h \in Nat /\ h >= 1 /\ h <= kPageTotal + 1 /\ h \in PageHandles
         /\ s.header[h].Flag \in Int /\ s.header[h].hPri \in Refs
         /\ s.header[h].hNext \in Int /\ s.header[h].hNext >= -1
         /\ s.header[h].oFree \in Nat /\ s.header[h].nUsed \in Nat
<1>1. h \in PageHandles /\ s.header[h] \in Header
  BY DEF IsHeap
<1>2. s.header[h].hNext \in PageHandles \cup {0, -1}
  BY <1>1 DEF Header
<1> QED
  BY <1>1, <1>2, HandleRange DEF Header

(* The numbers the lists go by: pages for spans, the class below zero for pages. *)
LEMMA KindRange ==
  ASSUME NEW k \in Kinds
  PROVE  /\ k \in Int /\ k # 0
         /\ k > 0 => k \in 1 .. kSpanSlotSize /\ k \in 0 .. kSpanSlotSize
         /\ k < 0 => -k \in Bins
BY ClassCount, PagesAssumption DEF Kinds

(* The list of the spans of n pages. *)
LEMMA SizeKind ==
  ASSUME NEW n \in 1 .. kSpanSlotSize
  PROVE  n \in Kinds /\ n \in Nat /\ n > 0 /\ \A s : First(s, n) = s.span_list_[n]
BY PagesAssumption DEF Kinds, First

(* The list of the page spans of a class. *)
LEMMA BinKind ==
  ASSUME NEW b \in Bins
  PROVE  -b \in Kinds /\ -b < 0 /\ \A s : First(s, -b) = s.bin_[b]
BY ClassCount DEF Kinds, First

(* Other lists are where they were when one list of spans has changed. *)
LEMMA FirstOther ==
  ASSUME NEW s, IsHeap(s), NEW t, NEW n \in 1 .. kSpanSlotSize, NEW v, t.bin_ = s.bin_,
         t.span_list_ = [s.span_list_ EXCEPT ![n] = v]
  PROVE  /\ First(t, n) = v /\ \A j \in Kinds \ {n} : First(t, j) = First(s, j)
         /\ t.span_list_[0] = s.span_list_[0]
<1>1. t.span_list_[n] = v /\ \A j \in 0 .. kSpanSlotSize : j # n => t.span_list_[j] = s.span_list_[j]
  BY PagesAssumption DEF IsHeap
<1>2. First(t, n) = v
  BY <1>1, SizeKind
<1>3. ASSUME NEW j \in Kinds, j # n PROVE First(t, j) = First(s, j)
  BY <1>1, <1>3, KindRange DEF First
<1>4. t.span_list_[0] = s.span_list_[0]
  BY <1>1, PagesAssumption
<1> QED
  BY <1>2, <1>3, <1>4

(* The first span of a list is a free span of that size. *)
LEMMA FirstSpan ==
  ASSUME NEW s, InOrder(s), NEW n \in 1 .. kSpanSlotSize
  PROVE  /\ s.span_list_[n] \in Links(s)
         /\ s.span_list_[n] > 0 =>
              /\ s.span_list_[n] \in Members(s, {}, n)
              /\ s.span_list_[n] \in is_head_(s)
              /\ s.header[s.span_list_[n]].Flag = n
              /\ s.header[s.span_list_[n]].hPri = 0
              /\ s.header[s.span_list_[n]].hNext # -1
              /\ s.header[s.span_list_[n]].hNext \in Links(s)
              /\ s.header[s.span_list_[n]].hNext # 0 =>
                   s.header[s.span_list_[n]].hNext \in Members(s, {}, n)
<1>1. n \in Kinds /\ First(s, n) = s.span_list_[n] /\ Lists(s, {})
  BY SizeKind DEF InOrder
<1>2. s.span_list_[n] \in Links(s)
  BY <1>1, Listed
<1>3. ASSUME s.span_list_[n] > 0
      PROVE  /\ s.span_list_[n] \in Members(s, {}, n)
             /\ s.header[s.span_list_[n]].hPri = 0
             /\ s.header[s.span_list_[n]].hNext \in Links(s)
             /\ s.header[s.span_list_[n]].hNext # 0 =>
                   s.header[s.span_list_[n]].hNext \in Members(s, {}, n)
  <2>1. s.span_list_[n] # 0
    BY <1>3
  <2>2. First(s, n) \in Members(s, {}, n) /\ s.header[First(s, n)].hPri = 0
    BY <1>1, <2>1, Listed
  <2> QED
    BY <1>1, <2>2, Listed
<1> QED
  BY <1>2, <1>3 DEF Members

(* The lengths depend on nothing but the Flags. *)
LEMMA LenSame ==
  ASSUME NEW s, NEW t, NEW x, x \in is_head_(s), x \in is_head_(t), t.header[x].Flag = s.header[x].Flag
  PROVE  Lengths(t)[x] = Lengths(s)[x]
BY DEF Lengths, Pages

(* A span that becomes free. *)
IsPushed(s, t, h, n) ==
  /\ IsHeap(t) /\ Untouched(s, t, {h}) /\ ~InUse(t, h)
  /\ t.pages = s.pages /\ t.bin_ = s.bin_ /\ t.offset = s.offset
  /\ t.span_list_[n] = h /\ t.span_list_[0] = s.span_list_[0]
  /\ is_head_(t) = is_head_(s) \cup {h}
  /\ t.header[h].Flag = n /\ t.header[h].hNext # -1
  /\ \A x \in is_head_(s) \ {h} :
       t.header[x].Flag = s.header[x].Flag /\ t.header[x].hNext = s.header[x].hNext

(* A span in hand that push puts into the list of its size. *)
LEMMA Pushed ==
  ASSUME NEW s, IsHeap(s), NEW X, Lists(s, X), NEW h \in PageHandles, h \notin is_head_(s) \ X,
         NEW n \in 1 .. kSpanSlotSize, NEW t, t = PushSpan(s, h, n)
  PROVE  IsPushed(s, t, h, n) /\ Lists(t, X \ {h})
<1>0. n \in Kinds /\ n \in Nat /\ n > 0 /\ n \in 0 .. kSpanSlotSize /\ First(s, n) = s.span_list_[n] /\ h # 0
  BY SizeKind, HandleRange, PagesAssumption
<1>1. First(s, n) \in Links(s) \ {h} /\ First(s, n) # -1
  <2>1. First(s, n) # 0 => First(s, n) \in Members(s, X, n)
    BY <1>0, Listed
  <2>2. First(s, n) \in Links(s)
    BY <1>0, Listed
  <2>3. -1 \notin Links(s)
    BY HandleRange DEF IsHeap, Links
  <2> QED
    BY <1>0, <2>1, <2>2, <2>3 DEF Members
<1>2. /\ IsHeap(t)
      /\ t.pages = s.pages /\ t.span_list_ = [s.span_list_ EXCEPT ![n] = h]
      /\ t.bin_ = s.bin_ /\ t.offset = s.offset
      /\ is_head_(t) = is_head_(s) \cup {h}
      /\ t.header[h] = Span(n, s.span_list_[n])
      /\ \A x \in is_head_(s) \ {h} :
           /\ Kept(s, t, x)
           /\ t.header[x].hNext = s.header[x].hNext
           /\ t.header[x].hPri = IF x = s.span_list_[n] THEN h ELSE s.header[x].hPri
  <2>1. s.span_list_[n] \in Links(s) \ {h}
    BY <1>0, <1>1
  <2>2. SpanPushed(s, t, h, n)
    BY <1>0, <2>1, PushSpanIs
  <2> QED
    BY <2>2 DEF SpanPushed
<1>3. t.header[h].Flag = n /\ t.header[h].hNext = First(s, n) /\ t.header[h].hPri = 0
  BY <1>0, <1>2 DEF Span
<1>4. /\ First(t, n) = h /\ \A j \in Kinds \ {n} : First(t, j) = First(s, j)
      /\ t.span_list_[0] = s.span_list_[0]
  BY <1>2, FirstOther
<1>5. \A x \in is_head_(s) \ {h} :
        /\ t.header[x].Flag = s.header[x].Flag
        /\ t.header[x].hNext = s.header[x].hNext
        /\ t.header[x].hPri = IF x = First(s, n) THEN h ELSE s.header[x].hPri
  BY <1>0, <1>2 DEF Kept
<1>6. Lists(t, X \ {h})
  <2>1. n \in Kinds /\ h # 0 /\ First(s, n) # -1
    BY <1>0, <1>1
  <2>2. is_head_(t) = is_head_(s) \cup {h}
    BY <1>2
  <2> QED
    BY <2>1, <2>2, <1>3, <1>4, <1>5, ListsPush
<1>7. ~InUse(t, h)
  BY <1>0, <1>1, <1>3 DEF InUse
<1>8. Untouched(s, t, {h})
  BY <1>2 DEF Untouched, InUse, Kept
<1>9. t.span_list_[n] = h /\ t.span_list_[0] = s.span_list_[0]
  BY <1>0, <1>4, SizeKind
<1> QED
  BY <1>1, <1>2, <1>3, <1>5, <1>6, <1>7, <1>8, <1>9 DEF IsPushed

(* A free span that leaves its list and is merged with another. *)
LEMMA Removed ==
  ASSUME NEW s, IsHeap(s), NEW X, Lists(s, X), NEW n \in 1 .. kSpanSlotSize, NEW h \in Members(s, X, n),
         NEW t, t = RemoveSpan(s, h)
  PROVE  /\ IsHeap(t) /\ Lists(t, X) /\ Untouched(s, t, {h}) /\ ~InUse(s, h)
         /\ t.pages = s.pages /\ t.bin_ = s.bin_ /\ t.offset = s.offset
         /\ is_head_(t) = is_head_(s) \ {h} /\ t.span_list_[0] = s.span_list_[0]
         /\ \A x \in is_head_(s) \ {h} : Kept(s, t, x) /\ (t.header[x].hNext = -1 <=> s.header[x].hNext = -1)
<1>0. n \in Kinds /\ n \in Nat /\ n > 0 /\ n \in 0 .. kSpanSlotSize /\ First(s, n) = s.span_list_[n]
  BY SizeKind, PagesAssumption
<1>1. h \in is_head_(s) /\ s.header[h].Flag = n /\ s.header[h].hNext # -1
  BY DEF Members
<1>2. 0 \notin is_head_(s) /\ -1 \notin Links(s)
  BY HandleRange DEF IsHeap, Links
<1> DEFINE pri == s.header[h].hPri
           next == s.header[h].hNext
<1>3. /\ next # 0 => next \in Members(s, X, n)
      /\ pri # 0 => pri \in Members(s, X, n)
      /\ pri = 0 => h = First(s, n)
      /\ next \in Links(s) /\ pri \in Links(s)
  BY <1>0, Listed
<1>4. /\ IsHeap(t)
      /\ t.pages = s.pages
      /\ t.span_list_ = IF pri = 0 THEN [s.span_list_ EXCEPT ![n] = next] ELSE s.span_list_
      /\ t.bin_ = s.bin_ /\ t.offset = s.offset
      /\ is_head_(t) = is_head_(s) \ {h}
      /\ \A x \in is_head_(s) \ {h} :
           /\ Kept(s, t, x)
           /\ t.header[x].hNext = IF x = pri THEN next ELSE s.header[x].hNext
           /\ t.header[x].hPri = IF x = next THEN pri ELSE s.header[x].hPri
  <2>1. s.header[h].Flag \in 0 .. kSpanSlotSize
    BY <1>0, <1>1
  <2> QED
    BY <1>1, <1>3, <2>1, RemoveSpanIs
<1> HIDE DEF pri, next
<1>5. /\ First(t, n) = IF pri = 0 THEN next ELSE First(s, n)
      /\ \A j \in Kinds \ {n} : First(t, j) = First(s, j)
      /\ t.span_list_[0] = s.span_list_[0]
  <2>1. CASE pri = 0
    <3>1. t.span_list_ = [s.span_list_ EXCEPT ![n] = next] /\ t.bin_ = s.bin_
      BY <1>4, <2>1
    <3>2. /\ First(t, n) = next /\ \A j \in Kinds \ {n} : First(t, j) = First(s, j)
          /\ t.span_list_[0] = s.span_list_[0]
      BY <3>1, FirstOther
    <3> QED
      BY <2>1, <3>2
  <2>2. CASE pri # 0
    BY <1>4, <2>2 DEF First
  <2> QED
    BY <2>1, <2>2
<1>6. is_head_(t) \cup {h} = is_head_(s)
  BY <1>1, <1>4
<1>7. Lists(t, X \cup {h})
  <2>0. n \in Kinds
    BY <1>0
  <2>3. \A j \in Kinds \ {n} : First(t, j) = First(s, j)
    BY <1>5
  <2>1. \A x \in is_head_(s) \ {h} :
           /\ t.header[x].Flag = s.header[x].Flag
           /\ t.header[x].hNext = IF x = s.header[h].hPri THEN s.header[h].hNext ELSE s.header[x].hNext
           /\ t.header[x].hPri = IF x = s.header[h].hNext THEN s.header[h].hPri ELSE s.header[x].hPri
    BY <1>4 DEF pri, next, Kept
  <2>2. First(t, n) = IF s.header[h].hPri = 0 THEN s.header[h].hNext ELSE First(s, n)
    BY <1>5 DEF pri, next
  <2>4. Unlinked(s, t, h, n)
    BY <2>1, <2>2, <2>3 DEF Unlinked
  <2> QED
    BY <2>0, <2>4, <1>2, <1>6, ListsRemove
<1>8. Lists(t, X)
  <2>1. \A k : Members(t, X, k) = Members(t, X \cup {h}, k)
    BY <1>4 DEF Members
  <2> QED
    BY <1>7, <2>1 DEF Lists
<1>9. \A x \in is_head_(s) \ {h} : t.header[x].hNext = -1 <=> s.header[x].hNext = -1
  <2> SUFFICES ASSUME NEW x \in is_head_(s) \ {h}, x = pri
               PROVE  t.header[x].hNext # -1 /\ s.header[x].hNext # -1
    BY <1>4
  <2> QED
    BY <1>2, <1>3, <1>4 DEF Members
<1>10. ~InUse(s, h)
  BY <1>0, <1>1 DEF InUse
<1>11. Untouched(s, t, {h})
  BY <1>4, <1>9 DEF Untouched, InUse, Kept
<1> QED
  BY <1>4, <1>5, <1>8, <1>9, <1>10, <1>11

(* The first span of a list that is taken. *)
LEMMA Popped ==
  ASSUME NEW s, InOrder(s), NEW n \in 1 .. kSpanSlotSize, NEW h, h = s.span_list_[n], h > 0,
         NEW t, t = PopSpan(s, n)
  PROVE  /\ InHand(t, h) /\ Untouched(s, t, {}) /\ ~InUse(s, h) /\ ~InUse(t, h)
         /\ t.pages = s.pages /\ t.bin_ = s.bin_ /\ t.offset = s.offset
         /\ is_head_(t) = is_head_(s)
         /\ t.header[h].Flag = n
         /\ Tiles(Spans(t), Lengths(t), t.pages)
<1>0. n \in Kinds /\ n \in Nat /\ n > 0 /\ n \in 0 .. kSpanSlotSize /\ First(s, n) = s.span_list_[n] /\ IsHeap(s)
  <2>1. n \in Kinds /\ n \in Nat /\ n > 0 /\ First(s, n) = s.span_list_[n]
    BY SizeKind, Zenon
  <2>2. kSpanSlotSize \in Nat
    BY PagesAssumption, Zenon
  <2>3. n \in 0 .. kSpanSlotSize
    BY <2>2
  <2>4. IsHeap(s)
    BY Zenon DEF InOrder
  <2> QED
    BY <2>1, <2>3, <2>4, Zenon
<1>1. /\ h \in Members(s, {}, n) /\ h \in is_head_(s) /\ s.header[h].Flag = n /\ s.header[h].hPri = 0
      /\ s.header[h].hNext # -1 /\ s.header[h].hNext \in Links(s)
  BY FirstSpan
<1>2. 0 \notin is_head_(s)
  BY <1>0, HandleRange DEF IsHeap
<1>3. /\ IsHeap(t)
      /\ t.pages = s.pages /\ t.span_list_ = [s.span_list_ EXCEPT ![n] = s.header[h].hNext]
      /\ t.bin_ = s.bin_ /\ t.offset = s.offset
      /\ is_head_(t) = is_head_(s)
      /\ \A x \in is_head_(s) :
           /\ Kept(s, t, x)
           /\ t.header[x].hNext = s.header[x].hNext
           /\ t.header[x].hPri = IF x = s.header[h].hNext THEN 0 ELSE s.header[x].hPri
  BY <1>0, <1>1, PopSpanIs
<1>4. /\ First(t, n) = s.header[h].hNext /\ \A j \in Kinds \ {n} : First(t, j) = First(s, j)
      /\ t.span_list_[0] = s.span_list_[0]
  <2>1. IsHeap(s) /\ t.bin_ = s.bin_ /\ t.span_list_ = [s.span_list_ EXCEPT ![n] = s.header[h].hNext]
    BY <1>0, <1>3
  <2> QED
    BY <2>1, FirstOther
<1>5. Lists(t, {h})
  <2>1. \A x \in is_head_(s) \ {h} :
           /\ t.header[x].Flag = s.header[x].Flag
           /\ t.header[x].hNext = IF x = s.header[h].hPri THEN s.header[h].hNext ELSE s.header[x].hNext
           /\ t.header[x].hPri = IF x = s.header[h].hNext THEN s.header[h].hPri ELSE s.header[x].hPri
    BY <1>1, <1>2, <1>3 DEF Kept
  <2>2. First(t, n) = IF s.header[h].hPri = 0 THEN s.header[h].hNext ELSE First(s, n)
    BY <1>1, <1>4
  <2>3. is_head_(t) \cup {h} = is_head_(s) /\ Lists(s, {})
    BY <1>1, <1>3 DEF InOrder
  <2>0. n \in Kinds /\ h \in Members(s, {}, n)
    BY <1>0, <1>1
  <2>4. \A j \in Kinds \ {n} : First(t, j) = First(s, j)
    BY <1>4
  <2>5. Unlinked(s, t, h, n)
    BY <2>1, <2>2, <2>4 DEF Unlinked
  <2>6. Lists(t, {} \cup {h})
    BY <2>0, <1>2, <2>3, <2>5, ListsRemove
  <2>7. {} \cup {h} = {h}
    OBVIOUS
  <2> QED
    BY <2>6, <2>7
<1>6. Spans(t) = Spans(s) /\ is_head_(t) = Spans(t)
  BY <1>3 DEF Spans, InOrder
<1>7. \A x \in Spans(s) : Lengths(t)[x] = Lengths(s)[x]
  <2>1. Spans(s) \subseteq is_head_(s) /\ Spans(s) \subseteq is_head_(t)
    BY <1>3 DEF Spans
  <2> QED
    BY <1>3, <2>1, LenSame DEF Kept
<1>8. Tiles(Spans(t), Lengths(t), t.pages)
  <2>1. Tiles(Spans(s), Lengths(s), s.pages)
    BY DEF InOrder, Tiled
  <2> QED
    BY <1>3, <1>6, <1>7, <2>1, TilesSame
<1>9. Shaped(t, {h})
  BY <1>3, <1>6 DEF Shaped, InOrder, Tiled, Spans, Kept
<1>10. InHand(t, h)
  BY <1>1, <1>3, <1>4, <1>5, <1>6, <1>9 DEF InHand, InOrder
<1>11. Untouched(s, t, {}) /\ ~InUse(s, h) /\ ~InUse(t, h)
  BY <1>0, <1>1, <1>3 DEF Untouched, InUse, Kept
<1> QED
  BY <1>1, <1>3, <1>8, <1>10, <1>11 DEF Kept

(* Pages that are committed become a free span. *)
LEMMA Grown ==
  ASSUME NEW s, InOrder(s), NEW n \in 1 .. kSpanSlotSize, s.pages + n <= kPageTotal,
         NEW t, t = AllocChunkFromHeap(s, n)
  PROVE  /\ InOrder(t) /\ Untouched(s, t, {}) /\ ~InUse(s, s.pages + 1)
         /\ t.pages = s.pages + n /\ t.bin_ = s.bin_ /\ t.offset = s.offset
         /\ t.span_list_[n] = s.pages + 1
<1> DEFINE h == s.pages + 1
           u == [s EXCEPT !.pages = s.pages + n]
<1>0. s.pages \in Nat /\ n \in Nat /\ n > 0 /\ IsHeap(s) /\ kPageTotal \in Nat
  BY SizeKind, PagesAssumption DEF InOrder
<1>1. t = PushSpan(u, h, n)
  BY DEF AllocChunkFromHeap
<1>2. /\ IsHeap(u)
      /\ u.header = s.header /\ u.pages = s.pages + n
      /\ u.span_list_ = s.span_list_
      /\ u.bin_ = s.bin_ /\ u.offset = s.offset
  BY <1>0, WithPages
<1> HIDE DEF u
<1>3. is_head_(u) = is_head_(s)
  BY <1>2 DEF is_head_
<1>4. Lists(u, {})
  <2>1. \A k \in Kinds : First(u, k) = First(s, k)
    BY <1>2 DEF First
  <2>2. Lists(s, {}) /\ is_head_(u) \ {} = is_head_(s) \ {} /\ \A x \in is_head_(s) \ {} : u.header[x] = s.header[x]
    BY <1>2, <1>3 DEF InOrder
  <2> QED
    BY <2>1, <2>2, ListsHand
<1>5. h \in PageHandles /\ h \in Nat /\ h \notin is_head_(s)
  BY <1>0 DEF PageHandles, InOrder, Spans
<1> HIDE DEF h
<1>6. h \notin is_head_(u) \ {}
  BY <1>3, <1>5
<1>7. /\ IsHeap(t) /\ Lists(t, {} \ {h}) /\ Untouched(u, t, {h}) /\ ~InUse(t, h)
      /\ t.pages = u.pages /\ t.bin_ = u.bin_ /\ t.offset = u.offset
      /\ t.span_list_[n] = h /\ t.span_list_[0] = u.span_list_[0]
      /\ is_head_(t) = is_head_(u) \cup {h}
      /\ t.header[h].Flag = n /\ t.header[h].hNext # -1
      /\ \A x \in is_head_(u) \ {h} :
           t.header[x].Flag = u.header[x].Flag /\ t.header[x].hNext = u.header[x].hNext
  <2>1. IsHeap(u) /\ Lists(u, {}) /\ h \in PageHandles
    BY <1>2, <1>4, <1>5
  <2>2. IsPushed(u, t, h, n) /\ Lists(t, {} \ {h})
    BY <1>1, <1>6, <2>1, Pushed
  <2> QED
    BY <2>2 DEF IsPushed
<1>8. \A x \in is_head_(s) :
        t.header[x].Flag = s.header[x].Flag /\ t.header[x].hNext = s.header[x].hNext
  BY <1>2, <1>3, <1>5, <1>7
<1>9. Spans(t) = Spans(s) \cup {h} /\ is_head_(t) = Spans(t) /\ Spans(s) = is_head_(s)
  <2>1. \A x \in is_head_(s) : x \in Nat /\ x <= s.pages
    BY HandleRange DEF InOrder, Spans, IsHeap
  <2> QED
    BY <1>0, <1>2, <1>3, <1>7, <2>1 DEF Spans, h
<1>10. Tiles(Spans(t), Lengths(t), t.pages)
  <2>1. \A x \in Spans(s) : Lengths(t)[x] = Lengths(s)[x]
    <3>1. Spans(s) \subseteq is_head_(s) /\ Spans(s) \subseteq is_head_(t)
      BY <1>9
    <3> QED
      BY <1>8, <1>9, <3>1, LenSame
  <2>2. Lengths(t)[s.pages + 1] = n
    BY <1>0, <1>7 DEF Lengths, Pages, h
  <2>3. Tiles(Spans(s), Lengths(s), s.pages)
    BY DEF InOrder, Tiled
  <2>4. Tiles(Spans(s) \cup {s.pages + 1}, Lengths(t), s.pages + n)
    BY <1>0, <2>1, <2>2, <2>3, TilesGrow
  <2> QED
    BY <1>2, <1>7, <1>9, <2>4 DEF h
<1>11. Shaped(t, {})
  <2>1. n \in Kinds
    BY SizeKind
  <2>2. Shaped(s, {})
    BY DEF InOrder, Tiled
  <2> QED
    BY <1>0, <1>7, <1>8, <1>9, <2>1, <2>2 DEF Shaped
<1>12. InOrder(t)
  <2>1. {} \ {h} = {}
    OBVIOUS
  <2>2. Lists(t, {})
    BY <1>7, <2>1
  <2> QED
    BY <1>0, <1>2, <1>7, <1>9, <1>10, <1>11, <2>2 DEF InOrder, Tiled
<1>13. Untouched(s, t, {})
  <2>1. Untouched(s, u, {h})
    BY <1>2, <1>3 DEF Untouched, InUse, Kept
  <2>2. Untouched(s, t, {h})
    BY <1>7, <2>1, UntouchedTrans
  <2>3. ~InUse(s, h) /\ ~InUse(t, h)
    BY <1>5, <1>7 DEF InUse
  <2> QED
    BY <2>2, <2>3 DEF Untouched
<1>14. ~InUse(s, s.pages + 1)
  BY <1>5 DEF InUse, h
<1> QED
  BY <1>2, <1>7, <1>12, <1>13, <1>14 DEF h

(* What Take provides: a span h of n pages in hand. *)
Took(s, t, h, n) ==
  /\ InHand(t, h)
  /\ Tiles(Spans(t), [Lengths(t) EXCEPT ![h] = n], t.pages)
  /\ Untouched(s, t, {}) /\ ~InUse(s, h) /\ ~InUse(t, h)
  /\ t.bin_ = s.bin_ /\ t.offset = s.offset
  /\ s.pages <= t.pages

(* A bigger span is split. *)
LEMMA SplitIs ==
  ASSUME NEW s, InOrder(s), NEW k \in 1 .. kSpanSlotSize, NEW n \in Nat, n >= 1, n < k,
         NEW h, h = s.span_list_[k], h > 0, NEW t, t = PushSpan(PopSpan(s, k), h + n, k - n)
  PROVE  Took(s, t, h, n)
<1> DEFINE u == PopSpan(s, k)
           b == h + n
           m == k - n
<1>0. s.pages \in Nat /\ k \in Nat /\ kPageTotal \in Nat /\ s.pages <= kPageTotal /\ m \in 1 .. kSpanSlotSize
  BY SizeKind, PagesAssumption DEF InOrder
<1>1. /\ InHand(u, h) /\ Untouched(s, u, {}) /\ ~InUse(s, h) /\ ~InUse(u, h)
      /\ u.pages = s.pages /\ u.bin_ = s.bin_ /\ u.offset = s.offset
      /\ is_head_(u) = is_head_(s)
      /\ u.header[h].Flag = k
      /\ Tiles(Spans(u), Lengths(u), u.pages)
  BY Popped
<1>2. IsHeap(u) /\ Lists(u, {h}) /\ h \in is_head_(u) /\ is_head_(u) = Spans(u) /\ Shaped(u, {h})
      /\ u.span_list_[0] = 0
  BY <1>1 DEF InHand
<1>3. h \in Nat /\ h >= 1
  BY <1>2, HeaderTypes
<1> HIDE DEF u
<1>4. t = PushSpan(u, b, m)
  BY DEF u
<1>5. Lengths(u)[h] = k
  BY <1>0, <1>1, <1>2 DEF Lengths, Pages
<1>6. h + k <= s.pages + 1
  BY <1>1, <1>2, <1>5 DEF Tiles
<1>7. b \in PageHandles /\ b \in Nat /\ b <= s.pages /\ b # h
  BY <1>0, <1>3, <1>6 DEF PageHandles
<1>8. b \notin is_head_(u)
  <2>1. \A x \in is_head_(u) : x \in Nat /\ (x <= h \/ x >= h + k)
    BY <1>1, <1>2, <1>5 DEF Tiles
  <2> QED
    BY <1>0, <1>3, <2>1
<1> HIDE DEF b, m
<1>9. /\ IsHeap(t) /\ Lists(t, {h} \ {b}) /\ Untouched(u, t, {b}) /\ ~InUse(t, b)
      /\ t.pages = u.pages /\ t.bin_ = u.bin_ /\ t.offset = u.offset
      /\ t.span_list_[m] = b /\ t.span_list_[0] = u.span_list_[0]
      /\ is_head_(t) = is_head_(u) \cup {b}
      /\ t.header[b].Flag = m /\ t.header[b].hNext # -1
      /\ \A x \in is_head_(u) \ {b} :
           t.header[x].Flag = u.header[x].Flag /\ t.header[x].hNext = u.header[x].hNext
  <2>1. b \notin is_head_(u) \ {h}
    BY <1>8
  <2>2. IsHeap(u) /\ Lists(u, {h}) /\ b \in PageHandles
    BY <1>2, <1>7
  <2>3. m \in 1 .. kSpanSlotSize
    BY <1>0
  <2>4. IsPushed(u, t, b, m) /\ Lists(t, {h} \ {b})
    BY <1>4, <2>1, <2>2, <2>3, Pushed
  <2> QED
    BY <2>4 DEF IsPushed
<1>10. Lists(t, {h})
  <2>1. {h} \ {b} = {h}
    BY <1>7
  <2> QED
    BY <1>9, <2>1
<1>11. Spans(t) = Spans(u) \cup {b} /\ is_head_(t) = Spans(t)
  <2>1. \A x \in is_head_(u) : x <= u.pages
    BY <1>2 DEF Spans
  <2> QED
    BY <1>1, <1>2, <1>7, <1>9, <2>1 DEF Spans
<1>12. Tiles(Spans(t), [Lengths(t) EXCEPT ![h] = n], t.pages)
  <2> DEFINE len2 == [Lengths(t) EXCEPT ![h] = n]
  <2>1. DOMAIN Lengths(t) = is_head_(t)
    BY DEF Lengths
  <2>2. \A x \in Spans(u) \ {h} : Lengths(t)[x] = Lengths(u)[x]
    BY <1>2, <1>8, <1>9, LenSame
  <2>3. Lengths(t)[b] = m
    BY <1>0, <1>9 DEF Lengths, Pages
  <2>4. len2[h] = n /\ \A x \in is_head_(t) : x # h => len2[x] = Lengths(t)[x]
    BY <1>2, <1>9, <2>1 DEF Lengths
  <2> HIDE DEF len2
  <2>5. len2[h + n] = Lengths(u)[h] - n
    BY <1>0, <1>3, <1>5, <1>7, <1>9, <2>3, <2>4 DEF b, m
  <2>6. \A x \in Spans(u) \ {h} : len2[x] = Lengths(u)[x]
    BY <1>2, <1>9, <2>2, <2>4
  <2>7. h \in Spans(u) /\ n < Lengths(u)[h]
    BY <1>2, <1>5
  <2>8. PICK D, len, P : D = Spans(u) /\ len = Lengths(u) /\ P = u.pages
    BY Zenon
  <2>9. /\ Tiles(D, len, P) /\ h \in D /\ n \in Nat /\ n >= 1 /\ n < len[h]
        /\ len2[h] = n /\ len2[h + n] = len[h] - n /\ \A x \in D \ {h} : len2[x] = len[x]
    <3>1. n \in Nat /\ n >= 1
      BY <1>0
    <3>2. Tiles(Spans(u), Lengths(u), u.pages)
      BY <1>1
    <3> QED
      BY <2>4, <2>5, <2>6, <2>7, <2>8, <3>1, <3>2, Zenon
  <2>10. Tiles(D \cup {h + n}, len2, P)
    BY <2>9, TilesSplit, SMTT(30)
  <2> QED
    BY <1>9, <1>11, <2>8, <2>10 DEF len2, b
<1>13. Shaped(t, {h})
  <2>1. m \in Kinds
    BY <1>0, SizeKind
  <2>2. \A x \in Spans(t) \ {h} : x = b \/ x \in Spans(u) \ {h, b}
    BY <1>8, <1>2, <1>11
  <2> QED
    BY <1>0, <1>2, <1>9, <2>1, <2>2 DEF Shaped
<1>14. InHand(t, h)
  BY <1>0, <1>1, <1>2, <1>9, <1>10, <1>11, <1>13 DEF InHand
<1>15. Untouched(s, t, {}) /\ ~InUse(t, h)
  <2>1. Untouched(s, u, {b})
    BY <1>1 DEF Untouched
  <2>2. Untouched(s, t, {b})
    BY <1>9, <2>1, UntouchedTrans
  <2>3. ~InUse(s, b) /\ ~InUse(t, b)
    BY <1>1, <1>8, <1>9 DEF InUse
  <2>4. Untouched(s, t, {})
    BY <2>2, <2>3 DEF Untouched
  <2>5. ~InUse(t, h)
    BY <1>1, <1>2, <1>7, <1>9 DEF InUse
  <2> QED
    BY <2>4, <2>5
<1> QED
  BY <1>0, <1>1, <1>9, <1>12, <1>14, <1>15 DEF Took

(* The bigger sizes there are, and the least of them. *)
LEMMA BiggerIs ==
  ASSUME NEW s, NEW n \in 1 .. kSpanSlotSize, Bigger(s, n) # {}
  PROVE  LET k == Min(Bigger(s, n))
         IN  k \in 1 .. kSpanSlotSize /\ k > n /\ s.span_list_[k] > 0
<1>1. Bigger(s, n) \in SUBSET Nat
  BY SizeKind, PagesAssumption DEF Bigger
<1>2. Min(Bigger(s, n)) \in Bigger(s, n)
  BY <1>1, Least
<1> QED
  BY <1>2, SizeKind, PagesAssumption DEF Bigger

(* Take provides a span whichever way it goes. *)
LEMMA TakeIs ==
  ASSUME InOrder(heap), NEW n \in 1 .. kSpanSlotSize, CanTake(n), ~NothingLeft(n)
  PROVE  Took(heap, Take(n), TakenSpan(n), n)
<1>0. n \in Nat /\ n >= 1 /\ n <= kSpanSlotSize /\ kSpanSlotSize \in Nat /\ heap.pages \in Nat
  BY PagesAssumption DEF InOrder
<1>1. CASE heap.span_list_[n] > 0
  <2> DEFINE h == heap.span_list_[n]
             t == PopSpan(heap, n)
  <2>1. Take(n) = t /\ TakenSpan(n) = h
    BY <1>1 DEF Take, TakenSpan
  <2>2. /\ InHand(t, h) /\ Untouched(heap, t, {}) /\ ~InUse(heap, h) /\ ~InUse(t, h)
        /\ t.pages = heap.pages /\ t.bin_ = heap.bin_ /\ t.offset = heap.offset
        /\ t.header[h].Flag = n
        /\ Tiles(Spans(t), Lengths(t), t.pages)
    BY <1>1, Popped
  <2> HIDE DEF h, t
  <2>3. h \in is_head_(t)
    BY <2>2 DEF InHand
  <2>4. Lengths(t)[h] = n
    BY <1>0, <2>2, <2>3 DEF Lengths, Pages
  <2>5. [Lengths(t) EXCEPT ![h] = n] = Lengths(t)
    BY <2>3, <2>4 DEF Lengths
  <2> QED
    BY <1>0, <2>1, <2>2, <2>5 DEF Took
<1>2. CASE ~(heap.span_list_[n] > 0) /\ Bigger(heap, n) # {}
  <2> DEFINE k == Min(Bigger(heap, n))
             h == heap.span_list_[k]
  <2>1. k \in 1 .. kSpanSlotSize /\ k > n /\ h > 0
    BY <1>2, BiggerIs
  <2>2. TakenSpan(n) = h /\ Take(n) = PushSpan(PopSpan(heap, k), h + n, k - n)
    BY <1>2 DEF Take, TakenSpan
  <2> HIDE DEF h, k
  <2>3. n < k /\ h = heap.span_list_[k]
    BY <1>0, <2>1 DEF h
  <2>4. Took(heap, Take(n), h, n)
    BY <1>0, <2>1, <2>2, <2>3, SplitIs
  <2> QED
    BY <2>2, <2>4
<1>3. CASE ~(heap.span_list_[n] > 0) /\ Bigger(heap, n) = {}
  <2> DEFINE s == AllocMaxChunkFromHeap(heap)
             h == heap.pages + 1
  <2>1. heap.pages + kSpanSlotSize <= kPageTotal
    BY <1>3 DEF CanTake
  <2>2. kSpanSlotSize \in 1 .. kSpanSlotSize /\ s = AllocChunkFromHeap(heap, kSpanSlotSize)
    BY <1>0 DEF AllocMaxChunkFromHeap
  <2>3. /\ InOrder(s) /\ Untouched(heap, s, {}) /\ ~InUse(heap, h)
        /\ s.pages = heap.pages + kSpanSlotSize /\ s.bin_ = heap.bin_ /\ s.offset = heap.offset
        /\ s.span_list_[kSpanSlotSize] = h
    BY <2>1, <2>2, Grown
  <2>4. n < kSpanSlotSize
    <3>1. n # kSpanSlotSize
      <4>1. heap.span_list_[n] \in Links(heap)
        BY FirstSpan
      <4>2. heap.span_list_[n] \in Nat
        BY <4>1, HandleRange DEF Links, InOrder, IsHeap
      <4> QED
        BY <1>3, <4>2 DEF NothingLeft
    <3> QED
      BY <1>0, <3>1
  <2>5. h > 0 /\ TakenSpan(n) = h
        /\ Take(n) = PushSpan(PopSpan(s, kSpanSlotSize), h + n, kSpanSlotSize - n)
    BY <1>0, <1>3 DEF Take, TakenSpan
  <2> HIDE DEF s, h
  <2>6. Took(s, Take(n), h, n)
    BY <1>0, <2>2, <2>3, <2>4, <2>5, SplitIs
  <2>7. ~InUse(heap, h) /\ Untouched(heap, Take(n), {})
    BY <2>3, <2>6, UntouchedTrans DEF Took
  <2>8. heap.pages <= Take(n).pages
    BY <1>0, <2>3, <2>6 DEF Took, InHand
  <2> QED
    BY <2>3, <2>5, <2>6, <2>7, <2>8 DEF Took
<1> QED
  BY <1>1, <1>2, <1>3

(* When nothing is left a span without pages begins behind the last page. *)
LEMMA NothingLeftIs ==
  ASSUME InOrder(heap), NEW n \in 1 .. kSpanSlotSize, CanTake(n), NothingLeft(n)
  PROVE  LET t == Take(n)
             h == TakenSpan(n)
         IN  /\ IsHeap(t) /\ h \in is_head_(t) /\ h # t.pages + 1
             /\ is_head_(t) = Spans(t) \cup {t.pages + 1} /\ t.header[t.pages + 1].Flag = 0
             /\ Shaped(t, {h})
             /\ Tiles(Spans(t), [Lengths(t) EXCEPT ![h] = n], t.pages)
             /\ Untouched(heap, t, {}) /\ ~InUse(heap, h)
             /\ t.bin_ = heap.bin_ /\ t.offset = heap.offset
             /\ t.pages \in Nat /\ t.pages <= kPageTotal /\ heap.pages <= t.pages
<1> DEFINE s == AllocMaxChunkFromHeap(heap)
           h == heap.pages + 1
           u == PopSpan(s, n)
           b == h + n
           t == PushSpan(u, b, 0)
<1>0. /\ n = kSpanSlotSize /\ heap.span_list_[n] = 0 /\ n \in Nat /\ n >= 1 /\ kSpanSlotSize \in Nat
      /\ heap.pages \in Nat /\ kPageTotal \in Nat
  BY PagesAssumption DEF NothingLeft, InOrder
<1>1. Bigger(heap, n) = {}
  BY <1>0 DEF Bigger
<1>2. heap.pages + kSpanSlotSize <= kPageTotal
  BY <1>0, <1>1 DEF CanTake
<1>3. TakenSpan(n) = h /\ Take(n) = t
  <2>1. ~(heap.span_list_[n] > 0) /\ kSpanSlotSize - n = 0
    BY <1>0
  <2>2. TakenSpan(n) = h
    BY <1>1, <2>1 DEF TakenSpan
  <2> QED
    BY <1>0, <1>1, <2>1, <2>2 DEF Take
<1>4. /\ InOrder(s) /\ Untouched(heap, s, {}) /\ ~InUse(heap, h)
      /\ s.pages = heap.pages + n /\ s.bin_ = heap.bin_ /\ s.offset = heap.offset
      /\ s.span_list_[n] = h
  BY <1>0, <1>2, Grown DEF AllocMaxChunkFromHeap
<1> HIDE DEF s
<1>5. h > 0 /\ h \in Nat
  BY <1>0
<1>6. /\ InHand(u, h) /\ Untouched(s, u, {}) /\ ~InUse(s, h) /\ ~InUse(u, h)
      /\ u.pages = s.pages /\ u.bin_ = s.bin_ /\ u.offset = s.offset
      /\ is_head_(u) = is_head_(s)
      /\ u.header[h].Flag = n
      /\ Tiles(Spans(u), Lengths(u), u.pages)
  BY <1>4, <1>5, Popped
<1> HIDE DEF u
<1>7. /\ IsHeap(u) /\ h \in is_head_(u) /\ is_head_(u) = Spans(u) /\ Shaped(u, {h})
      /\ u.span_list_[0] = 0 /\ u.pages \in Nat /\ u.pages <= kPageTotal
  BY <1>6 DEF InHand
<1>8. b = u.pages + 1 /\ b \in PageHandles /\ b \in Nat
  BY <1>0, <1>2, <1>4, <1>6 DEF PageHandles
<1>9. b \notin is_head_(u)
  BY <1>7, <1>8 DEF Spans
<1> HIDE DEF h, b
<1>10. /\ IsHeap(t)
       /\ t.pages = u.pages /\ t.bin_ = u.bin_ /\ t.offset = u.offset
       /\ is_head_(t) = is_head_(u) \cup {b}
       /\ t.header[b] = Span(0, 0)
       /\ \A x \in is_head_(u) \ {b} :
            Kept(u, t, x) /\ t.header[x].hNext = u.header[x].hNext
  <2>1. 0 \in 0 .. kSpanSlotSize /\ u.span_list_[0] \in Links(u) \ {b}
    BY <1>0, <1>7, <1>8 DEF Links
  <2>2. IsHeap(u) /\ b \in PageHandles
    BY <1>7, <1>8
  <2>3. /\ IsHeap(t)
        /\ t.pages = u.pages /\ t.bin_ = u.bin_ /\ t.offset = u.offset
        /\ is_head_(t) = is_head_(u) \cup {b}
        /\ t.header[b] = Span(0, u.span_list_[0])
        /\ \A x \in is_head_(u) \ {b} :
             Kept(u, t, x) /\ t.header[x].hNext = u.header[x].hNext
    <3>1. SpanPushed(u, t, b, 0)
      BY <2>1, <2>2, PushSpanIs
    <3> QED
      BY <3>1 DEF SpanPushed
  <2> QED
    BY <1>7, <2>3
<1> HIDE DEF t
<1>11. t.header[b].Flag = 0 /\ t.header[b].hNext = 0
  BY <1>10 DEF Span
<1>12. Spans(t) = Spans(u) /\ is_head_(t) = Spans(t) \cup {b} /\ h # b
  <2>1. \A x \in is_head_(u) : x <= u.pages
    BY <1>7 DEF Spans
  <2>2. ~(b <= t.pages)
    BY <1>7, <1>8, <1>10
  <2> QED
    BY <1>7, <1>9, <1>10, <2>1, <2>2 DEF Spans
<1>13. Tiles(Spans(t), [Lengths(t) EXCEPT ![h] = n], t.pages)
  <2>1. Lengths(t)[h] = n
    <3>1. t.header[h].Flag = n /\ h \in is_head_(t)
      BY <1>6, <1>7, <1>9, <1>10 DEF Kept
    <3> QED
      BY <1>0, <3>1 DEF Lengths, Pages
  <2>2. [Lengths(t) EXCEPT ![h] = n] = Lengths(t)
    BY <1>7, <1>10, <2>1 DEF Lengths
  <2>3. \A x \in Spans(u) : Lengths(t)[x] = Lengths(u)[x]
    BY <1>7, <1>9, <1>10, LenSame DEF Kept
  <2>4. Tiles(Spans(u), Lengths(t), u.pages)
    BY <1>6, <2>3, TilesSame
  <2> QED
    BY <1>10, <1>12, <2>2, <2>4
<1>14. Shaped(t, {h})
  BY <1>7, <1>9, <1>10, <1>12 DEF Shaped, Kept
<1>15. Untouched(heap, t, {})
  <2>1. Untouched(u, t, {})
    BY <1>9, <1>10, <1>11 DEF Untouched, InUse, Kept
  <2> QED
    BY <1>4, <1>6, <2>1, UntouchedTrans
<1> QED
  BY <1>0, <1>3, <1>4, <1>6, <1>7, <1>8, <1>10, <1>11, <1>12, <1>13, <1>14, <1>15

-----------------------------------------------------------------------------
(* Arena: FreeSpan *)

(* In t the span h is free, and nothing else has changed from s. *)
Freed(s, t, h) ==
  /\ InOrder(t) /\ Untouched(s, t, {h}) /\ ~InUse(t, h)
  /\ t.pages = s.pages /\ t.bin_ = s.bin_ /\ t.offset = s.offset

(* The spans tile the pages when the span h in hand counts n pages. *)
Counts(s, h, n) == Tiles(Spans(s), [Lengths(s) EXCEPT ![h] = n], s.pages)

(* A span in hand that is put into its list. *)
LEMMA PutBack ==
  ASSUME NEW s, NEW h, InHand(s, h), NEW n \in 1 .. kSpanSlotSize,
         Counts(s, h, n), NEW t, t = PushSpan(s, h, n)
  PROVE  Freed(s, t, h)
<1>1. /\ IsHeap(s) /\ Lists(s, {h}) /\ h \in is_head_(s) /\ is_head_(s) = Spans(s) /\ Shaped(s, {h})
      /\ s.span_list_[0] = 0 /\ s.pages \in Nat /\ s.pages <= kPageTotal
  BY DEF InHand
<1>2. h \in PageHandles /\ n \in Kinds /\ n \in Nat /\ n > 0
  BY <1>1, HeaderTypes, SizeKind
<1>3. IsPushed(s, t, h, n) /\ Lists(t, {})
  <2>1. h \notin is_head_(s) \ {h} /\ {h} \ {h} = {}
    OBVIOUS
  <2>2. IsHeap(s) /\ Lists(s, {h}) /\ h \in PageHandles
    BY <1>1, <1>2
  <2>3. IsPushed(s, t, h, n) /\ Lists(t, {h} \ {h})
    BY <2>1, <2>2, Pushed
  <2> QED
    BY <2>1, <2>3
<1>4. is_head_(t) = is_head_(s) /\ Spans(t) = Spans(s)
  BY <1>1, <1>3 DEF IsPushed, Spans
<1>5. \A x \in is_head_(s) : Lengths(t)[x] = [Lengths(s) EXCEPT ![h] = n][x]
  <2>1. \A x \in is_head_(s) : x # h => Lengths(t)[x] = Lengths(s)[x]
    BY <1>3, <1>4, LenSame DEF IsPushed
  <2>2. Lengths(t)[h] = n
    BY <1>1, <1>2, <1>3, <1>4 DEF IsPushed, Lengths, Pages
  <2>3. DOMAIN Lengths(s) = is_head_(s)
    BY DEF Lengths
  <2> QED
    BY <1>1, <2>1, <2>2, <2>3 DEF Lengths
<1>6. Tiles(Spans(t), Lengths(t), t.pages)
  <2>1. t.pages = s.pages
    BY <1>3 DEF IsPushed
  <2>2. \A x \in Spans(s) : Lengths(t)[x] = [Lengths(s) EXCEPT ![h] = n][x]
    BY <1>1, <1>5
  <2> DEFINE len == [Lengths(s) EXCEPT ![h] = n]
  <2>3. Tiles(Spans(s), len, s.pages)
    BY DEF Counts
  <2> HIDE DEF len
  <2>4. \A x \in Spans(s) : Lengths(t)[x] = len[x]
    BY <2>2 DEF len
  <2>5. Tiles(Spans(s), Lengths(t), s.pages)
    BY <2>3, <2>4, TilesSame
  <2> QED
    BY <1>4, <2>1, <2>5
<1>7. Shaped(t, {})
  BY <1>1, <1>2, <1>3, <1>4 DEF Shaped, IsPushed
<1> QED
  BY <1>1, <1>3, <1>4, <1>6, <1>7 DEF Freed, InOrder, Tiled, IsPushed

(* A neighbour that can be merged is a free span. *)
LEMMA MergeableIs ==
  ASSUME NEW s, NEW h, InHand(s, h), NEW x \in is_head_(s), x # h, NEW n \in 1 .. kSpanSlotSize, Mergeable(s, x, n)
  PROVE  LET k == s.header[x].Flag
         IN  /\ k \in 1 .. kSpanSlotSize /\ n + k \in 1 .. kSpanSlotSize /\ x \in Members(s, {h}, k)
             /\ Lengths(s)[x] = k
<1>1. s.header[x].Flag \in Int /\ s.header[x].hNext \in Int
  BY HeaderTypes DEF InHand
<1>2. s.header[x].Flag \in 1 .. kSpanSlotSize - n /\ s.header[x].hNext >= 0
  BY DEF Mergeable
<1>3. PICK k \in 1 .. kSpanSlotSize - n : k = s.header[x].Flag
  BY <1>2
<1>4. k \in 1 .. kSpanSlotSize /\ n + k \in 1 .. kSpanSlotSize /\ k > 0
  BY PagesAssumption
<1>5. x \in Members(s, {h}, k)
  BY <1>1, <1>2, <1>3 DEF Members
<1>6. Lengths(s)[x] = k
  BY <1>3, <1>4 DEF Lengths, Pages
<1> QED
  BY <1>3, <1>4, <1>5, <1>6

(* The span behind is merged. *)
JoinsBehind(s, h, n, b, t) ==
  b = h + n /\ b <= s.pages /\ Mergeable(s, b, n) /\ t = RemoveSpan(s, b)

(* FreeSpan joins the span behind to the one in hand. *)
LEMMA MergeBehind ==
  ASSUME NEW s, NEW h, InHand(s, h), NEW n \in 1 .. kSpanSlotSize, Counts(s, h, n),
         NEW b, NEW t, JoinsBehind(s, h, n, b, t)
  PROVE  /\ InHand(t, h) /\ Untouched(s, t, {h})
         /\ n + s.header[b].Flag \in 1 .. kSpanSlotSize
         /\ Counts(t, h, n + s.header[b].Flag)
         /\ t.pages = s.pages /\ t.bin_ = s.bin_ /\ t.offset = s.offset
<1> DEFINE len == [Lengths(s) EXCEPT ![h] = n]
<1>1. /\ IsHeap(s) /\ Lists(s, {h}) /\ h \in is_head_(s) /\ is_head_(s) = Spans(s) /\ Shaped(s, {h})
      /\ s.span_list_[0] = 0 /\ s.pages \in Nat /\ s.pages <= kPageTotal
  BY DEF InHand
<1>2. h \in Nat /\ n \in Nat /\ n > 0
  BY <1>1, HeaderTypes, SizeKind
<1>3. len[h] = n /\ \A x \in is_head_(s) : x # h => len[x] = Lengths(s)[x]
  BY <1>1 DEF Lengths
<1>4. Tiles(Spans(s), len, s.pages)
  BY DEF Counts
<1>40. b = h + n /\ b <= s.pages /\ Mergeable(s, b, n)
  BY DEF JoinsBehind
<1> HIDE DEF len
<1>5. b \in is_head_(s) /\ b # h
  <2>1. h + len[h] \in Spans(s) \/ h + len[h] = s.pages + 1
    BY <1>1, <1>4 DEF Tiles
  <2>2. s.pages \in Nat /\ b = h + len[h] /\ b # h /\ b \in Nat
    BY <1>1, <1>2, <1>3, <1>40
  <2>3. b # s.pages + 1
    BY <1>40, <2>2
  <2> QED
    BY <1>1, <2>1, <2>2, <2>3
<1> DEFINE k == s.header[b].Flag
<1>6. k \in 1 .. kSpanSlotSize /\ n + k \in 1 .. kSpanSlotSize /\ b \in Members(s, {h}, k) /\ Lengths(s)[b] = k
  BY <1>5, <1>40, MergeableIs
<1> HIDE DEF k
<1>7. /\ IsHeap(t) /\ Lists(t, {h}) /\ Untouched(s, t, {b}) /\ ~InUse(s, b)
      /\ t.pages = s.pages /\ t.bin_ = s.bin_ /\ t.offset = s.offset
      /\ is_head_(t) = is_head_(s) \ {b} /\ t.span_list_[0] = s.span_list_[0]
      /\ \A x \in is_head_(s) \ {b} : Kept(s, t, x) /\ (t.header[x].hNext = -1 <=> s.header[x].hNext = -1)
  <2>1. IsHeap(s) /\ Lists(s, {h})
    BY <1>1
  <2>2. k \in 1 .. kSpanSlotSize /\ b \in Members(s, {h}, k)
    BY <1>6
  <2>3. t = RemoveSpan(s, b)
    BY DEF JoinsBehind
  <2> QED
    BY <2>1, <2>2, <2>3, Removed
<1>8. Spans(t) = Spans(s) \ {b} /\ is_head_(t) = Spans(t) /\ h \in is_head_(t)
  BY <1>1, <1>5, <1>7 DEF Spans
<1>9. Counts(t, h, n + k)
  <2> DEFINE len2 == [Lengths(t) EXCEPT ![h] = n + k]
  <2>1. len2[h] = n + k /\ \A x \in is_head_(t) : x # h => len2[x] = Lengths(t)[x]
    BY <1>8 DEF Lengths
  <2> HIDE DEF len2
  <2>2. len2[h] = len[h] + len[b]
    BY <1>3, <1>5, <1>6, <2>1
  <2>3. \A x \in Spans(s) \ {h, b} : len2[x] = len[x]
    <3>1. ASSUME NEW x \in Spans(s) \ {h, b} PROVE Lengths(t)[x] = Lengths(s)[x]
      <4>1. x \in is_head_(s) /\ x \in is_head_(t) /\ t.header[x].Flag = s.header[x].Flag
        BY <1>1, <1>7 DEF Kept
      <4> QED
        BY <4>1, LenSame
    <3> QED
      BY <1>1, <1>3, <1>7, <2>1, <3>1
  <2>4. h \in Spans(s) /\ b \in Spans(s) /\ b = h + len[h]
    BY <1>1, <1>3, <1>40, <1>5
  <2>5. Tiles(Spans(s) \ {b}, len2, s.pages)
    BY <1>4, <2>2, <2>3, <2>4, TilesMerge
  <2> QED
    BY <1>7, <1>8, <2>5 DEF len2, Counts
<1>10. Shaped(t, {h})
  BY <1>1, <1>7, <1>8 DEF Shaped, Kept
<1>11. InHand(t, h)
  BY <1>1, <1>7, <1>8, <1>10 DEF InHand
<1>12. Untouched(s, t, {h})
  BY <1>7 DEF Untouched, InUse
<1> QED
  BY <1>6, <1>7, <1>9, <1>11, <1>12 DEF k

(* The span in front takes the span in hand. *)
JoinsFront(s, h, n, f, u, t) ==
  /\ f = SpanHandleOf(s, h - 1) /\ f > 0 /\ Mergeable(s, f, n) /\ u = RemoveSpan(s, f)
  /\ t = PushSpan([u EXCEPT !.header = Drop(u.header, h)], f, n + s.header[f].Flag)

(* FreeSpan joins the one in hand to the span in front of it. *)
LEMMA MergeFront ==
  ASSUME NEW s, NEW h, InHand(s, h), NEW n \in 1 .. kSpanSlotSize, Counts(s, h, n),
         NEW f, NEW u, NEW t, JoinsFront(s, h, n, f, u, t)
  PROVE  Freed(s, t, h)
<1> DEFINE len == [Lengths(s) EXCEPT ![h] = n]
           w == [u EXCEPT !.header = Drop(u.header, h)]
<1>1. /\ IsHeap(s) /\ Lists(s, {h}) /\ h \in is_head_(s) /\ is_head_(s) = Spans(s) /\ Shaped(s, {h})
      /\ s.span_list_[0] = 0 /\ s.pages \in Nat /\ s.pages <= kPageTotal
  BY DEF InHand
<1>2. h \in Nat /\ h >= 1 /\ n \in Nat /\ n > 0 /\ h - 1 \in Nat /\ h <= s.pages
  BY <1>1, HeaderTypes, SizeKind DEF Spans
<1>3. len[h] = n /\ \A x \in is_head_(s) : x # h => len[x] = Lengths(s)[x]
  BY <1>1 DEF Lengths
<1>4. Tiles(Spans(s), len, s.pages)
  BY DEF Counts
<1>40. f = SpanHandleOf(s, h - 1) /\ f > 0 /\ Mergeable(s, f, n)
  BY DEF JoinsFront
<1> HIDE DEF len
<1>5. f \in is_head_(s) /\ f <= h - 1 /\ h - 1 < f + len[f] /\ f \in Nat
  <2>1. f = Max({x \in Spans(s) : x <= h - 1} \cup {0})
    BY <1>1, <1>40 DEF SpanHandleOf
  <2>2. h - 1 \in 1 .. s.pages
    <3> DEFINE S == {x \in Spans(s) : x <= h - 1} \cup {0}
    <3>1. S \in SUBSET (0 .. h - 1) /\ S # {}
      BY <1>2, <1>4 DEF Tiles
    <3>2. f \in S
      BY <1>2, <2>1, <3>1, Greatest
    <3> QED
      BY <1>1, <1>2, <1>4, <1>40, <3>2 DEF Tiles
  <2>3. f \in Spans(s) /\ f <= h - 1 /\ h - 1 < f + len[f]
    BY <1>4, <2>1, <2>2, TilesCover
  <2> QED
    BY <1>1, <2>3, HeaderTypes
<1>6. f # h /\ h = f + len[f]
  <2>1. h <= f \/ h >= f + len[f]
    BY <1>1, <1>4, <1>5 DEF Tiles
  <2>2. len[f] \in Nat
    BY <1>1, <1>4, <1>5 DEF Tiles
  <2> QED
    BY <1>2, <1>5, <2>1, <2>2
<1> DEFINE k == s.header[f].Flag
<1>7. k \in 1 .. kSpanSlotSize /\ n + k \in 1 .. kSpanSlotSize /\ f \in Members(s, {h}, k) /\ Lengths(s)[f] = k
  BY <1>5, <1>6, <1>40, MergeableIs
<1>71. n + k \in Kinds /\ n + k \in Nat /\ n + k > 0
  BY <1>7, SizeKind
<1> HIDE DEF k
<1>8. /\ IsHeap(u) /\ Lists(u, {h}) /\ Untouched(s, u, {f}) /\ ~InUse(s, f)
      /\ u.pages = s.pages /\ u.bin_ = s.bin_ /\ u.offset = s.offset
      /\ is_head_(u) = is_head_(s) \ {f} /\ u.span_list_[0] = s.span_list_[0]
      /\ \A x \in is_head_(s) \ {f} : Kept(s, u, x) /\ (u.header[x].hNext = -1 <=> s.header[x].hNext = -1)
  <2>1. IsHeap(s) /\ Lists(s, {h})
    BY <1>1
  <2>2. k \in 1 .. kSpanSlotSize /\ f \in Members(s, {h}, k)
    BY <1>7
  <2>3. u = RemoveSpan(s, f)
    BY DEF JoinsFront
  <2> QED
    BY <2>1, <2>2, <2>3, Removed
<1>9. /\ IsHeap(w)
      /\ w.pages = u.pages /\ w.span_list_ = u.span_list_
      /\ w.bin_ = u.bin_ /\ w.offset = u.offset
      /\ is_head_(w) = is_head_(u) \ {h}
      /\ \A x \in is_head_(u) \ {h} : w.header[x] = u.header[x]
  <2>1. IsHeap(u) /\ w = [u EXCEPT !.header = Drop(u.header, h)]
    BY <1>8
  <2> HIDE DEF w
  <2> QED
    BY <2>1, WithDrop
<1>10. t = PushSpan(w, f, n + k)
  BY DEF k, JoinsFront
<1> HIDE DEF w
<1>11. Lists(w, {})
  <2>1. Lists(u, {h}) /\ is_head_(w) \ {h} = is_head_(u) \ {h}
    BY <1>8, <1>9
  <2>2. \A j \in Kinds : First(w, j) = First(u, j)
    BY <1>9 DEF First
  <2>3. \A x \in is_head_(u) \ {h} : w.header[x] = u.header[x]
    BY <1>9
  <2>4. Lists(w, {h})
    BY <2>1, <2>2, <2>3, ListsHand
  <2>5. \A j : Members(w, {}, j) = Members(w, {h}, j)
    BY <1>9 DEF Members
  <2> QED
    BY <2>4, <2>5 DEF Lists
<1>12. IsPushed(w, t, f, n + k) /\ Lists(t, {})
  <2>1. f \notin is_head_(w) \ {} /\ {} \ {f} = {}
    BY <1>8, <1>9
  <2>2. IsHeap(w) /\ Lists(w, {}) /\ f \in PageHandles
    BY <1>1, <1>5, <1>9, <1>11, HeaderTypes
  <2>3. n + k \in 1 .. kSpanSlotSize
    BY <1>7
  <2>4. IsPushed(w, t, f, n + k) /\ Lists(t, {} \ {f})
    BY <1>10, <2>1, <2>2, <2>3, Pushed
  <2> QED
    BY <2>1, <2>4
<1>13. /\ is_head_(t) = is_head_(s) \ {h} /\ is_head_(t) = Spans(t) /\ Spans(t) = Spans(s) \ {h}
       /\ t.pages = s.pages
  <2>1. is_head_(t) = is_head_(w) \cup {f} /\ t.pages = w.pages
    BY <1>12 DEF IsPushed
  <2>2. is_head_(t) = is_head_(s) \ {h} /\ t.pages = s.pages
    BY <1>5, <1>6, <1>8, <1>9, <2>1
  <2> QED
    BY <1>1, <2>2 DEF Spans
<1>14. \A x \in is_head_(s) \ {h, f} :
         t.header[x].Flag = s.header[x].Flag /\ (t.header[x].hNext = -1 <=> s.header[x].hNext = -1)
  <2>1. \A x \in is_head_(w) \ {f} :
          t.header[x].Flag = w.header[x].Flag /\ t.header[x].hNext = w.header[x].hNext
    BY <1>12 DEF IsPushed
  <2>2. \A x \in is_head_(s) \ {h, f} : x \in is_head_(w) \ {f} /\ w.header[x] = u.header[x]
    BY <1>8, <1>9
  <2>3. \A x \in is_head_(s) \ {h, f} :
          u.header[x].Flag = s.header[x].Flag /\ (u.header[x].hNext = -1 <=> s.header[x].hNext = -1)
    BY <1>8 DEF Kept
  <2> QED
    BY <2>1, <2>2, <2>3
<1>15. Tiles(Spans(t), Lengths(t), t.pages)
  <2>1. Lengths(t)[f] = n + k
    BY <1>5, <1>6, <1>71, <1>12, <1>13 DEF IsPushed, Lengths, Pages
  <2>2. \A x \in Spans(s) \ {f, h} : Lengths(t)[x] = len[x]
    <3>1. \A x \in Spans(s) \ {f, h} : Lengths(t)[x] = Lengths(s)[x]
      BY <1>1, <1>13, <1>14, LenSame
    <3> QED
      BY <1>1, <1>3, <3>1
  <2>3. f \in Spans(s) /\ h \in Spans(s) /\ h = f + len[f]
    BY <1>1, <1>5, <1>6
  <2>4. k \in Nat /\ len[f] = k /\ len[h] = n
    BY <1>3, <1>5, <1>6, <1>7, SizeKind
  <2>5. Lengths(t)[f] = len[f] + len[h]
    BY <1>2, <2>1, <2>4
  <2>6. Tiles(Spans(s) \ {h}, Lengths(t), s.pages)
    BY <1>4, <2>2, <2>3, <2>5, TilesMerge
  <2> QED
    BY <1>13, <2>6
<1>16. Shaped(t, {})
  <2>1. t.header[f].Flag = n + k
    BY <1>12 DEF IsPushed
  <2>2. \A x \in Spans(t) \ {f} : x \in Spans(s) \ {h}
    BY <1>13
  <2> QED
    BY <1>1, <1>71, <1>14, <2>1, <2>2 DEF Shaped
<1>17. InOrder(t)
  <2>1. IsHeap(t) /\ Lists(t, {}) /\ t.span_list_[0] = w.span_list_[0]
    BY <1>12 DEF IsPushed
  <2>2. t.span_list_[0] = 0
    BY <1>1, <1>8, <1>9, <2>1
  <2> QED
    BY <1>1, <1>13, <1>15, <1>16, <2>1, <2>2 DEF InOrder, Tiled
<1>18. Untouched(s, t, {h})
  <2>1. Untouched(u, w, {h})
    BY <1>9 DEF Untouched, InUse, Kept
  <2>2. ~InUse(s, f) /\ ~InUse(t, f)
    BY <1>8, <1>12 DEF IsPushed
  <2>3. Untouched(s, u, {f, h}) /\ Untouched(u, w, {f, h}) /\ Untouched(w, t, {f, h})
    BY <1>8, <1>12, <2>1 DEF IsPushed, Untouched
  <2>4. Untouched(s, t, {f, h})
    BY <2>3, UntouchedTrans
  <2> QED
    BY <2>2, <2>4 DEF Untouched
<1>19. ~InUse(t, h)
  BY <1>13 DEF InUse
<1> QED
  BY <1>8, <1>9, <1>12, <1>17, <1>18, <1>19 DEF IsPushed, Freed

(* FreeSpan puts the span in hand in order, however it is merged. *)
LEMMA FreeSpanIs ==
  ASSUME NEW s, NEW h, InHand(s, h), Tiles(Spans(s), Lengths(s), s.pages), s.header[h].Flag \in 1 .. kSpanSlotSize,
         NEW t, t = FreeSpan(s, h)
  PROVE  Freed(s, t, h)
<1> DEFINE n == s.header[h].Flag
           b == h + n
           joins == b <= s.pages /\ Mergeable(s, b, n)
           v == IF joins THEN RemoveSpan(s, b) ELSE s
           m == IF joins THEN n + s.header[b].Flag ELSE n
           f == SpanHandleOf(v, h - 1)
           joined == f > 0 /\ v.span_list_[m] > 0 /\ m < kLazySize /\ Mergeable(v, f, m)
           u == RemoveSpan(v, f)
<1>1. t = IF s.span_list_[n] <= 0 \/ n >= kLazySize THEN PushSpan(s, h, n)
          ELSE IF joined THEN PushSpan([u EXCEPT !.header = Drop(u.header, h)], f, m + v.header[f].Flag)
          ELSE PushSpan(v, h, m)
  BY DEF FreeSpan
<1>2. n \in 1 .. kSpanSlotSize /\ Counts(s, h, n)
  <2>1. h \in is_head_(s) /\ n \in Nat /\ n > 0
    BY SizeKind DEF InHand
  <2>2. Lengths(s)[h] = n
    BY <2>1 DEF Lengths, Pages
  <2>3. [Lengths(s) EXCEPT ![h] = n] = Lengths(s)
    BY <2>1, <2>2 DEF Lengths
  <2> QED
    BY <2>3 DEF Counts
<1>3. /\ InHand(v, h) /\ Untouched(s, v, {h}) /\ m \in 1 .. kSpanSlotSize
      /\ Counts(v, h, m)
      /\ v.pages = s.pages /\ v.bin_ = s.bin_ /\ v.offset = s.offset
  <2>1. CASE joins
    <3>1. v = RemoveSpan(s, b) /\ m = n + s.header[b].Flag
      BY <2>1
    <3> HIDE DEF v, m, n
    <3>2. b = h + n /\ b <= s.pages /\ Mergeable(s, b, n)
      BY <2>1
    <3> HIDE DEF b
    <3>3. JoinsBehind(s, h, n, b, v)
      BY <3>1, <3>2 DEF JoinsBehind
    <3>4. /\ InHand(v, h) /\ Untouched(s, v, {h}) /\ n + s.header[b].Flag \in 1 .. kSpanSlotSize
          /\ Counts(v, h, n + s.header[b].Flag) /\ v.pages = s.pages /\ v.bin_ = s.bin_ /\ v.offset = s.offset
      BY <1>2, <3>3, MergeBehind
    <3> QED
      BY <3>1, <3>4
  <2>2. CASE ~joins
    <3>1. v = s /\ m = n
      BY <2>2
    <3>2. Untouched(s, s, {h})
      BY DEF Untouched, InUse, Kept
    <3> HIDE DEF v, m, n
    <3> QED
      BY <1>2, <3>1, <3>2
  <2> QED
    BY <2>1, <2>2
<1> HIDE DEF v, m
<1>4. CASE s.span_list_[n] <= 0 \/ n >= kLazySize
  <2>1. t = PushSpan(s, h, n)
    BY <1>1, <1>4
  <2> HIDE DEF n
  <2> QED
    BY <1>2, <2>1, PutBack
<1>5. CASE ~(s.span_list_[n] <= 0 \/ n >= kLazySize) /\ joined
  <2>1. t = PushSpan([u EXCEPT !.header = Drop(u.header, h)], f, m + v.header[f].Flag)
    BY <1>1, <1>5
  <2>2. f = SpanHandleOf(v, h - 1) /\ f > 0 /\ Mergeable(v, f, m) /\ u = RemoveSpan(v, f)
    BY <1>5
  <2> HIDE DEF f, u
  <2>3. InHand(v, h) /\ m \in 1 .. kSpanSlotSize /\ Counts(v, h, m)
    BY <1>3
  <2>30. JoinsFront(v, h, m, f, u, t)
    BY <2>1, <2>2 DEF JoinsFront
  <2>4. Freed(v, t, h)
    BY <2>3, <2>30, MergeFront
  <2>5. Untouched(s, t, {h})
    BY <1>3, <2>4, UntouchedTrans DEF Freed
  <2> QED
    BY <1>3, <2>4, <2>5 DEF Freed
<1>6. CASE ~(s.span_list_[n] <= 0 \/ n >= kLazySize) /\ ~joined
  <2>1. t = PushSpan(v, h, m)
    BY <1>1, <1>6
  <2>2. InHand(v, h) /\ m \in 1 .. kSpanSlotSize /\ Counts(v, h, m)
    BY <1>3
  <2>3. Freed(v, t, h)
    BY <2>1, <2>2, PutBack
  <2>4. Untouched(s, t, {h})
    BY <1>3, <2>3, UntouchedTrans DEF Freed
  <2> QED
    BY <1>3, <2>3, <2>4 DEF Freed
<1> QED
  BY <1>4, <1>5, <1>6, SMTT(30)

-----------------------------------------------------------------------------
(* Arena: the inductive invariant *)

(* The chunk c lies in the span h. *)
Fits(s, c, h) ==
  \/ /\ s.header[h].Flag > 0 /\ s.header[h].hNext = -1
     /\ c.ptr = PtrOf(h) + kSpanHeaderSize
     /\ c.ptr + c.size <= PtrOf(h + s.header[h].Flag)
  \/ /\ s.header[h].Flag < 0
     /\ \E o \in Objects(-s.header[h].Flag) : c.ptr = PtrOf(h) + o
     /\ c.size <= kBinSlotTemplate[-s.header[h].Flag]

Placed(s, C) ==
  /\ \A c \in C : \E h \in Spans(s) : Fits(s, c, h)
  /\ \A c, d \in C : c.ptr = d.ptr => c = d

(* A list of which only the forward links are stored. *)
Chain(first, S, next) == \E pri \in [S -> S \cup {0}] : List(first, S, next, pri)

UsedOf(s, C, h) == {o \in Objects(-s.header[h].Flag) : \E c \in C : c.ptr = PtrOf(h) + o}
FreeOf(s, h) == {o \in Objects(-s.header[h].Flag) : PtrOf(h) + o \in DOMAIN s.offset}

(* What is neither in use nor in the chain has never been used. *)
Fresh(s, h, U, F) ==
  \A o \in Objects(-s.header[h].Flag) \ (U \cup F) :
    \E last \in F : /\ s.offset[PtrOf(h) + last] = 0
                    /\ last < o
                    /\ \A k \in U \cup F : k <= last

Cut(s, C, h) ==
  /\ s.header[h].nUsed = Cardinality(UsedOf(s, C, h))
  /\ UsedOf(s, C, h) \cap FreeOf(s, h) = {}
  /\ Chain(s.header[h].oFree, FreeOf(s, h), [o \in FreeOf(s, h) |-> s.offset[PtrOf(h) + o]])
  /\ Fresh(s, h, UsedOf(s, C, h), FreeOf(s, h))

(* The free list of a page leads only to objects that are in use or free,   *)
(* also when one in use is in it.                                           *)
Known(s, C, h) == (UsedOf(s, C, h) \cup FreeOf(s, h)) \cup {0}

Strung(s, C, h) ==
  /\ s.header[h].nUsed = Cardinality(UsedOf(s, C, h))
  /\ s.header[h].oFree \in Known(s, C, h)
  /\ \A o \in FreeOf(s, h) : s.offset[PtrOf(h) + o] \in Known(s, C, h)

Whole(s, C, h, up) == Strung(s, C, h) /\ (up = "no" => Cut(s, C, h))

(* The object at p is one of a page span. *)
InPage(s, p) ==
  \E h \in Spans(s) : s.header[h].Flag < 0 /\ \E o \in Objects(-s.header[h].Flag) : p = PtrOf(h) + o

(* Page spans are cut into objects, big chunks are in use, and free objects *)
(* are in page spans.                                                       *)
Filled(s, C, up) ==
  /\ \A h \in Spans(s) : s.header[h].Flag < 0 => Whole(s, C, h, up)
  /\ \A h \in Spans(s) : s.header[h].hNext = -1 => \E c \in C : c.ptr = PtrOf(h) + kSpanHeaderSize
  /\ \A p \in DOMAIN s.offset : InPage(s, p)

(* How far Init has come. *)
Progress(p) ==
  \/ \E i \in 0 .. InitPairs : p = 2 * i
  \/ \E i \in 0 .. InitMax : p = 2 * InitPairs + kSpanSlotSize * i
  \/ p >= Constructed

(* What holds of the heap s and the chunks C whatever happens, and what     *)
(* holds of them whatever happens to the lists.                             *)
Typed(s, C) ==
  /\ IsHeap(s) /\ s.pages \in Nat /\ s.pages <= kPageTotal
  /\ \A h \in is_head_(s) : -39 <= s.header[h].Flag /\ s.header[h].Flag <= kSpanSlotSize
  /\ \A x \in DOMAIN s.offset : s.offset[x] \in Nat
  /\ C \subseteq [ptr : Nat, size : Sizes]

Sound(s, C) == Typed(s, C) /\ Tiled(s) /\ Placed(s, C)

Broken == {"handed out twice", "bits cleared"}
Upsets == {"no", "used behind", "misplaced", "nothing left"} \cup Broken

ArenaInv ==
  /\ Typed(heap, chunks)
  /\ upset \in Upsets
  /\ heap.pages < Constructed => chunks = {} /\ upset = "no"
  /\ Progress(heap.pages)
  /\ upset \notin Broken => Sound(heap, chunks)
  /\ GoesOn => InOrder(heap) /\ Filled(heap, chunks, upset)

-----------------------------------------------------------------------------
(* Arena: objects and pointers *)

(* How many of a size there is room for. *)
LEMMA RoomFor ==
  ASSUME NEW T \in Nat, T > 0, NEW M \in Nat, NEW i \in Nat
  PROVE  i <= M \div T - 1 <=> i * T + T <= M
OBVIOUS

(* The objects of a class, by their number in the page span. *)
LEMMA ObjectsAre ==
  ASSUME NEW b \in Bins
  PROVE  \A o : o \in Objects(b) <=>
           \E i \in Nat : o = 16 + i * kBinSlotTemplate[b]
                          /\ o + kBinSlotTemplate[b] <= BinPages[b] * 4096
<1> DEFINE T == kBinSlotTemplate[b]
           L == BinPages[b] * 4096
<1>1. T \in Nat /\ T >= 4 /\ T <= 4080
  BY ClassSizes
<1>2. L \in Nat /\ L >= 4096 /\ L - 16 \in Nat
  BY ClassPages
<1>3. Objects(b) = {16 + i * T : i \in 0 .. (L - 16) \div T - 1}
  BY DEF Objects, kPageHeaderSize, kPageLen
<1> HIDE DEF T, L
<1>4. \A i \in Nat : i <= (L - 16) \div T - 1 <=> i * T + T <= L - 16
  BY <1>1, <1>2, RoomFor
<1>5. (L - 16) \div T \in Int
  BY <1>1, <1>2
<1>6. ASSUME NEW o, o \in Objects(b)
      PROVE  \E i \in Nat : o = 16 + i * T /\ o + T <= L
  <2>1. PICK i \in 0 .. (L - 16) \div T - 1 : o = 16 + i * T
    BY <1>3, <1>6
  <2>2. i \in Nat /\ i <= (L - 16) \div T - 1
    BY <1>5
  <2>3. i * T + T <= L - 16 /\ i * T \in Nat
    BY <1>1, <1>4, <2>2
  <2> QED
    BY <1>1, <1>2, <2>1, <2>2, <2>3
<1>7. ASSUME NEW o, NEW i \in Nat, o = 16 + i * T, o + T <= L
      PROVE  o \in Objects(b)
  <2>1. i * T \in Nat
    BY <1>1
  <2>2. i * T + T <= L - 16
    BY <1>1, <1>2, <1>7, <2>1
  <2>3. i \in 0 .. (L - 16) \div T - 1
    BY <1>4, <1>5, <2>2
  <2> QED
    BY <1>3, <1>7, <2>3
<1> QED
  BY <1>6, <1>7 DEF T, L

(* Objects lie in their page span, behind its header, and do not overlap. *)
LEMMA ObjectsApart ==
  ASSUME NEW b \in Bins
  PROVE  /\ \A o \in Objects(b) : o \in Nat /\ o >= 16 /\ o + kBinSlotTemplate[b] <= BinPages[b] * 4096
         /\ \A o, q \in Objects(b) : o < q => o + kBinSlotTemplate[b] <= q
         /\ \A o \in Objects(b) : o + 2 * kBinSlotTemplate[b] <= BinPages[b] * 4096
                                    => o + kBinSlotTemplate[b] \in Objects(b)
         /\ 16 \in Objects(b) /\ 16 + kBinSlotTemplate[b] \in Objects(b)
<1> DEFINE T == kBinSlotTemplate[b]
           L == BinPages[b] * 4096
<1>1. T \in Nat /\ T >= 4
  BY ClassSizes
<1>2. L \in Nat /\ 16 + 2 * T <= L
  BY ClassPages, <1>1, RoomAssumption DEF kPageHeaderSize, kPageLen
<1>3. \A o : o \in Objects(b) <=> \E i \in Nat : o = 16 + i * T /\ o + T <= L
  BY ObjectsAre
<1> HIDE DEF T, L
<1>4. \A o \in Objects(b) : o \in Nat /\ o >= 16 /\ o + T <= L
  BY <1>1, <1>3
<1>5. ASSUME NEW o \in Objects(b), NEW q \in Objects(b), o < q
      PROVE  o + T <= q
  <2>1. PICK i \in Nat : o = 16 + i * T
    BY <1>3
  <2>2. PICK j \in Nat : q = 16 + j * T
    BY <1>3
  <2>3. i < j
    BY <1>1, <1>5, <2>1, <2>2
  <2>4. i + 1 <= j
    BY <2>3
  <2>5. (i + 1) * T <= j * T /\ (i + 1) * T = i * T + T
    BY <1>1, <2>4
  <2> QED
    BY <1>1, <2>1, <2>2, <2>5
<1>6. ASSUME NEW o \in Objects(b), o + 2 * T <= L
      PROVE  o + T \in Objects(b)
  <2>1. PICK i \in Nat : o = 16 + i * T
    BY <1>3
  <2>2. i + 1 \in Nat /\ o + T = 16 + (i + 1) * T /\ (o + T) + T <= L
    BY <1>1, <1>2, <1>6, <2>1
  <2> QED
    BY <1>3, <2>2
<1>7. 16 \in Objects(b)
  <2>1. 0 \in Nat /\ 16 = 16 + 0 * T /\ 16 + T <= L
    BY <1>1, <1>2
  <2> QED
    BY <1>3, <2>1
<1>8. 16 + T \in Objects(b)
  BY <1>2, <1>6, <1>7
<1> QED
  BY <1>4, <1>5, <1>6, <1>7, <1>8 DEF T, L

(* The next object of a class begins behind the one before it.              *)
LEMMA ObjectsFollow ==
  ASSUME NEW b \in Bins
  PROVE  \A o, q \in Objects(b) : o < q => o + kBinSlotTemplate[b] <= q
BY ObjectsApart

(* A page span has finitely many objects. *)
LEMMA ObjectsFinite ==
  ASSUME NEW b \in Bins
  PROVE  IsFiniteSet(Objects(b))
<1> DEFINE L == BinPages[b] * 4096
<1>1. L \in Nat
  BY ClassPages
<1>2. Objects(b) \in SUBSET Nat /\ \A o \in Objects(b) : o <= L
  BY <1>1, ObjectsApart, ClassSizes
<1> HIDE DEF L
<1> QED
  BY <1>1, <1>2, FS_BoundedSetOfNaturals

(* Where a span begins and ends, and whose a pointer is. *)
Home(s, ptr) == SpanHandleOf(s, PageHandleOf(ptr))

(* Home of an address is the span that the address lies in. *)
LEMMA HomeIs ==
  ASSUME NEW s, IsHeap(s), Tiled(s), NEW h \in Spans(s), NEW ptr \in Nat,
         PtrOf(h) <= ptr, ptr < PtrOf(h + Lengths(s)[h])
  PROVE  Home(s, ptr) = h
<1> DEFINE n == Lengths(s)[h]
           p == PageHandleOf(ptr)
<1>1. Tiles(Spans(s), Lengths(s), s.pages)
  BY DEF Tiled
<1>2. h \in Nat /\ n \in Nat /\ h + n <= s.pages + 1 /\ s.pages \in Nat
  BY <1>1 DEF Tiles
<1> HIDE DEF n
<1>3. p \in Nat /\ h <= p /\ p < h + n
  BY <1>2 DEF PtrOf, PageHandleOf, kPageLen, n
<1> HIDE DEF p
<1>4. Max({x \in Spans(s) : x <= p} \cup {0}) = h
  BY <1>1, <1>3, TilesAt DEF n
<1>5. {x \in Spans(s) : x <= p} = {x \in is_head_(s) : x <= p}
  <2>1. p <= s.pages
    BY <1>2, <1>3
  <2>2. \A x \in is_head_(s) : x <= p => x <= s.pages
    BY <1>2, <1>3, <2>1, HeaderTypes
  <2> QED
    BY <2>2 DEF Spans
<1> QED
  BY <1>4, <1>5 DEF Home, SpanHandleOf, p

(* The two kinds of spans. *)
LEMMA SpanCases ==
  ASSUME NEW s, IsHeap(s), Tiled(s), NEW h \in Spans(s)
  PROVE  /\ h \in Nat /\ h >= 1 /\ h \in is_head_(s) /\ s.header[h].Flag \in Int /\ s.header[h].Flag # 0
         /\ s.header[h].Flag > 0 => Lengths(s)[h] = s.header[h].Flag
         /\ s.header[h].Flag < 0 => /\ -s.header[h].Flag \in Bins /\ s.header[h].hNext # -1
                                    /\ Lengths(s)[h] = BinPages[-s.header[h].Flag]
<1>1. h \in is_head_(s)
  BY DEF Spans
<1>2. s.header[h].Flag \in Kinds /\ (s.header[h].Flag < 0 => s.header[h].hNext # -1)
  BY DEF Tiled, Shaped
<1>3. Lengths(s)[h] = IF s.header[h].Flag > 0 THEN s.header[h].Flag ELSE BinPages[-s.header[h].Flag]
  BY <1>1 DEF Lengths, Pages
<1>4. h \in Nat /\ h >= 1
  BY <1>1, HeaderTypes
<1>5. s.header[h].Flag \in Int /\ s.header[h].Flag # 0 /\ (s.header[h].Flag < 0 => -s.header[h].Flag \in Bins)
  BY <1>2, KindRange
<1> QED
  BY <1>1, <1>2, <1>3, <1>4, <1>5

(* An object of a page span, and a big chunk, lie in their span. *)
LEMMA ObjectHome ==
  ASSUME NEW s, IsHeap(s), Tiled(s), NEW h \in Spans(s), s.header[h].Flag < 0,
         NEW o \in Objects(-s.header[h].Flag)
  PROVE  /\ PtrOf(h) + o \in Nat /\ Home(s, PtrOf(h) + o) = h
         /\ PtrOf(h) + o + kBinSlotTemplate[-s.header[h].Flag] <= PtrOf(h + Lengths(s)[h])
<1> DEFINE b == -s.header[h].Flag
           T == kBinSlotTemplate[b]
           n == BinPages[b]
           ptr == PtrOf(h) + o
<1>1. b \in Bins /\ h \in Nat /\ h >= 1 /\ Lengths(s)[h] = n
  BY SpanCases
<1> HIDE DEF b
<1>2. o \in Nat /\ o >= 16 /\ o + T <= n * 4096
  BY <1>1, ObjectsApart DEF b
<1>3. T \in Nat /\ T >= 4 /\ n \in Nat
  BY <1>1, ClassSizes, ClassPages
<1> HIDE DEF T, n
<1>4. ptr \in Nat /\ PtrOf(h) <= ptr /\ ptr + T <= PtrOf(h + n) /\ ptr < PtrOf(h + n)
  BY <1>1, <1>2, <1>3 DEF PtrOf, kPageLen
<1> HIDE DEF ptr
<1>5. Home(s, ptr) = h
  BY <1>1, <1>4, HomeIs
<1> QED
  BY <1>1, <1>4, <1>5 DEF ptr, T, b

(* Home of the chunk that fills a span is that span. *)
LEMMA BigHome ==
  ASSUME NEW s, IsHeap(s), Tiled(s), NEW h \in Spans(s)
  PROVE  PtrOf(h) + kSpanHeaderSize \in Nat /\ Home(s, PtrOf(h) + kSpanHeaderSize) = h
<1> DEFINE ptr == PtrOf(h) + kSpanHeaderSize
           n == Lengths(s)[h]
<1>1. h \in Nat /\ h >= 1 /\ n \in Nat /\ n >= 1
  BY DEF Tiled, Tiles
<1> HIDE DEF n
<1>2. ptr \in Nat /\ PtrOf(h) <= ptr /\ ptr < PtrOf(h + n)
  BY <1>1 DEF PtrOf, kPageLen, kSpanHeaderSize
<1> HIDE DEF ptr
<1>3. Home(s, ptr) = h
  BY <1>2, HomeIs DEF n
<1> QED
  BY <1>2, <1>3 DEF ptr

(* A chunk lies in its span. *)
LEMMA FitsIn ==
  ASSUME NEW s, IsHeap(s), Tiled(s), NEW h \in Spans(s), NEW c \in [ptr : Nat, size : Sizes], Fits(s, c, h)
  PROVE  /\ Home(s, c.ptr) = h /\ InUse(s, h) /\ c.ptr \in Nat /\ c.size \in Nat
         /\ c.ptr >= PtrOf(h) + (IF s.header[h].Flag > 0 THEN kSpanHeaderSize ELSE kPageHeaderSize)
         /\ c.ptr + c.size <= PtrOf(h + Lengths(s)[h])
<1>0. c.ptr \in Nat /\ c.size \in Nat
  BY SizesAssumption
<1>1. h \in Nat /\ h \in is_head_(s) /\ s.header[h].Flag \in Int
  BY SpanCases
<1>2. CASE s.header[h].Flag > 0
  <2>1. /\ s.header[h].hNext = -1 /\ c.ptr = PtrOf(h) + kSpanHeaderSize
        /\ c.ptr + c.size <= PtrOf(h + s.header[h].Flag)
    BY <1>1, <1>2 DEF Fits
  <2>2. Home(s, c.ptr) = h /\ Lengths(s)[h] = s.header[h].Flag
    BY <1>2, <2>1, BigHome, SpanCases
  <2> QED
    BY <1>0, <1>1, <1>2, <2>1, <2>2 DEF InUse
<1>3. CASE s.header[h].Flag < 0
  <2> DEFINE b == -s.header[h].Flag
  <2>1. PICK o \in Objects(b) : c.ptr = PtrOf(h) + o
    BY <1>1, <1>3 DEF Fits
  <2>2. c.size <= kBinSlotTemplate[b] /\ b \in Bins
    BY <1>1, <1>3, SpanCases DEF Fits
  <2>3. /\ PtrOf(h) + o \in Nat /\ Home(s, PtrOf(h) + o) = h
        /\ PtrOf(h) + o + kBinSlotTemplate[b] <= PtrOf(h + Lengths(s)[h])
    BY <1>3, <2>1, ObjectHome
  <2>4. o \in Nat /\ o >= 16 /\ kBinSlotTemplate[b] \in Nat
    BY <2>1, <2>2, ObjectsApart, ClassSizes
  <2>5. PtrOf(h) \in Int /\ PtrOf(h + Lengths(s)[h]) \in Int
    <3>1. Lengths(s)[h] \in Nat
      BY DEF Tiled, Tiles
    <3> QED
      BY <1>1, <3>1 DEF PtrOf, kPageLen
  <2> HIDE DEF b
  <2>6. c.ptr >= PtrOf(h) + kPageHeaderSize
    BY <2>1, <2>4, <2>5 DEF kPageHeaderSize
  <2>7. c.ptr + c.size <= PtrOf(h + Lengths(s)[h])
    BY <1>0, <2>1, <2>2, <2>3, <2>4, <2>5
  <2> QED
    BY <1>0, <1>1, <1>3, <2>1, <2>3, <2>6, <2>7 DEF InUse
<1> QED
  BY <1>1, <1>2, <1>3, SpanCases

(* Chunks that are placed do not overlap. *)
LEMMA PlacedApart ==
  ASSUME IsHeap(heap), Tiled(heap), Placed(heap, chunks), chunks \subseteq [ptr : Nat, size : Sizes]
  PROVE  NoOverlap
<1>1. ASSUME NEW c \in chunks
      PROVE  LET h == SpanHandleOf(heap, PageHandleOf(c.ptr))
             IN  /\ h > 0
                 /\ c.ptr >= PtrOf(h) + IF heap.header[h].Flag > 0 THEN kSpanHeaderSize ELSE kPageHeaderSize
                 /\ c.ptr + c.size <= PtrOf(h + Pages(heap, h))
  <2>1. PICK h \in Spans(heap) : Fits(heap, c, h)
    BY DEF Placed
  <2>2. /\ Home(heap, c.ptr) = h
        /\ c.ptr >= PtrOf(h) + (IF heap.header[h].Flag > 0 THEN kSpanHeaderSize ELSE kPageHeaderSize)
        /\ c.ptr + c.size <= PtrOf(h + Lengths(heap)[h])
    BY <2>1, FitsIn
  <2>3. h > 0 /\ Lengths(heap)[h] = Pages(heap, h)
    BY SpanCases DEF Lengths
  <2> QED
    BY <2>2, <2>3 DEF Home
<1>2. ASSUME NEW c \in chunks, NEW d \in chunks, c # d
      PROVE  c.ptr + c.size <= d.ptr \/ d.ptr + d.size <= c.ptr
  <2>1. PICK h \in Spans(heap) : Fits(heap, c, h)
    BY DEF Placed
  <2>2. PICK x \in Spans(heap) : Fits(heap, d, x)
    BY DEF Placed
  <2>3. c.ptr # d.ptr
    BY <1>2 DEF Placed
  <2>4. CASE h # x
    <3>1. /\ c.ptr \in Nat /\ c.size \in Nat /\ c.ptr >= PtrOf(h)
          /\ c.ptr + c.size <= PtrOf(h + Lengths(heap)[h])
      <4>1. h \in Nat
        BY SpanCases
      <4> QED
        BY <2>1, <4>1, FitsIn DEF PtrOf, kPageLen, kSpanHeaderSize, kPageHeaderSize
    <3>2. /\ d.ptr \in Nat /\ d.size \in Nat /\ d.ptr >= PtrOf(x)
          /\ d.ptr + d.size <= PtrOf(x + Lengths(heap)[x])
      <4>1. x \in Nat
        BY SpanCases
      <4> QED
        BY <2>2, <4>1, FitsIn DEF PtrOf, kPageLen, kSpanHeaderSize, kPageHeaderSize
    <3>3. /\ h \in Nat /\ x \in Nat /\ Lengths(heap)[h] \in Nat /\ Lengths(heap)[x] \in Nat
          /\ (x <= h \/ x >= h + Lengths(heap)[h]) /\ (h <= x \/ h >= x + Lengths(heap)[x])
      BY DEF Tiled, Tiles
    <3>4. h + Lengths(heap)[h] <= x \/ x + Lengths(heap)[x] <= h
      BY <2>4, <3>3
    <3>5. PtrOf(h + Lengths(heap)[h]) <= PtrOf(x) \/ PtrOf(x + Lengths(heap)[x]) <= PtrOf(h)
      BY <3>3, <3>4 DEF PtrOf, kPageLen
    <3>6. /\ PtrOf(h) \in Int /\ PtrOf(x) \in Int
          /\ PtrOf(h + Lengths(heap)[h]) \in Int /\ PtrOf(x + Lengths(heap)[x]) \in Int
      BY <3>3 DEF PtrOf, kPageLen
    <3> QED
      BY <3>1, <3>2, <3>5, <3>6
  <2>5. CASE h = x
    <3>1. h \in Nat /\ heap.header[h].Flag \in Int /\ heap.header[h].Flag # 0
      BY SpanCases
    <3>2. heap.header[h].Flag < 0
      BY <2>1, <2>2, <2>3, <2>5, <3>1 DEF Fits
    <3> DEFINE b == -heap.header[h].Flag
    <3>3. b \in Bins
      BY <3>2, SpanCases
    <3>4. PICK o \in Objects(b) : c.ptr = PtrOf(h) + o
      BY <2>1, <3>1, <3>2 DEF Fits
    <3>5. PICK q \in Objects(b) : d.ptr = PtrOf(h) + q
      BY <2>2, <2>5, <3>1, <3>2 DEF Fits
    <3>6. c.size <= kBinSlotTemplate[b] /\ d.size <= kBinSlotTemplate[b]
      BY <2>1, <2>2, <2>5, <3>1, <3>2 DEF Fits
    <3>7. c.size \in Nat /\ d.size \in Nat /\ kBinSlotTemplate[b] \in Nat /\ PtrOf(h) \in Int
      <4>1. c.size \in Sizes /\ d.size \in Sizes
        OBVIOUS
      <4>2. c.size \in Nat /\ d.size \in Nat
        BY <4>1, SizesAssumption
      <4>3. PtrOf(h) \in Int
        BY <3>1 DEF PtrOf, kPageLen
      <4> HIDE DEF b
      <4>4. kBinSlotTemplate[b] \in Nat
        BY <3>3, ClassSizes
      <4> QED
        BY <4>2, <4>3, <4>4
    <3> HIDE DEF b
    <3>8. o \in Nat /\ q \in Nat /\ (o < q => o + kBinSlotTemplate[b] <= q) /\ (q < o => q + kBinSlotTemplate[b] <= o)
      BY <3>3, ObjectsApart
    <3>9. o < q \/ q < o
      BY <2>3, <3>4, <3>5, <3>8
    <3> QED
      BY <3>4, <3>5, <3>6, <3>7, <3>8, <3>9
  <2> QED
    BY <2>4, <2>5
<1> QED
  BY <1>1, <1>2 DEF NoOverlap


-----------------------------------------------------------------------------
(* Arena: what a step leaves as it was *)

(* A span in use that a step does not touch still holds its chunks. *)
LEMMA FitsSame ==
  ASSUME NEW s, IsHeap(s), NEW t, NEW X, Untouched(s, t, X), s.pages \in Nat, t.pages \in Nat, s.pages <= t.pages,
         NEW h \in Spans(s), h \notin X, InUse(s, h)
  PROVE  /\ h \in Spans(t) /\ InUse(t, h) /\ Kept(s, t, h)
         /\ \A c : Fits(s, c, h) => Fits(t, c, h)
<1>1. h \in is_head_(s) /\ h <= s.pages
  BY DEF Spans
<1>2. h \in Nat
  BY <1>1, HeaderTypes
<1>3. h \in is_head_(t) /\ Kept(s, t, h) /\ (s.header[h].hNext = -1 <=> t.header[h].hNext = -1)
  BY DEF Untouched
<1>4. h \in Spans(t)
  BY <1>1, <1>2, <1>3 DEF Spans
<1>5. InUse(t, h)
  BY <1>3 DEF InUse, Kept
<1>6. \A c : Fits(s, c, h) => Fits(t, c, h)
  BY <1>3 DEF Fits, Kept
<1> QED
  BY <1>3, <1>4, <1>5, <1>6

(* So do the chunks that are kept. *)
LEMMA PlacedKeep ==
  ASSUME NEW s, NEW C, Sound(s, C), NEW t, NEW X, Untouched(s, t, X), t.pages \in Nat, s.pages <= t.pages,
         NEW D \in SUBSET C, \A d \in D : Home(s, d.ptr) \notin X
  PROVE  Placed(t, D)
<1>0. IsHeap(s) /\ Tiled(s) /\ Placed(s, C) /\ s.pages \in Nat /\ C \subseteq [ptr : Nat, size : Sizes]
  BY DEF Sound, Typed
<1>1. ASSUME NEW d \in D PROVE \E h \in Spans(t) : Fits(t, d, h)
  <2>1. PICK h \in Spans(s) : Fits(s, d, h)
    BY <1>0 DEF Placed
  <2>2. d \in [ptr : Nat, size : Sizes]
    BY <1>0
  <2>3. Home(s, d.ptr) = h /\ InUse(s, h)
    BY <1>0, <2>1, <2>2, FitsIn
  <2>4. h \notin X
    BY <2>3
  <2> QED
    BY <1>0, <2>1, <2>3, <2>4, FitsSame
<1> QED
  BY <1>0, <1>1 DEF Placed

(* A chunk that is handed out of a span that was not in use. *)
LEMMA PlacedNew ==
  ASSUME NEW s, NEW C, Sound(s, C), NEW t, NEW h, Untouched(s, t, {h}), t.pages \in Nat, s.pages <= t.pages,
         IsHeap(t), Tiled(t), ~InUse(s, h), h \in Spans(t), NEW c \in [ptr : Nat, size : Sizes], Fits(t, c, h)
  PROVE  Placed(t, C \cup {c}) /\ \A d \in C : Home(t, d.ptr) # h
<1>0. IsHeap(s) /\ Tiled(s) /\ Placed(s, C) /\ s.pages \in Nat /\ C \subseteq [ptr : Nat, size : Sizes]
  BY DEF Sound, Typed
<1>1. ASSUME NEW d \in C
      PROVE  Home(t, d.ptr) # h /\ \E x \in Spans(t) : Fits(t, d, x)
  <2>1. PICK x \in Spans(s) : Fits(s, d, x)
    BY <1>0 DEF Placed
  <2>2. d \in [ptr : Nat, size : Sizes]
    BY <1>0
  <2>3. InUse(s, x)
    BY <1>0, <2>1, <2>2, FitsIn
  <2>4. x \notin {h}
    BY <2>3
  <2>5. x \in Spans(t) /\ Fits(t, d, x)
    BY <1>0, <2>1, <2>3, <2>4, FitsSame
  <2>6. Home(t, d.ptr) = x
    BY <2>2, <2>5, FitsIn
  <2> QED
    BY <2>4, <2>5, <2>6
<1>2. Home(t, c.ptr) = h
  BY FitsIn
<1>3. \A d \in C : d.ptr # c.ptr
  BY <1>1, <1>2
<1> QED
  BY <1>0, <1>1, <1>3 DEF Placed

(* Whether there is a chunk or a free object at p. *)
Aside(s, C, t, D, p) ==
  /\ (\E c \in C : c.ptr = p) <=> (\E c \in D : c.ptr = p)
  /\ p \in DOMAIN s.offset <=> p \in DOMAIN t.offset
  /\ p \in DOMAIN s.offset => t.offset[p] = s.offset[p]

(* A page whose objects a step leaves alone is cut as before. *)
LEMMA CutSame ==
  ASSUME NEW s, NEW C, NEW t, NEW D, NEW h, Kept(s, t, h), Cut(s, C, h),
         \A o \in Objects(-s.header[h].Flag) : Aside(s, C, t, D, PtrOf(h) + o)
  PROVE  Cut(t, D, h)
<1> DEFINE b == -s.header[h].Flag
           f == [o \in FreeOf(s, h) |-> s.offset[PtrOf(h) + o]]
           g == [o \in FreeOf(t, h) |-> t.offset[PtrOf(h) + o]]
<1>1. t.header[h].Flag = s.header[h].Flag /\ t.header[h].oFree = s.header[h].oFree
      /\ t.header[h].nUsed = s.header[h].nUsed
  BY DEF Kept
<1>2. UsedOf(t, D, h) = UsedOf(s, C, h)
  BY <1>1 DEF UsedOf, Aside
<1>3. FreeOf(t, h) = FreeOf(s, h)
  BY <1>1 DEF FreeOf, Aside
<1>4. \A o \in FreeOf(s, h) : t.offset[PtrOf(h) + o] = s.offset[PtrOf(h) + o]
  BY DEF FreeOf, Aside
<1>5. g = f
  BY <1>3, <1>4
<1>6. Fresh(t, h, UsedOf(s, C, h), FreeOf(s, h))
  <2>1. Fresh(s, h, UsedOf(s, C, h), FreeOf(s, h))
    BY DEF Cut
  <2> QED
    BY <1>1, <1>4, <2>1 DEF Fresh
<1>7. Chain(t.header[h].oFree, FreeOf(s, h), g)
  BY <1>1, <1>5 DEF Cut
<1> HIDE DEF f, g
<1>8. t.header[h].nUsed = Cardinality(UsedOf(s, C, h)) /\ UsedOf(s, C, h) \cap FreeOf(s, h) = {}
  BY <1>1 DEF Cut
<1> QED
  BY <1>2, <1>3, <1>6, <1>7, <1>8 DEF Cut, g

(* Its free list leads where it did. *)
LEMMA StrungSame ==
  ASSUME NEW s, NEW C, NEW t, NEW D, NEW h, Kept(s, t, h), Strung(s, C, h),
         \A o \in Objects(-s.header[h].Flag) : Aside(s, C, t, D, PtrOf(h) + o)
  PROVE  Strung(t, D, h)
<1>1. t.header[h].Flag = s.header[h].Flag /\ t.header[h].oFree = s.header[h].oFree
      /\ t.header[h].nUsed = s.header[h].nUsed
  BY DEF Kept
<1>2. UsedOf(t, D, h) = UsedOf(s, C, h)
  BY <1>1 DEF UsedOf, Aside
<1>3. FreeOf(t, h) = FreeOf(s, h)
  BY <1>1 DEF FreeOf, Aside
<1>4. \A o \in FreeOf(s, h) : t.offset[PtrOf(h) + o] = s.offset[PtrOf(h) + o]
  BY DEF FreeOf, Aside
<1>5. Known(t, D, h) = Known(s, C, h)
  BY <1>2, <1>3 DEF Known
<1> QED
  BY <1>1, <1>2, <1>3, <1>4, <1>5 DEF Strung

(* The other spans are filled as they were. *)
Others(t, D, h, up) ==
  \A x \in Spans(t) \ {h} :
    /\ t.header[x].Flag < 0 => Whole(t, D, x, up)
    /\ t.header[x].hNext = -1 => \E c \in D : c.ptr = PtrOf(x) + kSpanHeaderSize

(* A step on one span leaves the other pages filled. *)
LEMMA FilledElsewhere ==
  ASSUME NEW s, NEW C, NEW up, IsHeap(s), Tiled(s), Filled(s, C, up), s.pages \in Nat,
         NEW t, NEW D, IsHeap(t), Tiled(t), t.pages \in Nat, s.pages <= t.pages, is_head_(s) = Spans(s),
         NEW h, Untouched(s, t, {h}), NEW g \in {s, t},
         \A p \in Nat : Home(g, p) # h => Aside(s, C, t, D, p)
  PROVE  Others(t, D, h, up)
<1>1. ASSUME NEW x \in Spans(t) \ {h}, InUse(t, x)
      PROVE  /\ x \in Spans(s) /\ Kept(s, t, x) /\ (s.header[x].hNext = -1 <=> t.header[x].hNext = -1)
             /\ x \in Spans(g) /\ g.header[x].Flag = s.header[x].Flag
  BY <1>1 DEF Untouched, Kept
<1>2. IsHeap(g) /\ Tiled(g)
  OBVIOUS
<1>3. ASSUME NEW x \in Spans(t) \ {h}, t.header[x].Flag < 0
      PROVE  Whole(t, D, x, up)
  <2>1. InUse(t, x)
    BY <1>3 DEF InUse, Spans
  <2>2. x \in Spans(s) /\ Kept(s, t, x) /\ x \in Spans(g) /\ g.header[x].Flag = s.header[x].Flag
    BY <1>1, <2>1
  <2>3. s.header[x].Flag < 0
    BY <1>3, <2>2 DEF Kept
  <2>4. Strung(s, C, x) /\ (up = "no" => Cut(s, C, x))
    BY <2>2, <2>3 DEF Filled, Whole
  <2>5. ASSUME NEW o \in Objects(-s.header[x].Flag) PROVE Aside(s, C, t, D, PtrOf(x) + o)
    <3>1. PtrOf(x) + o \in Nat /\ Home(g, PtrOf(x) + o) = x
      BY <1>2, <2>2, <2>3, <2>5, ObjectHome
    <3> QED
      BY <3>1
  <2> QED
    BY <2>2, <2>4, <2>5, CutSame, StrungSame DEF Whole
<1>4. ASSUME NEW x \in Spans(t) \ {h}, t.header[x].hNext = -1
      PROVE  \E c \in D : c.ptr = PtrOf(x) + kSpanHeaderSize
  <2>1. InUse(t, x)
    BY <1>4 DEF InUse, Spans
  <2>2. x \in Spans(s) /\ s.header[x].hNext = -1 /\ x \in Spans(g)
    BY <1>1, <1>4, <2>1
  <2>3. PtrOf(x) + kSpanHeaderSize \in Nat /\ Home(g, PtrOf(x) + kSpanHeaderSize) = x
    BY <1>2, <2>2, BigHome
  <2>4. \E c \in C : c.ptr = PtrOf(x) + kSpanHeaderSize
    BY <2>2 DEF Filled
  <2> QED
    BY <2>3, <2>4 DEF Aside
<1> QED
  BY <1>3, <1>4 DEF Others

(* A free object stays one of its page span. *)
LEMMA InPageKeep ==
  ASSUME NEW s, IsHeap(s), Tiled(s), NEW t, NEW X, Untouched(s, t, X), s.pages \in Nat, t.pages \in Nat, s.pages <= t.pages,
         IsHeap(t), Tiled(t), NEW p, InPage(s, p), \A x \in X : InUse(s, x) => Home(s, p) # x
  PROVE  InPage(t, p) /\ Home(t, p) \notin X
<1>1. PICK h \in Spans(s) : s.header[h].Flag < 0 /\ \E o \in Objects(-s.header[h].Flag) : p = PtrOf(h) + o
  BY DEF InPage
<1>2. PICK o \in Objects(-s.header[h].Flag) : p = PtrOf(h) + o
  BY <1>1
<1>3. Home(s, p) = h
  BY <1>1, <1>2, ObjectHome
<1>4. InUse(s, h)
  BY <1>1 DEF InUse, Spans
<1>5. h \notin X
  BY <1>3, <1>4
<1>6. h \in Spans(t) /\ Kept(s, t, h)
  BY <1>4, <1>5, FitsSame
<1>7. t.header[h].Flag = s.header[h].Flag
  BY <1>6 DEF Kept
<1>8. Home(t, p) = h
  BY <1>1, <1>2, <1>6, <1>7, ObjectHome
<1> QED
  BY <1>1, <1>2, <1>5, <1>6, <1>7, <1>8 DEF InPage

(* A heap in order is sound when its chunks are placed. *)
LEMMA OrderSound ==
  ASSUME NEW s, InOrder(s), \A x \in DOMAIN s.offset : s.offset[x] \in Nat,
         NEW C, C \subseteq [ptr : Nat, size : Sizes], Placed(s, C)
  PROVE  Sound(s, C)
<1>1. ASSUME NEW h \in is_head_(s) PROVE -39 <= s.header[h].Flag /\ s.header[h].Flag <= kSpanSlotSize
  <2>1. s.header[h].Flag \in Kinds
    BY DEF InOrder, Tiled, Shaped
  <2> QED
    BY <2>1, PagesAssumption DEF Kinds
<1> QED
  BY <1>1 DEF Sound, Typed, InOrder

-----------------------------------------------------------------------------
(* Arena: Init *)

(* How far one more span of Init leads. *)
LEMMA ProgressNext ==
  ASSUME NEW p \in Nat, Progress(p), p < Constructed
  PROVE  LET n == IF p < 2 * InitPairs THEN 2 ELSE kSpanSlotSize
         IN  Progress(p + n) /\ p + n <= kPageTotal /\ n \in 1 .. kSpanSlotSize
<1> DEFINE A == InitPairs
           B == InitMax
           K == kSpanSlotSize
<1>0. A \in Nat /\ B \in Nat /\ K \in Nat /\ K >= 2 /\ kPageTotal \in Nat /\ kPageTotal >= 2 * A + K * B
  BY PagesAssumption
<1>1. p < 2 * A + K * B
  BY DEF Constructed
<1>2. (\E i \in 0 .. A : p = 2 * i) \/ (\E i \in 0 .. B : p = 2 * A + K * i)
  BY <1>0, <1>1 DEF Progress, Constructed
<1>3. CASE p < 2 * A
  <2>1. PICK i \in 0 .. A : p = 2 * i
    <3>1. ASSUME NEW i \in 0 .. B, p = 2 * A + K * i PROVE FALSE
      <4>1. K * i \in Nat
        BY <1>0
      <4> QED
        BY <1>0, <1>3, <3>1, <4>1
    <3> QED
      BY <1>2, <3>1
  <2>2. i + 1 \in 0 .. A /\ p + 2 = 2 * (i + 1)
    BY <1>0, <1>3, <2>1
  <2>3. Progress(p + 2)
    BY <2>2 DEF Progress
  <2>4. K * B \in Nat
    BY <1>0
  <2>5. p + 2 <= kPageTotal
    BY <1>0, <1>3, <2>1, <2>4
  <2> QED
    BY <1>0, <1>3, <2>3, <2>5
<1>4. CASE ~(p < 2 * A)
  <2>1. PICK i \in 0 .. B : p = 2 * A + K * i
    <3>1. ASSUME NEW i \in 0 .. A, p = 2 * i PROVE p = 2 * A + K * 0 /\ 0 \in 0 .. B
      BY <1>0, <1>4, <3>1
    <3> QED
      BY <1>2, <3>1
  <2>2. i < B
    <3>1. i # B
      BY <1>1, <2>1
    <3> QED
      BY <1>0, <3>1
  <2>3. i + 1 \in 0 .. B /\ p + K = 2 * A + K * (i + 1)
    BY <1>0, <2>1, <2>2
  <2>4. Progress(p + K)
    BY <2>3 DEF Progress
  <2>5. K * (i + 1) <= K * B
    BY <1>0, <2>2
  <2>6. p + K <= kPageTotal
    <3>1. K * (i + 1) \in Nat /\ K * B \in Nat
      BY <1>0
    <3> QED
      BY <1>0, <2>3, <2>5, <3>1
  <2> QED
    BY <1>0, <1>4, <2>4, <2>6
<1> QED
  BY <1>3, <1>4

(* The step of the constructor that makes the next span. *)
LEMMA ConstructKeeps ==
  ASSUME ArenaInv, Construct
  PROVE  ArenaInv'
<1> DEFINE n == IF heap.pages < 2 * InitPairs THEN 2 ELSE kSpanSlotSize
           t == heap'
<1>0. /\ Sound(heap, chunks) /\ chunks = {} /\ upset = "no" /\ chunks' = {} /\ upset' = "no"
      /\ InOrder(heap) /\ Filled(heap, {}, "no") /\ heap.pages < Constructed
  BY DEF ArenaInv, Construct, GoesOn, Broken
<1>1. IsHeap(heap) /\ heap.pages \in Nat /\ Tiled(heap) /\ is_head_(heap) = Spans(heap)
  BY <1>0 DEF InOrder
<1>2. Progress(heap.pages + n) /\ heap.pages + n <= kPageTotal /\ n \in 1 .. kSpanSlotSize
  BY <1>0, <1>1, ProgressNext DEF ArenaInv
<1>3. t = AllocChunkFromHeap(heap, n)
  BY DEF Construct, AllocMaxChunkFromHeap
<1> HIDE DEF n, t
<1>4. /\ InOrder(t) /\ Untouched(heap, t, {})
      /\ t.pages = heap.pages + n /\ t.bin_ = heap.bin_ /\ t.offset = heap.offset
  BY <1>0, <1>2, <1>3, Grown
<1>5. t.pages \in Nat /\ heap.pages <= t.pages
  BY <1>1, <1>2, <1>4, SizeKind
<1>6. Sound(t, {})
  <2>1. \A x \in DOMAIN t.offset : t.offset[x] \in Nat
    BY <1>0, <1>4 DEF Sound, Typed
  <2>2. Placed(t, {})
    BY DEF Placed
  <2> QED
    BY <1>4, <2>1, <2>2, OrderSound
<1>7. Filled(t, {}, "no")
  <2>1. IsHeap(t) /\ Tiled(t)
    BY <1>4 DEF InOrder
  <2>2. Untouched(heap, t, {0})
    BY <1>4 DEF Untouched
  <2>3. \A p \in Nat : Home(t, p) # 0 => Aside(heap, {}, t, {}, p)
    BY <1>4 DEF Aside
  <2>4. Others(t, {}, 0, "no")
    BY <1>0, <1>1, <1>5, <2>1, <2>2, <2>3, FilledElsewhere
  <2>5. 0 \notin Spans(t)
    BY <2>1, HandleRange DEF IsHeap, Spans
  <2>6. ASSUME NEW p \in DOMAIN t.offset PROVE InPage(t, p)
    <3>1. InPage(heap, p)
      BY <1>0, <1>4 DEF Filled
    <3> QED
      BY <1>1, <1>4, <1>5, <2>1, <3>1, InPageKeep
  <2> QED
    BY <2>4, <2>5, <2>6 DEF Filled, Others
<1>8. Progress(t.pages)
  BY <1>2, <1>4
<1> QED
  BY <1>0, <1>4, <1>6, <1>7, <1>8 DEF ArenaInv, Upsets, Sound, t

-----------------------------------------------------------------------------
(* Arena: Malloc of a big chunk *)

(* What Take provides, also when it leaves a span without pages. *)
Given(s, u, h, n) ==
  /\ IsHeap(u) /\ h \in Spans(u) /\ Shaped(u, {h})
  /\ Tiles(Spans(u), [Lengths(u) EXCEPT ![h] = n], u.pages)
  /\ Untouched(s, u, {}) /\ ~InUse(s, h)
  /\ u.bin_ = s.bin_ /\ u.offset = s.offset
  /\ u.pages \in Nat /\ u.pages <= kPageTotal /\ s.pages <= u.pages
  /\ \A x \in is_head_(u) \ {h} : -39 <= u.header[x].Flag /\ u.header[x].Flag <= kSpanSlotSize

(* What the heap is after AllocSpan, whichever way the span was found. *)
LEMMA GivenIs ==
  ASSUME InOrder(heap), NEW n \in 1 .. kSpanSlotSize, CanTake(n)
  PROVE  Given(heap, Take(n), TakenSpan(n), n)
<1> DEFINE u == Take(n)
           h == TakenSpan(n)
<1>0. \A k \in Kinds : -39 <= k /\ k <= kSpanSlotSize
  BY PagesAssumption DEF Kinds
<1>1. CASE ~NothingLeft(n)
  <2>1. Took(heap, u, h, n)
    BY <1>1, TakeIs
  <2> HIDE DEF u, h
  <2>2. InHand(u, h) /\ is_head_(u) = Spans(u) /\ h \in Spans(u) /\ Shaped(u, {h}) /\ IsHeap(u)
        /\ u.pages \in Nat /\ u.pages <= kPageTotal
    BY <2>1 DEF Took, InHand
  <2>3. \A x \in is_head_(u) \ {h} : u.header[x].Flag \in Kinds
    BY <2>2 DEF Shaped
  <2>4. \A x \in is_head_(u) \ {h} : -39 <= u.header[x].Flag /\ u.header[x].Flag <= kSpanSlotSize
    BY <1>0, <2>3
  <2>5. Given(heap, u, h, n)
    BY <2>1, <2>2, <2>4 DEF Given, Took
  <2> QED
    BY <2>5 DEF u, h
<1>2. CASE NothingLeft(n)
  <2>1. /\ IsHeap(u) /\ h \in is_head_(u) /\ h # u.pages + 1
        /\ is_head_(u) = Spans(u) \cup {u.pages + 1} /\ u.header[u.pages + 1].Flag = 0
        /\ Shaped(u, {h})
        /\ Tiles(Spans(u), [Lengths(u) EXCEPT ![h] = n], u.pages)
        /\ Untouched(heap, u, {}) /\ ~InUse(heap, h)
        /\ u.bin_ = heap.bin_ /\ u.offset = heap.offset
        /\ u.pages \in Nat /\ u.pages <= kPageTotal /\ heap.pages <= u.pages
    BY <1>2, NothingLeftIs
  <2> HIDE DEF u, h
  <2>2. h \in Spans(u)
    BY <2>1
  <2>3. \A x \in Spans(u) \ {h} : u.header[x].Flag \in Kinds
    BY <2>1 DEF Shaped
  <2>4. \A x \in is_head_(u) \ {h} : -39 <= u.header[x].Flag /\ u.header[x].Flag <= kSpanSlotSize
    BY <1>0, <2>1, <2>3, PagesAssumption
  <2>5. Given(heap, u, h, n)
    BY <2>1, <2>2, <2>4 DEF Given
  <2> QED
    BY <2>5 DEF u, h
<1> QED
  BY <1>1, <1>2

(* In t only the header of h is another, but for links to the one in front. *)
SameBut(u, t, h) ==
  /\ is_head_(t) = is_head_(u) /\ t.pages = u.pages
  /\ \A x \in is_head_(u) \ {h} : Kept(u, t, x) /\ t.header[x].hNext = u.header[x].hNext

(* The span gets a header that says it has n pages. *)
LEMMA Marked ==
  ASSUME NEW s, NEW u, NEW h, NEW n \in 1 .. kSpanSlotSize, Given(s, u, h, n),
         NEW t, IsHeap(t), SameBut(u, t, h), t.header[h].Flag \in Kinds,
         t.header[h].Flag < 0 => t.header[h].hNext # -1, Pages(t, h) = n
  PROVE  /\ Tiled(t) /\ Untouched(s, t, {h}) /\ h \in Spans(t) /\ ~InUse(s, h)
         /\ t.pages \in Nat /\ t.pages <= kPageTotal /\ s.pages <= t.pages
         /\ \A x \in is_head_(t) : -39 <= t.header[x].Flag /\ t.header[x].Flag <= kSpanSlotSize
<1>1. Spans(t) = Spans(u) /\ h \in is_head_(u) /\ h \in Spans(t) /\ is_head_(t) = is_head_(u) /\ t.pages = u.pages
  BY DEF Given, SameBut, Spans
<1>2. \A x \in Spans(u) : Lengths(t)[x] = [Lengths(u) EXCEPT ![h] = n][x]
  <2>1. \A x \in Spans(u) : x # h => Lengths(t)[x] = Lengths(u)[x]
    BY <1>1, LenSame DEF SameBut, Kept, Spans
  <2>2. Lengths(t)[h] = n
    BY <1>1 DEF Lengths
  <2>3. DOMAIN Lengths(u) = is_head_(u) /\ Spans(u) \subseteq is_head_(u)
    BY DEF Lengths, Spans
  <2> QED
    BY <1>1, <2>1, <2>2, <2>3 DEF Lengths
<1>3. Tiles(Spans(t), Lengths(t), t.pages)
  <2>1. Tiles(Spans(u), [Lengths(u) EXCEPT ![h] = n], u.pages)
    BY DEF Given
  <2>2. Tiles(Spans(u), Lengths(t), u.pages)
    BY <1>2, <2>1, TilesSame
  <2> QED
    BY <1>1, <2>2
<1>4. Shaped(t, {})
  BY <1>1 DEF Shaped, Given, SameBut, Kept, Spans
<1>5. Untouched(s, t, {h})
  <2>1. Untouched(s, u, {h})
    BY DEF Given, Untouched
  <2>2. Untouched(u, t, {h})
    BY <1>1 DEF SameBut, Untouched, InUse, Kept
  <2> QED
    BY <2>1, <2>2, UntouchedTrans
<1>6. \A x \in is_head_(t) : -39 <= t.header[x].Flag /\ t.header[x].Flag <= kSpanSlotSize
  <2>1. \A k \in Kinds : -39 <= k /\ k <= kSpanSlotSize
    BY PagesAssumption DEF Kinds
  <2> QED
    BY <1>1, <2>1 DEF SameBut, Given, Kept
<1> QED
  BY <1>1, <1>3, <1>4, <1>5, <1>6 DEF Tiled, Given

(* The chunks and the free objects outside h are the same with the new c. *)
LEMMA AsideNew ==
  ASSUME NEW s, NEW C, NEW t, NEW c, NEW h, Home(t, c.ptr) = h,
         \A p : Home(t, p) # h => (p \in DOMAIN s.offset <=> p \in DOMAIN t.offset),
         \A p \in DOMAIN s.offset : Home(t, p) # h => t.offset[p] = s.offset[p]
  PROVE  \A p \in Nat : Home(t, p) # h => Aside(s, C, t, C \cup {c}, p)
BY DEF Aside

(* A span of enough pages for a big chunk. *)
LEMMA BigSlot ==
  ASSUME NEW bytes \in Sizes
  PROVE  /\ SpanSlotOf(bytes) \in 1 .. kSpanSlotSize
         /\ \A h \in Nat : PtrOf(h) + kSpanHeaderSize + bytes <= PtrOf(h + SpanSlotOf(bytes))
<1>1. bytes \in Nat /\ bytes > 0 /\ SpanSlotOf(bytes) <= kSpanSlotSize /\ kSpanSlotSize \in Nat
  BY SizesAssumption, PagesAssumption
<1>2. SpanSlotOf(bytes) \in Nat /\ SpanSlotOf(bytes) >= 1 /\ bytes + 12 <= SpanSlotOf(bytes) * 4096
  BY <1>1 DEF SpanSlotOf, kSpanHeaderSize, kPageLen
<1> HIDE DEF SpanSlotOf
<1> QED
  BY <1>1, <1>2 DEF PtrOf, kPageLen, kSpanHeaderSize

(* After Init nothing is asked of the number of pages. *)
LEMMA ConstructedIs == Constructed \in Nat
<1>1. InitPairs \in Nat /\ kSpanSlotSize \in Nat /\ InitMax \in Nat
  BY PagesAssumption
<1>2. kSpanSlotSize * InitMax \in Nat
  BY <1>1
<1> QED
  BY <1>1, <1>2 DEF Constructed

(* Pages are never given back, so the constructor stays behind. *)
LEMMA StaysAfter ==
  ASSUME NEW p \in Nat, NEW q \in Nat, p >= Constructed, p <= q
  PROVE  q >= Constructed /\ ~(q < Constructed)
<1>1. PICK k \in Nat : k = Constructed
  BY ConstructedIs
<1> QED
  BY <1>1

(* What a step after the constructor has to show. *)
LEMMA AfterInit ==
  ASSUME heap.pages >= Constructed, heap.pages \in Nat, heap'.pages \in Nat, heap.pages <= heap'.pages,
         Sound(heap', chunks'), upset' \in Upsets,
         GoesOn' => InOrder(heap') /\ Filled(heap', chunks', upset')
  PROVE  ArenaInv'
<1>2. heap'.pages >= Constructed /\ ~(heap'.pages < Constructed)
  BY StaysAfter
<1>3. Progress(heap'.pages)
  BY <1>2 DEF Progress
<1> QED
  BY <1>2, <1>3 DEF ArenaInv, Sound

(* What the last step has to show. *)
LEMMA AfterLast ==
  ASSUME heap.pages >= Constructed, heap.pages \in Nat, heap'.pages \in Nat, heap.pages <= heap'.pages,
         Typed(heap', chunks'), upset' \in Broken
  PROVE  ArenaInv'
<1>1. heap'.pages >= Constructed /\ ~(heap'.pages < Constructed)
  BY StaysAfter
<1>2. Progress(heap'.pages)
  BY <1>1 DEF Progress
<1>3. ~GoesOn'
  BY DEF GoesOn, Broken
<1> QED
  BY <1>1, <1>2, <1>3 DEF ArenaInv, Upsets

(* The header of a big chunk. *)
LEMMA BigHeader ==
  ASSUME NEW f \in Header, NEW n \in Nat, NEW r, r = [f EXCEPT !.Flag = n, !.hNext = -1]
  PROVE  r \in Header /\ r.Flag = n /\ r.hNext = -1
<1>1. /\ f = [Flag |-> f.Flag, hPri |-> f.hPri, hNext |-> f.hNext, oFree |-> f.oFree, nUsed |-> f.nUsed]
      /\ f.hPri \in Refs /\ f.oFree \in Nat /\ f.nUsed \in Nat
  BY DEF Header
<1>2. r = [Flag |-> n, hPri |-> f.hPri, hNext |-> -1, oFree |-> f.oFree, nUsed |-> f.nUsed]
  BY <1>1
<1>3. -1 \in PageHandles \cup {0, -1} /\ n \in Int
  OBVIOUS
<1> QED
  BY <1>1, <1>2, <1>3 DEF Header

(* Malloc of a whole span keeps the invariant. *)
LEMMA MallocBigKeeps ==
  ASSUME ArenaInv, GoesOn, heap.pages >= Constructed, NEW bytes \in Sizes, MallocBig(bytes)
  PROVE  ArenaInv'
<1> DEFINE n == SpanSlotOf(bytes)
           h == TakenSpan(n)
           u == Take(n)
           r == [u.header[h] EXCEPT !.Flag = n, !.hNext = -1]
           t == heap'
           c == [ptr |-> PtrOf(h) + kSpanHeaderSize, size |-> bytes]
<1>0. Sound(heap, chunks) /\ InOrder(heap) /\ Filled(heap, chunks, upset)
  BY DEF ArenaInv, GoesOn, Broken
<1>1. IsHeap(heap) /\ heap.pages \in Nat /\ Tiled(heap) /\ is_head_(heap) = Spans(heap)
      /\ chunks \subseteq [ptr : Nat, size : Sizes]
  BY <1>0 DEF InOrder, Sound, Typed
<1>2. n \in 1 .. kSpanSlotSize /\ n \in Nat /\ n > 0 /\ n \in Kinds
  BY BigSlot, SizeKind
<1>3. CanTake(n) /\ chunks' = chunks \cup {c} /\ upset' = IF NothingLeft(n) THEN "nothing left" ELSE upset
  BY DEF MallocBig, Hand
<1>4. t = [u EXCEPT !.header[h].Flag = n, !.header[h].hNext = -1]
  BY DEF MallocBig
<1>5. Given(heap, u, h, n)
  BY <1>0, <1>2, <1>3, GivenIs
<1>6. ~NothingLeft(n) => Took(heap, u, h, n)
  BY <1>0, <1>2, <1>3, TakeIs
<1>7. \A x \in Nat : PtrOf(x) + kSpanHeaderSize + bytes <= PtrOf(x + n)
  BY BigSlot
<1> HIDE DEF n, h, u, t
<1>8. IsHeap(u) /\ h \in is_head_(u) /\ h \in Nat /\ h >= 1
  <2>1. IsHeap(u) /\ h \in is_head_(u)
    BY <1>5 DEF Given, Spans
  <2> QED
    BY <2>1, HeaderTypes
<1>9. r \in Header /\ r.Flag = n /\ r.hNext = -1
  <2>1. u.header[h] \in Header
    BY <1>8 DEF IsHeap
  <2>2. \A f \in Header : LET q == [f EXCEPT !.Flag = n, !.hNext = -1]
                           IN  q \in Header /\ q.Flag = n /\ q.hNext = -1
    BY <1>2, BigHeader, ZenonT(30)
  <2> QED
    BY <2>1, <2>2, Zenon
<1>10. t = [u EXCEPT !.header[h] = r]
  BY <1>4, <1>8 DEF IsHeap, is_head_
<1> HIDE DEF r
<1>11. /\ IsHeap(t)
       /\ t.pages = u.pages /\ t.span_list_ = u.span_list_
       /\ t.bin_ = u.bin_ /\ t.offset = u.offset
       /\ is_head_(t) = is_head_(u) /\ t.header[h] = r
       /\ \A x \in is_head_(u) \ {h} : t.header[x] = u.header[x]
  BY <1>8, <1>9, <1>10, WithRecord
<1>12. SameBut(u, t, h)
  BY <1>11 DEF SameBut, Kept
<1>13. t.header[h].Flag = n /\ t.header[h].hNext = -1 /\ Pages(t, h) = n
  BY <1>2, <1>9, <1>11 DEF Pages
<1>14. /\ Tiled(t) /\ Untouched(heap, t, {h}) /\ h \in Spans(t) /\ ~InUse(heap, h)
       /\ t.pages \in Nat /\ t.pages <= kPageTotal /\ heap.pages <= t.pages
       /\ \A x \in is_head_(t) : -39 <= t.header[x].Flag /\ t.header[x].Flag <= kSpanSlotSize
  <2>1. t.header[h].Flag \in Kinds /\ (t.header[h].Flag < 0 => t.header[h].hNext # -1)
    BY <1>2, <1>13
  <2>2. IsHeap(t) /\ Pages(t, h) = n
    BY <1>11, <1>13
  <2> QED
    BY <1>2, <1>5, <1>12, <2>1, <2>2, Marked
<1>15. c.ptr = PtrOf(h) + kSpanHeaderSize /\ c.size = bytes /\ c \in [ptr : Nat, size : Sizes]
  <2>1. PtrOf(h) + kSpanHeaderSize \in Nat
    BY <1>8 DEF PtrOf, kPageLen, kSpanHeaderSize
  <2> QED
    BY <2>1
<1> HIDE DEF c
<1>16. Fits(t, c, h)
  BY <1>2, <1>7, <1>8, <1>13, <1>15 DEF Fits
<1>17. Placed(t, chunks \cup {c})
  BY <1>0, <1>11, <1>14, <1>15, <1>16, PlacedNew
<1>18. t.offset = heap.offset
  BY <1>5, <1>11 DEF Given
<1>19. Sound(t, chunks')
  <2>1. \A x \in DOMAIN t.offset : t.offset[x] \in Nat
    BY <1>0, <1>18 DEF Sound, Typed
  <2>2. chunks' \subseteq [ptr : Nat, size : Sizes]
    BY <1>1, <1>3, <1>15
  <2> QED
    BY <1>3, <1>11, <1>14, <1>17, <2>1, <2>2 DEF Sound, Typed
<1>20. ASSUME ~NothingLeft(n) PROVE InOrder(t) /\ Filled(t, chunks', upset)
  <2>1. InHand(u, h)
    BY <1>6, <1>20 DEF Took
  <2>2. Lists(t, {})
    <3>1. Lists(u, {h})
      BY <2>1 DEF InHand
    <3>2. \A k \in Kinds : First(t, k) = First(u, k)
      BY <1>11 DEF First
    <3>3. is_head_(t) \ {h} = is_head_(u) \ {h}
      BY <1>11
    <3>4. Lists(t, {h})
      BY <1>11, <3>1, <3>2, <3>3, ListsHand
    <3>5. \A k \in Kinds : Members(t, {}, k) = Members(t, {h}, k)
      BY <1>13 DEF Members
    <3> QED
      BY <3>4, <3>5 DEF Lists
  <2>3. InOrder(t)
    <3>1. is_head_(t) = Spans(t) /\ t.span_list_[0] = 0
      BY <1>11, <2>1 DEF InHand, Spans
    <3> QED
      BY <1>11, <1>14, <2>2, <3>1 DEF InOrder
  <2>4. Others(t, chunks', h, upset)
    <3>1. Home(t, c.ptr) = h
      BY <1>11, <1>14, <1>15, <1>16, FitsIn
    <3>2. \A p \in Nat : Home(t, p) # h => Aside(heap, chunks, t, chunks \cup {c}, p)
      BY <1>18, <3>1, AsideNew
    <3>3. IsHeap(t) /\ Tiled(t) /\ t.pages \in Nat /\ heap.pages <= t.pages /\ Untouched(heap, t, {h})
      BY <1>11, <1>14
    <3>4. Others(t, chunks \cup {c}, h, upset)
      BY <1>0, <1>1, <3>2, <3>3, FilledElsewhere
    <3> QED
      BY <1>3, <3>4
  <2>5. ASSUME NEW p \in DOMAIN t.offset PROVE InPage(t, p)
    <3>1. InPage(heap, p)
      BY <1>0, <1>18 DEF Filled
    <3>2. \A x \in {h} : InUse(heap, x) => Home(heap, p) # x
      BY <1>14
    <3> QED
      BY <1>1, <1>11, <1>14, <3>1, <3>2, InPageKeep
  <2>6. \E d \in chunks' : d.ptr = PtrOf(h) + kSpanHeaderSize
    BY <1>3, <1>15
  <2>7. ~(t.header[h].Flag < 0)
    BY <1>2, <1>13
  <2> QED
    BY <2>3, <2>4, <2>5, <2>6, <2>7 DEF Filled, Others
<1>21. upset' \in Upsets /\ (GoesOn' => ~NothingLeft(n) /\ upset' = upset)
  BY <1>3 DEF ArenaInv, Upsets, GoesOn
<1> QED
  BY <1>1, <1>14, <1>19, <1>20, <1>21, AfterInit DEF t

-----------------------------------------------------------------------------
(* Arena: Malloc that needs a page *)

(* What Put makes of a function. *)
LEMMA PutIs ==
  ASSUME NEW f, NEW x, NEW v
  PROVE  /\ DOMAIN Put(f, x, v) = DOMAIN f \cup {x} /\ Put(f, x, v)[x] = v
         /\ \A y \in DOMAIN f \ {x} : Put(f, x, v)[y] = f[y]
BY DEF Put

(* A free object that stores 0 is a chain by itself. *)
LEMMA ChainOne ==
  ASSUME NEW x, x # 0, NEW next, next[x] = 0
  PROVE  Chain(x, {x}, next)
<1> DEFINE pri == [y \in {x} |-> 0]
<1>1. pri \in [{x} -> {x} \cup {0}] /\ pri[x] = 0
  OBVIOUS
<1> HIDE DEF pri
<1>2. List(x, {x}, next, pri)
  BY <1>1 DEF List
<1> QED
  BY <1>1, <1>2 DEF Chain

(* The class of a size. *)
LEMMA ObjectSlot ==
  ASSUME NEW bytes \in Sizes, bytes <= kMaxObjectAvailable
  PROVE  BinSlot(bytes) \in Bins /\ bytes <= kBinSlotTemplate[BinSlot(bytes)]
<1>1. bytes \in 1 .. kMaxObjectAvailable
  <2>1. bytes \in Nat /\ bytes > 0
    BY SizesAssumption
  <2> QED
    BY <2>1 DEF kMaxObjectAvailable
<1>2. BinSlot(bytes) \in Bins /\ kBinSlotTemplate[BinSlot(bytes)] >= bytes
  BY <1>1, ClassAssumption
<1>3. kBinSlotTemplate[BinSlot(bytes)] \in Nat /\ bytes \in Nat
  BY <1>1, <1>2, ClassSizes, SMTT(30) DEF kMaxObjectAvailable
<1> QED
  BY <1>2, <1>3

(* A span h in hand becomes the first page of the bin b. *)
Paged(u, t, h, b) ==
  /\ IsHeap(t) /\ SameBut(u, t, h) /\ Lists(t, {})
  /\ t.span_list_ = u.span_list_
  /\ t.offset = Put(u.offset, PtrOf(h) + (16 + kBinSlotTemplate[b]), 0)
  /\ t.header[h].Flag = -b /\ t.header[h].hNext # -1
  /\ t.header[h].oFree = 16 + kBinSlotTemplate[b] /\ t.header[h].nUsed = 1

(* What changes when a span in hand becomes a page of a bin. *)
LEMMA PagedIs ==
  ASSUME NEW u, NEW h, InHand(u, h), NEW b \in Bins, NEW page,
         page = [Flag |-> -b, hPri |-> 0, hNext |-> u.bin_[b], oFree |-> 16 + kBinSlotTemplate[b], nUsed |-> 1],
         NEW t,
         t = SetPri([u EXCEPT !.header[h] = page, !.bin_[b] = h,
                              !.offset = Put(u.offset, PtrOf(h) + (16 + kBinSlotTemplate[b]), 0)], u.bin_[b], h)
  PROVE  Paged(u, t, h, b)
<1> DEFINE next == u.bin_[b]
           f == Put(u.offset, PtrOf(h) + (16 + kBinSlotTemplate[b]), 0)
           u1 == [u EXCEPT !.header[h] = page]
           u2 == [u1 EXCEPT !.bin_[b] = h]
           v == [u2 EXCEPT !.offset = f]
<1>0. IsHeap(u) /\ h \in is_head_(u) /\ Lists(u, {h}) /\ h \in PageHandles /\ h \in Nat /\ h >= 1 /\ h \in Refs
  <2>1. IsHeap(u) /\ h \in is_head_(u) /\ Lists(u, {h})
    BY DEF InHand
  <2> QED
    BY <2>1, HeaderTypes DEF Refs
<1>1. -b \in Kinds /\ -b < 0 /\ First(u, -b) = next
  BY BinKind
<1>2. next \in Links(u) \ {h} /\ next # -1 /\ next \in Refs
  <2>1. next # 0 => next \in Members(u, {h}, -b)
    BY <1>0, <1>1, Listed
  <2>2. next \in Links(u)
    BY <1>0, <1>1, Listed
  <2>3. is_head_(u) \subseteq PageHandles
    BY <1>0 DEF IsHeap
  <2>4. -1 \notin PageHandles
    BY HandleRange
  <2> QED
    BY <1>0, <2>1, <2>2, <2>3, <2>4 DEF Members, Links, Refs
<1>3. page \in Header /\ page.Flag = -b /\ page.hPri = 0 /\ page.hNext = next
      /\ page.oFree = 16 + kBinSlotTemplate[b] /\ page.nUsed = 1
  <2>1. 16 + kBinSlotTemplate[b] \in Nat /\ -b \in Int
    BY ClassSizes, ClassCount
  <2>2. next \in PageHandles \cup {0, -1} /\ 0 \in Refs
    BY <1>2 DEF Refs
  <2> QED
    BY <2>1, <2>2 DEF Header
<1>4. t = SetPri(v, next, h)
  <2>1. v = [u EXCEPT !.header[h] = page, !.bin_[b] = h, !.offset = f]
    OBVIOUS
  <2> QED
    BY <2>1
<1> HIDE DEF next, f
<1>5. /\ IsHeap(u1)
      /\ u1.pages = u.pages /\ u1.span_list_ = u.span_list_
      /\ u1.bin_ = u.bin_ /\ u1.offset = u.offset
      /\ is_head_(u1) = is_head_(u) /\ u1.header[h] = page
      /\ \A x \in is_head_(u) \ {h} : u1.header[x] = u.header[x]
  BY <1>0, <1>3, WithRecord
<1> HIDE DEF u1
<1>6. /\ IsHeap(u2)
      /\ u2.header = u1.header /\ u2.pages = u1.pages
      /\ u2.span_list_ = u1.span_list_
      /\ u2.bin_ = [u1.bin_ EXCEPT ![b] = h] /\ u2.offset = u1.offset
  BY <1>0, <1>5, WithBin
<1> HIDE DEF u2
<1>7. /\ IsHeap(v)
      /\ v.header = u2.header /\ v.pages = u2.pages
      /\ v.span_list_ = u2.span_list_
      /\ v.bin_ = u2.bin_ /\ v.offset = f
  BY <1>6, WithOffset
<1> HIDE DEF v
<1>8. is_head_(v) = is_head_(u) /\ next \in Links(v)
  BY <1>2, <1>5, <1>6, <1>7 DEF is_head_, Links
<1>9. /\ IsHeap(t)
      /\ t.pages = v.pages /\ t.span_list_ = v.span_list_
      /\ t.bin_ = v.bin_ /\ t.offset = v.offset
      /\ is_head_(t) = is_head_(v)
      /\ \A x \in is_head_(v) :
           /\ Kept(v, t, x)
           /\ t.header[x].hNext = v.header[x].hNext
           /\ t.header[x].hPri = IF x = next THEN h ELSE v.header[x].hPri
  BY <1>0, <1>4, <1>7, <1>8, SetPriIs
<1>10. v.header[h] = page /\ \A x \in is_head_(u) \ {h} : v.header[x] = u.header[x]
  BY <1>5, <1>6, <1>7, SMTT(30)
<1>11. /\ t.header[h].Flag = -b /\ t.header[h].hNext = next /\ t.header[h].hPri = 0
       /\ t.header[h].oFree = 16 + kBinSlotTemplate[b] /\ t.header[h].nUsed = 1
  BY <1>0, <1>2, <1>3, <1>8, <1>9, <1>10 DEF Kept
<1>12. SameBut(u, t, h)
  <2>1. is_head_(t) = is_head_(u) /\ t.pages = u.pages
    BY <1>5, <1>6, <1>7, <1>8, <1>9
  <2>2. ASSUME NEW x \in is_head_(u) \ {h} PROVE Kept(u, t, x) /\ t.header[x].hNext = u.header[x].hNext
    <3>1. Kept(v, t, x) /\ t.header[x].hNext = v.header[x].hNext
      BY <1>8, <1>9
    <3>2. v.header[x] = u.header[x]
      BY <1>10
    <3> QED
      BY <3>1, <3>2 DEF Kept
  <2> QED
    BY <2>1, <2>2 DEF SameBut
<1>13. First(t, -b) = h /\ \A j \in Kinds \ {-b} : First(t, j) = First(u, j)
  <2>1. t.span_list_ = u.span_list_ /\ t.bin_ = [u.bin_ EXCEPT ![b] = h]
    BY <1>5, <1>6, <1>7, <1>9
  <2>2. t.bin_[b] = h /\ \A x \in Bins : x # b => t.bin_[x] = u.bin_[x]
    BY <1>0, <2>1 DEF IsHeap
  <2>3. First(t, -b) = h
    BY <2>2, BinKind
  <2>4. ASSUME NEW j \in Kinds, j # -b PROVE First(t, j) = First(u, j)
    <3>1. CASE j > 0
      BY <2>1, <3>1 DEF First
    <3>2. CASE ~(j > 0)
      <4>1. -j \in Bins /\ -j # b
        BY <2>4, <3>2, KindRange, ClassCount
      <4> QED
        BY <2>2, <3>2, <4>1 DEF First
    <3> QED
      BY <3>1, <3>2
  <2> QED
    BY <2>3, <2>4
<1>14. \A x \in is_head_(u) \ {h} :
         /\ t.header[x].Flag = u.header[x].Flag
         /\ t.header[x].hNext = u.header[x].hNext
         /\ t.header[x].hPri = IF x = First(u, -b) THEN h ELSE u.header[x].hPri
  BY <1>1, <1>8, <1>9, <1>10 DEF Kept
<1>15. Lists(t, {})
  <2>1. is_head_(t) = is_head_(u) \cup {h} /\ h \notin is_head_(u) \ {h} /\ {h} \ {h} = {}
    BY <1>0, <1>8, <1>9
  <2>2. First(u, -b) # -1 /\ t.header[h].hNext = First(u, -b) /\ h # 0
    BY <1>0, <1>1, <1>2, <1>11
  <2>3. -b \in Kinds /\ Lists(u, {h}) /\ t.header[h].Flag = -b /\ t.header[h].hPri = 0
    BY <1>0, <1>1, <1>11, Zenon
  <2>4. Lists(t, {h} \ {h})
    BY <1>13, <1>14, <2>1, <2>2, <2>3, ListsPush
  <2> QED
    BY <2>1, <2>4
<1>16. t.span_list_ = u.span_list_ /\ t.offset = f
  BY <1>5, <1>6, <1>7, <1>9
<1> QED
  BY <1>2, <1>9, <1>11, <1>12, <1>15, <1>16 DEF Paged, f

(* A page span that holds one chunk, with a free object behind it. *)
LEMMA FirstCut ==
  ASSUME NEW t, IsHeap(t), Tiled(t), NEW h \in Spans(t), NEW b \in Bins, t.header[h].Flag = -b,
         t.header[h].nUsed = 1, t.header[h].oFree = 16 + kBinSlotTemplate[b],
         NEW D, \E d \in D : d.ptr = PtrOf(h) + 16, \A d \in D : d.ptr = PtrOf(h) + 16 \/ Home(t, d.ptr) # h,
         NEW q, q = PtrOf(h) + (16 + kBinSlotTemplate[b]), q \in DOMAIN t.offset, t.offset[q] = 0,
         \A p \in DOMAIN t.offset : p = q \/ Home(t, p) # h
  PROVE  Cut(t, D, h) /\ Strung(t, D, h)
<1> DEFINE T == kBinSlotTemplate[b]
<1>1. T \in Nat /\ T >= 4
  BY ClassSizes
<1>2. h \in Nat /\ -t.header[h].Flag = b /\ t.header[h].Flag < 0
  BY SpanCases, ClassCount
<1>3. PtrOf(h) \in Int
  BY <1>2 DEF PtrOf, kPageLen
<1>4. /\ \A o \in Objects(b) : o \in Nat /\ o >= 16
      /\ \A o, x \in Objects(b) : o < x => o + T <= x
      /\ 16 \in Objects(b) /\ 16 + T \in Objects(b)
  BY ObjectsApart
<1>5. \A o \in Objects(b) : Home(t, PtrOf(h) + o) = h
  BY <1>2, ObjectHome
<1> HIDE DEF T
<1>6. UsedOf(t, D, h) = {16}
  <2>1. ASSUME NEW o \in Objects(b), NEW d \in D, d.ptr = PtrOf(h) + o PROVE o = 16
    BY <1>3, <1>4, <1>5, <2>1
  <2> QED
    BY <1>2, <1>4, <2>1 DEF UsedOf
<1>7. FreeOf(t, h) = {16 + T}
  <2>1. ASSUME NEW o \in Objects(b), PtrOf(h) + o \in DOMAIN t.offset PROVE o = 16 + T
    <3>1. PtrOf(h) + o = PtrOf(h) + (16 + T)
      BY <1>5, <2>1 DEF T
    <3> QED
      BY <1>1, <1>3, <1>4, <3>1
  <2> QED
    BY <1>2, <1>4, <2>1 DEF FreeOf, T
<1>8. Cardinality({16}) = 1
  BY FS_Singleton
<1>9. {16} \cap {16 + T} = {}
  BY <1>1
<1> DEFINE g == [o \in {16 + T} |-> t.offset[PtrOf(h) + o]]
<1>10. g[16 + T] = 0 /\ 16 + T # 0
  BY <1>1 DEF T
<1> HIDE DEF g
<1>11. Chain(16 + T, {16 + T}, g)
  BY <1>10, ChainOne
<1>12. Fresh(t, h, {16}, {16 + T})
  <2>1. ASSUME NEW o \in Objects(b) \ ({16} \cup {16 + T})
        PROVE  16 + T < o
    <3>1. o \in Nat /\ 16 < o
      BY <1>4
    <3>2. 16 + T <= o
      BY <1>4, <3>1
    <3> QED
      BY <1>1, <3>1, <3>2
  <2>2. t.offset[PtrOf(h) + (16 + T)] = 0
    BY DEF T
  <2>3. \A k \in {16} \cup {16 + T} : k <= 16 + T
    BY <1>1
  <2> QED
    BY <1>2, <2>1, <2>2, <2>3 DEF Fresh
<1>13. Cut(t, D, h)
  BY <1>6, <1>7, <1>8, <1>9, <1>11, <1>12 DEF Cut, g, T
<1>14. Strung(t, D, h)
  BY <1>6, <1>7, <1>8, <1>10 DEF Strung, Known, g, T
<1> QED
  BY <1>13, <1>14

(* Malloc from a new page span keeps the invariant. *)
LEMMA MallocPageKeeps ==
  ASSUME ArenaInv, GoesOn, heap.pages >= Constructed, NEW bytes \in Sizes, MallocPage(bytes)
  PROVE  ArenaInv'
<1> DEFINE b == BinSlot(bytes)
           n == BinPages[b]
           h == TakenSpan(n)
           u == Take(n)
           t == heap'
           T == kBinSlotTemplate[b]
           c == [ptr |-> PtrOf(h) + 16, size |-> bytes]
           q == PtrOf(h) + (16 + T)
           page == [Flag |-> -b, hPri |-> 0, hNext |-> heap.bin_[b], oFree |-> 16 + T, nUsed |-> 1]
<1>0. Sound(heap, chunks) /\ InOrder(heap) /\ Filled(heap, chunks, upset)
  BY DEF ArenaInv, GoesOn, Broken
<1>1. IsHeap(heap) /\ heap.pages \in Nat /\ Tiled(heap) /\ is_head_(heap) = Spans(heap)
      /\ chunks \subseteq [ptr : Nat, size : Sizes]
  BY <1>0 DEF InOrder, Sound, Typed
<1>2. b \in Bins /\ bytes <= T
  BY ObjectSlot DEF MallocPage
<1>3. n \in Nat /\ 1 <= n /\ n < kSpanSlotSize /\ n \in 1 .. kSpanSlotSize /\ ~NothingLeft(n)
  <2>1. n \in Nat /\ 1 <= n /\ n < kSpanSlotSize
    BY <1>2, ClassPages
  <2> HIDE DEF n
  <2> QED
    BY <2>1, PagesAssumption DEF NothingLeft
<1>4. CanTake(n) /\ chunks' = chunks \cup {c} /\ upset' = upset
  BY DEF MallocPage, Hand, kPageHeaderSize
<1>5. t = SetPri([u EXCEPT !.header[h] = page, !.bin_[b] = h, !.offset = Put(u.offset, q, 0)], heap.bin_[b], h)
  BY DEF MallocPage, kPageHeaderSize
<1> HIDE DEF b, n
<1>6. Given(heap, u, h, n)
  BY <1>0, <1>3, <1>4, GivenIs
<1>7. Took(heap, u, h, n)
  BY <1>0, <1>3, <1>4, TakeIs
<1> HIDE DEF h, u, t
<1>8. InHand(u, h) /\ u.bin_ = heap.bin_ /\ u.offset = heap.offset
  BY <1>7 DEF Took
<1>9. IsHeap(u) /\ h \in is_head_(u) /\ h \in Nat /\ h >= 1
  <2>1. IsHeap(u) /\ h \in is_head_(u)
    BY <1>8 DEF InHand
  <2> QED
    BY <2>1, HeaderTypes
<1>10. Paged(u, t, h, b)
  <2>1. page = [Flag |-> -b, hPri |-> 0, hNext |-> u.bin_[b], oFree |-> 16 + kBinSlotTemplate[b], nUsed |-> 1]
    BY <1>8
  <2> HIDE DEF page
  <2>2. t = SetPri([u EXCEPT !.header[h] = page, !.bin_[b] = h,
                              !.offset = Put(u.offset, PtrOf(h) + (16 + kBinSlotTemplate[b]), 0)], u.bin_[b], h)
    BY <1>5, <1>8
  <2> QED
    BY <1>2, <1>8, <2>1, <2>2, PagedIs
<1> HIDE DEF page
<1>11. /\ IsHeap(t) /\ SameBut(u, t, h) /\ Lists(t, {}) /\ t.span_list_ = u.span_list_
       /\ t.offset = Put(heap.offset, q, 0) /\ t.header[h].Flag = -b /\ t.header[h].hNext # -1
       /\ t.header[h].oFree = 16 + T /\ t.header[h].nUsed = 1
  BY <1>8, <1>10 DEF Paged
<1>12. -b \in Kinds /\ -b < 0 /\ -b \in Int /\ -(-b) = b
  BY <1>2, BinKind, ClassCount
<1>13. Pages(t, h) = n
  BY <1>11, <1>12 DEF Pages, n
<1>14. /\ Tiled(t) /\ Untouched(heap, t, {h}) /\ h \in Spans(t) /\ ~InUse(heap, h)
       /\ t.pages \in Nat /\ t.pages <= kPageTotal /\ heap.pages <= t.pages
  <2>1. t.header[h].Flag \in Kinds /\ (t.header[h].Flag < 0 => t.header[h].hNext # -1)
    BY <1>11, <1>12
  <2>2. IsHeap(t) /\ SameBut(u, t, h)
    BY <1>11
  <2> QED
    BY <1>3, <1>6, <1>13, <2>1, <2>2, Marked
<1>15. c.ptr = PtrOf(h) + 16 /\ c.size = bytes /\ c \in [ptr : Nat, size : Sizes]
  <2>1. PtrOf(h) + 16 \in Nat
    BY <1>9 DEF PtrOf, kPageLen
  <2> QED
    BY <2>1
<1> HIDE DEF c
<1>16. Fits(t, c, h)
  <2>1. 16 \in Objects(b)
    BY <1>2, ObjectsApart
  <2> QED
    BY <1>2, <1>11, <1>12, <1>15, <2>1 DEF Fits
<1>17. Placed(t, chunks \cup {c}) /\ \A d \in chunks : Home(t, d.ptr) # h
  BY <1>0, <1>11, <1>14, <1>15, <1>16, PlacedNew
<1>18. InOrder(t)
  <2>1. is_head_(t) = Spans(t) /\ t.span_list_[0] = 0
    BY <1>8, <1>11 DEF InHand, SameBut, Spans
  <2> QED
    BY <1>11, <1>14, <2>1 DEF InOrder
<1>19. /\ DOMAIN t.offset = DOMAIN heap.offset \cup {q} /\ t.offset[q] = 0
       /\ \A p \in DOMAIN heap.offset \ {q} : t.offset[p] = heap.offset[p]
  <2> HIDE DEF q
  <2> DEFINE f == Put(heap.offset, q, 0)
  <2>1. /\ DOMAIN f = DOMAIN heap.offset \cup {q} /\ f[q] = 0
        /\ \A p \in DOMAIN heap.offset \ {q} : f[p] = heap.offset[p]
    BY DEF Put
  <2>2. t.offset = f
    BY <1>11 DEF q
  <2> HIDE DEF f
  <2> QED
    BY <2>1, <2>2
<1>20. Home(t, q) = h /\ q \in Nat
  <2>1. 16 + T \in Objects(b)
    BY <1>2, ObjectsApart
  <2> QED
    BY <1>11, <1>12, <1>14, <2>1, ObjectHome
<1> HIDE DEF q
<1>21. Sound(t, chunks')
  <2>1. \A x \in DOMAIN t.offset : t.offset[x] \in Nat
    BY <1>0, <1>19 DEF Sound, Typed
  <2>2. chunks' \subseteq [ptr : Nat, size : Sizes]
    BY <1>1, <1>4, <1>15
  <2> QED
    BY <1>4, <1>17, <1>18, <2>1, <2>2, OrderSound
<1>22. ASSUME NEW p \in DOMAIN heap.offset PROVE InPage(t, p) /\ Home(t, p) # h
  <2>1. InPage(heap, p)
    BY <1>0 DEF Filled
  <2>2. \A x \in {h} : InUse(heap, x) => Home(heap, p) # x
    BY <1>14
  <2> QED
    BY <1>1, <1>11, <1>14, <2>1, <2>2, InPageKeep
<1>23. Others(t, chunks', h, upset)
  <2>1. Home(t, c.ptr) = h
    BY <1>11, <1>14, <1>15, <1>16, FitsIn
  <2>2. \A p : Home(t, p) # h => (p \in DOMAIN heap.offset <=> p \in DOMAIN t.offset)
    BY <1>19, <1>20
  <2>3. \A p \in DOMAIN heap.offset : Home(t, p) # h => t.offset[p] = heap.offset[p]
    BY <1>19, <1>20
  <2>4. \A p \in Nat : Home(t, p) # h => Aside(heap, chunks, t, chunks \cup {c}, p)
    BY <2>1, <2>2, <2>3, AsideNew
  <2>5. IsHeap(t) /\ Tiled(t) /\ t.pages \in Nat /\ heap.pages <= t.pages /\ Untouched(heap, t, {h})
    BY <1>11, <1>14
  <2>6. Others(t, chunks \cup {c}, h, upset)
    BY <1>0, <1>1, <2>4, <2>5, FilledElsewhere
  <2> QED
    BY <1>4, <2>6
<1>24. Whole(t, chunks', h, upset)
  <2>1. IsHeap(t) /\ Tiled(t) /\ h \in Spans(t) /\ t.header[h].Flag = -b /\ t.header[h].nUsed = 1
        /\ t.header[h].oFree = 16 + kBinSlotTemplate[b]
    BY <1>11, <1>14
  <2>2. \E d \in chunks' : d.ptr = PtrOf(h) + 16
    BY <1>4, <1>15
  <2>3. \A d \in chunks' : d.ptr = PtrOf(h) + 16 \/ Home(t, d.ptr) # h
    BY <1>4, <1>15, <1>17
  <2>4. q \in DOMAIN t.offset /\ t.offset[q] = 0 /\ q = PtrOf(h) + (16 + kBinSlotTemplate[b])
    BY <1>19 DEF q
  <2>5. \A p \in DOMAIN t.offset : p = q \/ Home(t, p) # h
    BY <1>19, <1>22
  <2> QED
    BY <1>2, <2>1, <2>2, <2>3, <2>4, <2>5, FirstCut DEF Whole
<1>25. InPage(t, q)
  <2>1. 16 + T \in Objects(b)
    BY <1>2, ObjectsApart
  <2> QED
    BY <1>11, <1>12, <1>14, <2>1 DEF InPage, q
<1>26. Filled(t, chunks', upset)
  <2>1. \A p \in DOMAIN t.offset : InPage(t, p)
    BY <1>19, <1>22, <1>25
  <2> QED
    BY <1>11, <1>23, <1>24, <2>1 DEF Filled, Others
<1> QED
  BY <1>1, <1>4, <1>14, <1>18, <1>21, <1>26, AfterInit DEF t, ArenaInv

-----------------------------------------------------------------------------
(* Arena: Free of a span *)

(* The span of a chunk, and that of a free object. *)
LEMMA ChunkHome ==
  ASSUME NEW s, NEW C, Sound(s, C), NEW c \in C
  PROVE  /\ Home(s, c.ptr) \in Spans(s) /\ Fits(s, c, Home(s, c.ptr)) /\ InUse(s, Home(s, c.ptr))
         /\ c \in [ptr : Nat, size : Sizes] /\ c.ptr \in Nat
<1>1. PICK h \in Spans(s) : Fits(s, c, h)
  BY DEF Sound, Typed, Placed
<1>2. IsHeap(s) /\ Tiled(s) /\ c \in [ptr : Nat, size : Sizes]
  BY DEF Sound, Typed
<1>3. Home(s, c.ptr) = h /\ InUse(s, h) /\ c.ptr \in Nat
  BY <1>1, <1>2, FitsIn
<1> QED
  BY <1>1, <1>2, <1>3

(* An address at which a free object may be lies in a page span. *)
LEMMA PageHome ==
  ASSUME NEW s, IsHeap(s), Tiled(s), NEW p, InPage(s, p)
  PROVE  /\ p \in Nat /\ Home(s, p) \in Spans(s) /\ s.header[Home(s, p)].Flag < 0
         /\ \E o \in Objects(-s.header[Home(s, p)].Flag) : p = PtrOf(Home(s, p)) + o
<1>1. PICK h \in Spans(s) : s.header[h].Flag < 0 /\ \E o \in Objects(-s.header[h].Flag) : p = PtrOf(h) + o
  BY DEF InPage
<1>2. PICK o \in Objects(-s.header[h].Flag) : p = PtrOf(h) + o
  BY <1>1
<1>3. Home(s, p) = h /\ p \in Nat
  BY <1>1, <1>2, ObjectHome
<1> QED
  BY <1>1, <1>2, <1>3

(* The last chunk of the span h is gone and the span is free. *)
LEMMA SpanFreed ==
  ASSUME NEW s, NEW C, NEW up, Sound(s, C), InOrder(s), Filled(s, C, up), NEW c \in C, NEW h, h = Home(s, c.ptr),
         NEW t, InOrder(t), Untouched(s, t, {h}), ~InUse(t, h), t.pages = s.pages,
         NEW D, D = C \ {c}, \A d \in D : Home(s, d.ptr) # h,
         \A p : p \in DOMAIN t.offset <=> p \in DOMAIN s.offset /\ Home(s, p) # h,
         \A p \in DOMAIN t.offset : t.offset[p] = s.offset[p]
  PROVE  Sound(t, D) /\ Filled(t, D, up)
<1>1. /\ IsHeap(s) /\ s.pages \in Nat /\ Tiled(s) /\ is_head_(s) = Spans(s) /\ C \subseteq [ptr : Nat, size : Sizes]
      /\ IsHeap(t) /\ Tiled(t) /\ t.pages \in Nat /\ s.pages <= t.pages
  BY DEF InOrder, Sound, Typed
<1>2. Placed(t, D)
  <2>1. D \in SUBSET C /\ \A d \in D : Home(s, d.ptr) \notin {h}
    OBVIOUS
  <2> QED
    BY <1>1, <2>1, PlacedKeep
<1>3. Sound(t, D)
  <2>1. \A x \in DOMAIN t.offset : t.offset[x] \in Nat
    BY DEF Sound, Typed
  <2> QED
    BY <1>1, <1>2, <2>1, OrderSound
<1>4. Others(t, D, h, up)
  <2>1. \A p \in Nat : Home(s, p) # h => Aside(s, C, t, D, p)
    BY DEF Aside
  <2> QED
    BY <1>1, <2>1, FilledElsewhere
<1>5. ASSUME NEW p \in DOMAIN t.offset PROVE InPage(t, p)
  <2>1. InPage(s, p)
    BY DEF Filled
  <2>2. \A x \in {h} : InUse(s, x) => Home(s, p) # x
    OBVIOUS
  <2> QED
    BY <1>1, <2>1, <2>2, InPageKeep
<1>6. h \in Spans(t) => ~(t.header[h].Flag < 0) /\ t.header[h].hNext # -1
  BY DEF InUse, Spans
<1> QED
  BY <1>3, <1>4, <1>5, <1>6 DEF Filled, Others

(* Free of a whole span keeps the invariant. *)
LEMMA FreeBigKeeps ==
  ASSUME ArenaInv, GoesOn, NEW c \in chunks, FreeBig(c)
  PROVE  ArenaInv'
<1> DEFINE h == Home(heap, c.ptr)
           t == heap'
           D == chunks'
<1>0. Sound(heap, chunks) /\ InOrder(heap) /\ Filled(heap, chunks, upset) /\ ~(heap.pages < Constructed)
  BY DEF ArenaInv, GoesOn, Broken
<1>1. IsHeap(heap) /\ heap.pages \in Nat /\ Tiled(heap) /\ is_head_(heap) = Spans(heap)
  BY <1>0 DEF InOrder
<1>2. heap.header[h].Flag > 0 /\ t = FreeSpan(heap, h) /\ D = chunks \ {c} /\ upset' = upset
  BY DEF FreeBig, Home
<1> HIDE DEF t, D
<1>3. h \in Spans(heap) /\ Fits(heap, c, h)
  BY <1>0, ChunkHome
<1> HIDE DEF h
<1>4. heap.header[h].hNext = -1 /\ c.ptr = PtrOf(h) + kSpanHeaderSize
  <2>1. heap.header[h].Flag \in Int
    BY <1>1, <1>3, SpanCases
  <2> QED
    BY <1>2, <1>3, <2>1 DEF Fits
<1>5. InHand(heap, h)
  <2>1. \A k \in Kinds : Members(heap, {}, k) = Members(heap, {h}, k)
    BY <1>4 DEF Members
  <2>2. Lists(heap, {h})
    BY <1>0, <2>1 DEF InOrder, Lists
  <2>3. Shaped(heap, {h})
    BY <1>1 DEF Tiled, Shaped
  <2> QED
    BY <1>0, <1>1, <1>3, <2>2, <2>3 DEF InOrder, InHand
<1>6. heap.header[h].Flag \in 1 .. kSpanSlotSize
  <2>1. heap.header[h].Flag \in Kinds
    BY <1>1, <1>3 DEF Tiled, Shaped
  <2> QED
    BY <1>2, <2>1, KindRange
<1>7. Freed(heap, t, h)
  <2>1. Tiles(Spans(heap), Lengths(heap), heap.pages)
    BY <1>1 DEF Tiled
  <2> QED
    BY <1>2, <1>5, <1>6, <2>1, FreeSpanIs
<1>8. /\ InOrder(t) /\ Untouched(heap, t, {h}) /\ ~InUse(t, h) /\ t.pages = heap.pages /\ t.offset = heap.offset
  BY <1>7 DEF Freed
<1>9. ASSUME NEW d \in D PROVE Home(heap, d.ptr) # h
  <2> SUFFICES ASSUME Home(heap, d.ptr) = h PROVE FALSE
    OBVIOUS
  <2>1. d \in chunks /\ d # c
    BY <1>2
  <2>2. Fits(heap, d, h)
    BY <1>0, <2>1, ChunkHome
  <2>3. d.ptr = c.ptr
    <3>1. heap.header[h].Flag \in Int
      BY <1>1, <1>3, SpanCases
    <3> QED
      BY <1>2, <1>4, <2>2, <3>1 DEF Fits
  <2> QED
    BY <1>0, <2>1, <2>3 DEF Sound, Typed, Placed
<1>10. ASSUME NEW p \in DOMAIN heap.offset PROVE Home(heap, p) # h
  <2>1. InPage(heap, p)
    BY <1>0 DEF Filled
  <2>2. heap.header[Home(heap, p)].Flag < 0
    BY <1>1, <2>1, PageHome
  <2>3. heap.header[h].Flag \in Int
    BY <1>1, <1>3, SpanCases
  <2> QED
    BY <1>2, <2>2, <2>3
<1>11. Sound(t, D) /\ Filled(t, D, upset)
  <2>1. \A p : p \in DOMAIN t.offset <=> p \in DOMAIN heap.offset /\ Home(heap, p) # h
    BY <1>8, <1>10
  <2>2. \A p \in DOMAIN t.offset : t.offset[p] = heap.offset[p]
    BY <1>8
  <2>3. h = Home(heap, c.ptr)
    BY DEF h
  <2>4. InOrder(t) /\ Untouched(heap, t, {h}) /\ ~InUse(t, h) /\ t.pages = heap.pages
    BY <1>8
  <2> QED
    BY <1>0, <1>2, <1>9, <2>1, <2>2, <2>3, <2>4, SpanFreed
<1>12. heap.pages >= Constructed
  BY <1>0, <1>1, ConstructedIs
<1> QED
  BY <1>1, <1>2, <1>8, <1>11, <1>12, AfterInit DEF t, D, ArenaInv

(* The object of a chunk of a page span. *)
LEMMA ChunkObject ==
  ASSUME NEW s, NEW C, Sound(s, C), NEW c \in C, NEW h, h = Home(s, c.ptr), s.header[h].Flag < 0
  PROVE  /\ h \in Spans(s) /\ -s.header[h].Flag \in Bins /\ h \in Nat /\ PtrOf(h) \in Int
         /\ c.ptr - PtrOf(h) \in UsedOf(s, C, h) /\ c.ptr - PtrOf(h) \in Objects(-s.header[h].Flag)
         /\ c.ptr - PtrOf(h) \in Nat /\ c.ptr = PtrOf(h) + (c.ptr - PtrOf(h))
<1>1. h \in Spans(s) /\ Fits(s, c, h)
  BY ChunkHome
<1>2. h \in Nat /\ s.header[h].Flag \in Int /\ -s.header[h].Flag \in Bins
  BY <1>1, SpanCases DEF Sound, Typed
<1>3. PtrOf(h) \in Int
  BY <1>2 DEF PtrOf, kPageLen
<1>4. PICK o \in Objects(-s.header[h].Flag) : c.ptr = PtrOf(h) + o
  BY <1>1, <1>2 DEF Fits
<1>5. o \in Nat
  BY <1>2, ObjectsApart
<1>6. c.ptr - PtrOf(h) = o
  BY <1>3, <1>4, <1>5
<1>7. o \in UsedOf(s, C, h)
  BY <1>4 DEF UsedOf
<1> QED
  BY <1>1, <1>2, <1>3, <1>4, <1>5, <1>6, <1>7

(* A page span has finitely many objects in use. *)
LEMMA UsedFinite ==
  ASSUME NEW s, NEW C, NEW h, -s.header[h].Flag \in Bins
  PROVE  IsFiniteSet(UsedOf(s, C, h)) /\ Cardinality(UsedOf(s, C, h)) \in Nat
<1>1. UsedOf(s, C, h) \in SUBSET Objects(-s.header[h].Flag)
  BY DEF UsedOf
<1>2. IsFiniteSet(UsedOf(s, C, h))
  BY <1>1, ObjectsFinite, FS_Subset
<1> QED
  BY <1>2, FS_CardinalityType

(* A page with one object in use has one chunk. *)
LEMMA UsedAlone ==
  ASSUME NEW s, NEW C, Sound(s, C), NEW c \in C, NEW h, h = Home(s, c.ptr), s.header[h].Flag < 0,
         Strung(s, C, h), ~(s.header[h].nUsed > 1), NEW d \in C, Home(s, d.ptr) = h
  PROVE  d = c
<1> DEFINE U == UsedOf(s, C, h)
           o == c.ptr - PtrOf(h)
           q == d.ptr - PtrOf(h)
<1>1. -s.header[h].Flag \in Bins /\ o \in U /\ c.ptr = PtrOf(h) + o
  BY ChunkObject
<1>2. q \in U /\ d.ptr = PtrOf(h) + q
  BY ChunkObject
<1>3. IsFiniteSet(U) /\ Cardinality(U) \in Nat /\ ~(Cardinality(U) > 1)
  BY <1>1, UsedFinite DEF Strung
<1> HIDE DEF U, o, q
<1>4. IsFiniteSet(U \ {o}) /\ Cardinality(U \ {o}) = Cardinality(U) - 1
  BY <1>1, <1>3, FS_RemoveElement
<1>5. Cardinality(U \ {o}) \in Nat
  BY <1>4, FS_CardinalityType
<1>6. Cardinality(U \ {o}) = 0
  BY <1>3, <1>4, <1>5
<1>7. U \ {o} = {}
  BY <1>4, <1>6, FS_EmptySet
<1>8. q = o
  BY <1>2, <1>7
<1>9. d.ptr = c.ptr
  BY <1>1, <1>2, <1>8, Zenon
<1> QED
  BY <1>9 DEF Sound, Typed, Placed

(* A page span h leaves its bin. *)
Unhooked(s, u, h) ==
  /\ IsHeap(u) /\ Lists(u, {h})
  /\ u.pages = s.pages /\ u.span_list_ = s.span_list_
  /\ is_head_(u) = is_head_(s)
  /\ \A x \in is_head_(s) \ {h} :
       Kept(s, u, x) /\ (u.header[x].hNext = -1 <=> s.header[x].hNext = -1)

(* A page that is not the first of its bin has one before it, which
   LinkedNodeMerge links to the one after it. *)
LEMMA PageUnhooked ==
  ASSUME NEW s, InOrder(s), NEW h \in Spans(s), NEW b \in Bins, s.header[h].Flag = -b, s.bin_[b] # h,
         NEW u, u = LinkedNodeMerge(s, s.header[h].hPri, s.header[h].hNext)
  PROVE  s.header[h].hPri # 0 /\ Unhooked(s, u, h)
<1> DEFINE pri == s.header[h].hPri
           next == s.header[h].hNext
<1>0. IsHeap(s) /\ Tiled(s) /\ Lists(s, {}) /\ h \in is_head_(s)
  BY DEF InOrder, Spans
<1>1. -b \in Kinds /\ -b < 0 /\ First(s, -b) = s.bin_[b] /\ -(-b) = b
  BY BinKind, ClassCount
<1>2. s.header[h].hNext # -1 /\ h \in Members(s, {}, -b)
  <2>1. s.header[h].hNext # -1
    BY <1>0, <1>1, SpanCases
  <2> QED
    BY <1>0, <1>1, <2>1 DEF Members
<1>3. /\ pri # 0 /\ pri \in Links(s) /\ next \in Links(s) /\ next # -1
      /\ (pri # 0 => pri \in Members(s, {}, -b))
  BY <1>0, <1>1, <1>2, Listed
<1>4. u = LinkedNodeMerge(s, pri, next)
  OBVIOUS
<1> HIDE DEF pri, next
<1>5. /\ IsHeap(u)
      /\ u.pages = s.pages /\ u.span_list_ = s.span_list_
      /\ u.bin_ = s.bin_ /\ u.offset = s.offset
      /\ is_head_(u) = is_head_(s)
      /\ \A x \in is_head_(s) :
           /\ Kept(s, u, x)
           /\ u.header[x].hNext = IF x = pri THEN next ELSE s.header[x].hNext
           /\ u.header[x].hPri = IF x = next THEN pri ELSE s.header[x].hPri
  BY <1>0, <1>3, <1>4, LinkedNodeMergeIs, SMTT(30)
<1>6. Unlinked(s, u, h, -b)
  <2>1. \A j \in Kinds : First(u, j) = First(s, j)
    BY <1>5 DEF First
  <2>2. pri = s.header[h].hPri /\ next = s.header[h].hNext
    BY DEF pri, next
  <2> QED
    BY <1>1, <1>3, <1>5, <2>1, <2>2, Zenon DEF Unlinked, Kept
<1>7. Lists(u, {h})
  <2>1. 0 \notin is_head_(s)
    BY <1>0, HandleRange DEF IsHeap
  <2>2. is_head_(u) \cup {h} = is_head_(s) /\ {} \cup {h} = {h}
    BY <1>0, <1>5
  <2>3. Lists(u, {} \cup {h})
    BY <1>0, <1>1, <1>2, <1>6, <2>1, <2>2, ListsRemove
  <2> QED
    BY <2>2, <2>3
<1>8. \A x \in is_head_(s) \ {h} :
        Kept(s, u, x) /\ (u.header[x].hNext = -1 <=> s.header[x].hNext = -1)
  <2>1. s.header[pri].hNext # -1
    BY <1>3 DEF Members
  <2> QED
    BY <1>3, <1>5, <2>1
<1> QED
  BY <1>3, <1>5, <1>7, <1>8, Zenon DEF Unhooked, pri

(* Its header says that it is a span, and nothing is stored in its objects. *)
Cleared(u, v, h, n) ==
  /\ IsHeap(v)
  /\ v.pages = u.pages /\ v.span_list_ = u.span_list_ /\ v.bin_ = u.bin_
  /\ is_head_(v) = is_head_(u) /\ v.header[h].Flag = n
  /\ \A x \in is_head_(u) \ {h} : v.header[x] = u.header[x]

(* A page span out of its bin is a span in hand again. *)
LEMMA PageCleared ==
  ASSUME NEW s, InOrder(s), NEW h \in Spans(s), NEW b \in Bins, s.header[h].Flag = -b,
         NEW u, Unhooked(s, u, h), NEW v, Cleared(u, v, h, BinPages[b])
  PROVE  /\ InHand(v, h) /\ Untouched(s, v, {h})
         /\ Tiles(Spans(v), Lengths(v), v.pages) /\ v.pages = s.pages
<1> DEFINE n == BinPages[b]
<1>0. /\ IsHeap(s) /\ Tiled(s) /\ h \in is_head_(s) /\ is_head_(s) = Spans(s)
      /\ s.pages \in Nat /\ s.pages <= kPageTotal /\ s.span_list_[0] = 0
  BY DEF InOrder
<1>1. h \in is_head_(u) /\ Lists(u, {h})
  BY <1>0 DEF Unhooked
<1>2. n \in Nat /\ n >= 1
  BY ClassPages
<1>3. Lengths(s)[h] = n
  <2>1. -b < 0 /\ -(-b) = b
    BY ClassCount
  <2> QED
    BY <1>0, <2>1, SpanCases
<1> HIDE DEF n
<1>8. is_head_(v) = is_head_(u) /\ v.header[h].Flag = n /\ \A x \in is_head_(u) \ {h} : v.header[x] = u.header[x]
  BY DEF Cleared, n
<1>9. Lists(v, {h})
  <2>1. \A k \in Kinds : First(v, k) = First(u, k)
    BY DEF Cleared, First
  <2>2. is_head_(v) \ {h} = is_head_(u) \ {h}
    BY <1>8
  <2> QED
    BY <1>1, <1>8, <2>1, <2>2, ListsHand
<1>10. v.pages = s.pages /\ is_head_(v) = is_head_(s) /\ Spans(v) = Spans(s) /\ v.span_list_[0] = 0
  BY <1>0, <1>8 DEF Spans, Unhooked, Cleared
<1>11. \A x \in is_head_(s) \ {h} :
         Kept(s, v, x) /\ (v.header[x].hNext = -1 <=> s.header[x].hNext = -1)
  BY <1>8 DEF Kept, Unhooked
<1>12. Tiles(Spans(v), Lengths(v), v.pages)
  <2>1. Tiles(Spans(s), Lengths(s), s.pages)
    BY <1>0 DEF Tiled
  <2>2. Lengths(v)[h] = n
    BY <1>0, <1>2, <1>8, <1>10 DEF Lengths, Pages
  <2>3. ASSUME NEW x \in Spans(s), x # h PROVE Lengths(v)[x] = Lengths(s)[x]
    <3>1. x \in is_head_(s) /\ x \in is_head_(v) /\ v.header[x].Flag = s.header[x].Flag
      BY <1>0, <1>10, <1>11, <2>3 DEF Kept
    <3> QED
      BY <3>1, LenSame
  <2>4. Tiles(Spans(s), Lengths(v), s.pages)
    BY <1>3, <2>1, <2>2, <2>3, TilesSame
  <2> QED
    BY <1>10, <2>4
<1>13. Shaped(v, {h})
  BY <1>0, <1>10, <1>11 DEF Tiled, Shaped, Kept
<1>14. InHand(v, h)
  BY <1>0, <1>9, <1>10, <1>13 DEF InHand, Cleared
<1>15. Untouched(s, v, {h})
  BY <1>10, <1>11 DEF Untouched, InUse, Kept
<1> QED
  BY <1>10, <1>12, <1>14, <1>15

(* Free of the last object of a page that returns its span keeps the invariant. *)
LEMMA FreePageKeeps ==
  ASSUME ArenaInv, GoesOn, NEW c \in chunks, FreePage(c)
  PROVE  ArenaInv'
<1> DEFINE h == Home(heap, c.ptr)
           b == -heap.header[h].Flag
           t == heap'
           D == chunks'
           u == LinkedNodeMerge(heap, heap.header[h].hPri, heap.header[h].hNext)
           inside == {x \in DOMAIN heap.offset : Home(heap, x) = h}
           f == Restrict(heap.offset, DOMAIN heap.offset \ inside)
           r == Span(BinPages[b], 0)
           v == [u EXCEPT !.header[h] = r, !.offset = f]
<1>0. Sound(heap, chunks) /\ InOrder(heap) /\ Filled(heap, chunks, upset) /\ ~(heap.pages < Constructed)
  BY DEF ArenaInv, GoesOn, Broken
<1>1. IsHeap(heap) /\ heap.pages \in Nat /\ Tiled(heap) /\ is_head_(heap) = Spans(heap)
  BY <1>0 DEF InOrder
<1>2. heap.header[h].Flag < 0 /\ D = chunks \ {c} /\ upset' = upset
  BY Zenon DEF FreePage, Home
<1>3. ~(heap.header[h].nUsed > 1) /\ heap.bin_[b] # h
  BY Zenon DEF FreePage, Home, Stays
<1>4. h \in Spans(heap) /\ b \in Bins /\ heap.header[h].Flag = -b
  <2>1. h \in Spans(heap) /\ b \in Bins
    BY <1>0, <1>2, ChunkObject
  <2>2. heap.header[h].Flag \in Int
    BY <1>1, <2>1, SpanCases, Zenon
  <2> QED
    BY <2>1, <2>2
<1>5. heap.header[h].hPri # 0 => t = FreeSpan(v, h)
  <2> SUFFICES ASSUME heap.header[h].hPri # 0 PROVE t = FreeSpan(v, h)
    OBVIOUS
  <2>1. u.offset = heap.offset
    <3>1. heap.header[h].hPri \in Links(heap) /\ heap.header[h].hNext \in Links(heap)
      <4>1. -b \in Kinds /\ -b < 0
        BY <1>4, BinKind
      <4>2. h \in Members(heap, {}, -b)
        <5>1. heap.header[h].hNext # -1
          BY <1>1, <1>2, <1>4, SpanCases
        <5> QED
          BY <1>1, <1>4, <5>1 DEF Members
      <4> QED
        BY <1>0, <4>1, <4>2, Listed DEF InOrder
    <3> QED
      BY <1>1, <3>1, LinkedNodeMergeIs
  <2> QED
    BY <2>1 DEF FreePage, Home
<1> HIDE DEF t, D, b, u, f, h
<1>6. heap.header[h].hPri # 0 /\ Unhooked(heap, u, h)
  BY <1>0, <1>3, <1>4, PageUnhooked DEF u
<1>7. t = FreeSpan(v, h)
  BY <1>5, <1>6
<1> DEFINE w == [u EXCEPT !.header[h] = r]
<1>80. v.offset = f /\ Cleared(u, v, h, BinPages[b])
  <2>1. v = [w EXCEPT !.offset = f]
    OBVIOUS
  <2>2. IsHeap(u) /\ h \in is_head_(u)
    BY <1>1, <1>4, <1>6 DEF Unhooked
  <2>3. r \in Header /\ r.Flag = BinPages[b]
    BY <1>4, ClassPages DEF Span, Header, Refs
  <2> HIDE DEF r
  <2>4. /\ IsHeap(w)
        /\ w.pages = u.pages /\ w.span_list_ = u.span_list_
        /\ is_head_(w) = is_head_(u) /\ w.header[h] = r /\ w.bin_ = u.bin_
        /\ \A x \in is_head_(u) \ {h} : w.header[x] = u.header[x]
    BY <2>2, <2>3, WithRecord
  <2> HIDE DEF w
  <2>5. /\ IsHeap(v)
        /\ v.header = w.header /\ v.pages = w.pages
        /\ v.span_list_ = w.span_list_
        /\ v.bin_ = w.bin_ /\ v.offset = f
    <3> DEFINE z == [w EXCEPT !.offset = f]
    <3>1. /\ IsHeap(z)
          /\ z.header = w.header /\ z.pages = w.pages
          /\ z.span_list_ = w.span_list_
          /\ z.bin_ = w.bin_ /\ z.offset = f
      BY <2>4, WithOffset
    <3> HIDE DEF z, v
    <3>2. v = z
      BY <2>1 DEF z
    <3> QED
      BY <3>1, <3>2
  <2> HIDE DEF v
  <2>6. is_head_(v) = is_head_(w)
    BY <2>5 DEF is_head_
  <2> QED
    BY <2>3, <2>4, <2>5, <2>6 DEF Cleared
<1> HIDE DEF v
<1>8. /\ InHand(v, h) /\ Untouched(heap, v, {h}) /\ v.header[h].Flag = BinPages[b]
      /\ Tiles(Spans(v), Lengths(v), v.pages) /\ v.pages = heap.pages /\ v.offset = f
  <2>1. Unhooked(heap, u, h)
    BY <1>6
  <2>2. /\ InHand(v, h) /\ Untouched(heap, v, {h})
        /\ Tiles(Spans(v), Lengths(v), v.pages) /\ v.pages = heap.pages
    BY <1>0, <1>4, <1>80, <2>1, PageCleared
  <2> QED
    BY <1>80, <2>2 DEF Cleared
<1>9. v.header[h].Flag \in 1 .. kSpanSlotSize
  BY <1>4, <1>8, ClassPages, PagesAssumption
<1>10. Freed(v, t, h)
  BY <1>7, <1>8, <1>9, FreeSpanIs
<1>11. InOrder(t) /\ Untouched(heap, t, {h}) /\ ~InUse(t, h) /\ t.pages = heap.pages /\ t.offset = f
  <2>1. Untouched(v, t, {h})
    BY <1>10 DEF Freed
  <2>2. Untouched(heap, t, {h})
    BY <1>8, <2>1, UntouchedTrans
  <2> QED
    BY <1>8, <1>10, <2>2 DEF Freed
<1>12. ASSUME NEW d \in D PROVE Home(heap, d.ptr) # h
  <2>1. d \in chunks /\ d # c
    BY <1>2
  <2>2. Strung(heap, chunks, h)
    BY <1>0, <1>2, <1>4 DEF Filled, Whole
  <2> QED
    BY <1>0, <1>2, <1>3, <2>1, <2>2, UsedAlone DEF h
<1>13. /\ \A p : p \in DOMAIN f <=> p \in DOMAIN heap.offset /\ Home(heap, p) # h
       /\ \A p \in DOMAIN f : f[p] = heap.offset[p]
  <2>1. /\ \A p : p \in DOMAIN f <=> p \in DOMAIN heap.offset /\ p \notin inside
        /\ \A p \in DOMAIN f : f[p] = heap.offset[p]
    <3> HIDE DEF inside
    <3>1. f = [p \in DOMAIN heap.offset \ inside |-> heap.offset[p]]
      BY DEF f, Restrict
    <3> QED
      BY <3>1
  <2> QED
    BY <2>1
<1>14. Sound(t, D) /\ Filled(t, D, upset)
  <2>1. h = Home(heap, c.ptr)
    BY DEF h
  <2>2. InOrder(t) /\ Untouched(heap, t, {h}) /\ ~InUse(t, h) /\ t.pages = heap.pages
    BY <1>11
  <2>3. \A p : p \in DOMAIN t.offset <=> p \in DOMAIN heap.offset /\ Home(heap, p) # h
    BY <1>11, <1>13
  <2>4. \A p \in DOMAIN t.offset : t.offset[p] = heap.offset[p]
    BY <1>11, <1>13
  <2> QED
    BY <1>0, <1>2, <1>12, <2>1, <2>2, <2>3, <2>4, SpanFreed
<1>15. heap.pages >= Constructed
  BY <1>0, <1>1, ConstructedIs
<1> QED
  BY <1>1, <1>2, <1>11, <1>14, <1>15, AfterInit DEF t, D, ArenaInv

-----------------------------------------------------------------------------
(* Arena: objects that are handed out and freed *)

(* The chain of free objects: its first leaves, another comes first. *)
LEMMA ChainFirst ==
  ASSUME NEW first, NEW S, NEW next, Chain(first, S, next), first # 0
  PROVE  first \in S
BY DEF Chain, List

(* An object that is freed is the first of the chain. *)
LEMMA ChainPush ==
  ASSUME NEW first, NEW S, NEW next, Chain(first, S, next), NEW x, x \notin S, x # 0,
         NEW next2, next2[x] = first, \A y \in S : next2[y] = next[y]
  PROVE  Chain(x, S \cup {x}, next2)
<1>1. PICK pri \in [S -> S \cup {0}] : List(first, S, next, pri)
  BY DEF Chain
<1> DEFINE pri2 == [y \in S \cup {x} |-> IF y = x THEN 0 ELSE IF y = first THEN x ELSE pri[y]]
<1>2. pri2 \in [S \cup {x} -> (S \cup {x}) \cup {0}]
  BY <1>1
<1>3. pri2[x] = 0 /\ \A y \in S : pri2[y] = IF y = first THEN x ELSE pri[y]
  OBVIOUS
<1> HIDE DEF pri2
<1>4. List(x, S \cup {x}, next2, pri2)
  BY <1>1, <1>3, ListPush
<1> QED
  BY <1>2, <1>4 DEF Chain

(* The rest of a chain, behind its first object. *)
LEMMA ChainPop ==
  ASSUME NEW first, NEW S, NEW next, Chain(first, S, next), first # 0,
         NEW next2, \A y \in S \ {first} : next2[y] = next[y]
  PROVE  Chain(next[first], S \ {first}, next2)
<1>1. PICK pri \in [S -> S \cup {0}] : List(first, S, next, pri)
  BY DEF Chain
<1>2. first \in S /\ pri[first] = 0
  BY <1>1 DEF List
<1> DEFINE pri2 == [y \in S \ {first} |-> IF y = next[first] THEN 0 ELSE pri[y]]
<1>3. pri2 \in [S \ {first} -> (S \ {first}) \cup {0}]
  <2> SUFFICES ASSUME NEW y \in S \ {first}, y # next[first] PROVE pri[y] \in (S \ {first}) \cup {0}
    OBVIOUS
  <2> QED
    BY <1>1 DEF List
<1>4. ASSUME NEW y \in S \ {first}
      PROVE  /\ next2[y] = IF y = pri[first] THEN next[first] ELSE next[y]
             /\ pri2[y] = IF y = next[first] THEN pri[first] ELSE pri[y]
  <2>1. y # 0
    BY <1>1 DEF List
  <2> QED
    BY <1>2, <2>1
<1> HIDE DEF pri2
<1>5. List(next[first], S \ {first}, next2, pri2)
  <2>1. \A y \in S \ {first} :
          /\ next2[y] = IF y = pri[first] THEN next[first] ELSE next[y]
          /\ pri2[y] = IF y = next[first] THEN pri[first] ELSE pri[y]
    BY <1>4
  <2>2. PICK first2 : first2 = IF pri[first] = 0 THEN next[first] ELSE first
    OBVIOUS
  <2>3. List(first2, S \ {first}, next2, pri2)
    BY <1>1, <1>2, <2>1, <2>2, ListRemove
  <2> QED
    BY <1>2, <2>2, <2>3
<1> QED
  BY <1>3, <1>5 DEF Chain

(* A chain whose first object stores 0 has no other. *)
LEMMA ChainEnd ==
  ASSUME NEW first, NEW S, NEW next, Chain(first, S, next), first # 0, next[first] = 0
  PROVE  S = {first}
<1>1. PICK pri : List(first, S, next, pri)
  BY DEF Chain
<1>2. first \in S
  BY <1>1 DEF List
<1> SUFFICES ASSUME S \ {first} # {} PROVE FALSE
  BY <1>2
<1>3. PICK x \in S \ {first} : pri[x] \notin S \ {first}
  BY <1>1 DEF List
<1> QED
  BY <1>1, <1>3 DEF List

(* Only counts and links change, no span becomes another. *)
Steady(s, t, h) ==
  /\ IsHeap(t) /\ is_head_(t) = is_head_(s) /\ t.pages = s.pages
  /\ \A x \in is_head_(s) : /\ t.header[x].Flag = s.header[x].Flag
                            /\ t.header[x].hNext = -1 <=> s.header[x].hNext = -1
  /\ \A x \in is_head_(s) \ {h} : Kept(s, t, x)

(* A step that changes only counts and links keeps the shape of the heap. *)
LEMMA SteadyIs ==
  ASSUME NEW s, NEW C, Sound(s, C), NEW t, NEW h, Steady(s, t, h)
  PROVE  /\ IsHeap(t) /\ Tiled(t) /\ Untouched(s, t, {h}) /\ Spans(t) = Spans(s)
         /\ \A x \in is_head_(t) : -39 <= t.header[x].Flag /\ t.header[x].Flag <= kSpanSlotSize
         /\ \A D \in SUBSET C : Placed(t, D)
         /\ \A p : Home(t, p) = Home(s, p)
         /\ \A p : InPage(s, p) => InPage(t, p)
<1>1. Spans(t) = Spans(s) /\ is_head_(t) = is_head_(s) /\ t.pages = s.pages
  BY DEF Spans, Steady
<1>2. Tiles(Spans(s), Lengths(s), s.pages) /\ Shaped(s, {})
  BY DEF Sound, Typed, Tiled
<1>3. Tiled(t)
  <2>1. ASSUME NEW x \in Spans(s) PROVE Lengths(t)[x] = Lengths(s)[x]
    <3>1. x \in is_head_(s) /\ x \in is_head_(t) /\ t.header[x].Flag = s.header[x].Flag
      BY <1>1 DEF Spans, Steady
    <3> QED
      BY <3>1, LenSame
  <2>2. Tiles(Spans(s), Lengths(t), s.pages)
    BY <1>2, <2>1, TilesSame
  <2>3. Shaped(t, {})
    BY <1>1, <1>2 DEF Shaped, Steady, Spans
  <2> QED
    BY <1>1, <2>2, <2>3 DEF Tiled
<1>4. Untouched(s, t, {h})
  BY DEF Untouched, Steady, InUse
<1>5. \A x \in is_head_(t) : -39 <= t.header[x].Flag /\ t.header[x].Flag <= kSpanSlotSize
  BY DEF Steady, Sound, Typed
<1>6. ASSUME NEW D \in SUBSET C PROVE Placed(t, D)
  <2>1. ASSUME NEW c, NEW x \in Spans(s), Fits(s, c, x) PROVE Fits(t, c, x)
    <3>1. x \in is_head_(s)
      BY DEF Spans
    <3> QED
      BY <2>1, <3>1 DEF Fits, Steady
  <2> QED
    BY <1>1, <2>1 DEF Sound, Typed, Placed
<1>7. \A p : Home(t, p) = Home(s, p)
  BY <1>1 DEF Home, SpanHandleOf
<1>8. \A p : InPage(s, p) => InPage(t, p)
  BY <1>1 DEF InPage, Steady, Spans
<1> QED
  BY <1>1, <1>3, <1>4, <1>5, <1>6, <1>7, <1>8 DEF Steady

(* Such a step keeps the pages filled when the page it is about stays so. *)
LEMMA SteadyFilled ==
  ASSUME NEW s, NEW C, NEW up, Sound(s, C), InOrder(s), Filled(s, C, up), NEW t, NEW h \in Spans(s), Steady(s, t, h),
         s.header[h].Flag < 0, NEW D, \A p \in Nat : Home(s, p) # h => Aside(s, C, t, D, p), Whole(t, D, h, up),
         \A p \in DOMAIN t.offset : InPage(s, p)
  PROVE  Filled(t, D, up)
<1>1. IsHeap(s) /\ Tiled(s) /\ s.pages \in Nat /\ is_head_(s) = Spans(s) /\ t.pages = s.pages
  BY DEF InOrder, Steady
<1>2. IsHeap(t) /\ Tiled(t) /\ Untouched(s, t, {h}) /\ Spans(t) = Spans(s) /\ \A p : InPage(s, p) => InPage(t, p)
  BY SteadyIs
<1>3. t.pages \in Nat /\ s.pages <= t.pages
  BY <1>1
<1>4. Others(t, D, h, up)
  BY <1>1, <1>2, <1>3, FilledElsewhere
<1>5. t.header[h].hNext # -1
  <2>1. h \in is_head_(s) /\ s.header[h].hNext # -1
    BY <1>1, SpanCases
  <2> QED
    BY <2>1 DEF Steady
<1> QED
  BY <1>2, <1>4, <1>5 DEF Filled, Others

(* A chunk of a page span is freed: its object comes first in the chain. *)
LEMMA CutFreed ==
  ASSUME NEW s, NEW C, NEW h, NEW b \in Bins, s.header[h].Flag = -b, Cut(s, C, h), s.header[h].nUsed \in Nat,
         NEW c \in C, NEW o, o \in UsedOf(s, C, h), c.ptr = PtrOf(h) + o, PtrOf(h) \in Int,
         \A d \in C : d.ptr = c.ptr => d = c,
         NEW D, D = C \ {c}, NEW t, t.header[h].Flag = -b, t.header[h].nUsed = s.header[h].nUsed - 1,
         t.header[h].oFree = o, DOMAIN t.offset = DOMAIN s.offset \cup {c.ptr}, t.offset[c.ptr] = s.header[h].oFree,
         \A p \in DOMAIN s.offset \ {c.ptr} : t.offset[p] = s.offset[p]
  PROVE  Cut(t, D, h) /\ t.header[h].nUsed \in Nat
<1> DEFINE U == UsedOf(s, C, h)
           F == FreeOf(s, h)
           f == [x \in F |-> s.offset[PtrOf(h) + x]]
           g == [x \in F \cup {o} |-> t.offset[PtrOf(h) + x]]
<1>0. -s.header[h].Flag = b /\ -t.header[h].Flag = b
  BY ClassCount
<1>1. \A x \in Objects(b) : x \in Nat /\ x >= 16
  BY ObjectsApart
<1>2. U \subseteq Objects(b) /\ F \subseteq Objects(b) /\ o \in Objects(b) /\ o \in Nat /\ o # 0
  BY <1>0, <1>1 DEF UsedOf, FreeOf
<1>3. \A x \in Objects(b) : PtrOf(h) + x = c.ptr <=> x = o
  BY <1>1, <1>2
<1>4. UsedOf(t, D, h) = U \ {o}
  BY <1>0, <1>3 DEF UsedOf
<1>5. FreeOf(t, h) = F \cup {o}
  BY <1>0, <1>2, <1>3 DEF FreeOf
<1>6. o \notin F /\ U \cap F = {}
  BY DEF Cut
<1>7. \A x \in F : t.offset[PtrOf(h) + x] = s.offset[PtrOf(h) + x]
  <2> SUFFICES ASSUME NEW x \in F PROVE t.offset[PtrOf(h) + x] = s.offset[PtrOf(h) + x]
    OBVIOUS
  <2>1. PtrOf(h) + x \in DOMAIN s.offset /\ x \in Objects(b) /\ x # o
    BY <1>2, <1>6 DEF FreeOf
  <2> QED
    BY <1>3, <2>1
<1>8. Chain(o, F \cup {o}, g)
  <2>1. Chain(s.header[h].oFree, F, f)
    BY DEF Cut
  <2>2. g[o] = s.header[h].oFree /\ \A y \in F : g[y] = f[y]
    BY <1>7
  <2> HIDE DEF f, g, F
  <2> QED
    BY <1>2, <1>6, <2>1, <2>2, ChainPush
<1>9. s.header[h].nUsed - 1 = Cardinality(U \ {o}) /\ s.header[h].nUsed - 1 \in Nat
  <2>1. IsFiniteSet(U)
    BY <1>0, UsedFinite
  <2>2. IsFiniteSet(U \ {o}) /\ Cardinality(U \ {o}) = Cardinality(U) - 1
    BY <2>1, FS_RemoveElement
  <2>3. Cardinality(U \ {o}) \in Nat
    BY <2>2, FS_CardinalityType
  <2> QED
    BY <2>2, <2>3 DEF Cut
<1>10. Fresh(t, h, U \ {o}, F \cup {o})
  <2>1. Fresh(s, h, U, F)
    BY DEF Cut
  <2>2. (U \ {o}) \cup (F \cup {o}) = U \cup F
    OBVIOUS
  <2> HIDE DEF U, F
  <2> QED
    BY <1>0, <1>7, <2>1, <2>2 DEF Fresh
<1>11. (U \ {o}) \cap (F \cup {o}) = {}
  BY <1>6
<1> QED
  BY <1>4, <1>5, <1>8, <1>9, <1>10, <1>11 DEF Cut

(* The free list leads to it, and from it where it led before. *)
LEMMA StrungFreed ==
  ASSUME NEW s, NEW C, NEW h, NEW b \in Bins, s.header[h].Flag = -b, Strung(s, C, h),
         NEW c \in C, NEW o, o \in UsedOf(s, C, h), c.ptr = PtrOf(h) + o, PtrOf(h) \in Int,
         \A d \in C : d.ptr = c.ptr => d = c,
         NEW D, D = C \ {c}, NEW t, t.header[h].Flag = -b, t.header[h].nUsed = s.header[h].nUsed - 1,
         t.header[h].oFree = o, DOMAIN t.offset = DOMAIN s.offset \cup {c.ptr}, t.offset[c.ptr] = s.header[h].oFree,
         \A p \in DOMAIN s.offset \ {c.ptr} : t.offset[p] = s.offset[p]
  PROVE  Strung(t, D, h)
<1> DEFINE U == UsedOf(s, C, h)
           F == FreeOf(s, h)
<1>0. -s.header[h].Flag = b /\ -t.header[h].Flag = b
  BY ClassCount
<1>1. \A x \in Objects(b) : x \in Nat /\ x >= 16
  BY ObjectsApart
<1>2. U \subseteq Objects(b) /\ F \subseteq Objects(b) /\ o \in Objects(b) /\ o \in Nat
  BY <1>0, <1>1 DEF UsedOf, FreeOf
<1>3. \A x \in Objects(b) : PtrOf(h) + x = c.ptr <=> x = o
  BY <1>1, <1>2
<1>4. UsedOf(t, D, h) = U \ {o}
  BY <1>0, <1>3 DEF UsedOf
<1>5. FreeOf(t, h) = F \cup {o}
  BY <1>0, <1>2, <1>3 DEF FreeOf
<1>6. Known(t, D, h) = Known(s, C, h)
  BY <1>4, <1>5 DEF Known
<1>7. ASSUME NEW x \in F \cup {o} PROVE t.offset[PtrOf(h) + x] \in Known(s, C, h)
  <2>1. CASE x = o
    BY <2>1 DEF Strung
  <2>2. CASE x # o
    <3>1. x \in F /\ PtrOf(h) + x \in DOMAIN s.offset /\ PtrOf(h) + x # c.ptr
      BY <1>2, <1>3, <2>2 DEF FreeOf
    <3> QED
      BY <3>1 DEF Strung
  <2> QED
    BY <2>1, <2>2
<1>8. s.header[h].nUsed - 1 = Cardinality(U \ {o})
  <2>1. IsFiniteSet(U)
    BY <1>0, UsedFinite
  <2>2. Cardinality(U \ {o}) = Cardinality(U) - 1
    BY <2>1, FS_RemoveElement
  <2> QED
    BY <2>2 DEF Strung
<1>9. o \in Known(s, C, h)
  BY DEF Known
<1> QED
  BY <1>4, <1>5, <1>6, <1>7, <1>8, <1>9 DEF Strung

-----------------------------------------------------------------------------

(* The counts of the page h are others, and what the free objects store. *)
Counted(s, t, h, k, o, f) ==
  /\ IsHeap(t)
  /\ t.pages = s.pages /\ t.span_list_ = s.span_list_ /\ t.bin_ = s.bin_ /\ t.offset = f
  /\ is_head_(t) = is_head_(s)
  /\ t.header[h].Flag = s.header[h].Flag /\ t.header[h].hNext = s.header[h].hNext
  /\ t.header[h].hPri = s.header[h].hPri /\ t.header[h].nUsed = k /\ t.header[h].oFree = o
  /\ \A x \in is_head_(s) \ {h} : t.header[x] = s.header[x]

(* What new counts of a page change. *)
LEMMA CountedIs ==
  ASSUME NEW s, IsHeap(s), NEW h \in is_head_(s), NEW k \in Nat, NEW o \in Nat, NEW f,
         NEW t, t = [s EXCEPT !.header[h].nUsed = k, !.header[h].oFree = o, !.offset = f]
  PROVE  Counted(s, t, h, k, o, f)
<1> DEFINE r == [s.header[h] EXCEPT !.nUsed = k, !.oFree = o]
           w == [s EXCEPT !.header[h] = r]
           z == [w EXCEPT !.offset = f]
<1>1. t = z
  <2>1. t = [[s EXCEPT !.header[h].nUsed = k, !.header[h].oFree = o] EXCEPT !.offset = f]
    OBVIOUS
  <2>2. [s EXCEPT !.header[h].nUsed = k, !.header[h].oFree = o] = w
    BY DEF IsHeap, is_head_
  <2> QED
    BY <2>1, <2>2, Zenon
<1>2. /\ r \in Header /\ r.nUsed = k /\ r.oFree = o /\ r.Flag = s.header[h].Flag
      /\ r.hNext = s.header[h].hNext /\ r.hPri = s.header[h].hPri
  <2>1. s.header[h] \in Header
    BY DEF IsHeap
  <2>2. PICK q \in Header : q = s.header[h]
    BY <2>1
  <2>3. r = [q EXCEPT !.nUsed = k, !.oFree = o]
    BY <2>2
  <2> HIDE DEF r
  <2>4. /\ r \in Header /\ r.nUsed = k /\ r.oFree = o /\ r.Flag = q.Flag
        /\ r.hNext = q.hNext /\ r.hPri = q.hPri
    <3>1. q = [Flag |-> q.Flag, hPri |-> q.hPri, hNext |-> q.hNext, oFree |-> q.oFree, nUsed |-> q.nUsed]
      BY DEF Header
    <3>2. r = [Flag |-> q.Flag, hPri |-> q.hPri, hNext |-> q.hNext, oFree |-> o, nUsed |-> k]
      BY <2>3, <3>1
    <3> QED
      BY <3>2 DEF Header
  <2> QED
    BY <2>2, <2>4
<1> HIDE DEF r
<1>3. /\ IsHeap(w)
      /\ w.pages = s.pages /\ w.span_list_ = s.span_list_ /\ w.bin_ = s.bin_ /\ w.offset = s.offset
      /\ is_head_(w) = is_head_(s) /\ w.header[h] = r
      /\ \A x \in is_head_(s) \ {h} : w.header[x] = s.header[x]
  BY <1>2, WithRecord
<1> HIDE DEF w
<1>4. /\ IsHeap(z) /\ z.header = w.header /\ z.pages = w.pages
      /\ z.span_list_ = w.span_list_ /\ z.bin_ = w.bin_ /\ z.offset = f
  BY <1>3, WithOffset
<1> HIDE DEF z
<1>5. is_head_(z) = is_head_(w)
  BY <1>4 DEF is_head_
<1>6. Counted(s, z, h, k, o, f)
  BY <1>2, <1>3, <1>4, <1>5 DEF Counted
<1> QED
  BY <1>1, <1>6

(* That leaves the spans as they are. *)
LEMMA CountedSteady ==
  ASSUME NEW s, NEW t, NEW h, NEW k, NEW o, NEW f, Counted(s, t, h, k, o, f)
  PROVE  /\ Steady(s, t, h)
         /\ Lists(s, {}) => Lists(t, {})
<1>1. Steady(s, t, h)
  BY DEF Counted, Steady, Kept
<1>2. ASSUME Lists(s, {}) PROVE Lists(t, {})
  <2> SUFFICES ASSUME NEW j \in Kinds
               PROVE  List(First(t, j), Members(t, {}, j), Nx(t), Pr(t))
    BY DEF Lists
  <2>1. List(First(s, j), Members(s, {}, j), Nx(s), Pr(s))
    BY <1>2 DEF Lists
  <2>2. First(t, j) = First(s, j)
    BY DEF Counted, First
  <2>3. \A x \in is_head_(s) : /\ t.header[x].Flag = s.header[x].Flag
                               /\ t.header[x].hNext = s.header[x].hNext
                               /\ t.header[x].hPri = s.header[x].hPri
    BY DEF Counted
  <2>4. is_head_(t) = is_head_(s)
    BY DEF Counted
  <2>5. Members(t, {}, j) = Members(s, {}, j)
    BY <2>3, <2>4 DEF Members
  <2>6. Nx(t) = Nx(s) /\ Pr(t) = Pr(s)
    BY <2>3, <2>4 DEF Nx, Pr
  <2> QED
    BY <2>1, <2>2, <2>5, <2>6
<1> QED
  BY <1>1, <1>2

(* The second member of a list of two comes first. *)
LEMMA ListSwap ==
  ASSUME NEW first, NEW S, NEW next, NEW pri, List(first, S, next, pri), first # 0,
         NEW h \in S, pri[h] = first, next[h] = 0, NEW next2, NEW pri2,
         next2[h] = first, pri2[h] = 0, next2[first] = 0, pri2[first] = h
  PROVE  List(h, S, next2, pri2)
<1>0. first \in S /\ pri[first] = 0 /\ h # first /\ 0 \notin S
  BY DEF List
<1>1. S = {first, h}
  <2> SUFFICES ASSUME S \ {first, h} # {} PROVE FALSE
    BY <1>0
  <2>1. PICK x \in S \ {first, h} : pri[x] \notin S \ {first, h}
    BY DEF List
  <2>2. IF pri[x] = 0 THEN x = first ELSE pri[x] \in S /\ next[pri[x]] = x
    BY DEF List
  <2>3. next[first] = h
    BY <1>0 DEF List
  <2> QED
    BY <1>0, <2>1, <2>2, <2>3
<1>2. ASSUME NEW T \in SUBSET S, T # {} PROVE \E x \in T : pri2[x] \notin T
  BY <1>0, <1>1, <1>2
<1> QED
  BY <1>0, <1>1, <1>2 DEF List

(* What ToFront changes: h comes first, and the first one is where h was. *)
Reordered(s, t, h, b) ==
  LET first == s.bin_[b]
      next == s.header[h].hNext
  IN  /\ IsHeap(t) /\ is_head_(t) = is_head_(s)
      /\ t.pages = s.pages /\ t.span_list_ = s.span_list_ /\ t.offset = s.offset
      /\ t.bin_ = [s.bin_ EXCEPT ![b] = h]
      /\ \A x \in is_head_(s) :
           /\ Kept(s, t, x)
           /\ t.header[x].hNext = IF x = h THEN first ELSE IF x = first THEN next ELSE s.header[x].hNext
           /\ t.header[x].hPri = IF x = h THEN 0 ELSE IF x = next THEN next
                                 ELSE IF x = first THEN h ELSE s.header[x].hPri

(* What ToFront changes: the first page of the bin and the page h change places. *)
LEMMA ToFrontIs ==
  ASSUME NEW s, IsHeap(s), NEW b \in Bins, NEW h \in is_head_(s), s.bin_[b] \in is_head_(s), s.bin_[b] # h,
         s.header[h].hNext \in Links(s), s.header[h].hNext # h, NEW t, t = ToFront(s, h, b)
  PROVE  Reordered(s, t, h, b)
<1> DEFINE first == s.bin_[b]
           next == s.header[h].hNext
           r1 == [s.header[first] EXCEPT !.hPri = h, !.hNext = next]
           s1 == [s EXCEPT !.header[first] = r1]
           s2 == SetPri(s1, next, next)
           r2 == [s2.header[h] EXCEPT !.hPri = 0, !.hNext = first]
           s3 == [s2 EXCEPT !.header[h] = r2]
           s4 == [s3 EXCEPT !.bin_[b] = h]
<1>0. h \in Refs /\ first \in Refs /\ next \in Refs /\ first \in is_head_(s) /\ first # h /\ 0 \in Refs
      /\ next \in Links(s) /\ next # h
  BY DEF IsHeap, Refs, Links
<1>1. s2 = SetPri([s EXCEPT !.header[first].hPri = h, !.header[first].hNext = next], next, next)
  <2>1. s1 = [s EXCEPT !.header[first].hPri = h, !.header[first].hNext = next]
    BY <1>0, Zenon DEF IsHeap, is_head_
  <2> QED
    BY <2>1, Zenon
<1>2. t = [s2 EXCEPT !.header[h].hNext = first, !.header[h].hPri = 0, !.bin_[b] = h]
  BY <1>1, Zenon DEF ToFront
<1> HIDE DEF first, next
<1>3. /\ r1 \in Header /\ r1.hPri = h /\ r1.hNext = next
      /\ r1.Flag = s.header[first].Flag /\ r1.oFree = s.header[first].oFree /\ r1.nUsed = s.header[first].nUsed
  <2>1. s.header[first] \in Header
    BY <1>0 DEF IsHeap
  <2>2. PICK q \in Header : q = s.header[first]
    BY <2>1
  <2>3. r1 = [q EXCEPT !.hPri = h, !.hNext = next]
    BY <2>2
  <2> HIDE DEF r1
  <2>4. q = [Flag |-> q.Flag, hPri |-> q.hPri, hNext |-> q.hNext, oFree |-> q.oFree, nUsed |-> q.nUsed]
    BY DEF Header
  <2>5. r1 = [Flag |-> q.Flag, hPri |-> h, hNext |-> next, oFree |-> q.oFree, nUsed |-> q.nUsed]
    BY <2>3, <2>4
  <2>6. r1 \in Header
    BY <1>0, <2>5 DEF Header, Refs
  <2> QED
    BY <2>2, <2>5, <2>6
<1> HIDE DEF r1
<1>4. /\ IsHeap(s1)
      /\ s1.pages = s.pages /\ s1.span_list_ = s.span_list_ /\ s1.bin_ = s.bin_ /\ s1.offset = s.offset
      /\ is_head_(s1) = is_head_(s) /\ s1.header[first] = r1
      /\ \A x \in is_head_(s) \ {first} : s1.header[x] = s.header[x]
  BY <1>0, <1>3, WithRecord
<1> HIDE DEF s1
<1>5. next \in Links(s1)
  BY <1>0, <1>4 DEF Links
<1>6. /\ IsHeap(s2)
      /\ s2.pages = s1.pages /\ s2.span_list_ = s1.span_list_ /\ s2.bin_ = s1.bin_ /\ s2.offset = s1.offset
      /\ is_head_(s2) = is_head_(s1)
      /\ \A x \in is_head_(s1) :
           /\ Kept(s1, s2, x)
           /\ s2.header[x].hNext = s1.header[x].hNext
           /\ s2.header[x].hPri = IF x = next THEN next ELSE s1.header[x].hPri
  BY <1>0, <1>4, <1>5, SetPriIs
<1> HIDE DEF s2
<1>7. t = s4
  <2>1. h \in is_head_(s2)
    BY <1>4, <1>6
  <2>2. [s2 EXCEPT !.header[h].hNext = first, !.header[h].hPri = 0] = s3
    BY <1>6, <2>1, ZenonT(30) DEF IsHeap, is_head_
  <2>3. t = [[s2 EXCEPT !.header[h].hNext = first, !.header[h].hPri = 0] EXCEPT !.bin_[b] = h]
    BY <1>2
  <2> QED
    BY <2>2, <2>3, Zenon
<1>8. /\ r2 \in Header /\ r2.hPri = 0 /\ r2.hNext = first
      /\ r2.Flag = s2.header[h].Flag /\ r2.oFree = s2.header[h].oFree /\ r2.nUsed = s2.header[h].nUsed
  <2>1. s2.header[h] \in Header
    BY <1>4, <1>6 DEF IsHeap
  <2>2. PICK q \in Header : q = s2.header[h]
    BY <2>1
  <2>3. r2 = [q EXCEPT !.hPri = 0, !.hNext = first]
    BY <2>2
  <2> HIDE DEF r2
  <2>4. q = [Flag |-> q.Flag, hPri |-> q.hPri, hNext |-> q.hNext, oFree |-> q.oFree, nUsed |-> q.nUsed]
    BY DEF Header
  <2>5. r2 = [Flag |-> q.Flag, hPri |-> 0, hNext |-> first, oFree |-> q.oFree, nUsed |-> q.nUsed]
    BY <2>3, <2>4
  <2>6. r2 \in Header
    BY <1>0, <2>5 DEF Header, Refs
  <2> QED
    BY <2>2, <2>5, <2>6
<1> HIDE DEF r2
<1>9. /\ IsHeap(s3)
      /\ s3.pages = s2.pages /\ s3.span_list_ = s2.span_list_ /\ s3.bin_ = s2.bin_ /\ s3.offset = s2.offset
      /\ is_head_(s3) = is_head_(s2) /\ s3.header[h] = r2
      /\ \A x \in is_head_(s2) \ {h} : s3.header[x] = s2.header[x]
  BY <1>0, <1>4, <1>6, <1>8, WithRecord
<1> HIDE DEF s3
<1>10. /\ IsHeap(s4)
       /\ s4.header = s3.header /\ s4.pages = s3.pages
       /\ s4.span_list_ = s3.span_list_
       /\ s4.bin_ = [s3.bin_ EXCEPT ![b] = h] /\ s4.offset = s3.offset
  BY <1>0, <1>9, WithBin
<1> HIDE DEF s4
<1>11. /\ is_head_(t) = is_head_(s) /\ t.pages = s.pages /\ t.span_list_ = s.span_list_ /\ t.offset = s.offset
       /\ t.bin_ = [s.bin_ EXCEPT ![b] = h] /\ IsHeap(t)
  BY <1>4, <1>6, <1>7, <1>9, <1>10 DEF is_head_
<1>12. ASSUME NEW x \in is_head_(s)
       PROVE  /\ Kept(s, t, x)
              /\ t.header[x].hNext = IF x = h THEN first ELSE IF x = first THEN next ELSE s.header[x].hNext
              /\ t.header[x].hPri = IF x = h THEN 0 ELSE IF x = next THEN next
                                    ELSE IF x = first THEN h ELSE s.header[x].hPri
  <2>1. t.header[x] = IF x = h THEN r2 ELSE s2.header[x]
    BY <1>0, <1>4, <1>6, <1>7, <1>9, <1>10
  <2>2. s1.header[x] = IF x = first THEN r1 ELSE s.header[x]
    BY <1>4
  <2>3. /\ Kept(s1, s2, x) /\ s2.header[x].hNext = s1.header[x].hNext
        /\ s2.header[x].hPri = IF x = next THEN next ELSE s1.header[x].hPri
    BY <1>4, <1>6
  <2>4. Kept(s, s1, x)
    BY <1>3, <2>2 DEF Kept
  <2>5. Kept(s, s2, x)
    BY <2>3, <2>4 DEF Kept
  <2>6. Kept(s2, t, x)
    BY <1>8, <2>1 DEF Kept
  <2>7. Kept(s, t, x)
    BY <2>5, <2>6 DEF Kept
  <2> QED
    BY <1>0, <1>3, <1>8, <2>1, <2>2, <2>3, <2>7
<1> QED
  BY <1>11, <1>12 DEF Reordered, first, next

(* Steps that leave the spans as they are, one after the other. *)
LEMMA SteadyTrans ==
  ASSUME NEW s, NEW t, NEW u, NEW h, Steady(s, t, h), Steady(t, u, h)
  PROVE  Steady(s, u, h)
BY DEF Steady, Kept

(* Such a step keeps the order of the heap when the lists stay lists. *)
LEMMA SteadyOrder ==
  ASSUME NEW s, NEW C, Sound(s, C), InOrder(s), NEW t, NEW h, Steady(s, t, h), Lists(t, {}),
         t.span_list_ = s.span_list_
  PROVE  InOrder(t)
<1>1. IsHeap(t) /\ Tiled(t) /\ Spans(t) = Spans(s)
  BY SteadyIs
<1> QED
  BY <1>1 DEF InOrder, Steady

(* A page of a bin that is not the first one takes its place. *)
LEMMA ToFrontKeeps ==
  ASSUME NEW s, InOrder(s), NEW b \in Bins, NEW h \in Members(s, {}, -b), s.bin_[b] # h,
         NEW t, t = ToFront(s, h, b)
  PROVE  /\ Steady(s, t, h) /\ Kept(s, t, h) /\ t.offset = s.offset /\ t.span_list_ = s.span_list_
         /\ s.header[h].hPri = s.bin_[b] /\ ~(s.header[h].hNext > 0) => Lists(t, {})
<1> DEFINE first == s.bin_[b]
           S == Members(s, {}, -b)
<1>0. IsHeap(s) /\ Lists(s, {}) /\ -b \in Kinds /\ First(s, -b) = first /\ -b < 0
  BY BinKind DEF InOrder
<1>1. List(first, S, Nx(s), Pr(s))
  BY <1>0 DEF Lists
<1>2. S \subseteq is_head_(s) /\ \A x \in S : s.header[x].Flag = -b /\ s.header[x].hNext # -1
  BY DEF Members
<1>3. \A x \in S : Nx(s)[x] = s.header[x].hNext /\ Pr(s)[x] = s.header[x].hPri
  BY <1>2 DEF Nx, Pr
<1> HIDE DEF first, S
<1>4. h \in S
  BY DEF S
<1>5. first \in S /\ first # h /\ first # 0
  <2>1. PICK x \in S : Pr(s)[x] \notin S
    BY <1>1, <1>4 DEF List
  <2>2. x = first
    BY <1>1, <2>1 DEF List
  <2> QED
    BY <1>1, <2>2 DEF List, first
<1>6. s.header[h].hNext \in Links(s) /\ s.header[h].hNext # h
  <2>1. s.header[h].hNext \in Links(s)
    BY <1>0, <1>4, Listed DEF S
  <2>2. ASSUME s.header[h].hNext = h PROVE FALSE
    <3>1. Pr(s)[h] = h
      BY <1>1, <1>3, <1>4, <2>2 DEF List
    <3>2. {h} \in SUBSET S /\ {h} # {}
      BY <1>4
    <3> QED
      BY <1>1, <3>1, <3>2, ZenonT(30) DEF List
  <2> QED
    BY <2>1, <2>2
<1>7. Reordered(s, t, h, b)
  BY <1>0, <1>2, <1>4, <1>5, <1>6, ToFrontIs DEF first
<1> DEFINE next == s.header[h].hNext
<1>8. /\ IsHeap(t) /\ is_head_(t) = is_head_(s) /\ t.pages = s.pages
      /\ t.span_list_ = s.span_list_ /\ t.offset = s.offset /\ t.bin_ = [s.bin_ EXCEPT ![b] = h]
      /\ \A x \in is_head_(s) :
           /\ Kept(s, t, x)
           /\ t.header[x].hNext = IF x = h THEN first ELSE IF x = first THEN next ELSE s.header[x].hNext
           /\ t.header[x].hPri = IF x = h THEN 0 ELSE IF x = next THEN next
                                 ELSE IF x = first THEN h ELSE s.header[x].hPri
  BY <1>7 DEF Reordered, first
<1>9. first # -1 /\ next # -1 /\ 0 \notin is_head_(s)
  <2>1. \A x \in is_head_(s) : x \in Nat /\ x # 0
    BY <1>0, HeaderTypes
  <2> QED
    BY <1>2, <1>4, <1>5, <2>1
<1> HIDE DEF next
<1>10. Steady(s, t, h)
  <2>1. ASSUME NEW x \in is_head_(s)
        PROVE  /\ t.header[x].Flag = s.header[x].Flag /\ Kept(s, t, x)
               /\ t.header[x].hNext = -1 <=> s.header[x].hNext = -1
    <3>1. t.header[x].Flag = s.header[x].Flag /\ Kept(s, t, x)
      BY <1>8 DEF Kept
    <3>2. t.header[x].hNext = IF x = h THEN first ELSE IF x = first THEN next ELSE s.header[x].hNext
      BY <1>8
    <3>3. x \in {h, first} => s.header[x].hNext # -1
      BY <1>2, <1>4, <1>5
    <3> QED
      BY <1>9, <3>1, <3>2, <3>3
  <2> QED
    BY <1>8, <2>1 DEF Steady
<1>11. ASSUME s.header[h].hPri = first, ~(next > 0) PROVE Lists(t, {})
  <2>0. next = 0
    <3>1. next \in Links(s)
      BY <1>6 DEF next
    <3>2. \A x \in is_head_(s) : x \in Nat /\ x > 0
      BY <1>0, HeaderTypes
    <3> QED
      BY <1>11, <3>1, <3>2 DEF Links
  <2> SUFFICES ASSUME NEW j \in Kinds PROVE List(First(t, j), Members(t, {}, j), Nx(t), Pr(t))
    BY DEF Lists
  <2>1. Members(t, {}, j) = Members(s, {}, j)
    BY <1>8, <1>10 DEF Members, Steady
  <2>2. \A x \in is_head_(s) : Nx(t)[x] = t.header[x].hNext /\ Pr(t)[x] = t.header[x].hPri
    BY <1>8 DEF Nx, Pr
  <2>3. CASE j = -b
    <3>1. First(t, j) = h
      <4>1. t.bin_[b] = h
        BY <1>0, <1>8 DEF IsHeap
      <4> QED
        BY <2>3, <4>1, BinKind
    <3>2. Pr(s)[h] = first /\ Nx(s)[h] = 0
      BY <1>3, <1>4, <1>11, <2>0 DEF next
    <3>3. /\ Nx(t)[h] = first /\ Pr(t)[h] = 0 /\ Nx(t)[first] = 0 /\ Pr(t)[first] = h
      BY <1>2, <1>4, <1>5, <1>8, <2>0, <2>2
    <3>4. List(h, S, Nx(t), Pr(t))
      BY <1>1, <1>4, <1>5, <3>2, <3>3, ListSwap
    <3> QED
      BY <2>1, <2>3, <3>1, <3>4 DEF S
  <2>4. CASE j # -b
    <3>1. First(t, j) = First(s, j)
      <4>1. j > 0 \/ -j \in Bins \ {b}
        BY <2>4, KindRange, ClassCount
      <4> QED
        BY <1>0, <1>8, <4>1 DEF First, IsHeap
    <3>2. List(First(s, j), Members(s, {}, j), Nx(s), Pr(s))
      BY <1>0 DEF Lists
    <3>3. ASSUME NEW x \in Members(s, {}, j) PROVE Nx(t)[x] = Nx(s)[x] /\ Pr(t)[x] = Pr(s)[x]
      <4>1. x \in is_head_(s) /\ x # h /\ x # first /\ x # next
        BY <1>2, <1>4, <1>5, <1>9, <2>0, <2>4 DEF Members
      <4>2. Nx(s)[x] = s.header[x].hNext /\ Pr(s)[x] = s.header[x].hPri
        BY <4>1 DEF Nx, Pr
      <4> QED
        BY <1>8, <2>2, <4>1, <4>2
    <3>4. List(First(s, j), Members(s, {}, j), Nx(t), Pr(t))
      BY <3>2, <3>3, ListSame
    <3> QED
      BY <2>1, <3>1, <3>4
  <2> QED
    BY <2>3, <2>4
<1>12. Kept(s, t, h)
  BY <1>2, <1>4, <1>8
<1> QED
  BY <1>8, <1>10, <1>11, <1>12 DEF first, next

(* The write to page 0 does nothing but clear head bits, if it does that. *)
LEMMA ClearedIs ==
  ASSUME NEW s, IsHeap(s), NEW t, t = ClearHeads(s)
  PROVE  /\ IsHeap(t) /\ is_head_(t) \subseteq is_head_(s)
         /\ t.pages = s.pages /\ t.offset = s.offset
         /\ \A x \in is_head_(t) : t.header[x] = s.header[x]
         /\ is_head_(s) \cap Page0Heads = {} => t = s
<1> DEFINE g == Restrict(s.header, DOMAIN s.header \ Page0Heads)
<1>1. /\ g = [x \in is_head_(s) \ Page0Heads |-> s.header[x]]
      /\ DOMAIN g = is_head_(s) \ Page0Heads /\ \A x \in DOMAIN g : g[x] = s.header[x]
  BY DEF Restrict, is_head_
<1>2. t = [s EXCEPT !.header = g]
  BY DEF ClearHeads
<1> HIDE DEF g
<1>3. /\ DOMAIN g \subseteq PageHandles /\ \A x \in DOMAIN g : g[x] \in Header
      /\ g = [x \in DOMAIN g |-> g[x]]
  BY <1>1 DEF IsHeap
<1>4. /\ IsHeap(t)
      /\ t.header = g /\ t.pages = s.pages /\ t.span_list_ = s.span_list_
      /\ t.bin_ = s.bin_ /\ t.offset = s.offset
  BY <1>2, <1>3, WithHeader
<1>5. ASSUME is_head_(s) \cap Page0Heads = {} PROVE t = s
  <2>1. is_head_(s) \ Page0Heads = is_head_(s)
    BY <1>5
  <2>2. g = s.header
    BY <1>1, <2>1 DEF IsHeap
  <2>3. t.header = s.header
    BY <1>4, <2>2
  <2> QED
    BY <1>4, <2>3 DEF IsHeap
<1> QED
  BY <1>1, <1>4, <1>5 DEF is_head_

(* Free of an object in a page that stays keeps the invariant. *)
LEMMA FreeObjectKeeps ==
  ASSUME ArenaInv, GoesOn, NEW c \in chunks, FreeObject(c)
  PROVE  ArenaInv'
<1> DEFINE h == Home(heap, c.ptr)
           b == -heap.header[h].Flag
           o == c.ptr - PtrOf(h)
           k == heap.header[h].nUsed - 1
           f == Put(heap.offset, c.ptr, heap.header[h].oFree)
           s0 == [heap EXCEPT !.header[h].nUsed = @ - 1,
                              !.header[h].oFree = c.ptr - PtrOf(h),
                              !.offset = Put(@, c.ptr, heap.header[h].oFree)]
           s1 == [heap EXCEPT !.header[h].nUsed = k, !.header[h].oFree = o, !.offset = f]
           r == s0.header[heap.bin_[b]].nUsed > heap.header[h].nUsed - 1
           t == IF r THEN ToFront(s1, h, b) ELSE s1
           D == chunks'
<1>0. Sound(heap, chunks) /\ InOrder(heap) /\ Filled(heap, chunks, upset) /\ ~(heap.pages < Constructed)
  BY DEF ArenaInv, GoesOn, Broken
<1>1. IsHeap(heap) /\ heap.pages \in Nat /\ Tiled(heap) /\ is_head_(heap) = Spans(heap) /\ Lists(heap, {})
  BY <1>0, Zenon DEF InOrder
<1>2. heap.header[h].Flag < 0 /\ D = chunks \ {c}
  BY Zenon DEF FreeObject, Home
<1>3. /\ heap' = IF r THEN Reorder(s0, h, b) ELSE s0
      /\ upset' = IF ~r THEN upset
                  ELSE IF heap.header[h].hNext = 0 /\ is_head_(heap) \cap Page0Heads # {} THEN "bits cleared"
                  ELSE IF heap.header[h].hPri # heap.bin_[b] \/ heap.header[h].hNext > 0 THEN "misplaced"
                  ELSE upset
  BY DEF FreeObject, Home
<1>4. s0 = s1
  BY <1>1, Zenon DEF IsHeap, is_head_
<1> HIDE DEF s0
<1>5. r => s1.header[heap.bin_[b]].nUsed > k
  BY <1>4, Zenon
<1>6. /\ r => t = ToFront(s1, h, b) /\ heap' = Reorder(s1, h, b)
      /\ ~r => t = s1 /\ heap' = s1
  BY <1>3, <1>4
<1> HIDE DEF t, D, s1, r, f
<1>7. /\ h \in Spans(heap) /\ b \in Bins /\ h \in Nat /\ PtrOf(h) \in Int
      /\ o \in UsedOf(heap, chunks, h) /\ o \in Objects(b) /\ o \in Nat /\ c.ptr = PtrOf(h) + o
  BY <1>0, <1>2, ChunkObject
<1>8. heap.header[h].Flag = -b /\ heap.header[h].hNext # -1 /\ heap.header[h].nUsed \in Nat /\ h \in is_head_(heap)
      /\ heap.header[h].oFree \in Nat
  <2>1. h \in is_head_(heap) /\ heap.header[h].hNext # -1
    BY <1>1, <1>2, <1>7, SpanCases
  <2> QED
    BY <1>1, <2>1, HeaderTypes
<1>9. c.ptr \in Nat /\ \A d \in chunks : d.ptr = c.ptr => d = c
  BY <1>0 DEF Sound, Typed, Placed
<1>10. Strung(heap, chunks, h) /\ (upset = "no" => Cut(heap, chunks, h))
  BY <1>0, <1>2, <1>7 DEF Filled, Whole
<1> HIDE DEF h, b
<1>11. k \in Nat
  <2>1. IsFiniteSet(UsedOf(heap, chunks, h)) /\ heap.header[h].nUsed = Cardinality(UsedOf(heap, chunks, h))
    BY <1>7, <1>10, UsedFinite DEF Strung, b
  <2>2. heap.header[h].nUsed # 0
    BY <1>7, <2>1, FS_EmptySet
  <2> QED
    BY <1>8, <2>2
<1> HIDE DEF k, o
<1>12. Counted(heap, s1, h, k, o, f)
  BY <1>1, <1>7, <1>8, <1>11, CountedIs DEF s1
<1>13. Steady(heap, s1, h) /\ Lists(s1, {})
  BY <1>1, <1>12, CountedSteady
<1>14. InOrder(s1)
  BY <1>0, <1>12, <1>13, SteadyOrder DEF Counted
<1>15. /\ Steady(heap, t, h) /\ t.offset = f /\ t.header[h].nUsed = k /\ t.header[h].oFree = o
       /\ (r => heap.header[h].hPri = heap.bin_[b] /\ ~(heap.header[h].hNext > 0)) => InOrder(t)
  <2>1. CASE ~r
    BY <1>6, <1>12, <1>13, <1>14, <2>1 DEF Counted
  <2>2. CASE r
    <3>0. t = ToFront(s1, h, b)
      BY <1>6, <2>2
    <3>1. s1.bin_ = heap.bin_ /\ s1.header[h].nUsed = k /\ s1.header[h].oFree = o /\ s1.offset = f
          /\ s1.header[h].Flag = -b /\ s1.header[h].hNext = heap.header[h].hNext
          /\ s1.header[h].hPri = heap.header[h].hPri /\ h \in is_head_(s1)
      BY <1>8, <1>12 DEF Counted
    <3>2. s1.bin_[b] # h
      BY <1>5, <1>11, <2>2, <3>1
    <3>3. h \in Members(s1, {}, -b)
      BY <1>8, <3>1 DEF Members
    <3>4. /\ Steady(s1, t, h) /\ Kept(s1, t, h) /\ t.offset = s1.offset /\ t.span_list_ = s1.span_list_
          /\ s1.header[h].hPri = s1.bin_[b] /\ ~(s1.header[h].hNext > 0) => Lists(t, {})
      BY <1>7, <1>14, <3>0, <3>2, <3>3, ToFrontKeeps
    <3>5. Steady(heap, t, h)
      BY <1>13, <3>4, SteadyTrans
    <3>6. ASSUME heap.header[h].hPri = heap.bin_[b] /\ ~(heap.header[h].hNext > 0) PROVE InOrder(t)
      <4>1. heap.header[h].hPri = heap.bin_[b] /\ ~(heap.header[h].hNext > 0)
        BY <3>6
      <4>2. Lists(t, {})
        BY <3>1, <3>4, <4>1
      <4>3. t.span_list_ = heap.span_list_
        BY <1>12, <3>4 DEF Counted
      <4> QED
        BY <1>0, <3>5, <4>2, <4>3, SteadyOrder
    <3> QED
      BY <2>2, <3>1, <3>4, <3>5, <3>6 DEF Kept
  <2> QED
    BY <2>1, <2>2
<1>16. /\ DOMAIN f = DOMAIN heap.offset \cup {c.ptr} /\ f[c.ptr] = heap.header[h].oFree
       /\ \A p \in DOMAIN heap.offset \ {c.ptr} : f[p] = heap.offset[p]
  BY DEF f, Put
<1>17. /\ IsHeap(t) /\ Tiled(t) /\ Spans(t) = Spans(heap)
       /\ \A x \in is_head_(t) : -39 <= t.header[x].Flag /\ t.header[x].Flag <= kSpanSlotSize
       /\ Placed(t, D) /\ t.pages = heap.pages
  <2>1. D \in SUBSET chunks
    BY <1>2
  <2>2. t.pages = heap.pages
    BY <1>15 DEF Steady
  <2> QED
    BY <1>0, <1>15, <2>1, <2>2, SteadyIs
<1>18. Sound(t, D)
  <2>1. ASSUME NEW x \in DOMAIN t.offset PROVE t.offset[x] \in Nat
    BY <1>0, <1>8, <1>15, <1>16 DEF Sound, Typed
  <2> QED
    BY <1>0, <1>2, <1>17, <2>1 DEF Sound, Typed
<1>19. Whole(t, D, h, upset)
  <2>1. t.header[h].Flag = -b
    BY <1>8, <1>15 DEF Steady
  <2>2. t.header[h].nUsed = heap.header[h].nUsed - 1
    BY <1>15 DEF k
  <2> QED
    BY <1>2, <1>7, <1>8, <1>9, <1>10, <1>15, <1>16, <2>1, <2>2, CutFreed, StrungFreed DEF Whole
<1>20. Filled(t, D, upset)
  <2>0. h = Home(heap, c.ptr)
    BY DEF h
  <2>1. ASSUME NEW p \in Nat, Home(heap, p) # h PROVE Aside(heap, chunks, t, D, p)
    <3>1. p # c.ptr
      BY <2>0, <2>1
    <3> QED
      BY <1>2, <1>15, <1>16, <3>1 DEF Aside
  <2>2. InPage(heap, c.ptr)
    BY <1>2, <1>7 DEF InPage, b
  <2>3. \A p \in DOMAIN t.offset : InPage(heap, p)
    BY <1>0, <1>15, <1>16, <2>2 DEF Filled
  <2> QED
    BY <1>0, <1>2, <1>7, <1>15, <1>19, <2>1, <2>3, SteadyFilled
<1>21. heap.pages >= Constructed
  BY <1>0, <1>1, ConstructedIs
<1>22. t.pages = heap.pages /\ t.pages \in Nat /\ heap.pages <= t.pages
  BY <1>1, <1>17
<1>23. is_head_(t) = is_head_(heap) /\ s1.header[h].hNext = heap.header[h].hNext
  BY <1>12, <1>15 DEF Counted, Steady
<1> DEFINE cleared == r /\ heap.header[h].hNext = 0 /\ is_head_(heap) \cap Page0Heads # {}
<1>24. CASE cleared
  <2>1. heap' = ClearHeads(t) /\ upset' = "bits cleared"
    BY <1>3, <1>6, <1>23, <1>24 DEF Reorder
  <2>2. /\ IsHeap(heap') /\ is_head_(heap') \subseteq is_head_(t)
        /\ heap'.pages = t.pages /\ heap'.offset = t.offset
        /\ \A x \in is_head_(heap') : heap'.header[x] = t.header[x]
    BY <1>17, <2>1, ClearedIs
  <2>3. Typed(heap', D)
    BY <1>18, <2>2 DEF Sound, Typed
  <2> QED
    BY <1>1, <1>21, <1>22, <2>1, <2>2, <2>3, AfterLast DEF D, Broken
<1>25. CASE ~cleared
  <2>1. heap' = t
    <3>1. CASE ~r
      BY <1>6, <3>1
    <3>2. CASE r /\ heap.header[h].hNext # 0
      BY <1>6, <1>23, <3>2 DEF Reorder
    <3>3. CASE r /\ heap.header[h].hNext = 0
      <4>1. is_head_(t) \cap Page0Heads = {}
        BY <1>23, <1>25, <3>3
      <4>2. ClearHeads(t) = t
        BY <1>17, <4>1, ClearedIs
      <4> QED
        BY <1>6, <1>23, <3>3, <4>2 DEF Reorder
    <3> QED
      BY <3>1, <3>2, <3>3
  <2>2. /\ upset' \in {upset, "misplaced"}
        /\ upset' # "misplaced" => upset' = upset /\ (r => heap.header[h].hPri = heap.bin_[b] /\ ~(heap.header[h].hNext > 0))
    BY <1>3, <1>25
  <2>3. upset' \in Upsets /\ (GoesOn' => upset' # "misplaced")
    BY <2>2 DEF ArenaInv, Upsets, GoesOn
  <2>4. GoesOn' => InOrder(heap') /\ Filled(heap', D, upset')
    BY <1>15, <1>20, <2>1, <2>2, <2>3
  <2> QED
    BY <1>1, <1>18, <1>21, <1>22, <2>1, <2>3, <2>4, AfterInit DEF D
<1> QED
  BY <1>24, <1>25

(* The chain without its first member. *)
LEMMA ChainRest ==
  ASSUME NEW first, NEW S, NEW next, Chain(first, S, next), first # 0, NEW n, next[first] = n,
         NEW S2, S2 = S \ {first}, NEW next2, \A y \in S2 : next2[y] = next[y]
  PROVE  Chain(n, S2, next2)
BY ChainPop

(* The first free object o of the page h is handed out as the chunk c. *)
HandedOut(s, C, h, b, o, c, D, t) ==
  /\ s.header[h].Flag = -b /\ Cut(s, C, h)
  /\ o = s.header[h].oFree /\ o # 0 /\ PtrOf(h) \in Int /\ c.ptr = PtrOf(h) + o /\ D = C \cup {c}
  /\ t.header[h].Flag = -b /\ t.header[h].nUsed = s.header[h].nUsed + 1

(* It is in use now, and was the first of the free ones. *)
OneMore(s, C, h, b, o, c, D, t) ==
  /\ -s.header[h].Flag = b /\ -t.header[h].Flag = b
  /\ o \in Objects(b) /\ o \in FreeOf(s, h) /\ o \in Nat /\ o >= 16
  /\ UsedOf(t, D, h) = UsedOf(s, C, h) \cup {o}
  /\ t.header[h].nUsed = Cardinality(UsedOf(t, D, h))
  /\ c.ptr = PtrOf(h) + o /\ PtrOf(h) \in Int /\ PtrOf(h) + o \in DOMAIN s.offset
  /\ Chain(o, FreeOf(s, h), [x \in FreeOf(s, h) |-> s.offset[PtrOf(h) + x]])
  /\ UsedOf(s, C, h) \cap FreeOf(s, h) = {} /\ Fresh(s, h, UsedOf(s, C, h), FreeOf(s, h))
  /\ \A x \in Objects(b) : PtrOf(h) + x = c.ptr <=> x = o

(* What the page is once its first free object is handed out. *)
LEMMA OneMoreUsed ==
  ASSUME NEW s, NEW C, NEW h, NEW b \in Bins, NEW o, NEW c, NEW D, NEW t, HandedOut(s, C, h, b, o, c, D, t)
  PROVE  OneMore(s, C, h, b, o, c, D, t)
<1> DEFINE U == UsedOf(s, C, h)
           F == FreeOf(s, h)
           f == [x \in F |-> s.offset[PtrOf(h) + x]]
<1>0. -s.header[h].Flag = b /\ -t.header[h].Flag = b
  BY ClassCount DEF HandedOut
<1>1. \A x \in Objects(b) : x \in Nat /\ x >= 16
  BY ObjectsApart
<1>2. Chain(o, F, f) /\ U \cap F = {} /\ Fresh(s, h, U, F) /\ o # 0
  BY DEF HandedOut, Cut
<1>3. o \in F
  <2> HIDE DEF F, f
  <2> QED
    BY <1>2, ChainFirst
<1>4. o \in Objects(b) /\ o \in Nat /\ o >= 16 /\ PtrOf(h) + o \in DOMAIN s.offset
  BY <1>0, <1>1, <1>3 DEF FreeOf
<1>5. c.ptr = PtrOf(h) + o /\ PtrOf(h) \in Int
  BY DEF HandedOut
<1>6. \A x \in Objects(b) : PtrOf(h) + x = c.ptr <=> x = o
  BY <1>1, <1>4, <1>5
<1>7. UsedOf(t, D, h) = U \cup {o}
  <2>1. \A x \in Objects(b) : (\E d \in D : d.ptr = PtrOf(h) + x) <=> (\E d \in C : d.ptr = PtrOf(h) + x) \/ x = o
    BY <1>6 DEF HandedOut
  <2>2. \A x : x \in UsedOf(t, D, h) <=> x \in Objects(b) /\ (\E d \in D : d.ptr = PtrOf(h) + x)
    BY <1>0 DEF UsedOf
  <2>3. \A x : x \in U <=> x \in Objects(b) /\ (\E d \in C : d.ptr = PtrOf(h) + x)
    BY <1>0 DEF UsedOf
  <2>4. \A x : x \in UsedOf(t, D, h) <=> x \in U \cup {o}
    <3> HIDE DEF U
    <3> QED
      BY <1>4, <2>1, <2>2, <2>3
  <2> QED
    BY <2>4
<1>8. IsFiniteSet(U) /\ o \notin U
  BY <1>0, <1>2, <1>3, UsedFinite
<1>9. Cardinality(U \cup {o}) = Cardinality(U) + 1
  <2> HIDE DEF U
  <2> QED
    BY <1>8, FS_AddElement
<1>10. t.header[h].nUsed = Cardinality(U) + 1
  BY DEF HandedOut, Cut
<1>11. t.header[h].nUsed = Cardinality(UsedOf(t, D, h))
  BY <1>7, <1>9, <1>10
<1> QED
  BY <1>0, <1>2, <1>3, <1>4, <1>5, <1>6, <1>7, <1>11 DEF OneMore

(* The object that o stores follows it; or the one behind o does, when o   *)
(* stores 0 and there is one, which no chunk uses.                         *)
StoredFollows(s, h, b, o, c, t) ==
  /\ t.header[h].oFree = s.offset[c.ptr]
  /\ ~(s.offset[c.ptr] = 0 /\ o + 2 * kBinSlotTemplate[b] <= BinPages[b] * 4096)
  /\ \A p : p \in DOMAIN t.offset <=> p \in DOMAIN s.offset /\ p # c.ptr
  /\ \A p \in DOMAIN t.offset : t.offset[p] = s.offset[p]

BehindFollows(s, C, h, b, o, c, t, q) ==
  /\ q = o + kBinSlotTemplate[b] /\ t.header[h].oFree = q
  /\ s.offset[c.ptr] = 0 /\ o + 2 * kBinSlotTemplate[b] <= BinPages[b] * 4096
  /\ \A d \in C : d.ptr # PtrOf(h) + q
  /\ \A p : p \in DOMAIN t.offset <=> p = PtrOf(h) + q \/ (p \in DOMAIN s.offset /\ p # c.ptr)
  /\ t.offset[PtrOf(h) + q] = 0

(* The first free object of a page is handed out, and the one that it      *)
(* stores is first.                                                        *)
LEMMA CutTaken ==
  ASSUME NEW s, NEW C, NEW h, NEW b \in Bins, NEW o, NEW c, NEW D, NEW t, HandedOut(s, C, h, b, o, c, D, t),
         StoredFollows(s, h, b, o, c, t)
  PROVE  Cut(t, D, h)
<1> DEFINE U == UsedOf(s, C, h)
           F == FreeOf(s, h)
           T == kBinSlotTemplate[b]
           L == BinPages[b] * 4096
           f == [x \in F |-> s.offset[PtrOf(h) + x]]
           g == [x \in F \ {o} |-> t.offset[PtrOf(h) + x]]
<1>00. OneMore(s, C, h, b, o, c, D, t)
  BY OneMoreUsed
<1>0. -s.header[h].Flag = b /\ -t.header[h].Flag = b
  BY <1>00 DEF OneMore
<1>1. \A x \in Objects(b) : x \in Nat /\ x >= 16 /\ x + T <= L
  BY ObjectsApart
<1>2. Chain(o, F, f) /\ U \cap F = {} /\ Fresh(s, h, U, F)
  BY <1>00 DEF OneMore
<1>3. o \in F /\ o \in Nat /\ o \in Objects(b) /\ o # 0
  BY <1>00 DEF OneMore
<1>4. F \subseteq Objects(b)
  BY <1>0 DEF FreeOf
<1>5. c.ptr = PtrOf(h) + o /\ \A x \in Objects(b) : PtrOf(h) + x = c.ptr <=> x = o
  BY <1>00 DEF OneMore
<1>6. UsedOf(t, D, h) = U \cup {o} /\ t.header[h].nUsed = Cardinality(UsedOf(t, D, h))
  BY <1>00 DEF OneMore
<1>7. FreeOf(t, h) = F \ {o}
  BY <1>0, <1>5 DEF FreeOf, StoredFollows
<1>8. \A x \in F \ {o} : t.offset[PtrOf(h) + x] = s.offset[PtrOf(h) + x]
  <2> SUFFICES ASSUME NEW x \in F \ {o} PROVE t.offset[PtrOf(h) + x] = s.offset[PtrOf(h) + x]
    OBVIOUS
  <2>1. PtrOf(h) + x \in DOMAIN s.offset /\ x \in Objects(b)
    BY <1>4 DEF FreeOf
  <2> QED
    BY <1>5, <2>1 DEF StoredFollows
<1>9. Chain(s.offset[c.ptr], F \ {o}, g)
  <2>1. f[o] = s.offset[c.ptr] /\ \A y \in F \ {o} : g[y] = f[y]
    BY <1>3, <1>5, <1>8
  <2>2. PICK n, R : n = s.offset[c.ptr] /\ R = F \ {o}
    OBVIOUS
  <2> HIDE DEF f, g, F
  <2>3. Chain(o, F, f) /\ o # 0 /\ f[o] = n /\ R = F \ {o} /\ \A y \in R : g[y] = f[y]
    BY <1>2, <1>3, <2>1, <2>2, Zenon
  <2>4. Chain(n, R, g)
    BY <2>3, ChainRest, ZenonT(30)
  <2> QED
    BY <2>2, <2>4, Zenon
<1>10. \A x \in Objects(b) : o < x => o + T <= x
  <2>1. \A y, x \in Objects(b) : y < x => y + T <= x
    BY ObjectsFollow, Zenon
  <2> QED
    BY <1>3, <2>1, Zenon
<1>11. Fresh(t, h, U \cup {o}, F \ {o})
  <2>1. (U \cup {o}) \cup (F \ {o}) = U \cup F
    BY <1>3
  <2> SUFFICES ASSUME NEW x \in Objects(b) \ (U \cup F)
               PROVE  \E last \in F \ {o} : /\ t.offset[PtrOf(h) + last] = 0
                                            /\ last < x
                                            /\ \A y \in U \cup F : y <= last
    <3> HIDE DEF U, F
    <3> QED
      BY <1>0, <2>1 DEF Fresh
  <2>2. PICK last \in F : /\ s.offset[PtrOf(h) + last] = 0
                          /\ last < x
                          /\ \A y \in U \cup F : y <= last
    <3> HIDE DEF U, F
    <3> QED
      BY <1>0, <1>2 DEF Fresh
  <2>3. last # o
    <3> SUFFICES ASSUME last = o PROVE FALSE
      OBVIOUS
    <3>0. o < x /\ x \in Objects(b)
      BY <2>2
    <3>1. o + T <= x
      BY <1>10, <3>0
    <3>2. x + T <= L /\ x \in Nat
      BY <1>1
    <3>3. T \in Nat /\ L \in Nat
      BY ClassSizes, ClassPages
    <3>4. s.offset[c.ptr] = 0
      BY <1>5, <2>2
    <3> HIDE DEF T, L
    <3>5. o + 2 * T <= L
      BY <1>3, <3>1, <3>2, <3>3
    <3> QED
      BY <3>4, <3>5 DEF T, L, StoredFollows
  <2> QED
    BY <1>8, <2>2, <2>3
<1>12. (U \cup {o}) \cap (F \ {o}) = {}
  BY <1>2
<1> HIDE DEF U, F
<1> QED
  BY <1>6, <1>7, <1>9, <1>11, <1>12 DEF Cut, StoredFollows

(* The only free object of a page is handed out, and the one behind it,    *)
(* never used before, is free.                                             *)
LEMMA CutFresh ==
  ASSUME NEW s, NEW C, NEW h, NEW b \in Bins, NEW o, NEW c, NEW D, NEW t, HandedOut(s, C, h, b, o, c, D, t),
         NEW q, BehindFollows(s, C, h, b, o, c, t, q)
  PROVE  Cut(t, D, h)
<1> DEFINE U == UsedOf(s, C, h)
           F == FreeOf(s, h)
           T == kBinSlotTemplate[b]
           f == [x \in F |-> s.offset[PtrOf(h) + x]]
           g == [x \in {q} |-> t.offset[PtrOf(h) + x]]
<1>00. OneMore(s, C, h, b, o, c, D, t)
  BY OneMoreUsed
<1>0. -s.header[h].Flag = b /\ -t.header[h].Flag = b
  BY <1>00 DEF OneMore
<1>1. \A x \in Objects(b) : x \in Nat /\ x >= 16
  BY ObjectsApart
<1>2. Chain(o, F, f) /\ U \cap F = {} /\ Fresh(s, h, U, F) /\ o \in F /\ c.ptr = PtrOf(h) + o /\ o # 0
  BY <1>00 DEF OneMore
<1>3. F = {o}
  <2>2. f[o] = 0
    BY <1>2 DEF BehindFollows
  <2> HIDE DEF F, f
  <2> QED
    BY <1>2, <2>2, ChainEnd
<1>4. U \subseteq Objects(b) /\ o \in Objects(b) /\ o \in Nat
  BY <1>0, <1>00 DEF UsedOf, OneMore
<1>5. q \in Objects(b) /\ q \in Nat /\ o < q
  <2>1. T \in Nat /\ T > 0
    BY ClassSizes
  <2>2. q = o + T /\ q \in Objects(b)
    BY <1>4, ObjectsApart DEF BehindFollows
  <2> QED
    BY <1>4, <2>1, <2>2
<1>6. \A x \in Objects(b) : /\ PtrOf(h) + x = c.ptr <=> x = o
                            /\ PtrOf(h) + x = PtrOf(h) + q <=> x = q
  <2>1. PtrOf(h) \in Int /\ \A x \in Objects(b) : PtrOf(h) + x = c.ptr <=> x = o
    BY <1>00 DEF OneMore
  <2> QED
    BY <1>1, <1>5, <2>1
<1>7. UsedOf(t, D, h) = U \cup {o} /\ t.header[h].nUsed = Cardinality(UsedOf(t, D, h))
  BY <1>00 DEF OneMore
<1>8. FreeOf(t, h) = {q}
  <2>1. \A x \in Objects(b) : PtrOf(h) + x \in DOMAIN s.offset <=> x = o
    BY <1>0, <1>3 DEF FreeOf
  <2>2. \A x \in Objects(b) : PtrOf(h) + x \in DOMAIN t.offset <=> x = q
    BY <1>6, <2>1 DEF BehindFollows
  <2>3. \A x : x \in FreeOf(t, h) <=> x \in Objects(b) /\ PtrOf(h) + x \in DOMAIN t.offset
    BY <1>0 DEF FreeOf
  <2>4. \A x : x \in FreeOf(t, h) <=> x \in {q}
    BY <1>5, <2>2, <2>3
  <2> QED
    BY <2>4
<1>9. Chain(q, {q}, g)
  <2>1. g[q] = 0
    BY DEF BehindFollows
  <2>2. q # 0
    BY <1>4, <1>5
  <2> HIDE DEF g
  <2> QED
    BY <2>1, <2>2, ChainOne
<1>11. q \notin U
  BY DEF UsedOf, BehindFollows
<1>12. \A x \in Objects(b) \ (U \cup {o}) : o < x /\ \A y \in U \cup {o} : y <= o
  <2> HIDE DEF U, F
  <2> QED
    BY <1>0, <1>2, <1>3 DEF Fresh
<1>13. Fresh(t, h, U \cup {o}, {q})
  <2>0. q \in Objects(b) \ (U \cup {o})
    BY <1>4, <1>5, <1>11
  <2>1. \A y \in U \cup {o} : y <= o /\ y \in Nat
    <3> HIDE DEF U
    <3> QED
      BY <1>1, <1>4, <1>12, <2>0
  <2>2. \A y \in (U \cup {o}) \cup {q} : y <= q
    BY <1>4, <1>5, <2>1
  <2>3. ASSUME NEW x \in Objects(b) \ ((U \cup {o}) \cup {q}) PROVE q < x
    <3>1. o < x /\ x # q /\ x \in Nat
      BY <1>1, <1>12
    <3>2. q <= x
      BY <1>4, <3>1, ObjectsApart DEF BehindFollows
    <3> QED
      BY <1>5, <3>1, <3>2
  <2> HIDE DEF U
  <2> QED
    BY <1>0, <2>2, <2>3 DEF Fresh, BehindFollows
<1>14. (U \cup {o}) \cap {q} = {}
  BY <1>4, <1>5, <1>11
<1> HIDE DEF U
<1> QED
  BY <1>7, <1>8, <1>9, <1>13, <1>14 DEF Cut, BehindFollows

(* Whatever is in the free list, the first object of it that no chunk uses *)
(* is handed out, and the list goes on with an object in use or free.      *)
LEMMA StrungTaken ==
  ASSUME NEW s, NEW C, NEW h, NEW b \in Bins, s.header[h].Flag = -b, Strung(s, C, h),
         NEW o \in FreeOf(s, h), o \notin UsedOf(s, C, h), PtrOf(h) \in Int,
         NEW c, c.ptr = PtrOf(h) + o, NEW D, D = C \cup {c},
         NEW t, t.header[h].Flag = -b, t.header[h].nUsed = s.header[h].nUsed + 1,
         t.header[h].oFree \in FreeOf(t, h) \cup {s.offset[PtrOf(h) + o]},
         FreeOf(s, h) \ {o} \subseteq FreeOf(t, h),
         \A x \in FreeOf(t, h) : \/ t.offset[PtrOf(h) + x] = 0
                                 \/ x \in FreeOf(s, h) /\ t.offset[PtrOf(h) + x] = s.offset[PtrOf(h) + x]
  PROVE  Strung(t, D, h)
<1> DEFINE U == UsedOf(s, C, h)
<1>0. -s.header[h].Flag = b /\ -t.header[h].Flag = b
  BY ClassCount
<1>1. \A x \in Objects(b) : x \in Nat
  BY ObjectsApart
<1>2. o \in Objects(b)
  BY <1>0 DEF FreeOf
<1>3. \A x \in Objects(b) : PtrOf(h) + x = c.ptr <=> x = o
  BY <1>1, <1>2
<1>4. UsedOf(t, D, h) = U \cup {o}
  <2>1. \A x \in Objects(b) : (\E d \in D : d.ptr = PtrOf(h) + x) <=> (\E d \in C : d.ptr = PtrOf(h) + x) \/ x = o
    BY <1>3
  <2>2. \A x : x \in UsedOf(t, D, h) <=> x \in Objects(b) /\ (\E d \in D : d.ptr = PtrOf(h) + x)
    BY <1>0 DEF UsedOf
  <2>3. \A x : x \in U <=> x \in Objects(b) /\ (\E d \in C : d.ptr = PtrOf(h) + x)
    BY <1>0 DEF UsedOf
  <2>4. \A x : x \in UsedOf(t, D, h) <=> x \in U \cup {o}
    <3> HIDE DEF U
    <3> QED
      BY <1>2, <2>1, <2>2, <2>3
  <2> QED
    BY <2>4
<1>5. Known(s, C, h) \subseteq Known(t, D, h) /\ FreeOf(t, h) \subseteq Known(t, D, h) /\ 0 \in Known(t, D, h)
  BY <1>4 DEF Known
<1>6. t.header[h].nUsed = Cardinality(U \cup {o})
  <2>1. IsFiniteSet(U)
    BY <1>0, UsedFinite
  <2>2. Cardinality(U \cup {o}) = Cardinality(U) + 1
    BY <2>1, FS_AddElement
  <2> QED
    BY <2>2 DEF Strung
<1>7. t.header[h].oFree \in Known(t, D, h)
  BY <1>5 DEF Strung
<1>8. \A x \in FreeOf(t, h) : t.offset[PtrOf(h) + x] \in Known(t, D, h)
  BY <1>5 DEF Strung
<1> QED
  BY <1>4, <1>6, <1>7, <1>8 DEF Strung

(* The page that an object is taken from is one of the bin. *)
LEMMA ScopeListed ==
  ASSUME Lists(heap, {}), NEW b \in Bins, Scope(b) > 0
  PROVE  Scope(b) \in Members(heap, {}, -b)
<1> DEFINE first == heap.bin_[b]
           M == Members(heap, {}, -b)
<1>1. -b \in Kinds /\ First(heap, -b) = first
  BY BinKind
<1>2. first # 0 => first \in M
  BY <1>1, Listed
<1>3. \A h \in M : heap.header[h].hNext # 0 => heap.header[h].hNext \in M
  BY <1>1, Listed
<1> HIDE DEF M
<1>4. CASE first > 0 /\ heap.header[first].oFree = 0
  <2>1. Scope(b) = heap.header[first].hNext /\ first # 0
    BY <1>4 DEF Scope
  <2>2. heap.header[first].hNext # 0
    BY <2>1
  <2> QED
    BY <1>2, <1>3, <2>1, <2>2 DEF M
<1>5. CASE ~(first > 0 /\ heap.header[first].oFree = 0)
  <2>1. Scope(b) = first
    BY <1>5 DEF Scope
  <2>2. first # 0
    BY <2>1
  <2> QED
    BY <1>2, <2>1, <2>2 DEF M
<1> QED
  BY <1>4, <1>5

(* The chunk of an object that was free. *)
LEMMA PlacedObject ==
  ASSUME NEW s, NEW C, Sound(s, C), NEW t, NEW h, Steady(s, t, h), h \in Spans(s),
         NEW b \in Bins, s.header[h].Flag = -b,
         NEW o \in Objects(b), o \notin UsedOf(s, C, h),
         NEW c, c.ptr = PtrOf(h) + o, c.size <= kBinSlotTemplate[b]
  PROVE  Placed(t, C \cup {c})
<1>1. Placed(t, C) /\ Spans(t) = Spans(s)
  BY SteadyIs
<1>2. t.header[h].Flag = -b /\ -b < 0 /\ b = -(-b)
  BY BinKind, ClassCount DEF Steady, Spans
<1>3. Fits(t, c, h)
  <2>1. t.header[h].Flag < 0 /\ -t.header[h].Flag = b
    BY <1>2
  <2> QED
    BY <2>1 DEF Fits
<1>4. \A d \in C : d.ptr # c.ptr
  BY <1>2 DEF UsedOf
<1> QED
  BY <1>1, <1>3, <1>4 DEF Placed

(* Malloc of an object of a page in the bin keeps the invariant. *)
LEMMA MallocObjectKeeps ==
  ASSUME ArenaInv, GoesOn, heap.pages >= Constructed, NEW bytes \in Sizes, MallocObject(bytes)
  PROVE  ArenaInv'
<1> DEFINE b == BinSlot(bytes)
           h == Scope(b)
           o == heap.header[h].oFree
           T == kBinSlotTemplate[b]
           q == o + T
           ptr == PtrOf(h) + o
           behind == ptr + T
           rest == Drop(heap.offset, ptr)
           k == heap.header[h].nUsed + 1
           c == [ptr |-> ptr, size |-> bytes]
           t == heap'
           D == chunks'
           IsFresh(x) == x = 0 /\ o + 2 * T <= BinPages[b] * 4096
           Twice == HasChunk(ptr)
<1>0. Sound(heap, chunks) /\ InOrder(heap) /\ Filled(heap, chunks, upset)
  BY DEF ArenaInv, GoesOn, Broken
<1>1. IsHeap(heap) /\ heap.pages \in Nat /\ Tiled(heap) /\ is_head_(heap) = Spans(heap) /\ Lists(heap, {})
      /\ chunks \subseteq [ptr : Nat, size : Sizes]
  BY <1>0 DEF InOrder, Sound, Typed
<1>2. b \in Bins /\ bytes <= T
  BY ObjectSlot, Zenon DEF MallocObject
<1>30. PICK stored \in StoredAt(ptr, b) :
         /\ t = [heap EXCEPT !.header[h].nUsed = @ + 1,
                             !.header[h].oFree = IF IsFresh(stored) THEN q ELSE stored,
                             !.offset = IF IsFresh(stored) THEN Put(rest, behind, 0) ELSE rest]
         /\ upset' = IF Twice THEN "handed out twice"
                     ELSE IF IsFresh(stored) /\ HasChunk(behind) THEN "used behind" ELSE upset
  BY DEF MallocObject, kPageLen
<1> DEFINE fresh == IsFresh(stored)
           o2 == IF fresh THEN q ELSE stored
           f == IF fresh THEN Put(rest, behind, 0) ELSE rest
           s1 == [heap EXCEPT !.header[h].nUsed = k, !.header[h].oFree = o2, !.offset = f]
<1>3. h > 0 /\ o > 0 /\ D = chunks \cup {c}
      /\ upset' = IF Twice THEN "handed out twice"
                  ELSE IF fresh /\ (\E d \in chunks : d.ptr = behind) THEN "used behind" ELSE upset
  <2>1. h > 0 /\ o > 0 /\ D = chunks \cup {c}
    BY DEF MallocObject, HasFree, Hand
  <2> QED
    BY <1>30, <2>1 DEF HasChunk
<1>4. h \in Members(heap, {}, -b)
  BY <1>1, <1>2, <1>3, ScopeListed
<1>5. t = s1
  <2>1. t = [heap EXCEPT !.header[h].nUsed = @ + 1, !.header[h].oFree = o2, !.offset = f]
    BY <1>30
  <2> HIDE DEF o2, f
  <2> QED
    BY <1>1, <2>1, Zenon DEF IsHeap, is_head_
<1>31. stored \in StoredAt(ptr, b)
  BY <1>30
<1> HIDE DEF b, h, t, D, s1, Twice
<1>6. h \in is_head_(heap) /\ h \in Spans(heap) /\ heap.header[h].Flag = -b /\ heap.header[h].Flag < 0
      /\ -heap.header[h].Flag = b
  <2>1. h \in is_head_(heap) /\ heap.header[h].Flag = -b
    BY <1>4 DEF Members
  <2>2. -b < 0 /\ b = -(-b)
    BY <1>2, BinKind, ClassCount
  <2> QED
    BY <1>1, <2>1, <2>2
<1>7. h \in Nat /\ heap.header[h].nUsed \in Nat /\ o \in Nat /\ PtrOf(h) \in Int /\ PtrOf(h) >= 0
  <2>1. h \in Nat /\ heap.header[h].nUsed \in Nat /\ o \in Nat /\ h >= 1
    BY <1>1, <1>6, HeaderTypes
  <2> QED
    BY <2>1 DEF PtrOf, kPageLen
<1>70. o # 0
  <2>1. o \in Nat
    BY <1>7
  <2>2. o > 0
    BY <1>3, Zenon
  <2> HIDE DEF o
  <2> QED
    BY <2>1, <2>2
<1>8. Strung(heap, chunks, h) /\ (upset = "no" => Cut(heap, chunks, h))
  BY <1>0, <1>6 DEF Filled, Whole
<1>9. /\ o \in Objects(b)
      /\ ~Twice => o \in FreeOf(heap, h) /\ ptr \in DOMAIN heap.offset /\ o \notin UsedOf(heap, chunks, h)
  <2>1. o \in Known(heap, chunks, h)
    BY <1>8 DEF Strung
  <2> HIDE DEF o
  <2>2. o \in UsedOf(heap, chunks, h) \/ o \in FreeOf(heap, h)
    BY <1>70, <2>1 DEF Known
  <2>3. o \in Objects(b)
    BY <1>6, <2>2 DEF UsedOf, FreeOf
  <2>4. o \in UsedOf(heap, chunks, h) => Twice
    BY DEF UsedOf, Twice, HasChunk
  <2>5. o \in FreeOf(heap, h) => ptr \in DOMAIN heap.offset
    BY DEF FreeOf
  <2> QED
    BY <2>2, <2>3, <2>4, <2>5
<1>10. T \in Nat /\ T > 0 /\ ptr \in Nat
  BY <1>2, <1>7, <1>9, ClassSizes
<1>32. stored \in Nat /\ (~Twice => stored = heap.offset[ptr])
  <2>1. CASE Twice
    <3>1. stored \in Objects(b) \cup {0}
      BY <1>31, <2>1 DEF StoredAt, Twice
    <3> QED
      BY <1>2, <2>1, <3>1, ObjectsApart
  <2>2. CASE ~Twice
    <3>1. stored = heap.offset[ptr]
      BY <1>31, <2>2 DEF StoredAt, Twice
    <3> QED
      BY <1>0, <1>9, <2>2, <3>1 DEF Sound, Typed
  <2> QED
    BY <2>1, <2>2
<1>11. fresh => q \in Objects(b)
  BY <1>2, <1>9, ObjectsApart
<1>12. q \in Nat /\ behind = PtrOf(h) + q /\ behind # ptr
  BY <1>7, <1>10
<1> HIDE DEF T, o, ptr, behind, fresh, q
<1>13. o2 \in Nat /\ k \in Nat
  BY <1>7, <1>12, <1>32
<1>14. DOMAIN rest = DOMAIN heap.offset \ {ptr} /\ \A p \in DOMAIN heap.offset \ {ptr} : rest[p] = heap.offset[p]
  BY DEF Drop, Restrict
<1> HIDE DEF rest
<1>15. ASSUME fresh
       PROVE  /\ \A p : p \in DOMAIN f <=> p = behind \/ (p \in DOMAIN heap.offset /\ p # ptr)
              /\ f[behind] = 0
              /\ \A p \in DOMAIN heap.offset : p # ptr /\ p # behind => f[p] = heap.offset[p]
  <2>1. f = Put(rest, behind, 0)
    BY <1>15
  <2> HIDE DEF f
  <2>2. DOMAIN f = DOMAIN rest \cup {behind} /\ f[behind] = 0 /\ \A p \in DOMAIN rest : p # behind => f[p] = rest[p]
    BY <2>1 DEF Put
  <2> QED
    BY <1>14, <2>2
<1>16. ASSUME ~fresh
       PROVE  /\ \A p : p \in DOMAIN f <=> p \in DOMAIN heap.offset /\ p # ptr
              /\ \A p \in DOMAIN heap.offset : p # ptr => f[p] = heap.offset[p]
  BY <1>14, <1>16
<1>17. (fresh => o2 = q) /\ (~fresh => o2 = stored)
  OBVIOUS
<1> HIDE DEF f, k, o2
<1>18. Counted(heap, t, h, k, o2, f)
  BY <1>1, <1>5, <1>6, <1>13, CountedIs DEF s1
<1>19. Steady(heap, t, h) /\ Lists(t, {}) /\ t.span_list_ = heap.span_list_ /\ t.pages = heap.pages
       /\ t.header[h].nUsed = k /\ t.header[h].oFree = o2 /\ t.header[h].Flag = -b /\ t.offset = f
  <2>1. Steady(heap, t, h) /\ Lists(t, {})
    BY <1>1, <1>18, CountedSteady
  <2> QED
    BY <1>6, <1>18, <2>1 DEF Counted
<1>20. InOrder(t)
  BY <1>0, <1>19, SteadyOrder
<1>21. c.ptr = ptr /\ c.size = bytes /\ c \in [ptr : Nat, size : Sizes]
  BY <1>10
<1> HIDE DEF c
<1>22. (\A x \in DOMAIN t.offset : t.offset[x] \in Nat) /\ D \subseteq [ptr : Nat, size : Sizes]
  <2>1. ASSUME NEW x \in DOMAIN t.offset PROVE t.offset[x] \in Nat
    <3>1. \A p \in DOMAIN heap.offset : heap.offset[p] \in Nat
      BY <1>0 DEF Sound, Typed
    <3> QED
      BY <1>15, <1>16, <1>19, <3>1
  <2>2. D \subseteq [ptr : Nat, size : Sizes]
    BY <1>1, <1>3, <1>21
  <2> QED
    BY <2>1, <2>2
<1>26. t.pages = heap.pages /\ t.pages \in Nat /\ heap.pages <= t.pages
  BY <1>1, <1>19
<1>27. CASE Twice
  <2>1. IsHeap(t) /\ \A x \in is_head_(t) : -39 <= t.header[x].Flag /\ t.header[x].Flag <= kSpanSlotSize
    BY <1>0, <1>19, SteadyIs
  <2>2. Typed(t, D)
    BY <1>0, <1>22, <1>26, <2>1 DEF Sound, Typed
  <2>3. upset' \in Broken
    BY <1>3, <1>27 DEF Broken
  <2> QED
    BY <1>1, <1>26, <2>2, <2>3, AfterLast DEF t, D
<1>28. CASE ~Twice
  <2>1. /\ o \in FreeOf(heap, h) /\ ptr \in DOMAIN heap.offset /\ o \notin UsedOf(heap, chunks, h)
        /\ stored = heap.offset[ptr] /\ o \in Objects(b)
    BY <1>9, <1>28, <1>32
  <2>2. Sound(t, D)
    <3>1. c.ptr = PtrOf(h) + o /\ c.size <= kBinSlotTemplate[b]
      BY <1>2, <1>21 DEF ptr, T
    <3>2. Placed(t, chunks \cup {c})
      BY <1>0, <1>2, <1>6, <1>19, <2>1, <3>1, PlacedObject
    <3>3. Placed(t, D)
      BY <1>3, <3>2
    <3> QED
      BY <1>20, <1>22, <3>3, OrderSound
  <2>3. upset' \in Upsets /\ (upset' = upset \/ upset' = "used behind")
        /\ (upset' = "no" => upset = "no" /\ ~(fresh /\ \E d \in chunks : d.ptr = behind))
    BY <1>3, <1>28 DEF ArenaInv, Upsets
  <2>4. Filled(heap, chunks, upset')
    BY <1>0, <2>3 DEF Filled, Whole
  <2>5. Strung(t, D, h)
    <3>1. c.ptr = PtrOf(h) + o
      BY <1>21 DEF ptr
    <3>2. t.header[h].nUsed = heap.header[h].nUsed + 1
      BY <1>19 DEF k
    <3>3. -t.header[h].Flag = b
      BY <1>2, <1>19, ClassCount
    <3>4. \A x \in Objects(b) : x \in Nat /\ (PtrOf(h) + x = ptr <=> x = o) /\ (PtrOf(h) + x = behind <=> x = q)
      <4>1. \A x \in Objects(b) : x \in Nat
        BY <1>2, ObjectsApart
      <4>2. ptr = PtrOf(h) + o /\ o \in Nat
        BY <1>7 DEF ptr, o
      <4> QED
        BY <1>7, <1>12, <4>1, <4>2
    <3>5. \A x : x \in FreeOf(t, h) <=> x \in Objects(b) /\ PtrOf(h) + x \in DOMAIN f
      BY <1>19, <3>3 DEF FreeOf
    <3>6. \A x : x \in FreeOf(heap, h) <=> x \in Objects(b) /\ PtrOf(h) + x \in DOMAIN heap.offset
      BY <1>6 DEF FreeOf
    <3>7. t.header[h].oFree \in FreeOf(t, h) \cup {heap.offset[PtrOf(h) + o]}
      <4>1. CASE fresh
        <5>1. q \in FreeOf(t, h)
          BY <1>11, <1>12, <1>15, <3>5, <4>1
        <5> QED
          BY <1>17, <1>19, <4>1, <5>1
      <4>2. CASE ~fresh
        BY <1>17, <1>19, <2>1, <4>2 DEF ptr
      <4> QED
        BY <4>1, <4>2
    <3>8. FreeOf(heap, h) \ {o} \subseteq FreeOf(t, h)
      <4> SUFFICES ASSUME NEW x \in FreeOf(heap, h), x # o PROVE x \in FreeOf(t, h)
        OBVIOUS
      <4>1. x \in Objects(b) /\ PtrOf(h) + x \in DOMAIN heap.offset /\ PtrOf(h) + x # ptr
        BY <3>4, <3>6
      <4>2. PtrOf(h) + x \in DOMAIN f
        BY <1>15, <1>16, <4>1
      <4> QED
        BY <3>5, <4>1, <4>2
    <3>9. ASSUME NEW x \in FreeOf(t, h)
          PROVE  \/ t.offset[PtrOf(h) + x] = 0
                 \/ x \in FreeOf(heap, h) /\ t.offset[PtrOf(h) + x] = heap.offset[PtrOf(h) + x]
      <4>1. x \in Objects(b) /\ PtrOf(h) + x \in DOMAIN f
        BY <3>5
      <4>2. CASE fresh /\ PtrOf(h) + x = behind
        BY <1>15, <1>19, <4>2
      <4>3. CASE ~(fresh /\ PtrOf(h) + x = behind)
        <5>1. PtrOf(h) + x \in DOMAIN heap.offset /\ f[PtrOf(h) + x] = heap.offset[PtrOf(h) + x]
          BY <1>15, <1>16, <4>1, <4>3
        <5> QED
          BY <1>19, <3>6, <4>1, <5>1
      <4> QED
        BY <4>2, <4>3
    <3> HIDE DEF o
    <3> QED
      BY <1>2, <1>3, <1>6, <1>7, <1>8, <1>19, <2>1, <3>1, <3>2, <3>7, <3>8, <3>9, StrungTaken
  <2>6. ASSUME upset' = "no" PROVE Cut(t, D, h)
    <3>0. HandedOut(heap, chunks, h, b, o, c, D, t)
      <4>1. c.ptr = PtrOf(h) + o
        BY <1>21 DEF ptr
      <4>2. o = heap.header[h].oFree /\ k = heap.header[h].nUsed + 1
        BY DEF o, k
      <4>3. Cut(heap, chunks, h)
        BY <1>8, <2>3, <2>6
      <4> QED
        BY <1>3, <1>6, <1>7, <1>70, <1>19, <4>1, <4>2, <4>3 DEF HandedOut
    <3>1. CASE fresh
      <4>1. \A d \in chunks : d.ptr # PtrOf(h) + q
        BY <1>12, <2>3, <2>6, <3>1
      <4>2. heap.offset[c.ptr] = 0 /\ o + 2 * kBinSlotTemplate[b] <= BinPages[b] * 4096
        BY <1>21, <2>1, <3>1 DEF fresh, T
      <4>3. /\ \A p : p \in DOMAIN t.offset <=> p = PtrOf(h) + q \/ (p \in DOMAIN heap.offset /\ p # c.ptr)
            /\ t.offset[PtrOf(h) + q] = 0
        BY <1>12, <1>15, <1>19, <1>21, <3>1
      <4>4. q = o + kBinSlotTemplate[b] /\ t.header[h].oFree = q
        BY <1>17, <1>19, <3>1 DEF q, T
      <4>5. BehindFollows(heap, chunks, h, b, o, c, t, q)
        BY <4>1, <4>2, <4>3, <4>4 DEF BehindFollows
      <4> QED
        BY <1>2, <3>0, <4>5, CutFresh
    <3>2. CASE ~fresh
      <4>1. ~(heap.offset[c.ptr] = 0 /\ o + 2 * kBinSlotTemplate[b] <= BinPages[b] * 4096)
        BY <1>21, <2>1, <3>2 DEF fresh, T
      <4>2. StoredFollows(heap, h, b, o, c, t)
        BY <1>16, <1>17, <1>19, <1>21, <2>1, <3>2, <4>1 DEF StoredFollows
      <4> QED
        BY <1>2, <3>0, <4>2, CutTaken
    <3> QED
      BY <3>1, <3>2
  <2>7. Home(heap, ptr) = h /\ (fresh => Home(heap, behind) = h /\ InPage(heap, behind))
    <3>1. Home(heap, ptr) = h
      BY <1>1, <1>6, <2>1, ObjectHome DEF ptr
    <3>2. ASSUME fresh PROVE Home(heap, behind) = h /\ InPage(heap, behind)
      <4>1. q \in Objects(-heap.header[h].Flag)
        BY <1>6, <1>11, <3>2
      <4>2. Home(heap, PtrOf(h) + q) = h
        BY <1>1, <1>6, <4>1, ObjectHome
      <4> QED
        BY <1>6, <1>12, <4>1, <4>2 DEF InPage
    <3> QED
      BY <3>1, <3>2
  <2>8. ASSUME NEW p \in Nat, Home(heap, p) # h PROVE Aside(heap, chunks, t, D, p)
    <3>1. p # ptr /\ (fresh => p # behind)
      BY <2>7, <2>8
    <3>2. /\ p \in DOMAIN heap.offset <=> p \in DOMAIN t.offset
          /\ p \in DOMAIN heap.offset => t.offset[p] = heap.offset[p]
      BY <1>15, <1>16, <1>19, <3>1
    <3>3. (\E d \in chunks : d.ptr = p) <=> (\E d \in D : d.ptr = p)
      BY <1>3, <1>21, <3>1
    <3> QED
      BY <3>2, <3>3 DEF Aside
  <2>9. \A p \in DOMAIN t.offset : InPage(heap, p)
    <3>1. \A p \in DOMAIN heap.offset : InPage(heap, p)
      BY <1>0 DEF Filled
    <3> QED
      BY <1>15, <1>16, <1>19, <2>7, <3>1
  <2>10. Whole(t, D, h, upset')
    BY <2>5, <2>6 DEF Whole
  <2>11. Filled(t, D, upset')
    BY <1>0, <1>6, <1>19, <2>4, <2>8, <2>9, <2>10, SteadyFilled
  <2> QED
    BY <1>1, <1>20, <1>26, <2>2, <2>3, <2>11, AfterInit DEF t, D
<1> QED
  BY <1>27, <1>28

-----------------------------------------------------------------------------
(* Arena: the theorems *)

(* Before Init there are no pages. *)
LEMMA EmptyIs ==
  /\ IsHeap(EmptyHeap) /\ is_head_(EmptyHeap) = {} /\ EmptyHeap.pages = 0
  /\ EmptyHeap.span_list_ = [n \in 0 .. kSpanSlotSize |-> 0] /\ EmptyHeap.bin_ = [b \in Bins |-> 0]
  /\ DOMAIN EmptyHeap.offset = {}
<1>1. DOMAIN << >> = {}
  OBVIOUS
<1>2. << >> = [h \in {} |-> << >>[h]]
  OBVIOUS
<1>3. /\ EmptyHeap.pages = 0 /\ EmptyHeap.header = << >> /\ EmptyHeap.offset = << >>
      /\ EmptyHeap.span_list_ = [n \in 0 .. kSpanSlotSize |-> 0] /\ EmptyHeap.bin_ = [b \in Bins |-> 0]
      /\ EmptyHeap = [pages |-> EmptyHeap.pages, header |-> EmptyHeap.header, span_list_ |-> EmptyHeap.span_list_,
                      bin_ |-> EmptyHeap.bin_, offset |-> EmptyHeap.offset]
  BY DEF EmptyHeap
<1>4. is_head_(EmptyHeap) = {}
  BY <1>1, <1>3 DEF is_head_
<1>5. EmptyHeap.header = [h \in is_head_(EmptyHeap) |-> EmptyHeap.header[h]]
  BY <1>2, <1>3, <1>4
<1>6. EmptyHeap.span_list_ \in [0 .. kSpanSlotSize -> Refs] /\ EmptyHeap.bin_ \in [Bins -> Refs]
  BY <1>3 DEF Refs
<1>7. IsHeap(EmptyHeap)
  BY <1>3, <1>4, <1>5, <1>6 DEF IsHeap
<1> QED
  BY <1>1, <1>3, <1>4, <1>7

(* The arena begins with the invariant. *)
LEMMA InitHolds ==
  ASSUME ArenaInit
  PROVE  ArenaInv
<1> DEFINE s == EmptyHeap
<1>0. heap = s /\ chunks = {} /\ upset = "no"
  BY DEF ArenaInit
<1>1. /\ IsHeap(s) /\ is_head_(s) = {} /\ s.pages = 0
      /\ s.span_list_ = [n \in 0 .. kSpanSlotSize |-> 0] /\ s.bin_ = [b \in Bins |-> 0]
      /\ DOMAIN s.offset = {}
  BY EmptyIs
<1> HIDE DEF s
<1>2. Spans(s) = {} /\ kSpanSlotSize \in Nat /\ kPageTotal \in Nat
  BY <1>1, PagesAssumption DEF Spans
<1>3. Tiled(s)
  <2>1. Tiles({}, Lengths(s), 0)
    BY DEF Tiles
  <2> QED
    BY <1>1, <1>2, <2>1 DEF Tiled, Shaped
<1>4. Lists(s, {})
  <2> SUFFICES ASSUME NEW k \in Kinds PROVE List(First(s, k), Members(s, {}, k), Nx(s), Pr(s))
    BY DEF Lists
  <2>1. Members(s, {}, k) = {}
    BY <1>1 DEF Members
  <2>2. First(s, k) = 0
    BY <1>1, KindRange DEF First
  <2> QED
    BY <2>1, <2>2 DEF List
<1>5. InOrder(s)
  BY <1>1, <1>2, <1>3, <1>4 DEF InOrder
<1>6. Sound(s, {})
  BY <1>1, <1>5, OrderSound DEF Placed
<1>7. Filled(s, {}, "no")
  BY <1>1, <1>2 DEF Filled
<1>8. Progress(0)
  <2>1. 0 \in 0 .. InitPairs /\ 0 = 2 * 0
    BY PagesAssumption
  <2> QED
    BY <2>1 DEF Progress
<1> QED
  BY <1>0, <1>1, <1>5, <1>6, <1>7, <1>8 DEF ArenaInv, Sound, Upsets

(* The invariant is inductive: what Construct, Malloc and Free do to the    *)
(* pages, the lists and the objects keeps it, also with an object in use in *)
(* a free list, and where the code otherwise leaves its structure, what the *)
(* invariant says of that step.                                             *)
THEOREM ArenaInductive == ArenaSpec => []ArenaInv
<1>1. ArenaInit => ArenaInv
  BY InitHolds
<1>2. ArenaInv /\ [ArenaNext]_arenaVars => ArenaInv'
  <2> SUFFICES ASSUME ArenaInv, [ArenaNext]_arenaVars PROVE ArenaInv'
    OBVIOUS
  <2>1. CASE UNCHANGED arenaVars
    BY <2>1 DEF arenaVars, ArenaInv, GoesOn
  <2>2. CASE Construct
    BY <2>2, ConstructKeeps
  <2>3. ASSUME GoesOn, NEW bytes \in Sizes, Malloc(bytes) PROVE ArenaInv'
    <3>1. heap.pages >= Constructed
      BY <2>3 DEF Malloc
    <3>2. CASE MallocBig(bytes)
      BY <2>3, <3>1, <3>2, MallocBigKeeps
    <3>3. CASE MallocObject(bytes)
      BY <2>3, <3>1, <3>3, MallocObjectKeeps
    <3>4. CASE MallocPage(bytes)
      BY <2>3, <3>1, <3>4, MallocPageKeeps
    <3>5. CASE MallocThrows(bytes)
      BY <2>1, <3>5 DEF MallocThrows
    <3> QED
      BY <2>3, <3>2, <3>3, <3>4, <3>5 DEF Malloc
  <2>4. ASSUME GoesOn, NEW c \in chunks, Free(c) PROVE ArenaInv'
    <3>1. CASE FreeBig(c)
      BY <2>4, <3>1, FreeBigKeeps
    <3>2. CASE FreeObject(c)
      BY <2>4, <3>2, FreeObjectKeeps
    <3>3. CASE FreePage(c)
      BY <2>4, <3>3, FreePageKeeps
    <3> QED
      BY <2>4, <3>1, <3>2, <3>3 DEF Free
  <2>5. CASE Ended
    BY <2>1, <2>5 DEF Ended
  <2> QED
    BY <2>1, <2>2, <2>3, <2>4, <2>5 DEF ArenaNext
<1> QED
  BY <1>1, <1>2, PTL DEF ArenaSpec

(* The fields of the heap and of every header have their types. *)
THEOREM ArenaTypes == ArenaSpec => []ArenaTypeOK
<1>1. ArenaInv => ArenaTypeOK
  <2> SUFFICES ASSUME ArenaInv PROVE ArenaTypeOK
    OBVIOUS
  <2>1. /\ IsHeap(heap) /\ heap.pages \in Nat /\ heap.pages <= kPageTotal
        /\ \A h \in is_head_(heap) : -39 <= heap.header[h].Flag /\ heap.header[h].Flag <= kSpanSlotSize
        /\ \A x \in DOMAIN heap.offset : heap.offset[x] \in Nat
        /\ chunks \subseteq [ptr : Nat, size : Sizes]
    BY DEF ArenaInv, Typed
  <2>2. ASSUME NEW h \in is_head_(heap)
        PROVE  heap.header[h] \in [Flag : (-kBinSlotSize) .. kSpanSlotSize, hPri : PageHandles \cup {0},
                                   hNext : PageHandles \cup {0, -1}, oFree : Nat, nUsed : Nat]
    <3>1. PICK r \in Header : r = heap.header[h]
      BY <2>1 DEF IsHeap
    <3>2. r.Flag \in (-kBinSlotSize) .. kSpanSlotSize
      BY <2>1, <3>1, ClassCount, PagesAssumption DEF Header
    <3>3. r \in [Flag : (-kBinSlotSize) .. kSpanSlotSize, hPri : PageHandles \cup {0},
                 hNext : PageHandles \cup {0, -1}, oFree : Nat, nUsed : Nat]
      BY <3>2 DEF Header, Refs
    <3> QED
      BY <3>1, <3>3
  <2>3. heap.pages \in 0 .. kPageTotal
    BY <2>1, PagesAssumption
  <2>4. upset \in {"no", "used behind", "handed out twice", "misplaced", "bits cleared", "nothing left"}
    BY DEF ArenaInv, Upsets, Broken
  <2>5. is_head_(heap) \subseteq PageHandles /\ heap.span_list_ \in [0 .. kSpanSlotSize -> PageHandles \cup {0}]
        /\ heap.bin_ \in [Bins -> PageHandles \cup {0}]
    BY <2>1 DEF IsHeap, Refs
  <2> QED
    BY <2>1, <2>2, <2>3, <2>4, <2>5 DEF ArenaTypeOK
<1> QED
  BY <1>1, ArenaInductive, PTL

(* Chunks in use do not overlap and lie in their span behind its header, up *)
(* to the Malloc that hands out an object in use, which a free list can     *)
(* lead to, and up to the Free that clears head bits.                       *)
THEOREM ChunksApart == ArenaSpec => []NoOverlap
<1>1. ASSUME ArenaInv, upset \notin Broken PROVE NoOverlap
  <2>1. Sound(heap, chunks)
    BY <1>1 DEF ArenaInv
  <2> QED
    BY <2>1, PlacedApart DEF Sound, Typed
<1>2. upset \in Broken => NoOverlap
  BY DEF NoOverlap, Broken
<1>3. ArenaInv => NoOverlap
  BY <1>1, <1>2
<1> QED
  BY <1>3, ArenaInductive, PTL

(* A list of the heap leads through its members, forwards and backwards. *)
LEMMA LinkedBothWays ==
  ASSUME IsHeap(heap), Lists(heap, {}), NEW k \in Kinds
  PROVE  DoublyLinked(First(heap, k), Members(heap, {}, k))
<1> DEFINE first == First(heap, k)
           S == Members(heap, {}, k)
<1>1. List(first, S, Nx(heap), Pr(heap))
  BY DEF Lists
<1>2. S \subseteq is_head_(heap)
  BY DEF Members
<1>3. [x \in S |-> Nx(heap)[x]] = [x \in S |-> heap.header[x].hNext]
  BY <1>2 DEF Nx
<1>4. Reaches(first, [x \in S |-> Nx(heap)[x]], S)
  <2> HIDE DEF first, S
  <2> QED
    BY <1>1, ListReaches
<1>5. Reaches(first, [x \in S |-> heap.header[x].hNext], S)
  BY <1>3, <1>4
<1>6. first > 0 => heap.header[first].hPri = 0
  <2>1. first # 0 => heap.header[first].hPri = 0
    BY Listed
  <2> QED
    BY <2>1
<1>7. ASSUME NEW h \in S, heap.header[h].hNext > 0 PROVE heap.header[heap.header[h].hNext].hPri = h
  <2>1. heap.header[h].hNext # 0
    BY <1>7
  <2> QED
    BY <2>1, Listed
<1> HIDE DEF first, S
<1>8. DoublyLinked(first, S)
  BY <1>5, <1>6, <1>7 DEF DoublyLinked
<1> QED
  BY <1>8 DEF first, S

(* Splitting, merging and moving spans leaves the spans tiling the pages,   *)
(* and every span is in the list where Malloc or Free will find it.         *)
THEOREM SpansStayAccounted == ArenaSpec => []SpansAccounted
<1>1. ArenaInv => SpansAccounted
  <2> SUFFICES ASSUME ArenaInv, GoesOn PROVE SpansTile /\ EverySpanListed
    BY DEF SpansAccounted
  <2>0. Sound(heap, chunks) /\ InOrder(heap) /\ Filled(heap, chunks, upset)
    BY DEF ArenaInv, GoesOn, Broken
  <2>1. IsHeap(heap) /\ Tiled(heap) /\ is_head_(heap) = Spans(heap) /\ Lists(heap, {}) /\ heap.pages \in Nat
    BY <2>0 DEF InOrder
  <2>2. Tiles(is_head_(heap), Lengths(heap), heap.pages)
    BY <2>1 DEF Tiled
  <2>3. \A h \in is_head_(heap) : Lengths(heap)[h] = Pages(heap, h)
    BY DEF Lengths
  <2>4. \A h \in is_head_(heap) : h + Pages(heap, h) <= heap.pages + 1
    BY <2>2, <2>3 DEF Tiles
  <2>5. ASSUME NEW p \in 1 .. heap.pages
        PROVE  Cardinality({h \in is_head_(heap) : p \in h .. h + Pages(heap, h) - 1}) = 1
    <3> DEFINE x == Max({y \in is_head_(heap) : y <= p} \cup {0})
               S == {h \in is_head_(heap) : p \in h .. h + Pages(heap, h) - 1}
    <3>1. x \in is_head_(heap) /\ x <= p /\ p < x + Lengths(heap)[x]
      BY <2>2, TilesCover
    <3>2. p \in Nat
      BY <2>1
    <3>3. \A h \in is_head_(heap) : h \in Nat /\ Pages(heap, h) \in Nat
      BY <2>2, <2>3 DEF Tiles
    <3>4. ASSUME NEW h \in S PROVE h = x
      <4>1. h \in is_head_(heap) /\ p \in h .. h + Pages(heap, h) - 1
        OBVIOUS
      <4>2. h <= p /\ p < h + Lengths(heap)[h]
        BY <2>3, <3>2, <3>3, <4>1
      <4> QED
        BY <2>2, <3>2, <4>1, <4>2, TilesAt
    <3> HIDE DEF x
    <3>5. x \in S
      BY <2>3, <3>1, <3>2, <3>3
    <3> HIDE DEF S
    <3>6. S = {x}
      BY <3>4, <3>5
    <3> QED
      BY <3>6, FS_Singleton DEF S
  <2>6. ASSUME NEW n \in 1 .. kSpanSlotSize
        PROVE  DoublyLinked(heap.span_list_[n],
                            {h \in is_head_(heap) : heap.header[h].Flag = n /\ heap.header[h].hNext >= 0})
    <3>1. n \in Kinds /\ First(heap, n) = heap.span_list_[n]
      BY SizeKind
    <3>2. \A h \in is_head_(heap) : heap.header[h].hNext # -1 <=> heap.header[h].hNext >= 0
      BY <2>1, HeaderTypes
    <3>3. Members(heap, {}, n) = {h \in is_head_(heap) : heap.header[h].Flag = n /\ heap.header[h].hNext >= 0}
      BY <3>2 DEF Members
    <3>4. DoublyLinked(First(heap, n), Members(heap, {}, n))
      BY <2>1, <3>1, LinkedBothWays
    <3> QED
      BY <3>1, <3>3, <3>4
  <2>7. ASSUME NEW b \in Bins
        PROVE  DoublyLinked(heap.bin_[b], {h \in PageSpans : heap.header[h].Flag = -b})
    <3>1. -b \in Kinds /\ -b < 0 /\ First(heap, -b) = heap.bin_[b]
      BY BinKind
    <3>2. \A h \in is_head_(heap) : heap.header[h].Flag < 0 => heap.header[h].hNext # -1
      BY <2>1, SpanCases
    <3>3. Members(heap, {}, -b) = {h \in PageSpans : heap.header[h].Flag = -b}
      BY <3>1, <3>2 DEF Members, PageSpans
    <3>4. DoublyLinked(First(heap, -b), Members(heap, {}, -b))
      BY <2>1, <3>1, LinkedBothWays
    <3> QED
      BY <3>1, <3>3, <3>4
  <2>8. ASSUME NEW h \in is_head_(heap), NEW c \in chunks, c.ptr = PtrOf(h) + kSpanHeaderSize
        PROVE  heap.header[h].hNext = -1
    <3>1. h \in Spans(heap) /\ h \in Nat
      BY <2>1, SpanCases
    <3>2. Home(heap, c.ptr) = h
      BY <2>1, <2>8, <3>1, BigHome
    <3>3. Fits(heap, c, h)
      BY <2>0, <3>2, ChunkHome
    <3>4. ASSUME heap.header[h].Flag < 0, NEW o \in Objects(-heap.header[h].Flag), c.ptr = PtrOf(h) + o PROVE FALSE
      <4>1. o \in Nat /\ o >= 16
        BY <2>1, <3>1, <3>4, SpanCases, ObjectsApart
      <4>2. PtrOf(h) \in Int
        BY <3>1 DEF PtrOf, kPageLen
      <4> QED
        BY <2>8, <3>4, <4>1, <4>2 DEF kSpanHeaderSize
    <3> QED
      BY <3>3, <3>4 DEF Fits
  <2>9. \A h \in is_head_(heap) :
          heap.header[h].hNext = -1 <=> \E c \in chunks : c.ptr = PtrOf(h) + kSpanHeaderSize
    BY <2>0, <2>1, <2>8 DEF Filled
  <2>10. SpansTile
    BY <2>4, <2>5 DEF SpansTile
  <2>11. EverySpanListed
    BY <2>6, <2>7, <2>9 DEF EverySpanListed
  <2> QED
    BY <2>10, <2>11
<1> QED
  BY <1>1, ArenaInductive, PTL

(* A page knows how many of its objects are in use, its free list leads     *)
(* through the free ones, and the others were never handed out.             *)
THEOREM ObjectsStayAccounted == ArenaSpec => []ObjectsAccounted
<1>1. ArenaInv => ObjectsAccounted
  <2> SUFFICES ASSUME ArenaInv, upset = "no", NEW h \in PageSpans
               PROVE  /\ heap.header[h].nUsed = Cardinality(Used(h))
                      /\ Used(h) \cap Unused(h) = {}
                      /\ Reaches(heap.header[h].oFree, [o \in Unused(h) |-> heap.offset[PtrOf(h) + o]], Unused(h))
                      /\ \A o \in Objects(-heap.header[h].Flag) \ (Used(h) \cup Unused(h)) :
                           \E last \in Unused(h) :
                             /\ heap.offset[PtrOf(h) + last] = 0
                             /\ last < o
                             /\ \A k \in Used(h) \cup Unused(h) : k <= last
    BY DEF ObjectsAccounted
  <2>1. InOrder(heap) /\ Filled(heap, chunks, upset)
    BY DEF ArenaInv, GoesOn
  <2>2. Cut(heap, chunks, h)
    BY <2>1 DEF Filled, Whole, InOrder, PageSpans
  <2>3. Used(h) = UsedOf(heap, chunks, h) /\ Unused(h) = FreeOf(heap, h)
    BY DEF Used, UsedOf, Unused, FreeOf
  <2> DEFINE U == UsedOf(heap, chunks, h)
             F == FreeOf(heap, h)
             f == [o \in F |-> heap.offset[PtrOf(h) + o]]
  <2>4. Reaches(heap.header[h].oFree, f, F)
    <3>1. Chain(heap.header[h].oFree, F, f)
      BY <2>2 DEF Cut
    <3>2. [x \in F |-> f[x]] = f
      OBVIOUS
    <3> HIDE DEF F, f
    <3>3. PICK pri : List(heap.header[h].oFree, F, f, pri)
      BY <3>1 DEF Chain
    <3>4. Reaches(heap.header[h].oFree, [x \in F |-> f[x]], F)
      BY <3>3, ListReaches
    <3> QED
      BY <3>2, <3>4
  <2>5. heap.header[h].nUsed = Cardinality(U) /\ U \cap F = {} /\ Fresh(heap, h, U, F)
    BY <2>2 DEF Cut
  <2>6. \A o \in Objects(-heap.header[h].Flag) \ (U \cup F) :
          \E last \in F :
            /\ heap.offset[PtrOf(h) + last] = 0
            /\ last < o
            /\ \A k \in U \cup F : k <= last
    <3> HIDE DEF U, F
    <3> QED
      BY <2>5 DEF Fresh
  <2> QED
    BY <2>3, <2>4, <2>5, <2>6
<1> QED
  BY <1>1, ArenaInductive, PTL
=============================================================================
