------------------------ MODULE FastLocalQueueProofs ------------------------
(***************************************************************************)
(* Proofs about FastLocalQueue.  For any finite number of consumers:       *)
(* types, and that a pop behind the gate reads a slot whose push finished. *)
(* With the single producer the queue asks for: the ring is never overrun, *)
(* and failed attempts leave no trace.  With one consumer as well: no      *)
(* element is overwritten, and the ring is a bounded FIFO queue.           *)
(***************************************************************************)
EXTENDS FastLocalQueue, FiniteSetTheorems, SequenceTheorems, TLAPS

-----------------------------------------------------------------------------
(* Types *)

(* The index expression names a slot of the ring. *)
LEMMA SlotInRing == \A n \in Nat : Slot(n) \in 0 .. QueueSize - 1
<1> SUFFICES ASSUME NEW n \in Nat PROVE Slot(n) \in 0 .. QueueSize - 1
  OBVIOUS
<1>1. n % Width \in Nat
  BY SizeAssumption DEF HalfWidth
<1> QED
  BY <1>1, SizeAssumption DEF Slot

(* Every counter is a natural number and every local has its type.          *)
THEOREM TypeCorrect == Spec => []TypeOK
<1> USE SizeAssumption, ThreadsAssumption DEF PushPC, PopPC
<1>1. Init => TypeOK
  BY DEF Init, TypeOK, Threads
<1>2. TypeOK /\ [Next]_vars => TypeOK'
  <2> SUFFICES ASSUME TypeOK, [Next]_vars PROVE TypeOK'
    OBVIOUS
  <2> USE DEF TypeOK, Goto, counters
  <2>1. ASSUME NEW p \in Producers, Push(p) PROVE TypeOK'
    <3>0. p \in Threads
      BY DEF Threads
    <3>1. ASSUME NEW x \in Items, PushLoad(p, x) PROVE TypeOK'
      BY <3>0, <3>1 DEF PushLoad
    <3>2. CASE PushCount(p)
      BY <3>0, <3>2 DEF PushCount
    <3>3. CASE PushTest(p)
      BY <3>0, <3>3 DEF PushTest
    <3>4. CASE PushRevoke(p)
      BY <3>0, <3>4 DEF PushRevoke
    <3>5. CASE PushClaim(p)
      BY <3>0, <3>5 DEF PushClaim
    <3>6. CASE PushWrite(p)
      <4>1. Slot(slot[p]) \in 0 .. QueueSize - 1 /\ item[p] \in Items \cup {NoItem}
        BY <3>0, SlotInRing
      <4>2. data' \in [0 .. QueueSize - 1 -> Items \cup {NoItem}]
        BY <3>6, <4>1 DEF PushWrite
      <4> QED
        BY <3>0, <3>6, <4>2 DEF PushWrite
    <3>7. CASE PushCommit(p)
      BY <3>0, <3>7 DEF PushCommit
    <3> QED
      BY <2>1, <3>1, <3>2, <3>3, <3>4, <3>5, <3>6, <3>7 DEF Push
  <2>2. ASSUME NEW c \in Consumers, Pop(c) PROVE TypeOK'
    <3>0. c \in Threads
      BY DEF Threads
    <3>1. CASE PopLoad(c)
      BY <3>0, <3>1 DEF PopLoad
    <3>2. CASE PopCount(c)
      BY <3>0, <3>2 DEF PopCount
    <3>3. CASE PopTest(c)
      BY <3>0, <3>3 DEF PopTest
    <3>4. CASE PopRevoke(c)
      BY <3>0, <3>4 DEF PopRevoke
    <3>5. CASE PopClaim(c)
      BY <3>0, <3>5 DEF PopClaim
    <3>6. CASE PopRead(c)
      <4>1. data[Slot(slot[c])] \in Items \cup {NoItem}
        BY <3>0, SlotInRing
      <4> QED
        BY <3>0, <3>6, <4>1 DEF PopRead
    <3>7. CASE PopCommit(c)
      BY <3>0, <3>7 DEF PopCommit
    <3> QED
      BY <2>2, <3>1, <3>2, <3>3, <3>4, <3>5, <3>6, <3>7 DEF Pop
  <2>3. CASE UNCHANGED vars
    BY <2>3 DEF vars
  <2> QED
    BY <2>1, <2>2, <2>3 DEF Next, Rest
<1> QED
  BY <1>1, <1>2, PTL DEF Spec

-----------------------------------------------------------------------------
(* The inductive invariant *)

At(l) == {c \in Consumers : pc[c] = l}

(* the pops in front of the test that counted themselves up to m *)
Upto(m) == {c \in At("pop_test") : count[c] <= m}

(* Every pop that counted itself is on its way, has taken a slot, or has    *)
(* been taken back.                                                         *)
Accounts ==
  dequeue_count = head_fast + Cardinality(At("pop_claim")) + Cardinality(At("pop_test"))
                  + Cardinality(At("pop_revoke")) + dequeue_revoke

(* What a pop in front of its test knows. *)
Snapshots ==
  \A c \in Consumers :
    /\ pc[c] = "pop_count" => revoke[c] <= dequeue_revoke
    /\ pc[c] = "pop_test" => /\ count[c] <= dequeue_count
                             /\ count[c] - revoke[c] - tail <= HalfWidth

(* Slots for all that passed the gate, and for all in front of it that      *)
(* counted themselves up to m, are published; whoever counted itself later  *)
(* asks for no less than a slot for each of those before it.                *)
Certified(m) ==
  /\ m <= dequeue_count
  /\ head_fast + Cardinality(At("pop_claim")) + Cardinality(Upto(m)) <= tail
  /\ \A c \in At("pop_test") : count[c] > m =>
       head_fast + Cardinality(At("pop_claim")) + Cardinality(Upto(count[c]))
         <= count[c] - revoke[c]

Gate == \E m \in Nat : Certified(m)

GateInv == TypeOK /\ Accounts /\ Snapshots /\ Gate /\ ReadsCommitted

-----------------------------------------------------------------------------
(* Lemmas *)

(* The test of pop, on counters that wrap: unless the snapshot is too old,  *)
(* a pop that does not find the queue empty asks for no more than was       *)
(* pushed.                                                                  *)
LEMMA NotEmpty ==
  ASSUME TypeOK, NEW c \in Consumers, count[c] - revoke[c] - tail <= HalfWidth, ~Empty(c)
  PROVE  count[c] - revoke[c] <= tail
<1>1. /\ tail \in Nat /\ count[c] \in Nat /\ revoke[c] \in Nat
      /\ HalfWidth \in Nat /\ Width = 2 * HalfWidth
  BY SizeAssumption DEF TypeOK, Threads, HalfWidth
<1> DEFINE d == count[c] - revoke[c] - tail
<1>2. SUFFICES ASSUME 0 < d PROVE FALSE
  BY <1>1
<1>3. Sub(tail, count[c] - revoke[c]) = (-d) % (2 * HalfWidth)
  BY <1>1 DEF Sub
<1> HIDE DEF d
<1>4. d \in Int /\ d <= HalfWidth
  BY <1>1 DEF d
<1>5. (-d) % (2 * HalfWidth) = 2 * HalfWidth - d
  BY <1>1, <1>2, <1>4
<1> QED
  BY <1>1, <1>2, <1>3, <1>4, <1>5 DEF Empty

(* Sets of consumers are finite. *)
LEMMA FiniteAt ==
  ASSUME NEW S \in SUBSET Consumers
  PROVE  IsFiniteSet(S) /\ Cardinality(S) \in Nat
BY ThreadsAssumption, FS_Subset, FS_CardinalityType

(* A thread that joins a set of consumers counts for one. *)
LEMMA Joins ==
  ASSUME NEW S \in SUBSET Consumers, NEW c, c \notin S
  PROVE  Cardinality(S \cup {c}) = Cardinality(S) + 1
BY FiniteAt, FS_AddElement

(* One that leaves a set of consumers counts for one less. *)
LEMMA Leaves ==
  ASSUME NEW S \in SUBSET Consumers, NEW c \in S
  PROVE  Cardinality(S \ {c}) = Cardinality(S) - 1
BY FiniteAt, FS_RemoveElement

(* A step of c from one label to another moves it between the two sets and  *)
(* leaves the others alone.                                                 *)
LEMMA Moves ==
  ASSUME TypeOK, NEW c \in Consumers, NEW from, NEW to, Goto(c, from, to), from # to
  PROVE  /\ c \in At(from) /\ c \notin At(to)
         /\ At(from)' = At(from) \ {c}
         /\ At(to)' = At(to) \cup {c}
         /\ \A l : l # from /\ l # to => At(l)' = At(l)
BY DEF TypeOK, Threads, Goto, At

(* What changes neither the pops behind and in front of the gate, nor what  *)
(* they know, and takes no published slot back, keeps the gate.             *)
LEMMA GateFrame ==
  ASSUME TypeOK, TypeOK', Gate, At("pop_claim")' = At("pop_claim"),
         At("pop_test")' = At("pop_test"),
         \A c \in At("pop_test") : count'[c] = count[c] /\ revoke'[c] = revoke[c],
         head_fast' = head_fast, dequeue_count' >= dequeue_count, tail' >= tail
  PROVE  Gate'
<1>1. PICK m \in Nat : Certified(m)
  BY DEF Gate
<1>2. \A n : Upto(n)' = Upto(n)
  BY DEF Upto
<1>3. Upto(m) \in SUBSET Consumers /\ At("pop_claim") \in SUBSET Consumers
  BY DEF Upto, At
<1>4. Cardinality(Upto(m)) \in Nat /\ Cardinality(At("pop_claim")) \in Nat
  BY <1>3, FiniteAt
<1>5. Certified(m)'
  <2>1. m <= dequeue_count'
    BY <1>1 DEF Certified, TypeOK
  <2>2. head_fast' + Cardinality(At("pop_claim")') + Cardinality(Upto(m)') <= tail'
    <3>1. head_fast + Cardinality(At("pop_claim")) + Cardinality(Upto(m)) <= tail
      BY <1>1 DEF Certified
    <3>2. Cardinality(At("pop_claim")') = Cardinality(At("pop_claim")) /\ Cardinality(Upto(m)') = Cardinality(Upto(m))
      BY <1>2
    <3>3. head_fast \in Nat /\ tail \in Nat /\ tail' \in Nat
      BY DEF TypeOK
    <3> QED
      BY <3>1, <3>2, <3>3, <1>4
  <2>3. \A c \in At("pop_test")' : count'[c] > m =>
          head_fast' + Cardinality(At("pop_claim")') + Cardinality(Upto(count[c])')
            <= count'[c] - revoke'[c]
    BY <1>1, <1>2 DEF Certified
  <2> QED
    BY <2>1, <2>2, <2>3 DEF Certified
<1> QED
  BY <1>5 DEF Gate

(* push leaves the consumers and their counters alone, and never takes a    *)
(* published slot back.                                                     *)
LEMMA PushFrame ==
  ASSUME TypeOK, NEW p \in Producers, Push(p)
  PROVE  /\ \A c \in Consumers : /\ pc'[c] = pc[c] /\ count'[c] = count[c]
                                 /\ revoke'[c] = revoke[c] /\ slot'[c] = slot[c]
         /\ head_fast' = head_fast /\ tail' >= tail
         /\ dequeue_count' = dequeue_count /\ dequeue_revoke' = dequeue_revoke
<1> USE DEF TypeOK, Threads, Goto, counters
<1>1. \A c \in Consumers : c # p
  BY ThreadsAssumption
<1>2. ASSUME NEW x \in Items, PushLoad(p, x)
      PROVE  /\ \A c \in Consumers : /\ pc'[c] = pc[c] /\ count'[c] = count[c]
                                     /\ revoke'[c] = revoke[c] /\ slot'[c] = slot[c]
             /\ UNCHANGED counters
  BY <1>1, <1>2 DEF PushLoad
<1>3. CASE PushCount(p)
  BY <1>1, <1>3 DEF PushCount
<1>4. CASE PushTest(p)
  BY <1>1, <1>4 DEF PushTest
<1>5. CASE PushRevoke(p)
  BY <1>1, <1>5 DEF PushRevoke
<1>6. CASE PushClaim(p)
  BY <1>1, <1>6 DEF PushClaim
<1>7. CASE PushWrite(p)
  BY <1>1, <1>7 DEF PushWrite
<1>8. CASE PushCommit(p)
  BY <1>1, <1>8 DEF PushCommit
<1> QED
  BY <1>2, <1>3, <1>4, <1>5, <1>6, <1>7, <1>8 DEF Push

(* The sizes that Accounts and Certified add up. *)
LEMMA Sizes ==
  /\ \A l : At(l) \in SUBSET Consumers
  /\ Cardinality(At("pop_test")) \in Nat
  /\ Cardinality(At("pop_claim")) \in Nat
  /\ Cardinality(At("pop_revoke")) \in Nat
BY FiniteAt DEF At

(* The counters that Accounts and Certified add up. *)
LEMMA Numbers ==
  TypeOK => /\ dequeue_count \in Nat /\ dequeue_revoke \in Nat
            /\ head_fast \in Nat /\ tail \in Nat
BY DEF TypeOK

(* Those in front of the test are finitely many. *)
LEMMA UptoSizes == \A n : Upto(n) \in SUBSET Consumers /\ Cardinality(Upto(n)) \in Nat
BY FiniteAt DEF At, Upto

-----------------------------------------------------------------------------
(* The steps of pop that pass by the gate *)

(* A pop that counts itself: it asks for a slot behind all that are under   *)
(* way, since the revoke counter it read is no more than the present one.   *)
LEMMA PopCountKeeps ==
  ASSUME GateInv, TypeOK', NEW c \in Consumers, PopCount(c)
  PROVE  GateInv'
<1> USE DEF GateInv
<1>1. /\ c \in At("pop_count") /\ c \notin At("pop_test")
      /\ At("pop_test")' = At("pop_test") \cup {c}
      /\ At("pop_claim")' = At("pop_claim")
      /\ At("pop_revoke")' = At("pop_revoke")
  BY Moves DEF PopCount
<1>2. Cardinality(At("pop_test")') = Cardinality(At("pop_test")) + 1
  BY <1>1, Sizes, Joins
<1>3. Accounts'
  <2>1. /\ dequeue_count' = dequeue_count + 1
        /\ head_fast' = head_fast /\ dequeue_revoke' = dequeue_revoke
    BY DEF PopCount
  <2> QED
    BY <1>1, <1>2, <2>1, Numbers, Sizes DEF Accounts
<1>4. Snapshots'
  <2> SUFFICES ASSUME NEW d \in Consumers
               PROVE  /\ pc'[d] = "pop_count" => revoke'[d] <= dequeue_revoke'
                      /\ pc'[d] = "pop_test" =>
                           /\ count'[d] <= dequeue_count'
                           /\ count'[d] - revoke'[d] - tail' <= HalfWidth
    BY DEF Snapshots
  <2>1. CASE d = c
    BY <2>1 DEF PopCount, HazardLimited, Goto, TypeOK, Threads
  <2>2. CASE d # c
    BY <2>2 DEF Snapshots, PopCount, Goto, TypeOK, Threads
  <2> QED
    BY <2>1, <2>2
<1>5. ReadsCommitted'
  BY DEF ReadsCommitted, PopCount, Goto, TypeOK, Threads
<1>6. Gate'
  <2>1. PICK m \in Nat : Certified(m)
    BY DEF Gate
  <2>2. \A n \in Nat : n <= dequeue_count => Upto(n)' = Upto(n)
    BY <1>1 DEF Upto, PopCount, At, TypeOK, Threads
  <2>3. m <= dequeue_count'
    BY <2>1 DEF Certified, PopCount, TypeOK
  <2>4. head_fast' + Cardinality(At("pop_claim")') + Cardinality(Upto(m)') <= tail'
    BY <1>1, <2>1, <2>2 DEF Certified, PopCount
  <2>5. ASSUME NEW d \in At("pop_test")', count'[d] > m
        PROVE  head_fast' + Cardinality(At("pop_claim")') + Cardinality(Upto(count[d])')
                 <= count'[d] - revoke'[d]
    <3>1. CASE d = c
      <4>1. count'[d] = dequeue_count + 1 /\ revoke'[d] = revoke[c]
        BY <3>1 DEF PopCount, TypeOK, Threads
      <4>2. revoke[c] <= dequeue_revoke /\ revoke[c] \in Nat
        BY <1>1 DEF Snapshots, At, TypeOK, Threads
      <4>3. Upto(count[d])' = At("pop_test")'
        BY <1>1, <3>1 DEF Upto, PopCount, At, Snapshots, TypeOK, Threads
      <4>4. head_fast' = head_fast
        BY DEF PopCount
      <4>5. head_fast + Cardinality(At("pop_claim")) + (Cardinality(At("pop_test")) + 1)
              <= dequeue_count + 1 - revoke[c]
        BY <4>2, Numbers, Sizes DEF Accounts
      <4>6. /\ Cardinality(Upto(count[d])') = Cardinality(At("pop_test")) + 1
            /\ Cardinality(At("pop_claim")') = Cardinality(At("pop_claim"))
        BY <1>1, <1>2, <4>3
      <4> QED
        BY <4>1, <4>2, <4>4, <4>5, <4>6, Numbers, Sizes
    <3>2. CASE d # c
      <4>1. d \in At("pop_test") /\ count'[d] = count[d] /\ revoke'[d] = revoke[d]
        BY <1>1, <3>2, <2>5 DEF PopCount, At, TypeOK, Threads
      <4>2. count[d] \in Nat /\ count[d] <= dequeue_count
        BY <4>1 DEF Snapshots, At, TypeOK, Threads
      <4>3. Upto(count[d])' = Upto(count[d])
        BY <2>2, <4>1, <4>2
      <4> QED
        BY <1>1, <2>1, <2>5, <4>1, <4>3 DEF Certified, PopCount
    <3> QED
      BY <3>1, <3>2
  <2>6. Certified(m)'
    BY <2>3, <2>4, <2>5 DEF Certified
  <2> QED
    BY <2>6 DEF Gate
<1> QED
  BY <1>3, <1>4, <1>5, <1>6

(* A pop that leaves the test, either way: the sets in front of the gate    *)
(* lose it, wherever it was in the order.                                   *)
LEMMA TestLeaves ==
  ASSUME TypeOK, NEW c \in Consumers, PopTest(c)
  PROVE  /\ c \in At("pop_test")
         /\ At("pop_test")' = At("pop_test") \ {c}
         /\ \A n : Upto(n)' = Upto(n) \ {c}
         /\ \A n \in Nat : count[c] <= n => Cardinality(Upto(n) \ {c}) = Cardinality(Upto(n)) - 1
         /\ \A n : Cardinality(Upto(n) \ {c}) <= Cardinality(Upto(n))
<1>1. c \in At("pop_test") /\ At("pop_test")' = At("pop_test") \ {c}
  BY Moves DEF PopTest
<1>2. \A n : Upto(n)' = Upto(n) \ {c}
  BY <1>1 DEF Upto, PopTest
<1>3. ASSUME NEW n \in Nat, count[c] <= n
      PROVE  Cardinality(Upto(n) \ {c}) = Cardinality(Upto(n)) - 1
  <2>1. c \in Upto(n)
    BY <1>1, <1>3 DEF Upto
  <2> QED
    BY <2>1, UptoSizes, Leaves
<1>4. ASSUME NEW n
      PROVE  Cardinality(Upto(n) \ {c}) <= Cardinality(Upto(n))
  BY UptoSizes, FiniteAt, FS_Subset
<1> QED
  BY <1>1, <1>2, <1>3, <1>4

(* The test of a pop.  One that passes and that is not yet certified        *)
(* certifies itself and all that counted themselves before it, for it has   *)
(* seen a slot for each of them published.                                  *)
LEMMA PopTestKeeps ==
  ASSUME GateInv, TypeOK', NEW c \in Consumers, PopTest(c)
  PROVE  GateInv'
<1> USE DEF GateInv
<1>1. /\ c \in At("pop_test")
      /\ At("pop_test")' = At("pop_test") \ {c}
      /\ \A n : Upto(n)' = Upto(n) \ {c}
  BY TestLeaves
<1>2. Cardinality(At("pop_test")') = Cardinality(At("pop_test")) - 1
  BY <1>1, Sizes, Leaves
<1>3. UNCHANGED <<dequeue_count, dequeue_revoke, head_fast, tail, count, revoke, slot>>
  BY DEF PopTest, counters
<1>4. Snapshots' /\ ReadsCommitted'
  BY <1>3 DEF Snapshots, ReadsCommitted, PopTest, Goto, TypeOK, Threads
<1>5. PICK m \in Nat : Certified(m)
  BY DEF Gate
<1>6. count[c] \in Nat /\ revoke[c] \in Nat /\ \A d \in At("pop_test") : count[d] \in Nat
  BY DEF TypeOK, Threads, At
<1>7. CASE Empty(c)
  <2>1. At("pop_claim")' = At("pop_claim") /\ At("pop_revoke")' = At("pop_revoke") \cup {c}
    BY <1>7, Moves DEF PopTest
  <2>2. Cardinality(At("pop_revoke")') = Cardinality(At("pop_revoke")) + 1
    <3>1. c \notin At("pop_revoke")
      BY <1>1 DEF At
    <3> QED
      BY <2>1, <3>1, Sizes, Joins
  <2>3. Accounts'
    BY <1>2, <1>3, <2>1, <2>2, Numbers, Sizes DEF Accounts
  <2>4. \A n : Cardinality(Upto(n)') <= Cardinality(Upto(n)) /\ Cardinality(Upto(n)') \in Nat
    <3>1. \A n : Upto(n) \ {c} \in SUBSET Consumers
      BY UptoSizes
    <3> QED
      BY <1>1, <3>1, TestLeaves, FiniteAt
  <2>5. Certified(m)'
    <3>1. m <= dequeue_count' 
      BY <1>3, <1>5 DEF Certified
    <3>2. head_fast' + Cardinality(At("pop_claim")') + Cardinality(Upto(m)') <= tail'
      BY <1>3, <1>5, <2>1, <2>4, Numbers, Sizes, UptoSizes DEF Certified
    <3>3. ASSUME NEW d \in At("pop_test")', count'[d] > m
          PROVE  head_fast' + Cardinality(At("pop_claim")') + Cardinality(Upto(count[d])')
                   <= count'[d] - revoke'[d]
      <4>1. /\ d \in At("pop_test") /\ count'[d] = count[d] /\ revoke'[d] = revoke[d]
            /\ revoke[d] \in Nat /\ count[d] \in Nat
        BY <1>1, <1>3 DEF At, TypeOK, Threads
      <4>2. head_fast + Cardinality(At("pop_claim")) + Cardinality(Upto(count[d]))
              <= count[d] - revoke[d]
        BY <1>5, <3>3, <4>1 DEF Certified
      <4>3. Upto(count[d])' = Upto(count[d]) \ {c}
        BY <1>1, <1>3 DEF Upto
      <4>4. /\ Cardinality(Upto(count[d])') <= Cardinality(Upto(count[d]))
            /\ Cardinality(Upto(count[d])') \in Nat
        BY <4>3, <1>1, <2>4
      <4> QED
        BY <1>3, <2>1, <4>1, <4>2, <4>4, Numbers, Sizes, UptoSizes
    <3> QED
      BY <3>1, <3>2, <3>3 DEF Certified
  <2> QED
    BY <1>4, <2>3, <2>5 DEF Gate
<1>8. CASE ~Empty(c)
  <2>1. At("pop_claim")' = At("pop_claim") \cup {c} /\ At("pop_revoke")' = At("pop_revoke")
    BY <1>8, Moves DEF PopTest
  <2>2. Cardinality(At("pop_claim")') = Cardinality(At("pop_claim")) + 1
    <3>1. c \notin At("pop_claim")
      BY <1>1 DEF At
    <3> QED
      BY <2>1, <3>1, Sizes, Joins
  <2>3. Accounts'
    BY <1>2, <1>3, <2>1, <2>2, Numbers, Sizes DEF Accounts
  <2>4. count[c] - revoke[c] <= tail
    BY <1>1, <1>8, NotEmpty DEF Snapshots, At
  <2> DEFINE certified == IF count[c] <= m THEN m ELSE count[c]
  <2>5. certified \in Nat /\ count[c] <= certified /\ m <= certified
    BY <1>6
  <2>6. certified <= dequeue_count
    BY <1>1, <1>5 DEF Certified, Snapshots, At
  <2>7. head_fast + Cardinality(At("pop_claim")) + Cardinality(Upto(certified)) <= tail
    <3>1. CASE count[c] <= m
      BY <1>5, <3>1 DEF Certified
    <3>2. CASE ~(count[c] <= m)
      <4>1. count[c] > m
        BY <1>6, <3>2
      <4>2. head_fast + Cardinality(At("pop_claim")) + Cardinality(Upto(count[c]))
              <= count[c] - revoke[c]
        BY <1>1, <1>5, <4>1 DEF Certified
      <4> QED
        BY <1>6, <2>4, <3>2, <4>2, Numbers, Sizes, UptoSizes
    <3> QED
      BY <3>1, <3>2
  <2> HIDE DEF certified
  <2>8. Certified(certified)'
    <3>1. certified' = certified
      BY <1>3 DEF certified
    <3>2. Cardinality(Upto(certified) \ {c}) = Cardinality(Upto(certified)) - 1
      BY <2>5, TestLeaves
    <3>3. Upto(certified)' = Upto(certified) \ {c}
      BY <1>1, <1>3, <3>1 DEF Upto
    <3>4. head_fast' + Cardinality(At("pop_claim")') + Cardinality(Upto(certified)') <= tail'
      BY <1>3, <2>2, <2>7, <3>2, <3>3, Numbers, Sizes, UptoSizes
    <3>5. ASSUME NEW d \in At("pop_test")', count'[d] > certified
          PROVE  head_fast' + Cardinality(At("pop_claim")') + Cardinality(Upto(count[d])')
                   <= count'[d] - revoke'[d]
      <4>1. /\ d \in At("pop_test") /\ count'[d] = count[d] /\ revoke'[d] = revoke[d]
            /\ revoke[d] \in Nat /\ count[d] \in Nat
        BY <1>1, <1>3 DEF At, TypeOK, Threads
      <4>2. count[d] > m /\ count[c] <= count[d]
        BY <1>6, <2>5, <3>5, <4>1
      <4>3. head_fast + Cardinality(At("pop_claim")) + Cardinality(Upto(count[d]))
              <= count[d] - revoke[d]
        BY <1>5, <4>1, <4>2 DEF Certified
      <4>4. Upto(count[d])' = Upto(count[d]) \ {c}
        BY <1>1, <1>3 DEF Upto
      <4>5. Cardinality(Upto(count[d]) \ {c}) = Cardinality(Upto(count[d])) - 1
        BY <4>1, <4>2, TestLeaves
      <4> QED
        BY <1>3, <2>2, <4>1, <4>3, <4>4, <4>5, Numbers, Sizes, UptoSizes
    <3> QED
      BY <1>3, <2>6, <3>1, <3>4, <3>5 DEF Certified
  <2>9. Gate'
    <3>1. certified' \in Nat
      BY <1>3, <2>5 DEF certified
    <3> QED
      BY <2>8, <3>1 DEF Gate
  <2> QED
    BY <1>4, <2>3, <2>9
<1> QED
  BY <1>7, <1>8

(* A pop behind the gate takes its slot: one of those that are published.   *)
LEMMA PopClaimKeeps ==
  ASSUME GateInv, TypeOK', NEW c \in Consumers, PopClaim(c)
  PROVE  GateInv'
<1> USE DEF GateInv
<1>1. /\ c \in At("pop_claim")
      /\ At("pop_claim")' = At("pop_claim") \ {c}
      /\ At("pop_test")' = At("pop_test") /\ At("pop_revoke")' = At("pop_revoke")
  BY Moves DEF PopClaim
<1>2. Cardinality(At("pop_claim")') = Cardinality(At("pop_claim")) - 1
  BY <1>1, Sizes, Leaves
<1>3. /\ head_fast' = head_fast + 1
      /\ UNCHANGED <<dequeue_count, dequeue_revoke, tail, count, revoke>>
  BY DEF PopClaim
<1>4. Accounts'
  BY <1>1, <1>2, <1>3, Numbers, Sizes DEF Accounts
<1>5. Snapshots'
  BY <1>3 DEF Snapshots, PopClaim, Goto, TypeOK, Threads
<1>6. PICK m \in Nat : Certified(m)
  BY DEF Gate
<1>7. head_fast < tail
  <2>1. Cardinality(At("pop_claim")') \in Nat
    BY <1>1, Sizes, FiniteAt
  <2> QED
    BY <1>2, <1>6, <2>1, Numbers, Sizes, UptoSizes DEF Certified
<1>8. ReadsCommitted'
  BY <1>3, <1>7 DEF ReadsCommitted, PopClaim, Goto, TypeOK, Threads
<1>9. Certified(m)'
  <2>1. \A n : Upto(n)' = Upto(n)
    BY <1>1, <1>3 DEF Upto
  <2>2. head_fast' + Cardinality(At("pop_claim")') = head_fast + Cardinality(At("pop_claim"))
    BY <1>2, <1>3, Numbers, Sizes
  <2>3. head_fast' + Cardinality(At("pop_claim")') + Cardinality(Upto(m)') <= tail'
    BY <1>3, <1>6, <2>1, <2>2 DEF Certified
  <2>4. ASSUME NEW d \in At("pop_test")', count'[d] > m
        PROVE  head_fast' + Cardinality(At("pop_claim")') + Cardinality(Upto(count[d])')
                 <= count'[d] - revoke'[d]
    <3>1. Upto(count[d])' = Upto(count[d])
      BY <1>1, <1>3 DEF Upto
    <3> QED
      BY <1>1, <1>3, <1>6, <2>2, <2>4, <3>1 DEF Certified
  <2> QED
    BY <1>3, <1>6, <2>3, <2>4 DEF Certified
<1> QED
  BY <1>4, <1>5, <1>8, <1>9 DEF Gate

(* The other steps of pop: a snapshot is taken, a failed attempt is taken   *)
(* back, an element is read, a slot is given back.                          *)
LEMMA PopAwayKeeps ==
  ASSUME GateInv, TypeOK', NEW c \in Consumers,
         PopLoad(c) \/ PopRevoke(c) \/ PopRead(c) \/ PopCommit(c)
  PROVE  GateInv'
<1> USE DEF GateInv
<1>1. /\ At("pop_claim")' = At("pop_claim") /\ At("pop_test")' = At("pop_test")
      /\ c \notin At("pop_test")
  BY DEF At, PopLoad, PopRevoke, PopRead, PopCommit, Goto, TypeOK, Threads
<1>2. /\ UNCHANGED <<head_fast, dequeue_count, tail, count, slot>>
      /\ \A d \in Consumers \ {c} : pc'[d] = pc[d] /\ revoke'[d] = revoke[d]
  BY DEF PopLoad, PopRevoke, PopRead, PopCommit, Goto, TypeOK, Threads, counters
<1>3. Gate'
  <2>1. \A d \in At("pop_test") : count'[d] = count[d] /\ revoke'[d] = revoke[d]
    BY <1>1, <1>2 DEF At
  <2> QED
    BY <1>1, <1>2, <2>1, Numbers, GateFrame
<1>4. Snapshots' /\ ReadsCommitted' /\ Accounts'
  <2>1. CASE PopLoad(c)
    <3>1. At("pop_revoke")' = At("pop_revoke")
      BY <2>1, Moves DEF PopLoad
    <3>2. Snapshots'
      BY <1>2, <2>1 DEF Snapshots, PopLoad, Goto, TypeOK, Threads, counters
    <3>3. ReadsCommitted'
      BY <1>2, <2>1 DEF ReadsCommitted, PopLoad, Goto, TypeOK, Threads
    <3> QED
      BY <1>1, <1>2, <2>1, <3>1, <3>2, <3>3 DEF Accounts, PopLoad, counters
  <2>2. CASE PopRevoke(c)
    <3>1. c \in At("pop_revoke") /\ At("pop_revoke")' = At("pop_revoke") \ {c}
      BY <2>2, Moves DEF PopRevoke
    <3>2. Cardinality(At("pop_revoke")') = Cardinality(At("pop_revoke")) - 1
      BY <3>1, Sizes, Leaves
    <3>3. dequeue_revoke' = dequeue_revoke + 1
      BY <2>2 DEF PopRevoke
    <3>4. Accounts'
      BY <1>1, <1>2, <3>2, <3>3, Numbers, Sizes DEF Accounts
    <3>5. Snapshots' /\ ReadsCommitted'
      BY <1>2, <2>2, <3>3 DEF Snapshots, ReadsCommitted, PopRevoke, Goto, TypeOK, Threads
    <3> QED
      BY <3>4, <3>5
  <2>3. CASE PopRead(c) \/ PopCommit(c)
    <3>1. At("pop_revoke")' = At("pop_revoke")
      BY <2>3, Moves DEF PopRead, PopCommit
    <3>2. UNCHANGED <<dequeue_revoke, revoke>>
      BY <2>3 DEF PopRead, PopCommit, counters
    <3>3. Snapshots' /\ ReadsCommitted'
      BY <1>2, <2>3, <3>2 DEF Snapshots, ReadsCommitted, PopRead, PopCommit, Goto, TypeOK, Threads
    <3> QED
      BY <1>1, <1>2, <3>1, <3>2, <3>3 DEF Accounts
  <2> QED
    BY <2>1, <2>2, <2>3
<1> QED
  BY <1>3, <1>4

(* push publishes slots and does nothing else to the gate of pop. *)
LEMMA PushKeeps ==
  ASSUME GateInv, TypeOK', NEW p \in Producers, Push(p)
  PROVE  GateInv'
<1> USE DEF GateInv
<1>1. \A l : At(l)' = At(l)
  BY PushFrame DEF At
<1>2. Accounts'
  BY <1>1, PushFrame DEF Accounts
<1>3. Snapshots'
  <2> SUFFICES ASSUME NEW c \in Consumers
               PROVE  /\ pc'[c] = "pop_count" => revoke'[c] <= dequeue_revoke'
                      /\ pc'[c] = "pop_test" =>
                           /\ count'[c] <= dequeue_count'
                           /\ count'[c] - revoke'[c] - tail' <= HalfWidth
    BY DEF Snapshots
  <2>1. /\ count[c] \in Nat /\ revoke[c] \in Nat /\ tail \in Nat /\ tail' \in Nat
        /\ HalfWidth \in Nat
    BY SizeAssumption DEF TypeOK, Threads, HalfWidth
  <2> QED
    BY <2>1, PushFrame DEF Snapshots
<1>4. ReadsCommitted'
  <2> SUFFICES ASSUME NEW c \in Consumers, pc'[c] = "pop_read" PROVE slot'[c] < tail'
    BY DEF ReadsCommitted
  <2>1. slot[c] \in Nat /\ tail \in Nat /\ tail' \in Nat
    BY DEF TypeOK, Threads
  <2> QED
    BY <2>1, PushFrame DEF ReadsCommitted
<1>5. \A d \in At("pop_test") : count'[d] = count[d] /\ revoke'[d] = revoke[d]
  BY PushFrame DEF At
<1>6. Gate'
  BY <1>1, <1>5, PushFrame, Numbers, GateFrame
<1> QED
  BY <1>2, <1>3, <1>4, <1>6

-----------------------------------------------------------------------------
(* The gate of pop, as an inductive invariant of the specification.         *)
THEOREM GateHolds == Spec => []GateInv
<1>1. Init => Accounts /\ Snapshots /\ Gate /\ ReadsCommitted
  <2> SUFFICES ASSUME Init PROVE Accounts /\ Snapshots /\ Gate /\ ReadsCommitted
    OBVIOUS
  <2>1. \A c \in Consumers : pc[c] = "idle"
    BY DEF Init, Threads
  <2>2. At("pop_claim") = {} /\ At("pop_test") = {} /\ At("pop_revoke") = {}
    BY <2>1 DEF At
  <2>3. Upto(0) = {}
    BY <2>2 DEF Upto
  <2>4. Accounts
    BY <2>2, FS_EmptySet DEF Accounts, Init
  <2>5. Certified(0)
    <3>1. 0 <= dequeue_count /\ head_fast = 0 /\ tail = 0
      BY DEF Init
    <3>2. head_fast + Cardinality(At("pop_claim")) + Cardinality(Upto(0)) <= tail
      BY <2>2, <2>3, <3>1, FS_EmptySet
    <3> QED
      BY <2>2, <3>1, <3>2 DEF Certified
  <2> QED
    BY <2>1, <2>4, <2>5 DEF Gate, Snapshots, ReadsCommitted
<1>2. GateInv /\ TypeOK' /\ [Next]_vars => GateInv'
  <2> SUFFICES ASSUME GateInv, TypeOK', [Next]_vars PROVE GateInv'
    OBVIOUS
  <2>1. ASSUME NEW p \in Producers, Push(p) PROVE GateInv'
    BY <2>1, PushKeeps
  <2>2. ASSUME NEW c \in Consumers, Pop(c) PROVE GateInv'
    BY <2>2, PopCountKeeps, PopTestKeeps, PopClaimKeeps, PopAwayKeeps DEF Pop
  <2>3. CASE UNCHANGED vars
    <3>1. At("pop_claim")' = At("pop_claim") /\ At("pop_test")' = At("pop_test") /\ At("pop_revoke")' = At("pop_revoke")
      BY <2>3 DEF vars, At
    <3>2. Accounts' /\ Snapshots'
      BY <2>3, <3>1 DEF vars, GateInv, Accounts, Snapshots
    <3>3. Gate'
      BY <2>3, <3>1, GateFrame DEF vars, GateInv, TypeOK
    <3>4. ReadsCommitted'
      BY <2>3 DEF vars, GateInv, ReadsCommitted
    <3> QED
      BY <3>2, <3>3, <3>4 DEF GateInv
  <2> QED
    BY <2>1, <2>2, <2>3 DEF Next, Rest
<1>3. TypeOK /\ Accounts /\ Snapshots /\ Gate /\ ReadsCommitted => GateInv
  BY DEF GateInv
<1> QED
  BY <1>1, <1>2, <1>3, TypeCorrect, PTL DEF Spec

(* However stale the revoke counter that a pop has read, and however many   *)
(* pops run together, the gate of pop lets none in to a slot whose push has *)
(* not finished.                                                            *)
THEOREM GateSafe == Spec => []ReadsCommitted
<1>1. GateInv => ReadsCommitted
  BY DEF GateInv
<1> QED
  BY <1>1, GateHolds, PTL

-----------------------------------------------------------------------------
(* The gate of push, with the single producer the queue asks for *)

Pending(p) == IF pc[p] \in {"push_test", "push_revoke", "push_claim"} THEN 1 ELSE 0
Writing(p) == IF pc[p] \in {"push_write", "push_commit"} THEN 1 ELSE 0

(* Every push that counted itself is under way, has taken a slot, or has    *)
(* been taken back; every slot that is taken is being written or published. *)
PushAccounts ==
  \A p \in Producers : /\ enqueue_count = tail_fast + enqueue_revoke + Pending(p)
                       /\ tail_fast = tail + Writing(p)

(* Alone, a push knows the counters as they are. *)
PushSnapshots ==
  \A p \in Producers :
    /\ pc[p] \in {"push_count", "push_test"} => revoke[p] = enqueue_revoke
    /\ pc[p] = "push_test" => count[p] = enqueue_count

(* A push that passed its gate finds room for one more slot. *)
RoomAhead == \A p \in Producers : pc[p] = "push_claim" => tail_fast + 1 - head <= QueueSize

(* Every slot taken by a pop is being read or has been given back. *)
PopAccounts == head_fast = head + Cardinality(At("pop_read")) + Cardinality(At("pop_commit"))

PushInv == PushAccounts /\ PushSnapshots /\ RoomAhead /\ OccupancyBound /\ PopAccounts

(* The counters follow each other around the ring. *)
LEMMA InOrder ==
  ASSUME GateInv, PushInv, NEW p \in Producers
  PROVE  head <= head_fast /\ head_fast <= tail /\ tail <= tail_fast
<1>1. PICK m \in Nat : Certified(m)
  BY DEF GateInv, Gate
<1>2. /\ head \in Nat /\ head_fast \in Nat /\ tail \in Nat /\ tail_fast \in Nat
      /\ Writing(p) \in Nat
  BY DEF GateInv, TypeOK, Writing
<1>3. Cardinality(At("pop_read")) \in Nat /\ Cardinality(At("pop_commit")) \in Nat
  BY FiniteAt DEF At
<1>4. head <= head_fast
  BY <1>2, <1>3 DEF PushInv, PopAccounts
<1>5. head_fast <= tail
  BY <1>1, <1>2, Sizes, UptoSizes DEF Certified
<1>6. tail <= tail_fast
  BY <1>2 DEF PushInv, PushAccounts
<1> QED
  BY <1>4, <1>5, <1>6

(* The test of push, on counters that wrap: the difference it computes is   *)
(* the number of slots in use with its own, so a push that does not find    *)
(* the ring full has a slot ahead.                                          *)
LEMMA NotFull ==
  ASSUME GateInv, PushInv, NEW p \in Producers, pc[p] = "push_test", ~Full(p)
  PROVE  tail_fast + 1 - head <= QueueSize
<1>1. /\ head \in Nat /\ tail_fast \in Nat /\ enqueue_count \in Nat /\ enqueue_revoke \in Nat
  BY DEF GateInv, TypeOK
<1>2. count[p] = enqueue_count /\ revoke[p] = enqueue_revoke
  BY DEF PushInv, PushSnapshots
<1>3. enqueue_count = tail_fast + enqueue_revoke + 1
  BY DEF PushInv, PushAccounts, Pending
<1> DEFINE d == tail_fast + 1 - head
<1>4. d \in Int /\ 0 <= d /\ d <= QueueSize + 1
  BY <1>1, InOrder, SizeAssumption DEF PushInv, OccupancyBound, GateInv, TypeOK
<1>5. count[p] - revoke[p] - head = d
  BY <1>1, <1>2, <1>3
<1> HIDE DEF d
<1>6. Width \in Nat /\ QueueSize + 1 < Width /\ QueueSize \in Nat
  BY SizeAssumption DEF HalfWidth
<1>7. d % Width = d
  BY <1>4, <1>6
<1>8. d <= QueueSize
  BY <1>4, <1>5, <1>6, <1>7 DEF Full, Sub
<1> QED
  BY <1>8 DEF d

(* The steps of the single producer keep the gate of push. *)
LEMMA PushKeepsRoom ==
  ASSUME NEW p, Producers = {p}, GateInv, PushInv, Push(p)
  PROVE  PushInv'
<1> USE DEF GateInv, PushInv
<1>0. /\ p \in Producers /\ p \in Threads
      /\ enqueue_count \in Nat /\ enqueue_revoke \in Nat /\ head \in Nat /\ head_fast \in Nat
      /\ tail \in Nat /\ tail_fast \in Nat /\ QueueSize \in Nat
  BY SizeAssumption DEF TypeOK, Threads
<1>1. pc \in [Threads -> PushPC \cup PopPC] /\ count \in [Threads -> Nat] /\ revoke \in [Threads -> Nat]
  BY DEF TypeOK
<1>2. \A l : At(l)' = At(l)
  BY <1>0, PushFrame DEF At
<1>3. /\ enqueue_count = tail_fast + enqueue_revoke + Pending(p)
      /\ tail_fast = tail + Writing(p)
      /\ pc[p] \in {"push_count", "push_test"} => revoke[p] = enqueue_revoke
      /\ pc[p] = "push_test" => count[p] = enqueue_count
      /\ pc[p] = "push_claim" => tail_fast + 1 - head <= QueueSize
      /\ tail_fast - head <= QueueSize
  BY <1>0 DEF PushAccounts, PushSnapshots, RoomAhead, OccupancyBound
<1>4. head' = head
  BY DEF Push, PushLoad, PushCount, PushTest, PushRevoke, PushClaim, PushWrite, PushCommit, counters
<1>5. PopAccounts'
  BY <1>0, <1>2, <1>4, PushFrame DEF PopAccounts
<1> DEFINE Kept == /\ enqueue_count' = tail_fast' + enqueue_revoke' + Pending(p)'
                   /\ tail_fast' = tail' + Writing(p)'
                   /\ pc'[p] \in {"push_count", "push_test"} => revoke'[p] = enqueue_revoke'
                   /\ pc'[p] = "push_test" => count'[p] = enqueue_count'
                   /\ pc'[p] = "push_claim" => tail_fast' + 1 - head' <= QueueSize
                   /\ tail_fast' - head' <= QueueSize
<1>6. SUFFICES Kept
  BY <1>5, Zenon DEF PushAccounts, PushSnapshots, RoomAhead, OccupancyBound
<1> USE DEF Goto, Pending, Writing, counters
<1>7. ASSUME NEW x \in Items, PushLoad(p, x) PROVE Kept
  BY <1>0, <1>1, <1>3, <1>7 DEF PushLoad
<1>8. CASE PushCount(p)
  BY <1>0, <1>1, <1>3, <1>8 DEF PushCount
<1>9. CASE PushTest(p)
  <2>1. CASE Full(p)
    BY <1>0, <1>1, <1>3, <1>9, <2>1 DEF PushTest
  <2>2. CASE ~Full(p)
    <3>1. pc[p] = "push_test"
      BY <1>9 DEF PushTest
    <3>2. tail_fast + 1 - head <= QueueSize
      BY <1>0, <2>2, <3>1, NotFull
    <3> QED
      BY <1>0, <1>1, <1>3, <1>9, <2>2, <3>2 DEF PushTest
  <2> QED
    BY <2>1, <2>2
<1>10. CASE PushRevoke(p)
  BY <1>0, <1>1, <1>3, <1>10 DEF PushRevoke
<1>11. CASE PushClaim(p)
  BY <1>0, <1>1, <1>3, <1>11 DEF PushClaim
<1>12. CASE PushWrite(p)
  BY <1>0, <1>1, <1>3, <1>12 DEF PushWrite
<1>13. CASE PushCommit(p)
  BY <1>0, <1>1, <1>3, <1>13 DEF PushCommit
<1> QED
  BY <1>7, <1>8, <1>9, <1>10, <1>11, <1>12, <1>13 DEF Push

(* pop leaves the producer and its counters alone, and only ever frees       *)
(* slots of the ring.                                                       *)
LEMMA PopFrame ==
  ASSUME TypeOK, NEW c \in Consumers, Pop(c)
  PROVE  /\ \A p \in Producers : /\ pc'[p] = pc[p] /\ count'[p] = count[p]
                                 /\ revoke'[p] = revoke[p] /\ slot'[p] = slot[p]
                                 /\ item'[p] = item[p]
         /\ UNCHANGED <<enqueue_count, enqueue_revoke, tail, tail_fast, data>>
         /\ head' = head \/ head' = head + 1
<1> USE DEF TypeOK, Threads, Goto, counters
<1>1. \A p \in Producers : p # c
  BY ThreadsAssumption
<1>2. CASE PopLoad(c)
  BY <1>1, <1>2 DEF PopLoad
<1>3. CASE PopCount(c)
  BY <1>1, <1>3 DEF PopCount
<1>4. CASE PopTest(c)
  BY <1>1, <1>4 DEF PopTest
<1>5. CASE PopRevoke(c)
  BY <1>1, <1>5 DEF PopRevoke
<1>6. CASE PopClaim(c)
  BY <1>1, <1>6 DEF PopClaim
<1>7. CASE PopRead(c)
  BY <1>1, <1>7 DEF PopRead
<1>8. CASE PopCommit(c)
  BY <1>1, <1>8 DEF PopCommit
<1> QED
  BY <1>2, <1>3, <1>4, <1>5, <1>6, <1>7, <1>8 DEF Pop

(* The steps of the consumers keep the gate of push. *)
LEMMA PopKeepsRoom ==
  ASSUME GateInv, PushInv, NEW c \in Consumers, Pop(c)
  PROVE  PushInv'
<1> USE DEF GateInv, PushInv
<1>1. /\ tail_fast \in Nat /\ head \in Nat /\ head_fast \in Nat /\ QueueSize \in Nat
  BY SizeAssumption DEF TypeOK
<1>2. /\ \A p \in Producers : pc'[p] = pc[p] /\ count'[p] = count[p] /\ revoke'[p] = revoke[p]
      /\ UNCHANGED <<enqueue_count, enqueue_revoke, tail, tail_fast>>
      /\ head' = head \/ head' = head + 1
  BY PopFrame
<1>3. PushAccounts' /\ PushSnapshots'
  BY <1>2 DEF PushAccounts, PushSnapshots, Pending, Writing
<1>4. RoomAhead' /\ OccupancyBound'
  BY <1>1, <1>2 DEF RoomAhead, OccupancyBound
<1>5. PopAccounts'
  <2>0. /\ At("pop_read") \in SUBSET Consumers /\ At("pop_commit") \in SUBSET Consumers
        /\ Cardinality(At("pop_read")) \in Nat /\ Cardinality(At("pop_commit")) \in Nat
    BY FiniteAt DEF At
  <2>1. CASE PopClaim(c)
    <3>1. /\ c \notin At("pop_read") /\ At("pop_read")' = At("pop_read") \cup {c}
          /\ At("pop_commit")' = At("pop_commit")
      BY <2>1, Moves DEF PopClaim
    <3>2. Cardinality(At("pop_read")') = Cardinality(At("pop_read")) + 1
      BY <2>0, <3>1, Joins
    <3> QED
      BY <1>1, <2>0, <2>1, <3>1, <3>2 DEF PopAccounts, PopClaim
  <2>2. CASE PopRead(c)
    <3>1. /\ c \in At("pop_read") /\ At("pop_read")' = At("pop_read") \ {c}
          /\ c \notin At("pop_commit") /\ At("pop_commit")' = At("pop_commit") \cup {c}
      BY <2>2, Moves DEF PopRead
    <3>2. /\ Cardinality(At("pop_read")') = Cardinality(At("pop_read")) - 1
          /\ Cardinality(At("pop_commit")') = Cardinality(At("pop_commit")) + 1
      BY <2>0, <3>1, Joins, Leaves
    <3> QED
      BY <1>1, <2>0, <2>2, <3>2 DEF PopAccounts, PopRead, counters
  <2>3. CASE PopCommit(c)
    <3>1. /\ c \in At("pop_commit") /\ At("pop_commit")' = At("pop_commit") \ {c}
          /\ At("pop_read")' = At("pop_read")
      BY <2>3, Moves DEF PopCommit
    <3>2. Cardinality(At("pop_commit")') = Cardinality(At("pop_commit")) - 1
      BY <2>0, <3>1, Leaves
    <3> QED
      BY <1>1, <2>0, <2>3, <3>1, <3>2 DEF PopAccounts, PopCommit
  <2>4. CASE PopLoad(c) \/ PopCount(c) \/ PopTest(c) \/ PopRevoke(c)
    <3>1. At("pop_read")' = At("pop_read") /\ At("pop_commit")' = At("pop_commit")
      BY <2>4 DEF At, PopLoad, PopCount, PopTest, PopRevoke, Goto, TypeOK, Threads
    <3>2. head' = head /\ head_fast' = head_fast
      BY <2>4 DEF PopLoad, PopCount, PopTest, PopRevoke, counters
    <3> QED
      BY <3>1, <3>2 DEF PopAccounts
  <2> QED
    BY <2>1, <2>2, <2>3, <2>4 DEF Pop
<1> QED
  BY <1>3, <1>4, <1>5

(* With a single producer the gate of push keeps its accounts, however many *)
(* consumers there are.                                                     *)
THEOREM RoomHolds ==
  ASSUME NEW p, Producers = {p}
  PROVE  Spec => [](GateInv /\ PushInv)
<1>1. Init => PushInv
  <2> SUFFICES ASSUME Init PROVE PushInv
    OBVIOUS
  <2>1. \A t \in Producers \cup Consumers : pc[t] = "idle"
    BY DEF Init, Threads
  <2>2. At("pop_read") = {} /\ At("pop_commit") = {}
    BY <2>1 DEF At
  <2>3. PopAccounts
    <3>1. Cardinality(At("pop_read")) = 0 /\ Cardinality(At("pop_commit")) = 0
      BY <2>2, FS_EmptySet
    <3> QED
      BY <3>1 DEF PopAccounts, Init
  <2>4. PushAccounts
    BY <2>1 DEF Init, PushAccounts, Pending, Writing
  <2>5. PushSnapshots /\ RoomAhead /\ OccupancyBound
    BY <2>1, SizeAssumption DEF Init, PushSnapshots, RoomAhead, OccupancyBound
  <2> QED
    BY <2>3, <2>4, <2>5 DEF PushInv
<1>2. GateInv /\ PushInv /\ [Next]_vars => PushInv'
  <2> SUFFICES ASSUME GateInv, PushInv, [Next]_vars PROVE PushInv'
    OBVIOUS
  <2>1. CASE UNCHANGED vars
    BY <2>1 DEF vars, PushInv, PushAccounts, PushSnapshots, RoomAhead, OccupancyBound, PopAccounts, At, Pending, Writing
  <2> QED
    BY <2>1, PushKeepsRoom, PopKeepsRoom DEF Next, Rest
<1> QED
  BY <1>1, <1>2, GateHolds, PTL DEF Spec

(* With a single producer the slots taken and not yet given back never      *)
(* exceed the ring, for any number of consumers and through any number of   *)
(* turns of the 32-bit counters.                                            *)
THEOREM RingNeverOverrun ==
  ASSUME NEW p, Producers = {p}
  PROVE  Spec => []OccupancyBound
<1>1. PushInv => OccupancyBound
  BY DEF PushInv
<1> QED
  BY <1>1, RoomHolds, PTL

(* With a single producer failed attempts leave no trace: whenever no call  *)
(* is under way the outer and the inner counters agree.                     *)
THEOREM LayersAgree ==
  ASSUME NEW p, Producers = {p}
  PROVE  Spec => []BalancedAtRest
<1>1. GateInv /\ PushInv => BalancedAtRest
  <2> SUFFICES ASSUME GateInv, PushInv, Quiescent
               PROVE  /\ enqueue_count - enqueue_revoke = tail /\ tail_fast = tail
                      /\ dequeue_count - dequeue_revoke = head /\ head_fast = head
    BY DEF BalancedAtRest
  <2>1. /\ \A c \in Consumers : pc[c] = "idle"
        /\ p \in Producers /\ pc[p] = "idle"
    BY DEF Quiescent, Threads
  <2>2. \A l \in {"pop_test", "pop_claim", "pop_revoke", "pop_read", "pop_commit"} : At(l) = {}
    BY <2>1 DEF At
  <2>3. \A l \in {"pop_test", "pop_claim", "pop_revoke", "pop_read", "pop_commit"} :
          Cardinality(At(l)) = 0
    BY <2>2, FS_EmptySet
  <2>4. /\ enqueue_count \in Nat /\ enqueue_revoke \in Nat /\ tail \in Nat /\ tail_fast \in Nat
        /\ dequeue_count \in Nat /\ dequeue_revoke \in Nat /\ head \in Nat /\ head_fast \in Nat
    BY DEF GateInv, TypeOK
  <2>5. Pending(p) = 0 /\ Writing(p) = 0
    BY <2>1 DEF Pending, Writing
  <2>6. dequeue_count = head_fast + dequeue_revoke
    BY <2>3, <2>4 DEF GateInv, Accounts
  <2>7. head_fast = head
    BY <2>3, <2>4 DEF PushInv, PopAccounts
  <2>8. enqueue_count = tail_fast + enqueue_revoke /\ tail_fast = tail
    BY <2>1, <2>4, <2>5 DEF PushInv, PushAccounts
  <2> QED
    BY <2>4, <2>6, <2>7, <2>8
<1> QED
  BY <1>1, RoomHolds, PTL

-----------------------------------------------------------------------------
(* One producer and one consumer: the slots and what is in them *)

(* Each side works on the slot it took last. *)
LastTaken ==
  /\ \A p \in Producers : pc[p] \in {"push_write", "push_commit"} => slot[p] = tail_fast - 1
  /\ \A c \in Consumers : pc[c] = "pop_read" => slot[c] = head_fast - 1

(* From the slot a pop may still read up to the last one published there    *)
(* are elements, and so there are in the hands of a push and of a pop.      *)
Elements ==
  /\ \A n \in head .. tail - 1 : data[Slot(n)] \in Items
  /\ \A p \in Producers : pc[p] # "idle" => item[p] \in Items
  /\ \A p \in Producers : pc[p] = "push_commit" => data[Slot(slot[p])] = item[p]
  /\ \A c \in Consumers : pc[c] = "pop_commit" => item[c] \in Items

PairInv == GateInv /\ PushInv /\ LastTaken /\ Elements

(* The index expression is injective on a window of the size of the ring,   *)
(* also where the counter wraps, if the ring divides the range of the       *)
(* counter (32 divides 2^32).                                               *)
LEMMA SlotIsRemainder ==
  ASSUME Width % QueueSize = 0, NEW n \in Nat
  PROVE  \E a \in Int : n = QueueSize * a + Slot(n)
<1>1. QueueSize \in Nat \ {0} /\ Width \in Nat \ {0}
  BY SizeAssumption DEF HalfWidth
<1> DEFINE r == n % Width
           k == Width \div QueueSize
           a == n \div Width
           b == r \div QueueSize
<1>2. r \in Nat /\ k \in Nat /\ a \in Nat
  BY <1>1
<1>3. n = Width * a + r
  BY <1>1
<1>4. Width = QueueSize * k
  BY <1>1
<1>5. b \in Nat /\ r = QueueSize * b + Slot(n)
  BY <1>1, <1>2 DEF Slot
<1> HIDE DEF r, k, a, b
<1>6. Slot(n) \in Int
  BY SlotInRing, <1>1
<1>7. Width * a = QueueSize * (k * a)
  BY <1>1, <1>2, <1>4
<1>8. QueueSize * (k * a) + QueueSize * b = QueueSize * (k * a + b)
  BY <1>1, <1>2, <1>5
<1>9. n = QueueSize * (k * a + b) + Slot(n)
  BY <1>1, <1>2, <1>3, <1>5, <1>6, <1>7, <1>8
<1> QED
  BY <1>2, <1>5, <1>9

(* Two numbers less than the ring apart have different slots. *)
LEMMA SlotsDiffer ==
  ASSUME Width % QueueSize = 0, NEW m \in Nat, NEW n \in Nat, m < n, n - m < QueueSize
  PROVE  Slot(m) # Slot(n)
<1>1. PICK a \in Int : m = QueueSize * a + Slot(m)
  BY SlotIsRemainder
<1>2. PICK b \in Int : n = QueueSize * b + Slot(n)
  BY SlotIsRemainder
<1>3. QueueSize \in Nat \ {0} /\ Slot(m) \in Int /\ Slot(n) \in Int
  BY SlotInRing, SizeAssumption
<1> SUFFICES ASSUME Slot(m) = Slot(n) PROVE FALSE
  OBVIOUS
<1>4. n - m = QueueSize * (b - a)
  BY <1>1, <1>2, <1>3
<1>5. CASE b - a <= 0
  <2>1. QueueSize * (b - a) <= 0
    BY <1>3, <1>5
  <2> QED
    BY <1>4, <2>1
<1>6. CASE b - a >= 1
  <2>1. QueueSize * (b - a) >= QueueSize
    BY <1>3, <1>6
  <2> QED
    BY <1>3, <1>4, <2>1
<1> QED
  BY <1>5, <1>6

(* Where the sole consumer is tells how far head is behind head_fast. *)
LEMMA SoleConsumer ==
  ASSUME NEW c, Consumers = {c}, GateInv, PushInv
  PROVE  head_fast = head + IF pc[c] \in {"pop_read", "pop_commit"} THEN 1 ELSE 0
<1>1. \A l : At(l) = IF pc[c] = l THEN {c} ELSE {}
  BY DEF At
<1>2. \A l : Cardinality(At(l)) = IF pc[c] = l THEN 1 ELSE 0
  BY <1>1, FS_EmptySet, FS_Singleton
<1>3. head \in Nat
  BY DEF GateInv, TypeOK
<1>4. head_fast = head + (IF pc[c] = "pop_read" THEN 1 ELSE 0)
                       + (IF pc[c] = "pop_commit" THEN 1 ELSE 0)
  BY <1>2 DEF PushInv, PopAccounts
<1> QED
  BY <1>3, <1>4

(* The slot that a push writes is none of those from head on that hold an   *)
(* element.                                                                 *)
LEMMA WrittenSlotFree ==
  ASSUME NEW p, Producers = {p}, Width % QueueSize = 0, PairInv, pc[p] = "push_write",
         NEW n \in head .. tail - 1
  PROVE  Slot(n) # Slot(slot[p])
<1>1. head \in Nat /\ tail \in Nat /\ tail_fast \in Nat /\ QueueSize \in Nat
  BY SizeAssumption DEF PairInv, GateInv, TypeOK
<1>2. tail_fast = tail + 1
  BY DEF PairInv, PushInv, PushAccounts, Writing
<1>3. slot[p] = tail
  BY <1>1, <1>2 DEF PairInv, LastTaken
<1>4. tail_fast - head <= QueueSize
  BY DEF PairInv, PushInv, OccupancyBound
<1>5. n \in Nat /\ n < tail /\ tail - n < QueueSize
  BY <1>1, <1>2, <1>4
<1> QED
  BY <1>1, <1>3, <1>5, SlotsDiffer

(* The steps of push keep the slots and what is in them. *)
LEMMA PushKeepsPair ==
  ASSUME NEW p, Producers = {p}, Width % QueueSize = 0, PairInv, Push(p)
  PROVE  LastTaken' /\ Elements'
<1>0. /\ p \in Producers /\ p \in Threads /\ p \notin Consumers /\ Consumers \subseteq Threads
      /\ head \in Nat /\ tail \in Nat /\ tail_fast \in Nat
      /\ pc \in [Threads -> PushPC \cup PopPC] /\ slot \in [Threads -> Nat]
      /\ item \in [Threads -> Items \cup {NoItem}]
      /\ data \in [0 .. QueueSize - 1 -> Items \cup {NoItem}]
      /\ slot[p] \in Nat
  BY ThreadsAssumption DEF PairInv, GateInv, TypeOK, Threads
<1>1. /\ \A c \in Consumers : pc'[c] = pc[c] /\ slot'[c] = slot[c]
      /\ head_fast' = head_fast
  BY <1>0, PushFrame DEF PairInv, GateInv
<1>2. /\ pc[p] \in {"push_write", "push_commit"} => slot[p] = tail_fast - 1
      /\ \A c \in Consumers : pc[c] = "pop_read" => slot[c] = head_fast - 1
      /\ \A n \in head .. tail - 1 : data[Slot(n)] \in Items
      /\ pc[p] # "idle" => item[p] \in Items
      /\ pc[p] = "push_commit" => data[Slot(slot[p])] = item[p]
      /\ \A c \in Consumers : pc[c] = "pop_commit" => item[c] \in Items
  BY <1>0 DEF PairInv, LastTaken, Elements
<1> DEFINE Kept == /\ pc'[p] \in {"push_write", "push_commit"} => slot'[p] = tail_fast' - 1
                   /\ \A n \in head' .. tail' - 1 : data'[Slot(n)] \in Items
                   /\ pc'[p] # "idle" => item'[p] \in Items
                   /\ pc'[p] = "push_commit" => data'[Slot(slot'[p])] = item'[p]
                   /\ \A c \in Consumers : item'[c] = item[c]
<1>3. SUFFICES Kept
  <2>1. LastTaken'
    BY <1>1, <1>2, Zenon DEF LastTaken
  <2>2. Elements'
    <3>1. \A n : Slot(n)' = Slot(n)
      BY DEF Slot
    <3> QED
      BY <1>1, <1>2, <3>1, Zenon DEF Elements
  <2> QED
    BY <2>1, <2>2
<1> USE DEF Goto, counters
<1>4. ASSUME NEW x \in Items, PushLoad(p, x) PROVE Kept
  BY <1>0, <1>2, <1>4 DEF PushLoad
<1>5. CASE PushCount(p)
  BY <1>0, <1>2, <1>5 DEF PushCount
<1>6. CASE PushTest(p)
  <2>1. pc[p] = "push_test" /\ pc'[p] \in {"push_revoke", "push_claim"}
    BY <1>0, <1>6 DEF PushTest
  <2> QED
    BY <1>0, <1>2, <1>6, <2>1 DEF PushTest
<1>7. CASE PushRevoke(p)
  BY <1>0, <1>2, <1>7 DEF PushRevoke
<1>8. CASE PushClaim(p)
  BY <1>0, <1>2, <1>8 DEF PushClaim
<1>9. CASE PushWrite(p)
  <2>1. pc[p] = "push_write" /\ pc' = [pc EXCEPT ![p] = "push_commit"]
    BY <1>9 DEF PushWrite
  <2>2. /\ data' = [data EXCEPT ![Slot(slot[p])] = item[p]]
        /\ UNCHANGED <<head, tail, tail_fast, item, slot>>
    BY <1>9 DEF PushWrite
  <2>3. Slot(slot[p]) \in 0 .. QueueSize - 1
    BY <1>0, SlotInRing
  <2>4. data'[Slot(slot[p])] = item[p]
    BY <1>0, <2>2, <2>3
  <2>5. ASSUME NEW n \in head .. tail - 1
        PROVE  data'[Slot(n)] \in Items
    <3>1. Slot(n) # Slot(slot[p])
      BY <2>1, WrittenSlotFree
    <3>2. Slot(n) \in 0 .. QueueSize - 1
      BY <1>0, SlotInRing
    <3>3. data'[Slot(n)] = data[Slot(n)]
      BY <1>0, <2>2, <3>1, <3>2
    <3> QED
      BY <1>2, <3>3
  <2> QED
    BY <1>0, <1>2, <2>1, <2>2, <2>4, <2>5
<1>10. CASE PushCommit(p)
  <2>1. /\ pc[p] = "push_commit" /\ pc'[p] = "idle" /\ tail' = tail + 1
        /\ UNCHANGED <<head, data, item>>
    BY <1>0, <1>10 DEF PushCommit
  <2>2. tail_fast = tail + 1
    BY <1>0, <2>1 DEF PairInv, PushInv, PushAccounts, Writing
  <2>3. slot[p] = tail
    BY <1>0, <1>2, <2>1, <2>2
  <2>4. data[Slot(tail)] \in Items
    BY <1>2, <2>1, <2>3
  <2>5. ASSUME NEW n \in head .. (tail + 1) - 1
        PROVE  data[Slot(n)] \in Items
    <3>1. n = tail \/ n \in head .. tail - 1
      BY <1>0
    <3> QED
      BY <1>2, <2>4, <3>1
  <2> QED
    BY <2>1, <2>5
<1> QED
  BY <1>4, <1>5, <1>6, <1>7, <1>8, <1>9, <1>10 DEF Push

(* The steps of the sole consumer keep the slots and what is in them. *)
LEMMA PopKeepsPair ==
  ASSUME NEW p, Producers = {p}, NEW c, Consumers = {c}, PairInv, Pop(c)
  PROVE  LastTaken' /\ Elements'
<1>0. /\ p \in Producers /\ c \in Consumers /\ c \in Threads
      /\ head \in Nat /\ tail \in Nat /\ head_fast \in Nat
      /\ pc \in [Threads -> PushPC \cup PopPC] /\ slot \in [Threads -> Nat]
      /\ item \in [Threads -> Items \cup {NoItem}]
  BY DEF PairInv, GateInv, TypeOK, Threads
<1>1. /\ pc'[p] = pc[p] /\ slot'[p] = slot[p] /\ item'[p] = item[p]
      /\ UNCHANGED <<tail, tail_fast, data>>
      /\ head' = head \/ head' = head + 1
  BY <1>0, PopFrame DEF PairInv, GateInv
<1>2. /\ pc[p] \in {"push_write", "push_commit"} => slot[p] = tail_fast - 1
      /\ pc[c] = "pop_read" => slot[c] = head_fast - 1
      /\ \A n \in head .. tail - 1 : data[Slot(n)] \in Items
      /\ pc[p] # "idle" => item[p] \in Items
      /\ pc[p] = "push_commit" => data[Slot(slot[p])] = item[p]
      /\ pc[c] = "pop_commit" => item[c] \in Items
  BY <1>0 DEF PairInv, LastTaken, Elements
<1>3. \A n \in head' .. tail' - 1 : data'[Slot(n)] \in Items
  BY <1>0, <1>1, <1>2
<1> DEFINE Kept == /\ pc'[c] = "pop_read" => slot'[c] = head_fast' - 1
                   /\ pc'[c] = "pop_commit" => item'[c] \in Items
<1>4. SUFFICES Kept
  <2>1. LastTaken'
    BY <1>1, <1>2, Zenon DEF LastTaken
  <2>2. Elements'
    <3>1. \A n : Slot(n)' = Slot(n)
      BY DEF Slot
    <3> QED
      BY <1>1, <1>2, <1>3, <3>1, Zenon DEF Elements
  <2> QED
    BY <2>1, <2>2
<1> USE DEF Goto, counters
<1>5. CASE PopLoad(c) \/ PopCount(c) \/ PopRevoke(c) \/ PopCommit(c)
  BY <1>0, <1>5 DEF PopLoad, PopCount, PopRevoke, PopCommit
<1>6. CASE PopTest(c)
  <2>1. pc'[c] \in {"pop_revoke", "pop_claim"}
    BY <1>0, <1>6 DEF PopTest
  <2> QED
    BY <2>1
<1>7. CASE PopClaim(c)
  BY <1>0, <1>7 DEF PopClaim
<1>8. CASE PopRead(c)
  <2>1. /\ pc[c] = "pop_read" /\ pc'[c] = "pop_commit" /\ item'[c] = data[Slot(slot[c])]
    BY <1>0, <1>8 DEF PopRead
  <2>2. head_fast = head + 1
    BY <2>1, SoleConsumer DEF PairInv
  <2>3. slot[c] = head
    BY <1>0, <1>2, <2>1, <2>2
  <2>4. head < tail
    <3>1. slot[c] < tail
      BY <1>0, <2>1 DEF PairInv, GateInv, ReadsCommitted
    <3> QED
      BY <2>3, <3>1
  <2>5. data[Slot(slot[c])] \in Items
    BY <1>0, <1>2, <2>3, <2>4
  <2> QED
    BY <2>1, <2>5
<1> QED
  BY <1>5, <1>6, <1>7, <1>8 DEF Pop

(* With one producer and one consumer, and a ring that divides the range of *)
(* the counters, each side knows its slot and elements are where they are   *)
(* counted.                                                                 *)
THEOREM PairHolds ==
  ASSUME NEW p, Producers = {p}, NEW c, Consumers = {c}, Width % QueueSize = 0
  PROVE  Spec => []PairInv
<1>1. Init => LastTaken /\ Elements
  <2> SUFFICES ASSUME Init PROVE LastTaken /\ Elements
    OBVIOUS
  <2>1. \A t \in Producers \cup Consumers : pc[t] = "idle"
    BY DEF Init, Threads
  <2>2. head .. tail - 1 = {}
    BY DEF Init
  <2> QED
    BY <2>1, <2>2 DEF LastTaken, Elements
<1>2. PairInv /\ [Next]_vars => LastTaken' /\ Elements'
  <2> SUFFICES ASSUME PairInv, [Next]_vars PROVE LastTaken' /\ Elements'
    OBVIOUS
  <2>1. CASE UNCHANGED vars
    BY <2>1 DEF vars, PairInv, LastTaken, Elements, Slot
  <2>2. ASSUME NEW q \in Producers, Push(q) PROVE LastTaken' /\ Elements'
    BY <2>2, PushKeepsPair
  <2>3. ASSUME NEW d \in Consumers, Pop(d) PROVE LastTaken' /\ Elements'
    BY <2>3, PopKeepsPair
  <2> QED
    BY <2>1, <2>2, <2>3 DEF Next, Rest
<1>3. PairInv <=> (GateInv /\ PushInv) /\ LastTaken /\ Elements
  BY DEF PairInv
<1> QED
  BY <1>1, <1>2, <1>3, RoomHolds, PTL DEF Spec

(* With one producer and one consumer, push never writes a slot whose       *)
(* element has still to be read, also where the counters wrap around.       *)
THEOREM NoElementOverwritten ==
  ASSUME NEW p, Producers = {p}, NEW c, Consumers = {c}, Width % QueueSize = 0
  PROVE  Spec => []WriteHitsFreeSlot
<1>1. PairInv => WriteHitsFreeSlot
  <2> SUFFICES ASSUME PairInv, pc[p] = "push_write", NEW i \in Unread \cup BeingRead
               PROVE  Slot(i) # Slot(slot[p])
    BY DEF WriteHitsFreeSlot
  <2>0. head \in Nat /\ head_fast \in Nat /\ tail \in Nat /\ p \in Producers
    BY DEF PairInv, GateInv, TypeOK
  <2>1. head <= head_fast /\ head_fast <= tail
    BY <2>0, InOrder DEF PairInv
  <2>2. i \in head .. tail - 1
    <3>1. CASE i \in Unread
      BY <2>0, <2>1, <3>1 DEF Unread
    <3>2. CASE i \in BeingRead
      <4>1. pc[c] = "pop_read" /\ i = slot[c]
        BY <3>2 DEF BeingRead
      <4>2. head_fast = head + 1
        BY <4>1, SoleConsumer DEF PairInv
      <4>3. slot[c] = head_fast - 1 /\ slot[c] < tail
        BY <4>1 DEF PairInv, LastTaken, GateInv, ReadsCommitted
      <4> QED
        BY <2>0, <4>1, <4>2, <4>3
    <3> QED
      BY <3>1, <3>2
  <2> QED
    BY <2>2, WrittenSlotFree
<1> QED
  BY <1>1, PairHolds, PTL

-----------------------------------------------------------------------------
(* One producer and one consumer: a bounded FIFO queue *)

(* The abstract queue and the element in the hands of each consumer. *)
Held == [c \in Consumers |->
           CASE pc[c] = "pop_read"   -> data[Slot(slot[c])]
             [] pc[c] = "pop_commit" -> item[c]
             [] OTHER                -> NoItem]
Stream == [n \in 1 .. tail - head_fast |-> data[Slot(head_fast + n - 1)]]

(* The stream is a sequence of elements. *)
LEMMA StreamIsSeq ==
  ASSUME NEW p \in Producers, PairInv
  PROVE  Stream \in Seq(Items) /\ Len(Stream) = tail - head_fast
<1>1. head \in Nat /\ head_fast \in Nat /\ tail \in Nat /\ head <= head_fast /\ head_fast <= tail
  BY InOrder DEF PairInv, GateInv, TypeOK
<1>2. ASSUME NEW n \in 1 .. tail - head_fast
      PROVE  data[Slot(head_fast + n - 1)] \in Items
  <2>1. head_fast + n - 1 \in head .. tail - 1
    BY <1>1
  <2> QED
    BY <2>1 DEF PairInv, Elements
<1>3. tail - head_fast \in Nat
  BY <1>1
<1>4. Stream \in [1 .. tail - head_fast -> Items]
  BY <1>2 DEF Stream
<1> QED
  BY <1>3, <1>4

(* The stream after a step. *)
LEMMA StreamNext ==
  Stream' = [n \in 1 .. tail' - head_fast' |-> data'[Slot(head_fast' + n - 1)]]
BY DEF Stream, Slot

(* What touches neither the published slots, nor the counters that bound    *)
(* them, nor the consumer, is no step of the abstract queue.                *)
LEMMA QueueSame ==
  ASSUME NEW p \in Producers, PairInv, tail' = tail, head_fast' = head_fast,
         \A n \in head .. tail - 1 : data'[Slot(n)] = data[Slot(n)]
  PROVE  Stream' = Stream
<1>1. head \in Nat /\ head_fast \in Nat /\ tail \in Nat /\ head <= head_fast
  BY InOrder DEF PairInv, GateInv, TypeOK
<1>2. \A n \in 1 .. tail - head_fast : head_fast + n - 1 \in head .. tail - 1
  BY <1>1
<1>3. Stream' = [n \in 1 .. tail - head_fast |-> data'[Slot(head_fast + n - 1)]]
  BY DEF Stream, Slot
<1>4. \A n \in 1 .. tail - head_fast :
        data'[Slot(head_fast + n - 1)] = data[Slot(head_fast + n - 1)]
  BY <1>2
<1> QED
  BY <1>3, <1>4, Zenon DEF Stream

(* Append, by what it holds at each place. *)
LEMMA AppendIs ==
  ASSUME NEW S, NEW f \in Seq(S), NEW x \in S, NEW g \in Seq(S), Len(g) = Len(f) + 1,
         \A n \in 1 .. Len(f) : g[n] = f[n], g[Len(f) + 1] = x
  PROVE  g = Append(f, x)
<1>1. Len(f) \in Nat
  BY LenProperties
<1>2. \A n \in 1 .. Len(g) : g[n] = Append(f, x)[n]
  BY <1>1, AppendProperties
<1> QED
  BY <1>2, AppendProperties, SeqEqual

(* Tail, by what it holds at each place. *)
LEMMA TailIs ==
  ASSUME NEW S, NEW f \in Seq(S), f # << >>, NEW g \in Seq(S), Len(g) = Len(f) - 1,
         \A n \in 1 .. Len(g) : g[n] = f[n + 1]
  PROVE  g = Tail(f)
<1>1. \A n \in 1 .. Len(g) : g[n] = Tail(f)[n]
  BY HeadTailProperties
<1> QED
  BY <1>1, HeadTailProperties, SeqEqual

(* What leaves the consumer and the slots it may read alone leaves it with *)
(* the element it has in hand.                                              *)
LEMMA HandsSame ==
  ASSUME NEW p \in Producers, NEW c, Consumers = {c}, PairInv,
         \A n \in head .. tail - 1 : data'[Slot(n)] = data[Slot(n)],
         pc'[c] = pc[c], slot'[c] = slot[c], item'[c] = item[c]
  PROVE  Held' = Held
<1>1. head \in Nat /\ tail \in Nat /\ head_fast \in Nat
  BY DEF PairInv, GateInv, TypeOK
<1>2. CASE pc[c] = "pop_read"
  <2>1. head_fast = head + 1
    BY <1>2, SoleConsumer DEF PairInv
  <2>2. slot[c] \in head .. tail - 1
    BY <1>1, <1>2, <2>1 DEF PairInv, LastTaken, GateInv, ReadsCommitted
  <2>3. data'[Slot(slot[c])] = data[Slot(slot[c])]
    BY <2>2
  <2>4. Held = [d \in {c} |-> data[Slot(slot[c])]]
    BY <1>2 DEF Held
  <2>5. Held' = [d \in {c} |-> data'[Slot(slot[c])]]
    BY <1>2 DEF Held, Slot
  <2> QED
    BY <2>3, <2>4, <2>5
<1>3. CASE pc[c] # "pop_read"
  BY <1>3 DEF Held
<1> QED
  BY <1>2, <1>3

(* A push is a step of the abstract queue where it commits: the element it   *)
(* has written becomes the last one.                                        *)
LEMMA PushRefines ==
  ASSUME NEW p, Producers = {p}, NEW c, Consumers = {c}, Width % QueueSize = 0,
         PairInv, Push(p)
  PROVE  /\ Held' = Held
         /\ \/ Stream' = Stream
            \/ \E x \in Items : Len(Stream) < QueueSize /\ Stream' = Append(Stream, x)
<1>0. /\ p \in Producers /\ p \in Threads /\ p # c /\ c \in Threads
      /\ head \in Nat /\ tail \in Nat /\ tail_fast \in Nat /\ head_fast \in Nat
      /\ head <= head_fast /\ head_fast <= tail /\ QueueSize \in Nat
      /\ pc \in [Threads -> PushPC \cup PopPC] /\ slot \in [Threads -> Nat]
      /\ item \in [Threads -> Items \cup {NoItem}]
      /\ data \in [0 .. QueueSize - 1 -> Items \cup {NoItem}]
      /\ slot[p] \in Nat
  BY InOrder, ThreadsAssumption, SizeAssumption DEF PairInv, GateInv, TypeOK, Threads
<1>1. pc'[c] = pc[c] /\ slot'[c] = slot[c] /\ head_fast' = head_fast
  BY <1>0, PushFrame DEF PairInv, GateInv
<1>2. item'[c] = item[c]
  BY <1>0 DEF Push, PushLoad, PushCount, PushTest, PushRevoke, PushClaim, PushWrite, PushCommit
<1>3. \A n \in head .. tail - 1 : data'[Slot(n)] = data[Slot(n)]
  <2>1. CASE PushWrite(p)
    <3>1. pc[p] = "push_write" /\ data' = [data EXCEPT ![Slot(slot[p])] = item[p]]
      BY <2>1 DEF PushWrite, Goto
    <3>2. \A n \in head .. tail - 1 : Slot(n) # Slot(slot[p])
      BY <3>1, WrittenSlotFree
    <3>3. ASSUME NEW n \in head .. tail - 1 PROVE Slot(n) \in 0 .. QueueSize - 1
      <4>1. n \in Nat
        BY <1>0
      <4> QED
        BY <4>1, SlotInRing, Zenon
    <3> QED
      BY <1>0, <3>1, <3>2, <3>3
  <2>2. CASE ~PushWrite(p)
    BY <2>2 DEF Push, PushLoad, PushCount, PushTest, PushRevoke, PushClaim, PushCommit
  <2> QED
    BY <2>1, <2>2
<1>4. Held' = Held
  BY <1>0, <1>1, <1>2, <1>3, HandsSame
<1>5. CASE PushCommit(p)
  <2>1. /\ pc[p] = "push_commit" /\ tail' = tail + 1 /\ data' = data
    BY <1>5 DEF PushCommit, Goto
  <2>2. tail_fast = tail + 1
    BY <1>0, <2>1 DEF PairInv, PushInv, PushAccounts, Writing
  <2>3. slot[p] = tail
    BY <1>0, <2>1, <2>2 DEF PairInv, LastTaken
  <2>4. data[Slot(tail)] \in Items
    BY <1>0, <2>1, <2>3 DEF PairInv, Elements
  <2>5. tail - head_fast < QueueSize
    BY <1>0, <2>2 DEF PairInv, PushInv, OccupancyBound
  <2>6. Stream \in Seq(Items) /\ Len(Stream) = tail - head_fast
    BY <1>0, StreamIsSeq
  <2> DEFINE longer == [n \in 1 .. tail' - head_fast' |-> data'[Slot(head_fast' + n - 1)]]
  <2>7. Stream' = longer /\ tail' - head_fast' = tail - head_fast + 1
    BY <1>0, <1>1, <2>1, StreamNext
  <2>8. /\ \A n \in 1 .. tail - head_fast : longer[n] = Stream[n]
        /\ longer[tail - head_fast + 1] = data[Slot(tail)]
    <3>1. \A n \in 1 .. tail - head_fast : longer[n] = Stream[n]
      BY <1>0, <1>1, <2>1, <2>7 DEF Stream
    <3>2. /\ tail - head_fast + 1 \in 1 .. tail' - head_fast'
          /\ head_fast' + (tail - head_fast + 1) - 1 = tail
      BY <1>0, <1>1, <2>7
    <3>3. longer[tail - head_fast + 1] = data'[Slot(head_fast' + (tail - head_fast + 1) - 1)]
      BY <3>2
    <3> QED
      BY <2>1, <3>1, <3>2, <3>3
  <2>9. longer \in Seq(Items) /\ Len(longer) = tail - head_fast + 1
    <3>1. tail - head_fast \in Nat /\ 1 .. tail' - head_fast' = 1 .. tail - head_fast + 1
      BY <1>0, <2>7
    <3>2. ASSUME NEW n \in 1 .. tail - head_fast + 1 PROVE longer[n] \in Items
      <4>1. n \in 1 .. tail - head_fast \/ n = tail - head_fast + 1
        BY <1>0
      <4>2. n \in 1 .. tail - head_fast => Stream[n] \in Items
        BY <2>6
      <4> QED
        BY <2>4, <2>8, <4>1, <4>2
    <3>3. longer \in [1 .. tail - head_fast + 1 -> Items]
      BY <3>1, <3>2
    <3> HIDE DEF longer
    <3> QED
      BY <3>1, <3>3
  <2> HIDE DEF longer
  <2>10. longer = Append(Stream, data[Slot(tail)])
    BY <2>4, <2>6, <2>8, <2>9, AppendIs
  <2> QED
    BY <1>4, <2>4, <2>5, <2>6, <2>7, <2>10
<1>6. CASE ~PushCommit(p)
  <2>1. tail' = tail
    BY <1>6 DEF Push, PushLoad, PushCount, PushTest, PushRevoke, PushClaim, PushWrite, counters
  <2> QED
    BY <1>0, <1>1, <1>3, <1>4, <2>1, QueueSame
<1> QED
  BY <1>5, <1>6

(* A pop is a step of the abstract queue where it takes its slot, which is   *)
(* that of the oldest element, and where it gives the slot back.            *)
LEMMA PopRefines ==
  ASSUME NEW p, Producers = {p}, NEW c, Consumers = {c}, PairInv, Pop(c)
  PROVE  \/ Stream' = Stream /\ Held' = Held
         \/ /\ Held[c] = NoItem /\ Stream # << >>
            /\ Held' = [Held EXCEPT ![c] = Head(Stream)] /\ Stream' = Tail(Stream)
         \/ /\ Held[c] # NoItem
            /\ Held' = [Held EXCEPT ![c] = NoItem] /\ Stream' = Stream
<1>0. /\ p \in Producers /\ c \in Consumers /\ c \in Threads
      /\ head \in Nat /\ tail \in Nat /\ head_fast \in Nat
      /\ head <= head_fast /\ head_fast <= tail
      /\ pc \in [Threads -> PushPC \cup PopPC] /\ slot \in [Threads -> Nat]
      /\ item \in [Threads -> Items \cup {NoItem}]
  BY InOrder DEF PairInv, GateInv, TypeOK, Threads
<1>1. tail' = tail /\ data' = data
  BY <1>0, PopFrame DEF PairInv, GateInv
<1>2. head_fast' = head_fast => Stream' = Stream
  BY <1>0, <1>1, QueueSame
<1>3. Held = [d \in {c} |-> Held[c]] /\ Held' = [d \in {c} |-> Held'[c]]
  BY DEF Held
<1>4. /\ Held[c] = CASE pc[c] = "pop_read"   -> data[Slot(slot[c])]
                     [] pc[c] = "pop_commit" -> item[c]
                     [] OTHER                -> NoItem
      /\ Held'[c] = CASE pc'[c] = "pop_read"   -> data[Slot(slot'[c])]
                      [] pc'[c] = "pop_commit" -> item'[c]
                      [] OTHER                 -> NoItem
  BY <1>0, <1>1 DEF Held, Slot
<1>5. CASE PopLoad(c) \/ PopCount(c) \/ PopTest(c) \/ PopRevoke(c)
  <2>1. /\ pc[c] \notin {"pop_read", "pop_commit"} /\ pc'[c] \notin {"pop_read", "pop_commit"}
        /\ head_fast' = head_fast
    BY <1>0, <1>5 DEF PopLoad, PopCount, PopTest, PopRevoke, Goto, counters
  <2>2. Held[c] = NoItem /\ Held'[c] = NoItem
    BY <1>4, <2>1
  <2> QED
    BY <1>2, <1>3, <2>1, <2>2
<1>6. CASE PopClaim(c)
  <2>1. /\ pc[c] = "pop_claim" /\ pc'[c] = "pop_read" /\ slot'[c] = head_fast
        /\ head_fast' = head_fast + 1
    BY <1>0, <1>6 DEF PopClaim, Goto
  <2>2. Held[c] = NoItem /\ Held'[c] = data[Slot(head_fast)]
    BY <1>4, <2>1
  <2>3. head_fast < tail
    <3>1. At("pop_claim") = {c}
      BY <2>1 DEF At
    <3>2. Cardinality(At("pop_claim")) = 1
      BY <3>1, FS_Singleton
    <3>3. PICK m \in Nat : Certified(m)
      BY DEF PairInv, GateInv, Gate
    <3> QED
      BY <1>0, <3>2, <3>3, UptoSizes DEF Certified
  <2>4. Stream \in Seq(Items) /\ Len(Stream) = tail - head_fast
    BY <1>0, StreamIsSeq
  <2>5. Stream # << >> /\ Head(Stream) = Stream[1] /\ Len(Stream) > 0
    BY <1>0, <2>3, <2>4
  <2>6. Stream[1] = data[Slot(head_fast)]
    <3>1. 1 \in 1 .. tail - head_fast /\ head_fast + 1 - 1 = head_fast
      BY <1>0, <2>3
    <3> QED
      BY <3>1 DEF Stream
  <2>7. Held' = [Held EXCEPT ![c] = Head(Stream)]
    BY <1>3, <2>2, <2>5, <2>6
  <2> DEFINE shorter == [n \in 1 .. tail' - head_fast' |-> data'[Slot(head_fast' + n - 1)]]
  <2>8. Stream' = shorter /\ tail' - head_fast' = tail - head_fast - 1 /\ tail' - head_fast' \in Nat
    BY <1>0, <1>1, <2>1, <2>3, StreamNext
  <2>9. \A n \in 1 .. tail' - head_fast' : shorter[n] = Stream[n + 1]
    <3> SUFFICES ASSUME NEW n \in 1 .. tail' - head_fast' PROVE shorter[n] = Stream[n + 1]
      OBVIOUS
    <3>1. n + 1 \in 1 .. tail - head_fast /\ head_fast' + n - 1 = head_fast + (n + 1) - 1
      BY <1>0, <2>1, <2>8
    <3>2. shorter[n] = data[Slot(head_fast + (n + 1) - 1)]
      BY <1>1, <3>1
    <3> QED
      BY <3>1, <3>2 DEF Stream
  <2>10. shorter \in Seq(Items) /\ Len(shorter) = tail' - head_fast'
    <3>1. ASSUME NEW n \in 1 .. tail' - head_fast' PROVE shorter[n] \in Items
      <4>1. n + 1 \in 1 .. Len(Stream)
        BY <1>0, <2>4, <2>8
      <4>2. Stream[n + 1] \in Items
        BY <2>4, <4>1
      <4> QED
        BY <2>9, <4>2
    <3>2. shorter \in [1 .. tail' - head_fast' -> Items]
      BY <3>1
    <3> HIDE DEF shorter
    <3> QED
      BY <2>8, <3>2
  <2> HIDE DEF shorter
  <2>11. shorter = Tail(Stream)
    BY <2>4, <2>5, <2>8, <2>9, <2>10, TailIs
  <2> QED
    BY <2>2, <2>5, <2>7, <2>8, <2>11
<1>7. CASE PopRead(c)
  <2>1. /\ pc[c] = "pop_read" /\ pc'[c] = "pop_commit" /\ item'[c] = data[Slot(slot[c])]
        /\ head_fast' = head_fast
    BY <1>0, <1>7 DEF PopRead, Goto, counters
  <2>2. Held'[c] = Held[c]
    BY <1>4, <2>1
  <2> QED
    BY <1>2, <1>3, <2>1, <2>2
<1>8. CASE PopCommit(c)
  <2>1. pc[c] = "pop_commit" /\ pc'[c] = "idle" /\ head_fast' = head_fast
    BY <1>0, <1>8 DEF PopCommit, Goto
  <2>2. Held[c] = item[c] /\ Held'[c] = NoItem
    BY <1>4, <2>1
  <2>3. item[c] # NoItem
    BY <1>0, <2>1, ItemsAssumption DEF PairInv, Elements
  <2>4. Held' = [Held EXCEPT ![c] = NoItem]
    BY <1>3, <2>2
  <2> QED
    BY <1>2, <2>1, <2>2, <2>3, <2>4
<1> QED
  BY <1>5, <1>6, <1>7, <1>8 DEF Pop

(* With one producer and one consumer the ring with its two layers of       *)
(* counters is a bounded FIFO queue: each element comes out once, whole and *)
(* in order, through any number of turns of the counters.                   *)
THEOREM RingIsQueue ==
  ASSUME NEW p, Producers = {p}, NEW d, Consumers = {d}, Width % QueueSize = 0
  PROVE  Spec => ImplementsQueue
<1>1. Init => Queue!Init
  <2> SUFFICES ASSUME Init PROVE Stream = << >> /\ Held = [e \in Consumers |-> NoItem]
    BY DEF Queue!Init, Stream, Held
  <2>1. pc[d] = "idle" /\ tail = 0 /\ head_fast = 0
    BY DEF Init, Threads
  <2>2. Held = [e \in Consumers |-> NoItem]
    BY <2>1 DEF Held
  <2>3. Stream = << >>
    BY <2>1 DEF Stream
  <2> QED
    BY <2>2, <2>3
<1>2. PairInv /\ [Next]_vars => [Queue!Next]_<<Stream, Held>>
  <2> SUFFICES ASSUME PairInv, [Next]_vars PROVE [Queue!Next]_<<Stream, Held>>
    OBVIOUS
  <2>1. ASSUME NEW x \in Items, Held' = Held, Len(Stream) < QueueSize, Stream' = Append(Stream, x)
        PROVE  Queue!Next
    BY <2>1 DEF Queue!Next, Queue!Put, Stream, Held
  <2>2. ASSUME Held[d] = NoItem, Stream # << >>, Held' = [Held EXCEPT ![d] = Head(Stream)],
               Stream' = Tail(Stream)
        PROVE  Queue!Next
    BY <2>2 DEF Queue!Next, Queue!Take, Stream, Held
  <2>3. ASSUME Held[d] # NoItem, Held' = [Held EXCEPT ![d] = NoItem], Stream' = Stream
        PROVE  Queue!Next
    BY <2>3 DEF Queue!Next, Queue!Deliver, Stream, Held
  <2>4. CASE Push(p)
    BY <2>1, <2>4, PushRefines
  <2>5. CASE Pop(d)
    BY <2>2, <2>3, <2>5, PopRefines
  <2>6. CASE UNCHANGED vars
    BY <2>6 DEF vars, Stream, Held, Slot
  <2> QED
    BY <2>4, <2>5, <2>6 DEF Next, Rest
<1>3. PairInv /\ [Next]_vars =>
        [Queue!Next]_<<[i \in 1 .. tail - head_fast |-> data[Slot(head_fast + i - 1)]],
                       [c \in Consumers |-> CASE pc[c] = "pop_read"   -> data[Slot(slot[c])]
                                              [] pc[c] = "pop_commit" -> item[c]
                                              [] OTHER                -> NoItem]>>
  BY <1>2 DEF Stream, Held
<1>4. Spec => []PairInv
  BY PairHolds
<1> QED
  BY <1>1, <1>3, <1>4, PTL DEF Spec, ImplementsQueue, Queue!Spec
=============================================================================
