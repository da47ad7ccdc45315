--------------------------- MODULE FastQueueProofs ---------------------------
(***************************************************************************)
(* Proofs about FastQueue, for any threads, sizes and bounds.  The         *)
(* argument for SingleProducer: a token is in the free list at most once,  *)
(* and not while a handle uses it.  For ScanMissesNothing: the elements    *)
(* that were queued when a scan started lie in queues it has not come by.  *)
(***************************************************************************)
EXTENDS FastQueue, SequenceTheorems, FiniteSetTheorems, TLAPS

-----------------------------------------------------------------------------
(* The inductive invariant *)

(* push_hard has taken a number for its element and not stored it yet. *)
Pending(p) == ppc[p] \notin {"none", "open"} /\ phase[p] # "ctor"

(* A handle at work has the queue its place in the code needs. *)
Handle ==
  \A p \in Producers :
    /\ ppc[p] = "none" => local[p] = NULL
    /\ ppc[p] = "apply" => local[p] = NULL /\ phase[p] # "skip"
    /\ ppc[p] = "preempt" => IF phase[p] = "skip" THEN local[p] \in stored ELSE local[p] = NULL
    /\ ppc[p] = "store" => local[p] \in Tokens
    /\ ppc[p] = "open" => local[p] \in stored \cup {NULL}
    /\ ppc[p] \in {"push", "release", "skip"} => local[p] \in stored /\ phase[p] # "ctor"
    /\ Pending(p) => pushed[p] > 0

(* Tokens are handed out in order; the free list and the elements are in    *)
(* queues that the list has.                                                *)
Listed ==
  /\ \A k \in stored : k < end
  /\ \A p \in Producers : local[p] < end
  /\ \A k \in Tokens : free[k] > 0 => k \in stored
  /\ \A k \in Tokens \ stored : queues[k] = << >>

(* A token is offered once, unless push_hard kept it after giving it back. *)
FreeOnce == \A k \in Tokens \ kept : free[k] <= 1

(* Element n of producer q is in local queue k. *)
In(k, q, n) == \E j \in DOMAIN queues[k] : queues[k][j] = <<q, n>>

(* Element n of producer q has been pushed, or was given up. *)
Past(q, n) == n <= pushed[q] /\ (Pending(q) => n < pushed[q])

(* Only elements that were pushed are queued or were seen by a scan. *)
Numbered ==
  \A q \in Producers, n \in 1 .. MaxPush :
    /\ \A k \in Tokens : In(k, q, n) => Past(q, n)
    /\ \A c \in Consumers : <<q, n>> \in present[c] => Past(q, n)

(* What a scan has still to come by. *)
Ahead(c, k) ==
  /\ k < size[c]
  /\ cpc[c] = "down" => k <= index[c] \/ k > middle[c]
  /\ cpc[c] = "up" => k >= index[c]
  /\ cpc[c] # "missed"

(* What a scan saw at its start and is still in a queue with one producer,  *)
(* it has still to come by.                                                 *)
Scans ==
  \A c \in Consumers : cpc[c] \in {"down", "up", "missed"} =>
    /\ size[c] <= end
    /\ \A k \in Tokens \ kept, q \in Producers, n \in 1 .. MaxPush :
         In(k, q, n) /\ <<q, n>> \in present[c] => Ahead(c, k)

PresentType == present \in [Consumers -> SUBSET (Producers \X (1 .. MaxPush))]

(* pop divides by the size of the list only when there is a queue. *)
ProbesQueues == \A c \in Consumers : cpc[c] \in {"probe", "endless"} => end > 0

(* Without the scans, which need that there is one consumer. *)
IInv ==
  /\ TypeOK /\ PresentType /\ ProbesQueues /\ Handle /\ Listed /\ FreeOnce
  /\ SingleProducer /\ Numbered

-----------------------------------------------------------------------------
(* The local queues *)

(* What a local queue holds. *)
Slots == (Producers \X (1 .. MaxPush)) \cup {Hole}

(* A hole is no element. *)
LEMMA HoleIsNone == \A q \in Producers, n \in 1 .. MaxPush : <<q, n>> # Hole
BY DEF Hole

(* pop takes an element out of one queue and adds none. *)
LEMMA Taken ==
  ASSUME TypeOK, \E k \in Tokens : Take(k)
  PROVE  /\ queues' \in [Tokens -> Seq(Slots)]
         /\ \A k \in Tokens : Len(queues'[k]) <= LocalSize
         /\ \A k \in Tokens : queues[k] = << >> => queues'[k] = << >>
         /\ \A k \in Tokens, q \in Producers, n \in 1 .. MaxPush : In(k, q, n)' => In(k, q, n)
<1>0. queues \in [Tokens -> Seq(Slots)] /\ LocalSize \in Nat /\ \A k \in Tokens : Len(queues[k]) <= LocalSize
  BY SizeAssumption DEF TypeOK, Slots
<1>1. PICK t \in Tokens : Take(t)
  OBVIOUS
<1>2. queues[t] \in Seq(Slots) /\ queues[t] # << >> /\ queues' = [queues EXCEPT ![t] = Tail(queues[t])]
  BY <1>0, <1>1 DEF Take
<1>3. /\ Tail(queues[t]) \in Seq(Slots)
      /\ Len(Tail(queues[t])) = Len(queues[t]) - 1 /\ Len(queues[t]) \in Nat
      /\ \A j \in 1 .. Len(Tail(queues[t])) : Tail(queues[t])[j] = queues[t][j + 1]
  BY <1>2, HeadTailProperties, LenProperties
<1>4. /\ queues'[t] = Tail(queues[t])
      /\ \A k \in Tokens \ {t} : queues'[k] = queues[k]
      /\ queues' \in [Tokens -> Seq(Slots)]
  BY <1>0, <1>2, <1>3
<1>5. \A k \in Tokens : Len(queues'[k]) <= LocalSize
  BY <1>0, <1>3, <1>4
<1>6. \A k \in Tokens : queues[k] = << >> => queues'[k] = << >>
  BY <1>2, <1>4
<1>7. ASSUME NEW k \in Tokens, NEW q \in Producers, NEW n \in 1 .. MaxPush, In(k, q, n)'
      PROVE  In(k, q, n)
  <2>1. PICK j \in DOMAIN queues'[k] : queues'[k][j] = <<q, n>>
    BY <1>7 DEF In
  <2>2. CASE k = t
    <3>1. DOMAIN queues'[t] = 1 .. Len(queues[t]) - 1 /\ DOMAIN queues[t] = 1 .. Len(queues[t])
      BY <1>2, <1>3, <1>4, LenProperties
    <3>2. j \in 1 .. Len(Tail(queues[t])) /\ j + 1 \in DOMAIN queues[t]
      BY <1>3, <2>1, <2>2, <3>1
    <3>3. queues[t][j + 1] = <<q, n>>
      BY <1>3, <1>4, <2>1, <2>2, <3>2
    <3> QED
      BY <2>2, <3>2, <3>3 DEF In
  <2>3. CASE k # t
    BY <1>4, <2>1, <2>3 DEF In
  <2> QED
    BY <2>2, <2>3
<1> QED
  BY <1>4, <1>5, <1>6, <1>7

(* The step of a producer that stores an element, or leaves a hole, in      *)
(* local queue k.                                                           *)
Stores(k, e) ==
  HasRoom(k) /\ queues' = [queues EXCEPT ![k] = Append(@, e)]

(* push adds its element to its queue and nothing else. *)
LEMMA Added ==
  ASSUME TypeOK, NEW t \in Tokens, NEW e \in Slots, Stores(t, e)
  PROVE  /\ queues' \in [Tokens -> Seq(Slots)]
         /\ \A k \in Tokens : Len(queues'[k]) <= LocalSize
         /\ \A k \in Tokens \ {t} : queues'[k] = queues[k]
         /\ \A k \in Tokens, q \in Producers, n \in 1 .. MaxPush :
              In(k, q, n)' => In(k, q, n) \/ <<q, n>> = e
<1>0. queues \in [Tokens -> Seq(Slots)] /\ LocalSize \in Nat /\ \A k \in Tokens : Len(queues[k]) <= LocalSize
  BY SizeAssumption DEF TypeOK, Slots
<1>2. /\ queues[t] \in Seq(Slots) /\ queues' = [queues EXCEPT ![t] = Append(queues[t], e)]
      /\ Len(queues[t]) < LocalSize
  BY <1>0 DEF Stores, HasRoom
<1>3. /\ Append(queues[t], e) \in Seq(Slots)
      /\ Len(Append(queues[t], e)) = Len(queues[t]) + 1 /\ Len(queues[t]) \in Nat
      /\ \A j \in 1 .. Len(queues[t]) : Append(queues[t], e)[j] = queues[t][j]
      /\ Append(queues[t], e)[Len(queues[t]) + 1] = e
  BY <1>2, AppendProperties, LenProperties
<1>4. /\ queues'[t] = Append(queues[t], e)
      /\ \A k \in Tokens \ {t} : queues'[k] = queues[k]
      /\ queues' \in [Tokens -> Seq(Slots)]
  BY <1>0, <1>2, <1>3
<1>5. \A k \in Tokens : Len(queues'[k]) <= LocalSize
  BY <1>0, <1>2, <1>3, <1>4
<1>6. ASSUME NEW k \in Tokens, NEW q \in Producers, NEW n \in 1 .. MaxPush, In(k, q, n)'
      PROVE  In(k, q, n) \/ <<q, n>> = e
  <2>1. PICK j \in DOMAIN queues'[k] : queues'[k][j] = <<q, n>>
    BY <1>6 DEF In
  <2>2. CASE k = t
    <3>1. DOMAIN queues'[t] = 1 .. Len(queues[t]) + 1 /\ DOMAIN queues[t] = 1 .. Len(queues[t])
      BY <1>2, <1>3, <1>4, LenProperties
    <3>2. CASE j = Len(queues[t]) + 1
      BY <1>3, <1>4, <2>1, <2>2, <3>2
    <3>3. CASE j # Len(queues[t]) + 1
      <4>1. j \in 1 .. Len(queues[t])
        BY <1>3, <2>1, <2>2, <3>1, <3>3
      <4>2. queues[t][j] = <<q, n>>
        BY <1>3, <1>4, <2>1, <2>2, <4>1
      <4> QED
        BY <2>2, <3>1, <4>1, <4>2 DEF In
    <3> QED
      BY <3>2, <3>3
  <2>3. CASE k # t
    BY <1>4, <2>1, <2>3 DEF In
  <2> QED
    BY <2>2, <2>3
<1> QED
  BY <1>4, <1>5, <1>6

-----------------------------------------------------------------------------
(* Consumers *)

(* A consumer changes nothing of the producers' and the lists'. *)
LEMMA ConsumerLeaves ==
  ASSUME IInv, NEW c \in Consumers, Consume(c)
  PROVE  /\ UNCHANGED <<kept, end, stored, free, ppc, local, retry, phase, pushed, handles>>
         /\ queues' = queues \/ \E k \in Tokens : Take(k)
<1>0. stored \subseteq Tokens
  BY DEF IInv, TypeOK
<1> USE DEF handleVars, Found
<1>1. ASSUME NEW m \in 0 .. end, ScanStart(c, m) \/ ProbeStart(c, m)
      PROVE  /\ UNCHANGED <<kept, end, stored, free, ppc, local, retry, phase, pushed, handles>>
             /\ queues' = queues
  BY <1>1 DEF ScanStart, ProbeStart
<1>2. CASE ScanHit(c)
  BY <1>0, <1>2 DEF ScanHit
<1>3. CASE ScanDown(c) \/ ScanUp(c) \/ ScanCut(c) \/ ScanEnd(c) \/ Missed(c) \/ Probe(c) \/ ReadBeyond(c)
  BY <1>3 DEF ScanDown, ScanUp, ScanCut, ScanEnd, Missed, Probe, ReadBeyond
<1>4. CASE ProbeHit(c)
  BY <1>0, <1>4 DEF ProbeHit
<1>5. ASSUME NEW k \in Tokens, EndlessHit(c, k)
      PROVE  /\ UNCHANGED <<kept, end, stored, free, ppc, local, retry, phase, pushed, handles>>
             /\ Take(k)
  BY <1>5 DEF EndlessHit
<1> QED
  BY <1>1, <1>2, <1>3, <1>4, <1>5 DEF Consume

(* The places of a consumer. *)
ScanType ==
  /\ cpc \in [Consumers -> {"idle", "down", "up", "missed", "probe", "endless", "crashed"}]
  /\ size \in [Consumers -> Nat]
  /\ middle \in [Consumers -> Nat]
  /\ index \in [Consumers -> Int]
  /\ i \in [Consumers -> Nat]

(* A consumer keeps the types, and divides by no empty list. *)
LEMMA ConsumerTypes ==
  ASSUME IInv, NEW c \in Consumers, Consume(c)
  PROVE  TypeOK' /\ PresentType' /\ ProbesQueues'
<1>0. TypeOK /\ PresentType /\ ProbesQueues /\ ScanType /\ end \in Nat
  BY DEF IInv, TypeOK, ScanType
<1>1. /\ UNCHANGED <<kept, end, stored, free, ppc, local, retry, phase, pushed, handles>>
      /\ queues' = queues \/ \E k \in Tokens : Take(k)
  BY ConsumerLeaves
<1>2. /\ queues' \in [Tokens -> Seq(Slots)]
      /\ \A k \in Tokens : Len(queues'[k]) <= LocalSize
  BY <1>0, <1>1, Taken DEF TypeOK, Slots
<1>3. Queued \subseteq Producers \X (1 .. MaxPush)
  BY DEF Queued
<1>4. ScanType' /\ PresentType' /\ ProbesQueues'
  <2> USE DEF ScanType, PresentType, ProbesQueues
  <2>1. ASSUME NEW m \in 0 .. end, ScanStart(c, m) PROVE ScanType' /\ PresentType' /\ ProbesQueues'
    BY <1>0, <1>1, <1>3, <2>1 DEF ScanStart
  <2>2. ASSUME NEW m \in 0 .. end, ProbeStart(c, m) PROVE ScanType' /\ PresentType' /\ ProbesQueues'
    BY <1>0, <1>1, <2>2 DEF ProbeStart
  <2>3. ASSUME Return(c) PROVE ScanType' /\ PresentType' /\ ProbesQueues'
    BY <1>0, <1>1, <2>3 DEF Return
  <2>4. CASE ScanHit(c) \/ ScanCut(c) \/ Missed(c) \/ ProbeHit(c) \/ \E k \in Tokens : EndlessHit(c, k)
    BY <2>3, <2>4 DEF ScanHit, ScanCut, Missed, ProbeHit, EndlessHit
  <2>5. CASE ScanDown(c)
    BY <1>0, <1>1, <2>5 DEF ScanDown
  <2>6. CASE ScanUp(c)
    BY <1>0, <1>1, <2>6 DEF ScanUp
  <2>7. CASE ScanEnd(c)
    BY <1>0, <1>1, <2>7 DEF ScanEnd
  <2>8. CASE Probe(c)
    <3>1. CASE Return(c)
      BY <2>3, <3>1
    <3>2. CASE ~Return(c)
      <4>1. index[c] % end \in Int /\ i[c] + 1 \in Nat
        <5>1. end > 0 /\ index[c] \in Int /\ i[c] \in Nat
          BY <1>0, <2>8 DEF Probe
        <5> QED
          BY <1>0, <5>1
      <4> DEFINE k == index[c] % end
                 cur == k + 2 * (i[c] + 1) + 1
      <4>2. cur \in Int
        BY <4>1
      <4>3. /\ cpc[c] = "probe" /\ UNCHANGED <<size, middle, present>>
            /\ \/ cpc' = [cpc EXCEPT ![c] = "endless"]
               \/ cpc' = [cpc EXCEPT ![c] = cpc[c]]
            /\ i' = [i EXCEPT ![c] = i[c] + 1]
            /\ index' = [index EXCEPT ![c] = cur]
        BY <1>0, <2>8, <3>2 DEF Probe
      <4> HIDE DEF cur
      <4> QED
        BY <1>0, <1>1, <4>1, <4>2, <4>3
    <3> QED
      BY <3>1, <3>2
  <2>9. CASE ReadBeyond(c)
    BY <1>0, <1>1, <2>9 DEF ReadBeyond
  <2> QED
    BY <2>1, <2>2, <2>4, <2>5, <2>6, <2>7, <2>8, <2>9 DEF Consume
<1>5. TypeOK'
  BY <1>0, <1>1, <1>2, <1>4 DEF TypeOK, ScanType, Slots
<1> QED
  BY <1>4, <1>5

(* What a consumer does keeps the invariant. *)
LEMMA ConsumerKeeps ==
  ASSUME IInv, NEW c \in Consumers, Consume(c)
  PROVE  IInv'
<1>0. TypeOK /\ TypeOK' /\ PresentType' /\ ProbesQueues'
  BY ConsumerTypes DEF IInv
<1>1. /\ UNCHANGED <<kept, end, stored, free, ppc, local, retry, phase, pushed, handles>>
      /\ queues' = queues \/ \E k \in Tokens : Take(k)
  BY ConsumerLeaves
<1>2. /\ \A k \in Tokens : queues[k] = << >> => queues'[k] = << >>
      /\ \A k \in Tokens, q \in Producers, n \in 1 .. MaxPush : In(k, q, n)' => In(k, q, n)
  <2>1. CASE queues' = queues
    BY <2>1 DEF In
  <2>2. CASE \E k \in Tokens : Take(k)
    BY <1>0, <2>2, Taken
  <2> QED
    BY <1>1, <2>1, <2>2
<1>3. Handle' /\ FreeOnce' /\ SingleProducer'
  BY <1>1 DEF IInv, Handle, FreeOnce, SingleProducer, Uses, Pending, NULL, Tokens
<1>4. Listed'
  BY <1>1, <1>2 DEF IInv, Listed, Tokens
<1>5. \A q \in Producers, n \in 1 .. MaxPush : Past(q, n) => Past(q, n)'
  BY <1>1 DEF Past, Pending
<1>6. \A q \in Producers, n \in 1 .. MaxPush, d \in Consumers :
        <<q, n>> \in present'[d] => <<q, n>> \in present[d] \/ \E k \in Tokens : In(k, q, n)
  <2>1. present' = present \/ present' = [present EXCEPT ![c] = {}] \/ present' = [present EXCEPT ![c] = Queued]
    BY DEF Consume, ScanStart, ProbeStart, ScanHit, ScanDown, ScanUp, ScanCut, ScanEnd, Missed, ProbeHit,
           Probe, EndlessHit, ReadBeyond, Return
  <2>2. \A q \in Producers, n \in 1 .. MaxPush : <<q, n>> \in Queued => \E k \in Tokens : In(k, q, n)
    BY DEF Queued, In, Range
  <2> QED
    BY <2>1, <2>2 DEF IInv, PresentType
<1>7. Numbered'
  BY <1>2, <1>5, <1>6 DEF IInv, Numbered, Tokens
<1> QED
  BY <1>0, <1>3, <1>4, <1>7 DEF IInv
-----------------------------------------------------------------------------
(* Producers *)

(* The places of a producer. *)
HandleType ==
  /\ end \in Nat /\ stored \subseteq Tokens /\ kept \subseteq stored
  /\ free \in [Tokens -> Nat]
  /\ ppc \in [Producers -> {"none", "apply", "preempt", "store", "open", "push", "release", "skip"}]
  /\ local \in [Producers -> Tokens \cup {NULL}]
  /\ retry \in [Producers -> 1 .. Attempts]
  /\ phase \in [Producers -> {"ctor", "push", "skip"}]
  /\ pushed \in [Producers -> 0 .. MaxPush]
  /\ handles \in 0 .. MaxHandles

(* The free list takes a token, or is full and drops it. *)
LEMMA Released ==
  ASSUME free \in [Tokens -> Nat], NEW k \in Tokens, Release(k)
  PROVE  /\ free' \in [Tokens -> Nat]
         /\ \A j \in Tokens \ {k} : free'[j] = free[j]
         /\ free'[k] \in {free[k], free[k] + 1}
BY DEF Release

(* The turns of a retry loop stay within their bounds. *)
LEMMA Turns ==
  ASSUME NEW r \in 1 .. Attempts
  PROVE  Attempts \in 1 .. Attempts /\ (IF r = 1 THEN Attempts ELSE r - 1) \in 1 .. Attempts
BY SizeAssumption

(* Every step of a producer but the stores leaves the queues alone; a store *)
(* is of an element that has not been in a queue before.                    *)
LEMMA ProducerStores ==
  ASSUME IInv, NEW p \in Producers, Produce(p) \/ Call(p)
  PROVE  /\ UNCHANGED scanVars
         /\ \A q \in Producers, n \in 1 .. MaxPush : Past(q, n) => Past(q, n)'
         /\ \/ queues' = queues
            \/ \E k \in stored : Stores(k, Hole)
            \/ \E k \in stored, n \in 1 .. MaxPush : Stores(k, <<p, n>>) /\ ~Past(p, n) /\ Past(p, n)'
<1> DEFINE Grows == \A q \in Producers, n \in 1 .. MaxPush : Past(q, n) => Past(q, n)'
<1>0. /\ ppc \in [Producers -> {"none", "apply", "preempt", "store", "open", "push", "release", "skip"}]
      /\ phase \in [Producers -> {"ctor", "push", "skip"}]
      /\ pushed \in [Producers -> 0 .. MaxPush] /\ MaxPush \in Nat /\ Handle
  BY SizeAssumption DEF IInv, TypeOK
<1>1. UNCHANGED scanVars
  BY DEF Produce, Call, apply, ApplyFails, preempt, Store, PreemptFails, TryPush, TryPushFails,
         ReleaseFull, NewHandle, push, push_hard, Destroy
<1>2. CASE apply(p) \/ ApplyFails(p) \/ preempt(p) \/ Store(p) \/ PreemptFails(p) \/ TryPushFails(p)
           \/ ReleaseFull(p) \/ NewHandle(p) \/ Destroy(p)
  <2>1. queues' = queues /\ pushed' = pushed
    BY <1>2 DEF apply, ApplyFails, preempt, Store, PreemptFails, TryPushFails, ReleaseFull, NewHandle, Destroy
  <2>2. \A q \in Producers : Pending(q)' => Pending(q)
    <3>1. CASE apply(p)
      BY <1>0, <3>1 DEF apply, Goto, Acquired, Pending
    <3>2. CASE ApplyFails(p) \/ preempt(p)
      BY <1>0, <3>2 DEF ApplyFails, preempt, Goto, Pending
    <3>3. CASE Store(p)
      BY <1>0, <3>3 DEF Store, Goto, Acquired, Pending
    <3>4. CASE PreemptFails(p)
      BY <1>0, <3>4 DEF PreemptFails, Goto, Acquired, Pending
    <3>5. CASE TryPushFails(p)
      BY <1>0, <3>5 DEF TryPushFails, Pending
    <3>6. CASE ReleaseFull(p)
      BY <1>0, <3>6 DEF ReleaseFull, Goto, Pending, Handle
    <3>7. CASE NewHandle(p) \/ Destroy(p)
      BY <1>0, <3>7 DEF NewHandle, Destroy, Goto, Pending
    <3> QED
      BY <1>2, <3>1, <3>2, <3>3, <3>4, <3>5, <3>6, <3>7
  <2>3. Grows
    BY <2>1, <2>2 DEF Past
  <2> QED
    BY <1>1, <2>1, <2>3
<1>3. CASE TryPush(p)
  <2>1. /\ local[p] \in stored /\ Pending(p) /\ pushed[p] \in 1 .. MaxPush
        /\ Stores(local[p], <<p, pushed[p]>>) \/ Stores(local[p], Hole)
    <3>1. local[p] \in stored /\ Pending(p) /\ pushed[p] \in 1 .. MaxPush
      BY <1>0, <1>3 DEF TryPush, Handle, Pending
    <3>2. Enqueue(p, pushed[p])
      BY <1>3 DEF TryPush
    <3> QED
      BY <3>1, <3>2 DEF Enqueue, Stores
  <2>2. /\ pushed' = pushed /\ ~Pending(p)'
        /\ \A q \in Producers \ {p} : Pending(q)' <=> Pending(q)
    BY <1>0, <1>3 DEF TryPush, Pending
  <2>3. Grows
    BY <2>2 DEF Past
  <2>4. PICK n \in 1 .. MaxPush : n = pushed[p]
    BY <2>1
  <2>5. ~Past(p, n) /\ Past(p, n)'
    BY <2>1, <2>2, <2>4 DEF Past
  <2> QED
    BY <1>1, <2>1, <2>3, <2>4, <2>5
<1>4. CASE push(p)
  <2>1. /\ pushed[p] + 1 \in 1 .. MaxPush /\ ppc[p] = "open" /\ ppc'[p] = "open"
        /\ \A q \in Producers : /\ pushed'[q] = IF q = p THEN pushed[p] + 1 ELSE pushed[q]
                                /\ pushed[q] \in Nat
        /\ \A q \in Producers : Pending(q)' <=> Pending(q)
    BY <1>0, <1>4 DEF push, NextPush, Goto, Pending
  <2>2. Grows
    BY <2>1 DEF Past
  <2>3. PICK n \in 1 .. MaxPush : n = pushed[p] + 1
    BY <2>1
  <2>4. ~Past(p, n) /\ Past(p, n)'
    BY <2>1, <2>3 DEF Past, Pending
  <2>5. CASE local[p] # NULL /\ Enqueue(p, pushed[p] + 1)
    <3>1. local[p] \in stored
      BY <1>0, <2>1, <2>5 DEF Handle
    <3>2. Stores(local[p], <<p, n>>) \/ Stores(local[p], Hole)
      BY <2>3, <2>5 DEF Enqueue, Stores
    <3> QED
      BY <1>1, <2>2, <2>4, <3>1, <3>2
  <2>6. CASE queues' = queues
    BY <1>1, <2>2, <2>6
  <2> QED
    BY <1>4, <2>5, <2>6 DEF push
<1>5. CASE push_hard(p)
  <2>1. /\ queues' = queues /\ ~Pending(p)
        /\ \A q \in Producers : /\ pushed'[q] = IF q = p THEN pushed[p] + 1 ELSE pushed[q]
                                /\ pushed[q] \in Nat
        /\ \A q \in Producers \ {p} : Pending(q)' <=> Pending(q)
    BY <1>0, <1>5 DEF push_hard, NextPush, Goto, Pending
  <2>2. Grows
    BY <2>1 DEF Past
  <2> QED
    BY <1>1, <2>1, <2>2
<1> QED
  BY <1>2, <1>3, <1>4, <1>5 DEF Produce, Call

(* A producer keeps the types. *)
LEMMA ProducerTypes ==
  ASSUME IInv, NEW p \in Producers, Produce(p) \/ Call(p)
  PROVE  TypeOK' /\ PresentType'
<1>0. TypeOK /\ HandleType /\ PresentType /\ Handle /\ MaxPush \in Nat /\ MaxHandles \in Nat
  BY SizeAssumption DEF IInv, TypeOK, HandleType
<1>1. retry[p] \in 1 .. Attempts /\ Attempts \in 1 .. Attempts
      /\ (IF retry[p] = 1 THEN Attempts ELSE retry[p] - 1) \in 1 .. Attempts
  BY <1>0, Turns DEF HandleType
<1>2. /\ queues' \in [Tokens -> Seq(Slots)]
      /\ \A k \in Tokens : Len(queues'[k]) <= LocalSize
  <2>1. CASE queues' = queues
    BY <1>0, <2>1 DEF TypeOK, Slots
  <2>2. ASSUME NEW k \in stored, NEW e \in Slots, Stores(k, e)
        PROVE  /\ queues' \in [Tokens -> Seq(Slots)]
               /\ \A t \in Tokens : Len(queues'[t]) <= LocalSize
    <3>1. k \in Tokens
      BY <1>0 DEF TypeOK
    <3> QED
      BY <1>0, <2>2, <3>1, Added
  <2>3. Hole \in Slots /\ \A n \in 1 .. MaxPush : <<p, n>> \in Slots
    BY DEF Slots
  <2> QED
    BY <2>1, <2>2, <2>3, ProducerStores
<1>3. HandleType'
  <2> USE DEF HandleType, Goto, Acquired
  <2>1. CASE apply(p)
    BY <1>0, <1>1, <2>1 DEF apply
  <2>2. CASE ApplyFails(p)
    BY <1>0, <1>1, <2>2 DEF ApplyFails
  <2>3. CASE preempt(p)
    <3>1. end \in Tokens
      BY <1>0, <2>3, SizeAssumption DEF preempt, Tokens
    <3> QED
      BY <1>0, <1>1, <2>3, <3>1 DEF preempt
  <2>4. CASE Store(p)
    BY <1>0, <1>1, <2>4 DEF Store, Handle
  <2>5. CASE PreemptFails(p)
    BY <1>0, <1>1, <2>5 DEF PreemptFails, Handle
  <2>6. CASE TryPush(p)
    BY <1>0, <1>1, <2>6 DEF TryPush
  <2>7. CASE TryPushFails(p)
    BY <1>0, <1>1, <2>7 DEF TryPushFails
  <2>8. CASE ReleaseFull(p)
    <3>1. local[p] \in Tokens /\ Release(local[p])
      BY <1>0, <2>8 DEF ReleaseFull, Handle
    <3>2. free' \in [Tokens -> Nat]
      BY <1>0, <3>1, Released
    <3> QED
      BY <1>0, <1>1, <2>8, <3>2 DEF ReleaseFull
  <2>9. CASE NewHandle(p)
    BY <1>0, <1>1, <2>9 DEF NewHandle
  <2>10. CASE push(p)
    BY <1>0, <1>1, <2>10, SMTT(30) DEF push, NextPush
  <2>11. CASE push_hard(p)
    BY <1>0, <1>1, <2>11 DEF push_hard, NextPush
  <2>12. CASE Destroy(p)
    <3>1. free' \in [Tokens -> Nat]
      <4>1. CASE local[p] = NULL
        BY <1>0, <2>12, <4>1 DEF Destroy
      <4>2. CASE local[p] # NULL
        <5>1. local[p] \in Tokens /\ Release(local[p])
          BY <1>0, <2>12, <4>2 DEF Destroy
        <5> QED
          BY <1>0, <5>1, Released
      <4> QED
        BY <4>1, <4>2
    <3> QED
      BY <1>0, <1>1, <2>12, <3>1 DEF Destroy
  <2> QED
    BY <2>1, <2>2, <2>3, <2>4, <2>5, <2>6, <2>7, <2>8, <2>9, <2>10, <2>11, <2>12 DEF Produce, Call
<1>4. UNCHANGED <<cpc, size, middle, index, i, present>>
  BY ProducerStores DEF scanVars
<1> QED
  BY <1>0, <1>2, <1>3, <1>4 DEF TypeOK, HandleType, PresentType, Slots

(* A handle has the queue that its next step needs. *)
LEMMA HandleKept ==
  ASSUME IInv, NEW p \in Producers, Produce(p) \/ Call(p)
  PROVE  Handle'
<1>0. /\ HandleType /\ Handle
      /\ NULL \notin stored /\ MaxQueues \in Nat
  <2>1. HandleType /\ Handle
    BY DEF IInv, TypeOK, HandleType
  <2>2. NULL \notin Tokens /\ MaxQueues \in Nat
    BY SizeAssumption DEF NULL, Tokens
  <2> QED
    BY <2>1, <2>2 DEF HandleType
<1> USE DEF Handle, HandleType, Pending, Goto, Acquired, NULL, Tokens
<1>1. CASE apply(p)
  <2>1. PICK k \in Tokens : free[k] > 0 /\ local' = [local EXCEPT ![p] = k] /\ Goto(p, "apply", Acquired(p, k))
    BY <1>1 DEF apply
  <2>2. k \in stored
    BY <2>1 DEF IInv, Listed
  <2> QED
    BY <1>0, <1>1, <2>1, <2>2, SMTT(30) DEF apply
<1>2. CASE ApplyFails(p)
  BY <1>0, <1>2 DEF ApplyFails
<1>3. CASE preempt(p)
  <2>1. end \in Tokens /\ local'[p] = end /\ ppc'[p] = "store" /\ ppc[p] = "preempt"
    BY <1>0, <1>3 DEF preempt
  <2>2. \A q \in Producers \ {p} : local'[q] = local[q] /\ ppc'[q] = ppc[q]
    BY <1>0, <1>3 DEF preempt
  <2>3. stored' = stored /\ phase' = phase /\ pushed' = pushed
    BY <1>3 DEF preempt
  <2> QED
    BY <1>0, <2>1, <2>2, <2>3, ZenonT(30)
<1>4. CASE Store(p)
  BY <1>0, <1>4 DEF Store
<1>5. CASE PreemptFails(p)
  BY <1>0, <1>5, SMTT(30) DEF PreemptFails
<1>6. CASE TryPush(p)
  BY <1>0, <1>6 DEF TryPush
<1>7. CASE TryPushFails(p)
  BY <1>0, <1>7, SMTT(30) DEF TryPushFails
<1>8. CASE ReleaseFull(p)
  BY <1>0, <1>8 DEF ReleaseFull
<1>9. CASE NewHandle(p)
  BY <1>0, <1>9 DEF NewHandle
<1>10. CASE push(p)
  BY <1>0, <1>10 DEF push, NextPush
<1>11. CASE push_hard(p)
  BY <1>0, <1>11 DEF push_hard, NextPush
<1>12. CASE Destroy(p)
  BY <1>0, <1>12 DEF Destroy
<1> QED
  BY <1>1, <1>2, <1>3, <1>4, <1>5, <1>6, <1>7, <1>8, <1>9, <1>10, <1>11, <1>12 DEF Produce, Call

(* The lists keep naming queues that exist. *)
LEMMA ListedKept ==
  ASSUME IInv, NEW p \in Producers, Produce(p) \/ Call(p)
  PROVE  Listed'
<1>0. /\ HandleType /\ Handle /\ Listed /\ MaxQueues \in Nat
      /\ \A q \in Producers : local[q] \in Int
      /\ \A k \in stored : k \in Int
  <2>1. HandleType /\ Handle /\ Listed
    BY DEF IInv, TypeOK, HandleType
  <2>2. NULL \in Int /\ MaxQueues \in Nat /\ \A k \in Tokens : k \in Int
    BY SizeAssumption DEF NULL, Tokens
  <2> QED
    BY <2>1, <2>2 DEF HandleType
<1>1. \A k \in Tokens \ stored : queues'[k] = << >>
  <2>1. ASSUME NEW t \in stored, NEW e \in Slots, Stores(t, e)
        PROVE  \A k \in Tokens \ stored : queues'[k] = << >>
    <3>1. t \in Tokens
      BY <1>0 DEF HandleType
    <3>2. \A k \in Tokens \ {t} : queues'[k] = queues[k]
      BY <2>1, <3>1, Added DEF IInv
    <3> QED
      BY <1>0, <3>2 DEF Listed
  <2>2. Hole \in Slots /\ \A n \in 1 .. MaxPush : <<p, n>> \in Slots
    BY DEF Slots
  <2> QED
    BY <1>0, <2>1, <2>2, ProducerStores DEF Listed
<1> USE DEF Listed, HandleType, Handle, NULL, Tokens, Goto
<1>2. CASE apply(p)
  BY <1>0, <1>1, <1>2, SMTT(30) DEF apply
<1>3. CASE ApplyFails(p)
  BY <1>0, <1>1, <1>3 DEF ApplyFails
<1>4. CASE preempt(p)
  <2>1. end' = end + 1 /\ stored' = stored /\ free' = free
    BY <1>4 DEF preempt
  <2>2. \A q \in Producers : local[q] \in Int /\ local'[q] = IF q = p THEN end ELSE local[q]
    BY <1>0, <1>4 DEF preempt
  <2>3. ASSUME NEW q \in Producers PROVE local'[q] < end'
    <3>1. local[q] < end /\ local[q] \in Int /\ end \in Nat
      BY <1>0
    <3> QED
      BY <2>1, <2>2, <3>1
  <2>4. \A k \in stored' : k < end'
    BY <1>0, <2>1
  <2> QED
    BY <1>0, <1>1, <2>1, <2>3, <2>4
<1>5. CASE Store(p)
  <2>1. end' = end /\ stored' = stored \cup {local[p]} /\ free' = free /\ local' = local
    BY <1>5 DEF Store
  <2> QED
    BY <1>0, <1>1, <2>1
<1>6. CASE PreemptFails(p)
  <2>1. end' = end + 1 /\ stored' = stored /\ free' = free /\ local' = local
    BY <1>6 DEF PreemptFails
  <2>2. \A q \in Producers : local'[q] < end'
    BY <1>0, <2>1
  <2>3. \A k \in stored' : k < end'
    BY <1>0, <2>1
  <2> QED
    BY <1>0, <1>1, <2>1, <2>2, <2>3
<1>7. CASE TryPush(p)
  BY <1>0, <1>1, <1>7 DEF TryPush
<1>8. CASE TryPushFails(p)
  BY <1>0, <1>1, <1>8 DEF TryPushFails
<1>9. CASE ReleaseFull(p)
  <2>1. local[p] \in stored /\ local[p] \in Tokens /\ Release(local[p])
    BY <1>0, <1>9 DEF ReleaseFull
  <2>2. \A k \in Tokens : k # local[p] => free'[k] = free[k]
    BY <1>0, <2>1, Released DEF HandleType
  <2> QED
    BY <1>0, <1>1, <1>9, <2>1, <2>2 DEF ReleaseFull
<1>10. CASE NewHandle(p)
  BY <1>0, <1>1, <1>10 DEF NewHandle
<1>11. CASE push(p)
  BY <1>0, <1>1, <1>11 DEF push
<1>12. CASE push_hard(p)
  BY <1>0, <1>1, <1>12 DEF push_hard
<1>13. CASE Destroy(p)
  <2>1. \A k \in Tokens : k # local[p] => free'[k] = free[k]
    <3>1. CASE local[p] = NULL
      BY <1>0, <1>13, <3>1 DEF Destroy
    <3>2. CASE local[p] # NULL
      <4>1. local[p] \in Tokens /\ Release(local[p])
        BY <1>0, <1>13, <3>2 DEF Destroy
      <4> QED
        BY <1>0, <4>1, Released, SMTT(30)
    <3> QED
      BY <3>1, <3>2
  <2>2. local[p] = NULL \/ local[p] \in stored
    BY <1>0, <1>13 DEF Destroy
  <2>3. end' = end /\ stored' = stored /\ local' = [local EXCEPT ![p] = NULL]
    BY <1>13 DEF Destroy
  <2>4. ASSUME NEW q \in Producers PROVE local'[q] < end'
    <3>1. local[q] < end /\ local[q] \in Int /\ end \in Nat
      BY <1>0
    <3>2. local'[q] = NULL \/ local'[q] = local[q]
      BY <1>0, <2>3
    <3> QED
      BY <2>3, <3>1, <3>2
  <2>5. ASSUME NEW k \in Tokens, free'[k] > 0 PROVE k \in stored
    <3>1. CASE k = local[p]
      BY <2>2, <3>1
    <3>2. CASE k # local[p]
      BY <1>0, <2>1, <2>5, <3>2
    <3> QED
      BY <3>1, <3>2
  <2>6. \A k \in stored : k < end'
    BY <1>0, <2>3
  <2> QED
    BY <1>1, <2>3, <2>4, <2>5, <2>6
<1> QED
  BY <1>2, <1>3, <1>4, <1>5, <1>6, <1>7, <1>8, <1>9, <1>10, <1>11, <1>12, <1>13 DEF Produce, Call

(* Nobody gets a queue, and nobody gives one back. *)
LEMMA OwnersStay ==
  ASSUME IInv, kept \subseteq kept', free' = free,
         \A q \in Producers, k \in Tokens \ kept' : Uses(q, k)' => Uses(q, k)
  PROVE  FreeOnce' /\ SingleProducer'
<1>1. FreeOnce /\ SingleProducer
  BY DEF IInv
<1>2. FreeOnce'
  BY <1>1 DEF FreeOnce, Tokens
<1>3. SingleProducer'
  BY <1>1 DEF SingleProducer, Tokens
<1> QED
  BY <1>2, <1>3

(* Only the producer that gives its queue back changes. *)
LEMMA OwnerLeaves ==
  ASSUME IInv, NEW p \in Producers, NEW t \in Tokens, Uses(p, t), kept' = kept,
         \A k \in Tokens \ {t} : free'[k] = free[k], free'[t] \in {free[t], free[t] + 1},
         \A k \in Tokens : ~Uses(p, k)',
         \A q \in Producers \ {p}, k \in Tokens : Uses(q, k)' => Uses(q, k)
  PROVE  FreeOnce' /\ SingleProducer'
<1>1. FreeOnce /\ SingleProducer
  BY DEF IInv
<1>2. t \notin kept => free[t] = 0 /\ \A q \in Producers \ {p} : ~Uses(q, t)
  BY <1>1 DEF SingleProducer
<1>3. FreeOnce'
  BY <1>1, <1>2 DEF FreeOnce, Tokens
<1>4. SingleProducer'
  BY <1>1, <1>2 DEF SingleProducer, Tokens
<1> QED
  BY <1>3, <1>4

(* A producer gets a queue that is free and nobody uses. *)
LEMMA OwnerComes ==
  ASSUME IInv, NEW p \in Producers, NEW t \in Tokens, kept' = kept,
         \A k \in Tokens \ {t} : free'[k] = free[k],
         t \notin kept => free'[t] = 0 /\ \A q \in Producers : ~Uses(q, t),
         \A k \in Tokens : Uses(p, k)' => k = t,
         \A q \in Producers \ {p}, k \in Tokens : Uses(q, k)' => Uses(q, k)
  PROVE  FreeOnce' /\ SingleProducer'
<1>1. FreeOnce /\ SingleProducer
  BY DEF IInv
<1>2. FreeOnce'
  BY <1>1 DEF FreeOnce, Tokens
<1>3. SingleProducer'
  BY <1>1 DEF SingleProducer, Tokens
<1> QED
  BY <1>2, <1>3

(* Every step of a producer leaves each queue with one user at most. *)
LEMMA OwnersKept ==
  ASSUME IInv, NEW p \in Producers, Produce(p) \/ Call(p)
  PROVE  FreeOnce' /\ SingleProducer'
<1>0. HandleType /\ Handle /\ Listed /\ FreeOnce /\ SingleProducer /\ NULL \notin Tokens
  BY DEF IInv, TypeOK, HandleType, NULL, Tokens
<1> USE DEF HandleType, Goto
<1>1. CASE apply(p)
  <2>1. PICK t \in Tokens : /\ free[t] > 0 /\ ppc[p] = "apply"
                            /\ ppc' = [ppc EXCEPT ![p] = Acquired(p, t)]
                            /\ free' = [free EXCEPT ![t] = @ - 1]
                            /\ local' = [local EXCEPT ![p] = t]
                            /\ kept' = kept /\ phase' = phase
    BY <1>1 DEF apply
  <2>2. \A k \in Tokens \ {t} : free'[k] = free[k]
    BY <1>0, <2>1
  <2>3. free'[t] = free[t] - 1 /\ free[t] \in Nat
    BY <1>0, <2>1
  <2>4. t \notin kept => free[t] <= 1 /\ \A q \in Producers : ~Uses(q, t)
    BY <1>0, <2>1 DEF FreeOnce, SingleProducer
  <2>5. t \notin kept => free'[t] = 0 /\ \A q \in Producers : ~Uses(q, t)
    BY <2>1, <2>3, <2>4
  <2>6. /\ \A k \in Tokens : Uses(p, k)' => k = t
        /\ \A q \in Producers \ {p}, k \in Tokens : Uses(q, k)' => Uses(q, k)
    BY <1>0, <2>1 DEF Uses
  <2> QED
    BY <2>1, <2>2, <2>5, <2>6, OwnerComes
<1>2. CASE ApplyFails(p)
  <2>1. \A q \in Producers, k \in Tokens : Uses(q, k)' => Uses(q, k)
    BY <1>0, <1>2 DEF ApplyFails, Uses
  <2> QED
    BY <1>2, <2>1, OwnersStay DEF ApplyFails
<1>3. CASE preempt(p)
  <2>1. end \in Tokens
    BY <1>0, <1>3, SizeAssumption DEF preempt, Tokens
  <2>2. PICK t \in Tokens : t = end
    BY <2>1
  <2>3. t \notin stored /\ \A q \in Producers : local[q] # t
    BY <1>0, <2>2 DEF Listed
  <2>4. free[t] = 0
    BY <1>0, <2>3 DEF Listed
  <2>5. /\ kept' = kept /\ free' = free
        /\ \A k \in Tokens : Uses(p, k)' => k = t
        /\ \A q \in Producers \ {p}, k \in Tokens : Uses(q, k)' => Uses(q, k)
    BY <1>0, <1>3, <2>2 DEF preempt, Uses
  <2>6. \A q \in Producers : ~Uses(q, t)
    BY <2>3 DEF Uses
  <2> QED
    BY <2>4, <2>5, <2>6, OwnerComes
<1>4. CASE Store(p)
  <2>1. \A q \in Producers, k \in Tokens : Uses(q, k)' => Uses(q, k)
    BY <1>0, <1>4 DEF Store, Uses
  <2> QED
    BY <1>4, <2>1, OwnersStay DEF Store
<1>5. CASE PreemptFails(p)
  <2>1. /\ kept \subseteq kept'
        /\ retry[p] = 1 /\ phase[p] = "skip" => local[p] \in kept'
    BY <1>5 DEF PreemptFails
  <2>2. \A q \in Producers, k \in Tokens \ kept' : Uses(q, k)' => Uses(q, k)
    <3>1. /\ ppc[p] = "preempt" /\ phase' = phase /\ local' = local
          /\ \A q \in Producers \ {p} : ppc'[q] = ppc[q]
          /\ retry[p] # 1 => ppc'[p] = "preempt"
      BY <1>0, <1>5 DEF PreemptFails
    <3>2. phase[p] # "skip" => local[p] \notin Tokens
      BY <1>0, <3>1 DEF Handle
    <3> QED
      BY <2>1, <3>1, <3>2 DEF Uses
  <2> QED
    BY <1>5, <2>1, <2>2, OwnersStay DEF PreemptFails
<1>6. CASE TryPush(p)
  <2>1. \A q \in Producers, k \in Tokens : Uses(q, k)' => Uses(q, k)
    BY <1>0, <1>6 DEF TryPush, Uses
  <2> QED
    BY <1>6, <2>1, OwnersStay DEF TryPush
<1>7. CASE TryPushFails(p)
  <2>1. \A q \in Producers, k \in Tokens : Uses(q, k)' => Uses(q, k)
    BY <1>0, <1>7 DEF TryPushFails, Uses
  <2> QED
    BY <1>7, <2>1, OwnersStay DEF TryPushFails
<1>8. CASE ReleaseFull(p)
  <2>1. ppc[p] = "release" /\ local[p] \in Tokens
    BY <1>0, <1>8 DEF ReleaseFull, Handle
  <2>2. PICK t \in Tokens : t = local[p]
    BY <2>1
  <2>3. /\ Uses(p, t) /\ kept' = kept /\ Release(t)
        /\ \A k \in Tokens : ~Uses(p, k)'
        /\ \A q \in Producers \ {p}, k \in Tokens : Uses(q, k)' => Uses(q, k)
    BY <1>0, <1>8, <2>1, <2>2 DEF ReleaseFull, Uses
  <2>4. /\ \A k \in Tokens \ {t} : free'[k] = free[k]
        /\ free'[t] \in {free[t], free[t] + 1}
    BY <1>0, <2>3, Released
  <2> QED
    BY <2>3, <2>4, OwnerLeaves
<1>9. CASE NewHandle(p)
  <2>1. \A q \in Producers, k \in Tokens : Uses(q, k)' => Uses(q, k)
    BY <1>0, <1>9 DEF NewHandle, Uses, NULL
  <2> QED
    BY <1>9, <2>1, OwnersStay DEF NewHandle
<1>10. CASE push(p)
  <2>1. \A q \in Producers, k \in Tokens : Uses(q, k)' => Uses(q, k)
    BY <1>0, <1>10 DEF push, Uses
  <2> QED
    BY <1>10, <2>1, OwnersStay DEF push
<1>11. CASE push_hard(p)
  <2>1. \A q \in Producers, k \in Tokens : Uses(q, k)' => Uses(q, k)
    BY <1>0, <1>11 DEF push_hard, Uses
  <2> QED
    BY <1>11, <2>1, OwnersStay DEF push_hard
<1>12. CASE Destroy(p)
  <2>1. /\ ppc[p] = "open" /\ kept' = kept
        /\ local' = [local EXCEPT ![p] = NULL]
        /\ \A k \in Tokens : ~Uses(p, k)'
        /\ \A q \in Producers \ {p}, k \in Tokens : Uses(q, k)' => Uses(q, k)
    BY <1>0, <1>12 DEF Destroy, Uses, NULL
  <2>2. CASE local[p] = NULL
    <3>1. free' = free
      BY <1>12, <2>2 DEF Destroy
    <3>2. \A q \in Producers, k \in Tokens : Uses(q, k)' => Uses(q, k)
      BY <2>1
    <3> QED
      BY <2>1, <3>1, <3>2, OwnersStay
  <2>3. CASE local[p] # NULL
    <3>1. PICK t \in Tokens : t = local[p]
      BY <1>0, <2>3
    <3>2. Uses(p, t) /\ Release(t)
      BY <1>12, <2>1, <2>3, <3>1 DEF Destroy, Uses
    <3>3. /\ \A k \in Tokens \ {t} : free'[k] = free[k]
          /\ free'[t] \in {free[t], free[t] + 1}
      BY <1>0, <3>2, Released
    <3> QED
      BY <2>1, <3>2, <3>3, OwnerLeaves
  <2> QED
    BY <2>2, <2>3
<1> QED
  BY <1>1, <1>2, <1>3, <1>4, <1>5, <1>6, <1>7, <1>8, <1>9, <1>10, <1>11, <1>12 DEF Produce, Call

(* What a producer does keeps the invariant. *)
LEMMA ProducerKeeps ==
  ASSUME IInv, NEW p \in Producers, Produce(p) \/ Call(p)
  PROVE  IInv' /\ end <= end' /\ kept \subseteq kept'
<1>0. TypeOK /\ TypeOK' /\ PresentType' /\ Numbered /\ stored \subseteq Tokens /\ end \in Nat
  BY ProducerTypes DEF IInv, TypeOK
<1>1. Handle' /\ Listed' /\ FreeOnce' /\ SingleProducer'
  BY HandleKept, ListedKept, OwnersKept
<1>2. /\ UNCHANGED scanVars
      /\ \A q \in Producers, n \in 1 .. MaxPush : Past(q, n) => Past(q, n)'
      /\ \/ queues' = queues
         \/ \E k \in stored : Stores(k, Hole)
         \/ \E k \in stored, n \in 1 .. MaxPush : Stores(k, <<p, n>>) /\ ~Past(p, n) /\ Past(p, n)'
  BY ProducerStores
<1>3. (end' = end \/ end' = end + 1) /\ kept \subseteq kept'
  BY DEF Produce, Call, apply, ApplyFails, preempt, Store, PreemptFails, TryPush, TryPushFails,
         ReleaseFull, NewHandle, push, push_hard, Destroy
<1>4. end <= end' /\ ProbesQueues'
  BY <1>0, <1>2, <1>3 DEF IInv, ProbesQueues, scanVars
<1>5. \A k \in Tokens, q \in Producers, n \in 1 .. MaxPush : In(k, q, n)' => Past(q, n)'
  <2>1. CASE queues' = queues
    BY <1>0, <1>2, <2>1 DEF Numbered, In
  <2>2. ASSUME NEW t \in stored, NEW e \in Slots, Stores(t, e),
               \A q \in Producers, n \in 1 .. MaxPush : <<q, n>> = e => Past(q, n)'
        PROVE  \A k \in Tokens, q \in Producers, n \in 1 .. MaxPush : In(k, q, n)' => Past(q, n)'
    <3>1. t \in Tokens
      BY <1>0
    <3>2. \A k \in Tokens, q \in Producers, n \in 1 .. MaxPush :
            In(k, q, n)' => In(k, q, n) \/ <<q, n>> = e
      BY <1>0, <2>2, <3>1, Added
    <3> QED
      BY <1>0, <1>2, <2>2, <3>2 DEF Numbered
  <2>3. ASSUME NEW t \in stored, Stores(t, Hole)
        PROVE  \A k \in Tokens, q \in Producers, n \in 1 .. MaxPush : In(k, q, n)' => Past(q, n)'
    <3>1. Hole \in Slots
      BY DEF Slots
    <3> QED
      BY <2>2, <2>3, <3>1, HoleIsNone
  <2>4. ASSUME NEW t \in stored, NEW l \in 1 .. MaxPush, Stores(t, <<p, l>>), Past(p, l)'
        PROVE  \A k \in Tokens, q \in Producers, n \in 1 .. MaxPush : In(k, q, n)' => Past(q, n)'
    <3>1. <<p, l>> \in Slots
      BY DEF Slots
    <3>2. \A q \in Producers, n \in 1 .. MaxPush : <<q, n>> = <<p, l>> => Past(q, n)'
      BY <2>4
    <3> QED
      BY <2>2, <2>4, <3>1, <3>2
  <2> QED
    BY <1>2, <2>1, <2>3, <2>4
<1>6. Numbered'
  BY <1>0, <1>2, <1>5 DEF Numbered, scanVars, Tokens
<1> QED
  BY <1>0, <1>1, <1>3, <1>4, <1>6 DEF IInv

-----------------------------------------------------------------------------
(* The invariant holds *)

(* No handle, no queue, no element. *)
LEMMA InitIInv == Init => IInv
<1> SUFFICES ASSUME Init PROVE IInv
  OBVIOUS
<1>0. NULL \notin Tokens /\ NULL < 0
  BY DEF NULL, Tokens
<1>1. TypeOK
  <2>1. << >> \in Seq((Producers \X (1 .. MaxPush)) \cup {Hole}) /\ Len(<< >>) = 0
    OBVIOUS
  <2>2. \A k \in Tokens : queues[k] = << >>
    BY DEF Init
  <2>3. queues \in [Tokens -> Seq((Producers \X (1 .. MaxPush)) \cup {Hole})]
    BY <2>1 DEF Init
  <2>4. \A k \in Tokens : Len(queues[k]) <= LocalSize
    BY <2>1, <2>2, SizeAssumption
  <2> QED
    BY <2>3, <2>4, SizeAssumption DEF Init, TypeOK
<1>2. PresentType /\ ProbesQueues
  BY DEF Init, PresentType, ProbesQueues
<1>3. Handle
  BY DEF Init, Handle, Pending
<1>4. Listed
  BY <1>0 DEF Init, Listed
<1>5. FreeOnce
  BY DEF Init, FreeOnce
<1>6. SingleProducer
  BY <1>0 DEF Init, SingleProducer, Uses
<1>7. Numbered
  <2>1. \A k \in Tokens, q \in Producers, n \in 1 .. MaxPush : ~In(k, q, n)
    BY DEF Init, In
  <2>2. \A c \in Consumers : present[c] = {}
    BY DEF Init
  <2> QED
    BY <2>1, <2>2 DEF Numbered
<1> QED
  BY <1>1, <1>2, <1>3, <1>4, <1>5, <1>6, <1>7 DEF IInv

(* Threads at rest change nothing. *)
LEMMA StutterKeeps ==
  ASSUME IInv, UNCHANGED vars
  PROVE  IInv'
<1>0. /\ UNCHANGED <<end, stored, queues, free, kept, ppc, local, retry, phase, pushed, handles>>
      /\ UNCHANGED <<cpc, size, middle, index, i, present>>
  BY DEF vars, handleVars, scanVars
<1>1. TypeOK' /\ PresentType' /\ ProbesQueues'
  BY <1>0 DEF IInv, TypeOK, PresentType, ProbesQueues, Tokens, NULL
<1>2. Handle' /\ Listed' /\ FreeOnce' /\ SingleProducer'
  BY <1>0 DEF IInv, Handle, Listed, FreeOnce, SingleProducer, Uses, Pending, Tokens, NULL
<1>3. Numbered'
  BY <1>0 DEF IInv, Numbered, In, Past, Pending, Tokens
<1> QED
  BY <1>1, <1>2, <1>3 DEF IInv

(* Every step keeps the invariant. *)
LEMMA NextIInv == IInv /\ [Next]_vars => IInv'
BY ProducerKeeps, ConsumerKeeps, StutterKeeps DEF Next, Rest

(* The inductive invariant: a token is offered once and not while a handle  *)
(* uses it, and an element that was queued or seen is not pushed again      *)
(* (FastQueue of fast_queue.h).                                             *)
THEOREM Inductive == Spec => []IInv
<1>1. Init => IInv
  BY InitIInv
<1>2. IInv /\ [Next]_vars => IInv'
  BY NextIInv
<1> QED
  BY <1>1, <1>2, PTL DEF Spec

-----------------------------------------------------------------------------
(* What the users of a queue rely on *)

(* The tokens of the handles and of the free list name queues of the list,  *)
(* and no local queue holds more than kLocalQueueSize elements.             *)
THEOREM TypeCorrect == Spec => []TypeOK
<1>1. IInv => TypeOK
  BY DEF IInv
<1> QED
  BY <1>1, Inductive, PTL

(* The premise of the local queues, "Single-Producer Multi-Comsumer Queue", *)
(* is met by the handles, for any number of threads, handles and queues,    *)
(* but for queues that push_hard kept after giving them back.               *)
THEOREM OneProducer == Spec => []SingleProducer
<1>1. IInv => SingleProducer
  BY DEF IInv
<1> QED
  BY <1>1, Inductive, PTL

(* One consumer: the elements of its snapshot stay ahead of the scan.       *)
LEMMA ScanSteps ==
  ASSUME NEW c, Consumers = {c}, IInv, Scans, Consume(c)
  PROVE  Scans'
<1>0. TypeOK /\ Listed /\ PresentType /\ end \in Nat
  BY DEF IInv, TypeOK
<1>1. /\ cpc[c] \in {"idle", "down", "up", "missed", "probe", "endless", "crashed"}
      /\ size[c] \in Nat /\ middle[c] \in Nat /\ index[c] \in Int
  BY <1>0 DEF TypeOK
<1>2. /\ UNCHANGED <<kept, end, stored, free, ppc, local, retry, phase, pushed, handles>>
      /\ queues' = queues \/ \E k \in Tokens : Take(k)
  BY ConsumerLeaves
<1>3. \A k \in Tokens, q \in Producers, n \in 1 .. MaxPush : In(k, q, n)' => In(k, q, n)
  <2>1. CASE queues' = queues
    BY <2>1 DEF In
  <2>2. CASE \E k \in Tokens : Take(k)
    BY <1>0, <2>2, Taken
  <2> QED
    BY <1>2, <2>1, <2>2
<1>4. \A k \in Tokens, q \in Producers, n \in 1 .. MaxPush : queues[k] = << >> => ~In(k, q, n)
  BY DEF In
<1>5. \A k \in Tokens \ kept : MayFail(k) => queues[k] = << >>
  <2>1. Cardinality(Consumers) = 1
    BY FS_Singleton
  <2> QED
    BY <2>1 DEF MayFail
<1>6. \A k \in Tokens, q \in Producers, n \in 1 .. MaxPush : In(k, q, n) => k \in stored /\ k < end
  BY <1>0, <1>4 DEF Listed
<1>7. \A k \in Tokens : k \in Int /\ k >= 0
  BY DEF Tokens
<1>8. ASSUME cpc'[c] \notin {"down", "up", "missed"} PROVE Scans'
  BY <1>8 DEF Scans
<1>9. ASSUME cpc'[c] \in {"down", "up", "missed"}, size'[c] <= end,
             \A k \in Tokens \ kept, q \in Producers, n \in 1 .. MaxPush :
               In(k, q, n) /\ <<q, n>> \in present'[c] => Ahead(c, k)'
      PROVE  Scans'
  BY <1>2, <1>3, <1>9 DEF Scans, Tokens
<1>10. ASSUME NEW m \in 0 .. end, ScanStart(c, m) PROVE Scans'
  <2>1. cpc'[c] = "down" /\ size'[c] = end /\ middle'[c] = m /\ index'[c] = m
    BY <1>0, <1>10 DEF ScanStart, TypeOK
  <2>2. \A k \in Tokens : k < end => Ahead(c, k)'
    BY <1>0, <1>7, <2>1 DEF Ahead
  <2> QED
    BY <1>0, <1>6, <1>9, <2>1, <2>2
<1>11. ASSUME NEW m \in 0 .. end, ProbeStart(c, m) PROVE Scans'
  BY <1>0, <1>8, <1>11 DEF ProbeStart, TypeOK
<1>12. ASSUME Return(c) PROVE Scans'
  BY <1>0, <1>8, <1>12 DEF Return, TypeOK
<1>13. CASE ScanHit(c) \/ ScanCut(c) \/ Missed(c) \/ ProbeHit(c) \/ \E k \in Tokens : EndlessHit(c, k)
  BY <1>12, <1>13 DEF ScanHit, ScanCut, Missed, ProbeHit, EndlessHit
<1>14. CASE ScanDown(c)
  <2>1. /\ cpc[c] = "down" /\ index[c] >= 0
        /\ cpc'[c] = IF index[c] = 0 THEN "up" ELSE "down"
        /\ index'[c] = IF index[c] = 0 THEN middle[c] + 1 ELSE index[c] - 1
        /\ UNCHANGED <<size, middle, present>>
    BY <1>0, <1>14 DEF ScanDown, TypeOK
  <2>2. \A k \in Tokens \ kept, q \in Producers, n \in 1 .. MaxPush : In(k, q, n) => k # index[c]
    BY <1>4, <1>5, <1>6, <1>14 DEF ScanDown, Found
  <2>3. ASSUME NEW k \in Tokens \ kept, NEW q \in Producers, NEW n \in 1 .. MaxPush,
               In(k, q, n), <<q, n>> \in present[c]
        PROVE  Ahead(c, k)'
    <3>1. k < size[c] /\ (k <= index[c] \/ k > middle[c]) /\ k # index[c] /\ k \in Nat
      BY <1>7, <2>1, <2>2, <2>3 DEF Scans, Ahead
    <3> QED
      BY <1>1, <2>1, <3>1 DEF Ahead
  <2>4. size[c] <= end
    BY <2>1 DEF Scans
  <2> QED
    BY <1>9, <2>1, <2>3, <2>4
<1>15. CASE ScanUp(c)
  <2>1. /\ cpc[c] = "up" /\ index[c] < size[c] /\ cpc' = cpc
        /\ size'[c] = IF index[c] = size[c] - 1 THEN end ELSE size[c]
        /\ index'[c] = index[c] + 1
        /\ UNCHANGED <<middle, present>>
    BY <1>0, <1>15 DEF ScanUp, TypeOK
  <2>2. \A k \in Tokens \ kept, q \in Producers, n \in 1 .. MaxPush : In(k, q, n) => k # index[c]
    BY <1>4, <1>5, <1>15 DEF ScanUp
  <2>3. size[c] <= end /\ size'[c] <= end /\ size[c] <= size'[c]
    BY <1>0, <1>1, <2>1 DEF Scans
  <2>4. ASSUME NEW k \in Tokens \ kept, NEW q \in Producers, NEW n \in 1 .. MaxPush,
               In(k, q, n), <<q, n>> \in present[c]
        PROVE  Ahead(c, k)'
    <3>1. k < size[c] /\ k >= index[c] /\ k # index[c] /\ k \in Nat
      BY <1>7, <2>1, <2>2, <2>4 DEF Scans, Ahead
    <3>2. k < size'[c] /\ k >= index'[c]
      BY <1>0, <1>1, <2>1, <2>3, <3>1
    <3> QED
      BY <2>1, <3>2 DEF Ahead
  <2> QED
    BY <1>9, <2>1, <2>3, <2>4
<1>16. CASE ScanEnd(c)
  <2>1. /\ cpc[c] = "up" /\ index[c] >= size[c] /\ cpc'[c] = "missed"
        /\ UNCHANGED <<size, present>>
    BY <1>0, <1>16 DEF ScanEnd, TypeOK
  <2>2. ASSUME NEW k \in Tokens \ kept, NEW q \in Producers, NEW n \in 1 .. MaxPush,
               In(k, q, n), <<q, n>> \in present[c]
        PROVE  FALSE
    <3>1. k < size[c] /\ k >= index[c]
      BY <2>1, <2>2 DEF Scans, Ahead
    <3> QED
      BY <1>1, <1>7, <2>1, <3>1
  <2>3. size[c] <= end
    BY <2>1 DEF Scans
  <2> QED
    BY <1>9, <2>1, <2>2, <2>3
<1>17. CASE Probe(c)
  <2>1. CASE Return(c)
    BY <1>12, <2>1
  <2>2. CASE ~Return(c)
    BY <1>0, <1>8, <1>17, <2>2 DEF Probe, TypeOK
  <2> QED
    BY <2>1, <2>2
<1>18. CASE ReadBeyond(c)
  BY <1>0, <1>8, <1>18 DEF ReadBeyond, TypeOK
<1> QED
  BY <1>10, <1>11, <1>13, <1>14, <1>15, <1>16, <1>17, <1>18 DEF Consume

(* The producers push nothing that a scan could count as missed. *)
LEMMA ScansUndisturbed ==
  ASSUME IInv, Scans, NEW p \in Producers, Produce(p) \/ Call(p)
  PROVE  Scans'
<1>0. TypeOK /\ TypeOK' /\ Numbered /\ stored \subseteq Tokens /\ end \in Nat /\ end' \in Nat /\ end <= end'
      /\ kept \subseteq kept'
  BY ProducerKeeps DEF IInv, TypeOK
<1>1. /\ UNCHANGED <<cpc, size, middle, index, i, present>>
      /\ \/ queues' = queues
         \/ \E k \in stored : Stores(k, Hole)
         \/ \E k \in stored, n \in 1 .. MaxPush : Stores(k, <<p, n>>) /\ ~Past(p, n)
  BY ProducerStores DEF scanVars
<1>2. ASSUME NEW c \in Consumers, NEW k \in Tokens, NEW q \in Producers, NEW n \in 1 .. MaxPush,
             In(k, q, n)', <<q, n>> \in present[c]
      PROVE  In(k, q, n)
  <2>1. CASE queues' = queues
    BY <1>2, <2>1 DEF In
  <2>2. ASSUME NEW t \in stored, NEW e \in Slots, Stores(t, e), <<q, n>> # e
        PROVE  In(k, q, n)
    <3>1. t \in Tokens
      BY <1>0
    <3> QED
      BY <1>0, <1>2, <2>2, <3>1, Added
  <2>3. ASSUME NEW t \in stored, Stores(t, Hole)
        PROVE  In(k, q, n)
    <3>1. Hole \in Slots /\ <<q, n>> # Hole
      BY HoleIsNone DEF Slots
    <3> QED
      BY <2>2, <2>3, <3>1
  <2>4. ASSUME NEW t \in stored, NEW l \in 1 .. MaxPush, Stores(t, <<p, l>>), ~Past(p, l)
        PROVE  In(k, q, n)
    <3>1. Past(q, n)
      BY <1>0, <1>2 DEF Numbered
    <3>2. <<p, l>> \in Slots /\ <<q, n>> # <<p, l>>
      BY <2>4, <3>1 DEF Slots
    <3> QED
      BY <2>2, <2>4, <3>2
  <2> QED
    BY <1>1, <2>1, <2>3, <2>4
<1>3. \A c \in Consumers, k \in Tokens : Ahead(c, k) => Ahead(c, k)'
  BY <1>1 DEF Ahead
<1>4. ASSUME NEW c \in Consumers, cpc[c] \in {"down", "up", "missed"} PROVE size[c] <= end'
  BY <1>0, <1>4, SMTT(30) DEF Scans, TypeOK
<1> QED
  <2>1. ASSUME NEW c \in Consumers, cpc[c] \in {"down", "up", "missed"},
               NEW k \in Tokens \ kept', NEW q \in Producers, NEW n \in 1 .. MaxPush,
               In(k, q, n)', <<q, n>> \in present[c]
        PROVE  Ahead(c, k)'
    BY <1>0, <1>2, <1>3, <2>1 DEF Scans
  <2> QED
    BY <1>1, <1>4, <2>1 DEF Scans, Tokens

(* With one consumer, pop_hard that scans to the end without success has    *)
(* missed none of the elements that were queued when it started, wherever   *)
(* its random start is and whatever the producers do meanwhile, as long as  *)
(* they do not come to share the element's queue: that is the case only     *)
(* after a creation was refused, when queues are kept.                      *)
THEOREM ScanIsComplete ==
  ASSUME NEW c, Consumers = {c}
  PROVE  Spec => []ScanMissesNothing
<1>1. Init => Scans
  BY DEF Init, Scans
<1>2. IInv /\ Scans /\ [Next]_vars => Scans'
  <2> SUFFICES ASSUME IInv, Scans, [Next]_vars PROVE Scans'
    OBVIOUS
  <2>1. CASE UNCHANGED vars
    <3>1. UNCHANGED <<end, kept, queues, cpc, size, middle, index, present>>
      BY <2>1 DEF vars, scanVars
    <3> QED
      BY <3>1 DEF Scans, Ahead, In, Tokens
  <2> QED
    BY <2>1, ScanSteps, ScansUndisturbed DEF Next, Rest
<1>3. IInv /\ Scans => ScanMissesNothing
  <2> SUFFICES ASSUME IInv, Scans, cpc[c] = "missed" PROVE present[c] \cap Queued = {}
    BY DEF ScanMissesNothing
  <2>1. present[c] \subseteq Producers \X (1 .. MaxPush)
    BY DEF IInv, PresentType
  <2>2. \A q \in Producers, n \in 1 .. MaxPush : <<q, n>> \in present[c] => <<q, n>> \notin Queued
    BY DEF Scans, Ahead, Queued, In, Range
  <2> QED
    BY <2>1, <2>2
<1>4. Spec => []IInv
  BY Inductive
<1> QED
  BY <1>1, <1>2, <1>3, <1>4, PTL DEF Spec
=============================================================================
