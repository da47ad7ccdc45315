------------------------------ MODULE FastQueue ------------------------------
(***************************************************************************)
(* FastQueue<ElementType> of include/coplus/fast_queue.h: a list of local  *)
(* queues, each filled through one ProducerHandle at a time and emptied by *)
(* everybody.  A handle takes a queue from the free list or creates one,   *)
(* and gives it back when it is full or when the handle dies.              *)
(*                                                                         *)
(* The parts are used through what their own modules establish: the free   *)
(* list is a bounded bag (SlowQueue), the queue list reserves a cell and   *)
(* then stores into it (FastStack), a local queue is a bounded FIFO queue  *)
(* (FastLocalQueue) whose pop may also fail on a queue that is not empty   *)
(* when several consumers are at it.  Two handles may come to share a      *)
(* queue that was kept after it had been given back; what FastLocalQueue   *)
(* then does is left as open as its code leaves it.                        *)
(***************************************************************************)
EXTENDS Integers, Sequences, FiniteSets, Functions

CONSTANTS
  Producers, Consumers,  \* threads with a handle, threads that call pop or pop_hard
  Pops,                  \* which of "pop" and "pop_hard" the consumers call
  LocalSize,             \* kLocalQueueSize
  MaxQueues,             \* kQueueMaxCount
  UnitSize,              \* cells of a block of QueueList
  FreeSize,              \* kFreeListSize
  Attempts,              \* kProducerRetry - 1, the turns of a retry loop
  MaxPush,               \* bound of the model: pushes by each producer
  MaxPushes, MaxHandles  \* bounds of the model: pushes and handles of all of them

ASSUME SizeAssumption ==
  /\ LocalSize \in Nat \ {0} /\ MaxQueues \in Nat \ {0} /\ FreeSize \in Nat
  /\ UnitSize \in Nat \ {0} /\ Attempts \in Nat \ {0} /\ MaxPush \in Nat /\ MaxPushes \in Nat /\ MaxHandles \in Nat

ASSUME PopsAssumption == Pops \subseteq {"pop", "pop_hard"}

Tokens == 0 .. MaxQueues - 1
NULL == -1

(* What a slot holds that is taken before it is written. *)
Hole == << >>

VARIABLES
  end,        \* QueueList.size(): cells reserved so far, or refused
  stored,     \* tokens whose local queue is in the list
  queues,     \* contents of the local queues; an element is <<producer, number>>, or a Hole
  free,       \* FreeList: how often each token is in it
  kept,       \* history: tokens a handle went on with after giving them back
  handles,    \* made so far
  ppc, local, phase, pushed,                  \* per producer
  retry,                                      \* turns left in its loop, or in the next one
  cpc, size, middle, index, i,                \* per consumer: locals of pop, pop_hard
  present     \* per consumer: the elements that were queued when it started

handleVars == <<ppc, local, retry, phase, pushed, handles>>
scanVars == <<cpc, size, middle, index, i, present>>
vars == <<end, stored, queues, free, kept, handleVars, scanVars>>

Init ==
  /\ end = 0
  /\ stored = {}
  /\ queues = [k \in Tokens |-> << >>]
  /\ free = [k \in Tokens |-> 0]
  /\ kept = {}
  /\ ppc = [p \in Producers |-> "none"]
  /\ local = [p \in Producers |-> NULL]
  /\ retry = [p \in Producers |-> Attempts]
  /\ phase = [p \in Producers |-> "ctor"]
  /\ pushed = [p \in Producers |-> 0]
  /\ handles = 0
  /\ cpc = [c \in Consumers |-> "idle"]
  /\ size = [c \in Consumers |-> 0]
  /\ middle = [c \in Consumers |-> 0]
  /\ index = [c \in Consumers |-> 0]
  /\ i = [c \in Consumers |-> 0]
  /\ present = [c \in Consumers |-> {}]

Goto(p, from, to) == ppc[p] = from /\ ppc' = [ppc EXCEPT ![p] = to]

-----------------------------------------------------------------------------
(* The free list *)

FreeCount == SumFunction(free)

(* FreeList.push(token), its result ignored: a full list drops the token *)
Release(k) == free' = IF FreeCount < FreeSize THEN [free EXCEPT ![k] = @ + 1] ELSE free

-----------------------------------------------------------------------------
(* ProducerHandle: acquiring a local queue.  phase says who asked: the      *)
(* constructor, push_hard without a queue, or push_hard with a full one.    *)

NewHandle(p) ==
  /\ Goto(p, "none", "apply")
  /\ handles < MaxHandles
  /\ handles' = handles + 1
  /\ phase' = [phase EXCEPT ![p] = "ctor"]
  /\ local' = [local EXCEPT ![p] = NULL]
  /\ UNCHANGED <<kept, end, stored, queues, free, retry, pushed, scanVars>>

(* Where an acquiring loop leads: push_hard returns false without a queue.  *)
Acquired(p, k) == IF phase[p] = "ctor" \/ k = NULL THEN "open" ELSE phase[p]

(* Mutant: the token stays in the free list. *)
applyKeeps(p) ==
  \E k \in Tokens :
    /\ free[k] > 0
    /\ Goto(p, "apply", Acquired(p, k))
    /\ local' = [local EXCEPT ![p] = k]
    /\ retry' = [retry EXCEPT ![p] = Attempts]
    /\ UNCHANGED <<kept, end, stored, queues, free, phase, pushed, handles, scanVars>>

apply(p) ==
  \E k \in Tokens :
    /\ free[k] > 0
    /\ Goto(p, "apply", Acquired(p, k))
    /\ free' = [free EXCEPT ![k] = @ - 1]
    /\ local' = [local EXCEPT ![p] = k]
    /\ retry' = [retry EXCEPT ![p] = Attempts]
    /\ UNCHANGED <<kept, end, stored, queues, phase, pushed, handles, scanVars>>

(* The last failure leads on to preempt, with a new count. *)
ApplyFails(p) ==
  /\ \A k \in Tokens : free[k] = 0
  /\ Goto(p, "apply", IF retry[p] = 1 THEN "preempt" ELSE "apply")
  /\ retry' = [retry EXCEPT ![p] = IF @ = 1 THEN Attempts ELSE @ - 1]
  /\ UNCHANGED <<kept, end, stored, queues, free, local, phase, pushed, handles, scanVars>>

(* create_queue: QueueList.push reserves a cell ... *)
preempt(p) ==
  /\ end < MaxQueues
  /\ Goto(p, "preempt", "store")
  /\ end' = end + 1
  /\ local' = [local EXCEPT ![p] = end]
  /\ UNCHANGED <<kept, stored, queues, free, retry, phase, pushed, handles, scanVars>>

(* ... and then stores the new local queue *)
Store(p) ==
  /\ Goto(p, "store", Acquired(p, local[p]))
  /\ stored' = stored \cup {local[p]}
  /\ retry' = [retry EXCEPT ![p] = Attempts]
  /\ UNCHANGED <<kept, end, queues, free, local, phase, pushed, handles, scanVars>>

(* The list is full.  The handle keeps whatever queue it had, also one that *)
(* push_hard has just given back.                                           *)
PreemptFails(p) ==
  /\ end >= MaxQueues
  /\ kept' = IF retry[p] = 1 /\ phase[p] = "skip" THEN kept \cup {local[p]} ELSE kept
  /\ Goto(p, "preempt", IF retry[p] = 1 THEN Acquired(p, local[p]) ELSE "preempt")
  /\ end' = end + 1
  /\ retry' = [retry EXCEPT ![p] = IF @ = 1 THEN Attempts ELSE @ - 1]
  /\ UNCHANGED <<stored, queues, free, local, phase, pushed, handles, scanVars>>

-----------------------------------------------------------------------------
(* ProducerHandle: push, push_hard and the destructor *)

(* Mutant: one element too many. *)
HasRoomOffByOne(k) == Len(queues[k]) <= LocalSize

HasRoom(k) == Len(queues[k]) < LocalSize

(* local_->push(item) succeeds.  With two producers tail_ may be counted up *)
(* for a slot behind one that is not yet written: the consumer takes what   *)
(* was in that slot before, and the element that comes into it is lost.     *)
Enqueue(p, n) ==
  /\ HasRoom(local[p])
  /\ \E e \in {<<p, n>>} \cup {Hole : k \in kept \cap {local[p]}} :
       queues' = [queues EXCEPT ![local[p]] = Append(@, e)]

(* It fails; with two producers also for a push of the other that fails. *)
MayRefuse(k) == ~HasRoom(k) \/ k \in kept

(* A call is made with the next element. *)
NextPush(p) ==
  /\ pushed[p] < MaxPush
  /\ SumFunction(pushed) < MaxPushes
  /\ pushed' = [pushed EXCEPT ![p] = @ + 1]

push(p) ==
  /\ Goto(p, "open", "open")
  /\ NextPush(p)
  /\ \/ local[p] # NULL /\ Enqueue(p, pushed[p] + 1)
     \/ (local[p] # NULL => MayRefuse(local[p])) /\ UNCHANGED queues
  /\ UNCHANGED <<kept, end, stored, free, local, retry, phase, handles, scanVars>>

push_hard(p) ==
  /\ Goto(p, "open", IF local[p] = NULL THEN "apply" ELSE "push")
  /\ NextPush(p)
  /\ phase' = [phase EXCEPT ![p] = "push"]
  /\ retry' = [retry EXCEPT ![p] = Attempts]
  /\ UNCHANGED <<kept, end, stored, queues, free, local, handles, scanVars>>

(* a turn of either loop around local_->push *)
TryPush(p) ==
  /\ ppc[p] \in {"push", "skip"}
  /\ Enqueue(p, pushed[p])
  /\ ppc' = [ppc EXCEPT ![p] = "open"]
  /\ retry' = [retry EXCEPT ![p] = Attempts]
  /\ UNCHANGED <<kept, end, stored, free, local, phase, pushed, handles, scanVars>>

TryPushFails(p) ==
  /\ ppc[p] \in {"push", "skip"}
  /\ MayRefuse(local[p])
  /\ ppc' = [ppc EXCEPT ![p] =
               IF retry[p] > 1 THEN @ ELSE IF @ = "push" THEN "release" ELSE "open"]
  /\ retry' = [retry EXCEPT ![p] = IF @ = 1 THEN Attempts ELSE @ - 1]
  /\ UNCHANGED <<kept, end, stored, queues, free, local, phase, pushed, handles, scanVars>>

(* the queue stayed full: it is given back and another one is created *)
ReleaseFull(p) ==
  /\ Goto(p, "release", "preempt")
  /\ Release(local[p])
  /\ phase' = [phase EXCEPT ![p] = "skip"]
  /\ retry' = [retry EXCEPT ![p] = Attempts]
  /\ UNCHANGED <<kept, end, stored, queues, local, pushed, handles, scanVars>>

Destroy(p) ==
  /\ Goto(p, "open", "none")
  /\ IF local[p] = NULL THEN UNCHANGED free ELSE Release(local[p])
  /\ local' = [local EXCEPT ![p] = NULL]
  /\ phase' = [phase EXCEPT ![p] = "ctor"]
  /\ UNCHANGED <<kept, end, stored, queues, retry, pushed, handles, scanVars>>

-----------------------------------------------------------------------------
(* Consumers *)

(* The elements in queues that have one producer. *)
Queued ==
  {e \in Producers \X (1 .. MaxPush) : \E k \in Tokens \ kept : e \in Range(queues[k])}

(* QueueList.get(k, local) finds a queue *)
Found(k) == k \in stored

(* get accepts the token max_size, for which the table may have no block;   *)
(* size() counts that far once a creation was refused.                      *)
BeyondTable(k) == k = MaxQueues /\ MaxQueues % UnitSize = 0

(* local->pop succeeds; fails.  A stale revoke count makes it fail on a     *)
(* queue that is not empty, if other consumers are about, and so does an    *)
(* element of a second producer whose place is not counted in tail_ yet.    *)
Take(k) ==
  /\ queues[k] # << >>
  /\ queues' = [queues EXCEPT ![k] = Tail(@)]

MayFail(k) == queues[k] = << >> \/ Cardinality(Consumers) > 1 \/ k \in kept

(* return: the locals are gone *)
Return(c) ==
  /\ cpc' = [cpc EXCEPT ![c] = "idle"]
  /\ size' = [size EXCEPT ![c] = 0]
  /\ middle' = [middle EXCEPT ![c] = 0]
  /\ index' = [index EXCEPT ![c] = 0]
  /\ i' = [i EXCEPT ![c] = 0]
  /\ present' = [present EXCEPT ![c] = {}]

(* Mutant: the scan leaves out the last queue. *)
ScanStartShort(c, m) ==
  /\ "pop_hard" \in Pops
  /\ cpc[c] = "idle"
  /\ m < end \/ m = 0
  /\ cpc' = [cpc EXCEPT ![c] = "down"]
  /\ size' = [size EXCEPT ![c] = end - 1]
  /\ middle' = [middle EXCEPT ![c] = m]
  /\ index' = [index EXCEPT ![c] = m]
  /\ present' = [present EXCEPT ![c] = Queued]
  /\ UNCHANGED <<kept, end, stored, queues, free, handleVars, i>>

(* pop_hard: approximateSize = QueueList.size(), middle = UInt(approximateSize) *)
ScanStart(c, m) ==
  /\ "pop_hard" \in Pops
  /\ cpc[c] = "idle"
  /\ m < end \/ m = 0
  /\ cpc' = [cpc EXCEPT ![c] = "down"]
  /\ size' = [size EXCEPT ![c] = end]
  /\ middle' = [middle EXCEPT ![c] = m]
  /\ index' = [index EXCEPT ![c] = m]
  /\ present' = [present EXCEPT ![c] = Queued]
  /\ UNCHANGED <<kept, end, stored, queues, free, handleVars, i>>

(* A scan meets an element and returns true. *)
ScanHit(c) ==
  /\ \/ cpc[c] = "down" /\ index[c] >= 0
     \/ cpc[c] = "up" /\ index[c] < size[c]
  /\ Found(index[c])
  /\ Take(index[c])
  /\ Return(c)
  /\ UNCHANGED <<kept, end, stored, free, handleVars>>

(* from middle down to 0; a missing queue is passed over *)
ScanDown(c) ==
  /\ cpc[c] = "down"
  /\ index[c] >= 0
  /\ Found(index[c]) => MayFail(index[c])
  /\ cpc' = [cpc EXCEPT ![c] = IF index[c] = 0 THEN "up" ELSE "down"]
  /\ index' = [index EXCEPT ![c] = IF @ = 0 THEN middle[c] + 1 ELSE @ - 1]
  /\ UNCHANGED <<kept, end, stored, queues, free, handleVars, size, middle, i, present>>

(* from middle + 1 up; the size is read again at the last one *)
ScanUp(c) ==
  /\ cpc[c] = "up"
  /\ index[c] < size[c]
  /\ Found(index[c])
  /\ MayFail(index[c])
  /\ size' = [size EXCEPT ![c] = IF index[c] = @ - 1 THEN end ELSE @]
  /\ index' = [index EXCEPT ![c] = @ + 1]
  /\ UNCHANGED <<kept, end, stored, queues, free, handleVars, cpc, middle, i, present>>

(* pop_hard returns false: at a missing queue, or at the end *)
ScanCut(c) ==
  /\ cpc[c] = "up"
  /\ index[c] < size[c]
  /\ ~Found(index[c])
  /\ Return(c)
  /\ UNCHANGED <<kept, end, stored, queues, free, handleVars>>

ScanEnd(c) ==
  /\ cpc[c] = "up"
  /\ index[c] >= size[c]
  /\ cpc' = [cpc EXCEPT ![c] = "missed"]
  /\ UNCHANGED <<kept, end, stored, queues, free, handleVars, size, middle, index, i, present>>

Missed(c) ==
  /\ cpc[c] = "missed"
  /\ Return(c)
  /\ UNCHANGED <<kept, end, stored, queues, free, handleVars>>

(* pop: index = UInt(QueueList.size()).  With no queue the remainder by the *)
(* size is a division by zero.                                              *)
ProbeStart(c, m) ==
  /\ "pop" \in Pops
  /\ cpc[c] = "idle"
  /\ m < end \/ m = 0
  /\ cpc' = [cpc EXCEPT ![c] = IF end = 0 THEN "crashed" ELSE "probe"]
  /\ middle' = [middle EXCEPT ![c] = m]
  /\ index' = [index EXCEPT ![c] = m]
  /\ i' = [i EXCEPT ![c] = 0]
  /\ UNCHANGED <<kept, end, stored, queues, free, handleVars, size, present>>

ProbeHit(c) ==
  /\ cpc[c] = "probe"
  /\ Found(index[c] % end)
  /\ Take(index[c] % end)
  /\ Return(c)
  /\ UNCHANGED <<kept, end, stored, free, handleVars>>

(* i++, cur += 2*i+1; the loop ends when cur, not yet reduced, is the start. *)
(* Once 2i+1 is beyond the start it cannot, and only an element ends it.     *)
Probe(c) ==
  LET k == index[c] % end
      turn == i[c] + 1
      cur == k + 2 * turn + 1
  IN  /\ cpc[c] = "probe"
      /\ Found(k) => MayFail(k)
      /\ IF cur = middle[c]
           THEN Return(c)
           ELSE /\ cpc' = [cpc EXCEPT ![c] = IF 2 * turn + 1 > middle[c] THEN "endless" ELSE @]
                /\ i' = [i EXCEPT ![c] = turn]
                /\ index' = [index EXCEPT ![c] = cur]
                /\ UNCHANGED <<size, middle, present>>
      /\ UNCHANGED <<kept, end, stored, queues, free, handleVars>>

(* It turns on for ever; which queues it still comes by is left open. *)
EndlessHit(c, k) ==
  /\ cpc[c] = "endless"
  /\ Found(k)
  /\ Take(k)
  /\ Return(c)
  /\ UNCHANGED <<kept, end, stored, free, handleVars>>

(* The read behind the table gave no null pointer, and what it gave is used. *)
ReadBeyond(c) ==
  /\ \/ cpc[c] = "down" /\ BeyondTable(index[c])
     \/ cpc[c] = "up" /\ BeyondTable(index[c]) /\ index[c] < size[c]
     \/ cpc[c] = "probe" /\ BeyondTable(index[c] % end)
     \/ cpc[c] = "endless" /\ \E k \in 0 .. end - 1 : BeyondTable(k)
  /\ cpc' = [cpc EXCEPT ![c] = "crashed"]
  /\ UNCHANGED <<kept, end, stored, queues, free, handleVars, size, middle, index, i, present>>

-----------------------------------------------------------------------------
Produce(p) ==
  \/ apply(p) \/ ApplyFails(p) \/ preempt(p) \/ Store(p) \/ PreemptFails(p)
  \/ TryPush(p) \/ TryPushFails(p) \/ ReleaseFull(p)

Call(p) == NewHandle(p) \/ push(p) \/ push_hard(p) \/ Destroy(p)

Consume(c) ==
  \/ \E m \in 0 .. end : ScanStart(c, m) \/ ProbeStart(c, m)
  \/ ScanHit(c) \/ ScanDown(c) \/ ScanUp(c) \/ ScanCut(c) \/ ScanEnd(c) \/ Missed(c)
  \/ ProbeHit(c) \/ Probe(c) \/ \E k \in Tokens : EndlessHit(c, k)
  \/ ReadBeyond(c)

(* A crash ends the program. *)
Crashed == \E c \in Consumers : cpc[c] = "crashed"

(* No consumer is obliged to call, nor a producer beyond its bounds. *)
Rest ==
  /\ \/ Crashed
     \/ /\ \A p \in Producers : ppc[p] \in {"none", "open"}
        /\ \A c \in Consumers : cpc[c] \in {"idle", "endless"}
  /\ UNCHANGED vars

Next ==
  \/ \E p \in Producers : ~Crashed /\ (Produce(p) \/ Call(p))
  \/ \E c \in Consumers : ~Crashed /\ Consume(c)
  \/ Rest

(* Threads are scheduled, and consumers call pop or pop_hard for ever, as   *)
(* the machines do; nothing is assumed of the random start.                 *)
Fairness ==
  /\ \A p \in Producers : WF_vars(~Crashed /\ Produce(p))
  /\ \A c \in Consumers : WF_vars(~Crashed /\ Consume(c))

Spec == Init /\ [][Next]_vars
FairSpec == Spec /\ Fairness

-----------------------------------------------------------------------------
(* Properties *)

TypeOK ==
  /\ end \in Nat
  /\ stored \subseteq Tokens
  /\ queues \in [Tokens -> Seq((Producers \X (1 .. MaxPush)) \cup {Hole})]
  /\ \A k \in Tokens : Len(queues[k]) <= LocalSize
  /\ free \in [Tokens -> Nat]
  /\ kept \subseteq stored
  /\ ppc \in [Producers -> {"none", "apply", "preempt", "store", "open", "push", "release", "skip"}]
  /\ local \in [Producers -> Tokens \cup {NULL}]
  /\ retry \in [Producers -> 1 .. Attempts]
  /\ phase \in [Producers -> {"ctor", "push", "skip"}]
  /\ pushed \in [Producers -> 0 .. MaxPush]
  /\ handles \in 0 .. MaxHandles
  /\ cpc \in [Consumers -> {"idle", "down", "up", "missed", "probe", "endless", "crashed"}]
  /\ size \in [Consumers -> Nat]
  /\ middle \in [Consumers -> Nat]
  /\ index \in [Consumers -> Int]
  /\ i \in [Consumers -> Nat]

(* A handle that has given its full queue back does not use it until it has *)
(* another one.                                                             *)
Uses(p, k) == local[p] = k /\ ~(ppc[p] = "preempt" /\ phase[p] = "skip")

(* "Single-Producer Multi-Comsumer Queue": at any time a local queue has at *)
(* most one producer, and is not offered to another one.  The exception is a *)
(* queue that push_hard went on with after giving it back, because no other  *)
(* could be created.                                                        *)
SingleProducer ==
  \A k \in Tokens \ kept : \A p \in Producers :
    Uses(p, k) => free[k] = 0 /\ \A q \in Producers \ {p} : ~Uses(q, k)

(* pop_hard that scanned to the end missed nothing: every element that was  *)
(* queued when it started has been taken since.  Queues that two producers  *)
(* may share are not spoken of: their elements can be lost.                 *)
ScanMissesNothing ==
  \A c \in Consumers : cpc[c] = "missed" => present[c] \cap Queued = {}

(* As long as the consumers call pop_hard, whatever is queued is taken in   *)
(* the end, wherever the random scans start, unless a scan reads beyond the *)
(* table.  Again a queue that may be shared is left out.                    *)
Probing == \E c \in Consumers : cpc[c] \in {"probe", "endless", "crashed"}
Drained == (Queued # {}) ~> (Queued = {} \/ Probing)
=============================================================================
