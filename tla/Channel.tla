------------------------------- MODULE Channel -------------------------------
(***************************************************************************)
(* Channel<ElementType, BufferCapacity> of include/coplus/channel.h, the   *)
(* buffered one.  A caller puts its condition variable (alert) into sendq  *)
(* or recvq and waits for the buffer under buffer_lock; a detached thread, *)
(* the scheduler, polls the buffer and notifies the alert at the front.    *)
(*                                                                         *)
(* An alert belongs to one thread (thread_local), so it is named by it.    *)
(* sendq_lock and recvq_lock are held for one queue operation, and a       *)
(* caller holds buffer_lock from its test of the buffer to its return or   *)
(* wait: each is one step.  The scheduler holds buffer_lock over two.      *)
(***************************************************************************)
EXTENDS Integers, Sequences

CONSTANTS
  Senders, Receivers,  \* threads that call operator<< and operator>>
  BufferCapacity,
  MaxSend, MaxRecv,    \* bounds of the model: calls of each sender and receiver
  MayClose             \* whether somebody calls close()

ASSUME CapacityAssumption == BufferCapacity \in Nat \ {0}

ASSUME ThreadsAssumption == Senders \cap Receivers = {}

ASSUME BoundsAssumption == MaxSend \in Nat /\ MaxRecv \in Nat /\ MayClose \in BOOLEAN

Threads == Senders \cup Receivers

VARIABLES
  buffer,        \* number of elements in the buffer, a std::queue
  sendq, recvq,  \* alerts of callers
  closed,        \* the flag
  closing,       \* close() was called
  spc,           \* where the scheduler is
  pc,            \* where each caller is
  calls          \* calls made by each caller

vars == <<buffer, sendq, recvq, closed, closing, spc, pc, calls>>

(* The constructor does not set the flag, the scheduler does. *)
Init ==
  /\ buffer = 0
  /\ sendq = << >> /\ recvq = << >>
  /\ closed \in BOOLEAN
  /\ closing = FALSE
  /\ spc = "start"
  /\ pc = [t \in Threads |-> "idle"]
  /\ calls = [t \in Threads |-> 0]

SchedulerHoldsLock == spc \in {"send", "recv"}

(* notify_one: the owner of the alert, if it waits, goes back to its test;  *)
(* otherwise the notification is lost.                                      *)
NotifyOne(t) == pc' = [pc EXCEPT ![t] = IF @ = "wait" THEN "test" ELSE @]

-----------------------------------------------------------------------------
(* The scheduler *)

SchedStart ==
  /\ spc = "start"
  /\ closed' = FALSE
  /\ spc' = "loop"
  /\ UNCHANGED <<buffer, sendq, recvq, closing, pc, calls>>

(* Mutant: the loop does not test the flag. *)
SchedLoopOnce ==
  /\ spc = "loop"
  /\ spc' = "lock"
  /\ UNCHANGED <<buffer, sendq, recvq, closed, closing, pc, calls>>

SchedLoop ==
  /\ spc = "loop"
  /\ spc' = IF closed THEN "done" ELSE "lock"
  /\ UNCHANGED <<buffer, sendq, recvq, closed, closing, pc, calls>>

SchedLock ==
  /\ spc = "lock"
  /\ spc' = "send"
  /\ UNCHANGED <<buffer, sendq, recvq, closed, closing, pc, calls>>

(* Mutant: the alert at the front goes without a look at the buffer. *)
SchedSendAlways ==
  /\ spc = "send"
  /\ spc' = "recv"
  /\ IF sendq # << >>
       THEN NotifyOne(Head(sendq)) /\ sendq' = Tail(sendq)
       ELSE UNCHANGED <<pc, sendq>>
  /\ UNCHANGED <<buffer, recvq, closed, closing, calls>>

SchedSend ==
  /\ spc = "send"
  /\ spc' = "recv"
  /\ IF buffer < BufferCapacity /\ sendq # << >>
       THEN NotifyOne(Head(sendq)) /\ sendq' = Tail(sendq)
       ELSE UNCHANGED <<pc, sendq>>
  /\ UNCHANGED <<buffer, recvq, closed, closing, calls>>

(* Mutant: an else between the two tests, receivers only when the buffer is full. *)
SchedRecvElse ==
  /\ spc = "recv"
  /\ spc' = "loop"
  /\ IF buffer >= BufferCapacity /\ recvq # << >>
       THEN NotifyOne(Head(recvq)) /\ recvq' = Tail(recvq)
       ELSE UNCHANGED <<pc, recvq>>
  /\ UNCHANGED <<buffer, sendq, closed, closing, calls>>

SchedRecv ==
  /\ spc = "recv"
  /\ spc' = "loop"
  /\ IF buffer > 0 /\ recvq # << >>
       THEN NotifyOne(Head(recvq)) /\ recvq' = Tail(recvq)
       ELSE UNCHANGED <<pc, recvq>>
  /\ UNCHANGED <<buffer, sendq, closed, closing, calls>>

-----------------------------------------------------------------------------
(* operator<< and operator>> *)

SendAlert(s) ==
  /\ pc[s] = "idle"
  /\ calls[s] < MaxSend
  /\ calls' = [calls EXCEPT ![s] = @ + 1]
  /\ sendq' = Append(sendq, s)
  /\ pc' = [pc EXCEPT ![s] = "test"]
  /\ UNCHANGED <<buffer, recvq, closed, closing, spc>>

(* Mutant: a wait without predicate. *)
SendUntested(s) ==
  /\ pc[s] = "test"
  /\ ~SchedulerHoldsLock
  /\ buffer' = buffer + 1
  /\ pc' = [pc EXCEPT ![s] = "idle"]
  /\ UNCHANGED <<sendq, recvq, closed, closing, spc, calls>>

Send(s) ==
  /\ pc[s] = "test"
  /\ ~SchedulerHoldsLock
  /\ buffer < BufferCapacity
  /\ buffer' = buffer + 1
  /\ pc' = [pc EXCEPT ![s] = "idle"]
  /\ UNCHANGED <<sendq, recvq, closed, closing, spc, calls>>

RecvAlert(r) ==
  /\ pc[r] = "idle"
  /\ calls[r] < MaxRecv
  /\ calls' = [calls EXCEPT ![r] = @ + 1]
  /\ recvq' = Append(recvq, r)
  /\ pc' = [pc EXCEPT ![r] = "test"]
  /\ UNCHANGED <<buffer, sendq, closed, closing, spc>>

(* Mutant: a wait without predicate. *)
RecvUntested(r) ==
  /\ pc[r] = "test"
  /\ ~SchedulerHoldsLock
  /\ buffer' = buffer - 1
  /\ pc' = [pc EXCEPT ![r] = "idle"]
  /\ UNCHANGED <<sendq, recvq, closed, closing, spc, calls>>

Recv(r) ==
  /\ pc[r] = "test"
  /\ ~SchedulerHoldsLock
  /\ buffer > 0
  /\ buffer' = buffer - 1
  /\ pc' = [pc EXCEPT ![r] = "idle"]
  /\ UNCHANGED <<sendq, recvq, closed, closing, spc, calls>>

(* wait(local, predicate) with the predicate false *)
Wait(t) ==
  /\ pc[t] = "test"
  /\ ~SchedulerHoldsLock
  /\ IF t \in Senders THEN buffer >= BufferCapacity ELSE buffer = 0
  /\ pc' = [pc EXCEPT ![t] = "wait"]
  /\ UNCHANGED <<buffer, sendq, recvq, closed, closing, spc, calls>>

(* A condition variable may wake without being notified. *)
SpuriousWake(t) ==
  /\ pc[t] = "wait"
  /\ pc' = [pc EXCEPT ![t] = "test"]
  /\ UNCHANGED <<buffer, sendq, recvq, closed, closing, spc, calls>>

close ==
  /\ MayClose
  /\ ~closing
  /\ closed' = TRUE
  /\ closing' = TRUE
  /\ UNCHANGED <<buffer, sendq, recvq, spc, pc, calls>>

-----------------------------------------------------------------------------
Scheduler == SchedStart \/ SchedLoop \/ SchedLock \/ SchedSend \/ SchedRecv

Enter(t) == (t \in Senders /\ SendAlert(t)) \/ (t \in Receivers /\ RecvAlert(t))

Locked(t) == (t \in Senders /\ Send(t)) \/ (t \in Receivers /\ Recv(t)) \/ Wait(t)

(* After close nothing need happen. *)
Rest == spc = "done" /\ UNCHANGED vars

Next ==
  \/ Scheduler
  \/ \E t \in Threads : Enter(t) \/ Locked(t) \/ SpuriousWake(t)
  \/ close
  \/ Rest

(* Threads are scheduled, and one that has begun to call makes its calls;   *)
(* the mutex, which the scheduler takes over and over, lets everybody in    *)
(* sometimes.  A first call and a wake-up without cause are never owed.     *)
Fairness ==
  /\ WF_vars(Scheduler)
  /\ \A t \in Threads : WF_vars(calls[t] > 0 /\ Enter(t)) /\ SF_vars(Locked(t))

Spec == Init /\ [][Next]_vars
FairSpec == Spec /\ Fairness

-----------------------------------------------------------------------------
(* Properties *)

TypeOK ==
  /\ buffer \in Nat
  /\ sendq \in Seq(Senders) /\ recvq \in Seq(Receivers)
  /\ closed \in BOOLEAN /\ closing \in BOOLEAN
  /\ spc \in {"start", "loop", "lock", "send", "recv", "done"}
  /\ pc \in [Threads -> {"idle", "test", "wait"}]
  /\ calls \in [Threads -> Nat]

(* "capcity-limited": a sender woken for a place that another one has taken *)
(* meanwhile does not overfill the buffer.                                  *)
CapacityLimited == buffer <= BufferCapacity

(* At most one thread of S has called.  With two senders, or two receivers, *)
(* one may take what the other was notified of, and that one then waits     *)
(* with its alert gone.                                                     *)
Alone(S) == \A s, t \in S : calls[s] > 0 /\ calls[t] > 0 => s = t

OnePair == Alone(Senders) /\ Alone(Receivers)

(* As long as one sender and one receiver have called, a caller that waits  *)
(* has its alert still in the queue, so the scheduler will come to it: no   *)
(* notification is lost between the test of the buffer and the wait.        *)
WaiterIsQueued ==
  OnePair =>
    /\ \A s \in Senders : pc[s] = "wait" => \E j \in DOMAIN sendq : sendq[j] = s
    /\ \A r \in Receivers : pc[r] = "wait" => \E j \in DOMAIN recvq : recvq[j] = r

Called(S) == \E t \in S : calls[t] > 0

(* Between one sender and one receiver every << and >> returns, when as     *)
(* many elements are sent as are asked for and the channel is not closed.   *)
EveryCallReturns ==
  \A t \in Threads :
    (pc[t] # "idle" /\ Called(Senders) /\ Called(Receivers))
      ~> (pc[t] = "idle" \/ closing \/ ~OnePair)

(* close() ends the scheduler, once that has set the flag for the first     *)
(* time; a close() before is overwritten and the scheduler polls for ever.  *)
CloseEndsScheduler == (closed /\ spc # "start") ~> (spc = "done")
=============================================================================
