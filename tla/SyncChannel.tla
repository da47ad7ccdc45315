----------------------------- MODULE SyncChannel -----------------------------
(***************************************************************************)
(* Channel<ElementType, 0> of include/coplus/channel.h, the synchronous    *)
(* one.  A caller queues its alert and then waits at least once, for the   *)
(* predicate of its wait is false the first time (wakeonly); the scheduler *)
(* wakes a sender and a receiver together once both queues have an alert.  *)
(*                                                                         *)
(* The scheduler holds sendq_lock, and recvq_lock inside of it, from its   *)
(* test of the queues to the end of the round, and never buffer_lock; a    *)
(* caller holds buffer_lock from its test to its return or wait, one step. *)
(***************************************************************************)
EXTENDS Integers, Sequences, FiniteSets

CONSTANTS
  Senders, Receivers,  \* threads that call operator<< and operator>>
  MaxSend, MaxRecv,    \* bounds of the model: calls of all senders, of all receivers
  MaxSpurious          \* bound of the model: wake-ups of senders without cause

ASSUME CallersAssumption ==
  Senders \cap Receivers = {} /\ IsFiniteSet(Senders) /\ IsFiniteSet(Receivers)

ASSUME CallBoundsAssumption == MaxSend \in Nat /\ MaxRecv \in Nat /\ MaxSpurious \in Nat

Threads == Senders \cup Receivers

VARIABLES
  buffer,          \* 1 when it points to an element, 0 when it is nullptr
  sendq, recvq,    \* alerts of callers
  closed,          \* the flag
  closing,         \* close() was called
  spc,             \* where the scheduler is
  pc,              \* where each caller is
  offered, sent,   \* calls of operator<< begun and returned
  asked, received, \* calls of operator>> begun and returned
  spurious         \* wake-ups of senders without cause

vars == <<buffer, sendq, recvq, closed, closing, spc, pc,
          offered, sent, asked, received, spurious>>

(* The constructor does not set the flag, the scheduler does. *)
Init ==
  /\ buffer = 0
  /\ sendq = << >> /\ recvq = << >>
  /\ closed \in BOOLEAN
  /\ closing = FALSE
  /\ spc = "start"
  /\ pc = [t \in Threads |-> "idle"]
  /\ offered = 0 /\ sent = 0 /\ asked = 0 /\ received = 0
  /\ spurious = 0

HoldsSendq == spc \in {"recvq", "send", "recv"}
HoldsRecvq == spc \in {"send", "recv"}

(* notify_one: the owner of the alert, if it waits, goes back to its test;  *)
(* otherwise the notification is lost.                                      *)
NotifyOne(t) == pc' = [pc EXCEPT ![t] = IF @ = "wait" THEN "woken" ELSE @]

-----------------------------------------------------------------------------
(* The scheduler *)

callerVars == <<buffer, offered, sent, asked, received, spurious>>

SchedStart ==
  /\ spc = "start"
  /\ closed' = FALSE
  /\ spc' = "loop"
  /\ UNCHANGED <<sendq, recvq, closing, pc, callerVars>>

(* Mutant: the loop does not test the flag. *)
SchedLoopOnce ==
  /\ spc = "loop"
  /\ spc' = "sendq"
  /\ UNCHANGED <<sendq, recvq, closed, closing, pc, callerVars>>

SchedLoop ==
  /\ spc = "loop"
  /\ spc' = IF closed THEN "done" ELSE "sendq"
  /\ UNCHANGED <<sendq, recvq, closed, closing, pc, callerVars>>

(* Mutant: the sender is woken before the receivers are looked at. *)
SchedSendqEager ==
  /\ spc = "sendq"
  /\ IF sendq = << >>
       THEN spc' = "loop" /\ UNCHANGED pc
       ELSE spc' = "recvq" /\ NotifyOne(Head(sendq))
  /\ UNCHANGED <<sendq, recvq, closed, closing, callerVars>>

SchedSendq ==
  /\ spc = "sendq"
  /\ spc' = IF sendq = << >> THEN "loop" ELSE "recvq"
  /\ UNCHANGED <<sendq, recvq, closed, closing, pc, callerVars>>

SchedRecvq ==
  /\ spc = "recvq"
  /\ spc' = IF recvq = << >> THEN "loop" ELSE "send"
  /\ UNCHANGED <<sendq, recvq, closed, closing, pc, callerVars>>

SchedNotifySender ==
  /\ spc = "send"
  /\ NotifyOne(Head(sendq))
  /\ spc' = "recv"
  /\ UNCHANGED <<sendq, recvq, closed, closing, callerVars>>

SchedNotifyReceiver ==
  /\ spc = "recv"
  /\ NotifyOne(Head(recvq))
  /\ recvq' = Tail(recvq)
  /\ sendq' = Tail(sendq)
  /\ spc' = "loop"
  /\ UNCHANGED <<closed, closing, callerVars>>

-----------------------------------------------------------------------------
(* operator<< and operator>> *)

SendAlert(s) ==
  /\ pc[s] = "idle"
  /\ offered < MaxSend
  /\ ~HoldsSendq
  /\ offered' = offered + 1
  /\ sendq' = Append(sendq, s)
  /\ pc' = [pc EXCEPT ![s] = "enter"]
  /\ UNCHANGED <<buffer, recvq, closed, closing, spc, sent, asked, received, spurious>>

RecvAlert(r) ==
  /\ pc[r] = "idle"
  /\ asked < MaxRecv
  /\ ~HoldsRecvq
  /\ asked' = asked + 1
  /\ recvq' = Append(recvq, r)
  /\ pc' = [pc EXCEPT ![r] = "enter"]
  /\ UNCHANGED <<buffer, sendq, closed, closing, spc, offered, sent, received, spurious>>

(* The first time the predicate is false, whatever the buffer. *)
FirstWait(t) ==
  /\ pc[t] = "enter"
  /\ pc' = [pc EXCEPT ![t] = "wait"]
  /\ UNCHANGED <<sendq, recvq, closed, closing, spc, callerVars>>

(* Mutant: a sender does not look at the buffer once it is woken. *)
SendOverwrites(s) ==
  /\ pc[s] = "woken"
  /\ buffer' = 1
  /\ sent' = sent + 1
  /\ pc' = [pc EXCEPT ![s] = "idle"]
  /\ UNCHANGED <<sendq, recvq, closed, closing, spc, offered, asked, received, spurious>>

Send(s) ==
  /\ pc[s] = "woken"
  /\ buffer = 0
  /\ buffer' = 1
  /\ sent' = sent + 1
  /\ pc' = [pc EXCEPT ![s] = "idle"]
  /\ UNCHANGED <<sendq, recvq, closed, closing, spc, offered, asked, received, spurious>>

(* Mutant: a receiver does not look at the buffer once it is woken. *)
RecvUntested(r) ==
  /\ pc[r] = "woken"
  /\ buffer' = buffer - 1
  /\ received' = received + 1
  /\ pc' = [pc EXCEPT ![r] = "idle"]
  /\ UNCHANGED <<sendq, recvq, closed, closing, spc, offered, sent, asked, spurious>>

Recv(r) ==
  /\ pc[r] = "woken"
  /\ buffer = 1
  /\ buffer' = 0
  /\ received' = received + 1
  /\ pc' = [pc EXCEPT ![r] = "idle"]
  /\ UNCHANGED <<sendq, recvq, closed, closing, spc, offered, sent, asked, spurious>>

WaitAgain(t) ==
  /\ pc[t] = "woken"
  /\ IF t \in Senders THEN buffer = 1 ELSE buffer = 0
  /\ pc' = [pc EXCEPT ![t] = "wait"]
  /\ UNCHANGED <<sendq, recvq, closed, closing, spc, callerVars>>

(* A condition variable may wake without being notified. *)
SpuriousWake(t) ==
  /\ pc[t] = "wait"
  /\ t \in Senders => spurious < MaxSpurious
  /\ spurious' = IF t \in Senders THEN spurious + 1 ELSE spurious
  /\ pc' = [pc EXCEPT ![t] = "woken"]
  /\ UNCHANGED <<buffer, sendq, recvq, closed, closing, spc, offered, sent, asked, received>>

close ==
  /\ ~closing
  /\ closed' = TRUE
  /\ closing' = TRUE
  /\ UNCHANGED <<sendq, recvq, spc, pc, callerVars>>

-----------------------------------------------------------------------------
Scheduler ==
  SchedStart \/ SchedLoop \/ SchedSendq \/ SchedRecvq \/ SchedNotifySender \/ SchedNotifyReceiver

(* After close nothing need happen. *)
Rest == spc = "done" /\ UNCHANGED vars

Next ==
  \/ Scheduler
  \/ \E s \in Senders : SendAlert(s) \/ Send(s)
  \/ \E r \in Receivers : RecvAlert(r) \/ Recv(r)
  \/ \E t \in Threads : FirstWait(t) \/ WaitAgain(t) \/ SpuriousWake(t)
  \/ close
  \/ Rest

Spec == Init /\ [][Next]_vars

(* The scheduler is a thread of its own and its locks are held briefly. *)
FairSpec == Spec /\ WF_vars(Scheduler)

-----------------------------------------------------------------------------
(* Properties *)

TypeOK ==
  /\ buffer \in {0, 1}
  /\ sendq \in Seq(Senders) /\ recvq \in Seq(Receivers)
  /\ closed \in BOOLEAN /\ closing \in BOOLEAN
  /\ spc \in {"start", "loop", "sendq", "recvq", "send", "recv", "done"}
  /\ pc \in [Threads -> {"idle", "enter", "wait", "woken"}]
  /\ offered \in Nat /\ sent \in Nat /\ asked \in Nat /\ received \in Nat
  /\ spurious \in Nat

(* A send of the synchronous channel returns only once a receiver has come  *)
(* for it: unless senders woke up without cause, no more << have returned   *)
(* than >> have begun.                                                      *)
Rendezvous == sent <= asked + spurious

(* Whoever wakes up first, and however often, an element that << has stored *)
(* is handed to exactly one >> and is never overwritten.                    *)
HandedOnce == sent = received + buffer

(* close() ends the scheduler that has set the flag for the first time,     *)
(* whatever it waits for; it holds none of the locks then.                  *)
CloseEndsScheduler == (closed /\ spc # "start") ~> (spc = "done")
=============================================================================
