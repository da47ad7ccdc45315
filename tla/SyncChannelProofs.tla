-------------------------- MODULE SyncChannelProofs --------------------------
(***************************************************************************)
(* Proofs about SyncChannel for any finite numbers of senders and          *)
(* receivers: types, that an element is handed over once, and the          *)
(* rendezvous.                                                             *)
(***************************************************************************)
EXTENDS SyncChannel, SequenceTheorems, FiniteSetTheorems, TLAPS

PcStates == {"idle", "enter", "wait", "woken"}

(* A queue that is not empty has an owner at its front, and it gets shorter *)
(* by one when that one is taken off.                                       *)
LEMMA QueueFront ==
  ASSUME NEW S, NEW q \in Seq(S), q # << >>
  PROVE  Head(q) \in S /\ Tail(q) \in Seq(S) /\ Len(Tail(q)) = Len(q) - 1 /\ Len(q) \in Nat \ {0}
<1>1. Len(q) \in Nat /\ Len(q) # 0
  BY EmptySeq, LenProperties
<1> QED
  BY <1>1, HeadTailProperties

(* Notifying the front of sendq or recvq notifies a caller. *)
LEMMA NotifyType ==
  ASSUME pc \in [Threads -> PcStates], NEW t \in Threads, NotifyOne(t)
  PROVE  pc' \in [Threads -> PcStates]
BY DEF NotifyOne, PcStates

(* The scheduler keeps a lock only as long as there is an alert behind it. *)
LockedQueues ==
  /\ HoldsSendq => sendq # << >>
  /\ HoldsRecvq => recvq # << >>

TypeInv == TypeOK /\ LockedQueues

(* Every step keeps the types; that the scheduler takes alerts only from    *)
(* queues that have some depends on the locks it holds.                     *)
LEMMA TypeStep == TypeInv /\ [Next]_vars => TypeInv'
<1> SUFFICES ASSUME TypeInv, [Next]_vars PROVE TypeInv'
  OBVIOUS
<1> USE CallBoundsAssumption DEF TypeInv, TypeOK, LockedQueues, HoldsSendq, HoldsRecvq, callerVars
<1>1. CASE SchedStart
  BY <1>1 DEF SchedStart
<1>2. CASE SchedLoop
  BY <1>2 DEF SchedLoop
<1>3. CASE SchedSendq
  BY <1>3 DEF SchedSendq
<1>4. CASE SchedRecvq
  BY <1>4 DEF SchedRecvq
<1>5. CASE SchedNotifySender
  <2>1. Head(sendq) \in Threads
    BY <1>5, QueueFront DEF SchedNotifySender, Threads
  <2>2. pc' \in [Threads -> PcStates]
    BY <1>5, <2>1, NotifyType DEF SchedNotifySender, PcStates
  <2> QED
    BY <1>5, <2>2 DEF SchedNotifySender, PcStates
<1>6. CASE SchedNotifyReceiver
  <2>1. Head(recvq) \in Threads /\ Tail(recvq) \in Seq(Receivers)
    BY <1>6, QueueFront DEF SchedNotifyReceiver, Threads
  <2>2. Tail(sendq) \in Seq(Senders)
    BY <1>6, QueueFront DEF SchedNotifyReceiver
  <2>3. pc' \in [Threads -> PcStates]
    BY <1>6, <2>1, NotifyType DEF SchedNotifyReceiver, PcStates
  <2> QED
    BY <1>6, <2>1, <2>2, <2>3 DEF SchedNotifyReceiver, PcStates
<1>7. ASSUME NEW s \in Senders, SendAlert(s) PROVE TypeInv'
  BY <1>7 DEF SendAlert, Threads
<1>8. ASSUME NEW s \in Senders, Send(s) PROVE TypeInv'
  BY <1>8 DEF Send, Threads
<1>9. ASSUME NEW r \in Receivers, RecvAlert(r) PROVE TypeInv'
  BY <1>9 DEF RecvAlert, Threads
<1>10. ASSUME NEW r \in Receivers, Recv(r) PROVE TypeInv'
  BY <1>10 DEF Recv, Threads
<1>11. ASSUME NEW t \in Threads, FirstWait(t) PROVE TypeInv'
  BY <1>11 DEF FirstWait
<1>12. ASSUME NEW t \in Threads, WaitAgain(t) PROVE TypeInv'
  BY <1>12 DEF WaitAgain
<1>13. ASSUME NEW t \in Threads, SpuriousWake(t) PROVE TypeInv'
  BY <1>13 DEF SpuriousWake
<1>14. CASE close
  BY <1>14 DEF close
<1>15. CASE UNCHANGED vars
  BY <1>15 DEF vars
<1> QED
  BY <1>1, <1>2, <1>3, <1>4, <1>5, <1>6, <1>7, <1>8, <1>9, <1>10, <1>11, <1>12, <1>13, <1>14, <1>15
     DEF Next, Scheduler, Rest

(* The types, with what the scheduler's locks guarantee. *)
THEOREM LocksCorrect == Spec => []TypeInv
<1>1. Init => TypeInv
  <2> SUFFICES ASSUME Init PROVE TypeInv
    OBVIOUS
  <2>1. closed \in BOOLEAN /\ closing \in BOOLEAN
    BY Zenon DEF Init
  <2>2. /\ buffer \in {0, 1} /\ sendq \in Seq(Senders) /\ recvq \in Seq(Receivers)
        /\ spc = "start" /\ pc \in [Threads -> {"idle", "enter", "wait", "woken"}]
        /\ offered \in Nat /\ sent \in Nat /\ asked \in Nat /\ received \in Nat /\ spurious \in Nat
    BY DEF Init
  <2>3. LockedQueues
    BY <2>2 DEF LockedQueues, HoldsSendq, HoldsRecvq
  <2> QED
    BY <2>1, <2>2, <2>3, Zenon DEF TypeInv, TypeOK
<1> QED
  BY <1>1, TypeStep, PTL DEF Spec

(* Every variable of the synchronous channel keeps its type. *)
THEOREM TypeCorrect == Spec => []TypeOK
BY LocksCorrect, PTL DEF TypeInv

(* An element that << has stored is taken by exactly one >>: a woken caller *)
(* that comes too late finds the buffer changed and waits again.            *)
THEOREM HandedOnceHolds == Spec => []HandedOnce
<1>1. Init => HandedOnce
  BY DEF Init, HandedOnce
<1>2. TypeInv /\ HandedOnce /\ [Next]_vars => HandedOnce'
  <2> SUFFICES ASSUME TypeInv, HandedOnce, [Next]_vars PROVE HandedOnce'
    OBVIOUS
  <2> USE DEF HandedOnce, callerVars
  <2>1. sent \in Nat /\ received \in Nat /\ buffer \in {0, 1}
    BY DEF TypeInv, TypeOK
  <2>2. ASSUME NEW s \in Senders, Send(s) PROVE HandedOnce'
    BY <2>1, <2>2 DEF Send
  <2>3. ASSUME NEW r \in Receivers, Recv(r) PROVE HandedOnce'
    BY <2>1, <2>3 DEF Recv
  <2>4. CASE Scheduler
    BY <2>4 DEF Scheduler, SchedStart, SchedLoop, SchedSendq, SchedRecvq, SchedNotifySender,
                SchedNotifyReceiver
  <2>5. ASSUME NEW t \in Threads, FirstWait(t) \/ WaitAgain(t) \/ SpuriousWake(t) PROVE HandedOnce'
    BY <2>5 DEF FirstWait, WaitAgain, SpuriousWake
  <2>6. ASSUME NEW s \in Senders, SendAlert(s) PROVE HandedOnce'
    BY <2>6 DEF SendAlert
  <2>7. ASSUME NEW r \in Receivers, RecvAlert(r) PROVE HandedOnce'
    BY <2>7 DEF RecvAlert
  <2>8. CASE close
    BY <2>8 DEF close
  <2>9. CASE UNCHANGED vars
    BY <2>9 DEF vars
  <2> QED
    BY <2>2, <2>3, <2>4, <2>5, <2>6, <2>7, <2>8, <2>9 DEF Next, Rest
<1> QED
  BY <1>1, <1>2, LocksCorrect, PTL DEF Spec

Woken == {s \in Senders : pc[s] = "woken"}

(* Each return and each pending wake-up of a sender is paid for by a        *)
(* receiver's alert that was taken off recvq, by the one the scheduler has  *)
(* still to take off, or by a wake-up without cause.                        *)
WakesPaid ==
  sent + Cardinality(Woken) + Len(recvq) <= asked + spurious + (IF spc = "recv" THEN 1 ELSE 0)

(* Woken senders can be counted. *)
LEMMA WokenFinite == IsFiniteSet(Woken) /\ Cardinality(Woken) \in Nat
<1>1. IsFiniteSet(Woken)
  BY CallersAssumption, FS_Subset DEF Woken
<1> QED
  BY <1>1, FS_CardinalityType

(* When one thread moves and the others stay, the number of woken senders   *)
(* changes by what that thread does.                                        *)
LEMMA WokenMoves ==
  ASSUME pc \in [Threads -> PcStates], NEW t \in Threads, NEW x \in PcStates,
         pc' = [pc EXCEPT ![t] = x]
  PROVE  /\ Cardinality(Woken') \in Nat /\ Cardinality(Woken) \in Nat
         /\ t \notin Senders => Woken' = Woken
         /\ pc[t] # "woken" /\ x # "woken" => Woken' = Woken
         /\ Cardinality(Woken') <= Cardinality(Woken) + 1
         /\ t \in Senders /\ pc[t] = "woken" /\ x # "woken"
              => Cardinality(Woken') = Cardinality(Woken) - 1
<1>1. IsFiniteSet(Woken) /\ Cardinality(Woken) \in Nat
  BY WokenFinite
<1>2. IsFiniteSet(Woken') /\ Cardinality(Woken') \in Nat
  <2>1. IsFiniteSet(Woken')
    BY CallersAssumption, FS_Subset DEF Woken
  <2> QED
    BY <2>1, FS_CardinalityType
<1>3. t \notin Senders => Woken' = Woken
  BY DEF Woken, Threads
<1>4. pc[t] # "woken" /\ x # "woken" => Woken' = Woken
  BY DEF Woken, Threads
<1>5. Cardinality(Woken') <= Cardinality(Woken) + 1
  <2>1. Woken' \subseteq Woken \cup {t}
    BY DEF Woken, Threads
  <2>2. /\ IsFiniteSet(Woken \cup {t})
        /\ Cardinality(Woken \cup {t}) \in {Cardinality(Woken), Cardinality(Woken) + 1}
    <3> HIDE DEF Woken
    <3> QED
      BY <1>1, FS_AddElement
  <2>3. Cardinality(Woken') <= Cardinality(Woken \cup {t})
    BY <2>1, <2>2, FS_Subset
  <2> QED
    BY <1>1, <1>2, <2>2, <2>3
<1>6. ASSUME t \in Senders, pc[t] = "woken", x # "woken"
      PROVE  Cardinality(Woken') = Cardinality(Woken) - 1
  <2>1. Woken' = Woken \ {t} /\ t \in Woken
    BY <1>6 DEF Woken, Threads
  <2> QED
    BY <1>1, <2>1, FS_RemoveElement
<1> QED
  BY <1>1, <1>2, <1>3, <1>4, <1>5, <1>6

(* notify_one wakes at most one sender, and none if it is for a receiver. *)
LEMMA NotifyWakes ==
  ASSUME pc \in [Threads -> PcStates], NEW t \in Threads, NotifyOne(t)
  PROVE  /\ Cardinality(Woken') \in Nat
         /\ Cardinality(Woken') <= Cardinality(Woken) + 1
         /\ t \notin Senders => Woken' = Woken
<1> DEFINE x == IF pc[t] = "wait" THEN "woken" ELSE pc[t]
<1>1. x \in PcStates
  BY DEF PcStates
<1>2. pc' = [pc EXCEPT ![t] = x]
  BY DEF NotifyOne
<1> HIDE DEF x
<1> QED
  BY <1>1, <1>2, WokenMoves

(* A send returns only once a receiver has come, for any number of callers  *)
(* and however notifications are lost or senders overtake one another.      *)
THEOREM RendezvousHolds == Spec => []Rendezvous
<1>1. Init => WakesPaid
  <2> SUFFICES ASSUME Init PROVE WakesPaid
    OBVIOUS
  <2>1. Woken = {}
    BY DEF Init, Woken, Threads
  <2>2. Cardinality(Woken) = 0 /\ Len(recvq) = 0
    BY <2>1, FS_EmptySet DEF Init
  <2> QED
    BY <2>2 DEF Init, WakesPaid
<1>2. TypeInv /\ WakesPaid /\ [Next]_vars => WakesPaid'
  <2> SUFFICES ASSUME TypeInv, WakesPaid, [Next]_vars PROVE WakesPaid'
    OBVIOUS
  <2> USE DEF WakesPaid, callerVars
  <2>1. /\ sent \in Nat /\ asked \in Nat /\ spurious \in Nat /\ Len(recvq) \in Nat
        /\ pc \in [Threads -> PcStates] /\ Cardinality(Woken) \in Nat
    BY WokenFinite, LenProperties DEF TypeInv, TypeOK, PcStates
  <2>2. ASSUME UNCHANGED pc PROVE Woken' = Woken
    BY <2>2 DEF Woken
  <2>3. CASE SchedStart \/ SchedLoop \/ SchedSendq \/ SchedRecvq
    BY <2>1, <2>2, <2>3 DEF SchedStart, SchedLoop, SchedSendq, SchedRecvq
  <2>4. CASE SchedNotifySender
    <3>1. Head(sendq) \in Threads
      BY <2>4, QueueFront
         DEF SchedNotifySender, TypeInv, TypeOK, LockedQueues, HoldsSendq, Threads
    <3>2. Cardinality(Woken') \in Nat /\ Cardinality(Woken') <= Cardinality(Woken) + 1
      BY <2>1, <2>4, <3>1, NotifyWakes DEF SchedNotifySender
    <3> QED
      BY <2>1, <2>4, <3>2 DEF SchedNotifySender
  <2>5. CASE SchedNotifyReceiver
    <3>1. Head(recvq) \in Receivers /\ Len(Tail(recvq)) = Len(recvq) - 1
      BY <2>5, QueueFront
         DEF SchedNotifyReceiver, TypeInv, TypeOK, LockedQueues, HoldsRecvq
    <3>2. Head(recvq) \in Threads /\ Head(recvq) \notin Senders
      BY <3>1, CallersAssumption DEF Threads
    <3>3. Woken' = Woken
      BY <2>1, <2>5, <3>2, NotifyWakes DEF SchedNotifyReceiver
    <3> QED
      BY <2>1, <2>5, <3>1, <3>3 DEF SchedNotifyReceiver
  <2>6. ASSUME NEW s \in Senders, SendAlert(s) PROVE WakesPaid'
    <3>1. Woken' = Woken
      BY <2>1, <2>6, WokenMoves DEF SendAlert, Threads, PcStates
    <3> QED
      BY <2>1, <2>6, <3>1 DEF SendAlert
  <2>7. ASSUME NEW s \in Senders, Send(s) PROVE WakesPaid'
    <3>1. Cardinality(Woken') = Cardinality(Woken) - 1
      BY <2>1, <2>7, WokenMoves DEF Send, Threads, PcStates
    <3> QED
      BY <2>1, <2>7, <3>1 DEF Send
  <2>8. ASSUME NEW r \in Receivers, RecvAlert(r) PROVE WakesPaid'
    <3>1. Woken' = Woken
      BY <2>1, <2>8, WokenMoves DEF RecvAlert, Threads, PcStates
    <3>2. Len(recvq') = Len(recvq) + 1
      BY <2>8, AppendProperties DEF RecvAlert, TypeInv, TypeOK
    <3> QED
      BY <2>1, <2>8, <3>1, <3>2 DEF RecvAlert
  <2>9. ASSUME NEW r \in Receivers, Recv(r) PROVE WakesPaid'
    <3>1. Woken' = Woken
      <4>1. r \in Threads /\ r \notin Senders
        BY CallersAssumption DEF Threads
      <4> QED
        BY <2>1, <2>9, <4>1, WokenMoves DEF Recv, PcStates
    <3> QED
      BY <2>1, <2>9, <3>1 DEF Recv
  <2>10. ASSUME NEW t \in Threads, FirstWait(t) PROVE WakesPaid'
    <3>1. Woken' = Woken
      BY <2>1, <2>10, WokenMoves DEF FirstWait, PcStates
    <3> QED
      BY <2>1, <2>10, <3>1 DEF FirstWait
  <2>11. ASSUME NEW t \in Threads, WaitAgain(t) PROVE WakesPaid'
    <3>1. Cardinality(Woken') \in Nat /\ Cardinality(Woken') <= Cardinality(Woken)
      <4>1. pc[t] = "woken" /\ pc' = [pc EXCEPT ![t] = "wait"]
        BY <2>11 DEF WaitAgain
      <4>2. /\ Cardinality(Woken') \in Nat
            /\ t \notin Senders => Woken' = Woken
            /\ t \in Senders => Cardinality(Woken') = Cardinality(Woken) - 1
        BY <2>1, <4>1, WokenMoves DEF PcStates
      <4> QED
        BY <2>1, <4>2
    <3> QED
      BY <2>1, <2>11, <3>1 DEF WaitAgain
  <2>12. ASSUME NEW t \in Threads, SpuriousWake(t) PROVE WakesPaid'
    <3>1. Cardinality(Woken') \in Nat /\ Cardinality(Woken') <= Cardinality(Woken) + 1
      BY <2>1, <2>12, WokenMoves DEF SpuriousWake, PcStates
    <3>2. t \notin Senders => Woken' = Woken
      BY <2>1, <2>12, WokenMoves DEF SpuriousWake, PcStates
    <3> QED
      BY <2>1, <2>12, <3>1, <3>2 DEF SpuriousWake
  <2>13. CASE close
    BY <2>1, <2>2, <2>13 DEF close
  <2>14. CASE UNCHANGED vars
    BY <2>1, <2>2, <2>14 DEF vars
  <2> QED
    BY <2>3, <2>4, <2>5, <2>6, <2>7, <2>8, <2>9, <2>10, <2>11, <2>12, <2>13, <2>14
       DEF Next, Scheduler, Rest
<1>3. TypeInv /\ WakesPaid => Rendezvous
  <2> SUFFICES ASSUME TypeInv, WakesPaid PROVE Rendezvous
    OBVIOUS
  <2>1. /\ sent \in Nat /\ asked \in Nat /\ spurious \in Nat /\ Len(recvq) \in Nat
        /\ Cardinality(Woken) \in Nat
    BY WokenFinite, LenProperties DEF TypeInv, TypeOK
  <2>2. spc = "recv" => Len(recvq) \in Nat \ {0}
    BY QueueFront DEF TypeInv, TypeOK, LockedQueues, HoldsRecvq
  <2> QED
    BY <2>1, <2>2 DEF WakesPaid, Rendezvous
<1> QED
  BY <1>1, <1>2, <1>3, LocksCorrect, PTL DEF Spec
=============================================================================
