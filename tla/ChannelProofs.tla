--------------------------- MODULE ChannelProofs ---------------------------
(***************************************************************************)
(* Proofs about Channel: types and the capacity for any number of callers, *)
(* and that no wake-up is lost as long as one sender and one receiver have *)
(* called.                                                                 *)
(***************************************************************************)
EXTENDS Channel, SequenceTheorems, TLAPS

(* The owner of a notified alert stays in push, pop or outside of them. *)
LEMMA NotifyType ==
  ASSUME pc \in [Threads -> {"idle", "test", "wait"}], NEW t \in Threads, NotifyOne(t)
  PROVE  pc' \in [Threads -> {"idle", "test", "wait"}]
BY DEF NotifyOne

(* Every variable keeps its type, whatever the callers and the scheduler do. *)
THEOREM TypeCorrect == Spec => []TypeOK
<1> USE BoundsAssumption, CapacityAssumption
<1>1. Init => TypeOK
  <2> SUFFICES ASSUME Init PROVE TypeOK
    OBVIOUS
  <2>1. closed \in BOOLEAN /\ closing \in BOOLEAN
    BY Zenon DEF Init
  <2>2. /\ buffer \in Nat /\ sendq \in Seq(Senders) /\ recvq \in Seq(Receivers)
        /\ spc \in {"start", "loop", "lock", "send", "recv", "done"}
        /\ pc \in [Threads -> {"idle", "test", "wait"}]
        /\ calls \in [Threads -> Nat]
    BY DEF Init
  <2> QED
    BY <2>1, <2>2, Zenon DEF TypeOK
<1>2. TypeOK /\ [Next]_vars => TypeOK'
  <2> SUFFICES ASSUME TypeOK, [Next]_vars PROVE TypeOK'
    OBVIOUS
  <2> USE DEF TypeOK
  <2>1. CASE SchedStart
    BY <2>1 DEF SchedStart
  <2>2. CASE SchedLoop
    BY <2>2 DEF SchedLoop
  <2>3. CASE SchedLock
    BY <2>3 DEF SchedLock
  <2>4. CASE SchedSend
    <3>1. CASE buffer < BufferCapacity /\ sendq # << >>
      <4>1. Head(sendq) \in Threads /\ Tail(sendq) \in Seq(Senders)
        BY <3>1 DEF Threads
      <4>2. pc' \in [Threads -> {"idle", "test", "wait"}]
        BY <2>4, <3>1, <4>1, NotifyType DEF SchedSend
      <4> QED
        BY <2>4, <3>1, <4>1, <4>2 DEF SchedSend
    <3>2. CASE ~(buffer < BufferCapacity /\ sendq # << >>)
      BY <2>4, <3>2 DEF SchedSend
    <3> QED
      BY <3>1, <3>2
  <2>5. CASE SchedRecv
    <3>1. CASE buffer > 0 /\ recvq # << >>
      <4>1. Head(recvq) \in Threads /\ Tail(recvq) \in Seq(Receivers)
        BY <3>1 DEF Threads
      <4>2. pc' \in [Threads -> {"idle", "test", "wait"}]
        BY <2>5, <3>1, <4>1, NotifyType DEF SchedRecv
      <4> QED
        BY <2>5, <3>1, <4>1, <4>2 DEF SchedRecv
    <3>2. CASE ~(buffer > 0 /\ recvq # << >>)
      BY <2>5, <3>2 DEF SchedRecv
    <3> QED
      BY <3>1, <3>2
  <2>6. ASSUME NEW s \in Senders, SendAlert(s) PROVE TypeOK'
    <3>1. s \in Threads /\ calls[s] \in Nat
      BY DEF Threads
    <3> QED
      BY <2>6, <3>1 DEF SendAlert
  <2>7. ASSUME NEW s \in Senders, Send(s) PROVE TypeOK'
    <3>1. buffer' \in Nat
      BY <2>7 DEF Send
    <3>2. pc' \in [Threads -> {"idle", "test", "wait"}]
      BY <2>7 DEF Send
    <3> QED
      BY <2>7, <3>1, <3>2, Zenon DEF Send
  <2>8. ASSUME NEW r \in Receivers, RecvAlert(r) PROVE TypeOK'
    <3>1. r \in Threads /\ calls[r] \in Nat
      BY DEF Threads
    <3> QED
      BY <2>8, <3>1 DEF RecvAlert
  <2>9. ASSUME NEW r \in Receivers, Recv(r) PROVE TypeOK'
    <3>1. buffer' \in Nat
      BY <2>9 DEF Recv
    <3>2. pc' \in [Threads -> {"idle", "test", "wait"}]
      BY <2>9 DEF Recv
    <3> QED
      BY <2>9, <3>1, <3>2, Zenon DEF Recv
  <2>10. ASSUME NEW t \in Threads, Wait(t) PROVE TypeOK'
    BY <2>10 DEF Wait
  <2>11. ASSUME NEW t \in Threads, SpuriousWake(t) PROVE TypeOK'
    BY <2>11 DEF SpuriousWake
  <2>12. CASE close
    BY <2>12 DEF close
  <2>13. CASE UNCHANGED vars
    BY <2>13 DEF vars
  <2> QED
    BY <2>1, <2>2, <2>3, <2>4, <2>5, <2>6, <2>7, <2>8, <2>9, <2>10, <2>11, <2>12, <2>13
       DEF Next, Scheduler, Enter, Locked, Rest
<1> QED
  BY <1>1, <1>2, PTL DEF Spec

(* However many senders wake up for the same free place, the buffer never   *)
(* holds more than BufferCapacity elements.                                 *)
THEOREM CapacityHolds == Spec => []CapacityLimited
<1> USE CapacityAssumption
<1>1. Init => CapacityLimited
  BY DEF Init, CapacityLimited
<1>2. TypeOK /\ CapacityLimited /\ [Next]_vars => CapacityLimited'
  <2> SUFFICES ASSUME TypeOK, CapacityLimited, [Next]_vars PROVE CapacityLimited'
    OBVIOUS
  <2> USE DEF TypeOK, CapacityLimited
  <2>1. CASE Scheduler
    BY <2>1 DEF Scheduler, SchedStart, SchedLoop, SchedLock, SchedSend, SchedRecv
  <2>2. ASSUME NEW t \in Threads, Enter(t) \/ Locked(t) \/ SpuriousWake(t)
        PROVE  CapacityLimited'
    BY <2>2 DEF Enter, Locked, SpuriousWake, SendAlert, RecvAlert, Send, Recv, Wait
  <2>3. CASE close
    BY <2>3 DEF close
  <2>4. CASE UNCHANGED vars
    BY <2>4 DEF vars
  <2> QED
    BY <2>1, <2>2, <2>3, <2>4 DEF Next, Rest
<1> QED
  BY <1>1, <1>2, TypeCorrect, PTL DEF Spec

-----------------------------------------------------------------------------
(* Only a thread that has called is in a call or in a queue. *)
CallersInv ==
  /\ \A t \in Threads : pc[t] # "idle" => calls[t] > 0
  /\ \A j \in DOMAIN sendq : calls[sendq[j]] > 0
  /\ \A j \in DOMAIN recvq : calls[recvq[j]] > 0

(* One sender and one receiver.  An alert that is taken out of its queue    *)
(* early is harmless, since the buffer can then serve its owner and nobody  *)
(* else can change that: this is the second half of the invariant.          *)
PairInv ==
  OnePair =>
    /\ \A s \in Senders : /\ pc[s] = "wait" => sendq # << >>
                          /\ pc[s] = "test" => sendq # << >> \/ buffer < BufferCapacity
    /\ \A r \in Receivers : /\ pc[r] = "wait" => recvq # << >>
                            /\ pc[r] = "test" => recvq # << >> \/ buffer > 0

(* The members of a queue stay what they were when its front leaves it or   *)
(* one of them is added.                                                    *)
LEMMA TailMembers ==
  ASSUME NEW S, NEW q \in Seq(S), q # << >>
  PROVE  /\ Head(q) \in S /\ Tail(q) \in Seq(S)
         /\ \E i \in DOMAIN q : Head(q) = q[i]
         /\ \A j \in DOMAIN Tail(q) : \E i \in DOMAIN q : Tail(q)[j] = q[i]
<1>1. /\ Head(q) \in S /\ Tail(q) \in Seq(S) /\ Len(Tail(q)) = Len(q) - 1
      /\ Len(q) \in Nat /\ Len(q) > 0 /\ Head(q) = q[1]
  OBVIOUS
<1>2. ASSUME NEW j \in DOMAIN Tail(q) PROVE \E i \in DOMAIN q : Tail(q)[j] = q[i]
  <2>1. j \in 1 .. Len(q) - 1
    BY <1>1
  <2>2. Tail(q)[j] = q[j + 1] /\ j + 1 \in DOMAIN q
    BY <1>1, <2>1
  <2> QED
    BY <2>2
<1> QED
  BY <1>1, <1>2

LEMMA AppendMembers ==
  ASSUME NEW S, NEW q \in Seq(S), NEW t \in S
  PROVE  /\ Append(q, t) # << >>
         /\ \A j \in DOMAIN Append(q, t) : Append(q, t)[j] = t \/ \E i \in DOMAIN q : Append(q, t)[j] = q[i]
<1>1. Append(q, t) \in Seq(S) /\ Len(Append(q, t)) = Len(q) + 1 /\ Len(q) \in Nat
  OBVIOUS
<1>2. ASSUME NEW j \in DOMAIN Append(q, t)
      PROVE  Append(q, t)[j] = t \/ \E i \in DOMAIN q : Append(q, t)[j] = q[i]
  <2>1. j \in 1 .. Len(q) + 1
    BY <1>1
  <2>2. CASE j = Len(q) + 1
    BY <2>2
  <2>3. CASE j \in 1 .. Len(q)
    BY <2>3
  <2> QED
    BY <1>1, <2>1, <2>2, <2>3
<1> QED
  BY <1>1, <1>2

(* Both halves of the invariant of the callers, for every step. *)
LEMMA CallersInvHolds == Spec => []CallersInv
<1>1. Init => CallersInv
  BY DEF Init, CallersInv
<1>2. TypeOK /\ CallersInv /\ [Next]_vars => CallersInv'
  <2> SUFFICES ASSUME TypeOK, CallersInv, [Next]_vars PROVE CallersInv'
    OBVIOUS
  <2>0. /\ pc \in [Threads -> {"idle", "test", "wait"}] /\ calls \in [Threads -> Nat]
        /\ sendq \in Seq(Senders) /\ recvq \in Seq(Receivers)
        /\ Senders \subseteq Threads /\ Receivers \subseteq Threads
    BY DEF TypeOK, Threads
  <2> USE DEF CallersInv
  <2>1. CASE SchedStart \/ SchedLoop \/ SchedLock \/ close \/ UNCHANGED vars
    <3>1. UNCHANGED <<sendq, recvq, pc, calls>>
      BY <2>1, Zenon DEF SchedStart, SchedLoop, SchedLock, close, vars
    <3> QED
      BY <3>1
  <2>2. CASE SchedSend
    <3>1. CASE buffer < BufferCapacity /\ sendq # << >>
      <4>1. /\ Head(sendq) \in Threads
            /\ \A j \in DOMAIN Tail(sendq) : \E i \in DOMAIN sendq : Tail(sendq)[j] = sendq[i]
        BY <2>0, <3>1, TailMembers
      <4>2. /\ pc' = [pc EXCEPT ![Head(sendq)] = IF @ = "wait" THEN "test" ELSE @]
            /\ sendq' = Tail(sendq) /\ UNCHANGED <<recvq, calls>>
        BY <2>2, <3>1 DEF SchedSend, NotifyOne
      <4>3. \A t \in Threads : pc'[t] # "idle" => pc[t] # "idle"
        BY <2>0, <4>1, <4>2
      <4>4. \A j \in DOMAIN sendq' : calls[sendq'[j]] > 0
        BY <4>1, <4>2
      <4> QED
        BY <4>2, <4>3, <4>4
    <3>2. CASE ~(buffer < BufferCapacity /\ sendq # << >>)
      BY <2>2, <3>2 DEF SchedSend
    <3> QED
      BY <3>1, <3>2
  <2>3. CASE SchedRecv
    <3>1. CASE buffer > 0 /\ recvq # << >>
      <4>1. /\ Head(recvq) \in Threads
            /\ \A j \in DOMAIN Tail(recvq) : \E i \in DOMAIN recvq : Tail(recvq)[j] = recvq[i]
        BY <2>0, <3>1, TailMembers
      <4>2. /\ pc' = [pc EXCEPT ![Head(recvq)] = IF @ = "wait" THEN "test" ELSE @]
            /\ recvq' = Tail(recvq) /\ UNCHANGED <<sendq, calls>>
        BY <2>3, <3>1 DEF SchedRecv, NotifyOne
      <4>3. \A t \in Threads : pc'[t] # "idle" => pc[t] # "idle"
        BY <2>0, <4>1, <4>2
      <4>4. \A j \in DOMAIN recvq' : calls[recvq'[j]] > 0
        BY <4>1, <4>2
      <4> QED
        BY <4>2, <4>3, <4>4
    <3>2. CASE ~(buffer > 0 /\ recvq # << >>)
      BY <2>3, <3>2 DEF SchedRecv
    <3> QED
      BY <3>1, <3>2
  <2>4. ASSUME NEW s \in Senders, SendAlert(s) PROVE CallersInv'
    <3>1. \A t \in Threads : calls'[t] \in Nat /\ calls'[t] >= calls[t]
      BY <2>0, <2>4 DEF SendAlert
    <3>2. calls'[s] > 0
      BY <2>0, <2>4 DEF SendAlert
    <3>3. \A j \in DOMAIN sendq' : sendq'[j] = s \/ \E i \in DOMAIN sendq : sendq'[j] = sendq[i]
      BY <2>0, <2>4, AppendMembers DEF SendAlert
    <3>4. \A j \in DOMAIN sendq : sendq[j] \in Threads
      BY <2>0
    <3>5. \A j \in DOMAIN recvq : recvq[j] \in Threads
      BY <2>0
    <3>6. \A j \in DOMAIN sendq' : calls'[sendq'[j]] > 0
      BY <2>0, <3>1, <3>2, <3>3, <3>4
    <3>7. \A j \in DOMAIN recvq' : calls'[recvq'[j]] > 0
      <4>1. recvq' = recvq
        BY <2>4 DEF SendAlert
      <4> QED
        BY <2>0, <3>1, <3>5, <4>1
    <3>8. \A t \in Threads : pc'[t] # "idle" => calls'[t] > 0
      BY <2>0, <2>4, <3>1, <3>2 DEF SendAlert
    <3> QED
      BY <3>6, <3>7, <3>8
  <2>5. ASSUME NEW r \in Receivers, RecvAlert(r) PROVE CallersInv'
    <3>1. \A t \in Threads : calls'[t] \in Nat /\ calls'[t] >= calls[t]
      BY <2>0, <2>5 DEF RecvAlert
    <3>2. calls'[r] > 0
      BY <2>0, <2>5 DEF RecvAlert
    <3>3. \A j \in DOMAIN recvq' : recvq'[j] = r \/ \E i \in DOMAIN recvq : recvq'[j] = recvq[i]
      BY <2>0, <2>5, AppendMembers DEF RecvAlert
    <3>4. \A j \in DOMAIN sendq : sendq[j] \in Threads
      BY <2>0
    <3>5. \A j \in DOMAIN recvq : recvq[j] \in Threads
      BY <2>0
    <3>6. \A j \in DOMAIN recvq' : calls'[recvq'[j]] > 0
      BY <2>0, <3>1, <3>2, <3>3, <3>5
    <3>7. \A j \in DOMAIN sendq' : calls'[sendq'[j]] > 0
      <4>1. sendq' = sendq
        BY <2>5 DEF RecvAlert
      <4> QED
        BY <2>0, <3>1, <3>4, <4>1
    <3>8. \A t \in Threads : pc'[t] # "idle" => calls'[t] > 0
      BY <2>0, <2>5, <3>1, <3>2 DEF RecvAlert
    <3> QED
      BY <3>6, <3>7, <3>8
  <2>6. ASSUME NEW t \in Threads, Locked(t) \/ SpuriousWake(t) PROVE CallersInv'
    BY <2>0, <2>6 DEF Locked, SpuriousWake, Send, Recv, Wait
  <2> QED
    BY <2>1, <2>2, <2>3, <2>4, <2>5, <2>6 DEF Next, Scheduler, Enter, Rest
<1> QED
  BY <1>1, <1>2, TypeCorrect, PTL DEF Spec

(* A caller keeps having called. *)
LEMMA PairBefore ==
  ASSUME TypeOK, [Next]_vars, OnePair'
  PROVE  OnePair
<1>1. \A t \in Threads : calls[t] \in Nat /\ calls'[t] \in Nat /\ calls'[t] >= calls[t]
  <2>0. calls \in [Threads -> Nat] /\ Senders \subseteq Threads /\ Receivers \subseteq Threads
    BY DEF TypeOK, Threads
  <2>1. CASE calls' = calls
    BY <2>0, <2>1
  <2>2. ASSUME NEW t \in Threads, Enter(t)
        PROVE  \A u \in Threads : calls[u] \in Nat /\ calls'[u] \in Nat /\ calls'[u] >= calls[u]
    <3>1. calls' = [calls EXCEPT ![t] = @ + 1]
      BY <2>2, Zenon DEF Enter, SendAlert, RecvAlert
    <3> QED
      BY <2>0, <3>1
  <2>3. calls' = calls \/ \E t \in Threads : Enter(t)
    BY Zenon DEF vars, Next, Scheduler, SchedStart, SchedLoop, SchedLock, SchedSend, SchedRecv,
                 Locked, Send, Recv, Wait, SpuriousWake, close, Rest
  <2> QED
    BY <2>1, <2>2, <2>3
<1> QED
  BY <1>1 DEF OnePair, Alone, Threads

(* As long as no second sender and no second receiver has called, a caller  *)
(* that waits always has its alert in the queue, so the scheduler's         *)
(* notifications are never all lost, whatever the number of threads.        *)
THEOREM PairNeverForgotten == Spec => []WaiterIsQueued
<1> USE CapacityAssumption, ThreadsAssumption
<1>1. Init => PairInv
  BY DEF Init, PairInv, Threads
<1>2. TypeOK /\ CallersInv /\ CallersInv' /\ PairInv /\ [Next]_vars => PairInv'
  <2> SUFFICES ASSUME TypeOK, CallersInv, CallersInv', PairInv, [Next]_vars, OnePair' PROVE PairInv'
    BY DEF PairInv
  <2>0. /\ pc \in [Threads -> {"idle", "test", "wait"}]
        /\ Senders \subseteq Threads /\ Receivers \subseteq Threads
        /\ buffer \in Nat /\ BufferCapacity \in Nat /\ BufferCapacity > 0
        /\ sendq \in Seq(Senders) /\ recvq \in Seq(Receivers)
    BY DEF TypeOK, Threads
  <2>a. OnePair
    BY PairBefore
  <2>b. \A s, t \in Senders : pc[s] # "idle" /\ pc[t] # "idle" => s = t
    BY <2>0, <2>a DEF CallersInv, OnePair, Alone
  <2>c. \A s, t \in Receivers : pc[s] # "idle" /\ pc[t] # "idle" => s = t
    BY <2>0, <2>a DEF CallersInv, OnePair, Alone
  <2>d. \A s \in Senders : /\ pc[s] = "wait" => sendq # << >>
                           /\ pc[s] = "test" => sendq # << >> \/ buffer < BufferCapacity
    BY <2>a DEF PairInv
  <2>e. \A r \in Receivers : /\ pc[r] = "wait" => recvq # << >>
                             /\ pc[r] = "test" => recvq # << >> \/ buffer > 0
    BY <2>a DEF PairInv
  <2> USE DEF PairInv
  <2>1. CASE SchedStart \/ SchedLoop \/ SchedLock \/ close \/ UNCHANGED vars
    <3>1. UNCHANGED <<buffer, sendq, recvq, pc>>
      BY <2>1, Zenon DEF SchedStart, SchedLoop, SchedLock, close, vars
    <3> QED
      BY <3>1, <2>d, <2>e
  <2>2. CASE SchedSend
    <3>1. CASE buffer < BufferCapacity /\ sendq # << >>
      <4>1. Head(sendq) \in Senders /\ calls[Head(sendq)] > 0
        BY <2>0, <3>1, TailMembers DEF CallersInv
      <4>2. \A s \in Senders : pc[s] # "idle" => s = Head(sendq)
        BY <2>0, <2>a, <4>1 DEF CallersInv, OnePair, Alone
      <4>3. /\ pc' = [pc EXCEPT ![Head(sendq)] = IF @ = "wait" THEN "test" ELSE @]
            /\ UNCHANGED <<buffer, recvq>>
        BY <2>2, <3>1 DEF SchedSend, NotifyOne
      <4>4. \A s \in Senders : pc'[s] # "wait"
        BY <2>0, <4>1, <4>2, <4>3
      <4>5. \A r \in Receivers : pc'[r] = pc[r]
        BY <2>0, <4>1, <4>3
      <4> QED
        BY <2>e, <3>1, <4>3, <4>4, <4>5
    <3>2. CASE ~(buffer < BufferCapacity /\ sendq # << >>)
      BY <2>2, <2>d, <2>e, <3>2 DEF SchedSend
    <3> QED
      BY <3>1, <3>2
  <2>3. CASE SchedRecv
    <3>1. CASE buffer > 0 /\ recvq # << >>
      <4>1. Head(recvq) \in Receivers /\ calls[Head(recvq)] > 0
        BY <2>0, <3>1, TailMembers DEF CallersInv
      <4>2. \A r \in Receivers : pc[r] # "idle" => r = Head(recvq)
        BY <2>0, <2>a, <4>1 DEF CallersInv, OnePair, Alone
      <4>3. /\ pc' = [pc EXCEPT ![Head(recvq)] = IF @ = "wait" THEN "test" ELSE @]
            /\ UNCHANGED <<buffer, sendq>>
        BY <2>3, <3>1 DEF SchedRecv, NotifyOne
      <4>4. \A r \in Receivers : pc'[r] # "wait"
        BY <2>0, <4>1, <4>2, <4>3
      <4>5. \A s \in Senders : pc'[s] = pc[s]
        BY <2>0, <4>1, <4>3
      <4> QED
        BY <2>d, <3>1, <4>3, <4>4, <4>5
    <3>2. CASE ~(buffer > 0 /\ recvq # << >>)
      BY <2>3, <2>d, <2>e, <3>2 DEF SchedRecv
    <3> QED
      BY <3>1, <3>2
  <2>4. ASSUME NEW s \in Senders, SendAlert(s) PROVE PairInv'
    <3>1. sendq' # << >> /\ UNCHANGED <<buffer, recvq>> /\ \A r \in Receivers : pc'[r] = pc[r]
      BY <2>0, <2>4, AppendMembers DEF SendAlert
    <3> QED
      BY <2>e, <3>1
  <2>5. ASSUME NEW s \in Senders, Send(s) PROVE PairInv'
    <3>1. \A t \in Senders : pc'[t] = "idle"
      BY <2>0, <2>5, <2>b DEF Send
    <3>2. UNCHANGED <<sendq, recvq>> /\ buffer' = buffer + 1 /\ \A r \in Receivers : pc'[r] = pc[r]
      BY <2>0, <2>5 DEF Send
    <3> QED
      BY <2>0, <2>e, <3>1, <3>2
  <2>6. ASSUME NEW r \in Receivers, RecvAlert(r) PROVE PairInv'
    <3>1. recvq' # << >> /\ UNCHANGED <<buffer, sendq>> /\ \A s \in Senders : pc'[s] = pc[s]
      BY <2>0, <2>6, AppendMembers DEF RecvAlert
    <3> QED
      BY <2>d, <3>1
  <2>7. ASSUME NEW r \in Receivers, Recv(r) PROVE PairInv'
    <3>1. \A t \in Receivers : pc'[t] = "idle"
      BY <2>0, <2>7, <2>c DEF Recv
    <3>2. UNCHANGED <<sendq, recvq>> /\ buffer' = buffer - 1 /\ \A s \in Senders : pc'[s] = pc[s]
      BY <2>0, <2>7 DEF Recv
    <3>3. buffer > 0
      BY <2>7 DEF Recv
    <3> QED
      BY <2>0, <2>d, <3>1, <3>2, <3>3
  <2>8. ASSUME NEW t \in Threads, Wait(t) PROVE PairInv'
    BY <2>0, <2>8, <2>d, <2>e DEF Wait, Threads
  <2>9. ASSUME NEW t \in Threads, SpuriousWake(t) PROVE PairInv'
    BY <2>0, <2>9, <2>d, <2>e DEF SpuriousWake, Threads
  <2> QED
    BY <2>1, <2>2, <2>3, <2>4, <2>5, <2>6, <2>7, <2>8, <2>9
       DEF Next, Scheduler, Enter, Locked, Rest
<1>3. TypeOK /\ CallersInv /\ PairInv => WaiterIsQueued
  <2> SUFFICES ASSUME TypeOK, CallersInv, PairInv, OnePair PROVE WaiterIsQueued
    BY DEF WaiterIsQueued
  <2>0. sendq \in Seq(Senders) /\ recvq \in Seq(Receivers) /\ Senders \subseteq Threads /\ Receivers \subseteq Threads
    BY DEF TypeOK, Threads
  <2>1. ASSUME NEW s \in Senders, pc[s] = "wait" PROVE \E j \in DOMAIN sendq : sendq[j] = s
    <3>1. sendq # << >>
      BY <2>1 DEF PairInv
    <3>2. 1 \in DOMAIN sendq /\ sendq[1] \in Senders
      BY <2>0, <3>1
    <3>3. sendq[1] = s
      BY <2>0, <2>1, <3>2 DEF CallersInv, OnePair, Alone
    <3> QED
      BY <3>2, <3>3
  <2>2. ASSUME NEW r \in Receivers, pc[r] = "wait" PROVE \E j \in DOMAIN recvq : recvq[j] = r
    <3>1. recvq # << >>
      BY <2>2 DEF PairInv
    <3>2. 1 \in DOMAIN recvq /\ recvq[1] \in Receivers
      BY <2>0, <3>1
    <3>3. recvq[1] = r
      BY <2>0, <2>2, <3>2 DEF CallersInv, OnePair, Alone
    <3> QED
      BY <3>2, <3>3
  <2> QED
    BY <2>1, <2>2 DEF WaiterIsQueued
<1> QED
  BY <1>1, <1>2, <1>3, TypeCorrect, CallersInvHolds, PTL DEF Spec
=============================================================================
