--------------------------- MODULE CoroutineProofs ---------------------------
(***************************************************************************)
(* Proofs about Coroutine, for any machines, tasks, triggers and calls.    *)
(* The argument: a task that is in no list of a user's trigger is in one   *)
(* place at a time (the task queue, the hands of one machine, or the list  *)
(* of one trigger that is still to be notified), so it is resubmitted once *)
(* per suspension.                                                         *)
(***************************************************************************)
EXTENDS Coroutine, FiniteSetTheorems, SequenceTheorems, TLAPS

-----------------------------------------------------------------------------
(* The places of a task *)

Holding == {"run", "ready", "waiting", "register"}
Holds(m, t) == current[m] = t /\ mpc[m] \in Holding

(* the machine has still to submit the task that await(func) made *)
Spawns(m, t) == wait_for_task[m] = t /\ mpc[m] \in {"waiting", "register", "spawn"}

Listed(g, t) == \E j \in DOMAIN waiters[g] : waiters[g][j] >= 0 /\ waitq[waiters[g][j] + 1] = t

Returned(t) == fiber[t] \in {"leaving", "finished"}

(* the lists of the triggers that await makes *)
DoneList(s) == waiters[DoneTrigger(s)]
TimerList(t) == waiters[TimerTrigger(t)]
ForDone(s, t) == Listed(DoneTrigger(s), t)
OnTimer(s, t) == Listed(TimerTrigger(s), t)

(* the list of a trigger that is still to be notified names the task *)
WaitsFor(s, t) == ~Returned(s) /\ ForDone(s, t)
WaitsTimer(t) == t \in timers /\ OnTimer(t, t)

-----------------------------------------------------------------------------
(* The inductive invariant *)

(* A fiber runs on one machine. *)
OneRunner ==
  \A m \in Machines :
    /\ mpc[m] \in Holding \cup {"lost"} => current[m] \in Tasks
    /\ mpc[m] = "run" => /\ fiber[current[m]] \in {"running", "leaving"}
                         /\ \A n \in Machines : mpc[n] = "run" /\ current[n] = current[m] => n = m

(* FiberData of a machine that is about to register a waiter. *)
Registering ==
  \A m \in Machines :
    /\ mpc[m] \in {"waiting", "register"} =>
         \/ \E u \in Users : trigger[m] = UserTrigger(u) /\ wait_for_task[m] = NoTask
         \/ \E s \in Tasks : trigger[m] = DoneTrigger(s) /\ wait_for_task[m] = s
         \/ trigger[m] = TimerTrigger(current[m]) /\ wait_for_task[m] = NoTask
    /\ mpc[m] = "register" /\ id[m] >= 0 => waitq[id[m] + 1] = current[m]
    /\ mpc[m] = "spawn" => wait_for_task[m] \in Tasks

(* A task made by await(func) is submitted once, after its waiter is listed. *)
OneSpawn ==
  \A m \in Machines, s \in Tasks : Spawns(m, s) =>
    /\ fiber[s] = "new" /\ ready[s] = 0
    /\ \A n \in Machines : Spawns(n, s) => n = m
    /\ mpc[m] # "spawn" => DoneList(s) = << >>

(* At most one task waits for a task that await(func) made. *)
OneWaiter ==
  \A s \in Tasks : /\ Len(DoneList(s)) <= 1
                   /\ fiber[s] = "unborn" => DoneList(s) = << >>

(* A task that has not run yet was never held nor stored. *)
Fresh ==
  \A t \in Tasks : fiber[t] \in {"unborn", "new"} =>
    /\ \A i \in DOMAIN waitq : waitq[i] # t
    /\ \A m \in Machines : ~Holds(m, t)
    /\ ready[t] <= 1
    /\ fiber[t] = "unborn" => ready[t] = 0 /\ \A m \in Machines : ~Spawns(m, t)

(* The trigger of a timer lists the task that armed it, once. *)
TimerLists ==
  \A t \in Tasks :
    /\ \A x \in Tasks : OnTimer(t, x) => x = t
    /\ ~Shared(t) =>
         /\ Len(TimerList(t)) <= 1
         /\ \A m \in Machines :
              Holds(m, t) /\ mpc[m] \in {"waiting", "register"} /\ trigger[m] = TimerTrigger(t)
                => TimerList(t) = << >>

InOnePlace(t) ==
  /\ ready[t] <= 1
  /\ ready[t] = 1 => /\ fiber[t] \in {"new", "suspended"}
                     /\ \A m \in Machines : ~Holds(m, t)
                     /\ \A s \in Tasks : ~WaitsFor(s, t)
                     /\ ~WaitsTimer(t)
  /\ \A m \in Machines : Holds(m, t) =>
       /\ mpc[m] # "run" => fiber[t] = "suspended"
       /\ \A n \in Machines : Holds(n, t) => n = m
       /\ \A s \in Tasks : ~WaitsFor(s, t)
       /\ ~WaitsTimer(t)
  /\ \A s \in Tasks : WaitsFor(s, t) =>
       /\ fiber[t] = "suspended"
       /\ \A r \in Tasks : WaitsFor(r, t) => r = s
       /\ ~WaitsTimer(t)
  /\ WaitsTimer(t) => fiber[t] = "suspended"

(* The same of every task that no user's trigger lists. *)
OnePlace == \A t \in Tasks : ~Shared(t) => InOnePlace(t)

(* A task whose target has not returned is on its way into the target's     *)
(* list, or in that list, and nowhere else.                                 *)
BehindTarget ==
  \A t, s \in Tasks : ~Shared(t) /\ target[t] = s /\ ~Returned(s) =>
    /\ ready[t] = 0 /\ fiber[t] = "suspended" /\ ~WaitsTimer(t)
    /\ \A m \in Machines : Holds(m, t) => /\ mpc[m] \in {"waiting", "register"}
                                          /\ trigger[m] = DoneTrigger(s)
    /\ \A r \in Tasks : WaitsFor(r, t) => r = s

(* A fiber that was entered twice is in the list of a user's trigger. *)
LostShared ==
  \A m \in Machines, t \in Tasks : mpc[m] = "lost" /\ current[m] = t => Shared(t)

IInv ==
  /\ TypeOK /\ OneRunner /\ Registering /\ OneSpawn /\ OneWaiter /\ Fresh
  /\ TimerLists /\ OnePlace /\ BehindTarget /\ LostShared

-----------------------------------------------------------------------------
(* Triggers and notifications *)

(* Triggers of different kinds, or for different tasks, are different. *)
LEMMA TriggersApart ==
  /\ \A s \in Tasks : DoneTrigger(s) \in Triggers /\ TimerTrigger(s) \in Triggers
  /\ \A u \in Users : UserTrigger(u) \in Triggers
  /\ \A s, t : /\ DoneTrigger(s) # TimerTrigger(t)
               /\ DoneTrigger(s) # UserTrigger(t)
               /\ TimerTrigger(s) # UserTrigger(t)
               /\ DoneTrigger(s) = DoneTrigger(t) => s = t
               /\ TimerTrigger(s) = TimerTrigger(t) => s = t
BY DEF Triggers, DoneTrigger, TimerTrigger, UserTrigger

(* The entries of a trigger that notify comes by are finitely many. *)
LEMMA NotifiedFinite ==
  ASSUME TypeOK, NEW g \in Triggers
  PROVE  IsFiniteSet(Notified(g)) /\ Notified(g) \subseteq DOMAIN waiters[g]
<1>1. waiters[g] \in Seq(-1 .. Len(waitq) - 1)
  BY DEF TypeOK
<1>2. DOMAIN waiters[g] = 1 .. Len(waiters[g]) /\ Len(waiters[g]) \in Nat
  BY <1>1, LenProperties
<1>3. Notified(g) \subseteq DOMAIN waiters[g]
  BY DEF Notified
<1>4. IsFiniteSet(1 .. Len(waiters[g]))
  <2>1. 1 \in Int /\ Len(waiters[g]) \in Int
    BY <1>2
  <2> QED
    BY <2>1, FS_Interval
<1> QED
  BY <1>2, <1>3, <1>4, FS_Subset

(* notify resubmits nothing but tasks that the trigger lists, and each at   *)
(* most as often as the list is long.                                       *)
LEMMA NotifyAdds ==
  ASSUME TypeOK, NEW g \in Triggers, notify(g)
  PROVE  /\ ready' \in [Tasks -> Nat] /\ refused' \in Nat
         /\ \A t \in Tasks : ~Listed(g, t) => ready'[t] = ready[t]
         /\ Len(waiters[g]) <= 1 => \A t \in Tasks : ready'[t] <= ready[t] + 1
<1> PICK dropped \in SUBSET Notified(g) :
      /\ refused' = refused + Cardinality(dropped)
      /\ ready' = [t \in Tasks |->
                     ready[t] + Cardinality({i \in Notified(g) \ dropped : waitq[waiters[g][i] + 1] = t})]
  BY DEF notify
<1> DEFINE N(t) == {i \in Notified(g) \ dropped : waitq[waiters[g][i] + 1] = t}
<1>0. ready \in [Tasks -> Nat] /\ refused \in Nat
  BY DEF TypeOK
<1>1. \A t \in Tasks : ready'[t] = ready[t] + Cardinality(N(t))
  OBVIOUS
<1>2. \A t \in Tasks : IsFiniteSet(N(t)) /\ Cardinality(N(t)) \in Nat /\ N(t) \subseteq DOMAIN waiters[g]
  <2> TAKE t \in Tasks
  <2>1. N(t) \subseteq Notified(g)
    OBVIOUS
  <2> QED
    BY <2>1, NotifiedFinite, FS_Subset, FS_CardinalityType
<1>3. ready' \in [Tasks -> Nat] /\ refused' \in Nat
  <2>1. ready' = [t \in Tasks |-> ready[t] + Cardinality(N(t))]
    OBVIOUS
  <2>2. Cardinality(dropped) \in Nat
    BY NotifiedFinite, FS_Subset, FS_CardinalityType
  <2> HIDE DEF N
  <2> QED
    BY <1>0, <1>2, <2>1, <2>2
<1>4. waiters[g] \in Seq(-1 .. Len(waitq) - 1)
  BY DEF TypeOK
<1>5. /\ DOMAIN waiters[g] = 1 .. Len(waiters[g]) /\ Len(waiters[g]) \in Nat
      /\ \A i \in DOMAIN waiters[g] : waiters[g][i] \in Int
  BY <1>4, LenProperties, ElementOfSeq
<1>6. ASSUME NEW t \in Tasks, ~Listed(g, t) PROVE ready'[t] = ready[t]
  <2>1. N(t) = {}
    <3> SUFFICES ASSUME NEW i \in N(t) PROVE FALSE
      OBVIOUS
    <3>1. i \in DOMAIN waiters[g] /\ waitq[waiters[g][i] + 1] = t
      BY DEF Notified
    <3>2. waiters[g][i] < 0
      BY <1>5, <1>6, <3>1 DEF Listed
    <3>3. i < i
      BY <3>1, <3>2 DEF Notified
    <3> QED
      BY <1>5, <3>1, <3>3
  <2>2. Cardinality(N(t)) = 0
    BY <2>1, FS_EmptySet
  <2> QED
    BY <1>0, <1>1, <2>2
<1>7. ASSUME NEW t \in Tasks, Len(waiters[g]) <= 1 PROVE ready'[t] <= ready[t] + 1
  <2>0. DOMAIN waiters[g] \subseteq {1}
    BY <1>5, <1>7
  <2>1. N(t) \subseteq {1}
    BY <1>2, <2>0, Zenon
  <2>2. Cardinality(N(t)) <= 1
    <3>1. IsFiniteSet({1}) /\ Cardinality({1}) = 1
      BY FS_Singleton
    <3> QED
      BY <2>1, <3>1, FS_Subset
  <2>3. Cardinality(N(t)) \in Nat /\ ready[t] \in Nat
    BY <1>0, <1>2
  <2> QED
    BY <1>1, <2>2, <2>3
<1> QED
  BY <1>3, <1>6, <1>7

(* push_hard adds one entry of the task, or refuses it. *)
LEMMA PushHardAdds ==
  ASSUME TypeOK, NEW t \in Tasks, PushHard(t)
  PROVE  \A x \in Tasks : /\ ready'[x] = ready[x] \/ (x = t /\ ready'[x] = ready[x] + 1)
                          /\ ready[x] \in Nat
<1>1. ready \in [Tasks -> Nat]
  BY DEF TypeOK
<1> TAKE x \in Tasks
<1>2. CASE ready' = ready
  BY <1>1, <1>2
<1>3. CASE ready' = [ready EXCEPT ![t] = @ + 1]
  <2>1. ready'[x] = IF x = t THEN ready[t] + 1 ELSE ready[x]
    BY <1>1, <1>3
  <2> QED
    BY <1>1, <2>1
<1> QED
  BY <1>2, <1>3 DEF PushHard

-----------------------------------------------------------------------------
(* Types *)

(* A machine that runs a body runs that of a task. *)
LEMMA RunsTask ==
  ASSUME IInv, NEW m \in Machines, mpc[m] \in Holding \cup {"lost"}
  PROVE  current[m] \in Tasks
BY DEF IInv, OneRunner

(* A longer wait_queue keeps the types of the indices into it. *)
LEMMA LongerQueue ==
  ASSUME TypeOK, NEW t \in Tasks, waitq' = Append(waitq, t), Len(waitq) < WaitSize,
         waiters' = waiters
  PROVE  /\ waitq' \in Seq(Tasks) /\ Len(waitq') = Len(waitq) + 1 /\ Len(waitq') <= WaitSize
         /\ waiters' \in [Triggers -> Seq(-1 .. Len(waitq') - 1)]
         /\ \A i \in 1 .. Len(waitq) : waitq'[i] = waitq[i]
         /\ waitq'[Len(waitq) + 1] = t
<1>1. waitq \in Seq(Tasks) /\ waiters \in [Triggers -> Seq(-1 .. Len(waitq) - 1)]
  BY DEF TypeOK
<1>2. Len(waitq) \in Nat /\ WaitSize \in Nat
  BY <1>1, LenProperties, BoundsAssumption
<1>3. /\ waitq' \in Seq(Tasks) /\ Len(waitq') = Len(waitq) + 1
      /\ \A i \in 1 .. Len(waitq) : waitq'[i] = waitq[i]
      /\ waitq'[Len(waitq) + 1] = t
  BY <1>1, AppendProperties
<1>4. -1 .. Len(waitq) - 1 \subseteq -1 .. Len(waitq') - 1
  BY <1>2, <1>3
<1>5. \A g \in Triggers : waiters[g] \in Seq(-1 .. Len(waitq') - 1)
  BY <1>1, <1>4, SeqMonotonic
<1> QED
  BY <1>1, <1>2, <1>3, <1>5

(* The steps of the scheduler body keep the types. *)
LEMMA DispatchType ==
  ASSUME IInv, NEW m \in Machines, Dispatch(m)
  PROVE  TypeOK'
<1>0. TypeOK
  BY DEF IInv
<1> USE DEF TypeOK, MachineStates, FiberStates, taskVars
<1>1. CASE Requeue(m)
  <2>1. current[m] \in Tasks
    BY <1>1, RunsTask DEF Requeue, Holding
  <2> QED
    BY <1>0, <1>1, <2>1 DEF Requeue, PushHard
<1>2. CASE StoreWaiter(m)
  <2>1. current[m] \in Tasks
    BY <1>2, RunsTask DEF StoreWaiter, Holding
  <2>2. /\ mpc' \in [Machines -> MachineStates]
        /\ UNCHANGED <<ready, refused, waiters, timers, fiber, target, awaited, fuel, current, trigger, wait_for_task>>
    BY <1>0, <1>2 DEF StoreWaiter
  <2>3. CASE Len(waitq) < WaitSize
    <3>1. waitq' = Append(waitq, current[m]) /\ id' = [id EXCEPT ![m] = Len(waitq)]
      BY <1>2, <2>3 DEF StoreWaiter
    <3>2. /\ waitq' \in Seq(Tasks) /\ Len(waitq') = Len(waitq) + 1 /\ Len(waitq') <= WaitSize
          /\ waiters' \in [Triggers -> Seq(-1 .. Len(waitq') - 1)]
      BY <1>0, <2>1, <2>2, <2>3, <3>1, LongerQueue
    <3>3. Len(waitq) \in Nat /\ id \in [Machines -> -1 .. Len(waitq) - 1]
      BY <1>0, LenProperties
    <3>4. id' \in [Machines -> -1 .. Len(waitq') - 1]
      BY <3>1, <3>2, <3>3
    <3> QED
      BY <1>0, <2>2, <3>2, <3>4
  <2>4. CASE ~(Len(waitq) < WaitSize)
    <3>1. waitq' = waitq /\ id' = [id EXCEPT ![m] = -1]
      BY <1>2, <2>4 DEF StoreWaiter
    <3>2. Len(waitq) \in Nat /\ id \in [Machines -> -1 .. Len(waitq) - 1]
      BY <1>0, LenProperties
    <3>3. id' \in [Machines -> -1 .. Len(waitq) - 1]
      BY <3>1, <3>2
    <3> QED
      BY <1>0, <2>2, <3>1, <3>3
  <2> QED
    BY <2>3, <2>4
<1>3. CASE Register(m)
  <2>1. id[m] \in -1 .. Len(waitq) - 1
    BY <1>0
  <2>2. waiters' = [waiters EXCEPT ![trigger[m]] = Append(@, id[m])]
    BY <1>3 DEF Register
  <2>3. \A g \in Triggers : Append(waiters[g], id[m]) \in Seq(-1 .. Len(waitq) - 1)
    BY <1>0, <2>1, AppendProperties
  <2>4. waiters' \in [Triggers -> Seq(-1 .. Len(waitq) - 1)]
    BY <1>0, <2>2, <2>3
  <2>5. mpc' \in [Machines -> MachineStates]
    BY <1>0, <1>3 DEF Register
  <2> QED
    BY <1>0, <1>3, <2>4, <2>5 DEF Register
<1>4. CASE Spawn(m)
  <2>1. wait_for_task[m] \in Tasks
    BY <1>4 DEF IInv, Registering, Spawn
  <2> QED
    BY <1>0, <1>4, <2>1, SMTT(30) DEF Spawn, PushHard
<1> QED
  BY <1>1, <1>2, <1>3, <1>4 DEF Dispatch

(* The calls of a body keep the types. *)
LEMMA BodyType ==
  ASSUME IInv, NEW m \in Machines, Body(m)
  PROVE  TypeOK'
<1>0. TypeOK /\ MaxCalls \in Nat
  BY BoundsAssumption DEF IInv
<1>1. mpc[m] = "run" /\ current[m] \in Tasks
  <2>1. mpc[m] = "run"
    BY DEF Body, yield, go, AwaitFunc, AwaitTrigger, AwaitTimer, NotifyTrigger, FuncReturns, Finish, Running
  <2> QED
    BY <2>1, RunsTask DEF Holding
<1>2. ASSUME NEW call, Running(m, call) PROVE fuel' \in [Tasks -> 0 .. MaxCalls]
  <2>1. fuel[current[m]] \in 0 .. MaxCalls /\ fuel[current[m]] > 0
    BY <1>0, <1>1, <1>2 DEF Running, TypeOK
  <2>2. fuel[current[m]] - 1 \in 0 .. MaxCalls
    BY <1>0, <2>1
  <2> QED
    BY <1>0, <1>1, <1>2, <2>2 DEF Running, TypeOK
<1> USE DEF TypeOK, MachineStates, FiberStates, machineVars
<1>3. CASE yield(m)
  BY <1>0, <1>1, <1>2, <1>3 DEF yield, Suspend
<1>4. ASSUME NEW t \in Tasks, go(m, t) PROVE TypeOK'
  BY <1>0, <1>1, <1>2, <1>4, SMTT(30) DEF go, PushHard
<1>5. ASSUME NEW t \in Tasks, AwaitFunc(m, t) PROVE TypeOK'
  <2>1. fuel' \in [Tasks -> 0 .. MaxCalls]
    BY <1>2, <1>5 DEF AwaitFunc
  <2>2. DoneTrigger(t) \in Triggers
    BY TriggersApart
  <2>3. fiber' \in [Tasks -> FiberStates]
    BY <1>0, <1>5 DEF AwaitFunc
  <2>4. /\ trigger' \in [Machines -> Triggers \cup {NoTrigger}]
        /\ wait_for_task' \in [Machines -> Tasks \cup {NoTask}]
        /\ mpc' \in [Machines -> MachineStates]
        /\ target' \in [Tasks -> Tasks \cup {NoTask}] /\ awaited' \subseteq Tasks
    BY <1>0, <1>5, <2>2 DEF AwaitFunc, Suspend
  <2> QED
    BY <1>0, <1>5, <2>1, <2>3, <2>4 DEF AwaitFunc
<1>6. ASSUME NEW u \in Users, AwaitTrigger(m, u) PROVE TypeOK'
  <2>1. UserTrigger(u) \in Triggers
    BY TriggersApart
  <2> QED
    BY <1>0, <1>1, <1>2, <1>6, <2>1 DEF AwaitTrigger, Suspend
<1>7. ASSUME NEW u \in Users, NotifyTrigger(m, u) PROVE TypeOK'
  <2>1. UserTrigger(u) \in Triggers
    BY TriggersApart
  <2>2. ready' \in [Tasks -> Nat] /\ refused' \in Nat
    BY <1>0, <1>7, <2>1, NotifyAdds DEF NotifyTrigger
  <2> QED
    BY <1>0, <1>2, <1>7, <2>2 DEF NotifyTrigger
<1>8. CASE AwaitTimer(m)
  <2>1. TimerTrigger(current[m]) \in Triggers
    BY <1>1, TriggersApart
  <2>2. << >> \in Seq(-1 .. Len(waitq) - 1)
    OBVIOUS
  <2>3. waiters' \in [Triggers -> Seq(-1 .. Len(waitq) - 1)]
    BY <1>0, <1>8, <2>2 DEF AwaitTimer, NewTrigger
  <2>4. timers' \subseteq Tasks
    BY <1>0, <1>1, <1>8 DEF AwaitTimer, ArmTimer
  <2>5. fuel' \in [Tasks -> 0 .. MaxCalls]
    BY <1>2, <1>8 DEF AwaitTimer
  <2> QED
    BY <1>0, <1>8, <2>1, <2>3, <2>4, <2>5 DEF AwaitTimer, Suspend
<1>9. CASE FuncReturns(m)
  <2>1. DoneTrigger(current[m]) \in Triggers
    BY <1>1, TriggersApart
  <2>2. ready' \in [Tasks -> Nat] /\ refused' \in Nat
    BY <1>0, <1>9, <2>1, NotifyAdds DEF FuncReturns
  <2> QED
    BY <1>0, <1>9, <2>2 DEF FuncReturns
<1>10. CASE Finish(m)
  BY <1>0, <1>10 DEF Finish
<1> QED
  BY <1>3, <1>4, <1>5, <1>6, <1>7, <1>8, <1>9, <1>10 DEF Body

(* pop_hard and call keep the types, and so do the timers. *)
LEMMA OtherType ==
  ASSUME IInv, NEW t \in Tasks,
         TimerFires(t) \/ \E m \in Machines : Schedule(m, t) \/ ScheduleUndefined(m, t)
  PROVE  TypeOK'
<1>0. TypeOK
  BY DEF IInv
<1> USE DEF TypeOK, MachineStates, FiberStates, machineVars, taskVars
<1>1. CASE TimerFires(t)
  <2>1. TimerTrigger(t) \in Triggers
    BY TriggersApart
  <2>2. ready' \in [Tasks -> Nat] /\ refused' \in Nat
    BY <1>0, <1>1, <2>1, NotifyAdds DEF TimerFires, notifyNaked
  <2> QED
    BY <1>0, <1>1, <2>2 DEF TimerFires
<1>2. ASSUME NEW m \in Machines, Schedule(m, t) PROVE TypeOK'
  BY <1>0, <1>2, SMTT(30) DEF Schedule
<1>3. ASSUME NEW m \in Machines, ScheduleUndefined(m, t) PROVE TypeOK'
  BY <1>0, <1>3 DEF ScheduleUndefined
<1> QED
  BY <1>1, <1>2, <1>3

-----------------------------------------------------------------------------
(* What a step leaves alone *)

(* Steps that register nobody leave every list as it is, also when the wait *)
(* queue gets longer.                                                       *)
LEMMA ListsStay ==
  ASSUME TypeOK, waiters' = waiters, \A i \in 1 .. Len(waitq) : waitq'[i] = waitq[i]
  PROVE  /\ \A s \in Tasks : DoneList(s)' = DoneList(s) /\ TimerList(s)' = TimerList(s)
         /\ \A s, t \in Tasks : (ForDone(s, t)' <=> ForDone(s, t)) /\ (OnTimer(s, t)' <=> OnTimer(s, t))
         /\ \A t \in Tasks : Shared(t)' <=> Shared(t)
<1>1. ASSUME NEW g \in Triggers, NEW j \in DOMAIN waiters[g], waiters[g][j] >= 0
      PROVE  waitq'[waiters[g][j] + 1] = waitq[waiters[g][j] + 1]
  <2>1. Len(waitq) \in Nat
    BY LenProperties DEF TypeOK
  <2>2. waiters[g][j] \in -1 .. Len(waitq) - 1
    BY ElementOfSeq, LenProperties DEF TypeOK
  <2> QED
    BY <1>1, <2>1, <2>2
<1>2. \A s \in Tasks : DoneList(s)' = DoneList(s) /\ TimerList(s)' = TimerList(s)
  BY DEF DoneList, TimerList, DoneTrigger, TimerTrigger
<1>3. \A s, t \in Tasks : (ForDone(s, t)' <=> ForDone(s, t)) /\ (OnTimer(s, t)' <=> OnTimer(s, t))
  BY <1>1, TriggersApart DEF ForDone, OnTimer, Listed, DoneTrigger, TimerTrigger
<1>4. \A t \in Tasks : Shared(t)' <=> Shared(t)
  <2> DEFINE ForUser(u, t) == Listed(UserTrigger(u), t)
  <2>1. \A u \in Users, t \in Tasks : ForUser(u, t)' <=> ForUser(u, t)
    BY <1>1, TriggersApart DEF Listed, UserTrigger
  <2>2. \A t \in Tasks : Shared(t) <=> \E u \in Users : ForUser(u, t)
    BY DEF Shared, Listed
  <2>3. \A t \in Tasks : Shared(t)' <=> \E u \in Users : ForUser(u, t)'
    BY DEF Shared, Listed, UserTrigger
  <2> HIDE DEF ForUser
  <2> QED
    BY <2>1, <2>2, <2>3
<1> QED
  BY <1>2, <1>3, <1>4

-----------------------------------------------------------------------------
(* The steps of the scheduler *)

(* A task is taken from the queue: that was its place. *)
LEMMA ScheduleKeeps ==
  ASSUME IInv, NEW m \in Machines, NEW t \in Tasks, Schedule(m, t)
  PROVE  IInv'
<1>0. TypeOK /\ TypeOK'
  BY OtherType DEF IInv
<1>1. /\ \A s \in Tasks : DoneList(s)' = DoneList(s) /\ TimerList(s)' = TimerList(s)
      /\ \A s, x \in Tasks : (ForDone(s, x)' <=> ForDone(s, x)) /\ (OnTimer(s, x)' <=> OnTimer(s, x))
      /\ \A x \in Tasks : Shared(x)' <=> Shared(x)
  BY <1>0, ListsStay DEF Schedule
<1>2. /\ mpc[m] = "poll" /\ ready[t] > 0 /\ fiber[t] \in {"new", "suspended"}
      /\ \A x \in Tasks : /\ ready'[x] = IF x = t THEN ready[t] - 1 ELSE ready[x]
                          /\ fiber'[x] = IF x = t THEN "running" ELSE fiber[x]
                          /\ ready[x] \in Nat
      /\ \A n \in Machines : /\ mpc'[n] = IF n = m THEN "run" ELSE mpc[n]
                             /\ current'[n] = IF n = m THEN t ELSE current[n]
      /\ UNCHANGED <<waitq, timers, target, id, trigger, wait_for_task>>
  BY <1>0 DEF Schedule, TypeOK
<1>3. /\ \A n \in Machines, x \in Tasks : Holds(n, x)' <=> IF n = m THEN x = t ELSE Holds(n, x)
      /\ \A x \in Tasks : ~Holds(m, x)
  BY <1>2 DEF Holds, Holding
<1>4. \A n \in Machines, x \in Tasks : Spawns(n, x)' <=> Spawns(n, x)
  BY <1>2 DEF Spawns
<1>5. /\ \A x \in Tasks : Returned(x)' <=> Returned(x)
      /\ \A s, x \in Tasks : WaitsFor(s, x)' <=> WaitsFor(s, x)
      /\ \A x \in Tasks : WaitsTimer(x)' <=> WaitsTimer(x)
  BY <1>1, <1>2 DEF Returned, WaitsFor, WaitsTimer
<1>6. OneRunner'
  BY <1>0, <1>2 DEF IInv, OneRunner, Holding
<1>7. Registering'
  BY <1>2 DEF IInv, Registering, DoneTrigger, TimerTrigger, UserTrigger
<1>8. OneSpawn'
  BY <1>1, <1>2, <1>3, <1>4 DEF IInv, OneSpawn, Fresh
<1>9. OneWaiter'
  BY <1>1, <1>2 DEF IInv, OneWaiter
<1>10. Fresh'
  BY <1>2, <1>3, <1>4 DEF IInv, Fresh
<1>11. TimerLists'
  BY <1>1, <1>2, <1>3 DEF IInv, TimerLists, TimerTrigger
<1>12. OnePlace'
  BY <1>1, <1>2, <1>3, <1>5 DEF IInv, OnePlace, InOnePlace
<1>13. BehindTarget'
  BY <1>1, <1>2, <1>3, <1>5 DEF IInv, BehindTarget, DoneTrigger
<1>14. LostShared'
  BY <1>1, <1>2 DEF IInv, LostShared
<1> QED
  BY <1>0, <1>6, <1>7, <1>8, <1>9, <1>10, <1>11, <1>12, <1>13, <1>14 DEF IInv

(* A task that is in the queue while its fiber runs, or after it has         *)
(* returned, was in two places: it is in the list of a user's trigger.      *)
LEMMA ScheduleUndefinedKeeps ==
  ASSUME IInv, NEW m \in Machines, NEW t \in Tasks, ScheduleUndefined(m, t)
  PROVE  IInv'
<1>0. TypeOK /\ TypeOK'
  BY OtherType DEF IInv
<1>1. /\ \A s \in Tasks : DoneList(s)' = DoneList(s) /\ TimerList(s)' = TimerList(s)
      /\ \A s, x \in Tasks : (ForDone(s, x)' <=> ForDone(s, x)) /\ (OnTimer(s, x)' <=> OnTimer(s, x))
      /\ \A x \in Tasks : Shared(x)' <=> Shared(x)
  BY <1>0, ListsStay DEF ScheduleUndefined
<1>2. /\ mpc[m] = "poll" /\ ready[t] > 0 /\ fiber[t] \in {"running", "leaving", "finished"}
      /\ \A x \in Tasks : /\ ready'[x] = IF x = t THEN ready[t] - 1 ELSE ready[x]
                          /\ ready[x] \in Nat
      /\ \A n \in Machines : /\ mpc'[n] = IF n = m THEN "lost" ELSE mpc[n]
                             /\ current'[n] = IF n = m THEN t ELSE current[n]
      /\ UNCHANGED <<waitq, fiber, timers, target, id, trigger, wait_for_task>>
  BY <1>0 DEF ScheduleUndefined, TypeOK, taskVars
<1>3. /\ \A n \in Machines, x \in Tasks : Holds(n, x)' <=> Holds(n, x)
      /\ \A x \in Tasks : ~Holds(m, x)
  BY <1>2 DEF Holds, Holding
<1>4. \A n \in Machines, x \in Tasks : Spawns(n, x)' <=> Spawns(n, x)
  BY <1>2 DEF Spawns
<1>5. /\ \A x \in Tasks : Returned(x)' <=> Returned(x)
      /\ \A s, x \in Tasks : WaitsFor(s, x)' <=> WaitsFor(s, x)
      /\ \A x \in Tasks : WaitsTimer(x)' <=> WaitsTimer(x)
  BY <1>1, <1>2 DEF Returned, WaitsFor, WaitsTimer
<1>6. Shared(t)
  BY <1>2 DEF IInv, OnePlace, InOnePlace
<1>7. OneRunner'
  BY <1>0, <1>2 DEF IInv, OneRunner, Holding
<1>8. Registering'
  BY <1>2 DEF IInv, Registering, DoneTrigger, TimerTrigger, UserTrigger
<1>9. OneSpawn'
  BY <1>1, <1>2, <1>3, <1>4 DEF IInv, OneSpawn, Fresh
<1>10. OneWaiter'
  BY <1>1, <1>2 DEF IInv, OneWaiter
<1>11. Fresh'
  BY <1>2, <1>3, <1>4 DEF IInv, Fresh
<1>12. TimerLists'
  BY <1>1, <1>2, <1>3 DEF IInv, TimerLists, TimerTrigger
<1>13. OnePlace'
  BY <1>1, <1>2, <1>3, <1>5, <1>6 DEF IInv, OnePlace, InOnePlace
<1>14. BehindTarget'
  BY <1>1, <1>2, <1>3, <1>5, <1>6 DEF IInv, BehindTarget, DoneTrigger
<1>15. LostShared'
  BY <1>1, <1>2, <1>6 DEF IInv, LostShared
<1> QED
  BY <1>0, <1>7, <1>8, <1>9, <1>10, <1>11, <1>12, <1>13, <1>14, <1>15 DEF IInv

(* A task that yielded goes from the hands of its machine into the queue. *)
LEMMA RequeueKeeps ==
  ASSUME IInv, NEW m \in Machines, Requeue(m)
  PROVE  IInv'
<1>0. TypeOK /\ TypeOK'
  BY DispatchType DEF IInv, Dispatch
<1>1. /\ \A s \in Tasks : DoneList(s)' = DoneList(s) /\ TimerList(s)' = TimerList(s)
      /\ \A s, x \in Tasks : (ForDone(s, x)' <=> ForDone(s, x)) /\ (OnTimer(s, x)' <=> OnTimer(s, x))
      /\ \A x \in Tasks : Shared(x)' <=> Shared(x)
  BY <1>0, ListsStay DEF Requeue
<1>2. /\ mpc[m] = "ready" /\ current[m] \in Tasks /\ Holds(m, current[m])
      /\ \A x \in Tasks : /\ ready'[x] = ready[x] \/ (x = current[m] /\ ready'[x] = ready[x] + 1)
                          /\ ready[x] \in Nat
      /\ \A n \in Machines : mpc'[n] = IF n = m THEN "poll" ELSE mpc[n]
      /\ UNCHANGED <<waitq, fiber, timers, target, current, id, trigger, wait_for_task>>
  <2>1. current[m] \in Tasks /\ PushHard(current[m])
    BY RunsTask DEF Requeue, Holding
  <2>2. \A x \in Tasks : /\ ready'[x] = ready[x] \/ (x = current[m] /\ ready'[x] = ready[x] + 1)
                         /\ ready[x] \in Nat
    BY <1>0, <2>1, PushHardAdds
  <2> QED
    BY <1>0, <2>1, <2>2 DEF Requeue, TypeOK, taskVars, Holds, Holding
<1>3. \A n \in Machines, x \in Tasks : Holds(n, x)' <=> n # m /\ Holds(n, x)
  BY <1>2 DEF Holds, Holding
<1>4. \A n \in Machines, x \in Tasks : Spawns(n, x)' <=> Spawns(n, x)
  BY <1>2 DEF Spawns
<1>5. /\ \A x \in Tasks : Returned(x)' <=> Returned(x)
      /\ \A s, x \in Tasks : WaitsFor(s, x)' <=> WaitsFor(s, x)
      /\ \A x \in Tasks : WaitsTimer(x)' <=> WaitsTimer(x)
  BY <1>1, <1>2 DEF Returned, WaitsFor, WaitsTimer
<1>6. OneRunner'
  BY <1>0, <1>2 DEF IInv, OneRunner, Holding
<1>7. Registering'
  BY <1>2 DEF IInv, Registering, DoneTrigger, TimerTrigger, UserTrigger
<1>8. OneSpawn'
  BY <1>1, <1>2, <1>3, <1>4 DEF IInv, OneSpawn, Fresh
<1>9. OneWaiter'
  BY <1>1, <1>2 DEF IInv, OneWaiter
<1>10. Fresh'
  BY <1>2, <1>3, <1>4 DEF IInv, Fresh
<1>11. TimerLists'
  BY <1>1, <1>2, <1>3 DEF IInv, TimerLists, TimerTrigger
<1>12. OnePlace'
  BY <1>1, <1>2, <1>3, <1>5 DEF IInv, OnePlace, InOnePlace
<1>13. BehindTarget'
  BY <1>1, <1>2, <1>3, <1>5 DEF IInv, BehindTarget, DoneTrigger
<1>14. LostShared'
  BY <1>1, <1>2 DEF IInv, LostShared
<1> QED
  BY <1>0, <1>6, <1>7, <1>8, <1>9, <1>10, <1>11, <1>12, <1>13, <1>14 DEF IInv

(* What storing a waiter does to the wait queue and to the index. *)
LEMMA StoredFacts ==
  ASSUME IInv, NEW m \in Machines, StoreWaiter(m)
  PROVE  /\ \A n \in Machines \ {m} : id'[n] = id[n]
         /\ \A i \in 1 .. Len(waitq) : waitq'[i] = waitq[i]
         /\ id'[m] >= 0 => waitq'[id'[m] + 1] = current[m]
         /\ \A i \in DOMAIN waitq' :
              waitq'[i] = current[m] \/ (i \in DOMAIN waitq /\ waitq'[i] = waitq[i])
<1>0. TypeOK /\ current[m] \in Tasks /\ waitq \in Seq(Tasks) /\ id \in [Machines -> -1 .. Len(waitq) - 1]
  BY RunsTask DEF IInv, StoreWaiter, Holding, TypeOK
<1>1. Len(waitq) \in Nat /\ DOMAIN waitq = 1 .. Len(waitq)
  BY <1>0, LenProperties
<1>2. CASE Len(waitq) < WaitSize
  <2>1. waitq' = Append(waitq, current[m]) /\ id' = [id EXCEPT ![m] = Len(waitq)] /\ waiters' = waiters
    BY <1>2 DEF StoreWaiter
  <2>2. /\ waitq' \in Seq(Tasks) /\ Len(waitq') = Len(waitq) + 1
        /\ \A i \in 1 .. Len(waitq) : waitq'[i] = waitq[i]
        /\ waitq'[Len(waitq) + 1] = current[m]
    BY <1>0, <1>2, <2>1, LongerQueue
  <2>3. DOMAIN waitq' = 1 .. Len(waitq) + 1
    BY <2>2, LenProperties
  <2>4. id'[m] = Len(waitq) /\ \A n \in Machines \ {m} : id'[n] = id[n]
    BY <1>0, <2>1
  <2>5. ASSUME NEW i \in DOMAIN waitq'
        PROVE  waitq'[i] = current[m] \/ (i \in DOMAIN waitq /\ waitq'[i] = waitq[i])
    <3>1. i = Len(waitq) + 1 \/ i \in 1 .. Len(waitq)
      BY <1>1, <2>3
    <3> QED
      BY <1>1, <2>2, <3>1
  <2> QED
    BY <2>2, <2>4, <2>5
<1>3. CASE ~(Len(waitq) < WaitSize)
  <2>1. waitq' = waitq /\ id' = [id EXCEPT ![m] = -1]
    BY <1>3 DEF StoreWaiter
  <2> QED
    BY <1>0, <1>1, <2>1
<1> QED
  BY <1>2, <1>3

(* A waiting task is stored, or refused by a full wait_queue; nothing points *)
(* to the new entry yet.                                                    *)
LEMMA StoreWaiterKeeps ==
  ASSUME IInv, NEW m \in Machines, StoreWaiter(m)
  PROVE  IInv'
<1>0. TypeOK /\ TypeOK'
  BY DispatchType DEF IInv, Dispatch
<1>1. /\ \A s \in Tasks : DoneList(s)' = DoneList(s) /\ TimerList(s)' = TimerList(s)
      /\ \A s, x \in Tasks : (ForDone(s, x)' <=> ForDone(s, x)) /\ (OnTimer(s, x)' <=> OnTimer(s, x))
      /\ \A x \in Tasks : Shared(x)' <=> Shared(x)
  <2>1. waiters' = waiters
    BY DEF StoreWaiter
  <2>2. \A i \in 1 .. Len(waitq) : waitq'[i] = waitq[i]
    BY StoredFacts
  <2> QED
    BY <1>0, <2>1, <2>2, ListsStay
<1>2. /\ mpc[m] = "waiting" /\ current[m] \in Tasks /\ Holds(m, current[m])
      /\ \A n \in Machines : mpc'[n] = IF n = m THEN "register" ELSE mpc[n]
      /\ UNCHANGED <<ready, fiber, timers, target, current, trigger, wait_for_task>>
  BY <1>0, RunsTask DEF StoreWaiter, TypeOK, taskVars, Holds, Holding
<1>3. \A n \in Machines, x \in Tasks : Holds(n, x)' <=> Holds(n, x)
  BY <1>2 DEF Holds, Holding
<1>4. \A n \in Machines, x \in Tasks : Spawns(n, x)' <=> Spawns(n, x)
  BY <1>2 DEF Spawns
<1>5. /\ \A x \in Tasks : Returned(x)' <=> Returned(x)
      /\ \A s, x \in Tasks : WaitsFor(s, x)' <=> WaitsFor(s, x)
      /\ \A x \in Tasks : WaitsTimer(x)' <=> WaitsTimer(x)
  BY <1>1, <1>2 DEF Returned, WaitsFor, WaitsTimer
<1>6. OneRunner'
  BY <1>0, <1>2 DEF IInv, OneRunner, Holding
<1>7. Registering'
  <2>1. /\ \A n \in Machines \ {m} : id'[n] = id[n]
        /\ \A i \in 1 .. Len(waitq) : waitq'[i] = waitq[i]
        /\ id'[m] >= 0 => waitq'[id'[m] + 1] = current[m]
    BY StoredFacts
  <2>2. ASSUME NEW n \in Machines \ {m}, id[n] >= 0 PROVE waitq'[id[n] + 1] = waitq[id[n] + 1]
    <3>1. id[n] \in -1 .. Len(waitq) - 1 /\ Len(waitq) \in Nat
      BY <1>0, LenProperties DEF TypeOK
    <3> QED
      BY <2>1, <2>2, <3>1
  <2> QED
    BY <1>2, <2>1, <2>2 DEF IInv, Registering, DoneTrigger, TimerTrigger, UserTrigger
<1>8. OneSpawn'
  BY <1>1, <1>2, <1>3, <1>4 DEF IInv, OneSpawn, Fresh
<1>9. OneWaiter'
  BY <1>1, <1>2 DEF IInv, OneWaiter
<1>10. Fresh'
  <2>1. \A i \in DOMAIN waitq' : waitq'[i] = current[m] \/ (i \in DOMAIN waitq /\ waitq'[i] = waitq[i])
    BY StoredFacts
  <2> QED
    BY <1>2, <1>3, <1>4, <2>1 DEF IInv, Fresh
<1>11. TimerLists'
  BY <1>1, <1>2, <1>3 DEF IInv, TimerLists, TimerTrigger
<1>12. OnePlace'
  BY <1>1, <1>2, <1>3, <1>5 DEF IInv, OnePlace, InOnePlace
<1>13. BehindTarget'
  BY <1>1, <1>2, <1>3, <1>5 DEF IInv, BehindTarget, DoneTrigger
<1>14. LostShared'
  BY <1>1, <1>2 DEF IInv, LostShared
<1> QED
  BY <1>0, <1>6, <1>7, <1>8, <1>9, <1>10, <1>11, <1>12, <1>13, <1>14 DEF IInv

(* A task that has not run is in no list. *)
LEMMA FreshUnlisted ==
  ASSUME IInv, NEW t \in Tasks, fiber[t] \in {"unborn", "new"}
  PROVE  /\ ~Shared(t)
         /\ \A s \in Tasks : ~ForDone(s, t) /\ ~OnTimer(s, t)
<1>1. \A i \in DOMAIN waitq : waitq[i] # t
  BY DEF IInv, Fresh
<1>2. ASSUME NEW g \in Triggers, NEW j \in DOMAIN waiters[g], waiters[g][j] >= 0
      PROVE  waitq[waiters[g][j] + 1] # t
  <2>1. Len(waitq) \in Nat /\ DOMAIN waitq = 1 .. Len(waitq)
    BY LenProperties DEF IInv, TypeOK
  <2>2. waiters[g][j] \in -1 .. Len(waitq) - 1
    BY ElementOfSeq, LenProperties DEF IInv, TypeOK
  <2>3. waiters[g][j] + 1 \in DOMAIN waitq
    BY <1>2, <2>1, <2>2
  <2> QED
    BY <1>1, <2>3
<1>3. \A g \in Triggers : ~Listed(g, t)
  BY <1>2 DEF Listed
<1>4. \A u \in Users : ~Listed(UserTrigger(u), t)
  BY <1>3, TriggersApart
<1> QED
  BY <1>3, <1>4, TriggersApart, Zenon DEF Shared, ForDone, OnTimer, Listed

(* A task that await(func) made is submitted: no machine had it, no list. *)
LEMMA SpawnKeeps ==
  ASSUME IInv, NEW m \in Machines, Spawn(m)
  PROVE  IInv'
<1>0. TypeOK /\ TypeOK'
  BY DispatchType DEF IInv, Dispatch
<1>1. /\ \A s \in Tasks : DoneList(s)' = DoneList(s) /\ TimerList(s)' = TimerList(s)
      /\ \A s, x \in Tasks : (ForDone(s, x)' <=> ForDone(s, x)) /\ (OnTimer(s, x)' <=> OnTimer(s, x))
      /\ \A x \in Tasks : Shared(x)' <=> Shared(x)
  BY <1>0, ListsStay DEF Spawn
<1>2. /\ mpc[m] = "spawn" /\ wait_for_task[m] \in Tasks /\ Spawns(m, wait_for_task[m])
      /\ \A x \in Tasks : /\ ready'[x] = ready[x] \/ (x = wait_for_task[m] /\ ready'[x] = ready[x] + 1)
                          /\ ready[x] \in Nat
      /\ \A n \in Machines : mpc'[n] = IF n = m THEN "poll" ELSE mpc[n]
      /\ UNCHANGED <<waitq, fiber, timers, target, current, id, trigger, wait_for_task>>
  <2>1. wait_for_task[m] \in Tasks /\ PushHard(wait_for_task[m])
    BY DEF Spawn, IInv, Registering
  <2>2. \A x \in Tasks : /\ ready'[x] = ready[x] \/ (x = wait_for_task[m] /\ ready'[x] = ready[x] + 1)
                         /\ ready[x] \in Nat
    BY <1>0, <2>1, PushHardAdds
  <2> QED
    BY <1>0, <2>1, <2>2 DEF Spawn, TypeOK, taskVars, Spawns
<1>3. \A n \in Machines, x \in Tasks : Holds(n, x)' <=> Holds(n, x)
  BY <1>2 DEF Holds, Holding
<1>4. \A n \in Machines, x \in Tasks : Spawns(n, x)' <=> n # m /\ Spawns(n, x)
  BY <1>2 DEF Spawns
<1>5. /\ \A x \in Tasks : Returned(x)' <=> Returned(x)
      /\ \A s, x \in Tasks : WaitsFor(s, x)' <=> WaitsFor(s, x)
      /\ \A x \in Tasks : WaitsTimer(x)' <=> WaitsTimer(x)
  BY <1>1, <1>2 DEF Returned, WaitsFor, WaitsTimer
<1>6. /\ fiber[wait_for_task[m]] = "new" /\ ready[wait_for_task[m]] = 0
      /\ \A n \in Machines : ~Holds(n, wait_for_task[m])
      /\ \A s \in Tasks : ~WaitsFor(s, wait_for_task[m])
      /\ ~WaitsTimer(wait_for_task[m])
  BY <1>2, FreshUnlisted DEF IInv, OneSpawn, Fresh, WaitsFor, WaitsTimer
<1>7. OneRunner'
  BY <1>0, <1>2 DEF IInv, OneRunner, Holding
<1>8. Registering'
  BY <1>2 DEF IInv, Registering, DoneTrigger, TimerTrigger, UserTrigger
<1>9. OneSpawn'
  BY <1>1, <1>2, <1>3, <1>4 DEF IInv, OneSpawn, Fresh
<1>10. OneWaiter'
  BY <1>1, <1>2 DEF IInv, OneWaiter
<1>11. Fresh'
  BY <1>2, <1>3, <1>4, <1>6 DEF IInv, Fresh
<1>12. TimerLists'
  BY <1>1, <1>2, <1>3 DEF IInv, TimerLists, TimerTrigger
<1>13. OnePlace'
  BY <1>1, <1>2, <1>3, <1>5, <1>6 DEF IInv, OnePlace, InOnePlace
<1>14. BehindTarget'
  BY <1>1, <1>2, <1>3, <1>5, <1>6 DEF IInv, BehindTarget, DoneTrigger
<1>15. LostShared'
  BY <1>1, <1>2 DEF IInv, LostShared
<1> QED
  BY <1>0, <1>7, <1>8, <1>9, <1>10, <1>11, <1>12, <1>13, <1>14, <1>15 DEF IInv

-----------------------------------------------------------------------------
(* The calls of a body *)

(* A task whose body runs is in the hands of one machine and nowhere else,  *)
(* unless a user's trigger lists it.                                        *)
LEMMA BodyHolds ==
  ASSUME IInv, NEW m \in Machines, mpc[m] = "run"
  PROVE  /\ current[m] \in Tasks /\ Holds(m, current[m])
         /\ fiber[current[m]] \in {"running", "leaving"}
         /\ \A n \in Machines : mpc[n] = "run" /\ current[n] = current[m] => n = m
         /\ ~Shared(current[m]) => /\ ready[current[m]] = 0
                                   /\ \A n \in Machines : Holds(n, current[m]) => n = m
                                   /\ \A s \in Tasks : ~WaitsFor(s, current[m])
                                   /\ ~WaitsTimer(current[m])
<1>1. current[m] \in Tasks /\ Holds(m, current[m])
  BY RunsTask DEF Holding, Holds
<1>2. ready[current[m]] \in Nat
  BY <1>1 DEF IInv, TypeOK
<1>3. ~Shared(current[m]) => /\ ready[current[m]] <= 1 /\ ready[current[m]] # 1
                             /\ \A n \in Machines : Holds(n, current[m]) => n = m
                             /\ \A s \in Tasks : ~WaitsFor(s, current[m])
                             /\ ~WaitsTimer(current[m])
  BY <1>1, Zenon DEF IInv, OnePlace, InOnePlace
<1> QED
  BY <1>1, <1>2, <1>3 DEF IInv, OneRunner

(* A body that yields stays in the hands of its machine, suspended. *)
LEMMA YieldKeeps ==
  ASSUME IInv, NEW m \in Machines, yield(m)
  PROVE  IInv'
<1>0. TypeOK /\ TypeOK'
  BY BodyType DEF IInv, Body
<1>1. /\ \A s \in Tasks : DoneList(s)' = DoneList(s) /\ TimerList(s)' = TimerList(s)
      /\ \A s, x \in Tasks : (ForDone(s, x)' <=> ForDone(s, x)) /\ (OnTimer(s, x)' <=> OnTimer(s, x))
      /\ \A x \in Tasks : Shared(x)' <=> Shared(x)
  BY <1>0, ListsStay DEF yield
<1>2. /\ mpc[m] = "run" /\ current[m] \in Tasks /\ fiber[current[m]] = "running"
      /\ \A x \in Tasks : fiber'[x] = IF x = current[m] THEN "suspended" ELSE fiber[x]
      /\ \A n \in Machines : mpc'[n] = IF n = m THEN "ready" ELSE mpc[n]
      /\ UNCHANGED <<ready, waitq, timers, target, current, id, trigger, wait_for_task>>
  BY <1>0, RunsTask DEF yield, Running, Suspend, TypeOK, Holding
<1>3. /\ \A n \in Machines, x \in Tasks : Holds(n, x)' <=> Holds(n, x)
      /\ \A x \in Tasks : Holds(m, x) <=> x = current[m]
  BY <1>2 DEF Holds, Holding
<1>4. \A n \in Machines, x \in Tasks : Spawns(n, x)' <=> Spawns(n, x)
  BY <1>2 DEF Spawns
<1>5. /\ \A x \in Tasks : Returned(x)' <=> Returned(x)
      /\ \A s, x \in Tasks : WaitsFor(s, x)' <=> WaitsFor(s, x)
      /\ \A x \in Tasks : WaitsTimer(x)' <=> WaitsTimer(x)
  BY <1>1, <1>2 DEF Returned, WaitsFor, WaitsTimer
<1>6. /\ fiber[current[m]] \in {"running", "leaving"}
      /\ \A n \in Machines : mpc[n] = "run" /\ current[n] = current[m] => n = m
      /\ ~Shared(current[m]) => /\ ready[current[m]] = 0
                                /\ \A n \in Machines : Holds(n, current[m]) => n = m
                                /\ \A s \in Tasks : ~WaitsFor(s, current[m])
                                /\ ~WaitsTimer(current[m])
  BY <1>2, BodyHolds
<1>7. OneRunner'
  BY <1>0, <1>2, <1>6 DEF IInv, OneRunner, Holding
<1>8. Registering'
  BY <1>2 DEF IInv, Registering, DoneTrigger, TimerTrigger, UserTrigger
<1>9. OneSpawn'
  BY <1>1, <1>2, <1>3, <1>4 DEF IInv, OneSpawn, Fresh
<1>10. OneWaiter'
  BY <1>1, <1>2 DEF IInv, OneWaiter
<1>11. Fresh'
  BY <1>2, <1>3, <1>4 DEF IInv, Fresh
<1>12. TimerLists'
  BY <1>1, <1>2, <1>3 DEF IInv, TimerLists, TimerTrigger
<1>13. OnePlace'
  <2> SUFFICES ASSUME NEW x \in Tasks, ~Shared(x)' PROVE InOnePlace(x)'
    BY DEF OnePlace
  <2>1. CASE x = current[m]
    BY <1>1, <1>2, <1>3, <1>5, <1>6, <2>1 DEF InOnePlace
  <2>2. CASE x # current[m]
    <3>1. InOnePlace(x)
      BY <1>1 DEF IInv, OnePlace
    <3> QED
      BY <1>1, <1>2, <1>3, <1>5, <2>2, <3>1 DEF InOnePlace
  <2> QED
    BY <2>1, <2>2
<1>14. BehindTarget'
  BY <1>1, <1>2, <1>3, <1>5, <1>6 DEF IInv, BehindTarget, DoneTrigger
<1>15. LostShared'
  BY <1>1, <1>2 DEF IInv, LostShared
<1> QED
  BY <1>0, <1>7, <1>8, <1>9, <1>10, <1>11, <1>12, <1>13, <1>14, <1>15 DEF IInv

(* go submits a task that was nowhere before. *)
LEMMA GoKeeps ==
  ASSUME IInv, NEW m \in Machines, NEW t \in Tasks, go(m, t)
  PROVE  IInv'
<1>0. TypeOK /\ TypeOK'
  BY BodyType DEF IInv, Body
<1>1. /\ \A s \in Tasks : DoneList(s)' = DoneList(s) /\ TimerList(s)' = TimerList(s)
      /\ \A s, x \in Tasks : (ForDone(s, x)' <=> ForDone(s, x)) /\ (OnTimer(s, x)' <=> OnTimer(s, x))
      /\ \A x \in Tasks : Shared(x)' <=> Shared(x)
  BY <1>0, ListsStay DEF go
<1>2. /\ fiber[t] = "unborn"
      /\ \A x \in Tasks : /\ fiber'[x] = IF x = t THEN "new" ELSE fiber[x]
                          /\ ready'[x] = ready[x] \/ (x = t /\ ready'[x] = ready[x] + 1)
                          /\ ready[x] \in Nat
      /\ UNCHANGED <<waitq, timers, target, mpc, current, id, trigger, wait_for_task>>
  <2>1. PushHard(t)
    BY DEF go
  <2>2. \A x \in Tasks : /\ ready'[x] = ready[x] \/ (x = t /\ ready'[x] = ready[x] + 1)
                         /\ ready[x] \in Nat
    BY <1>0, <2>1, PushHardAdds
  <2> QED
    BY <1>0, <2>2 DEF go, TypeOK, machineVars
<1>3. \A n \in Machines, x \in Tasks : Holds(n, x)' <=> Holds(n, x)
  BY <1>2 DEF Holds, Holding
<1>4. \A n \in Machines, x \in Tasks : Spawns(n, x)' <=> Spawns(n, x)
  BY <1>2 DEF Spawns
<1>5. /\ \A x \in Tasks : Returned(x)' <=> Returned(x)
      /\ \A s, x \in Tasks : WaitsFor(s, x)' <=> WaitsFor(s, x)
      /\ \A x \in Tasks : WaitsTimer(x)' <=> WaitsTimer(x)
  BY <1>1, <1>2 DEF Returned, WaitsFor, WaitsTimer
<1>6. /\ ready[t] = 0 /\ \A n \in Machines : ~Holds(n, t) /\ ~Spawns(n, t)
      /\ \A s \in Tasks : ~WaitsFor(s, t)
      /\ ~WaitsTimer(t)
  BY <1>2, FreshUnlisted DEF IInv, Fresh, WaitsFor, WaitsTimer
<1>7. OneRunner'
  BY <1>0, <1>2, <1>3, <1>6 DEF IInv, OneRunner, Holding
<1>8. Registering'
  BY <1>2 DEF IInv, Registering, DoneTrigger, TimerTrigger, UserTrigger
<1>9. OneSpawn'
  BY <1>1, <1>2, <1>3, <1>4, <1>6 DEF IInv, OneSpawn, Fresh
<1>10. OneWaiter'
  BY <1>1, <1>2 DEF IInv, OneWaiter
<1>11. Fresh'
  BY <1>2, <1>3, <1>4, <1>6 DEF IInv, Fresh
<1>12. TimerLists'
  BY <1>1, <1>2, <1>3 DEF IInv, TimerLists, TimerTrigger
<1>13. OnePlace'
  <2> SUFFICES ASSUME NEW x \in Tasks, ~Shared(x)' PROVE InOnePlace(x)'
    BY DEF OnePlace
  <2>1. CASE x = t
    BY <1>1, <1>2, <1>3, <1>5, <1>6, <2>1 DEF InOnePlace
  <2>2. CASE x # t
    <3>1. InOnePlace(x)
      BY <1>1 DEF IInv, OnePlace
    <3> QED
      BY <1>1, <1>2, <1>3, <1>5, <2>2, <3>1 DEF InOnePlace
  <2> QED
    BY <2>1, <2>2
<1>14. BehindTarget'
  BY <1>1, <1>2, <1>3, <1>5, <1>6 DEF IInv, BehindTarget, DoneTrigger
<1>15. LostShared'
  BY <1>1, <1>2 DEF IInv, LostShared
<1> QED
  BY <1>0, <1>7, <1>8, <1>9, <1>10, <1>11, <1>12, <1>13, <1>14, <1>15 DEF IInv

(* await(func) makes a task that was nowhere before; its caller goes on the *)
(* way into the list of a trigger that has no waiter yet.                   *)
LEMMA AwaitFuncKeeps ==
  ASSUME IInv, NEW m \in Machines, NEW t \in Tasks, AwaitFunc(m, t)
  PROVE  IInv'
<1>0. TypeOK /\ TypeOK'
  BY BodyType DEF IInv, Body
<1>1. /\ \A s \in Tasks : DoneList(s)' = DoneList(s) /\ TimerList(s)' = TimerList(s)
      /\ \A s, x \in Tasks : (ForDone(s, x)' <=> ForDone(s, x)) /\ (OnTimer(s, x)' <=> OnTimer(s, x))
      /\ \A x \in Tasks : Shared(x)' <=> Shared(x)
  BY <1>0, ListsStay DEF AwaitFunc
<1>2. /\ mpc[m] = "run" /\ current[m] \in Tasks /\ fiber[current[m]] = "running" /\ fiber[t] = "unborn"
      /\ \A x \in Tasks : /\ fiber'[x] = IF x = t THEN "new" ELSE IF x = current[m] THEN "suspended" ELSE fiber[x]
                          /\ target'[x] = IF x = current[m] THEN t ELSE target[x]
      /\ \A n \in Machines : /\ mpc'[n] = IF n = m THEN "waiting" ELSE mpc[n]
                             /\ trigger'[n] = IF n = m THEN DoneTrigger(t) ELSE trigger[n]
                             /\ wait_for_task'[n] = IF n = m THEN t ELSE wait_for_task[n]
      /\ UNCHANGED <<ready, waitq, timers, current, id>>
  BY <1>0, RunsTask, SMTT(30) DEF AwaitFunc, Running, Suspend, TypeOK, Holding
<1>3. /\ \A n \in Machines, x \in Tasks : Holds(n, x)' <=> Holds(n, x)
      /\ \A x \in Tasks : Holds(m, x) <=> x = current[m]
  BY <1>2 DEF Holds, Holding
<1>4. \A n \in Machines, x \in Tasks : Spawns(n, x)' <=> IF n = m THEN x = t ELSE Spawns(n, x)
  BY <1>2 DEF Spawns
<1>5. /\ \A x \in Tasks : Returned(x)' <=> Returned(x)
      /\ \A s, x \in Tasks : WaitsFor(s, x)' <=> WaitsFor(s, x)
      /\ \A x \in Tasks : WaitsTimer(x)' <=> WaitsTimer(x)
  BY <1>1, <1>2 DEF Returned, WaitsFor, WaitsTimer
<1>6. /\ fiber[current[m]] \in {"running", "leaving"}
      /\ \A n \in Machines : mpc[n] = "run" /\ current[n] = current[m] => n = m
      /\ ~Shared(current[m]) => /\ ready[current[m]] = 0
                                /\ \A n \in Machines : Holds(n, current[m]) => n = m
                                /\ \A s \in Tasks : ~WaitsFor(s, current[m])
                                /\ ~WaitsTimer(current[m])
  BY <1>2, BodyHolds
<1>7. /\ ready[t] = 0 /\ \A n \in Machines : ~Holds(n, t) /\ ~Spawns(n, t)
      /\ \A s \in Tasks : ~WaitsFor(s, t)
      /\ ~WaitsTimer(t)
      /\ DoneList(t) = << >>
  BY <1>2, FreshUnlisted DEF IInv, Fresh, WaitsFor, WaitsTimer, OneWaiter
<1>8. OneRunner'
  BY <1>0, <1>2, <1>3, <1>6, <1>7 DEF IInv, OneRunner, Holding
<1>9. Registering'
  BY <1>2, TasksAssumption DEF IInv, Registering, DoneTrigger, TimerTrigger, UserTrigger
<1>10. OneSpawn'
  BY <1>1, <1>2, <1>3, <1>4, <1>6, <1>7 DEF IInv, OneSpawn, Fresh
<1>11. OneWaiter'
  BY <1>1, <1>2 DEF IInv, OneWaiter
<1>12. Fresh'
  BY <1>2, <1>3, <1>4, <1>7 DEF IInv, Fresh
<1>13. TimerLists'
  BY <1>1, <1>2, <1>3, TriggersApart DEF IInv, TimerLists, TimerTrigger, DoneTrigger
<1>14. OnePlace'
  <2> SUFFICES ASSUME NEW x \in Tasks, ~Shared(x)' PROVE InOnePlace(x)'
    BY DEF OnePlace
  <2>1. CASE x = current[m]
    BY <1>1, <1>2, <1>3, <1>5, <1>6, <1>7, <2>1 DEF InOnePlace
  <2>2. CASE x # current[m]
    <3>1. InOnePlace(x)
      BY <1>1 DEF IInv, OnePlace
    <3> QED
      BY <1>1, <1>2, <1>3, <1>5, <1>7, <2>2, <3>1 DEF InOnePlace
  <2> QED
    BY <2>1, <2>2
<1>15. BehindTarget'
  BY <1>1, <1>2, <1>3, <1>5, <1>6, <1>7, TasksAssumption DEF IInv, BehindTarget, DoneTrigger
<1>16. LostShared'
  BY <1>1, <1>2 DEF IInv, LostShared
<1> QED
  BY <1>0, <1>8, <1>9, <1>10, <1>11, <1>12, <1>13, <1>14, <1>15, <1>16 DEF IInv

(* await(trigger): the caller is on its way into the list of the trigger. *)
LEMMA AwaitTriggerKeeps ==
  ASSUME IInv, NEW m \in Machines, NEW u \in Users, AwaitTrigger(m, u)
  PROVE  IInv'
<1>0. TypeOK /\ TypeOK'
  BY BodyType DEF IInv, Body
<1>1. /\ \A s \in Tasks : DoneList(s)' = DoneList(s) /\ TimerList(s)' = TimerList(s)
      /\ \A s, x \in Tasks : (ForDone(s, x)' <=> ForDone(s, x)) /\ (OnTimer(s, x)' <=> OnTimer(s, x))
      /\ \A x \in Tasks : Shared(x)' <=> Shared(x)
  BY <1>0, ListsStay DEF AwaitTrigger
<1>2. /\ mpc[m] = "run" /\ current[m] \in Tasks /\ fiber[current[m]] = "running"
      /\ \A x \in Tasks : /\ fiber'[x] = IF x = current[m] THEN "suspended" ELSE fiber[x]
                          /\ target'[x] = IF x = current[m] THEN NoTask ELSE target[x]
      /\ \A n \in Machines : /\ mpc'[n] = IF n = m THEN "waiting" ELSE mpc[n]
                             /\ trigger'[n] = IF n = m THEN UserTrigger(u) ELSE trigger[n]
                             /\ wait_for_task'[n] = IF n = m THEN NoTask ELSE wait_for_task[n]
      /\ UNCHANGED <<ready, waitq, timers, current, id>>
  BY <1>0, RunsTask DEF AwaitTrigger, Running, Suspend, TypeOK, Holding
<1>3. /\ \A n \in Machines, x \in Tasks : Holds(n, x)' <=> Holds(n, x)
      /\ \A x \in Tasks : Holds(m, x) <=> x = current[m]
  BY <1>2 DEF Holds, Holding
<1>4. \A n \in Machines, x \in Tasks : Spawns(n, x)' <=> Spawns(n, x)
  BY <1>2, TasksAssumption DEF Spawns
<1>5. /\ \A x \in Tasks : Returned(x)' <=> Returned(x)
      /\ \A s, x \in Tasks : WaitsFor(s, x)' <=> WaitsFor(s, x)
      /\ \A x \in Tasks : WaitsTimer(x)' <=> WaitsTimer(x)
  BY <1>1, <1>2 DEF Returned, WaitsFor, WaitsTimer
<1>6. /\ fiber[current[m]] \in {"running", "leaving"}
      /\ \A n \in Machines : mpc[n] = "run" /\ current[n] = current[m] => n = m
      /\ ~Shared(current[m]) => /\ ready[current[m]] = 0
                                /\ \A n \in Machines : Holds(n, current[m]) => n = m
                                /\ \A s \in Tasks : ~WaitsFor(s, current[m])
                                /\ ~WaitsTimer(current[m])
  BY <1>2, BodyHolds
<1>7. OneRunner'
  BY <1>0, <1>2, <1>6 DEF IInv, OneRunner, Holding
<1>8. Registering'
  BY <1>2, TasksAssumption DEF IInv, Registering, DoneTrigger, TimerTrigger, UserTrigger
<1>9. OneSpawn'
  BY <1>1, <1>2, <1>3, <1>4 DEF IInv, OneSpawn, Fresh
<1>10. OneWaiter'
  BY <1>1, <1>2 DEF IInv, OneWaiter
<1>11. Fresh'
  BY <1>2, <1>3, <1>4 DEF IInv, Fresh
<1>12. TimerLists'
  BY <1>1, <1>2, <1>3, TriggersApart DEF IInv, TimerLists, TimerTrigger, UserTrigger
<1>13. OnePlace'
  <2> SUFFICES ASSUME NEW x \in Tasks, ~Shared(x)' PROVE InOnePlace(x)'
    BY DEF OnePlace
  <2>1. CASE x = current[m]
    BY <1>1, <1>2, <1>3, <1>5, <1>6, <2>1 DEF InOnePlace
  <2>2. CASE x # current[m]
    <3>1. InOnePlace(x)
      BY <1>1 DEF IInv, OnePlace
    <3> QED
      BY <1>1, <1>2, <1>3, <1>5, <2>2, <3>1 DEF InOnePlace
  <2> QED
    BY <2>1, <2>2
<1>14. BehindTarget'
  BY <1>1, <1>2, <1>3, <1>5, <1>6, TasksAssumption DEF IInv, BehindTarget, DoneTrigger
<1>15. LostShared'
  BY <1>1, <1>2 DEF IInv, LostShared
<1> QED
  BY <1>0, <1>7, <1>8, <1>9, <1>10, <1>11, <1>12, <1>13, <1>14, <1>15 DEF IInv

(* A fresh timer trigger has no waiters; the other lists stay. *)
LEMMA TimerListCleared ==
  ASSUME TypeOK, NEW t \in Tasks, NewTrigger(TimerTrigger(t)), waitq' = waitq
  PROVE  /\ \A s \in Tasks : /\ DoneList(s)' = DoneList(s)
                             /\ TimerList(s)' = IF s = t THEN << >> ELSE TimerList(s)
         /\ \A s, x \in Tasks : /\ ForDone(s, x)' <=> ForDone(s, x)
                                /\ OnTimer(s, x)' <=> s # t /\ OnTimer(s, x)
         /\ \A x \in Tasks : Shared(x)' <=> Shared(x)
<1>1. /\ \A g \in Triggers : g # TimerTrigger(t) => waiters'[g] = waiters[g]
      /\ waiters'[TimerTrigger(t)] = << >>
  BY TriggersApart DEF NewTrigger, TypeOK
<1>2. \A g \in Triggers, x \in Tasks : g # TimerTrigger(t) => (Listed(g, x)' <=> Listed(g, x))
  BY <1>1 DEF Listed
<1>3. \A s \in Tasks : /\ DoneList(s)' = DoneList(s)
                       /\ TimerList(s)' = IF s = t THEN << >> ELSE TimerList(s)
  BY <1>1, TriggersApart DEF DoneList, TimerList, DoneTrigger, TimerTrigger
<1>4. \A s, x \in Tasks : /\ ForDone(s, x)' <=> ForDone(s, x)
                          /\ OnTimer(s, x)' <=> s # t /\ OnTimer(s, x)
  BY <1>1, TriggersApart DEF ForDone, OnTimer, Listed, DoneTrigger, TimerTrigger
<1>5. \A x \in Tasks : Shared(x)' <=> Shared(x)
  <2> DEFINE ForUser(u, x) == Listed(UserTrigger(u), x)
  <2>1. \A u \in Users, x \in Tasks : ForUser(u, x)' <=> ForUser(u, x)
    BY <1>1, TriggersApart DEF Listed, UserTrigger
  <2>2. \A x \in Tasks : Shared(x) <=> \E u \in Users : ForUser(u, x)
    BY DEF Shared, Listed
  <2>3. \A x \in Tasks : Shared(x)' <=> \E u \in Users : ForUser(u, x)'
    BY DEF Shared, Listed, UserTrigger
  <2> HIDE DEF ForUser
  <2> QED
    BY <2>1, <2>2, <2>3
<1> QED
  BY <1>3, <1>4, <1>5

(* await(seconds): the timer is armed before the caller is in the list of   *)
(* the fresh trigger.                                                       *)
LEMMA AwaitTimerKeeps ==
  ASSUME IInv, NEW m \in Machines, AwaitTimer(m)
  PROVE  IInv'
<1>0. TypeOK /\ TypeOK'
  BY BodyType DEF IInv, Body
<1>1. /\ \A s \in Tasks : /\ DoneList(s)' = DoneList(s)
                          /\ TimerList(s)' = IF s = current[m] THEN << >> ELSE TimerList(s)
      /\ \A s, x \in Tasks : /\ ForDone(s, x)' <=> ForDone(s, x)
                             /\ OnTimer(s, x)' <=> s # current[m] /\ OnTimer(s, x)
      /\ \A x \in Tasks : Shared(x)' <=> Shared(x)
  <2>1. current[m] \in Tasks
    BY RunsTask DEF AwaitTimer, Running, Holding
  <2>2. PICK t \in Tasks : current[m] = t
    BY <2>1
  <2>3. NewTrigger(TimerTrigger(t)) /\ waitq' = waitq
    BY <2>2 DEF AwaitTimer
  <2> QED
    BY <1>0, <2>2, <2>3, TimerListCleared
<1>2. /\ mpc[m] = "run" /\ current[m] \in Tasks /\ fiber[current[m]] = "running"
      /\ \A x \in Tasks : /\ fiber'[x] = IF x = current[m] THEN "suspended" ELSE fiber[x]
                          /\ target'[x] = IF x = current[m] THEN NoTask ELSE target[x]
      /\ \A n \in Machines : /\ mpc'[n] = IF n = m THEN "waiting" ELSE mpc[n]
                             /\ trigger'[n] = IF n = m THEN TimerTrigger(current[m]) ELSE trigger[n]
                             /\ wait_for_task'[n] = IF n = m THEN NoTask ELSE wait_for_task[n]
      /\ UNCHANGED <<ready, waitq, current, id>>
      /\ timers' = timers \cup {current[m]}
  BY <1>0, RunsTask DEF AwaitTimer, Running, Suspend, ArmTimer, TypeOK, Holding
<1>3. /\ \A n \in Machines, x \in Tasks : Holds(n, x)' <=> Holds(n, x)
      /\ \A x \in Tasks : Holds(m, x) <=> x = current[m]
  BY <1>2 DEF Holds, Holding
<1>4. \A n \in Machines, x \in Tasks : Spawns(n, x)' <=> Spawns(n, x)
  BY <1>2, TasksAssumption DEF Spawns
<1>5. /\ \A x \in Tasks : Returned(x)' <=> Returned(x)
      /\ \A s, x \in Tasks : WaitsFor(s, x)' <=> WaitsFor(s, x)
      /\ \A x \in Tasks : WaitsTimer(x)' <=> x # current[m] /\ WaitsTimer(x)
  BY <1>1, <1>2 DEF Returned, WaitsFor, WaitsTimer
<1>6. /\ fiber[current[m]] \in {"running", "leaving"}
      /\ \A n \in Machines : mpc[n] = "run" /\ current[n] = current[m] => n = m
      /\ ~Shared(current[m]) => /\ ready[current[m]] = 0
                                /\ \A n \in Machines : Holds(n, current[m]) => n = m
                                /\ \A s \in Tasks : ~WaitsFor(s, current[m])
                                /\ ~WaitsTimer(current[m])
  BY <1>2, BodyHolds
<1>7. OneRunner'
  BY <1>0, <1>2, <1>6 DEF IInv, OneRunner, Holding
<1>8. Registering'
  BY <1>2, TasksAssumption DEF IInv, Registering, DoneTrigger, TimerTrigger, UserTrigger
<1>9. OneSpawn'
  BY <1>1, <1>2, <1>3, <1>4 DEF IInv, OneSpawn, Fresh
<1>10. OneWaiter'
  BY <1>1, <1>2 DEF IInv, OneWaiter
<1>11. Fresh'
  BY <1>2, <1>3, <1>4 DEF IInv, Fresh
<1>12. TimerLists'
  <2> SUFFICES ASSUME NEW t \in Tasks
               PROVE  /\ \A x \in Tasks : OnTimer(t, x)' => x = t
                      /\ ~Shared(t)' =>
                           /\ Len(TimerList(t)') <= 1
                           /\ \A n \in Machines :
                                Holds(n, t)' /\ mpc'[n] \in {"waiting", "register"} /\ trigger'[n] = TimerTrigger(t)
                                  => TimerList(t)' = << >>
    BY DEF TimerLists, TimerTrigger
  <2>1. CASE t = current[m]
    BY <1>1, <2>1
  <2>2. CASE t # current[m]
    BY <1>1, <1>2, <1>3, <2>2, TriggersApart DEF IInv, TimerLists, TimerTrigger
  <2> QED
    BY <2>1, <2>2
<1>13. OnePlace'
  <2> SUFFICES ASSUME NEW x \in Tasks, ~Shared(x)' PROVE InOnePlace(x)'
    BY DEF OnePlace
  <2>1. CASE x = current[m]
    BY <1>1, <1>2, <1>3, <1>5, <1>6, <2>1 DEF InOnePlace
  <2>2. CASE x # current[m]
    <3>1. InOnePlace(x)
      BY <1>1 DEF IInv, OnePlace
    <3> QED
      BY <1>1, <1>2, <1>3, <1>5, <2>2, <3>1 DEF InOnePlace
  <2> QED
    BY <2>1, <2>2
<1>14. BehindTarget'
  BY <1>1, <1>2, <1>3, <1>5, <1>6, TasksAssumption DEF IInv, BehindTarget, DoneTrigger
<1>15. LostShared'
  BY <1>1, <1>2 DEF IInv, LostShared
<1> QED
  BY <1>0, <1>7, <1>8, <1>9, <1>10, <1>11, <1>12, <1>13, <1>14, <1>15 DEF IInv

(* notify of a user's trigger resubmits tasks of its list only. *)
LEMMA NotifyTriggerKeeps ==
  ASSUME IInv, NEW m \in Machines, NEW u \in Users, NotifyTrigger(m, u)
  PROVE  IInv'
<1>0. TypeOK /\ TypeOK'
  BY BodyType DEF IInv, Body
<1>1. /\ \A s \in Tasks : DoneList(s)' = DoneList(s) /\ TimerList(s)' = TimerList(s)
      /\ \A s, x \in Tasks : (ForDone(s, x)' <=> ForDone(s, x)) /\ (OnTimer(s, x)' <=> OnTimer(s, x))
      /\ \A x \in Tasks : Shared(x)' <=> Shared(x)
  BY <1>0, ListsStay DEF NotifyTrigger
<1>2. /\ \A x \in Tasks : ~Shared(x) => ready'[x] = ready[x]
      /\ UNCHANGED <<waitq, fiber, timers, target, mpc, current, id, trigger, wait_for_task>>
  <2>1. UserTrigger(u) \in Triggers /\ notify(UserTrigger(u))
    BY TriggersApart DEF NotifyTrigger
  <2>2. \A x \in Tasks : ~Listed(UserTrigger(u), x) => ready'[x] = ready[x]
    BY <1>0, <2>1, NotifyAdds
  <2>3. \A x \in Tasks : ~Shared(x) => ~Listed(UserTrigger(u), x)
    BY DEF Shared, Listed
  <2> QED
    BY <2>2, <2>3 DEF NotifyTrigger, machineVars
<1>3. \A n \in Machines, x \in Tasks : Holds(n, x)' <=> Holds(n, x)
  BY <1>2 DEF Holds, Holding
<1>4. \A n \in Machines, x \in Tasks : Spawns(n, x)' <=> Spawns(n, x)
  BY <1>2 DEF Spawns
<1>5. /\ \A x \in Tasks : Returned(x)' <=> Returned(x)
      /\ \A s, x \in Tasks : WaitsFor(s, x)' <=> WaitsFor(s, x)
      /\ \A x \in Tasks : WaitsTimer(x)' <=> WaitsTimer(x)
  BY <1>1, <1>2 DEF Returned, WaitsFor, WaitsTimer
<1>6. \A x \in Tasks : fiber[x] \in {"unborn", "new"} => ready'[x] = ready[x]
  BY <1>2, FreshUnlisted
<1>7. OneRunner'
  BY <1>0, <1>2 DEF IInv, OneRunner, Holding
<1>8. Registering'
  BY <1>2 DEF IInv, Registering, DoneTrigger, TimerTrigger, UserTrigger
<1>9. OneSpawn'
  BY <1>1, <1>2, <1>3, <1>4, <1>6 DEF IInv, OneSpawn, Fresh
<1>10. OneWaiter'
  BY <1>1, <1>2 DEF IInv, OneWaiter
<1>11. Fresh'
  BY <1>2, <1>3, <1>4, <1>6 DEF IInv, Fresh
<1>12. TimerLists'
  BY <1>1, <1>2, <1>3 DEF IInv, TimerLists, TimerTrigger
<1>13. OnePlace'
  BY <1>1, <1>2, <1>3, <1>5 DEF IInv, OnePlace, InOnePlace
<1>14. BehindTarget'
  BY <1>1, <1>2, <1>3, <1>5 DEF IInv, BehindTarget, DoneTrigger
<1>15. LostShared'
  BY <1>1, <1>2 DEF IInv, LostShared
<1> QED
  BY <1>0, <1>7, <1>8, <1>9, <1>10, <1>11, <1>12, <1>13, <1>14, <1>15 DEF IInv

(* A timer that fires resubmits the task that armed it, if it is listed.    *)
LEMMA TimerFiresKeeps ==
  ASSUME IInv, NEW t \in Tasks, TimerFires(t)
  PROVE  IInv'
<1>0. TypeOK /\ TypeOK'
  BY OtherType DEF IInv
<1>1. /\ \A s \in Tasks : DoneList(s)' = DoneList(s) /\ TimerList(s)' = TimerList(s)
      /\ \A s, x \in Tasks : (ForDone(s, x)' <=> ForDone(s, x)) /\ (OnTimer(s, x)' <=> OnTimer(s, x))
      /\ \A x \in Tasks : Shared(x)' <=> Shared(x)
  BY <1>0, ListsStay DEF TimerFires
<1>2. /\ t \in timers /\ timers' = timers \ {t}
      /\ \A x \in Tasks : ~OnTimer(t, x) => ready'[x] = ready[x]
      /\ Len(TimerList(t)) <= 1 => \A x \in Tasks : ready'[x] <= ready[x] + 1
      /\ \A x \in Tasks : ready[x] \in Nat /\ ready'[x] \in Nat
      /\ UNCHANGED <<waitq, fiber, target, mpc, current, id, trigger, wait_for_task>>
  <2>1. TimerTrigger(t) \in Triggers /\ notify(TimerTrigger(t))
    BY TriggersApart DEF TimerFires, notifyNaked
  <2>2. /\ \A x \in Tasks : ~OnTimer(t, x) => ready'[x] = ready[x]
        /\ Len(TimerList(t)) <= 1 => \A x \in Tasks : ready'[x] <= ready[x] + 1
    BY <1>0, <2>1, NotifyAdds DEF OnTimer, TimerList
  <2>3. \A x \in Tasks : ready[x] \in Nat /\ ready'[x] \in Nat
    BY <1>0 DEF TypeOK
  <2> QED
    BY <2>2, <2>3 DEF TimerFires, taskVars, machineVars
<1>3. \A n \in Machines, x \in Tasks : Holds(n, x)' <=> Holds(n, x)
  BY <1>2 DEF Holds, Holding
<1>4. \A n \in Machines, x \in Tasks : Spawns(n, x)' <=> Spawns(n, x)
  BY <1>2 DEF Spawns
<1>5. /\ \A x \in Tasks : Returned(x)' <=> Returned(x)
      /\ \A s, x \in Tasks : WaitsFor(s, x)' <=> WaitsFor(s, x)
      /\ \A x \in Tasks : WaitsTimer(x)' <=> x # t /\ WaitsTimer(x)
  BY <1>1, <1>2 DEF Returned, WaitsFor, WaitsTimer
<1>6. /\ \A x \in Tasks : x # t \/ fiber[x] \in {"unborn", "new"} => ready'[x] = ready[x]
      /\ ready'[t] # ready[t] => WaitsTimer(t)
  BY <1>2, FreshUnlisted DEF IInv, TimerLists, WaitsTimer
<1>7. ~Shared(t) => ready'[t] <= ready[t] + 1
  BY <1>2 DEF IInv, TimerLists
<1>8. OneRunner'
  BY <1>0, <1>2 DEF IInv, OneRunner, Holding
<1>9. Registering'
  BY <1>2 DEF IInv, Registering, DoneTrigger, TimerTrigger, UserTrigger
<1>10. OneSpawn'
  BY <1>1, <1>2, <1>3, <1>4, <1>6 DEF IInv, OneSpawn, Fresh
<1>11. OneWaiter'
  BY <1>1, <1>2 DEF IInv, OneWaiter
<1>12. Fresh'
  BY <1>2, <1>3, <1>4, <1>6 DEF IInv, Fresh
<1>13. TimerLists'
  BY <1>1, <1>2, <1>3 DEF IInv, TimerLists, TimerTrigger
<1>14. OnePlace'
  <2> SUFFICES ASSUME NEW x \in Tasks, ~Shared(x)' PROVE InOnePlace(x)'
    BY DEF OnePlace
  <2>1. CASE x = t
    BY <1>1, <1>2, <1>3, <1>5, <1>6, <1>7, <2>1 DEF IInv, OnePlace, InOnePlace
  <2>2. CASE x # t
    <3>1. InOnePlace(x)
      BY <1>1 DEF IInv, OnePlace
    <3> QED
      BY <1>1, <1>2, <1>3, <1>5, <1>6, <1>7, <2>2, <3>1 DEF InOnePlace
  <2> QED
    BY <2>1, <2>2
<1>15. BehindTarget'
  BY <1>1, <1>2, <1>3, <1>5, <1>6 DEF IInv, BehindTarget, DoneTrigger
<1>16. LostShared'
  BY <1>1, <1>2 DEF IInv, LostShared
<1> QED
  BY <1>0, <1>8, <1>9, <1>10, <1>11, <1>12, <1>13, <1>14, <1>15, <1>16 DEF IInv

(* The task that await(func) made notifies the one waiter of its trigger,   *)
(* which was in that list only.                                             *)
LEMMA FuncReturnsKeeps ==
  ASSUME IInv, NEW m \in Machines, FuncReturns(m)
  PROVE  IInv'
<1>0. TypeOK /\ TypeOK'
  BY BodyType DEF IInv, Body
<1>1. /\ \A s \in Tasks : DoneList(s)' = DoneList(s) /\ TimerList(s)' = TimerList(s)
      /\ \A s, x \in Tasks : (ForDone(s, x)' <=> ForDone(s, x)) /\ (OnTimer(s, x)' <=> OnTimer(s, x))
      /\ \A x \in Tasks : Shared(x)' <=> Shared(x)
  BY <1>0, ListsStay DEF FuncReturns
<1>2. /\ mpc[m] = "run" /\ current[m] \in Tasks /\ fiber[current[m]] = "running"
      /\ \A x \in Tasks : fiber'[x] = IF x = current[m] THEN "leaving" ELSE fiber[x]
      /\ \A x \in Tasks : ~ForDone(current[m], x) => ready'[x] = ready[x]
      /\ \A x \in Tasks : ready'[x] <= ready[x] + 1
      /\ \A x \in Tasks : ready[x] \in Nat /\ ready'[x] \in Nat
      /\ UNCHANGED <<waitq, timers, target, mpc, current, id, trigger, wait_for_task>>
  <2>1. mpc[m] = "run" /\ current[m] \in Tasks
    BY RunsTask DEF FuncReturns, Holding
  <2>2. PICK t \in Tasks : t = current[m]
    BY <2>1
  <2>3. DoneTrigger(t) \in Triggers /\ notify(DoneTrigger(t))
    BY <2>2, TriggersApart DEF FuncReturns
  <2>4. Len(waiters[DoneTrigger(t)]) <= 1
    BY DEF IInv, OneWaiter, DoneList
  <2>5. /\ \A x \in Tasks : ~ForDone(current[m], x) => ready'[x] = ready[x]
        /\ \A x \in Tasks : ready'[x] <= ready[x] + 1
    BY <1>0, <2>2, <2>3, <2>4, NotifyAdds DEF ForDone
  <2>6. \A x \in Tasks : ready[x] \in Nat /\ ready'[x] \in Nat
    BY <1>0 DEF TypeOK
  <2>7. \A x \in Tasks : fiber'[x] = IF x = current[m] THEN "leaving" ELSE fiber[x]
    BY <1>0 DEF FuncReturns, TypeOK
  <2> QED
    BY <2>1, <2>5, <2>6, <2>7 DEF FuncReturns, machineVars
<1>3. /\ \A n \in Machines, x \in Tasks : Holds(n, x)' <=> Holds(n, x)
      /\ \A x \in Tasks : Holds(m, x) <=> x = current[m]
  BY <1>2 DEF Holds, Holding
<1>4. \A n \in Machines, x \in Tasks : Spawns(n, x)' <=> Spawns(n, x)
  BY <1>2 DEF Spawns
<1>5. /\ \A x \in Tasks : Returned(x)' <=> x = current[m] \/ Returned(x)
      /\ \A s, x \in Tasks : WaitsFor(s, x)' <=> s # current[m] /\ WaitsFor(s, x)
      /\ \A x \in Tasks : WaitsTimer(x)' <=> WaitsTimer(x)
      /\ \A x \in Tasks : ForDone(current[m], x) <=> WaitsFor(current[m], x)
  BY <1>1, <1>2 DEF Returned, WaitsFor, WaitsTimer
<1>6. /\ fiber[current[m]] \in {"running", "leaving"}
      /\ \A n \in Machines : mpc[n] = "run" /\ current[n] = current[m] => n = m
      /\ ~Shared(current[m]) => /\ ready[current[m]] = 0
                                /\ \A n \in Machines : Holds(n, current[m]) => n = m
                                /\ \A s \in Tasks : ~WaitsFor(s, current[m])
                                /\ ~WaitsTimer(current[m])
  BY <1>2, BodyHolds
<1>7. \A x \in Tasks : fiber[x] \in {"unborn", "new"} => ready'[x] = ready[x]
  BY <1>2, FreshUnlisted
<1>8. OneRunner'
  BY <1>0, <1>2, <1>6 DEF IInv, OneRunner, Holding
<1>9. Registering'
  BY <1>2 DEF IInv, Registering, DoneTrigger, TimerTrigger, UserTrigger
<1>10. OneSpawn'
  BY <1>1, <1>2, <1>3, <1>4, <1>7 DEF IInv, OneSpawn, Fresh
<1>11. OneWaiter'
  BY <1>1, <1>2 DEF IInv, OneWaiter
<1>12. Fresh'
  BY <1>2, <1>3, <1>4, <1>7 DEF IInv, Fresh
<1>13. TimerLists'
  BY <1>1, <1>2, <1>3 DEF IInv, TimerLists, TimerTrigger
<1>14. OnePlace'
  <2> SUFFICES ASSUME NEW x \in Tasks, ~Shared(x)' PROVE InOnePlace(x)'
    BY DEF OnePlace
  <2>1. CASE x = current[m]
    BY <1>1, <1>2, <1>3, <1>5, <1>6, <2>1 DEF InOnePlace
  <2>2. CASE x # current[m]
    <3>1. InOnePlace(x)
      BY <1>1 DEF IInv, OnePlace
    <3> QED
      BY <1>1, <1>2, <1>3, <1>5, <2>2, <3>1 DEF InOnePlace
  <2> QED
    BY <2>1, <2>2
<1>15. BehindTarget'
  BY <1>1, <1>2, <1>3, <1>5, <1>6 DEF IInv, BehindTarget, DoneTrigger
<1>16. LostShared'
  BY <1>1, <1>2 DEF IInv, LostShared
<1> QED
  BY <1>0, <1>8, <1>9, <1>10, <1>11, <1>12, <1>13, <1>14, <1>15, <1>16 DEF IInv

(* A fiber that returns leaves the hands of its machine for good. *)
LEMMA FinishKeeps ==
  ASSUME IInv, NEW m \in Machines, Finish(m)
  PROVE  IInv'
<1>0. TypeOK /\ TypeOK'
  BY BodyType DEF IInv, Body
<1>1. /\ \A s \in Tasks : DoneList(s)' = DoneList(s) /\ TimerList(s)' = TimerList(s)
      /\ \A s, x \in Tasks : (ForDone(s, x)' <=> ForDone(s, x)) /\ (OnTimer(s, x)' <=> OnTimer(s, x))
      /\ \A x \in Tasks : Shared(x)' <=> Shared(x)
  BY <1>0, ListsStay DEF Finish
<1>2. /\ mpc[m] = "run" /\ current[m] \in Tasks /\ fiber[current[m]] \in {"running", "leaving"}
      /\ \A x \in Tasks : fiber'[x] = IF x = current[m] THEN "finished" ELSE fiber[x]
      /\ \A n \in Machines : mpc'[n] = IF n = m THEN "poll" ELSE mpc[n]
      /\ UNCHANGED <<ready, waitq, timers, target, current, id, trigger, wait_for_task>>
  BY <1>0, RunsTask DEF Finish, TypeOK, Holding
<1>3. /\ \A n \in Machines, x \in Tasks : Holds(n, x)' <=> n # m /\ Holds(n, x)
      /\ \A x \in Tasks : Holds(m, x) <=> x = current[m]
  BY <1>2 DEF Holds, Holding
<1>4. \A n \in Machines, x \in Tasks : Spawns(n, x)' <=> Spawns(n, x)
  BY <1>2 DEF Spawns
<1>5. /\ \A x \in Tasks : Returned(x)' <=> x = current[m] \/ Returned(x)
      /\ \A s, x \in Tasks : WaitsFor(s, x)' => WaitsFor(s, x)
      /\ \A x \in Tasks : WaitsTimer(x)' <=> WaitsTimer(x)
  BY <1>1, <1>2 DEF Returned, WaitsFor, WaitsTimer
<1>6. /\ fiber[current[m]] \in {"running", "leaving"}
      /\ \A n \in Machines : mpc[n] = "run" /\ current[n] = current[m] => n = m
      /\ ~Shared(current[m]) => /\ ready[current[m]] = 0
                                /\ \A n \in Machines : Holds(n, current[m]) => n = m
                                /\ \A s \in Tasks : ~WaitsFor(s, current[m])
                                /\ ~WaitsTimer(current[m])
  BY <1>2, BodyHolds
<1>7. OneRunner'
  BY <1>0, <1>2, <1>6 DEF IInv, OneRunner, Holding
<1>8. Registering'
  BY <1>2 DEF IInv, Registering, DoneTrigger, TimerTrigger, UserTrigger
<1>9. OneSpawn'
  BY <1>1, <1>2, <1>3, <1>4 DEF IInv, OneSpawn, Fresh
<1>10. OneWaiter'
  BY <1>1, <1>2 DEF IInv, OneWaiter
<1>11. Fresh'
  BY <1>2, <1>3, <1>4 DEF IInv, Fresh
<1>12. TimerLists'
  BY <1>1, <1>2, <1>3 DEF IInv, TimerLists, TimerTrigger
<1>13. OnePlace'
  <2> SUFFICES ASSUME NEW x \in Tasks, ~Shared(x)' PROVE InOnePlace(x)'
    BY DEF OnePlace
  <2>1. CASE x = current[m]
    BY <1>1, <1>2, <1>3, <1>5, <1>6, <2>1 DEF InOnePlace
  <2>2. CASE x # current[m]
    <3>1. InOnePlace(x)
      BY <1>1 DEF IInv, OnePlace
    <3> QED
      BY <1>1, <1>2, <1>3, <1>5, <2>2, <3>1 DEF InOnePlace
  <2> QED
    BY <2>1, <2>2
<1>14. BehindTarget'
  BY <1>1, <1>2, <1>3, <1>5, <1>6 DEF IInv, BehindTarget, DoneTrigger
<1>15. LostShared'
  BY <1>1, <1>2 DEF IInv, LostShared
<1> QED
  BY <1>0, <1>7, <1>8, <1>9, <1>10, <1>11, <1>12, <1>13, <1>14, <1>15 DEF IInv

-----------------------------------------------------------------------------
(* Registration *)

(* Registration adds the task of the machine to the list of its trigger,    *)
(* unless wait_queue was full.                                              *)
LEMMA Appended ==
  ASSUME IInv, NEW m \in Machines, Register(m), NEW g \in Triggers, trigger[m] = g,
         NEW t \in Tasks, current[m] = t
  PROVE  /\ \A h \in Triggers \ {g} : waiters'[h] = waiters[h]
         /\ Len(waiters'[g]) = Len(waiters[g]) + 1
         /\ \A h \in Triggers \ {g}, x \in Tasks : Listed(h, x)' <=> Listed(h, x)
         /\ \A x \in Tasks : Listed(g, x)' <=> Listed(g, x) \/ (id[m] >= 0 /\ x = t)
<1>0. waiters \in [Triggers -> Seq(-1 .. Len(waitq) - 1)] /\ id[m] \in -1 .. Len(waitq) - 1
  BY DEF IInv, TypeOK
<1>1. waiters' = [waiters EXCEPT ![g] = Append(@, id[m])] /\ waitq' = waitq
  BY DEF Register
<1>2. \A h \in Triggers \ {g} : waiters'[h] = waiters[h]
  BY <1>0, <1>1
<1>3. waiters'[g] = Append(waiters[g], id[m])
  BY <1>0, <1>1
<1>4. waiters[g] \in Seq(-1 .. Len(waitq) - 1)
  BY <1>0
<1>5. /\ Len(waiters[g]) \in Nat /\ DOMAIN waiters[g] = 1 .. Len(waiters[g])
      /\ Len(waiters'[g]) = Len(waiters[g]) + 1
      /\ \A j \in 1 .. Len(waiters[g]) : waiters'[g][j] = waiters[g][j]
      /\ waiters'[g][Len(waiters[g]) + 1] = id[m]
      /\ waiters'[g] \in Seq(-1 .. Len(waitq) - 1)
  BY <1>0, <1>3, <1>4, LenProperties, AppendProperties
<1>6. DOMAIN waiters'[g] = 1 .. Len(waiters[g]) + 1
  BY <1>5, LenProperties
<1>7. \A j : j \in DOMAIN waiters'[g] <=> j \in DOMAIN waiters[g] \/ j = Len(waiters[g]) + 1
  BY <1>5, <1>6, SMTT(30)
<1>8. id[m] >= 0 => waitq[id[m] + 1] = t
  BY DEF IInv, Registering, Register
<1>9. \A h \in Triggers \ {g}, x \in Tasks : Listed(h, x)' <=> Listed(h, x)
  BY <1>1, <1>2 DEF Listed
<1>10. ASSUME NEW x \in Tasks PROVE Listed(g, x)' <=> Listed(g, x) \/ (id[m] >= 0 /\ x = t)
  <2>1. Listed(g, x)' <=> \E j \in DOMAIN waiters'[g] : waiters'[g][j] >= 0 /\ waitq[waiters'[g][j] + 1] = x
    BY <1>1 DEF Listed
  <2>2. Listed(g, x)' <=> \/ \E j \in DOMAIN waiters[g] : waiters[g][j] >= 0 /\ waitq[waiters[g][j] + 1] = x
                          \/ id[m] >= 0 /\ waitq[id[m] + 1] = x
    BY <1>5, <1>7, <2>1, ZenonT(30)
  <2> QED
    BY <1>8, <2>2 DEF Listed
<1> QED
  BY <1>2, <1>5, <1>9, <1>10

(* In the list of a user's trigger the task becomes shared. *)
LEMMA RegisterUserKeeps ==
  ASSUME IInv, NEW m \in Machines, Register(m),
         NEW u \in Users, trigger[m] = UserTrigger(u), wait_for_task[m] = NoTask
  PROVE  IInv'
<1>0. TypeOK /\ TypeOK'
  BY DispatchType DEF IInv, Dispatch
<1>1. /\ \A s \in Tasks : DoneList(s)' = DoneList(s) /\ TimerList(s)' = TimerList(s)
      /\ \A s, x \in Tasks : (ForDone(s, x)' <=> ForDone(s, x)) /\ (OnTimer(s, x)' <=> OnTimer(s, x))
      /\ \A x \in Tasks : Shared(x) => Shared(x)'
  <2>1. current[m] \in Tasks
    BY RunsTask DEF Register, Holding
  <2>2. PICK t \in Tasks : current[m] = t
    BY <2>1
  <2>3. /\ \A h \in Triggers \ {UserTrigger(u)} : waiters'[h] = waiters[h]
        /\ \A h \in Triggers \ {UserTrigger(u)}, x \in Tasks : Listed(h, x)' <=> Listed(h, x)
        /\ \A h \in Triggers, x \in Tasks : Listed(h, x) => Listed(h, x)'
    BY <2>2, TriggersApart, Appended
  <2>4. \A s \in Tasks : DoneList(s)' = DoneList(s) /\ TimerList(s)' = TimerList(s)
    BY <2>3, TriggersApart DEF DoneList, TimerList, DoneTrigger, TimerTrigger
  <2>5. \A s, x \in Tasks : (ForDone(s, x)' <=> ForDone(s, x)) /\ (OnTimer(s, x)' <=> OnTimer(s, x))
    BY <2>3, TriggersApart DEF ForDone, OnTimer, DoneTrigger, TimerTrigger
  <2>6. \A x \in Tasks : Shared(x) => Shared(x)'
    <3> DEFINE ForUser(w, x) == Listed(UserTrigger(w), x)
    <3>1. \A w \in Users, x \in Tasks : ForUser(w, x) => ForUser(w, x)'
      BY <2>3, TriggersApart DEF UserTrigger
    <3>2. \A x \in Tasks : Shared(x) <=> \E w \in Users : ForUser(w, x)
      BY DEF Shared, Listed
    <3>3. \A x \in Tasks : Shared(x)' <=> \E w \in Users : ForUser(w, x)'
      BY DEF Shared, Listed, UserTrigger
    <3> HIDE DEF ForUser
    <3> QED
      BY <3>1, <3>2, <3>3
  <2> QED
    BY <2>4, <2>5, <2>6
<1>2. /\ mpc[m] = "register" /\ current[m] \in Tasks /\ Holds(m, current[m])
      /\ \A n \in Machines : mpc'[n] = IF n = m THEN "poll" ELSE mpc[n]
      /\ UNCHANGED <<ready, waitq, fiber, timers, target, current, id, trigger, wait_for_task>>
  BY <1>0, RunsTask DEF Register, TypeOK, taskVars, Holds, Holding
<1>3. /\ \A n \in Machines, x \in Tasks : Holds(n, x)' <=> n # m /\ Holds(n, x)
      /\ \A x \in Tasks : Holds(m, x) <=> x = current[m]
  BY <1>2 DEF Holds, Holding
<1>4. \A n \in Machines, x \in Tasks : Spawns(n, x)' <=> Spawns(n, x)
  BY <1>2, TasksAssumption DEF Spawns
<1>5. /\ \A x \in Tasks : Returned(x)' <=> Returned(x)
      /\ \A s, x \in Tasks : WaitsFor(s, x)' <=> WaitsFor(s, x)
      /\ \A x \in Tasks : WaitsTimer(x)' <=> WaitsTimer(x)
  BY <1>1, <1>2 DEF Returned, WaitsFor, WaitsTimer
<1>6. OneRunner'
  BY <1>0, <1>2 DEF IInv, OneRunner, Holding
<1>7. Registering'
  BY <1>2 DEF IInv, Registering, DoneTrigger, TimerTrigger, UserTrigger
<1>8. OneSpawn'
  BY <1>1, <1>2, <1>3, <1>4 DEF IInv, OneSpawn, Fresh
<1>9. OneWaiter'
  BY <1>1, <1>2 DEF IInv, OneWaiter
<1>10. Fresh'
  BY <1>2, <1>3, <1>4 DEF IInv, Fresh
<1>11. TimerLists'
  BY <1>1, <1>2, <1>3 DEF IInv, TimerLists, TimerTrigger
<1>12. OnePlace'
  BY <1>1, <1>2, <1>3, <1>5 DEF IInv, OnePlace, InOnePlace
<1>13. BehindTarget'
  BY <1>1, <1>2, <1>3, <1>5 DEF IInv, BehindTarget, DoneTrigger
<1>14. LostShared'
  BY <1>1, <1>2 DEF IInv, LostShared
<1> QED
  BY <1>0, <1>6, <1>7, <1>8, <1>9, <1>10, <1>11, <1>12, <1>13, <1>14 DEF IInv

(* In the list of an await(func) the task is the only waiter; the awaited   *)
(* task is submitted next.                                                  *)
LEMMA RegisterDoneKeeps ==
  ASSUME IInv, NEW m \in Machines, Register(m),
         NEW s \in Tasks, trigger[m] = DoneTrigger(s), wait_for_task[m] = s
  PROVE  IInv'
<1>0. TypeOK /\ TypeOK'
  BY DispatchType DEF IInv, Dispatch
<1>1. /\ \A r \in Tasks \ {s} : DoneList(r)' = DoneList(r)
      /\ Len(DoneList(s)') = Len(DoneList(s)) + 1
      /\ \A r \in Tasks : TimerList(r)' = TimerList(r)
      /\ \A r, x \in Tasks : /\ ForDone(r, x)' => ForDone(r, x) \/ (r = s /\ x = current[m])
                             /\ OnTimer(r, x)' <=> OnTimer(r, x)
      /\ \A x \in Tasks : Shared(x)' <=> Shared(x)
  <2>1. current[m] \in Tasks
    BY RunsTask DEF Register, Holding
  <2>2. PICK t \in Tasks : current[m] = t
    BY <2>1
  <2>3. /\ \A h \in Triggers \ {DoneTrigger(s)} : waiters'[h] = waiters[h]
        /\ Len(waiters'[DoneTrigger(s)]) = Len(waiters[DoneTrigger(s)]) + 1
        /\ \A h \in Triggers \ {DoneTrigger(s)}, x \in Tasks : Listed(h, x)' <=> Listed(h, x)
        /\ \A x \in Tasks : Listed(DoneTrigger(s), x)' => Listed(DoneTrigger(s), x) \/ x = t
    BY <2>2, TriggersApart, Appended
  <2>4. /\ \A r \in Tasks \ {s} : DoneList(r)' = DoneList(r)
        /\ \A r \in Tasks : TimerList(r)' = TimerList(r)
        /\ Len(DoneList(s)') = Len(DoneList(s)) + 1
    BY <2>3, TriggersApart DEF DoneList, TimerList, DoneTrigger, TimerTrigger
  <2>5. \A r, x \in Tasks : /\ ForDone(r, x)' => ForDone(r, x) \/ (r = s /\ x = t)
                            /\ OnTimer(r, x)' <=> OnTimer(r, x)
    BY <2>3, TriggersApart DEF ForDone, OnTimer, DoneTrigger, TimerTrigger
  <2>6. \A x \in Tasks : Shared(x)' <=> Shared(x)
    <3> DEFINE ForUser(w, x) == Listed(UserTrigger(w), x)
    <3>1. \A w \in Users, x \in Tasks : ForUser(w, x)' <=> ForUser(w, x)
      BY <2>3, TriggersApart DEF UserTrigger
    <3>2. \A x \in Tasks : Shared(x) <=> \E w \in Users : ForUser(w, x)
      BY DEF Shared, Listed
    <3>3. \A x \in Tasks : Shared(x)' <=> \E w \in Users : ForUser(w, x)'
      BY DEF Shared, Listed, UserTrigger
    <3> HIDE DEF ForUser
    <3> QED
      BY <3>1, <3>2, <3>3
  <2> QED
    BY <2>2, <2>4, <2>5, <2>6
<1>2. /\ mpc[m] = "register" /\ current[m] \in Tasks /\ Holds(m, current[m])
      /\ \A n \in Machines : mpc'[n] = IF n = m THEN "spawn" ELSE mpc[n]
      /\ UNCHANGED <<ready, waitq, fiber, timers, target, current, id, trigger, wait_for_task>>
  BY <1>0, RunsTask, TasksAssumption DEF Register, TypeOK, taskVars, Holds, Holding
<1>3. /\ \A n \in Machines, x \in Tasks : Holds(n, x)' <=> n # m /\ Holds(n, x)
      /\ \A x \in Tasks : Holds(m, x) <=> x = current[m]
  BY <1>2 DEF Holds, Holding
<1>4. /\ \A n \in Machines, x \in Tasks : Spawns(n, x)' <=> Spawns(n, x)
      /\ \A x \in Tasks : Spawns(m, x) <=> x = s
  BY <1>2 DEF Spawns
<1>5. /\ \A x \in Tasks : Returned(x)' <=> Returned(x)
      /\ \A r, x \in Tasks : WaitsFor(r, x)' => WaitsFor(r, x) \/ (r = s /\ x = current[m])
      /\ \A x \in Tasks : WaitsTimer(x)' <=> WaitsTimer(x)
  BY <1>1, <1>2 DEF Returned, WaitsFor, WaitsTimer
<1>6. ~Shared(current[m]) => /\ ready[current[m]] = 0 /\ fiber[current[m]] = "suspended"
                            /\ \A n \in Machines : Holds(n, current[m]) => n = m
                            /\ \A r \in Tasks : ~WaitsFor(r, current[m])
                            /\ ~WaitsTimer(current[m])
  <2>1. ready[current[m]] \in Nat
    BY <1>0, <1>2 DEF TypeOK
  <2> QED
    BY <1>2, <2>1 DEF IInv, OnePlace, InOnePlace
<1>7. fiber[s] = "new" /\ DoneList(s) = << >>
  BY <1>2, <1>4 DEF IInv, OneSpawn
<1>8. OneRunner'
  BY <1>0, <1>2 DEF IInv, OneRunner, Holding
<1>9. Registering'
  BY <1>2 DEF IInv, Registering, DoneTrigger, TimerTrigger, UserTrigger
<1>10. OneSpawn'
  BY <1>1, <1>2, <1>4 DEF IInv, OneSpawn
<1>11. OneWaiter'
  <2> SUFFICES ASSUME NEW r \in Tasks
               PROVE  Len(DoneList(r)') <= 1 /\ (fiber'[r] = "unborn" => DoneList(r)' = << >>)
    BY DEF OneWaiter
  <2>1. CASE r = s
    <3>1. Len(DoneList(s)') = 1 /\ fiber'[s] # "unborn"
      BY <1>1, <1>2, <1>7
    <3> QED
      BY <2>1, <3>1
  <2>2. CASE r # s
    <3>1. DoneList(r)' = DoneList(r) /\ fiber'[r] = fiber[r]
      BY <1>1, <1>2, <2>2
    <3>2. Len(DoneList(r)) <= 1 /\ (fiber[r] = "unborn" => DoneList(r) = << >>)
      BY DEF IInv, OneWaiter
    <3> QED
      BY <3>1, <3>2
  <2> QED
    BY <2>1, <2>2
<1>12. Fresh'
  BY <1>2, <1>3, <1>4 DEF IInv, Fresh
<1>13. TimerLists'
  BY <1>1, <1>2, <1>3 DEF IInv, TimerLists, TimerTrigger
<1>14. OnePlace'
  <2> SUFFICES ASSUME NEW x \in Tasks, ~Shared(x)' PROVE InOnePlace(x)'
    BY DEF OnePlace
  <2>1. CASE x = current[m]
    BY <1>1, <1>2, <1>3, <1>5, <1>6, <2>1 DEF InOnePlace
  <2>2. CASE x # current[m]
    <3>1. InOnePlace(x)
      BY <1>1 DEF IInv, OnePlace
    <3> QED
      BY <1>1, <1>2, <1>3, <1>5, <2>2, <3>1 DEF InOnePlace
  <2> QED
    BY <2>1, <2>2
<1>15. BehindTarget'
  BY <1>1, <1>2, <1>3, <1>5, <1>6, TriggersApart DEF IInv, BehindTarget, DoneTrigger
<1>16. LostShared'
  BY <1>1, <1>2 DEF IInv, LostShared
<1> QED
  BY <1>0, <1>8, <1>9, <1>10, <1>11, <1>12, <1>13, <1>14, <1>15, <1>16 DEF IInv

(* In the list of a timer's trigger the task is the only waiter. *)
LEMMA RegisterTimerKeeps ==
  ASSUME IInv, NEW m \in Machines, Register(m),
         trigger[m] = TimerTrigger(current[m]), wait_for_task[m] = NoTask
  PROVE  IInv'
<1>0. TypeOK /\ TypeOK'
  BY DispatchType DEF IInv, Dispatch
<1>1. /\ \A s \in Tasks : /\ DoneList(s)' = DoneList(s)
                          /\ s # current[m] => TimerList(s)' = TimerList(s)
                          /\ s = current[m] => Len(TimerList(s)') = Len(TimerList(s)) + 1
      /\ \A s, x \in Tasks : /\ ForDone(s, x)' <=> ForDone(s, x)
                             /\ OnTimer(s, x)' => OnTimer(s, x) \/ (s = current[m] /\ x = current[m])
      /\ \A x \in Tasks : Shared(x)' <=> Shared(x)
  <2>1. current[m] \in Tasks
    BY RunsTask DEF Register, Holding
  <2>2. PICK t \in Tasks : current[m] = t
    BY <2>1
  <2>3. /\ \A h \in Triggers \ {TimerTrigger(t)} : waiters'[h] = waiters[h]
        /\ Len(waiters'[TimerTrigger(t)]) = Len(waiters[TimerTrigger(t)]) + 1
        /\ \A h \in Triggers \ {TimerTrigger(t)}, x \in Tasks : Listed(h, x)' <=> Listed(h, x)
        /\ \A x \in Tasks : Listed(TimerTrigger(t), x)' => Listed(TimerTrigger(t), x) \/ x = t
    BY <2>2, TriggersApart, Appended
  <2>4. \A s \in Tasks : /\ DoneList(s)' = DoneList(s)
                         /\ s # t => TimerList(s)' = TimerList(s)
                         /\ s = t => Len(TimerList(s)') = Len(TimerList(s)) + 1
    BY <2>3, TriggersApart DEF DoneList, TimerList, DoneTrigger, TimerTrigger
  <2>5. \A s, x \in Tasks : /\ ForDone(s, x)' <=> ForDone(s, x)
                            /\ OnTimer(s, x)' => OnTimer(s, x) \/ (s = t /\ x = t)
    BY <2>3, TriggersApart DEF ForDone, OnTimer, DoneTrigger, TimerTrigger
  <2>6. \A x \in Tasks : Shared(x)' <=> Shared(x)
    <3> DEFINE ForUser(w, x) == Listed(UserTrigger(w), x)
    <3>1. \A w \in Users, x \in Tasks : ForUser(w, x)' <=> ForUser(w, x)
      BY <2>3, TriggersApart DEF UserTrigger
    <3>2. \A x \in Tasks : Shared(x) <=> \E w \in Users : ForUser(w, x)
      BY DEF Shared, Listed
    <3>3. \A x \in Tasks : Shared(x)' <=> \E w \in Users : ForUser(w, x)'
      BY DEF Shared, Listed, UserTrigger
    <3> HIDE DEF ForUser
    <3> QED
      BY <3>1, <3>2, <3>3
  <2> QED
    BY <2>2, <2>4, <2>5, <2>6
<1>2. /\ mpc[m] = "register" /\ current[m] \in Tasks /\ Holds(m, current[m])
      /\ \A n \in Machines : mpc'[n] = IF n = m THEN "poll" ELSE mpc[n]
      /\ UNCHANGED <<ready, waitq, fiber, timers, target, current, id, trigger, wait_for_task>>
  BY <1>0, RunsTask DEF Register, TypeOK, taskVars, Holds, Holding
<1>3. /\ \A n \in Machines, x \in Tasks : Holds(n, x)' <=> n # m /\ Holds(n, x)
      /\ \A x \in Tasks : Holds(m, x) <=> x = current[m]
  BY <1>2 DEF Holds, Holding
<1>4. \A n \in Machines, x \in Tasks : Spawns(n, x)' <=> Spawns(n, x)
  BY <1>2, TasksAssumption DEF Spawns
<1>5. /\ \A x \in Tasks : Returned(x)' <=> Returned(x)
      /\ \A s, x \in Tasks : WaitsFor(s, x)' <=> WaitsFor(s, x)
      /\ \A x \in Tasks : WaitsTimer(x)' => WaitsTimer(x) \/ x = current[m]
  BY <1>1, <1>2 DEF Returned, WaitsFor, WaitsTimer
<1>6. ~Shared(current[m]) => /\ ready[current[m]] = 0 /\ fiber[current[m]] = "suspended"
                            /\ \A n \in Machines : Holds(n, current[m]) => n = m
                            /\ \A r \in Tasks : ~WaitsFor(r, current[m])
                            /\ ~WaitsTimer(current[m])
  <2>1. ready[current[m]] \in Nat
    BY <1>0, <1>2 DEF TypeOK
  <2> QED
    BY <1>2, <2>1 DEF IInv, OnePlace, InOnePlace
<1>7. ~Shared(current[m]) => TimerList(current[m]) = << >>
  BY <1>2 DEF IInv, TimerLists
<1>8. OneRunner'
  BY <1>0, <1>2 DEF IInv, OneRunner, Holding
<1>9. Registering'
  BY <1>2 DEF IInv, Registering, DoneTrigger, TimerTrigger, UserTrigger
<1>10. OneSpawn'
  BY <1>1, <1>2, <1>3, <1>4 DEF IInv, OneSpawn, Fresh
<1>11. OneWaiter'
  BY <1>1, <1>2 DEF IInv, OneWaiter
<1>12. Fresh'
  BY <1>2, <1>3, <1>4 DEF IInv, Fresh
<1>13. TimerLists'
  <2> SUFFICES ASSUME NEW t \in Tasks
               PROVE  /\ \A x \in Tasks : OnTimer(t, x)' => x = t
                      /\ ~Shared(t)' =>
                           /\ Len(TimerList(t)') <= 1
                           /\ \A n \in Machines :
                                Holds(n, t)' /\ mpc'[n] \in {"waiting", "register"} /\ trigger'[n] = TimerTrigger(t)
                                  => TimerList(t)' = << >>
    BY DEF TimerLists, TimerTrigger
  <2>1. CASE t = current[m]
    BY <1>1, <1>2, <1>3, <1>6, <1>7, <2>1 DEF IInv, TimerLists
  <2>2. CASE t # current[m]
    BY <1>1, <1>2, <1>3, <2>2, TriggersApart DEF IInv, TimerLists, TimerTrigger
  <2> QED
    BY <2>1, <2>2
<1>14. OnePlace'
  <2> SUFFICES ASSUME NEW x \in Tasks, ~Shared(x)' PROVE InOnePlace(x)'
    BY DEF OnePlace
  <2>1. CASE x = current[m]
    BY <1>1, <1>2, <1>3, <1>5, <1>6, <2>1 DEF InOnePlace
  <2>2. CASE x # current[m]
    <3>1. InOnePlace(x)
      BY <1>1 DEF IInv, OnePlace
    <3> QED
      BY <1>1, <1>2, <1>3, <1>5, <1>6, <2>2, <3>1 DEF InOnePlace
  <2> QED
    BY <2>1, <2>2
<1>15. BehindTarget'
  <2>1. \A s \in Tasks : target[current[m]] = s /\ ~Returned(s) => Shared(current[m])
    BY <1>2, TriggersApart DEF IInv, BehindTarget
  <2> QED
    BY <1>1, <1>2, <1>3, <1>5, <2>1 DEF IInv, BehindTarget, DoneTrigger
<1>16. LostShared'
  BY <1>1, <1>2 DEF IInv, LostShared
<1> QED
  BY <1>0, <1>8, <1>9, <1>10, <1>11, <1>12, <1>13, <1>14, <1>15, <1>16 DEF IInv

-----------------------------------------------------------------------------
(* The invariant holds *)

(* Registration in the list of any trigger keeps the invariant. *)
LEMMA RegisterKeeps ==
  ASSUME IInv, NEW m \in Machines, Register(m)
  PROVE  IInv'
<1>1. \/ \E u \in Users : trigger[m] = UserTrigger(u) /\ wait_for_task[m] = NoTask
      \/ \E s \in Tasks : trigger[m] = DoneTrigger(s) /\ wait_for_task[m] = s
      \/ trigger[m] = TimerTrigger(current[m]) /\ wait_for_task[m] = NoTask
  BY DEF IInv, Registering, Register
<1> QED
  BY <1>1, RegisterUserKeeps, RegisterDoneKeeps, RegisterTimerKeeps

(* One task is in the queue, and nothing else has happened. *)
LEMMA InitIInv == Init => IInv
<1> SUFFICES ASSUME Init PROVE IInv
  OBVIOUS
<1>1. TypeOK
  <2>1. waitq = << >> /\ Len(waitq) = 0 /\ << >> \in Seq(-1 .. Len(waitq) - 1) /\ waitq \in Seq(Tasks)
    BY DEF Init
  <2>2. WaitSize \in Nat /\ MaxCalls \in Nat
    BY BoundsAssumption
  <2>3. waiters \in [Triggers -> Seq(-1 .. Len(waitq) - 1)] /\ id \in [Machines -> -1 .. Len(waitq) - 1]
    BY <2>1 DEF Init
  <2> QED
    BY <2>1, <2>2, <2>3, TasksAssumption DEF Init, TypeOK, FiberStates, MachineStates
<1>2. \A m \in Machines : mpc[m] = "poll"
  BY DEF Init
<1>3. \A m \in Machines, t \in Tasks : ~Holds(m, t) /\ ~Spawns(m, t)
  BY <1>2 DEF Holds, Holding, Spawns
<1>4. \A g \in Triggers : waiters[g] = << >>
  BY DEF Init
<1>5. \A g \in Triggers, t \in Tasks : ~Listed(g, t)
  BY <1>4 DEF Listed
<1>6. \A s, t \in Tasks : ~ForDone(s, t) /\ ~OnTimer(s, t) /\ ~WaitsFor(s, t) /\ ~WaitsTimer(t)
  BY <1>5, TriggersApart DEF ForDone, OnTimer, WaitsFor, WaitsTimer
<1>7. \A s \in Tasks : DoneList(s) = << >> /\ TimerList(s) = << >>
  BY <1>4, TriggersApart DEF DoneList, TimerList
<1>8. OneRunner /\ Registering /\ LostShared
  BY <1>2 DEF OneRunner, Registering, LostShared, Holding
<1>9. OneSpawn
  BY <1>3 DEF OneSpawn
<1>10. OneWaiter /\ TimerLists
  <2>1. Len(<< >>) = 0
    OBVIOUS
  <2> QED
    BY <1>3, <1>6, <1>7, <2>1 DEF OneWaiter, TimerLists
<1>11. Fresh
  BY <1>3 DEF Fresh, Init
<1>12. OnePlace
  BY <1>3, <1>6 DEF OnePlace, InOnePlace, Init
<1>13. BehindTarget
  BY TasksAssumption DEF BehindTarget, Init
<1> QED
  BY <1>1, <1>8, <1>9, <1>10, <1>11, <1>12, <1>13 DEF IInv

(* Spinning on an empty queue changes nothing. *)
LEMMA StutterKeeps ==
  ASSUME IInv, UNCHANGED vars
  PROVE  IInv'
<1>0. TypeOK /\ TypeOK'
  <2>1. /\ UNCHANGED <<ready, refused, waitq, waiters, timers, fiber, target, awaited, fuel>>
        /\ UNCHANGED <<mpc, current, id, trigger, wait_for_task>>
    BY DEF vars, taskVars, machineVars
  <2> QED
    BY <2>1 DEF IInv, TypeOK
<1>1. /\ \A s \in Tasks : DoneList(s)' = DoneList(s) /\ TimerList(s)' = TimerList(s)
      /\ \A s, x \in Tasks : (ForDone(s, x)' <=> ForDone(s, x)) /\ (OnTimer(s, x)' <=> OnTimer(s, x))
      /\ \A x \in Tasks : Shared(x)' <=> Shared(x)
  BY <1>0, ListsStay DEF vars
<1>2. UNCHANGED <<ready, waitq, fiber, timers, target, mpc, current, id, trigger, wait_for_task>>
  BY DEF vars, taskVars, machineVars
<1>3. \A n \in Machines, x \in Tasks : Holds(n, x)' <=> Holds(n, x)
  BY <1>2 DEF Holds, Holding
<1>4. \A n \in Machines, x \in Tasks : Spawns(n, x)' <=> Spawns(n, x)
  BY <1>2 DEF Spawns
<1>5. /\ \A x \in Tasks : Returned(x)' <=> Returned(x)
      /\ \A s, x \in Tasks : WaitsFor(s, x)' <=> WaitsFor(s, x)
      /\ \A x \in Tasks : WaitsTimer(x)' <=> WaitsTimer(x)
  BY <1>1, <1>2 DEF Returned, WaitsFor, WaitsTimer
<1>6. OneRunner'
  BY <1>0, <1>2 DEF IInv, OneRunner, Holding
<1>7. Registering'
  BY <1>2 DEF IInv, Registering, DoneTrigger, TimerTrigger, UserTrigger
<1>8. OneSpawn'
  BY <1>1, <1>2, <1>3, <1>4 DEF IInv, OneSpawn, Fresh
<1>9. OneWaiter'
  BY <1>1, <1>2 DEF IInv, OneWaiter
<1>10. Fresh'
  BY <1>2, <1>3, <1>4 DEF IInv, Fresh
<1>11. TimerLists'
  BY <1>1, <1>2, <1>3 DEF IInv, TimerLists, TimerTrigger
<1>12. OnePlace'
  BY <1>1, <1>2, <1>3, <1>5 DEF IInv, OnePlace, InOnePlace
<1>13. BehindTarget'
  BY <1>1, <1>2, <1>3, <1>5 DEF IInv, BehindTarget, DoneTrigger
<1>14. LostShared'
  BY <1>1, <1>2 DEF IInv, LostShared
<1> QED
  BY <1>0, <1>6, <1>7, <1>8, <1>9, <1>10, <1>11, <1>12, <1>13, <1>14 DEF IInv

(* Every step keeps the invariant. *)
LEMMA NextIInv == IInv /\ [Next]_vars => IInv'
<1> SUFFICES ASSUME IInv, [Next]_vars PROVE IInv'
  OBVIOUS
<1>1. ASSUME NEW m \in Machines, Body(m) PROVE IInv'
  BY <1>1, YieldKeeps, GoKeeps, AwaitFuncKeeps, AwaitTriggerKeeps, AwaitTimerKeeps,
     NotifyTriggerKeeps, FuncReturnsKeeps, FinishKeeps DEF Body
<1>2. ASSUME NEW m \in Machines, Dispatch(m) PROVE IInv'
  BY <1>2, RequeueKeeps, StoreWaiterKeeps, RegisterKeeps, SpawnKeeps DEF Dispatch
<1>3. ASSUME NEW m \in Machines, NEW t \in Tasks, Schedule(m, t) \/ ScheduleUndefined(m, t)
      PROVE  IInv'
  BY <1>3, ScheduleKeeps, ScheduleUndefinedKeeps
<1>4. ASSUME NEW t \in Tasks, TimerFires(t) PROVE IInv'
  BY <1>4, TimerFiresKeeps
<1>5. CASE UNCHANGED vars
  BY <1>5, StutterKeeps
<1> QED
  BY <1>1, <1>2, <1>3, <1>4, <1>5 DEF Next, Spin

(* The inductive invariant: in every reachable state a task that no user's  *)
(* trigger lists is in one place, the task queue, the hands of one machine  *)
(* or one live waiters list (coroutine.h, coroutine.cc, thread_pool.h).     *)
THEOREM Inductive == Spec => []IInv
<1>1. Init => IInv
  BY InitIInv
<1>2. IInv /\ [Next]_vars => IInv'
  BY NextIInv
<1> QED
  BY <1>1, <1>2, PTL DEF Spec

-----------------------------------------------------------------------------
(* What a user of the coroutines relies on *)

(* The indices that triggers keep are entries of wait_queue or -1: notify's *)
(* get stays within the stack, for any number of tasks and machines.        *)
THEOREM TypeCorrect == Spec => []TypeOK
<1>1. IInv => TypeOK
  BY DEF IInv
<1> QED
  BY <1>1, Inductive, PTL

(* A fiber is entered while it runs, or after it has returned, only if the  *)
(* uncleared waiters of a user's trigger name its task: go, yield,          *)
(* await(func) and await(seconds) resubmit a task once per suspension.      *)
THEOREM ReentryIsShared == Spec => []OnlySharedReentered
<1>1. IInv => OnlySharedReentered
  BY RunsTask DEF IInv, LostShared, OnlySharedReentered
<1> QED
  BY <1>1, Inductive, PTL

(* Without triggers of its own a program never enters a fiber twice. *)
THEOREM FibersEnteredOnce ==
  ASSUME Users = {}
  PROVE  Spec => []SingleEntry
<1>1. IInv => SingleEntry
  <2>1. \A t \in Tasks : ~Shared(t)
    BY DEF Shared
  <2> QED
    BY <2>1, RunsTask DEF IInv, LostShared, SingleEntry
<1>2. Spec => []IInv
  BY Inductive
<1> QED
  BY <1>1, <1>2, PTL

(* A body that no user's trigger lists continues after await(func) only     *)
(* when func has returned, on whichever machine it continues.               *)
AwaitOrders ==
  \A t \in Tasks : ~Shared(t) /\ fiber[t] = "running" /\ target[t] # NoTask => Returned(target[t])

(* "run after target in global order" holds of every task that no user's    *)
(* trigger lists.                                                           *)
THEOREM AwaitIsOrdered == Spec => []AwaitOrders
<1>1. IInv => AwaitOrders
  BY DEF IInv, TypeOK, BehindTarget, AwaitOrders
<1> QED
  BY <1>1, Inductive, PTL

(* Without triggers of its own a program continues after await(func) only   *)
(* when func has returned.                                                  *)
THEOREM AwaitRunsAfter ==
  ASSUME Users = {}
  PROVE  Spec => []RunsAfterTarget
<1>1. AwaitOrders => RunsAfterTarget
  <2>1. \A t \in Tasks : ~Shared(t)
    BY DEF Shared
  <2> QED
    BY <2>1 DEF AwaitOrders, RunsAfterTarget, Returned
<1>2. Spec => []AwaitOrders
  BY AwaitIsOrdered
<1> QED
  BY <1>1, <1>2, PTL
=============================================================================
