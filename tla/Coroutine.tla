------------------------------ MODULE Coroutine ------------------------------
(***************************************************************************)
(* Fibers on the thread pool: go, yield, await and notify of coroutine.h   *)
(* and coroutine.cc, FiberTask::call and the scheduler body that ThreadPool *)
(* gives to every Machine (and repeats in as_machine and resize).          *)
(*                                                                         *)
(* A task body is any sequence of at most MaxCalls library calls out of    *)
(* Calls, then return.  The task queue is an unordered bag: what FastQueue *)
(* is as long as its local queues have one consumer each or are not full.  *)
(* Its push_hard may be refused, as FastQueue refuses it once the list of  *)
(* local queues is used up; the task is then dropped.  wait_queue          *)
(* (PushOnlyFastStack) is a sequence whose push returns -1 when WaitSize   *)
(* entries were ever stored.                                               *)
(***************************************************************************)
EXTENDS Integers, Sequences, FiniteSets

CONSTANTS
  Machines,  \* threads that run the scheduler body, the main thread included
  Tasks,     \* FiberTask objects
  Main,      \* the task entry.cc starts for coplus::main
  NoTask,    \* the null shared_ptr
  Users,     \* triggers that bodies create and share
  Calls,     \* the library calls that bodies make
  MaxCalls,  \* bound of the model: calls per body
  MaxRefuse, \* bound of the model: refused pushes
  WaitSize   \* capacity of wait_queue, 1000 in the code

ASSUME TasksAssumption == Main \in Tasks /\ NoTask \notin Tasks

ASSUME CallsAssumption ==
  Calls \subseteq {"yield", "go", "await_func", "await_trigger", "await_timer", "notify"}

ASSUME BoundsAssumption == MaxCalls \in Nat /\ MaxRefuse \in Nat /\ WaitSize \in Nat

(* A trigger is named by what it is for: shared by bodies, made by await    *)
(* for the completion of one task, or made by await for a timer of a task.  *)
UserTrigger(u) == <<"user", u>>
DoneTrigger(t) == <<"done", t>>
TimerTrigger(t) == <<"timer", t>>
Triggers == {UserTrigger(u) : u \in Users}
            \cup {DoneTrigger(t) : t \in Tasks} \cup {TimerTrigger(t) : t \in Tasks}

NoTrigger == <<"none", NoTask>>

VARIABLES
  ready,     \* the task queue: how many times each task is in it
  refused,   \* how many of its pushes have returned false
  waitq,     \* wait_queue
  waiters,   \* TriggerData::waiters of each trigger
  timers,    \* tasks whose timer is armed
  fiber,     \* state of each task's fiber
  target,    \* the task a body last awaited
  awaited,   \* tasks made by await(func): they notify before they return
  fuel,      \* calls left to each body
  mpc,       \* where each machine is in the scheduler body
  current,   \* the task it holds
  id,        \* the index wait_queue.push returned
  trigger, wait_for_task  \* FiberData of the machine's thread

taskVars == <<fiber, target, awaited, fuel>>
machineVars == <<mpc, current, id, trigger, wait_for_task>>
vars == <<ready, refused, waitq, waiters, timers, taskVars, machineVars>>

Init ==
  /\ ready = [t \in Tasks |-> IF t = Main THEN 1 ELSE 0]
  /\ refused = 0
  /\ waitq = << >>
  /\ waiters = [g \in Triggers |-> << >>]
  /\ timers = {}
  /\ fiber = [t \in Tasks |-> IF t = Main THEN "new" ELSE "unborn"]
  /\ target = [t \in Tasks |-> NoTask]
  /\ awaited = {}
  /\ fuel = [t \in Tasks |-> MaxCalls]
  /\ mpc = [m \in Machines |-> "poll"]
  /\ current = [m \in Machines |-> NoTask]
  /\ id = [m \in Machines |-> -1]
  /\ trigger = [m \in Machines |-> NoTrigger]
  /\ wait_for_task = [m \in Machines |-> NoTask]

-----------------------------------------------------------------------------
(* The task queue, the wait queue and the triggers *)

(* A refused push is logged, and the task dropped. *)
PushHard(t) ==
  \/ ready' = [ready EXCEPT ![t] = @ + 1] /\ UNCHANGED refused
  \/ refused < MaxRefuse /\ refused' = refused + 1 /\ UNCHANGED ready

(* notify: under the trigger's lock every registered task is pushed into    *)
(* the task queue; an id that get refuses ends the loop; the list stays.    *)
(* The pushes only add to an unordered bag, so they are one step; those of  *)
(* the entries in dropped are refused.                                      *)
Notified(g) ==
  LET ids == waiters[g]
      bad == {i \in DOMAIN ids : ids[i] < 0}
  IN  {i \in DOMAIN ids : \A b \in bad : i < b}

notify(g) ==
  \E dropped \in SUBSET Notified(g) :
    /\ refused' = refused + Cardinality(dropped) /\ refused' <= MaxRefuse
    /\ ready' = [t \in Tasks |->
                   ready[t] + Cardinality({i \in Notified(g) \ dropped : waitq[waiters[g][i] + 1] = t})]

(* The overload for a naked pointer does the same without owning the trigger. *)
notifyNaked(g) == notify(g)

-----------------------------------------------------------------------------
(* The scheduler body *)

(* pop_hard and call: the fiber is created or switched to *)
Schedule(m, t) ==
  /\ mpc[m] = "poll"
  /\ ready[t] > 0
  /\ fiber[t] \in {"new", "suspended"}
  /\ ready' = [ready EXCEPT ![t] = @ - 1]
  /\ fiber' = [fiber EXCEPT ![t] = "running"]
  /\ current' = [current EXCEPT ![m] = t]
  /\ mpc' = [mpc EXCEPT ![m] = "run"]
  /\ UNCHANGED <<refused, waitq, waiters, timers, target, awaited, fuel, id, trigger, wait_for_task>>

(* Switching to a fiber that runs on another thread, or that has returned,  *)
(* is undefined; the thread is taken to be lost.                            *)
ScheduleUndefined(m, t) ==
  /\ mpc[m] = "poll"
  /\ ready[t] > 0
  /\ fiber[t] \in {"running", "leaving", "finished"}
  /\ ready' = [ready EXCEPT ![t] = @ - 1]
  /\ current' = [current EXCEPT ![m] = t]
  /\ mpc' = [mpc EXCEPT ![m] = "lost"]
  /\ UNCHANGED <<refused, waitq, waiters, timers, taskVars, id, trigger, wait_for_task>>

(* Mutant: case kReady without break. *)
RequeueFallThrough(m) ==
  /\ mpc[m] = "ready"
  /\ PushHard(current[m])
  /\ mpc' = [mpc EXCEPT ![m] = IF trigger[m] = NoTrigger THEN "poll" ELSE "waiting"]
  /\ UNCHANGED <<waitq, waiters, timers, taskVars, current, id, trigger, wait_for_task>>

(* case kReady *)
Requeue(m) ==
  /\ mpc[m] = "ready"
  /\ PushHard(current[m])
  /\ mpc' = [mpc EXCEPT ![m] = "poll"]
  /\ UNCHANGED <<waitq, waiters, timers, taskVars, current, id, trigger, wait_for_task>>

(* Mutant: the index after the push instead of before. *)
StoreWaiterPastEnd(m) ==
  /\ mpc[m] = "waiting"
  /\ mpc' = [mpc EXCEPT ![m] = "register"]
  /\ waitq' = Append(waitq, current[m])
  /\ id' = [id EXCEPT ![m] = Len(waitq) + 1]
  /\ UNCHANGED <<ready, refused, waiters, timers, taskVars, current, trigger, wait_for_task>>

(* case kWaiting: wait_queue.push, then Register, then the awaited task *)
StoreWaiter(m) ==
  /\ mpc[m] = "waiting"
  /\ mpc' = [mpc EXCEPT ![m] = "register"]
  /\ IF Len(waitq) < WaitSize
       THEN /\ waitq' = Append(waitq, current[m])
            /\ id' = [id EXCEPT ![m] = Len(waitq)]
       ELSE /\ id' = [id EXCEPT ![m] = -1]
            /\ UNCHANGED waitq
  /\ UNCHANGED <<ready, refused, waiters, timers, taskVars, current, trigger, wait_for_task>>

(* Mutant: the awaited task is pushed before the waiter is registered. *)
RegisterLate(m) ==
  /\ mpc[m] = "register"
  /\ IF wait_for_task[m] = NoTask
       THEN /\ waiters' = [waiters EXCEPT ![trigger[m]] = Append(@, id[m])]
            /\ mpc' = [mpc EXCEPT ![m] = "poll"]
            /\ UNCHANGED <<ready, refused, wait_for_task>>
       ELSE /\ PushHard(wait_for_task[m])
            /\ wait_for_task' = [wait_for_task EXCEPT ![m] = NoTask]
            /\ UNCHANGED <<waiters, mpc>>
  /\ UNCHANGED <<waitq, timers, taskVars, current, id, trigger>>

Register(m) ==
  /\ mpc[m] = "register"
  /\ waiters' = [waiters EXCEPT ![trigger[m]] = Append(@, id[m])]
  /\ mpc' = [mpc EXCEPT ![m] = IF wait_for_task[m] = NoTask THEN "poll" ELSE "spawn"]
  /\ UNCHANGED <<ready, refused, waitq, timers, taskVars, current, id, trigger, wait_for_task>>

Spawn(m) ==
  /\ mpc[m] = "spawn"
  /\ PushHard(wait_for_task[m])
  /\ mpc' = [mpc EXCEPT ![m] = "poll"]
  /\ UNCHANGED <<waitq, waiters, timers, taskVars, current, id, trigger, wait_for_task>>

-----------------------------------------------------------------------------
(* What a running body may call *)

Running(m, call) ==
  /\ mpc[m] = "run"
  /\ fiber[current[m]] = "running"
  /\ call \in Calls
  /\ fuel[current[m]] > 0
  /\ fuel' = [fuel EXCEPT ![current[m]] = @ - 1]

(* ToFiber() to the scheduler, which sees the given status *)
Suspend(m, status) == mpc' = [mpc EXCEPT ![m] = status]

yield(m) ==
  /\ Running(m, "yield")
  /\ Suspend(m, "ready")
  /\ fiber' = [fiber EXCEPT ![current[m]] = "suspended"]
  /\ UNCHANGED <<ready, refused, waitq, waiters, timers, target, awaited, current, id, trigger, wait_for_task>>

go(m, t) ==
  /\ Running(m, "go")
  /\ fiber[t] = "unborn"
  /\ fiber' = [fiber EXCEPT ![t] = "new"]
  /\ PushHard(t)
  /\ UNCHANGED <<waitq, waiters, timers, target, awaited, machineVars>>

(* Mutant: await leaves the status kReady. *)
AwaitFuncNotWaiting(m, t) ==
  /\ Running(m, "await_func")
  /\ fiber[t] = "unborn"
  /\ trigger' = [trigger EXCEPT ![m] = DoneTrigger(t)]
  /\ wait_for_task' = [wait_for_task EXCEPT ![m] = t]
  /\ awaited' = awaited \cup {t}
  /\ target' = [target EXCEPT ![current[m]] = t]
  /\ Suspend(m, "ready")
  /\ fiber' = [fiber EXCEPT ![current[m]] = "suspended", ![t] = "new"]
  /\ UNCHANGED <<ready, refused, waitq, waiters, timers, current, id>>

(* await(func): a task that runs func and then notifies a fresh trigger *)
AwaitFunc(m, t) ==
  /\ Running(m, "await_func")
  /\ fiber[t] = "unborn"
  /\ trigger' = [trigger EXCEPT ![m] = DoneTrigger(t)]
  /\ wait_for_task' = [wait_for_task EXCEPT ![m] = t]
  /\ awaited' = awaited \cup {t}
  /\ target' = [target EXCEPT ![current[m]] = t]
  /\ Suspend(m, "waiting")
  /\ fiber' = [fiber EXCEPT ![current[m]] = "suspended", ![t] = "new"]
  /\ UNCHANGED <<ready, refused, waitq, waiters, timers, current, id>>

AwaitTrigger(m, u) ==
  /\ Running(m, "await_trigger")
  /\ trigger' = [trigger EXCEPT ![m] = UserTrigger(u)]
  /\ wait_for_task' = [wait_for_task EXCEPT ![m] = NoTask]
  /\ target' = [target EXCEPT ![current[m]] = NoTask]
  /\ Suspend(m, "waiting")
  /\ fiber' = [fiber EXCEPT ![current[m]] = "suspended"]
  /\ UNCHANGED <<ready, refused, waitq, waiters, timers, awaited, current, id>>

(* await(seconds): the timer is armed with a fresh trigger, whose waiters    *)
(* list is empty until the scheduler registers the task *)
NewTrigger(g) == waiters' = [waiters EXCEPT ![g] = << >>]

(* The timer is armed at once, before the task has been suspended. *)
ArmTimer(t) == timers' = timers \cup {t}

AwaitTimer(m) ==
  LET g == TimerTrigger(current[m]) IN
  /\ Running(m, "await_timer")
  /\ trigger' = [trigger EXCEPT ![m] = g]
  /\ NewTrigger(g)
  /\ ArmTimer(current[m])
  /\ wait_for_task' = [wait_for_task EXCEPT ![m] = NoTask]
  /\ target' = [target EXCEPT ![current[m]] = NoTask]
  /\ Suspend(m, "waiting")
  /\ fiber' = [fiber EXCEPT ![current[m]] = "suspended"]
  /\ UNCHANGED <<ready, refused, waitq, awaited, current, id>>

NotifyTrigger(m, u) ==
  /\ Running(m, "notify")
  /\ notify(UserTrigger(u))
  /\ UNCHANGED <<waitq, waiters, timers, fiber, target, awaited, machineVars>>

(* timer_callback, on a thread of the system *)
TimerFires(t) ==
  /\ t \in timers
  /\ timers' = timers \ {t}
  /\ notifyNaked(TimerTrigger(t))
  /\ UNCHANGED <<waitq, waiters, taskVars, machineVars>>

(* func has returned: the wrapper made by await(func) notifies, and only    *)
(* then returns *)
FuncReturns(m) ==
  /\ mpc[m] = "run"
  /\ fiber[current[m]] = "running"
  /\ current[m] \in awaited
  /\ notify(DoneTrigger(current[m]))
  /\ fiber' = [fiber EXCEPT ![current[m]] = "leaving"]
  /\ UNCHANGED <<waitq, waiters, timers, target, awaited, fuel, machineVars>>

(* raw_call ends and sets kFinished, the future is ready; case kFinished *)
Finish(m) ==
  /\ mpc[m] = "run"
  /\ fiber[current[m]] = IF current[m] \in awaited THEN "leaving" ELSE "running"
  /\ fiber' = [fiber EXCEPT ![current[m]] = "finished"]
  /\ mpc' = [mpc EXCEPT ![m] = "poll"]
  /\ UNCHANGED <<ready, refused, waitq, waiters, timers, target, awaited, fuel, current, id, trigger, wait_for_task>>

-----------------------------------------------------------------------------
Body(m) ==
  \/ yield(m)
  \/ \E t \in Tasks : go(m, t) \/ AwaitFunc(m, t)
  \/ \E u \in Users : AwaitTrigger(m, u) \/ NotifyTrigger(m, u)
  \/ AwaitTimer(m)
  \/ FuncReturns(m)
  \/ Finish(m)

Dispatch(m) == Requeue(m) \/ StoreWaiter(m) \/ Register(m) \/ Spawn(m)

(* The machines spin on an empty queue. *)
Spin == (\A m \in Machines : mpc[m] \in {"poll", "lost"}) /\ UNCHANGED vars

Next ==
  \/ \E m \in Machines : Body(m) \/ Dispatch(m)
  \/ \E m \in Machines, t \in Tasks : Schedule(m, t) \/ ScheduleUndefined(m, t)
  \/ \E t \in Tasks : TimerFires(t)
  \/ Spin

(* Threads are scheduled, timers fire, bodies return (fuel), and the random *)
(* start of pop_hard passes over no queue for ever.                         *)
Fairness ==
  /\ \A m \in Machines : WF_vars(Body(m)) /\ WF_vars(Dispatch(m))
  /\ \A t \in Tasks : SF_vars(\E m \in Machines : Schedule(m, t))
  /\ \A t \in Tasks : WF_vars(TimerFires(t))

Spec == Init /\ [][Next]_vars
FairSpec == Spec /\ Fairness

-----------------------------------------------------------------------------
(* Properties *)

FiberStates == {"unborn", "new", "suspended", "running", "leaving", "finished"}
MachineStates == {"poll", "run", "ready", "waiting", "register", "spawn", "lost"}

(* Every index kept by a trigger is an entry of wait_queue or the -1 of a   *)
(* full one, so notify's get never leaves the stack.                        *)
TypeOK ==
  /\ ready \in [Tasks -> Nat]
  /\ refused \in Nat
  /\ waitq \in Seq(Tasks) /\ Len(waitq) <= WaitSize
  /\ waiters \in [Triggers -> Seq(-1 .. Len(waitq) - 1)]
  /\ timers \subseteq Tasks
  /\ fiber \in [Tasks -> FiberStates]
  /\ target \in [Tasks -> Tasks \cup {NoTask}]
  /\ awaited \subseteq Tasks
  /\ fuel \in [Tasks -> 0 .. MaxCalls]
  /\ mpc \in [Machines -> MachineStates]
  /\ current \in [Machines -> Tasks \cup {NoTask}]
  /\ id \in [Machines -> -1 .. Len(waitq) - 1]
  /\ trigger \in [Machines -> Triggers \cup {NoTrigger}]
  /\ wait_for_task \in [Machines -> Tasks \cup {NoTask}]

(* "enter: ToFiber(A) and exit: ToFiber(ret_addr) happen in the same thread *)
(* continuously": no machine switches to a fiber that is running on another *)
(* machine or has returned.                                                 *)
SingleEntry == \A m \in Machines : mpc[m] # "lost"

(* await(func), "semantic: run after target in global order": a body that   *)
(* continues after await finds that func has returned.                      *)
RunsAfterTarget ==
  \A t \in Tasks :
    fiber[t] = "running" /\ target[t] # NoTask => fiber[target[t]] \in {"leaving", "finished"}

(* A user's trigger lists the task as a waiter. *)
Shared(t) ==
  \E u \in Users :
    \E j \in DOMAIN waiters[UserTrigger(u)] :
      waiters[UserTrigger(u)][j] >= 0 /\ waitq[waiters[UserTrigger(u)][j] + 1] = t

(* The list of a user's trigger that is never cleared is the only way to    *)
(* enter a fiber twice: await(func), await(seconds), yield and go, in any   *)
(* order and on any machines, resubmit a task once per suspension.          *)
OnlySharedReentered == \A m \in Machines : mpc[m] = "lost" => Shared(current[m])

(* Every task that was started finishes: no await sleeps for ever, no task  *)
(* drops out of the queues, unless a push to the task queue was refused.    *)
EveryTaskFinishes ==
  \A t \in Tasks : (fiber[t] # "unborn") ~> (fiber[t] = "finished" \/ refused > 0)
=============================================================================
