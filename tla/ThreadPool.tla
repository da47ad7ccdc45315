----------------------------- MODULE ThreadPool -----------------------------
(***************************************************************************)
(* The life of a ThreadPool and its Machines (include/coplus/thread_pool.h *)
(* and machine.h): the pool is constructed, the main thread serves it in   *)
(* as_machine (src/entry.cc), clients submit tasks and resize the pool,    *)
(* and its owner closes and destroys it while machines run tasks.          *)
(*                                                                         *)
(* A task's call ends with kFinished, kReady or kWaiting; what happens in  *)
(* between is the subject of Coroutine; here a waiting task is notified    *)
(* once.  The task queue is a set: pop_hard may miss an element, and       *)
(* push_hard may be refused, once the list of local queues is used up (see *)
(* FastQueue).  A moved Machine keeps its thread and flag, so one is its   *)
(* place in the vector.                                                    *)
(***************************************************************************)
EXTENDS Integers, Sequences, FiniteSets

CONSTANTS
  Clients,              \* threads that call resize
  Owner,                \* the thread that runs as_machine, close and the destructor
  Tasks, MainTask,      \* MainTask is coplus::main, whose future as_machine watches
  NoTask,
  hardware_concurrency,
  limit,                \* failed tries before as_machine looks at the future, 5000 in the code
  IntMax,               \* greatest int
  WaitSize,             \* cells of wait_queue, 1000 in the code
  MaxSize, MaxResize, MaxClose, MaxSuspend, MaxRefuse
                        \* bounds of the model: sizes, calls, suspensions, refused pushes

ASSUME SizesAssumption ==
  /\ hardware_concurrency \in Nat \ {0}  \* 0 would mean unknown, and machines without end
  /\ limit \in Nat /\ IntMax \in Nat /\ limit <= IntMax
  /\ WaitSize \in Nat /\ MaxSize \in Nat /\ MaxResize \in Nat /\ MaxClose \in Nat
  /\ MaxSuspend \in Nat /\ MaxRefuse \in Nat

ASSUME NamesAssumption == Owner \notin Clients /\ MainTask \in Tasks /\ NoTask \notin Tasks

Callers == Clients \cup {Owner}

VARIABLES
  machines,    \* the vector; of each Machine its thread, its flag and the task it runs
  threadSize,
  at,          \* where a call of resize or close is: step, new size and place in the vector
  shrunk,      \* resize has once been called with a smaller size
  resizes, closes, suspends,  \* calls made
  submitted, queue, wait_queue, finished,  \* sets of tasks
  refused,     \* tasks for which push_hard returned false: "push fail" is logged, and no more
  unstored,    \* tasks for which wait_queue.push returned -1
  waits,       \* tasks pushed to wait_queue so far, which never gives a cell back
  mpc, task, retry_count  \* as_machine: where it is, its task and its counter

poolVars == <<machines, threadSize, at, shrunk, resizes, closes>>
mainVars == <<mpc, task, retry_count>>
taskVars == <<submitted, queue, wait_queue, finished, refused, unstored, waits, suspends>>
vars == <<poolVars, mainVars, taskVars>>

(* A Machine begins with its flag false and a thread in front of its loop. *)
NewMachine == [thread |-> "test", close |-> FALSE, task |-> NoTask]

Outside == [pc |-> "idle", size |-> 0, i |-> 0]

(* The constructor counts the main thread in and starts one machine less. *)
Init ==
  /\ machines = [i \in 1 .. hardware_concurrency - 1 |-> NewMachine]
  /\ threadSize = hardware_concurrency
  /\ at = [c \in Callers |-> Outside]
  /\ shrunk = FALSE
  /\ resizes = 0 /\ closes = 0 /\ suspends = 0
  /\ submitted = {MainTask} /\ queue = {MainTask}
  /\ wait_queue = {} /\ finished = {} /\ refused = {} /\ unstored = {} /\ waits = 0
  /\ mpc = "test" /\ task = NoTask /\ retry_count = 0

-----------------------------------------------------------------------------
(* Tasks *)

(* push_hard of a new handle, whose failure is logged *)
push_hard(t) ==
  \/ queue' = queue \cup {t} /\ UNCHANGED refused
  \/ /\ Cardinality(refused) < MaxRefuse
     /\ refused' = refused \cup {t}
     /\ UNCHANGED queue

submit(t) ==
  /\ at[Owner].pc # "end"
  /\ t \notin submitted
  /\ submitted' = submitted \cup {t}
  /\ push_hard(t)
  /\ UNCHANGED <<poolVars, mainVars, wait_queue, finished, unstored, waits, suspends>>

(* A call has returned kFinished, as every FunctionTask does, or kReady or  *)
(* kWaiting, with which a FiberTask suspends itself.                        *)
kFinished(t) ==
  /\ finished' = finished \cup {t}
  /\ UNCHANGED <<queue, refused, wait_queue, unstored, waits, suspends>>

Suspends == suspends < MaxSuspend /\ suspends' = suspends + 1 /\ UNCHANGED finished

kReady(t) == Suspends /\ push_hard(t) /\ UNCHANGED <<wait_queue, unstored, waits>>

(* Without a cell the task is stored nowhere: its trigger gets the id -1.   *)
kWaiting(t) ==
  /\ Suspends
  /\ waits' = waits + 1
  /\ IF waits < WaitSize THEN wait_queue' = wait_queue \cup {t} /\ UNCHANGED unstored
                         ELSE unstored' = unstored \cup {t} /\ UNCHANGED wait_queue
  /\ UNCHANGED <<queue, refused>>

Returned(t) == (kFinished(t) \/ kReady(t) \/ kWaiting(t)) /\ UNCHANGED submitted

(* A trigger or a timer resubmits a waiting task. *)
Notified(t) ==
  /\ t \in wait_queue
  /\ wait_queue' = wait_queue \ {t}
  /\ push_hard(t)
  /\ UNCHANGED <<poolVars, mainVars, submitted, finished, unstored, waits, suspends>>

-----------------------------------------------------------------------------
(* The loop of a Machine's thread *)

restVars == <<threadSize, at, shrunk, resizes, closes>>

Goes(i, pc) == machines' = [machines EXCEPT ![i].thread = pc, ![i].task = NoTask]

(* Mutant: the flag is not looked at. *)
MachineTestNever(i) ==
  /\ machines[i].thread = "test"
  /\ Goes(i, "pop")
  /\ UNCHANGED <<restVars, mainVars, taskVars>>

MachineTest(i) ==
  /\ machines[i].thread = "test"
  /\ Goes(i, IF machines[i].close THEN "exited" ELSE "pop")
  /\ UNCHANGED <<restVars, mainVars, taskVars>>

MachinePop(i, t) ==
  /\ machines[i].thread = "pop"
  /\ t \in queue
  /\ queue' = queue \ {t}
  /\ machines' = [machines EXCEPT ![i].thread = "run", ![i].task = t]
  /\ UNCHANGED <<restVars, mainVars, submitted, wait_queue, finished, refused, unstored, waits, suspends>>

MachinePopFails(i) ==
  /\ machines[i].thread = "pop"
  /\ Goes(i, "test")
  /\ UNCHANGED <<restVars, mainVars, taskVars>>

MachineRun(i) ==
  /\ machines[i].thread = "run"
  /\ Returned(machines[i].task)
  /\ Goes(i, "test")
  /\ UNCHANGED <<restVars, mainVars>>

-----------------------------------------------------------------------------
(* as_machine, with which the main thread serves the pool *)

Lost == refused \cup unstored

(* The future of coplus::main is ready when it has finished.  If its task   *)
(* was lost, the destructor of its packaged_task may have broken the        *)
(* promise, which makes the future ready too.                               *)
FutureReady == {MainTask \in finished} \cup {MainTask \in finished \cup Lost}

MainTest ==
  /\ mpc = "test"
  /\ \E ready \in FutureReady : mpc' = IF retry_count < limit \/ ~ready THEN "pop" ELSE "returned"
  /\ UNCHANGED <<poolVars, taskVars, task, retry_count>>

MainPop(t) ==
  /\ mpc = "pop"
  /\ t \in queue
  /\ queue' = queue \ {t}
  /\ mpc' = "run"
  /\ task' = t
  /\ UNCHANGED <<poolVars, retry_count, submitted, wait_queue, finished, refused, unstored, waits, suspends>>

(* Mutant: a failed try does not count. *)
MainPopFailsUncounted ==
  /\ mpc = "pop"
  /\ mpc' = "test"
  /\ UNCHANGED <<poolVars, taskVars, task, retry_count>>

(* An int; a main that sleeps long enough takes the counter past its range, *)
(* and any int may be the result.                                           *)
MainPopFails ==
  /\ mpc = "pop"
  /\ mpc' = "test"
  /\ IF retry_count = IntMax THEN retry_count' \in -IntMax - 1 .. IntMax
                             ELSE retry_count' = retry_count + 1
  /\ UNCHANGED <<poolVars, taskVars, task>>

MainRun ==
  /\ mpc = "run"
  /\ Returned(task)
  /\ mpc' = "test"
  /\ task' = NoTask
  /\ retry_count' = 0
  /\ UNCHANGED poolVars

-----------------------------------------------------------------------------
(* Machine::join, called for one machine after the other *)

NextMachine(c) == at' = [at EXCEPT ![c].pc = "join", ![c].i = @ + 1]

Join(c) ==
  /\ at[c].pc = "join"
  /\ at[c].i <= Len(machines)
  /\ \/ /\ machines[at[c].i].close
        /\ NextMachine(c)
        /\ UNCHANGED machines
     \/ /\ ~machines[at[c].i].close
        /\ machines' = [machines EXCEPT ![at[c].i].close = TRUE]
        /\ at' = [at EXCEPT ![c].pc = "joining"]
  /\ UNCHANGED <<threadSize, shrunk, resizes, closes, mainVars, taskVars>>

(* Mutant: the flag is set and the thread not waited for. *)
JoinReturnsEarly(c) ==
  /\ at[c].pc = "joining"
  /\ NextMachine(c)
  /\ UNCHANGED <<machines, threadSize, shrunk, resizes, closes, mainVars, taskVars>>

JoinReturns(c) ==
  /\ at[c].pc = "joining"
  /\ machines[at[c].i].thread = "exited"
  /\ machines' = [machines EXCEPT ![at[c].i].thread = "joined"]
  /\ NextMachine(c)
  /\ UNCHANGED <<threadSize, shrunk, resizes, closes, mainVars, taskVars>>

-----------------------------------------------------------------------------
(* resize holds mutating throughout, close and the destructor do not take   *)
(* it: their caller sees to it that no resize runs at the same time.        *)

NobodyInside == \A c \in Callers : at[c].pc = "idle"

(* Mutant: the present size counts as a smaller one. *)
ResizeSame(c, n) ==
  /\ NobodyInside
  /\ resizes < MaxResize
  /\ resizes' = resizes + 1
  /\ at' = [at EXCEPT ![c] = IF n <= threadSize THEN [pc |-> "join", size |-> n, i |-> n + 1]
                                                ELSE [pc |-> "grow", size |-> n, i |-> threadSize]]
  /\ shrunk' = (shrunk \/ n < threadSize)
  /\ UNCHANGED <<machines, threadSize, closes, mainVars, taskVars>>

(* To the present size nothing is done. *)
Resize(c, n) ==
  /\ NobodyInside
  /\ resizes < MaxResize
  /\ resizes' = resizes + 1
  /\ n # threadSize
  /\ at' = [at EXCEPT ![c] = IF n < threadSize THEN [pc |-> "join", size |-> n, i |-> n + 1]
                                               ELSE [pc |-> "grow", size |-> n, i |-> threadSize]]
  /\ shrunk' = (shrunk \/ n < threadSize)
  /\ UNCHANGED <<machines, threadSize, closes, mainVars, taskVars>>

(* The machines behind the first n are destroyed, their flags deleted. *)
Destroyed(n) == machines' = SubSeq(machines, 1, n)

(* machines.resize to the new size *)
Shrink(c) ==
  /\ c \in Clients
  /\ at[c].pc = "join"
  /\ at[c].i > Len(machines)
  /\ Destroyed(at[c].size)
  /\ threadSize' = at[c].size
  /\ at' = [at EXCEPT ![c] = Outside]
  /\ UNCHANGED <<shrunk, resizes, closes, mainVars, taskVars>>

(* Mutant: the vector is enlarged with machines that have no thread. *)
GrowDefault(c) ==
  /\ at[c].pc = "grow"
  /\ at[c].i < at[c].size
  /\ machines' = Append(machines, [NewMachine EXCEPT !.thread = "none"])
  /\ at' = [at EXCEPT ![c].i = @ + 1]
  /\ UNCHANGED <<threadSize, shrunk, resizes, closes, mainVars, taskVars>>

Grow(c) ==
  /\ at[c].pc = "grow"
  /\ at[c].i < at[c].size
  /\ machines' = Append(machines, NewMachine)
  /\ at' = [at EXCEPT ![c].i = @ + 1]
  /\ UNCHANGED <<threadSize, shrunk, resizes, closes, mainVars, taskVars>>

Grown(c) ==
  /\ at[c].pc = "grow"
  /\ at[c].i >= at[c].size
  /\ threadSize' = at[c].size
  /\ at' = [at EXCEPT ![c] = Outside]
  /\ UNCHANGED <<machines, shrunk, resizes, closes, mainVars, taskVars>>

(* close, or the destructor, whose first step it is (size 1 for the latter) *)
close(last) ==
  /\ mpc = "returned"
  /\ NobodyInside
  /\ last = 0 => closes < MaxClose
  /\ closes' = IF last = 0 THEN closes + 1 ELSE closes
  /\ at' = [at EXCEPT ![Owner] = [pc |-> "join", size |-> last, i |-> 1]]
  /\ UNCHANGED <<machines, threadSize, shrunk, resizes, mainVars, taskVars>>

Closed ==
  /\ at[Owner].pc = "join" /\ at[Owner].size = 0
  /\ at[Owner].i > Len(machines)
  /\ at' = [at EXCEPT ![Owner] = Outside]
  /\ UNCHANGED <<machines, threadSize, shrunk, resizes, closes, mainVars, taskVars>>

(* The vector is destroyed with the pool. *)
Destroy ==
  /\ at[Owner].pc = "join" /\ at[Owner].size = 1
  /\ at[Owner].i > Len(machines)
  /\ Destroyed(0)
  /\ at' = [at EXCEPT ![Owner].pc = "end"]
  /\ UNCHANGED <<threadSize, shrunk, resizes, closes, mainVars, taskVars>>

-----------------------------------------------------------------------------
MachineLoop(i) == MachineTest(i) \/ MachinePopFails(i) \/ MachineRun(i)

Take(t) == MainPop(t) \/ \E i \in DOMAIN machines : MachinePop(i, t)

as_machine == MainTest \/ MainPopFails \/ MainRun

Inside(c) == Join(c) \/ JoinReturns(c) \/ Shrink(c) \/ Grow(c) \/ Grown(c)

Ends == Closed \/ Destroy

Over == at[Owner].pc = "end" /\ UNCHANGED vars

Next ==
  \/ \E t \in Tasks : submit(t) \/ Notified(t) \/ Take(t)
  \/ \E i \in DOMAIN machines : MachineLoop(i)
  \/ as_machine
  \/ \E c \in Clients, n \in 0 .. MaxSize : Resize(c, n)
  \/ \E c \in Callers : Inside(c)
  \/ close(0) \/ close(1) \/ Ends
  \/ Over

Spec == Init /\ [][Next]_vars

(* Threads are scheduled, the calls of tasks return, waiting tasks are      *)
(* notified, and pop_hard misses no task for ever.                          *)
Fairness ==
  /\ \A i \in 1 .. hardware_concurrency + MaxSize : WF_vars(i \in DOMAIN machines /\ MachineLoop(i))
  /\ WF_vars(as_machine)
  /\ \A t \in Tasks : SF_vars(Take(t)) /\ WF_vars(Notified(t))
  /\ \A c \in Callers : WF_vars(Inside(c))
  /\ WF_vars(close(1)) /\ WF_vars(Ends)

FairSpec == Spec /\ Fairness

-----------------------------------------------------------------------------
(* Properties *)

TypeOK ==
  /\ machines \in Seq([thread : {"test", "pop", "run", "exited", "joined"},
                       close : BOOLEAN, task : Tasks \cup {NoTask}])
  /\ threadSize \in Nat
  /\ at \in [Callers -> [pc : {"idle", "join", "joining", "grow", "end"}, size : Nat, i : Nat]]
  /\ shrunk \in BOOLEAN
  /\ resizes \in Nat /\ closes \in Nat /\ suspends \in Nat
  /\ submitted \subseteq Tasks /\ queue \subseteq Tasks
  /\ wait_queue \subseteq Tasks /\ finished \subseteq Tasks
  /\ refused \subseteq Tasks /\ unstored \subseteq Tasks /\ waits \in Nat
  /\ mpc \in {"test", "pop", "run", "returned"}
  /\ task \in Tasks \cup {NoTask}
  /\ retry_count \in -IntMax - 1 .. IntMax

(* threadSize counts the main thread until the pool has been made smaller   *)
(* for the first time, and never again; resize always finds as many         *)
(* machines as it keeps, so it never adds one without a thread.             *)
VectorInStep ==
  /\ NobodyInside => Len(machines) = threadSize - (IF shrunk THEN 0 ELSE 1)
  /\ \A c \in Clients : at[c].pc \in {"join", "joining"} => at[c].size <= Len(machines)

(* A Machine is destroyed, by resize or with the pool, only after its       *)
(* thread has been joined: "asserting access to close happen in valid       *)
(* range" (machine.h:12), and no std::thread is destroyed joinable.         *)
JoinedBeforeDestroyed ==
  [][\A i \in DOMAIN machines : i > Len(machines') => machines[i].thread = "joined"]_vars

Held == {machines[i].task : i \in DOMAIN machines} \cup {task}

(* Whatever is resized or closed meanwhile, a submitted task is in exactly  *)
(* one place, in the queue, waiting, in the hands of one scheduler, or      *)
(* finished, or else a push has returned false for it; a machine that is    *)
(* closed finishes the task it has taken.  wait_queue turns a task away     *)
(* only when it has taken WaitSize tasks before.                            *)
TaskInOnePlace ==
  /\ submitted = queue \cup wait_queue \cup finished \cup (Held \ {NoTask}) \cup Lost
  /\ queue \cap (wait_queue \cup finished \cup Held) = {}
  /\ wait_queue \cap (finished \cup Held) = {} /\ finished \cap Held = {}
  /\ Lost \cap (queue \cup wait_queue \cup finished \cup Held) = {} /\ refused \cap unstored = {}
  /\ waits <= WaitSize => unstored = {}
  /\ \A i, j \in DOMAIN machines : i # j /\ machines[i].task # NoTask => machines[i].task # machines[j].task
  /\ \A i \in DOMAIN machines : task # NoTask => machines[i].task # task

(* Every resize returns: a machine that is told to stop does stop. *)
ResizeReturns == \A c \in Clients : at[c].pc # "idle" ~> at[c].pc = "idle"

(* The program ends: coplus::main finishes, as_machine returns, even if its *)
(* counter has overflowed, and the destructor joins what is still running;  *)
(* only a lost coplus::main can keep as_machine waiting for ever.           *)
PoolEnds == <>(at[Owner].pc = "end" \/ MainTask \in Lost)
=============================================================================
