--------------------------- MODULE ThreadPoolProofs ---------------------------
(***************************************************************************)
(* Theorems about ThreadPool, for any number of clients, tasks and         *)
(* machines and any sequence of resizes: the vector agrees with            *)
(* threadSize, machines are joined before they are destroyed, and no task  *)
(* is handed out twice or lost but for a push that returned false.         *)
(***************************************************************************)
EXTENDS ThreadPool, SequenceTheorems, TLAPS

(* Where a machine's thread can be, and a machine.                          *)
Places == {"test", "pop", "run", "exited", "joined"}
Machine == [thread : Places, close : BOOLEAN, task : Tasks \cup {NoTask}]

(* The main thread is counted in until the pool has been made smaller.      *)
MainCounted == IF shrunk THEN 0 ELSE 1

(* A call is walking over the vector, of which it keeps the first Kept(c).  *)
Joining(c) == at[c].pc \in {"join", "joining"}
Kept(c) == IF c = Owner THEN 0 ELSE at[c].size

-----------------------------------------------------------------------------
(* The inductive invariant *)

(* One call at a time is inside, which is what mutating is for.             *)
OneInside ==
  /\ \A c, d \in Callers : at[c].pc # "idle" /\ at[d].pc # "idle" => c = d
  /\ \A c \in Clients : at[c].pc # "end"
  /\ at[Owner].pc # "grow"

(* threadSize says how long the vector is, at each step of a resize.        *)
SizeInStep ==
  /\ NobodyInside \/ at[Owner].pc \in {"join", "joining"} =>
       Len(machines) = threadSize - MainCounted
  /\ \A c \in Clients : at[c].pc = "grow" =>
       at[c].i <= at[c].size /\ Len(machines) = at[c].i - MainCounted
  /\ \A c \in Clients : Joining(c) => shrunk /\ at[c].size <= Len(machines)

(* A machine's flag is set by the call that joins it, and what a walk over  *)
(* the vector has behind it is joined.                                      *)
FlagsInStep ==
  /\ \A j \in DOMAIN machines : machines[j].close =>
       machines[j].thread = "joined" \/ \E c \in Callers : at[c].pc = "joining" /\ at[c].i = j
  /\ \A j \in DOMAIN machines : machines[j].thread = "joined" => machines[j].close
  /\ \A c \in Callers : Joining(c) =>
       /\ at[c].i > Kept(c)
       /\ \A j \in DOMAIN machines : Kept(c) < j /\ j < at[c].i => machines[j].thread = "joined"
  /\ \A c \in Callers : at[c].pc = "joining" =>
       /\ at[c].i \in DOMAIN machines
       /\ machines[at[c].i].close /\ machines[at[c].i].thread # "joined"

(* Whoever runs a task holds it, and nobody else holds one.                 *)
HandsInStep ==
  /\ \A j \in DOMAIN machines : machines[j].thread = "run" <=> machines[j].task # NoTask
  /\ mpc = "run" <=> task # NoTask

IInv == TypeOK /\ OneInside /\ SizeInStep /\ FlagsInStep /\ HandsInStep /\ TaskInOnePlace
-----------------------------------------------------------------------------
(* The vector *)

(* A vector has its machines in the places from 1 to its length.            *)
LEMMA Vector ==
  ASSUME machines \in Seq(Machine)
  PROVE  /\ Len(machines) \in Nat
         /\ DOMAIN machines = 1 .. Len(machines)
         /\ \A j \in DOMAIN machines : machines[j] \in Machine
BY LenProperties

(* Writing to one machine leaves the others as they are.                    *)
LEMMA OneMachine ==
  ASSUME machines \in Seq(Machine), NEW i \in DOMAIN machines, NEW m \in Machine,
         machines' = [machines EXCEPT ![i] = m]
  PROVE  /\ machines' \in Seq(Machine)
         /\ Len(machines') = Len(machines)
         /\ DOMAIN machines' = DOMAIN machines
         /\ machines'[i] = m
         /\ \A j \in DOMAIN machines \ {i} : machines'[j] = machines[j]
BY ExceptSeq, LenProperties

(* A function on the first n numbers is a sequence.                         *)
LEMMA FunctionIsSeq ==
  ASSUME NEW S, NEW n \in Nat, NEW f \in [1 .. n -> S]
  PROVE  f \in Seq(S) /\ Len(f) = n
OBVIOUS

(* What a loop of a machine's thread writes.                                *)
Writes(i, pc, t) == machines' = [machines EXCEPT ![i].thread = pc, ![i].task = t]

(* The write of a thread that goes round its loop.                          *)
LEMMA LoopWrites ==
  ASSUME machines \in Seq(Machine), NEW i \in DOMAIN machines,
         NEW pc \in Places, NEW t \in Tasks \cup {NoTask}, Writes(i, pc, t)
  PROVE  /\ machines' \in Seq(Machine)
         /\ Len(machines') = Len(machines)
         /\ DOMAIN machines' = DOMAIN machines
         /\ machines'[i] = [thread |-> pc, close |-> machines[i].close, task |-> t]
         /\ \A j \in DOMAIN machines \ {i} : machines'[j] = machines[j]
<1>1. machines \in [1 .. Len(machines) -> Machine] /\ Len(machines) \in Nat
  BY LenProperties
<1>2. /\ machines' \in [1 .. Len(machines) -> Machine]
      /\ machines'[i] = [thread |-> pc, close |-> machines[i].close, task |-> t]
      /\ \A j \in 1 .. Len(machines) : j # i => machines'[j] = machines[j]
  BY <1>1 DEF Machine, Places, Writes
<1>3. machines' \in Seq(Machine) /\ Len(machines') = Len(machines)
  <2>1. \A f \in [1 .. Len(machines) -> Machine] : f \in Seq(Machine) /\ Len(f) = Len(machines)
    BY <1>1, FunctionIsSeq, Zenon
  <2> QED
    BY <1>2, <2>1, Zenon
<1> QED
  BY <1>1, <1>2, <1>3

(* What join writes before and after it waits for the thread.               *)
SetsFlag(i) == machines' = [machines EXCEPT ![i].close = TRUE]
Joins(i) == machines' = [machines EXCEPT ![i].thread = "joined"]

(* The writes of join: the flag, then the state of the thread.              *)
LEMMA JoinWrites ==
  ASSUME machines \in Seq(Machine), NEW i \in DOMAIN machines, SetsFlag(i) \/ Joins(i)
  PROVE  /\ machines' \in Seq(Machine)
         /\ Len(machines') = Len(machines)
         /\ DOMAIN machines' = DOMAIN machines
         /\ SetsFlag(i) => machines'[i] = [thread |-> machines[i].thread, close |-> TRUE,
                                           task |-> machines[i].task]
         /\ Joins(i) => machines'[i] = [thread |-> "joined", close |-> machines[i].close,
                                        task |-> machines[i].task]
         /\ \A j \in DOMAIN machines \ {i} : machines'[j] = machines[j]
<1>1. machines \in [1 .. Len(machines) -> Machine] /\ Len(machines) \in Nat
  BY LenProperties
<1>2. /\ machines' \in [1 .. Len(machines) -> Machine]
      /\ \A j \in 1 .. Len(machines) : j # i => machines'[j] = machines[j]
  <2>1. CASE SetsFlag(i)
    BY <1>1, <2>1 DEF Machine, Places, SetsFlag
  <2>2. CASE Joins(i)
    BY <1>1, <2>2 DEF Machine, Places, Joins
  <2> QED
    BY <2>1, <2>2
<1>3. SetsFlag(i) => machines'[i] = [thread |-> machines[i].thread, close |-> TRUE,
                                     task |-> machines[i].task]
  BY <1>1 DEF Machine, Places, SetsFlag
<1>4. Joins(i) => machines'[i] = [thread |-> "joined", close |-> machines[i].close,
                                  task |-> machines[i].task]
  BY <1>1 DEF Machine, Places, Joins
<1>5. machines' \in Seq(Machine) /\ Len(machines') = Len(machines)
  BY <1>1, <1>2, FunctionIsSeq
<1> QED
  BY <1>1, <1>2, <1>3, <1>4, <1>5

(* A grown vector has one machine more, behind the others.                  *)
LEMMA OneMore ==
  ASSUME machines \in Seq(Machine), machines' = Append(machines, NewMachine)
  PROVE  /\ machines' \in Seq(Machine)
         /\ Len(machines') = Len(machines) + 1
         /\ \A j \in DOMAIN machines : machines'[j] = machines[j]
         /\ machines'[Len(machines) + 1] = NewMachine
<1>1. NewMachine \in Machine
  BY DEF NewMachine, Machine, Places
<1> QED
  BY <1>1, AppendProperties, LenProperties

(* A vector cut to n machines has the first n.                              *)
LEMMA FirstOnes ==
  ASSUME machines \in Seq(Machine), NEW n \in 0 .. Len(machines), Destroyed(n)
  PROVE  /\ machines' \in Seq(Machine)
         /\ Len(machines') = n
         /\ DOMAIN machines' = 1 .. n
         /\ \A j \in 1 .. n : machines'[j] = machines[j]
<1>1. /\ SubSeq(machines, 1, n) \in Seq(Machine)
      /\ Len(SubSeq(machines, 1, n)) = IF 1 <= n THEN n - 1 + 1 ELSE 0
      /\ \A j \in 1 .. n - 1 + 1 : SubSeq(machines, 1, n)[j] = machines[1 + j - 1]
  <2>1. 1 \in Int /\ n \in Int /\ \A j \in 1 .. n : machines[j] \in Machine
    BY Vector
  <2> QED
    BY <2>1, SubSeqProperties
<1>2. DOMAIN SubSeq(machines, 1, n) = 1 .. Len(SubSeq(machines, 1, n))
  BY <1>1, LenProperties
<1> QED
  BY <1>1, <1>2, Vector DEF Destroyed

-----------------------------------------------------------------------------
(* Frames *)

(* As far as calls of resize and close can see, nothing happens while       *)
(* machines go round their loops.                                           *)
LEMMA WalkUndisturbed ==
  ASSUME OneInside, SizeInStep, FlagsInStep,
         UNCHANGED <<at, threadSize, shrunk>>,
         Len(machines') = Len(machines), DOMAIN machines' = DOMAIN machines,
         \A j \in DOMAIN machines :
           /\ machines'[j].close = machines[j].close
           /\ machines'[j].thread = "joined" <=> machines[j].thread = "joined"
  PROVE  OneInside' /\ SizeInStep' /\ FlagsInStep'
<1>1. OneInside'
  BY DEF OneInside
<1>2. SizeInStep'
  BY DEF SizeInStep, NobodyInside, MainCounted, Joining
<1>3. FlagsInStep'
  BY DEF FlagsInStep, Joining, Kept
<1> QED
  BY <1>1, <1>2, <1>3

(* As far as tasks are concerned, nothing happens when machines that hold   *)
(* none come and go.                                                        *)
LEMMA HandsSame ==
  ASSUME TaskInOnePlace, UNCHANGED <<task, taskVars>>,
         \A j \in DOMAIN machines' :
           machines'[j].task # NoTask => j \in DOMAIN machines /\ machines'[j].task = machines[j].task,
         \A j \in DOMAIN machines :
           machines[j].task # NoTask => j \in DOMAIN machines' /\ machines'[j].task = machines[j].task,
         submitted \subseteq Tasks, queue \subseteq Tasks, wait_queue \subseteq Tasks, finished \subseteq Tasks,
         refused \subseteq Tasks, unstored \subseteq Tasks
  PROVE  TaskInOnePlace'
<1>1. Held' \ {NoTask} = Held \ {NoTask}
  BY DEF Held
<1>2. NoTask \notin queue \cup wait_queue \cup finished \cup Lost
  BY NamesAssumption DEF Lost
<1>3. UNCHANGED <<submitted, queue, wait_queue, finished, refused, unstored, waits, Lost>>
  BY DEF taskVars, Lost
<1>4. /\ \A i, j \in DOMAIN machines' :
           i # j /\ machines'[i].task # NoTask => machines'[i].task # machines'[j].task
      /\ \A i \in DOMAIN machines' : task' # NoTask => machines'[i].task # task'
  BY DEF TaskInOnePlace
<1> QED
  BY <1>1, <1>2, <1>3, <1>4 DEF TaskInOnePlace

-----------------------------------------------------------------------------
(* Tasks change hands *)

(* No scheduler holds the task of another one.                              *)
Distinct ==
  /\ \A i, j \in DOMAIN machines : i # j /\ machines[i].task # NoTask => machines[i].task # machines[j].task
  /\ \A i \in DOMAIN machines : task # NoTask => machines[i].task # task

(* A task that is taken from the queue is in one pair of hands.             *)
LEMMA TakenOnce ==
  ASSUME TypeOK, TaskInOnePlace, NEW t \in queue,
         queue' = queue \ {t}, UNCHANGED <<submitted, wait_queue, finished, refused, unstored, waits>>,
         Held' \ {NoTask} = (Held \ {NoTask}) \cup {t}, Distinct'
  PROVE  TaskInOnePlace'
<1>1. NoTask \notin queue \cup wait_queue \cup finished \cup Lost /\ t # NoTask
  BY NamesAssumption DEF TypeOK, Lost
<1>2. Lost' = Lost
  BY DEF Lost
<1> QED
  BY <1>1, <1>2 DEF TaskInOnePlace, Distinct

(* A task whose call returns is handed on to one place.                     *)
LEMMA ReturnedOnce ==
  ASSUME TypeOK, TaskInOnePlace, NEW t \in Held \ {NoTask}, Returned(t),
         Held' \ {NoTask} = Held \ {NoTask, t}, Distinct'
  PROVE  TaskInOnePlace'
<1>1. NoTask \notin queue \cup wait_queue \cup finished \cup Lost /\ t # NoTask
  BY NamesAssumption DEF TypeOK, Lost
<1>2. submitted' = submitted
  BY DEF Returned
<1>3. CASE kFinished(t)
  BY <1>1, <1>2, <1>3 DEF kFinished, TaskInOnePlace, Distinct, Lost
<1>4. CASE kReady(t)
  BY <1>1, <1>2, <1>4 DEF kReady, push_hard, Suspends, TaskInOnePlace, Distinct, Lost
<1>5. CASE kWaiting(t)
  <2>1. waits \in Nat /\ WaitSize \in Nat /\ waits' = waits + 1
    BY <1>5, SizesAssumption DEF TypeOK, kWaiting
  <2>2. waits' <= WaitSize => waits < WaitSize /\ unstored' = {}
    BY <1>5, <2>1 DEF kWaiting, TaskInOnePlace
  <2>3. CASE waits < WaitSize
    BY <1>1, <1>2, <1>5, <2>2, <2>3 DEF kWaiting, Suspends, TaskInOnePlace, Distinct, Lost
  <2>4. CASE ~(waits < WaitSize)
    BY <1>1, <1>2, <1>5, <2>2, <2>4 DEF kWaiting, Suspends, TaskInOnePlace, Distinct, Lost
  <2> QED
    BY <2>3, <2>4
<1> QED
  BY <1>3, <1>4, <1>5 DEF Returned

(* ... and the sets of tasks keep their types.                              *)
LEMMA ReturnedTypes ==
  ASSUME TypeOK, NEW t \in Tasks, Returned(t)
  PROVE  /\ submitted' \subseteq Tasks /\ queue' \subseteq Tasks
         /\ wait_queue' \subseteq Tasks /\ finished' \subseteq Tasks /\ suspends' \in Nat
         /\ refused' \subseteq Tasks /\ unstored' \subseteq Tasks /\ waits' \in Nat
BY DEF TypeOK, Returned, kFinished, kReady, kWaiting, Suspends, push_hard

-----------------------------------------------------------------------------
(* Machines *)

(* A machine that tests its flag or finds no task.                          *)
LEMMA LoopKeeps ==
  ASSUME IInv, NEW i \in DOMAIN machines, MachineTest(i) \/ MachinePopFails(i)
  PROVE  IInv'
<1>1. /\ TypeOK /\ machines \in Seq(Machine)
      /\ machines[i].thread \in {"test", "pop"} /\ machines[i].task = NoTask
      /\ UNCHANGED <<restVars, mainVars, taskVars>>
  BY DEF IInv, TypeOK, Machine, Places, MachineTest, MachinePopFails, HandsInStep
<1>2. PICK pc \in Places :
        /\ pc \in {"test", "pop", "exited"}
        /\ Writes(i, pc, NoTask)
  BY DEF Writes, MachineTest, MachinePopFails, Goes, Places
<1>3. /\ machines' \in Seq(Machine)
      /\ Len(machines') = Len(machines)
      /\ DOMAIN machines' = DOMAIN machines
      /\ machines'[i] = [thread |-> pc, close |-> machines[i].close, task |-> NoTask]
      /\ \A j \in DOMAIN machines \ {i} : machines'[j] = machines[j]
  BY <1>1, <1>2, LoopWrites
<1>4. TypeOK'
  BY <1>1, <1>3 DEF TypeOK, Machine, Places, restVars, mainVars, taskVars
<1>5. OneInside' /\ SizeInStep' /\ FlagsInStep'
  BY <1>1, <1>2, <1>3, WalkUndisturbed DEF IInv, restVars
<1>6. HandsInStep'
  BY <1>1, <1>2, <1>3 DEF IInv, HandsInStep, mainVars
<1>7. TaskInOnePlace'
  <2>1. \A j \in DOMAIN machines : machines'[j].task = machines[j].task
    BY <1>1, <1>3
  <2>2. /\ submitted \subseteq Tasks /\ queue \subseteq Tasks
        /\ wait_queue \subseteq Tasks /\ finished \subseteq Tasks
        /\ refused \subseteq Tasks /\ unstored \subseteq Tasks
        /\ UNCHANGED <<task, taskVars>>
    BY <1>1 DEF TypeOK, mainVars
  <2> QED
    BY <1>3, <2>1, <2>2, HandsSame DEF IInv
<1> QED
  BY <1>4, <1>5, <1>6, <1>7 DEF IInv

(* A machine takes a task.                                                  *)
LEMMA MachinePopKeeps ==
  ASSUME IInv, NEW i \in DOMAIN machines, NEW t \in Tasks, MachinePop(i, t)
  PROVE  IInv'
<1>1. /\ TypeOK /\ machines \in Seq(Machine) /\ t # NoTask
      /\ machines[i].thread = "pop" /\ machines[i].task = NoTask
      /\ UNCHANGED <<restVars, mainVars, submitted, wait_queue, finished, refused, unstored, waits, suspends>>
      /\ t \in queue /\ queue' = queue \ {t}
  BY NamesAssumption DEF IInv, TypeOK, Machine, Places, MachinePop, HandsInStep
<1>2. Writes(i, "run", t)
  BY DEF Writes, MachinePop
<1>3. /\ machines' \in Seq(Machine)
      /\ Len(machines') = Len(machines)
      /\ DOMAIN machines' = DOMAIN machines
      /\ machines'[i] = [thread |-> "run", close |-> machines[i].close, task |-> t]
      /\ \A j \in DOMAIN machines \ {i} : machines'[j] = machines[j]
  BY <1>1, <1>2, LoopWrites, Zenon DEF Places
<1>4. TypeOK'
  BY <1>1, <1>3 DEF TypeOK, Machine, Places, restVars, mainVars
<1>5. OneInside' /\ SizeInStep' /\ FlagsInStep'
  BY <1>1, <1>3, WalkUndisturbed DEF IInv, restVars
<1>6. HandsInStep'
  BY <1>1, <1>3 DEF IInv, HandsInStep, mainVars
<1>7. TaskInOnePlace'
  <2>1. Held' \ {NoTask} = (Held \ {NoTask}) \cup {t}
    BY <1>1, <1>3 DEF Held, mainVars
  <2>2. t \notin Held
    BY <1>1 DEF IInv, TaskInOnePlace
  <2>3. Distinct'
    BY <1>1, <1>3, <2>2, SMTT(30) DEF IInv, TaskInOnePlace, Distinct, Held, mainVars
  <2> QED
    BY <1>1, <2>1, <2>3, TakenOnce DEF IInv
<1> QED
  BY <1>4, <1>5, <1>6, <1>7 DEF IInv

(* The call of a machine's task returns.                                    *)
LEMMA MachineRunKeeps ==
  ASSUME IInv, NEW i \in DOMAIN machines, MachineRun(i)
  PROVE  IInv'
<1> DEFINE t == machines[i].task
<1>1. /\ TypeOK /\ machines \in Seq(Machine)
      /\ machines[i].thread = "run" /\ t \in Tasks /\ t # NoTask
      /\ UNCHANGED <<restVars, mainVars>>
      /\ Returned(t)
  BY Vector, NamesAssumption DEF IInv, TypeOK, Machine, Places, MachineRun, HandsInStep
<1>2. Writes(i, "test", NoTask)
  BY DEF Writes, MachineRun, Goes
<1>3. /\ machines' \in Seq(Machine)
      /\ Len(machines') = Len(machines)
      /\ DOMAIN machines' = DOMAIN machines
      /\ machines'[i] = [thread |-> "test", close |-> machines[i].close, task |-> NoTask]
      /\ \A j \in DOMAIN machines \ {i} : machines'[j] = machines[j]
  BY <1>1, <1>2, LoopWrites, Zenon DEF Places
<1>4. TypeOK'
  BY <1>1, <1>3, ReturnedTypes DEF TypeOK, Machine, Places, restVars, mainVars
<1>5. OneInside' /\ SizeInStep' /\ FlagsInStep'
  BY <1>1, <1>3, WalkUndisturbed DEF IInv, restVars
<1>6. HandsInStep'
  BY <1>1, <1>3 DEF IInv, HandsInStep, mainVars
<1>7. TaskInOnePlace'
  <2>1. Held' \ {NoTask} = Held \ {NoTask, t}
    BY <1>1, <1>3 DEF IInv, TaskInOnePlace, Held, mainVars
  <2>2. t \in Held \ {NoTask}
    BY <1>1 DEF Held
  <2>3. Distinct'
    BY <1>1, <1>3 DEF IInv, TaskInOnePlace, Distinct, mainVars
  <2> QED
    BY <1>1, <2>1, <2>2, <2>3, ReturnedOnce DEF IInv
<1> QED
  BY <1>4, <1>5, <1>6, <1>7 DEF IInv

-----------------------------------------------------------------------------
(* Tasks and the main thread *)

(* A task is submitted, or resubmitted by a trigger.                        *)
LEMMA SubmitKeeps ==
  ASSUME IInv, NEW t \in Tasks, submit(t) \/ Notified(t)
  PROVE  IInv'
<1>1. TypeOK /\ UNCHANGED <<poolVars, mainVars>>
  BY DEF IInv, submit, Notified
<1>2. TypeOK'
  BY <1>1 DEF TypeOK, submit, Notified, push_hard, poolVars, mainVars
<1>3. OneInside' /\ SizeInStep' /\ FlagsInStep' /\ HandsInStep'
  BY <1>1 DEF IInv, OneInside, SizeInStep, FlagsInStep, HandsInStep, NobodyInside, MainCounted,
              Joining, Kept, poolVars, mainVars
<1>4. Held' = Held /\ Distinct' /\ machines' = machines /\ task' = task
  BY <1>1 DEF IInv, TaskInOnePlace, Distinct, Held, poolVars, mainVars
<1>5. NoTask \notin queue \cup wait_queue \cup finished \cup Lost /\ t # NoTask
  BY <1>1, NamesAssumption DEF TypeOK, Lost
<1>6. TaskInOnePlace'
  <2>1. CASE submit(t)
    BY <1>4, <1>5, <2>1 DEF IInv, TaskInOnePlace, Distinct, submit, push_hard, Lost
  <2>2. CASE Notified(t)
    BY <1>4, <1>5, <2>2 DEF IInv, TaskInOnePlace, Distinct, Notified, push_hard, Lost
  <2> QED
    BY <2>1, <2>2
<1> QED
  BY <1>2, <1>3, <1>6 DEF IInv

(* as_machine tests its counter or finds no task.                           *)
LEMMA MainLoopKeeps ==
  ASSUME IInv, MainTest \/ MainPopFails
  PROVE  IInv'
<1>1. /\ TypeOK /\ UNCHANGED <<poolVars, taskVars, task>>
      /\ mpc \in {"test", "pop"} /\ mpc' \in {"test", "pop", "returned"}
      /\ retry_count' \in -IntMax - 1 .. IntMax
  BY SizesAssumption DEF IInv, TypeOK, MainTest, MainPopFails, FutureReady
<1>2. TypeOK'
  BY <1>1 DEF TypeOK, poolVars, taskVars
<1>3. OneInside' /\ SizeInStep' /\ FlagsInStep' /\ HandsInStep'
  BY <1>1 DEF IInv, OneInside, SizeInStep, FlagsInStep, HandsInStep, NobodyInside, MainCounted,
              Joining, Kept, poolVars
<1>4. TaskInOnePlace'
  BY <1>1 DEF IInv, TaskInOnePlace, Held, Lost, poolVars, taskVars
<1> QED
  BY <1>2, <1>3, <1>4 DEF IInv

(* as_machine takes a task.                                                 *)
LEMMA MainPopKeeps ==
  ASSUME IInv, NEW t \in Tasks, MainPop(t)
  PROVE  IInv'
<1>1. /\ TypeOK /\ UNCHANGED <<poolVars, retry_count, submitted, wait_queue, finished, refused, unstored, waits, suspends>>
      /\ t \in queue /\ queue' = queue \ {t} /\ t # NoTask
      /\ mpc = "pop" /\ mpc' = "run" /\ task = NoTask /\ task' = t
  BY NamesAssumption DEF IInv, MainPop, HandsInStep
<1>2. TypeOK'
  BY <1>1 DEF TypeOK, poolVars
<1>3. OneInside' /\ SizeInStep' /\ FlagsInStep' /\ HandsInStep'
  BY <1>1 DEF IInv, OneInside, SizeInStep, FlagsInStep, HandsInStep, NobodyInside, MainCounted,
              Joining, Kept, poolVars
<1>4. machines' = machines
  BY <1>1 DEF poolVars
<1>5. Held' \ {NoTask} = (Held \ {NoTask}) \cup {t}
  BY <1>1, <1>4 DEF Held
<1>6. Distinct'
  BY <1>1, <1>4 DEF IInv, TaskInOnePlace, Distinct, Held
<1>7. TaskInOnePlace'
  BY <1>1, <1>5, <1>6, TakenOnce DEF IInv
<1> QED
  BY <1>2, <1>3, <1>7 DEF IInv

(* The call of as_machine's task returns.                                   *)
LEMMA MainRunKeeps ==
  ASSUME IInv, MainRun
  PROVE  IInv'
<1>1. /\ TypeOK /\ UNCHANGED poolVars /\ Returned(task)
      /\ task \in Tasks /\ task # NoTask
      /\ mpc = "run" /\ mpc' = "test" /\ task' = NoTask /\ retry_count' = 0
  BY NamesAssumption DEF IInv, TypeOK, MainRun, HandsInStep
<1>2. TypeOK'
  BY <1>1, ReturnedTypes, SizesAssumption DEF TypeOK, poolVars
<1>3. OneInside' /\ SizeInStep' /\ FlagsInStep' /\ HandsInStep'
  BY <1>1 DEF IInv, OneInside, SizeInStep, FlagsInStep, HandsInStep, NobodyInside, MainCounted,
              Joining, Kept, poolVars
<1>4. machines' = machines
  BY <1>1 DEF poolVars
<1>5. Held' \ {NoTask} = Held \ {NoTask, task}
  BY <1>1, <1>4 DEF IInv, TaskInOnePlace, Held
<1>6. Distinct' /\ task \in Held \ {NoTask}
  BY <1>1, <1>4 DEF IInv, TaskInOnePlace, Distinct, Held
<1>7. TaskInOnePlace'
  BY <1>1, <1>5, <1>6, ReturnedOnce DEF IInv
<1> QED
  BY <1>2, <1>3, <1>7 DEF IInv

-----------------------------------------------------------------------------
(* resize, close and the destructor *)

(* Who is inside is alone, and steps of a call change its own entry.        *)
LEMMA Alone ==
  ASSUME OneInside, NEW c \in Callers, at[c].pc # "idle"
  PROVE  /\ \A d \in Callers \ {c} : at[d].pc = "idle"
         /\ ~NobodyInside
BY DEF OneInside, NobodyInside

(* Steps that leave tasks in their places.                                  *)
LEMMA TasksStay ==
  ASSUME IInv, UNCHANGED <<mainVars, taskVars>>, machines' \in Seq(Machine),
         \A j \in DOMAIN machines' : j \in DOMAIN machines \/ machines'[j] = NewMachine,
         \A j \in DOMAIN machines :
           \/ /\ j \in DOMAIN machines' /\ machines'[j].task = machines[j].task
              /\ machines'[j].thread = "run" <=> machines[j].thread = "run"
           \/ j \notin DOMAIN machines' /\ machines[j].thread # "run"
  PROVE  HandsInStep' /\ TaskInOnePlace'
<1>1. HandsInStep'
  BY DEF IInv, HandsInStep, NewMachine, mainVars
<1>2. TaskInOnePlace'
  <2>1. \A j \in DOMAIN machines' :
          machines'[j].task # NoTask => j \in DOMAIN machines /\ machines'[j].task = machines[j].task
    BY DEF NewMachine
  <2>2. \A j \in DOMAIN machines :
          machines[j].task # NoTask => j \in DOMAIN machines' /\ machines'[j].task = machines[j].task
    BY DEF IInv, HandsInStep
  <2>3. /\ submitted \subseteq Tasks /\ queue \subseteq Tasks
        /\ wait_queue \subseteq Tasks /\ finished \subseteq Tasks
        /\ refused \subseteq Tasks /\ unstored \subseteq Tasks
        /\ UNCHANGED <<task, taskVars>>
    BY DEF IInv, TypeOK, mainVars
  <2> QED
    BY <2>1, <2>2, <2>3, HandsSame DEF IInv
<1> QED
  BY <1>1, <1>2

(* join passes over a machine that is joined and sets the flag of another.  *)
LEMMA JoinKeeps ==
  ASSUME IInv, NEW c \in Callers, Join(c)
  PROVE  IInv'
<1> DEFINE i == at[c].i
           m == machines[i]
<1>1. /\ TypeOK /\ machines \in Seq(Machine)
      /\ at[c].pc = "join" /\ i <= Len(machines)
      /\ UNCHANGED <<threadSize, shrunk, resizes, closes, mainVars, taskVars>>
  BY DEF IInv, TypeOK, Machine, Places, Join
<1>2. i \in DOMAIN machines /\ m \in Machine
  <2>1. i \in Nat /\ i > Kept(c) /\ Kept(c) \in Nat
    BY <1>1 DEF IInv, TypeOK, FlagsInStep, Joining, Kept
  <2> QED
    BY <1>1, <2>1, Vector
<1>3. \A d \in Callers \ {c} : at[d].pc = "idle"
  BY <1>1, Alone DEF IInv
<1>4. CASE m.close
  <2>1. /\ machines' = machines
        /\ at' = [at EXCEPT ![c].pc = "join", ![c].i = @ + 1]
    BY <1>4 DEF Join, NextMachine
  <2>2. /\ at' \in [Callers -> [pc : {"idle", "join", "joining", "grow", "end"}, size : Nat, i : Nat]]
        /\ at'[c].pc = "join" /\ at'[c].i = i + 1 /\ at'[c].size = at[c].size
        /\ \A d \in Callers \ {c} : at'[d] = at[d]
    BY <1>1, <2>1, SMTT(30) DEF TypeOK
  <2>3. TypeOK'
    BY <1>1, <2>1, <2>2 DEF TypeOK, mainVars, taskVars
  <2>4. m.thread = "joined"
    BY <1>1, <1>2, <1>3, <1>4 DEF IInv, FlagsInStep
  <2>5. OneInside'
    BY <1>1, <1>3, <2>2 DEF IInv, OneInside, Callers
  <2>6. SizeInStep'
    BY <1>1, <1>3, <2>1, <2>2 DEF IInv, OneInside, SizeInStep, Joining, NobodyInside, MainCounted, Callers
  <2>7. FlagsInStep'
    BY <1>1, <1>2, <1>3, <2>1, <2>2, <2>4, Vector, SMTT(30) DEF IInv, FlagsInStep, Joining, Kept, TypeOK
  <2>8. HandsInStep' /\ TaskInOnePlace'
    BY <1>1, <2>1, TasksStay
  <2> QED
    BY <2>3, <2>5, <2>6, <2>7, <2>8 DEF IInv
<1>5. CASE ~m.close
  <2>1. /\ SetsFlag(i)
        /\ at' = [at EXCEPT ![c].pc = "joining"]
    BY <1>5 DEF Join, SetsFlag
  <2>2. /\ at' \in [Callers -> [pc : {"idle", "join", "joining", "grow", "end"}, size : Nat, i : Nat]]
        /\ at'[c].pc = "joining" /\ at'[c].i = i /\ at'[c].size = at[c].size
        /\ \A d \in Callers \ {c} : at'[d] = at[d]
    BY <1>1, <2>1 DEF TypeOK
  <2>3. /\ machines' \in Seq(Machine)
        /\ Len(machines') = Len(machines) /\ DOMAIN machines' = DOMAIN machines
        /\ machines'[i] = [thread |-> m.thread, close |-> TRUE, task |-> m.task]
        /\ \A j \in DOMAIN machines \ {i} : machines'[j] = machines[j]
    BY <1>1, <1>2, <2>1, JoinWrites
  <2>4. TypeOK'
    BY <1>1, <2>2, <2>3 DEF TypeOK, Machine, Places, mainVars, taskVars
  <2>5. m.thread # "joined"
    BY <1>2, <1>5 DEF IInv, FlagsInStep
  <2>6. OneInside'
    BY <1>1, <1>3, <2>2 DEF IInv, OneInside, Callers
  <2>7. SizeInStep'
    BY <1>1, <1>3, <2>2, <2>3, ZenonT(30) DEF IInv, OneInside, SizeInStep, Joining, NobodyInside, MainCounted, Callers
  <2>8. FlagsInStep'
    <3>1. \A j \in DOMAIN machines : machines'[j].thread = machines[j].thread
      BY <1>2, <2>3
    <3>2. \A d \in Callers : Joining(d)' <=> Joining(d)
      BY <1>1, <2>2 DEF Joining
    <3>3. \A d \in Callers : Kept(d)' = Kept(d) /\ at'[d].i = at[d].i
      BY <2>2 DEF Kept
    <3>4. \A j \in DOMAIN machines : machines'[j].close <=> machines[j].close \/ j = i
      BY <1>2, <2>3
    <3>5. \A d \in Callers : at'[d].pc = "joining" <=> d = c
      BY <1>3, <2>2
    <3>6. \A j \in DOMAIN machines : machines[j].close => machines[j].thread = "joined"
      BY <1>1, <1>3 DEF IInv, FlagsInStep
    <3>7. \A j \in DOMAIN machines' :
            /\ machines'[j].close =>
                 \/ machines'[j].thread = "joined"
                 \/ \E d \in Callers : at'[d].pc = "joining" /\ at'[d].i = j
            /\ machines'[j].thread = "joined" => machines'[j].close
      BY <2>2, <2>3, <3>1, <3>4, <3>6 DEF IInv, FlagsInStep
    <3>8. \A d \in Callers : Joining(d)' =>
            /\ at'[d].i > Kept(d)'
            /\ \A j \in DOMAIN machines' : Kept(d)' < j /\ j < at'[d].i => machines'[j].thread = "joined"
      BY <2>3, <3>1, <3>2, <3>3 DEF IInv, FlagsInStep
    <3>9. \A d \in Callers : at'[d].pc = "joining" =>
            /\ at'[d].i \in DOMAIN machines'
            /\ machines'[at'[d].i].close /\ machines'[at'[d].i].thread # "joined"
      BY <1>2, <2>2, <2>3, <2>5, <3>1, <3>5
    <3> QED
      BY <3>7, <3>8, <3>9 DEF FlagsInStep
  <2>9. HandsInStep' /\ TaskInOnePlace'
    BY <1>1, <1>2, <2>3, TasksStay
  <2> QED
    BY <2>4, <2>6, <2>7, <2>8, <2>9 DEF IInv
<1> QED
  BY <1>4, <1>5

(* join returns when the thread has exited.                                 *)
LEMMA JoinReturnsKeeps ==
  ASSUME IInv, NEW c \in Callers, JoinReturns(c)
  PROVE  IInv'
<1> DEFINE i == at[c].i
           m == machines[i]
<1>1. /\ TypeOK /\ machines \in Seq(Machine)
      /\ at[c].pc = "joining" /\ m.thread = "exited" /\ Joins(i)
      /\ at' = [at EXCEPT ![c].pc = "join", ![c].i = @ + 1]
      /\ UNCHANGED <<threadSize, shrunk, resizes, closes, mainVars, taskVars>>
  BY DEF IInv, TypeOK, Machine, Places, JoinReturns, Joins, NextMachine
<1>2. i \in DOMAIN machines /\ m \in Machine
  BY <1>1, Vector DEF IInv, FlagsInStep
<1>3. \A d \in Callers \ {c} : at[d].pc = "idle"
  BY <1>1, Alone DEF IInv
<1>4. /\ at' \in [Callers -> [pc : {"idle", "join", "joining", "grow", "end"}, size : Nat, i : Nat]]
      /\ at'[c].pc = "join" /\ at'[c].i = i + 1 /\ at'[c].size = at[c].size
      /\ \A d \in Callers \ {c} : at'[d] = at[d]
  BY <1>1, SMTT(30) DEF TypeOK
<1>5. /\ machines' \in Seq(Machine)
      /\ Len(machines') = Len(machines) /\ DOMAIN machines' = DOMAIN machines
      /\ machines'[i] = [thread |-> "joined", close |-> m.close, task |-> m.task]
      /\ \A j \in DOMAIN machines \ {i} : machines'[j] = machines[j]
  BY <1>1, <1>2, JoinWrites
<1>6. TypeOK'
  BY <1>1, <1>4, <1>5 DEF TypeOK, Machine, Places, mainVars, taskVars
<1>7. OneInside'
  BY <1>1, <1>3, <1>4 DEF IInv, OneInside, Callers
<1>8. SizeInStep'
  BY <1>1, <1>3, <1>4, <1>5 DEF IInv, OneInside, SizeInStep, Joining, NobodyInside, MainCounted, Callers
<1>9. FlagsInStep'
  <2>1. \A d \in Callers : Joining(d)' <=> Joining(d)
    BY <1>1, <1>4 DEF Joining
  <2>2. \A d \in Callers : Kept(d)' = Kept(d)
    BY <1>4 DEF Kept
  <2>3. \A j \in DOMAIN machines : machines'[j].close = machines[j].close
    BY <1>2, <1>5
  <2>4. \A j \in DOMAIN machines : machines'[j].thread = "joined" <=> machines[j].thread = "joined" \/ j = i
    BY <1>2, <1>5
  <2>5. m.close /\ i \in Nat
    BY <1>1 DEF IInv, FlagsInStep, TypeOK
  <2>6. \A j \in DOMAIN machines' :
          /\ machines'[j].close => machines'[j].thread = "joined"
          /\ machines'[j].thread = "joined" => machines'[j].close
    BY <1>3, <1>5, <2>3, <2>4, <2>5 DEF IInv, FlagsInStep
  <2>7. \A d \in Callers : Joining(d)' =>
          /\ at'[d].i > Kept(d)'
          /\ \A j \in DOMAIN machines' : Kept(d)' < j /\ j < at'[d].i => machines'[j].thread = "joined"
    <3>1. \A d \in Callers : Joining(d)' => d = c
      BY <1>3, <2>1 DEF Joining
    <3>2. at[c].i > Kept(c) /\ Kept(c) \in Nat
      BY <1>1 DEF IInv, FlagsInStep, Joining, Kept, TypeOK
    <3>3. \A j \in DOMAIN machines : Kept(c) < j /\ j < i => machines[j].thread = "joined"
      BY <1>1 DEF IInv, FlagsInStep, Joining
    <3>4. \A j \in DOMAIN machines : j < i + 1 => j < i \/ j = i
      BY <1>1, <2>5, Vector
    <3> QED
      BY <1>4, <1>5, <2>2, <2>4, <2>5, <3>1, <3>2, <3>3, <3>4
  <2>8. \A d \in Callers : at'[d].pc # "joining"
    BY <1>3, <1>4
  <2> QED
    BY <2>6, <2>7, <2>8 DEF FlagsInStep
<1>10. HandsInStep' /\ TaskInOnePlace'
  BY <1>1, <1>2, <1>5, TasksStay
<1> QED
  BY <1>6, <1>7, <1>8, <1>9, <1>10 DEF IInv

(* resize starts when nobody is inside: every flag that is set is that of a *)
(* machine that is joined.                                                  *)
LEMMA ResizeKeeps ==
  ASSUME IInv, NEW c \in Clients, NEW n \in 0 .. MaxSize, Resize(c, n)
  PROVE  IInv'
<1>1. /\ TypeOK /\ machines \in Seq(Machine) /\ NobodyInside /\ c \in Callers /\ c # Owner
      /\ n \in Nat /\ n # threadSize /\ shrunk' = (shrunk \/ n < threadSize)
      /\ at' = [at EXCEPT ![c] = IF n < threadSize THEN [pc |-> "join", size |-> n, i |-> n + 1]
                                 ELSE [pc |-> "grow", size |-> n, i |-> threadSize]]
      /\ resizes' \in Nat
      /\ UNCHANGED <<machines, threadSize, closes, mainVars, taskVars>>
  BY NamesAssumption, SizesAssumption DEF IInv, TypeOK, Machine, Places, Resize, Callers
<1>2. /\ \A d \in Callers \ {c} : at'[d] = at[d] /\ at'[d].pc = "idle"
      /\ at'[c] = IF n < threadSize THEN [pc |-> "join", size |-> n, i |-> n + 1]
                                    ELSE [pc |-> "grow", size |-> n, i |-> threadSize]
      /\ at' \in [Callers -> [pc : {"idle", "join", "joining", "grow", "end"}, size : Nat, i : Nat]]
  BY <1>1 DEF TypeOK, NobodyInside
<1>3. TypeOK'
  BY <1>1, <1>2 DEF TypeOK, mainVars, taskVars
<1>4. OneInside'
  BY <1>1, <1>2 DEF OneInside, Callers
<1>5. SizeInStep'
  <2>1. Len(machines) = threadSize - MainCounted /\ Len(machines) \in Nat /\ threadSize \in Nat
    BY <1>1, Vector DEF IInv, SizeInStep, TypeOK
  <2>2. ~NobodyInside' /\ at'[Owner].pc = "idle"
    BY <1>1, <1>2 DEF NobodyInside, Callers
  <2>3. \A d \in Clients \ {c} : at'[d].pc = "idle"
    BY <1>2 DEF Callers
  <2>4. CASE n < threadSize
    <3>1. MainCounted \in {0, 1} /\ shrunk'
      BY <1>1, <2>4 DEF MainCounted
    <3>2. at'[c].pc = "join" /\ at'[c].size = n /\ n <= Len(machines)
      BY <1>1, <1>2, <2>1, <2>4, <3>1
    <3>3. machines' = machines
      BY <1>1
    <3> QED
      BY <2>2, <2>3, <3>1, <3>2, <3>3 DEF SizeInStep, Joining
  <2>5. CASE ~(n < threadSize)
    BY <1>1, <1>2, <2>1, <2>2, <2>3, <2>5, SMTT(30) DEF SizeInStep, Joining, MainCounted, TypeOK
  <2> QED
    BY <2>4, <2>5
<1>6. FlagsInStep'
  <2>1. \A j \in DOMAIN machines : machines[j].close <=> machines[j].thread = "joined"
    BY <1>1 DEF IInv, FlagsInStep, NobodyInside
  <2>2. \A d \in Callers \ {c} : ~Joining(d)'
    BY <1>2 DEF Joining
  <2>3. Joining(c)' => at'[c].i = n + 1 /\ Kept(c)' = n
    BY <1>1, <1>2 DEF Joining, Kept
  <2>4. \A d \in Callers : at'[d].pc # "joining"
    BY <1>1, <1>2
  <2>5. \A j \in DOMAIN machines : ~(n < j /\ j < n + 1)
    BY <1>1, Vector
  <2>6. \A d \in Callers : Joining(d)' =>
          /\ at'[d].i > Kept(d)'
          /\ \A j \in DOMAIN machines' : Kept(d)' < j /\ j < at'[d].i => machines'[j].thread = "joined"
    BY <1>1, <2>2, <2>3, <2>5
  <2> QED
    BY <1>1, <2>1, <2>4, <2>6 DEF FlagsInStep
<1>7. HandsInStep' /\ TaskInOnePlace'
  BY <1>1, TasksStay
<1> QED
  BY <1>3, <1>4, <1>5, <1>6, <1>7 DEF IInv

(* A step of a call to the next place in the vector.                        *)
LEMMA OnePlaceOn ==
  ASSUME TypeOK, NEW c \in Callers, at' = [at EXCEPT ![c].i = @ + 1]
  PROVE  /\ at' \in [Callers -> [pc : {"idle", "join", "joining", "grow", "end"}, size : Nat, i : Nat]]
         /\ at'[c].pc = at[c].pc /\ at'[c].i = at[c].i + 1 /\ at'[c].size = at[c].size
         /\ \A d \in Callers \ {c} : at'[d] = at[d]
<1>1. at \in [Callers -> [pc : {"idle", "join", "joining", "grow", "end"}, size : Nat, i : Nat]]
  BY DEF TypeOK
<1>2. /\ at'[c].pc = at[c].pc /\ at'[c].i = at[c].i + 1 /\ at'[c].size = at[c].size
      /\ \A d \in Callers \ {c} : at'[d] = at[d]
  BY <1>1
<1>3. at' \in [Callers -> [pc : {"idle", "join", "joining", "grow", "end"}, size : Nat, i : Nat]]
  BY <1>1
<1> QED
  BY <1>2, <1>3

(* resize adds a machine.                                                   *)
LEMMA GrowKeeps ==
  ASSUME IInv, NEW c \in Callers, Grow(c)
  PROVE  IInv'
<1>1. /\ TypeOK /\ machines \in Seq(Machine)
      /\ at[c].pc = "grow" /\ at[c].i < at[c].size
      /\ machines' = Append(machines, NewMachine)
      /\ at' = [at EXCEPT ![c].i = @ + 1]
      /\ UNCHANGED <<threadSize, shrunk, resizes, closes, mainVars, taskVars>>
  BY DEF IInv, TypeOK, Machine, Places, Grow
<1>2. \A d \in Callers \ {c} : at[d].pc = "idle"
  BY <1>1, Alone DEF IInv
<1>3. /\ at' \in [Callers -> [pc : {"idle", "join", "joining", "grow", "end"}, size : Nat, i : Nat]]
      /\ at'[c].pc = "grow" /\ at'[c].i = at[c].i + 1 /\ at'[c].size = at[c].size
      /\ \A d \in Callers \ {c} : at'[d] = at[d]
  BY <1>1, OnePlaceOn
<1>4. /\ machines' \in Seq(Machine)
      /\ Len(machines') = Len(machines) + 1
      /\ \A j \in DOMAIN machines : machines'[j] = machines[j]
      /\ machines'[Len(machines) + 1] = NewMachine
  BY <1>1, OneMore
<1>5. DOMAIN machines' = DOMAIN machines \cup {Len(machines) + 1} /\ Len(machines) \in Nat
  BY <1>1, <1>4, LenProperties
<1>6. TypeOK'
  BY <1>1, <1>3, <1>4 DEF TypeOK, Machine, Places, mainVars, taskVars
<1>7. OneInside'
  BY <1>1, <1>2, <1>3 DEF IInv, OneInside, Callers
<1>8. SizeInStep'
  <2>1. c \in Clients /\ at[c].i \in Nat /\ at[c].size \in Nat
    BY <1>1 DEF IInv, OneInside, Callers, TypeOK
  <2>2. Len(machines) = at[c].i - MainCounted
    BY <1>1, <2>1 DEF IInv, SizeInStep
  <2>3. ~NobodyInside' /\ at'[Owner].pc = "idle" /\ \A d \in Clients \ {c} : at'[d].pc = "idle"
    BY <1>2, <1>3, <2>1, NamesAssumption DEF NobodyInside, Callers
  <2>4. MainCounted' = MainCounted /\ MainCounted \in {0, 1}
    BY <1>1 DEF MainCounted
  <2>5. \A d \in Clients : ~Joining(d)'
    BY <1>3, <2>3 DEF Joining
  <2> QED
    BY <1>1, <1>3, <1>4, <1>5, <2>1, <2>2, <2>3, <2>4, <2>5, SMTT(30) DEF SizeInStep
<1>9. FlagsInStep'
  <2>1. \A d \in Callers : ~Joining(d)' /\ at'[d].pc # "joining" /\ at[d].pc # "joining"
    BY <1>1, <1>2, <1>3 DEF Joining
  <2>2. \A j \in DOMAIN machines' : machines'[j].close <=> machines'[j].thread = "joined"
    BY <1>4, <1>5, <2>1 DEF IInv, FlagsInStep, NewMachine
  <2> QED
    BY <2>1, <2>2 DEF FlagsInStep
<1>10. HandsInStep' /\ TaskInOnePlace'
  BY <1>1, <1>4, <1>5, TasksStay
<1> QED
  BY <1>6, <1>7, <1>8, <1>9, <1>10 DEF IInv

(* A call that ends without touching the vector.                            *)
LEMMA LeaveKeeps ==
  ASSUME IInv, NEW c \in Callers, Grown(c) \/ (c = Owner /\ Closed)
  PROVE  IInv'
<1>1. /\ TypeOK /\ machines \in Seq(Machine) /\ at[c].pc \in {"grow", "join"}
      /\ at' = [at EXCEPT ![c] = Outside]
      /\ UNCHANGED <<machines, shrunk, resizes, closes, mainVars, taskVars>>
  BY DEF IInv, TypeOK, Machine, Places, Grown, Closed
<1>2. \A d \in Callers \ {c} : at[d].pc = "idle"
  BY <1>1, Alone DEF IInv
<1>3. /\ at' \in [Callers -> [pc : {"idle", "join", "joining", "grow", "end"}, size : Nat, i : Nat]]
      /\ \A d \in Callers : at'[d].pc = "idle"
  BY <1>1, <1>2 DEF TypeOK, Outside
<1>4. threadSize' \in Nat /\ Len(machines) = threadSize' - MainCounted
  <2>1. CASE Grown(c)
    <3>1. c \in Clients /\ at[c].pc = "grow" /\ at[c].i >= at[c].size /\ threadSize' = at[c].size
      BY <2>1 DEF IInv, OneInside, Grown, Callers
    <3>2. at[c].i <= at[c].size /\ Len(machines) = at[c].i - MainCounted
      BY <3>1 DEF IInv, SizeInStep
    <3> QED
      BY <1>1, <3>1, <3>2 DEF TypeOK
  <2>2. CASE c = Owner /\ Closed
    BY <1>1, <2>2 DEF IInv, SizeInStep, TypeOK, Closed
  <2> QED
    BY <2>1, <2>2
<1>5. TypeOK'
  BY <1>1, <1>3, <1>4 DEF TypeOK, mainVars, taskVars
<1>6. OneInside'
  BY <1>3 DEF OneInside, Callers
<1>7. SizeInStep'
  BY <1>1, <1>3, <1>4 DEF SizeInStep, Joining, MainCounted, Callers
<1>8. FlagsInStep'
  <2>1. \A d \in Callers : ~Joining(d)' /\ at'[d].pc # "joining" /\ at[d].pc # "joining"
    BY <1>1, <1>2, <1>3 DEF Joining
  <2>2. \A j \in DOMAIN machines' : machines'[j].close <=> machines'[j].thread = "joined"
    BY <1>1, <2>1 DEF IInv, FlagsInStep
  <2> QED
    BY <2>1, <2>2 DEF FlagsInStep
<1>9. HandsInStep' /\ TaskInOnePlace'
  BY <1>1, TasksStay
<1> QED
  BY <1>5, <1>6, <1>7, <1>8, <1>9 DEF IInv

(* close and the destructor start at the first machine.                     *)
LEMMA CloseKeeps ==
  ASSUME IInv, NEW last \in {0, 1}, close(last)
  PROVE  IInv'
<1>1. /\ TypeOK /\ machines \in Seq(Machine) /\ NobodyInside /\ Owner \in Callers
      /\ at' = [at EXCEPT ![Owner] = [pc |-> "join", size |-> last, i |-> 1]]
      /\ closes' \in Nat
      /\ UNCHANGED <<machines, threadSize, shrunk, resizes, mainVars, taskVars>>
  BY DEF IInv, TypeOK, Machine, Places, close, Callers
<1>2. /\ at' \in [Callers -> [pc : {"idle", "join", "joining", "grow", "end"}, size : Nat, i : Nat]]
      /\ at'[Owner].pc = "join" /\ at'[Owner].i = 1
      /\ \A d \in Callers \ {Owner} : at'[d] = at[d] /\ at'[d].pc = "idle"
  BY <1>1 DEF TypeOK, NobodyInside
<1>3. TypeOK'
  BY <1>1, <1>2 DEF TypeOK, mainVars, taskVars
<1>4. OneInside'
  BY <1>1, <1>2, NamesAssumption DEF OneInside, Callers
<1>5. SizeInStep'
  <2>1. \A d \in Clients : at'[d].pc = "idle"
    BY <1>2, NamesAssumption DEF Callers
  <2> QED
    BY <1>1, <1>2, <2>1 DEF IInv, SizeInStep, Joining, MainCounted
<1>6. FlagsInStep'
  <2>1. \A j \in DOMAIN machines : machines[j].close <=> machines[j].thread = "joined"
    BY <1>1 DEF IInv, FlagsInStep, NobodyInside
  <2>2. \A d \in Callers : at'[d].pc # "joining" /\ (Joining(d)' => d = Owner)
    BY <1>2 DEF Joining
  <2>3. Kept(Owner)' = 0 /\ \A j \in DOMAIN machines : ~(0 < j /\ j < 1)
    BY <1>1, Vector DEF Kept
  <2>4. \A d \in Callers : Joining(d)' =>
          /\ at'[d].i > Kept(d)'
          /\ \A j \in DOMAIN machines' : Kept(d)' < j /\ j < at'[d].i => machines'[j].thread = "joined"
    BY <1>1, <1>2, <2>2, <2>3
  <2> QED
    BY <1>1, <2>1, <2>2, <2>4 DEF FlagsInStep
<1>7. HandsInStep' /\ TaskInOnePlace'
  BY <1>1, TasksStay
<1> QED
  BY <1>3, <1>4, <1>5, <1>6, <1>7 DEF IInv

(* The machines behind the first Kept(c) are joined when the walk is over,  *)
(* so what is destroyed has neither a thread nor a task.                    *)
LEMMA WalkOver ==
  ASSUME IInv, NEW c \in Callers, at[c].pc = "join", at[c].i > Len(machines)
  PROVE  \A j \in DOMAIN machines : j > Kept(c) => machines[j].thread = "joined"
<1>1. \A j \in DOMAIN machines : j \in Nat /\ j < at[c].i
  BY Vector DEF IInv, TypeOK, Machine, Places
<1>2. Kept(c) \in Nat
  BY DEF IInv, TypeOK, Kept
<1> QED
  BY <1>1, <1>2 DEF IInv, FlagsInStep, Joining

(* resize cuts the vector behind the machines it keeps.                     *)
LEMMA ShrinkKeeps ==
  ASSUME IInv, NEW c \in Callers, Shrink(c)
  PROVE  IInv'
<1> DEFINE n == at[c].size
<1>1. /\ TypeOK /\ machines \in Seq(Machine) /\ c \in Clients /\ c # Owner
      /\ at[c].pc = "join" /\ at[c].i > Len(machines)
      /\ Destroyed(n) /\ threadSize' = n /\ at' = [at EXCEPT ![c] = Outside]
      /\ UNCHANGED <<shrunk, resizes, closes, mainVars, taskVars>>
  BY NamesAssumption DEF IInv, TypeOK, Machine, Places, Shrink
<1>2. \A d \in Callers \ {c} : at[d].pc = "idle"
  BY <1>1, Alone DEF IInv
<1>3. /\ at' \in [Callers -> [pc : {"idle", "join", "joining", "grow", "end"}, size : Nat, i : Nat]]
      /\ \A d \in Callers : at'[d].pc = "idle"
  BY <1>1, <1>2 DEF TypeOK, Outside
<1>4. n \in 0 .. Len(machines) /\ shrunk
  <2>1. n <= Len(machines) /\ shrunk
    BY <1>1 DEF IInv, SizeInStep, Joining
  <2>2. n \in Nat /\ Len(machines) \in Nat
    BY <1>1, Vector DEF TypeOK
  <2> QED
    BY <2>1, <2>2
<1>5. /\ machines' \in Seq(Machine) /\ Len(machines') = n /\ DOMAIN machines' = 1 .. n
      /\ \A j \in 1 .. n : machines'[j] = machines[j]
  BY <1>1, <1>4, FirstOnes
<1>6. \A j \in DOMAIN machines : j \notin 1 .. n => machines[j].thread = "joined"
  <2>1. \A j \in DOMAIN machines : j \notin 1 .. n => j > Kept(c)
    BY <1>1, <1>4, Vector DEF Kept
  <2> QED
    BY <1>1, <2>1, WalkOver
<1>a. 1 .. n \subseteq DOMAIN machines
  BY <1>1, <1>4, Vector
<1>7. TypeOK'
  BY <1>1, <1>3, <1>4, <1>5 DEF TypeOK, Machine, Places, mainVars, taskVars
<1>8. OneInside'
  BY <1>3 DEF OneInside, Callers
<1>9. SizeInStep'
  BY <1>1, <1>3, <1>4, <1>5 DEF SizeInStep, Joining, MainCounted, Callers
<1>10. FlagsInStep'
  <2>1. \A d \in Callers : ~Joining(d)' /\ at'[d].pc # "joining" /\ at[d].pc # "joining"
    BY <1>1, <1>2, <1>3 DEF Joining
  <2>2. \A j \in DOMAIN machines' : machines'[j].close <=> machines'[j].thread = "joined"
    BY <1>5, <1>a, <2>1 DEF IInv, FlagsInStep
  <2> QED
    BY <2>1, <2>2 DEF FlagsInStep
<1>11. HandsInStep' /\ TaskInOnePlace'
  <2>1. \A j \in DOMAIN machines' : j \in DOMAIN machines
    BY <1>5, <1>a
  <2>2. \A j \in DOMAIN machines :
           \/ /\ j \in DOMAIN machines' /\ machines'[j].task = machines[j].task
              /\ machines'[j].thread = "run" <=> machines[j].thread = "run"
           \/ j \notin DOMAIN machines' /\ machines[j].thread # "run"
    BY <1>5, <1>6
  <2> QED
    BY <1>1, <1>5, <2>1, <2>2, TasksStay
<1> QED
  BY <1>7, <1>8, <1>9, <1>10, <1>11 DEF IInv

(* The destructor destroys the vector.                                      *)
LEMMA DestroyKeeps ==
  ASSUME IInv, Destroy
  PROVE  IInv'
<1>1. /\ TypeOK /\ machines \in Seq(Machine) /\ Owner \in Callers
      /\ at[Owner].pc = "join" /\ at[Owner].i > Len(machines)
      /\ Destroyed(0) /\ at' = [at EXCEPT ![Owner].pc = "end"]
      /\ UNCHANGED <<threadSize, shrunk, resizes, closes, mainVars, taskVars>>
  BY DEF IInv, TypeOK, Machine, Places, Destroy, Callers
<1>2. \A d \in Callers \ {Owner} : at[d].pc = "idle"
  BY <1>1, Alone DEF IInv
<1>3. /\ at' \in [Callers -> [pc : {"idle", "join", "joining", "grow", "end"}, size : Nat, i : Nat]]
      /\ at'[Owner].pc = "end"
      /\ \A d \in Callers \ {Owner} : at'[d] = at[d]
  BY <1>1 DEF TypeOK
<1>4. machines' \in Seq(Machine) /\ DOMAIN machines' = {}
  <2>1. 0 \in 0 .. Len(machines)
    BY <1>1, Vector
  <2>2. machines' \in Seq(Machine) /\ DOMAIN machines' = 1 .. 0
    BY <1>1, <2>1, FirstOnes
  <2> QED
    BY <2>2
<1>5. \A j \in DOMAIN machines : machines[j].thread = "joined"
  <2>1. \A j \in DOMAIN machines : j > Kept(Owner)
    BY <1>1, Vector DEF Kept
  <2> QED
    BY <1>1, <2>1, WalkOver
<1>6. TypeOK'
  BY <1>1, <1>3, <1>4 DEF TypeOK, Machine, Places, mainVars, taskVars
<1>7. OneInside'
  BY <1>1, <1>2, <1>3, NamesAssumption DEF IInv, OneInside, Callers
<1>8. SizeInStep'
  <2>1. \A d \in Clients : at'[d].pc = "idle"
    BY <1>2, <1>3, NamesAssumption DEF Callers
  <2>2. ~NobodyInside'
    BY <1>1, <1>3 DEF NobodyInside
  <2> QED
    BY <1>3, <2>1, <2>2 DEF SizeInStep, Joining
<1>9. FlagsInStep'
  <2>1. \A d \in Callers : ~Joining(d)' /\ at'[d].pc # "joining"
    BY <1>2, <1>3 DEF Joining
  <2> QED
    BY <1>4, <2>1 DEF FlagsInStep
<1>10. HandsInStep' /\ TaskInOnePlace'
  BY <1>1, <1>4, <1>5, TasksStay
<1> QED
  BY <1>6, <1>7, <1>8, <1>9, <1>10 DEF IInv

-----------------------------------------------------------------------------
(* Theorems *)

(* The constructor establishes the invariant.                               *)
LEMMA InitIInv == Init => IInv
<1> SUFFICES ASSUME Init
             PROVE  IInv
  OBVIOUS
<1>1. NewMachine \in Machine /\ hardware_concurrency - 1 \in Nat
  BY SizesAssumption DEF NewMachine, Machine, Places
<1>2. machines \in [1 .. hardware_concurrency - 1 -> Machine]
  BY <1>1 DEF Init
<1>3. machines \in Seq(Machine) /\ Len(machines) = hardware_concurrency - 1
  BY <1>1, <1>2, FunctionIsSeq
<1>4. \A j \in DOMAIN machines : machines[j] = NewMachine
  BY DEF Init
<1>5. TypeOK
  <2>1. at \in [Callers -> [pc : {"idle", "join", "joining", "grow", "end"}, size : Nat, i : Nat]]
    BY DEF Init, Outside
  <2>2. retry_count \in -IntMax - 1 .. IntMax /\ threadSize \in Nat
    BY SizesAssumption DEF Init
  <2>3. /\ submitted \subseteq Tasks /\ queue \subseteq Tasks
        /\ wait_queue \subseteq Tasks /\ finished \subseteq Tasks
        /\ refused \subseteq Tasks /\ unstored \subseteq Tasks
    BY NamesAssumption DEF Init
  <2>4. /\ machines \in Seq([thread : {"test", "pop", "run", "exited", "joined"},
                             close : BOOLEAN, task : Tasks \cup {NoTask}])
        /\ shrunk \in BOOLEAN /\ task \in Tasks \cup {NoTask}
    BY <1>3 DEF Init, Machine, Places
  <2> QED
    BY <2>1, <2>2, <2>3, <2>4 DEF Init, TypeOK
<1>6. \A c \in Callers : at[c] = Outside
  BY DEF Init
<1>7. OneInside
  BY <1>6 DEF OneInside, Outside, Callers
<1>8. SizeInStep
  <2>1. Len(machines) = threadSize - MainCounted
    BY <1>3, SizesAssumption DEF Init, MainCounted
  <2> QED
    BY <1>6, <2>1 DEF SizeInStep, Outside, Callers, Joining
<1>9. FlagsInStep /\ HandsInStep
  BY <1>4, <1>6 DEF Init, FlagsInStep, HandsInStep, NewMachine, Outside, Joining
<1>10. TaskInOnePlace
  <2>1. Held \subseteq {NoTask} /\ Lost = {}
    BY <1>4 DEF Init, Held, NewMachine, Lost
  <2> QED
    BY <1>4, <2>1, NamesAssumption DEF Init, TaskInOnePlace, NewMachine
<1> QED
  BY <1>5, <1>7, <1>8, <1>9, <1>10 DEF IInv

(* Every step keeps the invariant.                                          *)
LEMMA NextIInv == IInv /\ [Next]_vars => IInv'
<1> SUFFICES ASSUME IInv, [Next]_vars
             PROVE  IInv'
  OBVIOUS
<1>1. ASSUME NEW t \in Tasks, submit(t) \/ Notified(t) \/ Take(t)
      PROVE  IInv'
  BY <1>1, SubmitKeeps, MainPopKeeps, MachinePopKeeps DEF Take
<1>2. ASSUME NEW i \in DOMAIN machines, MachineLoop(i)
      PROVE  IInv'
  BY <1>2, LoopKeeps, MachineRunKeeps DEF MachineLoop
<1>3. CASE as_machine
  BY <1>3, MainLoopKeeps, MainRunKeeps DEF as_machine
<1>4. ASSUME NEW c \in Clients, NEW n \in 0 .. MaxSize, Resize(c, n)
      PROVE  IInv'
  BY <1>4, ResizeKeeps
<1>5. ASSUME NEW c \in Callers, Inside(c)
      PROVE  IInv'
  BY <1>5, JoinKeeps, JoinReturnsKeeps, ShrinkKeeps, GrowKeeps, LeaveKeeps DEF Inside
<1>6. CASE close(0) \/ close(1)
  BY <1>6, CloseKeeps
<1>7. CASE Ends
  BY <1>7, LeaveKeeps, DestroyKeeps DEF Ends, Callers
<1>8. CASE UNCHANGED vars
  BY <1>8 DEF vars, poolVars, mainVars, taskVars, IInv, TypeOK, OneInside, SizeInStep, FlagsInStep,
              HandsInStep, TaskInOnePlace, NobodyInside, MainCounted, Joining, Kept, Held, Lost
<1> QED
  BY <1>1, <1>2, <1>3, <1>4, <1>5, <1>6, <1>7, <1>8 DEF Next, Over

(* The inductive invariant, for any numbers of clients, machines and tasks. *)
THEOREM Inductive == Spec => []IInv
BY InitIInv, NextIInv, PTL DEF Spec

(* The state of the pool, its machines and its calls keeps its types; in    *)
(* particular no machine is ever without a thread.                          *)
THEOREM TypeCorrect == Spec => []TypeOK
BY Inductive, PTL DEF IInv

(* threadSize and the vector agree whenever nobody is in resize, and a      *)
(* resize that shrinks the pool finds the machines it keeps.                *)
THEOREM VectorAgrees == Spec => []VectorInStep
<1>1. IInv => VectorInStep
  BY DEF IInv, SizeInStep, VectorInStep, MainCounted, Joining
<1> QED
  BY <1>1, Inductive, PTL

(* Through any sequence of resizes, closes and the destructor a submitted   *)
(* task is in exactly one place, or one push to the task queue or to a      *)
(* wait_queue that is used up has returned false for it.                    *)
THEOREM TaskNeverLost == Spec => []TaskInOnePlace
BY Inductive, PTL DEF IInv

(* No Machine is destroyed before its thread has been joined.               *)
THEOREM JoinedFirst == Spec => JoinedBeforeDestroyed
<1> DEFINE Good == \A i \in DOMAIN machines : i > Len(machines') => machines[i].thread = "joined"
<1>1. IInv /\ [Next]_vars => [Good]_vars
  <2> SUFFICES ASSUME IInv, [Next]_vars
               PROVE  Good \/ UNCHANGED vars
    OBVIOUS
  <2>a. machines \in Seq(Machine) /\ DOMAIN machines = 1 .. Len(machines) /\ Len(machines) \in Nat
    BY Vector DEF IInv, TypeOK, Machine, Places
  <2>b. ASSUME Len(machines') >= Len(machines)
        PROVE  Good
    BY <2>a, <2>b
  <2>1. ASSUME NEW t \in Tasks, submit(t) \/ Notified(t) \/ Take(t)
        PROVE  Good
    <3>1. CASE machines' = machines
      BY <2>a, <2>b, <3>1
    <3>2. ASSUME NEW i \in DOMAIN machines, MachinePop(i, t)
          PROVE  Good
      <4>1. Writes(i, "run", t)
        BY <3>2 DEF MachinePop, Writes
      <4>2. Len(machines') = Len(machines)
        BY <2>a, <4>1, LoopWrites DEF Places
      <4> QED
        BY <2>a, <2>b, <4>2
    <3> QED
      BY <2>1, <3>1, <3>2 DEF submit, Notified, Take, MainPop, poolVars
  <2>2. ASSUME NEW i \in DOMAIN machines, MachineLoop(i)
        PROVE  Good
    <3>1. PICK pc \in Places : Writes(i, pc, NoTask)
      BY <2>2 DEF MachineLoop, MachineTest, MachinePopFails, MachineRun, Goes, Writes, Places
    <3>2. Len(machines') = Len(machines)
      BY <2>a, <3>1, LoopWrites
    <3> QED
      BY <2>a, <2>b, <3>2
  <2>3. CASE as_machine \/ close(0) \/ close(1) \/ Closed
               \/ (\E c \in Clients, n \in 0 .. MaxSize : Resize(c, n))
    <3>1. machines' = machines
      BY <2>3 DEF as_machine, MainTest, MainPopFails, MainRun, poolVars, close, Closed, Resize
    <3> QED
      BY <2>a, <2>b, <3>1
  <2>4. ASSUME NEW c \in Callers, Inside(c)
        PROVE  Good
    <3>1. CASE Join(c) \/ JoinReturns(c)
      <4>1. machines' = machines \/ SetsFlag(at[c].i) \/ Joins(at[c].i)
        BY <3>1 DEF Join, JoinReturns, SetsFlag, Joins
      <4>2. machines' # machines => at[c].i \in DOMAIN machines
        <5>1. at[c].i \in Nat /\ (Joining(c) => at[c].i > Kept(c) /\ Kept(c) \in Nat)
          BY DEF IInv, TypeOK, FlagsInStep, Kept
        <5>2. CASE Join(c)
          BY <2>a, <5>1, <5>2 DEF Join, Joining
        <5>3. CASE JoinReturns(c)
          BY <5>3 DEF IInv, FlagsInStep, JoinReturns
        <5> QED
          BY <3>1, <5>2, <5>3
      <4>3. Len(machines') = Len(machines)
        BY <2>a, <4>1, <4>2, JoinWrites
      <4> QED
        BY <2>a, <2>b, <4>3
    <3>2. CASE Shrink(c)
      <4>1. /\ at[c].pc = "join" /\ at[c].i > Len(machines) /\ c \in Clients /\ c # Owner
            /\ Destroyed(at[c].size)
        BY <3>2, NamesAssumption DEF Shrink
      <4>2. at[c].size \in 0 .. Len(machines)
        BY <2>a, <4>1 DEF IInv, SizeInStep, Joining, TypeOK
      <4>3. Len(machines') = at[c].size /\ Kept(c) = at[c].size
        BY <2>a, <4>1, <4>2, FirstOnes DEF Kept
      <4> QED
        BY <4>1, <4>3, WalkOver
    <3>3. CASE Grow(c)
      <4>1. Len(machines') = Len(machines) + 1
        BY <2>a, <3>3, OneMore DEF Grow
      <4> QED
        BY <2>a, <2>b, <4>1
    <3>4. CASE Grown(c)
      BY <2>a, <2>b, <3>4 DEF Grown
    <3> QED
      BY <2>4, <3>1, <3>2, <3>3, <3>4 DEF Inside
  <2>5. CASE Destroy
    <3>1. at[Owner].pc = "join" /\ at[Owner].i > Len(machines) /\ Owner \in Callers /\ Kept(Owner) = 0
      BY <2>5 DEF Destroy, Callers, Kept
    <3> QED
      BY <2>a, <3>1, WalkOver
  <2> QED
    BY <2>1, <2>2, <2>3, <2>4, <2>5 DEF Next, Ends, Over
<1> QED
  BY <1>1, Inductive, PTL DEF Spec, JoinedBeforeDestroyed
=============================================================================
