-------------------------- MODULE ProvisionProofs --------------------------
(***************************************************************************)
(* Proofs about Provision, for any requests, slots and failures, and that  *)
(* it implements SlotLease.  They need no fairness, and one worker at most *)
(* (WorkerAssumption).                                                     *)
(***************************************************************************)
EXTENDS ProvisionRefinement, TLAPS

-----------------------------------------------------------------------------
(* The inductive invariant *)

\* A task has a slot, which is no other task's.
TaskSlots ==
    /\ \A r \in Requests : task[r].phase # "absent" => task[r].slot \in Slots
    /\ \A q, r \in Requests :
           task[q].phase # "absent" /\ task[r].phase # "absent" /\ task[q].slot = task[r].slot
               => q = r

\* A Machine that was stored has its task: both go together.
MachineHasTask == \A r \in Requests : machine[r] # 0 => task[r].phase # "absent"

\* A task that is left behind by its request is torn down and has no finalizer.
OverIsClean ==
    \A r \in Requests : request[r] = "gone" /\ task[r].phase # "absent" =>
        task[r].phase = "tearingDown" /\ ~task[r].held

\* What is still to be looked at, and what is in hand.
Listed == control.todo \union control.hand

\* A worker provisions a machine that has no task and is in no list, on the first slot that
\* is free; it destroys a task that is being torn down and has no finalizer.
WorkerKnows ==
    \A w \in Workers :
        /\ worker[w].of = {} => worker[w].at.pc = "idle"
        /\ \A r \in worker[w].of :
              /\ worker[w].of = {r} /\ request[r] # "gone"
              /\ worker[w].at.pc \in {"pick", "create"} =>
                    task[r].phase = "absent" /\ r \notin Listed
              /\ worker[w].at.pc = "create" =>
                    /\ worker[w].at.slot \in Slots \ Used
                    /\ \A s \in Slots : s < worker[w].at.slot => s \in Used
              /\ worker[w].at.pc \in {"wait", "destroy"} => task[r].phase = "tearingDown"
              /\ worker[w].at.pc = "destroy" => ~task[r].held

\* A task that was listed may be gone, but then it does not come back, and has left nothing
\* on its slot; otherwise it has the slot it had, and the finalizer too.
ListIsOld ==
    /\ \A r \in control.hand : control.hand = {r} /\ r \notin control.todo
    /\ \A r \in Listed :
          /\ Seen(r).phase # "absent" /\ Seen(r).slot \in Slots
          /\ IF task[r].phase = "absent" THEN request[r] = "gone" /\ Seen(r).slot \notin dirs
             ELSE task[r].slot = Seen(r).slot
          /\ \A q \in Listed : Seen(q).slot = Seen(r).slot => q = r
          /\ \A q \in Requests \ {r} : running[q] # Seen(r).slot
    /\ \A r \in control.todo : Seen(r).held => task[r].held

\* The machine in hand is held when it is about to start, and gone when it is about to be
\* released.
HandKnows ==
    \A r \in control.hand :
        /\ control.pc = "start" => task[r].held
        /\ control.pc = "release" => running[r] = 0 /\ Seen(r).slot \notin dirs

\* The finalizer covers the machine and its directory.
HeldWhileUsed ==
    /\ \A r \in Requests : running[r] # 0 =>
          running[r] \in dirs /\ task[r].slot = running[r] /\ task[r].held
    /\ \A s \in dirs : \E r \in Requests : task[r].held /\ task[r].slot = s

IInv ==
    /\ ProvisionTypeOK
    /\ TaskSlots /\ MachineHasTask /\ OverIsClean /\ WorkerKnows
    /\ ListIsOld /\ HandKnows /\ HeldWhileUsed

-----------------------------------------------------------------------------
(* The values that the steps write *)

\* A task whose finalizer or phase changes is the same task.
LEMMA HeldEffect ==
    ASSUME task \in [Requests -> Task], NEW r \in Requests, NEW b \in BOOLEAN,
           task' = [task EXCEPT ![r].held = b]
    PROVE  /\ task'[r] \in Task /\ task'[r].phase = task[r].phase
           /\ task'[r].slot = task[r].slot /\ task'[r].held = b
           /\ \A q \in Requests \ {r} : task'[q] = task[q]
  <1> DEFINE x == task[r]
             y == [x EXCEPT !.held = b]
  <1>1. x \in Task /\ task'[r] = y /\ \A q \in Requests \ {r} : task'[q] = task[q]
    OBVIOUS
  <1>2. y \in Task /\ y.phase = x.phase /\ y.slot = x.slot /\ y.held = b
    <2> HIDE DEF x
    <2> QED BY <1>1 DEF Task
  <1> QED BY <1>1, <1>2

LEMMA TeardownEffect ==
    ASSUME task \in [Requests -> Task], NEW r \in Requests,
           task' = [task EXCEPT ![r].phase = "tearingDown"]
    PROVE  /\ task'[r] \in Task /\ task'[r].phase = "tearingDown"
           /\ task'[r].slot = task[r].slot /\ task'[r].held = task[r].held
           /\ \A q \in Requests \ {r} : task'[q] = task[q]
  <1> DEFINE x == task[r]
             y == [x EXCEPT !.phase = "tearingDown"]
  <1>1. x \in Task /\ task'[r] = y /\ \A q \in Requests \ {r} : task'[q] = task[q]
    OBVIOUS
  <1>2. y \in Task /\ y.phase = "tearingDown" /\ y.slot = x.slot /\ y.held = x.held
    <2> HIDE DEF x
    <2> QED BY <1>1 DEF Task
  <1> QED BY <1>1, <1>2

\* The outcomes of Hold, the last one of whatever ends the loop too ...
HoldKnown(r) ==
    /\ Looks(r, "running") /\ Seen(r).held
    /\ Take(r, "start")
    /\ UNCHANGED <<task, events, request, machine, worker, running, dirs, failed, failures>>

HoldNew(r) ==
    /\ Looks(r, "running") /\ task[r].phase = "running"
    /\ task' = [task EXCEPT ![r].held = TRUE]
    /\ Take(r, "start")
    /\ events' = TRUE
    /\ UNCHANGED <<request, machine, worker, running, dirs, failed, failures>>

LoopEnds ==
    /\ RestartControl
    /\ UNCHANGED <<task, request, machine, worker, running, dirs, failed>>
    /\ failures' \in 0 .. MaxFailures

LEMMA HoldCases ==
    ASSUME IInv, NEW r \in Requests, Hold(r)
    PROVE  HoldKnown(r) \/ HoldNew(r) \/ LoopEnds
  BY DEF Hold, HoldKnown, HoldNew, LoopEnds, IInv, ProvisionTypeOK

LEMMA LoopCases ==
    ASSUME IInv, NEW r \in Requests, StartRefused(r) \/ FinalizerFails(r)
    PROVE  LoopEnds
  BY BoundAssumption DEF StartRefused, FinalizerFails, LoopEnds, IInv, ProvisionTypeOK

\* ... and those of Deprovision, of which a Destroy that fails makes one more.
RequestEnds(w, r) ==
    /\ Finish(w, r) /\ request[r] # "gone"
    /\ task[r].phase # "absent" => task[r].phase = "tearingDown" /\ ~task[r].held
    /\ UNCHANGED <<task, events, controlVars, failed>>
    /\ failures' \in 0 .. MaxFailures

TaskTornDown(w, r) ==
    /\ worker[w].of = {} /\ Free(r) /\ task[r].phase # "absent" /\ request[r] = "removing"
    /\ task' = [task EXCEPT ![r].phase = "tearingDown"]
    /\ Turn(w, r, "wait", 0)
    /\ events' = TRUE
    /\ UNCHANGED <<request, machine, controlVars, failed, failures>>

LEMMA DeprovisionCases ==
    ASSUME IInv, NEW w \in Workers, NEW r \in Requests,
           Deprovision(w, r) \/ DestroySwallowed(w, r)
    PROVE  RequestEnds(w, r) \/ TaskTornDown(w, r)
  <1>1. CASE Deprovision(w, r)
    BY <1>1 DEF Deprovision, RequestEnds, TaskTornDown, IInv, ProvisionTypeOK
  <1>2. CASE DestroySwallowed(w, r)
    <2>1. /\ request[r] # "gone" /\ task[r].phase = "tearingDown" /\ ~task[r].held
      BY <1>2 DEF DestroySwallowed, Works, IInv, WorkerKnows
    <2> QED BY <1>2, <2>1, BoundAssumption DEF DestroySwallowed, RequestEnds, IInv,
               ProvisionTypeOK
  <1> QED BY <1>1, <1>2

LEMMA NoTaskType ==
    NoTask \in Task /\ NoTask.phase = "absent" /\ [NoTask EXCEPT !.held = FALSE] = NoTask
  <1>1. NoTask \in Task /\ NoTask.phase = "absent"
    BY BoundAssumption DEF NoTask, Task
  <1>2. \A x \in Task : ~x.held => [x EXCEPT !.held = FALSE] = x
    BY DEF Task
  <1>3. ~NoTask.held
    BY DEF NoTask
  <1> HIDE DEF NoTask
  <1> QED BY <1>1, <1>2, <1>3

\* The list of the tasks there are.
LEMMA ListEffect ==
    ASSUME ProvisionTypeOK, ListTasks
    PROVE  /\ control' \in Control
           /\ control'.todo = {r \in Requests : task[r].phase # "absent"}
           /\ control'.seen = task /\ control'.hand = {} /\ control'.pc = "look"
  <1> DEFINE todo == {r \in Requests : task[r].phase # "absent"}
             next == [todo |-> todo, seen |-> task, hand |-> {}, pc |-> "look"]
  <1>1. control' = next
    BY DEF ListTasks, Resting
  <1>2. todo \in SUBSET Requests /\ task \in [Requests -> Task]
    BY DEF ProvisionTypeOK
  <1>3. next \in Control
    <2> HIDE DEF todo
    <2> QED BY <1>2 DEF Control
  <1> QED BY <1>1, <1>3

\* What is left of the list when a task is done with.
LEMMA PutEffect ==
    ASSUME ProvisionTypeOK, Put
    PROVE  /\ control' \in Control
           /\ control'.todo = control.todo /\ control'.hand = {}
           /\ \A r \in control.todo : control'.seen[r] = control.seen[r]
  <1>1. Resting \in Control /\ Resting.todo = {} /\ Resting.hand = {}
    BY NoTaskType DEF Resting, Control
  <1>2. CASE control.todo = {}
    BY <1>1, <1>2 DEF Put
  <1>3. CASE control.todo # {}
    BY <1>3 DEF Put, Control, ProvisionTypeOK
  <1> QED BY <1>2, <1>3

-----------------------------------------------------------------------------
(* The type invariant *)

\* Who writes what, on each step of the workers and of the controller.
TaskTypes ==
    /\ task \in [Requests -> Task]
    /\ \A r \in Requests : task[r].phase = "absent" <=> task[r] = NoTask

\* A task is made of its slot, torn down and destroyed.
LEMMA TaskTypeStep ==
    ASSUME IInv, [Next]_vars
    PROVE  TaskTypes'
  <1> USE DEF IInv, ProvisionTypeOK, TaskTypes
  <1>1. ASSUME NEW r \in Requests, Ask(r) \/ ResetMachine(r) \/ ResetFails(r) \/ Start(r)
        PROVE  TaskTypes'
    BY <1>1 DEF Ask, controlVars, ResetMachine, Looks, Take, Seen, ResetFails,
       RestartControl, Resting, Start, Has, Put
  <1>2. ASSUME NEW w \in Workers, NEW r \in Requests,
               \/ ProvisionStart(w, r) \/ PickSlot(w, r) \/ ProvisionFails(w, r)
               \/ Released(w, r) \/ WaitFails(w, r)
        PROVE  TaskTypes'
    BY <1>2 DEF ProvisionStart, Turn, controlVars, PickSlot, Works, ProvisionFails, Done,
       Waiting, Released, WaitFails
  <1>3. ASSUME NEW w \in Workers, NEW r \in Requests, CreateTask(w, r) PROVE TaskTypes'
    BY <1>3, BoundAssumption DEF CreateTask, Works, Done, Waiting, controlVars, Task,
       NoTask, Worker
  <1>4. ASSUME NEW w \in Workers, NEW r \in Requests, RequestEnds(w, r)
        PROVE  TaskTypes'
    BY <1>4 DEF RequestEnds, Finish, Done, Waiting, controlVars
  <1>5. ASSUME NEW w \in Workers, NEW r \in Requests, TaskTornDown(w, r) PROVE TaskTypes'
    BY <1>5, TeardownEffect, NoTaskType DEF TaskTornDown, Turn, controlVars
  <1>6. ASSUME NEW w \in Workers, NEW r \in Requests, DestroyTask(w, r) PROVE TaskTypes'
    BY <1>6, NoTaskType DEF DestroyTask, Works, Finish, Done, Waiting, controlVars
  <1>7. CASE ListTasks
    BY <1>7 DEF ListTasks, Resting
  <1>8. ASSUME NEW r \in Requests, Release(r) PROVE TaskTypes'
    <2>1. /\ task' \in [Requests -> Task] /\ task'[r].phase = task[r].phase
          /\ \A q \in Requests \ {r} : task'[q] = task[q]
      BY <1>8, HeldEffect DEF Release
    <2>2. task[r] = NoTask => task'[r] = NoTask
      BY <1>8, NoTaskType DEF Release
    <2> QED BY <2>1, <2>2, NoTaskType
  <1>9. ASSUME NEW r \in Requests, HoldKnown(r) PROVE TaskTypes'
    BY <1>9 DEF HoldKnown, Looks, Seen, Take
  <1>10. ASSUME NEW r \in Requests, HoldNew(r) PROVE TaskTypes'
    <2>1. /\ task' \in [Requests -> Task] /\ task'[r].phase = task[r].phase
          /\ \A q \in Requests \ {r} : task'[q] = task[q]
      BY <1>10, HeldEffect DEF HoldNew
    <2>2. task[r].phase = "running"
      BY <1>10 DEF HoldNew
    <2> QED BY <2>1, <2>2, NoTaskType
  <1>11. CASE LoopEnds
    BY <1>11 DEF LoopEnds, RestartControl, Resting
  <1>12. CASE ProviderRestart
    BY <1>12 DEF ProviderRestart, RestartControl, Resting, Waiting
  <1>13. CASE UNCHANGED vars
    BY <1>13 DEF vars
  <1>14. CASE Next
    BY <1>1, <1>2, <1>3, <1>4, <1>5, <1>6, <1>7, <1>8, <1>9, <1>10, <1>11, <1>12, <1>14,
       HoldCases, LoopCases, DeprovisionCases DEF Next, WorkerStep, ControlStep
  <1> QED BY <1>13, <1>14

\* Every step preserves the types.
LEMMA TypeStep ==
    ASSUME IInv, [Next]_vars
    PROVE  ProvisionTypeOK'
  <1> USE DEF IInv, ProvisionTypeOK
  <1>1. /\ task' \in [Requests -> Task]
        /\ \A r \in Requests : task'[r].phase = "absent" <=> task'[r] = NoTask
    BY TaskTypeStep DEF TaskTypes
  <1>2. Resting \in Control
    BY NoTaskType DEF Resting, Control
  <1>3. ASSUME NEW r \in Requests, Ask(r) PROVE ProvisionTypeOK'
    BY <1>3, <1>1, BoundAssumption DEF Ask, controlVars
  <1>4. ASSUME NEW w \in Workers, NEW r \in Requests, ProvisionStart(w, r)
        PROVE  ProvisionTypeOK'
    BY <1>4, <1>1, BoundAssumption DEF ProvisionStart, Turn, controlVars, Worker
  <1>5. ASSUME NEW w \in Workers, NEW r \in Requests, PickSlot(w, r) PROVE ProvisionTypeOK'
    BY <1>5, <1>1, BoundAssumption DEF PickSlot, Works, Turn, controlVars, Worker, Slots
  <1>6. ASSUME NEW w \in Workers, NEW r \in Requests, ProvisionFails(w, r)
        PROVE  ProvisionTypeOK'
    BY <1>6, <1>1, BoundAssumption DEF ProvisionFails, Works, Done, Waiting, controlVars,
       Worker
  <1>7. ASSUME NEW w \in Workers, NEW r \in Requests, CreateTask(w, r) PROVE ProvisionTypeOK'
    BY <1>7, <1>1, BoundAssumption DEF CreateTask, Works, Done, Waiting, controlVars, Worker
  <1>8. ASSUME NEW w \in Workers, NEW r \in Requests, RequestEnds(w, r)
        PROVE  ProvisionTypeOK'
    BY <1>8, <1>1, BoundAssumption DEF RequestEnds, Finish, Done, Waiting, controlVars,
       Worker
  <1>9. ASSUME NEW w \in Workers, NEW r \in Requests, TaskTornDown(w, r)
        PROVE  ProvisionTypeOK'
    BY <1>9, <1>1, BoundAssumption DEF TaskTornDown, Turn, controlVars, Worker
  <1>10. ASSUME NEW w \in Workers, NEW r \in Requests, Released(w, r) PROVE ProvisionTypeOK'
    BY <1>10, <1>1, BoundAssumption DEF Released, Works, Turn, controlVars, Worker
  <1>11. ASSUME NEW w \in Workers, NEW r \in Requests, WaitFails(w, r) PROVE ProvisionTypeOK'
    BY <1>11, <1>1, BoundAssumption DEF WaitFails, Works, Done, Waiting, controlVars, Worker
  <1>12. ASSUME NEW w \in Workers, NEW r \in Requests, DestroyTask(w, r)
        PROVE  ProvisionTypeOK'
    BY <1>12, <1>1, BoundAssumption DEF DestroyTask, Works, Finish, Done, Waiting,
       controlVars, Worker
  <1>13. CASE ListTasks
    BY <1>13, <1>1, ListEffect DEF ListTasks, Resting
  <1>14. ASSUME NEW r \in Requests, ResetMachine(r) PROVE ProvisionTypeOK'
    <2>1. control' \in Control
      BY <1>14 DEF ResetMachine, Looks, Take, Control
    <2>2. running' \in [Requests -> 0 .. MaxSlot] /\ dirs' \subseteq Slots
      BY <1>14, BoundAssumption DEF ResetMachine
    <2> QED BY <1>14, <2>1, <2>2, <1>1 DEF ResetMachine
  <1>15. ASSUME NEW r \in Requests, ResetFails(r) PROVE ProvisionTypeOK'
    BY <1>15, <1>1, <1>2, BoundAssumption DEF ResetFails, Looks, Seen, RestartControl,
       Resting
  <1>16. ASSUME NEW r \in Requests, Release(r) PROVE ProvisionTypeOK'
    BY <1>16, <1>1, BoundAssumption, PutEffect DEF Release, Has, Control
  <1>17. ASSUME NEW r \in Requests, HoldKnown(r) PROVE ProvisionTypeOK'
    BY <1>17, <1>1, BoundAssumption DEF HoldKnown, Looks, Seen, Take, Control
  <1>18. ASSUME NEW r \in Requests, HoldNew(r) PROVE ProvisionTypeOK'
    BY <1>18, <1>1, BoundAssumption DEF HoldNew, Looks, Seen, Take, Control
  <1>19. CASE LoopEnds
    BY <1>19, <1>1, <1>2, BoundAssumption DEF LoopEnds, RestartControl, Resting
  <1>20. ASSUME NEW r \in Requests, Start(r) PROVE ProvisionTypeOK'
    <2>1. Seen(r).slot \in Slots /\ Slots \subseteq 0 .. MaxSlot
      BY <1>20, BoundAssumption DEF Start, Has, ListIsOld, Listed, Slots
    <2> QED BY <1>20, <2>1, <1>1, BoundAssumption, PutEffect DEF Start, Has, Control
  <1>21. CASE ProviderRestart
    BY <1>21, <1>1, <1>2, BoundAssumption DEF ProviderRestart, RestartControl, Resting,
       Waiting, Worker
  <1>22. CASE UNCHANGED vars
    BY <1>22, <1>1 DEF vars
  <1>23. CASE Next
    BY <1>3, <1>4, <1>5, <1>6, <1>7, <1>8, <1>9, <1>10, <1>11, <1>12, <1>13, <1>14, <1>15,
       <1>16, <1>17, <1>18, <1>19, <1>20, <1>21, <1>23, HoldCases, LoopCases, DeprovisionCases DEF
       Next, WorkerStep, ControlStep
  <1> QED BY <1>22, <1>23

-----------------------------------------------------------------------------
(* The workers *)

\* A task keeps its slot, and a new one gets a slot that was free when it was picked: the
\* one worker has done nothing else since.
LEMMA SlotsStep ==
    ASSUME IInv, ProvisionTypeOK', [Next]_vars
    PROVE  TaskSlots'
  <1> USE DEF IInv, ProvisionTypeOK, Task, NoTask, TaskSlots, WorkerKnows, Worker, Used
  <1>1. ASSUME NEW r \in Requests, Ask(r) PROVE TaskSlots'
    BY <1>1 DEF Ask, controlVars
  <1>2. ASSUME NEW w \in Workers, NEW r \in Requests, ProvisionStart(w, r) PROVE TaskSlots'
    BY <1>2 DEF ProvisionStart, Turn, controlVars
  <1>3. ASSUME NEW w \in Workers, NEW r \in Requests, PickSlot(w, r) PROVE TaskSlots'
    BY <1>3 DEF PickSlot, Works, Turn, controlVars
  <1>4. ASSUME NEW w \in Workers, NEW r \in Requests, ProvisionFails(w, r) PROVE TaskSlots'
    BY <1>4 DEF ProvisionFails, Works, Done, Waiting, controlVars
  <1>5. ASSUME NEW w \in Workers, NEW r \in Requests, CreateTask(w, r) PROVE TaskSlots'
    BY <1>5 DEF CreateTask, Works, Done, Waiting, controlVars
  <1>6. ASSUME NEW w \in Workers, NEW r \in Requests, RequestEnds(w, r)
        PROVE  TaskSlots'
    BY <1>6 DEF RequestEnds, Finish, Done, Waiting, controlVars
  <1>7. ASSUME NEW w \in Workers, NEW r \in Requests, TaskTornDown(w, r) PROVE TaskSlots'
    BY <1>7, TeardownEffect DEF TaskTornDown, Turn, controlVars
  <1>8. ASSUME NEW w \in Workers, NEW r \in Requests, Released(w, r) PROVE TaskSlots'
    BY <1>8 DEF Released, Works, Turn, controlVars
  <1>9. ASSUME NEW w \in Workers, NEW r \in Requests, WaitFails(w, r) PROVE TaskSlots'
    BY <1>9 DEF WaitFails, Works, Done, Waiting, controlVars
  <1>10. ASSUME NEW w \in Workers, NEW r \in Requests, DestroyTask(w, r) PROVE TaskSlots'
    BY <1>10 DEF DestroyTask, Works, Finish, Done, Waiting, controlVars
  <1>11. CASE ListTasks
    BY <1>11, ListEffect DEF ListTasks, Resting
  <1>12. ASSUME NEW r \in Requests, ResetMachine(r) PROVE TaskSlots'
    BY <1>12 DEF ResetMachine, Looks, Take, Seen
  <1>13. ASSUME NEW r \in Requests, ResetFails(r) PROVE TaskSlots'
    BY <1>13 DEF ResetFails, Looks, Seen, RestartControl, Resting
  <1>14. ASSUME NEW r \in Requests, Release(r) PROVE TaskSlots'
    BY <1>14, HeldEffect, PutEffect DEF Release, Has
  <1>15. ASSUME NEW r \in Requests, HoldKnown(r) PROVE TaskSlots'
    BY <1>15 DEF HoldKnown, Looks, Seen, Take
  <1>16. ASSUME NEW r \in Requests, HoldNew(r) PROVE TaskSlots'
    BY <1>16, HeldEffect DEF HoldNew, Looks, Seen, Take
  <1>17. CASE LoopEnds
    BY <1>17 DEF LoopEnds, RestartControl, Resting
  <1>18. ASSUME NEW r \in Requests, Start(r) PROVE TaskSlots'
    BY <1>18, PutEffect DEF Start, Has, Seen
  <1>19. CASE ProviderRestart
    BY <1>19 DEF ProviderRestart, RestartControl, Resting, Waiting
  <1>20. CASE UNCHANGED vars
    BY <1>20 DEF vars
  <1>21. CASE Next
    BY <1>1, <1>2, <1>3, <1>4, <1>5, <1>6, <1>7, <1>8, <1>9, <1>10, <1>11, <1>12, <1>13,
       <1>14, <1>15, <1>16, <1>17, <1>18, <1>19, <1>21, HoldCases, LoopCases, DeprovisionCases DEF
       Next, WorkerStep, ControlStep
  <1> QED BY <1>20, <1>21

\* The task is created with the Machine, and destroyed with the request.
LEMMA MachineStep ==
    ASSUME IInv, ProvisionTypeOK', [Next]_vars
    PROVE  MachineHasTask'
  <1> USE DEF IInv, ProvisionTypeOK, Task, NoTask, MachineHasTask, WorkerKnows, TaskSlots
  <1>1. ASSUME NEW r \in Requests, Ask(r) PROVE MachineHasTask'
    BY <1>1 DEF Ask, controlVars
  <1>2. ASSUME NEW w \in Workers, NEW r \in Requests, ProvisionStart(w, r)
        PROVE  MachineHasTask'
    BY <1>2 DEF ProvisionStart, Turn, controlVars
  <1>3. ASSUME NEW w \in Workers, NEW r \in Requests, PickSlot(w, r) PROVE MachineHasTask'
    BY <1>3 DEF PickSlot, Works, Turn, controlVars
  <1>4. ASSUME NEW w \in Workers, NEW r \in Requests, ProvisionFails(w, r)
        PROVE  MachineHasTask'
    BY <1>4 DEF ProvisionFails, Works, Done, Waiting, controlVars
  <1>5. ASSUME NEW w \in Workers, NEW r \in Requests, CreateTask(w, r) PROVE MachineHasTask'
    BY <1>5 DEF CreateTask, Works, Done, Waiting, controlVars
  <1>6. ASSUME NEW w \in Workers, NEW r \in Requests, RequestEnds(w, r)
        PROVE  MachineHasTask'
    BY <1>6 DEF RequestEnds, Finish, Done, Waiting, controlVars
  <1>7. ASSUME NEW w \in Workers, NEW r \in Requests, TaskTornDown(w, r)
        PROVE  MachineHasTask'
    BY <1>7, TeardownEffect DEF TaskTornDown, Turn, controlVars
  <1>8. ASSUME NEW w \in Workers, NEW r \in Requests, Released(w, r) PROVE MachineHasTask'
    BY <1>8 DEF Released, Works, Turn, controlVars
  <1>9. ASSUME NEW w \in Workers, NEW r \in Requests, WaitFails(w, r) PROVE MachineHasTask'
    BY <1>9 DEF WaitFails, Works, Done, Waiting, controlVars
  <1>10. ASSUME NEW w \in Workers, NEW r \in Requests, DestroyTask(w, r)
        PROVE  MachineHasTask'
    BY <1>10 DEF DestroyTask, Works, Finish, Done, Waiting, controlVars
  <1>11. CASE ListTasks
    BY <1>11, ListEffect DEF ListTasks, Resting
  <1>12. ASSUME NEW r \in Requests, ResetMachine(r) PROVE MachineHasTask'
    BY <1>12 DEF ResetMachine, Looks, Take, Seen
  <1>13. ASSUME NEW r \in Requests, ResetFails(r) PROVE MachineHasTask'
    BY <1>13 DEF ResetFails, Looks, Seen, RestartControl, Resting
  <1>14. ASSUME NEW r \in Requests, Release(r) PROVE MachineHasTask'
    BY <1>14, HeldEffect, PutEffect DEF Release, Has
  <1>15. ASSUME NEW r \in Requests, HoldKnown(r) PROVE MachineHasTask'
    BY <1>15 DEF HoldKnown, Looks, Seen, Take
  <1>16. ASSUME NEW r \in Requests, HoldNew(r) PROVE MachineHasTask'
    BY <1>16, HeldEffect DEF HoldNew, Looks, Seen, Take
  <1>17. CASE LoopEnds
    BY <1>17 DEF LoopEnds, RestartControl, Resting
  <1>18. ASSUME NEW r \in Requests, Start(r) PROVE MachineHasTask'
    BY <1>18, PutEffect DEF Start, Has, Seen
  <1>19. CASE ProviderRestart
    BY <1>19 DEF ProviderRestart, RestartControl, Resting, Waiting
  <1>20. CASE UNCHANGED vars
    BY <1>20 DEF vars
  <1>21. CASE Next
    BY <1>1, <1>2, <1>3, <1>4, <1>5, <1>6, <1>7, <1>8, <1>9, <1>10, <1>11, <1>12, <1>13,
       <1>14, <1>15, <1>16, <1>17, <1>18, <1>19, <1>21, HoldCases, LoopCases, DeprovisionCases DEF
       Next, WorkerStep, ControlStep
  <1> QED BY <1>20, <1>21

\* A request that is over gets no task any more, and its task no finalizer.
LEMMA OverStep ==
    ASSUME IInv, ProvisionTypeOK', [Next]_vars
    PROVE  OverIsClean'
  <1> USE DEF IInv, ProvisionTypeOK, Task, NoTask, OverIsClean, WorkerKnows, TaskSlots
  <1>1. ASSUME NEW r \in Requests, Ask(r) PROVE OverIsClean'
    BY <1>1 DEF Ask, controlVars
  <1>2. ASSUME NEW w \in Workers, NEW r \in Requests, ProvisionStart(w, r)
        PROVE  OverIsClean'
    BY <1>2 DEF ProvisionStart, Turn, controlVars
  <1>3. ASSUME NEW w \in Workers, NEW r \in Requests, PickSlot(w, r) PROVE OverIsClean'
    BY <1>3 DEF PickSlot, Works, Turn, controlVars
  <1>4. ASSUME NEW w \in Workers, NEW r \in Requests, ProvisionFails(w, r)
        PROVE  OverIsClean'
    BY <1>4 DEF ProvisionFails, Works, Done, Waiting, controlVars
  <1>5. ASSUME NEW w \in Workers, NEW r \in Requests, CreateTask(w, r) PROVE OverIsClean'
    BY <1>5 DEF CreateTask, Works, Done, Waiting, controlVars
  <1>6. ASSUME NEW w \in Workers, NEW r \in Requests, RequestEnds(w, r)
        PROVE  OverIsClean'
    BY <1>6 DEF RequestEnds, Finish, Done, Waiting, controlVars
  <1>7. ASSUME NEW w \in Workers, NEW r \in Requests, TaskTornDown(w, r)
        PROVE  OverIsClean'
    BY <1>7, TeardownEffect DEF TaskTornDown, Turn, controlVars
  <1>8. ASSUME NEW w \in Workers, NEW r \in Requests, Released(w, r) PROVE OverIsClean'
    BY <1>8 DEF Released, Works, Turn, controlVars
  <1>9. ASSUME NEW w \in Workers, NEW r \in Requests, WaitFails(w, r) PROVE OverIsClean'
    BY <1>9 DEF WaitFails, Works, Done, Waiting, controlVars
  <1>10. ASSUME NEW w \in Workers, NEW r \in Requests, DestroyTask(w, r)
        PROVE  OverIsClean'
    BY <1>10 DEF DestroyTask, Works, Finish, Done, Waiting, controlVars
  <1>11. CASE ListTasks
    BY <1>11, ListEffect DEF ListTasks, Resting
  <1>12. ASSUME NEW r \in Requests, ResetMachine(r) PROVE OverIsClean'
    BY <1>12 DEF ResetMachine, Looks, Take, Seen
  <1>13. ASSUME NEW r \in Requests, ResetFails(r) PROVE OverIsClean'
    BY <1>13 DEF ResetFails, Looks, Seen, RestartControl, Resting
  <1>14. ASSUME NEW r \in Requests, Release(r) PROVE OverIsClean'
    BY <1>14, HeldEffect, PutEffect DEF Release, Has
  <1>15. ASSUME NEW r \in Requests, HoldKnown(r) PROVE OverIsClean'
    BY <1>15 DEF HoldKnown, Looks, Seen, Take
  <1>16. ASSUME NEW r \in Requests, HoldNew(r) PROVE OverIsClean'
    BY <1>16, HeldEffect DEF HoldNew, Looks, Seen, Take
  <1>17. CASE LoopEnds
    BY <1>17 DEF LoopEnds, RestartControl, Resting
  <1>18. ASSUME NEW r \in Requests, Start(r) PROVE OverIsClean'
    BY <1>18, PutEffect DEF Start, Has, Seen
  <1>19. CASE ProviderRestart
    BY <1>19 DEF ProviderRestart, RestartControl, Resting, Waiting
  <1>20. CASE UNCHANGED vars
    BY <1>20 DEF vars
  <1>21. CASE Next
    BY <1>1, <1>2, <1>3, <1>4, <1>5, <1>6, <1>7, <1>8, <1>9, <1>10, <1>11, <1>12, <1>13,
       <1>14, <1>15, <1>16, <1>17, <1>18, <1>19, <1>21, HoldCases, LoopCases, DeprovisionCases DEF
       Next, WorkerStep, ControlStep
  <1> QED BY <1>20, <1>21

\* Nobody but the worker makes or destroys a task, and a finalizer is added to a task that
\* runs only.
LEMMA WorkerStepKnows ==
    ASSUME IInv, ProvisionTypeOK', [Next]_vars
    PROVE  WorkerKnows'
  <1> USE DEF IInv, ProvisionTypeOK, Task, NoTask, WorkerKnows, Worker, Used, Free, Listed,
          ListIsOld, MachineHasTask, Slots
  <1>1. ASSUME NEW r \in Requests, Ask(r) PROVE WorkerKnows'
    BY <1>1, WorkerAssumption DEF Ask, controlVars
  <1>2. ASSUME NEW w \in Workers, NEW r \in Requests, ProvisionStart(w, r) PROVE WorkerKnows'
    <2>1. machine[r] = 0 /\ r \notin Listed
      BY <1>2 DEF ProvisionStart
    <2>2. /\ worker'[w].of = {r} /\ worker'[w].at.pc = "pick"
          /\ UNCHANGED <<task, control>> /\ request'[r] = "wanted" /\ task[r].phase = "absent"
      BY <1>2, <2>1 DEF ProvisionStart, Turn, controlVars
    <2> HIDE DEF IInv, ProvisionTypeOK
    <2> QED BY <2>1, <2>2, WorkerAssumption
  <1>3. ASSUME NEW w \in Workers, NEW r \in Requests, PickSlot(w, r) PROVE WorkerKnows'
    BY <1>3, WorkerAssumption DEF PickSlot, Works, Turn, controlVars
  <1>4. ASSUME NEW w \in Workers, NEW r \in Requests, ProvisionFails(w, r) PROVE WorkerKnows'
    BY <1>4, WorkerAssumption DEF ProvisionFails, Works, Done, Waiting, controlVars
  <1>5. ASSUME NEW w \in Workers, NEW r \in Requests, CreateTask(w, r) PROVE WorkerKnows'
    BY <1>5, WorkerAssumption DEF CreateTask, Works, Done, Waiting, controlVars
  <1>6. ASSUME NEW w \in Workers, NEW r \in Requests, RequestEnds(w, r)
        PROVE  WorkerKnows'
    BY <1>6, WorkerAssumption DEF RequestEnds, Finish, Done, Waiting, controlVars
  <1>7. ASSUME NEW w \in Workers, NEW r \in Requests, TaskTornDown(w, r) PROVE WorkerKnows'
    BY <1>7, WorkerAssumption, TeardownEffect DEF TaskTornDown, Turn, controlVars
  <1>8. ASSUME NEW w \in Workers, NEW r \in Requests, Released(w, r) PROVE WorkerKnows'
    BY <1>8, WorkerAssumption DEF Released, Works, Turn, controlVars
  <1>9. ASSUME NEW w \in Workers, NEW r \in Requests, WaitFails(w, r) PROVE WorkerKnows'
    BY <1>9, WorkerAssumption DEF WaitFails, Works, Done, Waiting, controlVars
  <1>10. ASSUME NEW w \in Workers, NEW r \in Requests, DestroyTask(w, r) PROVE WorkerKnows'
    BY <1>10, WorkerAssumption DEF DestroyTask, Works, Finish, Done, Waiting, controlVars
  <1>11. CASE ListTasks
    BY <1>11, WorkerAssumption, ListEffect DEF ListTasks, Resting
  <1>12. ASSUME NEW r \in Requests, ResetMachine(r) PROVE WorkerKnows'
    BY <1>12, WorkerAssumption DEF ResetMachine, Looks, Take, Seen
  <1>13. ASSUME NEW r \in Requests, ResetFails(r) PROVE WorkerKnows'
    BY <1>13, WorkerAssumption DEF ResetFails, Looks, Seen, RestartControl, Resting
  <1>14. ASSUME NEW r \in Requests, Release(r) PROVE WorkerKnows'
    BY <1>14, WorkerAssumption, HeldEffect, PutEffect DEF Release, Has
  <1>15. ASSUME NEW r \in Requests, HoldKnown(r) PROVE WorkerKnows'
    BY <1>15, WorkerAssumption DEF HoldKnown, Looks, Seen, Take
  <1>16. ASSUME NEW r \in Requests, HoldNew(r) PROVE WorkerKnows'
    BY <1>16, WorkerAssumption, HeldEffect DEF HoldNew, Looks, Seen, Take
  <1>17. CASE LoopEnds
    BY <1>17, WorkerAssumption DEF LoopEnds, RestartControl, Resting
  <1>18. ASSUME NEW r \in Requests, Start(r) PROVE WorkerKnows'
    BY <1>18, WorkerAssumption, PutEffect DEF Start, Has, Seen
  <1>19. CASE ProviderRestart
    BY <1>19, WorkerAssumption DEF ProviderRestart, RestartControl, Resting, Waiting
  <1>20. CASE UNCHANGED vars
    BY <1>20, WorkerAssumption DEF vars
  <1>21. CASE Next
    BY <1>1, <1>2, <1>3, <1>4, <1>5, <1>6, <1>7, <1>8, <1>9, <1>10, <1>11, <1>12, <1>13,
       <1>14, <1>15, <1>16, <1>17, <1>18, <1>19, <1>21, HoldCases, LoopCases, DeprovisionCases DEF
       Next, WorkerStep, ControlStep
  <1> QED BY <1>20, <1>21

-----------------------------------------------------------------------------
(* The MachineController *)

\* The list grows old, but a task on it never comes back on another slot.
LEMMA ListStep ==
    ASSUME IInv, ProvisionTypeOK', [Next]_vars
    PROVE  ListIsOld'
  <1> USE DEF IInv, ProvisionTypeOK, Task, NoTask, ListIsOld, Listed, Seen, WorkerKnows,
          TaskSlots, HeldWhileUsed, Control
  <1>1. ASSUME NEW r \in Requests, Ask(r) PROVE ListIsOld'
    BY <1>1 DEF Ask, controlVars
  <1>2. ASSUME NEW w \in Workers, NEW r \in Requests, ProvisionStart(w, r) PROVE ListIsOld'
    BY <1>2 DEF ProvisionStart, Turn, controlVars
  <1>3. ASSUME NEW w \in Workers, NEW r \in Requests, PickSlot(w, r) PROVE ListIsOld'
    BY <1>3 DEF PickSlot, Works, Turn, controlVars
  <1>4. ASSUME NEW w \in Workers, NEW r \in Requests, ProvisionFails(w, r) PROVE ListIsOld'
    BY <1>4 DEF ProvisionFails, Works, Done, Waiting, controlVars
  <1>5. ASSUME NEW w \in Workers, NEW r \in Requests, CreateTask(w, r) PROVE ListIsOld'
    BY <1>5 DEF CreateTask, Works, Done, Waiting, controlVars
  <1>6. ASSUME NEW w \in Workers, NEW r \in Requests, RequestEnds(w, r)
        PROVE  ListIsOld'
    BY <1>6 DEF RequestEnds, Finish, Done, Waiting, controlVars
  <1>7. ASSUME NEW w \in Workers, NEW r \in Requests, TaskTornDown(w, r) PROVE ListIsOld'
    BY <1>7, TeardownEffect DEF TaskTornDown, Turn, controlVars
  <1>8. ASSUME NEW w \in Workers, NEW r \in Requests, Released(w, r) PROVE ListIsOld'
    BY <1>8 DEF Released, Works, Turn, controlVars
  <1>9. ASSUME NEW w \in Workers, NEW r \in Requests, WaitFails(w, r) PROVE ListIsOld'
    BY <1>9 DEF WaitFails, Works, Done, Waiting, controlVars
  <1>10. ASSUME NEW w \in Workers, NEW r \in Requests, DestroyTask(w, r) PROVE ListIsOld'
    BY <1>10 DEF DestroyTask, Works, Finish, Done, Waiting, controlVars
  <1>11. CASE ListTasks
    <2>1. /\ control'.todo = {r \in Requests : task[r].phase # "absent"}
          /\ control'.seen = task /\ control'.hand = {}
          /\ UNCHANGED <<request, task, running>>
      BY <1>11, ListEffect DEF ListTasks
    <2>2. \A r \in Requests : task[r].phase # "absent" =>
             \A q \in Requests \ {r} : running[q] # task[r].slot
      BY BoundAssumption DEF Slots
    <2>3. control'.todo \union control'.hand = control'.todo
      BY <2>1
    <2> QED BY <2>1, <2>2, <2>3
  <1>12. ASSUME NEW r \in Requests, ResetMachine(r) PROVE ListIsOld'
    <2>1. /\ control'.seen = control.seen /\ control'.todo = control.todo \ {r}
          /\ control'.hand = {r} /\ r \in control.todo /\ control.hand = {}
          /\ running' = [running EXCEPT ![r] = 0] /\ UNCHANGED <<task, request>>
          /\ \A s : s \in dirs' => s \in dirs
      BY <1>12 DEF ResetMachine, Looks, Take
    <2>2. control'.todo \union control'.hand = control.todo
      BY <2>1
    <2>3. \A q \in Requests : running'[q] = running[q] \/ running'[q] = 0
      BY <2>1
    <2>4. \A q \in control.todo : control.seen[q].slot # 0
      BY DEF Slots
    <2> QED BY <2>1, <2>2, <2>3, <2>4
  <1>13. ASSUME NEW r \in Requests, ResetFails(r) PROVE ListIsOld'
    BY <1>13 DEF ResetFails, Looks, Seen, RestartControl, Resting
  <1>14. ASSUME NEW r \in Requests, Release(r) PROVE ListIsOld'
    BY <1>14, HeldEffect, PutEffect DEF Release, Has
  <1>15. ASSUME NEW r \in Requests, HoldKnown(r) PROVE ListIsOld'
    BY <1>15 DEF HoldKnown, Looks, Seen, Take
  <1>16. ASSUME NEW r \in Requests, HoldNew(r) PROVE ListIsOld'
    BY <1>16, HeldEffect DEF HoldNew, Looks, Seen, Take
  <1>17. CASE LoopEnds
    BY <1>17 DEF LoopEnds, RestartControl, Resting
  <1>18. ASSUME NEW r \in Requests, Start(r) PROVE ListIsOld'
    BY <1>18, PutEffect DEF Start, Has, Seen
  <1>19. CASE ProviderRestart
    BY <1>19 DEF ProviderRestart, RestartControl, Resting, Waiting
  <1>20. CASE UNCHANGED vars
    BY <1>20 DEF vars
  <1>21. CASE Next
    BY <1>1, <1>2, <1>3, <1>4, <1>5, <1>6, <1>7, <1>8, <1>9, <1>10, <1>11, <1>12, <1>13,
       <1>14, <1>15, <1>16, <1>17, <1>18, <1>19, <1>21, HoldCases, LoopCases, DeprovisionCases DEF
       Next, WorkerStep, ControlStep
  <1> QED BY <1>20, <1>21

\* The task in hand keeps its finalizer, which only the controller takes away.
LEMMA HandStep ==
    ASSUME IInv, ProvisionTypeOK', [Next]_vars
    PROVE  HandKnows'
  <1> USE DEF IInv, ProvisionTypeOK, Task, NoTask, HandKnows, ListIsOld, Listed, Seen,
          WorkerKnows, Control
  <1>1. ASSUME NEW r \in Requests, Ask(r) PROVE HandKnows'
    BY <1>1 DEF Ask, controlVars
  <1>2. ASSUME NEW w \in Workers, NEW r \in Requests, ProvisionStart(w, r) PROVE HandKnows'
    BY <1>2 DEF ProvisionStart, Turn, controlVars
  <1>3. ASSUME NEW w \in Workers, NEW r \in Requests, PickSlot(w, r) PROVE HandKnows'
    BY <1>3 DEF PickSlot, Works, Turn, controlVars
  <1>4. ASSUME NEW w \in Workers, NEW r \in Requests, ProvisionFails(w, r) PROVE HandKnows'
    BY <1>4 DEF ProvisionFails, Works, Done, Waiting, controlVars
  <1>5. ASSUME NEW w \in Workers, NEW r \in Requests, CreateTask(w, r) PROVE HandKnows'
    BY <1>5 DEF CreateTask, Works, Done, Waiting, controlVars
  <1>6. ASSUME NEW w \in Workers, NEW r \in Requests, RequestEnds(w, r)
        PROVE  HandKnows'
    BY <1>6 DEF RequestEnds, Finish, Done, Waiting, controlVars
  <1>7. ASSUME NEW w \in Workers, NEW r \in Requests, TaskTornDown(w, r) PROVE HandKnows'
    BY <1>7, TeardownEffect DEF TaskTornDown, Turn, controlVars
  <1>8. ASSUME NEW w \in Workers, NEW r \in Requests, Released(w, r) PROVE HandKnows'
    BY <1>8 DEF Released, Works, Turn, controlVars
  <1>9. ASSUME NEW w \in Workers, NEW r \in Requests, WaitFails(w, r) PROVE HandKnows'
    BY <1>9 DEF WaitFails, Works, Done, Waiting, controlVars
  <1>10. ASSUME NEW w \in Workers, NEW r \in Requests, DestroyTask(w, r) PROVE HandKnows'
    BY <1>10 DEF DestroyTask, Works, Finish, Done, Waiting, controlVars
  <1>11. CASE ListTasks
    <2>1. /\ control'.todo = {r \in Requests : task[r].phase # "absent"}
          /\ control'.seen = task /\ control'.hand = {}
          /\ UNCHANGED <<request, task, running, dirs>>
      BY <1>11, ListEffect DEF ListTasks
    <2> QED BY <2>1
  <1>12. ASSUME NEW r \in Requests, ResetMachine(r) PROVE HandKnows'
    BY <1>12 DEF ResetMachine, Looks, Take, Seen
  <1>13. ASSUME NEW r \in Requests, ResetFails(r) PROVE HandKnows'
    BY <1>13 DEF ResetFails, Looks, Seen, RestartControl, Resting
  <1>14. ASSUME NEW r \in Requests, Release(r) PROVE HandKnows'
    BY <1>14, HeldEffect, PutEffect DEF Release, Has
  <1>15. ASSUME NEW r \in Requests, HoldKnown(r) PROVE HandKnows'
    BY <1>15 DEF HoldKnown, Looks, Seen, Take
  <1>16. ASSUME NEW r \in Requests, HoldNew(r) PROVE HandKnows'
    BY <1>16, HeldEffect DEF HoldNew, Looks, Seen, Take
  <1>17. CASE LoopEnds
    BY <1>17 DEF LoopEnds, RestartControl, Resting
  <1>18. ASSUME NEW r \in Requests, Start(r) PROVE HandKnows'
    BY <1>18, PutEffect DEF Start, Has, Seen
  <1>19. CASE ProviderRestart
    BY <1>19 DEF ProviderRestart, RestartControl, Resting, Waiting
  <1>20. CASE UNCHANGED vars
    BY <1>20 DEF vars
  <1>21. CASE Next
    BY <1>1, <1>2, <1>3, <1>4, <1>5, <1>6, <1>7, <1>8, <1>9, <1>10, <1>11, <1>12, <1>13,
       <1>14, <1>15, <1>16, <1>17, <1>18, <1>19, <1>21, HoldCases, LoopCases, DeprovisionCases DEF
       Next, WorkerStep, ControlStep
  <1> QED BY <1>20, <1>21

\* A machine starts under the finalizer, which is removed when the machine and its directory are.
LEMMA HeldStep ==
    ASSUME IInv, ProvisionTypeOK', [Next]_vars
    PROVE  HeldWhileUsed'
  <1> USE DEF IInv, ProvisionTypeOK, Task, NoTask, HeldWhileUsed, HandKnows, ListIsOld,
          Listed, Seen, WorkerKnows, TaskSlots, Control
  <1>1. ASSUME NEW r \in Requests, Ask(r) PROVE HeldWhileUsed'
    BY <1>1 DEF Ask, controlVars
  <1>2. ASSUME NEW w \in Workers, NEW r \in Requests, ProvisionStart(w, r)
        PROVE  HeldWhileUsed'
    BY <1>2 DEF ProvisionStart, Turn, controlVars
  <1>3. ASSUME NEW w \in Workers, NEW r \in Requests, PickSlot(w, r) PROVE HeldWhileUsed'
    BY <1>3 DEF PickSlot, Works, Turn, controlVars
  <1>4. ASSUME NEW w \in Workers, NEW r \in Requests, ProvisionFails(w, r)
        PROVE  HeldWhileUsed'
    BY <1>4 DEF ProvisionFails, Works, Done, Waiting, controlVars
  <1>5. ASSUME NEW w \in Workers, NEW r \in Requests, CreateTask(w, r) PROVE HeldWhileUsed'
    BY <1>5 DEF CreateTask, Works, Done, Waiting, controlVars
  <1>6. ASSUME NEW w \in Workers, NEW r \in Requests, RequestEnds(w, r)
        PROVE  HeldWhileUsed'
    BY <1>6 DEF RequestEnds, Finish, Done, Waiting, controlVars
  <1>7. ASSUME NEW w \in Workers, NEW r \in Requests, TaskTornDown(w, r) PROVE HeldWhileUsed'
    BY <1>7, TeardownEffect DEF TaskTornDown, Turn, controlVars
  <1>8. ASSUME NEW w \in Workers, NEW r \in Requests, Released(w, r) PROVE HeldWhileUsed'
    BY <1>8 DEF Released, Works, Turn, controlVars
  <1>9. ASSUME NEW w \in Workers, NEW r \in Requests, WaitFails(w, r) PROVE HeldWhileUsed'
    BY <1>9 DEF WaitFails, Works, Done, Waiting, controlVars
  <1>10. ASSUME NEW w \in Workers, NEW r \in Requests, DestroyTask(w, r) PROVE HeldWhileUsed'
    BY <1>10 DEF DestroyTask, Works, Finish, Done, Waiting, controlVars
  <1>11. CASE ListTasks
    <2>1. /\ control'.todo = {r \in Requests : task[r].phase # "absent"}
          /\ control'.seen = task /\ control'.hand = {}
          /\ UNCHANGED <<request, task, running, dirs>>
      BY <1>11, ListEffect DEF ListTasks
    <2> QED BY <2>1
  <1>12. ASSUME NEW r \in Requests, ResetMachine(r) PROVE HeldWhileUsed'
    BY <1>12 DEF ResetMachine, Looks, Take, Seen
  <1>13. ASSUME NEW r \in Requests, ResetFails(r) PROVE HeldWhileUsed'
    BY <1>13 DEF ResetFails, Looks, Seen, RestartControl, Resting
  <1>14. ASSUME NEW r \in Requests, Release(r) PROVE HeldWhileUsed'
    BY <1>14, HeldEffect, PutEffect DEF Release, Has
  <1>15. ASSUME NEW r \in Requests, HoldKnown(r) PROVE HeldWhileUsed'
    BY <1>15 DEF HoldKnown, Looks, Seen, Take
  <1>16. ASSUME NEW r \in Requests, HoldNew(r) PROVE HeldWhileUsed'
    BY <1>16, HeldEffect DEF HoldNew, Looks, Seen, Take
  <1>17. CASE LoopEnds
    BY <1>17 DEF LoopEnds, RestartControl, Resting
  <1>18. ASSUME NEW r \in Requests, Start(r) PROVE HeldWhileUsed'
    BY <1>18, PutEffect DEF Start, Has, Seen
  <1>19. CASE ProviderRestart
    BY <1>19 DEF ProviderRestart, RestartControl, Resting, Waiting
  <1>20. CASE UNCHANGED vars
    BY <1>20 DEF vars
  <1>21. CASE Next
    BY <1>1, <1>2, <1>3, <1>4, <1>5, <1>6, <1>7, <1>8, <1>9, <1>10, <1>11, <1>12, <1>13,
       <1>14, <1>15, <1>16, <1>17, <1>18, <1>19, <1>21, HoldCases, LoopCases, DeprovisionCases DEF
       Next, WorkerStep, ControlStep
  <1> QED BY <1>20, <1>21

-----------------------------------------------------------------------------
(* The theorems *)

LEMMA InitIInv ==
    ASSUME Init
    PROVE  IInv
  <1> USE DEF Init
  <1>1. ProvisionTypeOK
    <2>1. Resting \in Control
      BY NoTaskType DEF Resting, Control
    <2> QED BY <2>1, NoTaskType, BoundAssumption DEF ProvisionTypeOK, Worker, Waiting
  <1>2. TaskSlots /\ MachineHasTask /\ OverIsClean /\ HeldWhileUsed
    BY DEF TaskSlots, MachineHasTask, OverIsClean, HeldWhileUsed, NoTask
  <1>3. WorkerKnows
    BY DEF WorkerKnows, Waiting
  <1>4. ListIsOld /\ HandKnows
    BY DEF ListIsOld, HandKnows, Listed, Resting
  <1> QED BY <1>1, <1>2, <1>3, <1>4 DEF IInv

LEMMA NextIInv ==
    ASSUME IInv, [Next]_vars
    PROVE  IInv'
  <1>1. ProvisionTypeOK'
    BY TypeStep
  <1> QED BY <1>1, SlotsStep, MachineStep, OverStep, WorkerStepKnows, ListStep, HandStep, HeldStep DEF IInv

\* The inductive invariant holds in every state.
THEOREM IInvCorrect == InitNext => []IInv
  BY InitIInv, NextIInv, PTL DEF InitNext

\* Type correctness: every variable keeps to the values it is declared with.
THEOREM TypeCorrect == Spec => []ProvisionTypeOK
  <1>1. IInv => ProvisionTypeOK
    BY DEF IInv
  <1> QED BY <1>1, IInvCorrect, PTL DEF Spec

\* Two tasks never have the same slot, and two machines that run never share a directory or
\* a MachineStatus, however late the controller looks at what it has listed.
THEOREM SlotsApart == Spec => []RunningApart
  <1>1. IInv => RunningApart
    <2> SUFFICES ASSUME IInv PROVE RunningApart
      OBVIOUS
    <2>1. \A r \in Requests : running[r] # 0 =>
              running[r] \in dirs /\ task[r].slot = running[r] /\ task[r].held
      BY DEF IInv, HeldWhileUsed
    <2>2. \A r \in Requests : task[r].held => task[r].phase # "absent"
      BY DEF IInv, ProvisionTypeOK, NoTask
    <2> QED BY <2>1, <2>2 DEF IInv, TaskSlots, RunningApart
  <1> QED BY <1>1, IInvCorrect, PTL DEF Spec

-----------------------------------------------------------------------------
(* The refinement *)

\* A task has a slot if it is there, and its own one if it is listed.
LEMMA LeaseOfTask ==
    ASSUME IInv, NEW r \in Requests
    PROVE  /\ task[r].phase = "absent" <=> task[r].slot = 0
           /\ task[r].phase # "absent" => task[r].slot \in Slots
           /\ r \in Listed /\ task[r].phase # "absent" => task[r].slot = Seen(r).slot
           /\ task[r].held => task[r].phase # "absent"
           /\ r \in Listed /\ task[r].phase = "absent" => Seen(r).slot \notin dirs
  <1>1. task[r].phase = "absent" => task[r].slot = 0 /\ ~task[r].held
    BY DEF IInv, ProvisionTypeOK, NoTask
  <1>2. task[r].phase # "absent" => task[r].slot \in Slots /\ task[r].slot # 0
    BY BoundAssumption DEF IInv, TaskSlots, Slots
  <1>3. r \in Listed => IF task[r].phase = "absent" THEN Seen(r).slot \notin dirs
                        ELSE task[r].slot = Seen(r).slot
    BY DEF IInv, ListIsOld
  <1> QED BY <1>1, <1>2, <1>3

\* The leases of Provision: the slots of the tasks; the requests that are over; whether a slot
\* is leased.
LeaseOf(t) == [r \in Requests |-> t[r].slot]
Over == {r \in Requests : request[r] = "gone"}

LEMMA LeasedUsed ==
    ASSUME IInv, NEW s \in Slots
    PROVE  s \in Used <=> \E r \in Requests : LeaseOf(task)[r] = s
  <1>1. s # 0
    BY BoundAssumption DEF Slots
  <1> QED BY <1>1, LeaseOfTask DEF LeaseOf, Used

\* A task without the finalizer has neither a machine nor a directory.
LEMMA UnheldIsClean ==
    ASSUME IInv, NEW r \in Requests, task[r].phase # "absent", ~task[r].held
    PROVE  running[r] = 0 /\ task[r].slot \notin dirs
  <1>1. running[r] = 0
    BY DEF IInv, HeldWhileUsed
  <1>2. ASSUME NEW q \in Requests, task[q].held, task[q].slot = task[r].slot PROVE FALSE
    BY <1>2, LeaseOfTask DEF IInv, TaskSlots
  <1> QED BY <1>1, <1>2 DEF IInv, HeldWhileUsed

\* The steps of SlotLease as Provision takes them, each with what it leaves alone.
Hidden == UNCHANGED <<LeaseOf(task), Over, running, dirs>>

LEMMA LeaseStep ==
    ASSUME IInv, IInv', [Next]_vars
    PROVE  [Lease!LeaseNext]_(Lease!leaseVars)
  <1> DEFINE Implements == Lease!LeaseNext \/ Hidden
  <1>1. SUFFICES Implements
    BY DEF Lease!leaseVars, Hidden, LeaseOf, Over
  <1>2. ASSUME NEW r \in Requests, Ask(r) PROVE Implements
    <2>1. Over' = Over
      BY <1>2 DEF Ask, Over, IInv, ProvisionTypeOK
    <2> QED BY <1>2, <2>1 DEF Ask, Hidden, LeaseOf, controlVars
  <1>3. ASSUME NEW w \in Workers, NEW r \in Requests,
               \/ ProvisionStart(w, r) \/ PickSlot(w, r) \/ ProvisionFails(w, r)
               \/ Released(w, r) \/ WaitFails(w, r)
        PROVE  Implements
    BY <1>3 DEF ProvisionStart, PickSlot, ProvisionFails, Released, WaitFails, Hidden, LeaseOf,
       Over, controlVars
  <1>4. ASSUME NEW w \in Workers, NEW r \in Requests, CreateTask(w, r) PROVE Implements
    <2>1. PICK s \in Slots \ Used : /\ s = worker[w].at.slot
                                    /\ \A t \in Slots : t < s => t \in Used
                                    /\ task[r].phase = "absent" /\ request[r] # "gone"
      BY <1>4 DEF CreateTask, Works, IInv, WorkerKnows
    <2>2. /\ task' = [task EXCEPT ![r] = [phase |-> "running", slot |-> s, held |-> FALSE]]
          /\ UNCHANGED <<request, running, dirs>>
      BY <1>4, <2>1 DEF CreateTask, controlVars
    <2>3. LeaseOf(task') = [LeaseOf(task) EXCEPT ![r] = s]
      BY <2>2 DEF LeaseOf, IInv, ProvisionTypeOK
    <2>4. LeaseOf(task)[r] = 0 /\ r \notin Over
      BY <2>1, LeaseOfTask DEF LeaseOf, Over
    <2>5. /\ ~\E q \in Requests : LeaseOf(task)[q] = s
          /\ \A t \in Slots : t < s => \E q \in Requests : LeaseOf(task)[q] = t
      BY <2>1, LeasedUsed
    <2>6. Lease!Grant(r, s)
      BY <2>2, <2>3, <2>4, <2>5 DEF Lease!Grant, Lease!Leased, LeaseOf, Over
    <2> QED BY <2>6 DEF Lease!LeaseNext
  <1>5. ASSUME NEW w \in Workers, NEW r \in Requests, RequestEnds(w, r) PROVE Implements
    <2>1. UNCHANGED <<task, running, dirs>> /\ request' = [request EXCEPT ![r] = "gone"]
      BY <1>5 DEF RequestEnds, Finish, controlVars
    <2>2. Over' = Over \union {r} /\ r \notin Over
      BY <1>5, <2>1 DEF RequestEnds, Over, IInv, ProvisionTypeOK
    <2>3. CASE task[r].phase = "absent"
      <3>1. LeaseOf(task)[r] = 0
        BY <2>3, LeaseOfTask DEF LeaseOf
      <3>2. Lease!Withdraw(r)
        BY <2>1, <2>2, <3>1 DEF Lease!Withdraw, LeaseOf, Over
      <3> QED BY <3>2 DEF Lease!LeaseNext
    <2>4. CASE task[r].phase # "absent"
      <3>1. running[r] = 0 /\ task[r].slot \notin dirs /\ task[r].slot # 0
        BY <1>5, <2>4, UnheldIsClean, LeaseOfTask DEF RequestEnds
      <3>2. Lease!Lose(r)
        BY <2>1, <2>2, <3>1 DEF Lease!Lose, Lease!Clean, LeaseOf, Over
      <3> QED BY <3>2 DEF Lease!LeaseNext
    <2> QED BY <2>3, <2>4
  <1>6. ASSUME NEW w \in Workers, NEW r \in Requests, TaskTornDown(w, r) PROVE Implements
    <2>1. LeaseOf(task') = LeaseOf(task)
      BY <1>6, TeardownEffect DEF TaskTornDown, LeaseOf, IInv, ProvisionTypeOK
    <2> QED BY <1>6, <2>1 DEF TaskTornDown, Hidden, LeaseOf, Over, controlVars
  <1>7. ASSUME NEW w \in Workers, NEW r \in Requests, DestroyTask(w, r) PROVE Implements
    <2>1. task[r].phase = "tearingDown" /\ ~task[r].held /\ request[r] # "gone"
      BY <1>7 DEF DestroyTask, Works, IInv, WorkerKnows
    <2>2. running[r] = 0 /\ task[r].slot \notin dirs /\ task[r].slot # 0
      BY <2>1, UnheldIsClean, LeaseOfTask
    <2>3. /\ task' = [task EXCEPT ![r] = NoTask] /\ request' = [request EXCEPT ![r] = "gone"]
          /\ UNCHANGED <<running, dirs>>
      BY <1>7 DEF DestroyTask, Finish, controlVars
    <2>4. LeaseOf(task') = [LeaseOf(task) EXCEPT ![r] = 0]
      <3>1. task'[r].slot = 0 /\ \A q \in Requests \ {r} : task'[q] = task[q]
        BY <2>3 DEF IInv, ProvisionTypeOK, NoTask
      <3> QED BY <3>1 DEF LeaseOf
    <2>5. Over' = Over \union {r} /\ r \notin Over
      BY <2>1, <2>3 DEF Over, IInv, ProvisionTypeOK
    <2>6. Lease!GiveBack(r)
      BY <2>2, <2>3, <2>4, <2>5 DEF Lease!GiveBack, Lease!Clean, LeaseOf, Over
    <2> QED BY <2>6 DEF Lease!LeaseNext
  <1>8. CASE ListTasks
    BY <1>8 DEF ListTasks, Hidden, LeaseOf, Over
  <1>9. ASSUME NEW r \in Requests, ResetMachine(r) PROVE Implements
    <2>1. /\ r \in Listed /\ running' = [running EXCEPT ![r] = 0]
          /\ dirs' = dirs \ {Seen(r).slot} /\ UNCHANGED <<task, request>>
      BY <1>9 DEF ResetMachine, Looks, Listed
    <2>2. CASE task[r].phase = "absent"
      <3>1. running[r] = 0 /\ Seen(r).slot \notin dirs
        BY <2>1, <2>2, LeaseOfTask DEF IInv, HeldWhileUsed
      <3>2. UNCHANGED <<running, dirs>>
        BY <2>1, <3>1 DEF IInv, ProvisionTypeOK
      <3> QED BY <2>1, <3>2 DEF Hidden, LeaseOf, Over
    <2>3. CASE task[r].phase # "absent"
      <3>1. LeaseOf(task)[r] # 0 /\ LeaseOf(task)[r] = Seen(r).slot
        BY <2>1, <2>3, LeaseOfTask DEF LeaseOf
      <3>2. Lease!Wipe(r)
        BY <2>1, <3>1 DEF Lease!Wipe, LeaseOf, Over
      <3> QED BY <3>2 DEF Lease!LeaseNext
    <2> QED BY <2>2, <2>3
  <1>10. ASSUME NEW r \in Requests, ResetFails(r) PROVE Implements
    <2>1. /\ running' = [running EXCEPT ![r] = 0] /\ UNCHANGED <<task, request, dirs>>
      BY <1>10 DEF ResetFails
    <2>2. running' = [q \in Requests |-> IF q \in {r} THEN 0 ELSE running[q]]
      BY <2>1 DEF IInv, ProvisionTypeOK
    <2>3. Lease!Halt({r}) /\ {r} \in SUBSET Requests
      BY <2>1, <2>2 DEF Lease!Halt, LeaseOf, Over
    <2> QED BY <2>3 DEF Lease!LeaseNext
  <1>11. ASSUME NEW r \in Requests, Release(r) PROVE Implements
    <2>1. LeaseOf(task') = LeaseOf(task)
      BY <1>11, HeldEffect DEF Release, LeaseOf, IInv, ProvisionTypeOK
    <2> QED BY <1>11, <2>1 DEF Release, Hidden, LeaseOf, Over
  <1>12. ASSUME NEW r \in Requests, HoldKnown(r) \/ HoldNew(r) \/ LoopEnds
         PROVE  Implements
    <2>1. \A q \in Requests : task'[q].slot = task[q].slot
      <3>1. CASE HoldNew(r)
        BY <3>1, HeldEffect DEF HoldNew, IInv, ProvisionTypeOK
      <3>2. CASE HoldKnown(r) \/ LoopEnds
        BY <3>2 DEF HoldKnown, LoopEnds
      <3> QED BY <1>12, <3>1, <3>2
    <2> QED BY <1>12, <2>1 DEF HoldKnown, HoldNew, LoopEnds, Hidden, LeaseOf, Over
  <1>13. ASSUME NEW r \in Requests, Start(r) PROVE Implements
    <2>1. /\ r \in Listed /\ task[r].held /\ r \notin Over
          /\ running' = [running EXCEPT ![r] = Seen(r).slot]
          /\ dirs' = dirs \union {Seen(r).slot} /\ UNCHANGED <<task, request>>
      BY <1>13, LeaseOfTask DEF Start, Has, Listed, IInv, HandKnows, OverIsClean, Over
    <2>2. LeaseOf(task)[r] # 0 /\ LeaseOf(task)[r] = Seen(r).slot
      BY <2>1, LeaseOfTask DEF LeaseOf
    <2>3. Lease!Run(r)
      BY <2>1, <2>2 DEF Lease!Run, LeaseOf, Over
    <2> QED BY <2>3 DEF Lease!LeaseNext
  <1>14. CASE ProviderRestart
    <2>1. /\ running' = [q \in Requests |-> IF q \in Requests THEN 0 ELSE running[q]]
          /\ UNCHANGED <<task, request, dirs>>
      BY <1>14 DEF ProviderRestart
    <2>2. Lease!Halt(Requests)
      BY <2>1 DEF Lease!Halt, LeaseOf, Over
    <2> QED BY <2>2 DEF Lease!LeaseNext
  <1>15. CASE UNCHANGED vars
    BY <1>15 DEF vars, controlVars, Hidden, LeaseOf, Over
  <1>16. CASE Next
    <2> HIDE DEF Implements
    <2> QED BY <1>2, <1>3, <1>4, <1>5, <1>6, <1>7, <1>8, <1>9, <1>10, <1>11, <1>12, <1>13,
               <1>14, <1>16, HoldCases, LoopCases, DeprovisionCases DEF Next, WorkerStep, ControlStep
  <1> QED BY <1>15, <1>16

\* For any requests and slots, with one worker: the provider, its library and the
\* MachineController together lease slots as SlotLease says.
THEOREM ProvisionImplements == Spec => ImplementsLease
  <1>1. Init => Lease!LeaseInit
    BY DEF Init, Lease!LeaseInit, NoTask
  <1>2. IInv /\ IInv' /\ [Next]_vars => [Lease!LeaseNext]_(Lease!leaseVars)
    BY LeaseStep
  <1> QED BY <1>1, <1>2, IInvCorrect, PTL DEF Spec, InitNext, ImplementsLease, Lease!LeaseSpec

\* A slot no task has carries neither a directory nor a machine over to its next task: the
\* finalizer keeps the task until both are gone.  A task that is left behind has neither.
THEOREM SlotsClean == Spec => []Lease!FreeIsClean
  <1>1. IInv => Lease!FreeIsClean
    <2> SUFFICES ASSUME IInv PROVE Lease!FreeIsClean
      OBVIOUS
    <2>1. ASSUME NEW s \in Slots, ~\E r \in Requests : LeaseOf(task)[r] = s
          PROVE  s \notin dirs /\ \A r \in Requests : running[r] # s
      <3>1. \A r \in Requests : task[r].slot # s
        BY <2>1 DEF LeaseOf
      <3>2. s # 0
        BY BoundAssumption DEF Slots
      <3> QED BY <3>1, <3>2 DEF IInv, HeldWhileUsed
    <2>2. ASSUME NEW r \in Over PROVE running[r] = 0 /\ LeaseOf(task)[r] \notin dirs
      <3>1. r \in Requests /\ (task[r].phase # "absent" => ~task[r].held)
        BY DEF Over, IInv, OverIsClean
      <3>2. CASE task[r].phase # "absent"
        BY <3>1, <3>2, UnheldIsClean DEF LeaseOf
      <3>3. CASE task[r].phase = "absent"
        <4>1. ~task[r].held /\ task[r].slot = 0
          BY <3>1, <3>3, LeaseOfTask
        <4>2. 0 \notin dirs
          BY BoundAssumption DEF IInv, ProvisionTypeOK, Slots
        <4> QED BY <3>1, <4>1, <4>2 DEF IInv, HeldWhileUsed, LeaseOf
      <3> QED BY <3>2, <3>3
    <2> QED BY <2>1, <2>2 DEF Lease!FreeIsClean, Lease!Leased, LeaseOf, Over
  <1> QED BY <1>1, IInvCorrect, PTL DEF Spec
=============================================================================
