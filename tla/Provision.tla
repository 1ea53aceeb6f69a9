------------------------------ MODULE Provision ------------------------------
(***************************************************************************)
(* The infra provider: machine requests that become MachineTasks, each on  *)
(* a slot of its own, and the MachineController that runs one emulated     *)
(* machine per task.  A slot names the machine's state directory and its   *)
(* MachineStatus, and is free again when no task has it.                   *)
(*                                                                         *)
(* The provider library runs Provision and Deprovision in workers of its   *)
(* own, never two for one request, and the Machine resource with the slot  *)
(* is stored when the step succeeds; the MachineController runs beside     *)
(* them.  They share nothing but the MachineTasks and their finalizers.    *)
(***************************************************************************)
EXTENDS Naturals, FiniteSets

CONSTANTS
    Requests,    \* machine requests
    MaxSlot,     \* maxMachineCount - 1
    Workers,     \* workers of the provider library, which is run without WithConcurrency
    Malformed,   \* requests whose ConnectionArgs do not parse
    MaxFailures  \* bound on operations that fail and on restarts

ASSUME WorkerAssumption == \A v, w \in Workers : v = w
ASSUME BoundAssumption == MaxSlot \in Nat \ {0} /\ MaxFailures \in Nat /\ Malformed \subseteq Requests

VARIABLES
    request,   \* request -> "absent", "wanted", "removing", "gone"
    machine,   \* request -> the slot in its Machine resource, 0 for none
    task,      \* request -> its MachineTask
    worker,    \* worker -> what it is doing
    events,    \* does the MachineController have an event?
    control,   \* the loop of the MachineController
    running,   \* the tasks of the runner: request -> slot, 0 when not running
    dirs,      \* slots with a state directory and a MachineStatus
    failed,    \* requests whose createMachine failed, and that nothing says is tried again
    failures   \* failures so far

controlVars == <<control, running, dirs>>
vars == <<request, machine, task, worker, events, control, running, dirs, failed, failures>>

-----------------------------------------------------------------------------

Slots == 1 .. MaxSlot

Task == [phase : {"absent", "running", "tearingDown"}, slot : 0 .. MaxSlot, held : BOOLEAN]
NoTask == [phase |-> "absent", slot |-> 0, held |-> FALSE]

Worker == [pc : {"idle", "pick", "create", "wait", "destroy"}, slot : 0 .. MaxSlot]
Waiting == [pc |-> "idle", slot |-> 0]

\* The tasks still to look at, as they were listed, and what is next for the one in hand.
Control == [todo : SUBSET Requests, seen : [Requests -> Task],
            hand : SUBSET Requests, pc : {"look", "start", "release"}]
Resting == [todo |-> {}, seen |-> [r \in Requests |-> NoTask], hand |-> {}, pc |-> "look"]

ProvisionTypeOK ==
    /\ request \in [Requests -> {"absent", "wanted", "removing", "gone"}]
    /\ machine \in [Requests -> 0 .. MaxSlot]
    /\ task \in [Requests -> Task]
    /\ \A r \in Requests : task[r].phase = "absent" <=> task[r] = NoTask
    /\ worker \in [Workers -> [of : SUBSET Requests, at : Worker]]
    /\ events \in BOOLEAN
    /\ control \in Control
    /\ running \in [Requests -> 0 .. MaxSlot]
    /\ dirs \subseteq Slots
    /\ failed \subseteq Requests /\ failures \in 0 .. MaxFailures

Init ==
    /\ request = [r \in Requests |-> "absent"]
    /\ machine = [r \in Requests |-> 0]
    /\ task = [r \in Requests |-> NoTask]
    /\ worker = [w \in Workers |-> [of |-> {}, at |-> Waiting]]
    /\ events = TRUE /\ control = Resting
    /\ running = [r \in Requests |-> 0]
    /\ dirs = {} /\ failed = {} /\ failures = 0

-----------------------------------------------------------------------------
(* Omni: a machine is wanted, and later not any more *)

Ask(r) ==
    /\ request' = [request EXCEPT ![r] =
          CASE @ = "absent" -> "wanted" [] @ = "wanted" -> "removing" [] OTHER -> @]
    /\ request' # request
    /\ failed' = failed \ {r}
    /\ UNCHANGED <<machine, task, worker, events, controlVars, failures>>

-----------------------------------------------------------------------------
(* The createMachine step *)

Free(r) == \A w \in Workers : r \notin worker[w].of
Works(w, r, pc) == worker[w].of = {r} /\ worker[w].at.pc = pc
Turn(w, r, pc, s) == worker' = [worker EXCEPT ![w] = [of |-> {r}, at |-> [pc |-> pc, slot |-> s]]]
Done(w) == worker' = [worker EXCEPT ![w] = [of |-> {}, at |-> Waiting]]

\* A task, in whatever phase, means that the machine is provisioned; a slot that was
\* stored before is used again.
ProvisionStart(w, r) ==
    /\ worker[w].of = {} /\ Free(r)
    /\ request[r] = "wanted" /\ task[r].phase = "absent"
    /\ IF machine[r] = 0 THEN Turn(w, r, "pick", 0) ELSE Turn(w, r, "create", machine[r])
    /\ failed' = failed \ {r}
    /\ UNCHANGED <<request, machine, task, events, controlVars, failures>>

Used == {task[r].slot : r \in {q \in Requests : task[q].phase # "absent"}}

\* pickFreeSlot: the smallest slot no task has.
PickSlot(w, r) ==
    /\ Works(w, r, "pick")
    /\ \E s \in Slots : /\ s \notin Used
                        /\ \A t \in 1 .. s - 1 : t \in Used
                        /\ Turn(w, r, "create", s)
    /\ UNCHANGED <<request, machine, task, events, controlVars, failed, failures>>

\* "no free machine slots", no schematic, no store: a plain error, by which the step does not
\* ask to be run again, though it may be.
ProvisionFails(w, r) ==
    /\ \/ Works(w, r, "pick") /\ Slots \subseteq Used /\ UNCHANGED failures
       \/ /\ Works(w, r, "pick") \/ Works(w, r, "create")
          /\ failures < MaxFailures /\ failures' = failures + 1
    /\ failed' = failed \union {r}
    /\ Done(w)
    /\ UNCHANGED <<request, machine, task, events, controlVars>>

\* The task is created, and the Machine stored with the slot.
CreateTask(w, r) ==
    /\ Works(w, r, "create")
    /\ task' = [task EXCEPT ![r] = [phase |-> "running", slot |-> worker[w].at.slot, held |-> FALSE]]
    /\ machine' = [machine EXCEPT ![r] = worker[w].at.slot]
    /\ events' = TRUE
    /\ Done(w)
    /\ UNCHANGED <<request, controlVars, failed, failures>>

-----------------------------------------------------------------------------
(* Deprovision *)

\* The request is over as soon as there is no task, and its Machine goes.
Finish(w, r) ==
    /\ Done(w)
    /\ request' = [request EXCEPT ![r] = "gone"] /\ machine' = [machine EXCEPT ![r] = 0]

Deprovision(w, r) ==
    /\ worker[w].of = {} /\ Free(r)
    /\ request[r] = "removing"
    /\ IF task[r].phase = "absent"
       THEN Finish(w, r) /\ UNCHANGED <<task, events>>
       ELSE /\ task' = [task EXCEPT ![r].phase = "tearingDown"]
            /\ events' = TRUE
            /\ Turn(w, r, "wait", 0) /\ UNCHANGED <<request, machine>>
    /\ UNCHANGED <<controlVars, failed, failures>>

\* WatchFor sees a task without finalizers ...
Released(w, r) ==
    /\ Works(w, r, "wait") /\ ~task[r].held
    /\ Turn(w, r, "destroy", 0)
    /\ UNCHANGED <<request, machine, task, events, controlVars, failed, failures>>

\* Variant at fault: the wait has no end.
WaitForever(w, r) ==
    /\ Works(w, r, "wait") /\ failures < MaxFailures /\ failures' = failures + 1
    /\ Done(w)
    /\ UNCHANGED <<request, machine, task, events, controlVars, failed>>

\* ... or has waited for five seconds, or fails: Deprovision is called again.
WaitFails(w, r) ==
    /\ Works(w, r, "wait")
    /\ \/ task[r].held /\ UNCHANGED failures
       \/ ~task[r].held /\ failures < MaxFailures /\ failures' = failures + 1
    /\ Done(w)
    /\ UNCHANGED <<request, machine, task, events, controlVars, failed>>

DestroyTask(w, r) ==
    /\ Works(w, r, "destroy")
    /\ task' = [task EXCEPT ![r] = NoTask]
    /\ events' = TRUE
    /\ Finish(w, r)
    /\ UNCHANGED <<controlVars, failed, failures>>

\* Only "not found", which cannot be, is returned: any other error of the Destroy is lost, the
\* five seconds being over among them.  The request is over, and the task stays.
DestroySwallowed(w, r) ==
    /\ Works(w, r, "destroy")
    /\ failures < MaxFailures /\ failures' = failures + 1
    /\ Finish(w, r)
    /\ UNCHANGED <<task, events, controlVars, failed>>

-----------------------------------------------------------------------------
(* MachineController.Run *)

\* An event: the tasks are listed, and looked at one after the other.
ListTasks ==
    /\ events /\ control.todo = {} /\ control.hand = {}
    /\ events' = FALSE
    /\ control' = [Resting EXCEPT !.todo = {r \in Requests : task[r].phase # "absent"}, !.seen = task]
    /\ UNCHANGED <<request, machine, task, worker, running, dirs, failed, failures>>

Seen(r) == control.seen[r]
Looks(r, phase) == r \in control.todo /\ control.hand = {} /\ Seen(r).phase = phase
Has(r, pc) == control.hand = {r} /\ control.pc = pc
Take(r, pc) == control' = [control EXCEPT !.todo = @ \ {r}, !.hand = {r}, !.pc = pc]
\* The list goes with its last task.
Put == control' = IF control.todo = {} THEN Resting ELSE [control EXCEPT !.hand = {}, !.pc = "look"]

\* Variant at fault: the error is logged and the next event waited for.
RestartControlQuiet == control' = Resting /\ UNCHANGED events

\* An error ends the loop over the tasks; the restarted controller lists them again.
RestartControl == control' = Resting /\ events' = TRUE

\* Variant at fault: the finalizer goes before the machine does.
ResetMachineReleased(r) ==
    /\ Looks(r, "tearingDown")
    /\ task' = [task EXCEPT ![r].held = FALSE]
    /\ Take(r, "release")
    /\ UNCHANGED <<request, machine, worker, events, running, dirs, failed, failures>>

\* resetMachine: the machine is stopped, its directory and its MachineStatus removed ...
ResetMachine(r) ==
    /\ Looks(r, "tearingDown")
    /\ running' = [running EXCEPT ![r] = 0]
    /\ dirs' = dirs \ {Seen(r).slot}
    /\ Take(r, "release")
    /\ UNCHANGED <<request, machine, task, worker, events, failed, failures>>

\* ... or that fails half way ...
ResetFails(r) ==
    /\ Looks(r, "tearingDown")
    /\ failures < MaxFailures /\ failures' = failures + 1
    /\ running' = [running EXCEPT ![r] = 0]
    /\ RestartControl
    /\ UNCHANGED <<request, machine, task, worker, dirs, failed>>

\* ... and the finalizer is removed, if the task is still there.
Release(r) ==
    /\ Has(r, "release")
    /\ task' = [task EXCEPT ![r].held = FALSE]
    /\ events' = (events \/ task' # task)
    /\ Put
    /\ UNCHANGED <<request, machine, worker, running, dirs, failed, failures>>

\* Variant at fault: the finalizer is added to whatever is there now.
HoldUnchecked(r) ==
    /\ Looks(r, "running")
    /\ task' = [task EXCEPT ![r].held = TRUE]
    /\ events' = TRUE
    /\ Take(r, "start")
    /\ UNCHANGED <<request, machine, worker, running, dirs, failed, failures>>

\* Variant at fault: the machine is started before the finalizer is there.
HoldLate(r) ==
    /\ Looks(r, "running")
    /\ running' = [running EXCEPT ![r] = Seen(r).slot]
    /\ dirs' = dirs \union {Seen(r).slot}
    /\ IF task[r].phase = "running"
       THEN /\ task' = [task EXCEPT ![r].held = TRUE]
            /\ events' = TRUE
            /\ Take(r, "start")
       ELSE RestartControl /\ UNCHANGED task
    /\ UNCHANGED <<request, machine, worker, failed, failures>>

\* A task without the finalizer gets it, unless it is going already: then the controller
\* fails.
Hold(r) ==
    /\ Looks(r, "running")
    /\ IF Seen(r).held
       THEN Take(r, "start") /\ UNCHANGED <<task, events>>
       ELSE IF task[r].phase = "running"
       THEN /\ task' = [task EXCEPT ![r].held = TRUE]
            /\ events' = TRUE
            /\ Take(r, "start")
       ELSE RestartControl /\ UNCHANGED task
    /\ UNCHANGED <<request, machine, worker, running, dirs, failed, failures>>

\* StartTask, and the machine's NewRuntime on its slot ...
Start(r) ==
    /\ Has(r, "start") /\ r \notin Malformed
    /\ running' = [running EXCEPT ![r] = Seen(r).slot]
    /\ dirs' = dirs \union {Seen(r).slot}
    /\ Put
    /\ UNCHANGED <<request, machine, task, worker, events, failed, failures>>

\* ... or its ConnectionArgs do not parse, which ends the loop for the tasks behind it too.
StartRefused(r) ==
    /\ Has(r, "start") /\ r \in Malformed
    /\ RestartControl
    /\ UNCHANGED <<request, machine, task, worker, running, dirs, failed, failures>>

\* The finalizer cannot be added or removed.
FinalizerFails(r) ==
    /\ Looks(r, "running") \/ Has(r, "release")
    /\ failures < MaxFailures /\ failures' = failures + 1
    /\ RestartControl
    /\ UNCHANGED <<request, machine, task, worker, running, dirs, failed>>

\* The provider is restarted: tasks, Machines and directories are on disk.
ProviderRestart ==
    /\ failures < MaxFailures /\ failures' = failures + 1
    /\ worker' = [w \in Workers |-> [of |-> {}, at |-> Waiting]]
    /\ RestartControl
    /\ running' = [r \in Requests |-> 0]
    /\ UNCHANGED <<request, machine, task, dirs, failed>>

-----------------------------------------------------------------------------

WorkerStep(w) ==
    \E r \in Requests :
        \/ PickSlot(w, r) \/ ProvisionFails(w, r) \/ CreateTask(w, r)
        \/ Released(w, r) \/ WaitFails(w, r) \/ DestroyTask(w, r) \/ DestroySwallowed(w, r)

ControlStep ==
    \/ ListTasks
    \/ \E r \in Requests : ResetMachine(r) \/ Release(r) \/ Hold(r) \/ Start(r) \/ StartRefused(r)

Next ==
    \/ \E r \in Requests : Ask(r) \/ ResetFails(r) \/ FinalizerFails(r)
    \/ \E w \in Workers : \/ WorkerStep(w)
                         \/ \E r \in Requests : ProvisionStart(w, r) \/ Deprovision(w, r)
    \/ ControlStep
    \/ ProviderRestart

InitNext == Init /\ [][Next]_vars

\* What workers and controller have begun goes on.  A request has its turn on a worker when it
\* is new, and when Deprovision has failed; one whose createMachine failed need not have another.
Fairness ==
    /\ WF_vars(ControlStep)
    /\ \A w \in Workers :
          /\ WF_vars(WorkerStep(w))
          /\ \A r \in Requests :
                SF_vars((r \notin failed /\ ProvisionStart(w, r)) \/ Deprovision(w, r))

Spec == InitNext /\ Fairness

-----------------------------------------------------------------------------
(* What the slots promise *)

\* MachineID: "slots are always unique".  Two tasks have different slots, and two machines that
\* run at the same time, be their tasks gone or not, never share a directory and a MachineStatus;
\* one that runs has not had its own removed by the reset of another.
RunningApart ==
    /\ \A q, r \in Requests :
           task[q].phase # "absent" /\ task[r].phase # "absent" /\ task[q].slot = task[r].slot
               => q = r
    /\ \A r \in Requests : running[r] # 0 =>
           /\ running[r] \in dirs
           /\ \A q \in Requests : running[q] = running[r] => q = r

\* No task with ConnectionArgs that do not parse is wanted for ever: it would end the
\* controller's loop every time.
LoopGoesRound == []<>(\A r \in Malformed : request[r] # "wanted")

\* A machine that is not wanted any more goes, with its directory and for good, be its task
\* destroyed or its slot lost: no finalizer keeps it, and no worker that waits for the finalizer
\* of another, which the controller cannot reach before the worker does something else.
RemovedGoes ==
    LoopGoesRound =>
        \A r \in Requests :
            <>[](request[r] \in {"removing", "gone"}) =>
                <>[](request[r] = "gone" /\ running[r] = 0 /\ task[r].slot \notin dirs)

\* A machine that stays wanted runs in the end, if createMachine is tried again when it failed
\* and there is a free slot then: the slots of the machines that go are used again.
WantedRuns ==
    LoopGoesRound =>
        \A r \in Requests :
            /\ <>[](request[r] = "wanted") /\ []<>(r \notin failed)
            /\ <>[](task[r].phase # "absent" \/ ~(Slots \subseteq Used))
            => <>[](running[r] # 0)
=============================================================================
