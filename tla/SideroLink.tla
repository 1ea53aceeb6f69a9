------------------------------ MODULE SideroLink ------------------------------
(***************************************************************************)
(* The address of one emulated machine on the SideroLink network: the      *)
(* ManagerController (siderolink.go) provisions the machine with Omni and  *)
(* writes its LinkSpec and AddressSpec, the LinkSpec, LinkStatus and       *)
(* AddressSpec controllers bring the WireGuard link and its addresses up,  *)
(* and the NodeAddressController tells the rest of the machine about them. *)
(*                                                                         *)
(* Omni gives a node UUID an address of its own, so an address is named by *)
(* its UUID.  Omni may override the UUID while the machine runs; the old   *)
(* address must then go and the new one come.                              *)
(***************************************************************************)
EXTENDS Naturals, FiniteSets

CONSTANTS
    Uuids,         \* the node UUIDs the machine may have
    FirstUuid,     \* the one it starts with
    Endpoints,     \* WireGuard endpoints in a provision response
    MaxOverrides,  \* bound on UUID overrides
    MaxFailures    \* bound on failing calls to Omni and to the kernel

ASSUME UuidAssumption == FirstUuid \in Uuids
ASSUME EndpointAssumption == Endpoints \in Nat \ {0}
ASSUME BoundAssumption == MaxOverrides \in Nat /\ MaxFailures \in Nat

VARIABLES
    uuid,       \* the UUID in SystemInformation
    overrides,  \* UUID overrides so far
    used,       \* the UUIDs given up so far (history)
    failures,   \* failed calls so far
    cut,        \* a round ended before it deleted an address it had released (history)
    mgr,        \* the ManagerController: provision data, step, specs to clean up
    spec,       \* address -> its AddressSpec
    link,       \* has the LinkSpec changed, and is there a link in the kernel?
    ac,         \* the AddressSpecController: its step and what it listed
    kernel,     \* the addresses the kernel's link has
    statuses,   \* the addresses with an AddressStatus
    nodeAddrs,  \* the addresses NodeAddress and MachineStatus show
    events      \* the controllers with an event to handle

vars == <<uuid, overrides, used, failures, cut, mgr, spec, link, ac, kernel,
          statuses, nodeAddrs, events>>
machineVars == <<uuid, overrides, used>>
kernelVars == <<kernel, statuses, cut>>

Controllers == {"manager", "address", "node"}
Phases == {"absent", "running", "tearingDown"}
Absent == [phase |-> "absent", held |-> FALSE]

SideroLinkTypeOK ==
    /\ uuid \in Uuids /\ used \subseteq Uuids
    /\ overrides \in 0..MaxOverrides /\ failures \in 0..MaxFailures
    /\ cut \in BOOLEAN
    /\ mgr \in [pc : {"idle", "provision", "link", "address", "clean", "destroy"},
                uuid : Uuids, left : 0..Endpoints, todo : SUBSET Uuids]
    /\ spec \in [Uuids -> [phase : Phases, held : BOOLEAN]]
    /\ \A u \in Uuids : spec[u].phase = "absent" => spec[u] = Absent
    /\ link \in [changed : BOOLEAN, up : BOOLEAN]
    /\ ac \in [pc : {"idle", "finalize", "sync"}, list : [Uuids -> Phases],
               todo : SUBSET Uuids, link : BOOLEAN]
    /\ kernel \subseteq Uuids /\ statuses \subseteq Uuids /\ nodeAddrs \subseteq Uuids
    /\ events \subseteq Controllers

\* The AddressSpecController between two rounds.
Resting == [pc |-> "idle", list |-> [u \in Uuids |-> "absent"], todo |-> {}, link |-> FALSE]

Specs == {u \in Uuids : spec[u].phase # "absent"}
Running == {u \in Uuids : spec[u].phase = "running"}
Listed == {u \in Uuids : ac.list[u] # "absent"}

\* Addresses the AddressSpecController has yet to delete in the round it is in.
Doomed == IF ac.pc = "finalize" THEN {u \in kernel : ac.list[u] = "tearingDown"}
          ELSE {u \in kernel \intersect ac.todo : ac.list[u] = "tearingDown"}

Init ==
    /\ uuid = FirstUuid /\ overrides = 0 /\ used = {}
    /\ failures = 0 /\ cut = FALSE
    /\ mgr = [pc |-> "idle", uuid |-> FirstUuid, left |-> 0, todo |-> {}]
    /\ spec = [u \in Uuids |-> Absent]
    /\ link = [changed |-> FALSE, up |-> FALSE]
    /\ ac = Resting
    /\ kernel = {} /\ statuses = {} /\ nodeAddrs = {}
    /\ events = Controllers

\* A call fails: the controller returns the error and is started again with an event.
Fail(controller) ==
    /\ failures < MaxFailures
    /\ failures' = failures + 1
    /\ events' = events \union {controller}

\* What writing an AddressSpec wakes: its consumers, not the manager that writes it.
WriteSpec(u, value) ==
    /\ spec' = [spec EXCEPT ![u] = value]
    /\ events' = IF value = spec[u] THEN events ELSE events \union {"address", "node"}

-----------------------------------------------------------------------------
(* Omni, and the WireGuard peer *)

\* MetaWrite of the UUID override: the SystemInformation is an input of the manager.
OverrideNodeUUID(u) ==
    /\ overrides < MaxOverrides
    /\ u # uuid
    /\ overrides' = overrides + 1
    /\ uuid' = u
    /\ used' = used \union {uuid}
    /\ events' = events \union {"manager"}
    /\ UNCHANGED <<failures, mgr, spec, link, ac, nodeAddrs, kernelVars>>

-----------------------------------------------------------------------------
(* ManagerController *)

\* Variant at fault: the UUID is compared when the endpoints are used up.
NodeUUIDChangedAtEnd == mgr.left = 0 /\ uuid # mgr.uuid

\* The UUID is compared only while endpoints are left; without any, the
\* manager provisions anew and reads the UUID then.
NodeUUIDChanged == mgr.left > 0 /\ uuid # mgr.uuid

\* Variant at fault: the manager goes on with provision data whose endpoints are used up.
ManagerProceedAnyway ==
    mgr' = [mgr EXCEPT !.pc = IF NodeUUIDChanged \/ overrides = 0 THEN "provision" ELSE "link"]

\* Provision data is dropped when the UUID changed; an empty one is provisioned anew.
ManagerProceed ==
    LET left == IF NodeUUIDChanged THEN 0 ELSE mgr.left
    IN  mgr' = [mgr EXCEPT !.left = left, !.pc = IF left = 0 THEN "provision" ELSE "link"]

ManagerWake ==
    /\ mgr.pc = "idle"
    /\ "manager" \in events
    /\ events' = events \ {"manager"}
    /\ ManagerProceed
    /\ UNCHANGED <<failures, spec, link, ac, nodeAddrs, machineVars, kernelVars>>

\* The ticker finds the WireGuard peer down: the manager goes on to the next endpoint.
ManagerReconnect ==
    /\ mgr.pc = "idle"
    /\ link.up
    /\ ManagerProceed
    /\ UNCHANGED <<failures, spec, link, ac, nodeAddrs, events, machineVars, kernelVars>>

Provision ==
    /\ mgr.pc = "provision"
    /\ \/ /\ mgr' = [mgr EXCEPT !.uuid = uuid, !.left = Endpoints, !.pc = "link"]
          /\ UNCHANGED <<failures, events>>
       \/ /\ Fail("manager")
          /\ mgr' = [mgr EXCEPT !.pc = "idle"]
    /\ UNCHANGED <<spec, link, ac, nodeAddrs, machineVars, kernelVars>>

\* TakeEndpoint, then the LinkSpec, which changes unless the endpoint is the same as before.
WriteLinkSpec ==
    /\ mgr.pc = "link"
    /\ mgr' = [mgr EXCEPT !.left = @ - 1, !.pc = "address"]
    /\ \E same \in BOOLEAN : /\ same => link.up \/ link.changed
                             /\ link' = [link EXCEPT !.changed = @ \/ ~same]
    /\ UNCHANGED <<failures, spec, ac, nodeAddrs, events, machineVars, kernelVars>>

\* The manager has these specs left to clean up, or is done.
CleanUp(todo) ==
    mgr' = [mgr EXCEPT !.pc = IF todo = {} THEN "idle" ELSE "clean", !.todo = todo]

\* Only a running spec can be modified: one that is torn down fails the
\* manager, which does not reach its cleanup.
WriteAddressSpec ==
    /\ mgr.pc = "address"
    /\ \/ /\ spec[mgr.uuid].phase # "tearingDown"
          /\ WriteSpec(mgr.uuid, [spec[mgr.uuid] EXCEPT !.phase = "running"])
          /\ CleanUp(Specs \ {mgr.uuid})
       \/ /\ spec[mgr.uuid].phase = "tearingDown"
          /\ mgr' = [mgr EXCEPT !.pc = "idle"]
          /\ events' = events \union {"manager"}
          /\ UNCHANGED spec
    /\ UNCHANGED <<failures, link, ac, nodeAddrs, machineVars, kernelVars>>

\* A spec with a finalizer is left behind, for a later round of the manager.
CleanupTeardown(u) ==
    /\ mgr.pc = "clean"
    /\ u \in mgr.todo
    /\ WriteSpec(u, [spec[u] EXCEPT !.phase = "tearingDown"])
    /\ IF spec[u].held THEN CleanUp(mgr.todo \ {u}) ELSE mgr' = [mgr EXCEPT !.pc = "destroy"]
    /\ UNCHANGED <<failures, link, ac, nodeAddrs, machineVars, kernelVars>>

CleanupDestroy(u) ==
    /\ mgr.pc = "destroy"
    /\ u \in mgr.todo
    /\ spec[u].phase = "tearingDown" /\ ~spec[u].held
    /\ WriteSpec(u, Absent)
    /\ CleanUp(mgr.todo \ {u})
    /\ UNCHANGED <<failures, link, ac, nodeAddrs, machineVars, kernelVars>>

ManagerStep ==
    \/ ManagerWake \/ Provision \/ WriteLinkSpec \/ WriteAddressSpec
    \/ \E u \in Uuids : CleanupTeardown(u) \/ CleanupDestroy(u)

-----------------------------------------------------------------------------
(* LinkSpecController and LinkStatusController *)

\* Variant at fault: the LinkStatus wakes nobody.
SyncLinkUnseen ==
    /\ link.changed
    /\ link' = [changed |-> FALSE, up |-> TRUE]
    /\ UNCHANGED <<failures, mgr, spec, ac, nodeAddrs, events, machineVars, kernelVars>>

\* The link is created if it is missing and WireGuard is configured.  The LinkRefresh then
\* makes the LinkStatusController write the LinkStatus the AddressSpecController waits for.
SyncLink ==
    /\ link.changed
    /\ link' = [changed |-> FALSE, up |-> TRUE]
    /\ events' = events \union {"address"}
    /\ UNCHANGED <<failures, mgr, spec, ac, nodeAddrs, machineVars, kernelVars>>

\* The link may have been created before the call that fails: nobody is told yet.
SyncLinkFails ==
    /\ link.changed
    /\ failures < MaxFailures
    /\ failures' = failures + 1
    /\ \E up \in {link.up, TRUE} : link' = [link EXCEPT !.up = up]
    /\ UNCHANGED <<mgr, spec, ac, nodeAddrs, events, machineVars, kernelVars>>

-----------------------------------------------------------------------------
(* AddressSpecController *)

AddressWake ==
    /\ ac.pc = "idle"
    /\ "address" \in events
    /\ events' = events \ {"address"}
    /\ ac' = [ac EXCEPT !.pc = "finalize", !.todo = Specs,
                        !.list = [u \in Uuids |-> spec[u].phase]]
    /\ UNCHANGED <<failures, mgr, spec, link, nodeAddrs, machineVars, kernelVars>>

\* A spec listed as torn down is released before its address is deleted; one
\* listed as running is held, which fails if it was torn down since.
SyncFinalizer(u) ==
    /\ ac.pc = "finalize"
    /\ u \in ac.todo
    /\ ac.list[u] = "tearingDown" \/ spec[u].phase = "running"
    /\ WriteSpec(u, [spec[u] EXCEPT !.held = ac.list[u] = "running"])
    /\ ac' = [ac EXCEPT !.todo = @ \ {u}]
    /\ UNCHANGED <<failures, mgr, link, nodeAddrs, machineVars, kernelVars>>

SyncFinalizerFails(u) ==
    /\ ac.pc = "finalize"
    /\ u \in ac.todo
    /\ ac.list[u] = "running" /\ spec[u].phase # "running"
    /\ events' = events \union {"address"}
    /\ ac' = Resting
    /\ cut' = (cut \/ Doomed # {})
    /\ UNCHANGED <<failures, mgr, spec, link, kernel, statuses, nodeAddrs, machineVars>>

ListLinks ==
    /\ ac.pc = "finalize"
    /\ ac.todo = {}
    /\ ac' = [ac EXCEPT !.pc = "sync", !.link = link.up, !.todo = Listed]
    /\ UNCHANGED <<failures, mgr, spec, link, nodeAddrs, events, machineVars, kernelVars>>

\* The kernel does not list its links or addresses: the round ends after the finalizers and
\* before the addresses.
ListLinksFails ==
    /\ ac.pc = "finalize"
    /\ ac.todo = {}
    /\ Fail("address")
    /\ cut' = (cut \/ Doomed # {})
    /\ ac' = Resting
    /\ UNCHANGED <<mgr, spec, link, kernel, statuses, nodeAddrs, machineVars>>

\* Variant at fault: an address is deleted only while its spec still has the finalizer.
SyncAddressHeld(u) ==
    /\ ac.pc = "sync"
    /\ u \in ac.todo
    /\ ac' = [ac EXCEPT !.todo = @ \ {u}]
    /\ kernel' = IF ~ac.link THEN kernel
                 ELSE IF ac.list[u] = "running" THEN kernel \union {u}
                 ELSE IF spec[u].held THEN kernel \ {u} ELSE kernel
    /\ statuses' = IF ac.list[u] = "running" THEN statuses \union {u} ELSE statuses
    /\ UNCHANGED <<failures, cut, mgr, spec, events, link, nodeAddrs, machineVars>>

\* syncAddress, and the AddressStatus of an address that is listed as running.
\* An address cannot be assigned while its link is missing.
SyncAddress(u) ==
    /\ ac.pc = "sync"
    /\ u \in ac.todo
    /\ ac' = [ac EXCEPT !.todo = @ \ {u}]
    /\ \/ /\ ac.list[u] = "running"
          /\ kernel' = IF ac.link THEN kernel \union {u} ELSE kernel
          /\ statuses' = statuses \union {u}
          /\ UNCHANGED <<spec, events>>
       \/ /\ ac.list[u] = "tearingDown"
          /\ kernel' = IF ac.link THEN kernel \ {u} ELSE kernel
          /\ WriteSpec(u, [spec[u] EXCEPT !.held = FALSE])
          /\ UNCHANGED statuses
    /\ UNCHANGED <<failures, cut, mgr, link, nodeAddrs, machineVars>>

\* The kernel refuses the change: the round ends with what is left of it undone, and
\* the next one starts from a new list.
SyncAddressFails(u) ==
    /\ ac.pc = "sync"
    /\ u \in ac.todo
    /\ ac.link
    /\ ac.list[u] = "running" <=> u \notin kernel
    /\ Fail("address")
    /\ cut' = (cut \/ Doomed # {})
    /\ ac' = Resting
    /\ UNCHANGED <<mgr, spec, link, kernel, statuses, nodeAddrs, machineVars>>

\* The statuses of addresses that are not running any more are destroyed.
DestroyStatuses ==
    /\ ac.pc = "sync"
    /\ ac.todo = {}
    /\ statuses' = statuses \intersect {u \in Uuids : ac.list[u] = "running"}
    /\ ac' = Resting
    /\ UNCHANGED <<failures, cut, mgr, spec, link, kernel, nodeAddrs, events, machineVars>>

AddressStep ==
    \/ AddressWake \/ ListLinks \/ ListLinksFails \/ DestroyStatuses
    \/ \E u \in Uuids : \/ SyncFinalizer(u) \/ SyncFinalizerFails(u)
                      \/ SyncAddress(u) \/ SyncAddressFails(u)

-----------------------------------------------------------------------------
(* NodeAddressController *)

\* Every AddressSpec is shown, those that are torn down included.
NodeAddresses ==
    /\ "node" \in events
    /\ events' = events \ {"node"}
    /\ nodeAddrs' = Specs
    /\ UNCHANGED <<failures, mgr, spec, link, ac, machineVars, kernelVars>>

-----------------------------------------------------------------------------

Next ==
    \/ \E u \in Uuids : OverrideNodeUUID(u)
    \/ ManagerStep \/ ManagerReconnect
    \/ SyncLink \/ SyncLinkFails
    \/ AddressStep
    \/ NodeAddresses

\* A controller that has an event, or is in the middle of a round, is run.
Fairness ==
    /\ WF_vars(ManagerStep) /\ WF_vars(AddressStep) /\ WF_vars(NodeAddresses)
    /\ WF_vars(SyncLink)

SideroLinkSpec == Init /\ [][Next]_vars /\ Fairness

-----------------------------------------------------------------------------
(* What the controllers promise *)

\* nodeUUIDChanged and cleanup: a manager with nothing left to do has given the machine
\* the address of its current UUID and has torn down every other one, wherever an
\* override came in and however often Omni failed to answer.
IdleIsCurrent == mgr.pc = "idle" /\ "manager" \notin events => Running = {uuid}

\* The finalizer of the AddressSpecController: an address the kernel has is known to an
\* AddressSpec or about to be deleted, although its spec is released first and may be
\* destroyed at once, unless a round was cut short between the two.
AddressTracked == cut \/ kernel \subseteq Specs \union Doomed

\* siderolink.go: the machine re-provisions with the new UUID.  Once the UUID is settled,
\* and it is none the machine gave up before, its address is on the link, has a status and
\* is shown as an address of the node, whichever calls failed.  The addresses of the UUIDs
\* it gave up are gone then from the link and from the statuses that other controllers
\* listen by, unless a round was cut short in between.
OneAddressArrives ==
    \A u \in Uuids :
       <>[](uuid = u /\ u \notin used)
          => <>[](/\ u \in kernel /\ u \in statuses /\ u \in nodeAddrs
                  /\ ~cut => kernel \subseteq {u} /\ statuses \subseteq {u})
=============================================================================
