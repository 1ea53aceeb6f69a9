--------------------------- MODULE SideroLinkProofs ---------------------------
(***************************************************************************)
(* Proofs about SideroLink, for any UUIDs, endpoints, overrides and        *)
(* failures.  They need no fairness.                                       *)
(***************************************************************************)
EXTENDS SideroLink, TLAPS

-----------------------------------------------------------------------------
(* The inductive invariant *)

\* What the manager did is right for the UUID it read, and this is the UUID of the machine
\* unless an event is waiting: the address of the UUID runs from the moment its spec is
\* written, and the other ones are torn down when the cleanup is through.
ManagerKnows ==
    /\ mgr.pc = "link" => mgr.left > 0
    /\ mgr.pc \in {"clean", "destroy"} =>
         /\ spec[mgr.uuid].phase = "running" /\ mgr.uuid \notin mgr.todo
         /\ Running \subseteq {mgr.uuid} \union mgr.todo
    /\ "manager" \notin events =>
         /\ mgr.pc \in {"link", "address", "clean", "destroy"} => mgr.uuid = uuid
         /\ mgr.pc = "idle" => Running = {uuid}

\* A round of the AddressSpecController holds what it listed as running from its finalizer
\* pass on; and it saw the link, which stays, if there was one for addresses to be on.
RoundKnows ==
    /\ ac.pc = "idle" => ac = Resting
    /\ ac.todo \subseteq Listed
    /\ \A u \in Uuids :
         ac.list[u] = "running" /\ (ac.pc = "finalize" => u \notin ac.todo) => spec[u].held
    /\ ac.link => link.up
    /\ kernel # {} => link.up /\ (ac.pc = "sync" => ac.link)

\* An address of the kernel is held through its spec, or about to be deleted.
HeldOrDoomed == cut \/ \A u \in kernel : spec[u].held \/ u \in Doomed

IInv == SideroLinkTypeOK /\ ManagerKnows /\ RoundKnows /\ HeldOrDoomed

-----------------------------------------------------------------------------
(* The specs *)

SpecValue == [phase : Phases, held : BOOLEAN]

LEMMA AbsentFacts == Absent \in SpecValue /\ Absent.phase = "absent" /\ ~Absent.held
  BY DEF Absent, SpecValue, Phases

LEMMA AbsentIsUnheld == [Absent EXCEPT !.held = FALSE] = Absent
  <1>1. \A s, r \in SpecValue : s.phase = r.phase /\ s.held = r.held => s = r
    BY DEF SpecValue
  <1>2. /\ [Absent EXCEPT !.held = FALSE] \in SpecValue
        /\ [Absent EXCEPT !.held = FALSE].phase = Absent.phase
        /\ [Absent EXCEPT !.held = FALSE].held = FALSE
    BY AbsentFacts DEF SpecValue
  <1>3. Absent.held = FALSE
    BY DEF Absent
  <1> QED BY <1>1, <1>2, <1>3, AbsentFacts

LEMMA BoundFacts ==
    /\ \A n \in 0..MaxFailures : n < MaxFailures => n + 1 \in 0..MaxFailures
    /\ \A n \in 0..MaxOverrides : n < MaxOverrides => n + 1 \in 0..MaxOverrides
    /\ \A n \in 0..Endpoints : n > 0 => n - 1 \in 0..Endpoints
    /\ 0 \in 0..Endpoints /\ Endpoints \in 0..Endpoints /\ Endpoints > 0
  BY EndpointAssumption, BoundAssumption

\* Writing one spec leaves the others alone, and does not wake the manager.
LEMMA WriteSpecFacts ==
    ASSUME SideroLinkTypeOK, NEW u \in Uuids, NEW value \in SpecValue,
           value.phase = "absent" => value = Absent,
           WriteSpec(u, value)
    PROVE  /\ spec' \in [Uuids -> SpecValue]
           /\ \A w \in Uuids : spec'[w].phase = "absent" => spec'[w] = Absent
           /\ spec'[u] = value
           /\ \A w \in Uuids : w # u => spec'[w] = spec[w]
           /\ events' \subseteq Controllers
           /\ "manager" \in events' <=> "manager" \in events
  <1>1. events' \subseteq Controllers /\ ("manager" \in events' <=> "manager" \in events)
    BY DEF WriteSpec, SideroLinkTypeOK, Controllers
  <1>2. spec' = [spec EXCEPT ![u] = value] /\ spec \in [Uuids -> SpecValue]
    BY DEF WriteSpec, SideroLinkTypeOK, SpecValue
  <1>3. /\ spec' \in [Uuids -> SpecValue] /\ spec'[u] = value
        /\ \A w \in Uuids : w # u => spec'[w] = spec[w]
    BY <1>2
  <1>4. \A w \in Uuids : spec'[w].phase = "absent" => spec'[w] = Absent
    BY <1>3 DEF SideroLinkTypeOK
  <1> QED BY <1>1, <1>3, <1>4

\* What a spec may be replaced with: another phase that is not absent, or another holder.
LEMMA ExceptFacts ==
    ASSUME NEW s \in SpecValue
    PROVE  /\ \A phase \in {"running", "tearingDown"} :
                /\ [s EXCEPT !.phase = phase] \in SpecValue
                /\ [s EXCEPT !.phase = phase].phase = phase
                /\ [s EXCEPT !.phase = phase].held = s.held
           /\ \A held \in BOOLEAN :
                /\ [s EXCEPT !.held = held] \in SpecValue
                /\ [s EXCEPT !.held = held].phase = s.phase
                /\ [s EXCEPT !.held = held].held = held
  BY DEF SpecValue, Phases

LEMMA SpecTyped ==
    ASSUME SideroLinkTypeOK
    PROVE  /\ spec \in [Uuids -> SpecValue]
           /\ \A u \in Uuids : spec[u] \in SpecValue
  <1>1. spec \in [Uuids -> SpecValue]
    BY DEF SideroLinkTypeOK, SpecValue
  <1> QED BY <1>1

-----------------------------------------------------------------------------
(* Steps of others *)

\* The manager's part holds as long as nobody else changes a phase, or takes its event.
LEMMA ManagerAside ==
    ASSUME ManagerKnows, UNCHANGED <<mgr, uuid>>,
           \A u \in Uuids : spec'[u].phase = spec[u].phase,
           mgr.uuid \in Uuids,
           "manager" \in events' <=> "manager" \in events
    PROVE  ManagerKnows'
  <1>1. Running' = Running
    BY DEF Running
  <1> QED BY <1>1 DEF ManagerKnows

\* The part of the AddressSpecController holds as long as nobody takes a finalizer away or
\* the link down.
LEMMA RoundAside ==
    ASSUME RoundKnows, HeldOrDoomed, kernel \subseteq Uuids,
           UNCHANGED <<ac, kernel, cut>>,
           \A u \in Uuids : spec[u].held => spec'[u].held,
           link.up => link'.up
    PROVE  RoundKnows' /\ HeldOrDoomed'
  <1>1. Listed' = Listed /\ Doomed' = Doomed
    BY DEF Listed, Doomed
  <1>2. RoundKnows'
    BY <1>1 DEF RoundKnows
  <1>3. HeldOrDoomed'
    BY <1>1 DEF HeldOrDoomed
  <1> QED BY <1>2, <1>3

-----------------------------------------------------------------------------
(* The steps of the manager *)

LEMMA InitIInv == Init => IInv
  <1> SUFFICES ASSUME Init PROVE IInv
    OBVIOUS
  <1>1. \A u \in Uuids : spec[u] = Absent /\ spec[u].phase = "absent" /\ ~spec[u].held
    BY AbsentFacts DEF Init
  <1>2. spec \in [Uuids -> [phase : Phases, held : BOOLEAN]]
    BY AbsentFacts DEF Init, SpecValue
  <1>3. ac = Resting /\ \A u \in Uuids : ac.list[u] = "absent"
    BY DEF Init, Resting
  <1>4. ac \in [pc : {"idle", "finalize", "sync"}, list : [Uuids -> Phases],
                todo : SUBSET Uuids, link : BOOLEAN]
    BY <1>3 DEF Resting, Phases
  <1>5. SideroLinkTypeOK
    <2>1. overrides \in 0..MaxOverrides /\ failures \in 0..MaxFailures
      BY BoundAssumption DEF Init
    <2> QED BY <1>1, <1>2, <1>4, <2>1, BoundFacts, UuidAssumption DEF Init, SideroLinkTypeOK
  <1>6. ManagerKnows
    BY DEF Init, ManagerKnows, Controllers
  <1>7. RoundKnows
    BY <1>3 DEF Init, RoundKnows, Resting
  <1>8. HeldOrDoomed
    BY DEF Init, HeldOrDoomed
  <1> QED BY <1>5, <1>6, <1>7, <1>8 DEF IInv

MgrPCs == {"idle", "provision", "link", "address", "clean", "destroy"}
MgrValue == [pc : MgrPCs, uuid : Uuids, left : 0..Endpoints, todo : SUBSET Uuids]

\* Where the manager is: what the proofs need of a record that is mostly kept.
LEMMA MgrTyped ==
    ASSUME SideroLinkTypeOK
    PROVE  /\ mgr \in MgrValue /\ mgr.uuid \in Uuids /\ mgr.todo \subseteq Uuids
           /\ mgr.left \in 0..Endpoints /\ uuid \in Uuids
  BY DEF SideroLinkTypeOK, MgrValue, MgrPCs

\* A step of the manager that writes no spec.
LEMMA ManagerOnly ==
    ASSUME IInv, UNCHANGED <<spec, ac, nodeAddrs, machineVars, kernelVars>>,
           mgr' \in MgrValue, link' \in [changed : BOOLEAN, up : BOOLEAN], link.up => link'.up,
           failures' \in 0..MaxFailures, events' \subseteq Controllers
    PROVE  SideroLinkTypeOK' /\ RoundKnows' /\ HeldOrDoomed' /\ Running' = Running
  <1>1. UNCHANGED <<spec, ac, nodeAddrs, uuid, overrides, used, kernel, statuses, cut>>
    BY DEF machineVars, kernelVars
  <1>2. SideroLinkTypeOK'
    BY <1>1 DEF IInv, SideroLinkTypeOK, MgrValue, MgrPCs
  <1>3. kernel \subseteq Uuids
    BY DEF IInv, SideroLinkTypeOK
  <1>4. RoundKnows' /\ HeldOrDoomed'
    BY <1>1, <1>3, RoundAside DEF IInv
  <1>5. Running' = Running
    BY <1>1 DEF Running
  <1> QED BY <1>2, <1>4, <1>5

\* Omni overrides the UUID: an event for the manager.
LEMMA OverrideKeeps ==
    ASSUME IInv, NEW u \in Uuids, OverrideNodeUUID(u)
    PROVE  IInv'
  <1>1. UNCHANGED <<failures, mgr, spec, link, ac, nodeAddrs, kernel, statuses, cut>>
    BY DEF OverrideNodeUUID, kernelVars
  <1>2. SideroLinkTypeOK'
    <2>1. overrides' \in 0..MaxOverrides
      BY BoundFacts DEF OverrideNodeUUID, IInv, SideroLinkTypeOK
    <2>2. uuid' \in Uuids /\ used' \subseteq Uuids /\ events' \subseteq Controllers
      BY DEF OverrideNodeUUID, IInv, SideroLinkTypeOK, Controllers
    <2> QED BY <1>1, <2>1, <2>2 DEF IInv, SideroLinkTypeOK
  <1>3. ManagerKnows'
    <2>1. Running' = Running /\ "manager" \in events'
      BY <1>1 DEF Running, OverrideNodeUUID
    <2> QED BY <1>1, <2>1 DEF IInv, ManagerKnows
  <1>4. RoundKnows' /\ HeldOrDoomed'
    BY <1>1, RoundAside DEF IInv, SideroLinkTypeOK
  <1> QED BY <1>2, <1>3, <1>4 DEF IInv

\* The start of a round: it goes on with provision data of the current UUID only.
LEMMA ProceedFacts ==
    ASSUME SideroLinkTypeOK, ManagerProceed
    PROVE  /\ mgr' \in MgrValue
           /\ mgr'.pc \in {"provision", "link"} /\ mgr'.uuid = mgr.uuid
           /\ mgr'.pc = "link" => mgr'.left > 0 /\ mgr.uuid = uuid
  <1> DEFINE left == IF NodeUUIDChanged THEN 0 ELSE mgr.left
             next == IF left = 0 THEN "provision" ELSE "link"
  <1>1. mgr' = [mgr EXCEPT !.left = left, !.pc = next]
    BY DEF ManagerProceed
  <1>2. left \in 0..Endpoints
    BY MgrTyped, BoundFacts
  <1>3. left # 0 => left > 0 /\ mgr.uuid = uuid
    BY <1>2, EndpointAssumption DEF NodeUUIDChanged
  <1>4. next \in {"provision", "link"} /\ (next = "link" => left # 0)
    OBVIOUS
  <1> HIDE DEF left, next
  <1>5. /\ mgr' \in MgrValue /\ mgr'.pc = next /\ mgr'.left = left /\ mgr'.uuid = mgr.uuid
    BY <1>1, <1>2, <1>4, MgrTyped DEF MgrValue, MgrPCs
  <1> QED BY <1>3, <1>4, <1>5

LEMMA ManagerWakeKeeps ==
    ASSUME IInv, ManagerWake
    PROVE  IInv'
  <1>1. /\ mgr' \in MgrValue
        /\ mgr'.pc \in {"provision", "link"} /\ mgr'.uuid = mgr.uuid
        /\ mgr'.pc = "link" => mgr'.left > 0 /\ mgr.uuid = uuid
        /\ uuid' = uuid
    BY ProceedFacts DEF IInv, ManagerWake, machineVars
  <1>2. SideroLinkTypeOK' /\ RoundKnows' /\ HeldOrDoomed'
    BY <1>1, ManagerOnly DEF ManagerWake, IInv, SideroLinkTypeOK
  <1>3. ManagerKnows'
    BY <1>1 DEF ManagerKnows
  <1> QED BY <1>2, <1>3 DEF IInv

LEMMA ManagerReconnectKeeps ==
    ASSUME IInv, ManagerReconnect
    PROVE  IInv'
  <1>1. /\ mgr' \in MgrValue
        /\ mgr'.pc \in {"provision", "link"} /\ mgr'.uuid = mgr.uuid
        /\ mgr'.pc = "link" => mgr'.left > 0 /\ mgr.uuid = uuid
        /\ uuid' = uuid
    BY ProceedFacts DEF IInv, ManagerReconnect, machineVars
  <1>2. SideroLinkTypeOK' /\ RoundKnows' /\ HeldOrDoomed'
    BY <1>1, ManagerOnly DEF ManagerReconnect, IInv, SideroLinkTypeOK
  <1>3. ManagerKnows'
    BY <1>1 DEF ManagerKnows
  <1> QED BY <1>2, <1>3 DEF IInv

\* Omni answers, for the UUID the machine has now; or does not, and the manager runs again.
LEMMA ProvisionKeeps ==
    ASSUME IInv, Provision
    PROVE  IInv'
  <1>1. UNCHANGED <<spec, ac, nodeAddrs, machineVars, kernelVars, link, uuid>>
    BY DEF Provision, machineVars
  <1>2. link \in [changed : BOOLEAN, up : BOOLEAN]
    BY DEF IInv, SideroLinkTypeOK
  <1>3. CASE mgr' = [mgr EXCEPT !.uuid = uuid, !.left = Endpoints, !.pc = "link"] /\ UNCHANGED <<failures, events>>
    <2>1. /\ mgr' \in MgrValue /\ mgr'.pc = "link" /\ mgr'.uuid = uuid /\ mgr'.left = Endpoints
      BY <1>3, MgrTyped, BoundFacts DEF IInv, MgrValue, MgrPCs
    <2>2. SideroLinkTypeOK' /\ RoundKnows' /\ HeldOrDoomed'
      BY <1>1, <1>2, <1>3, <2>1, ManagerOnly DEF IInv, SideroLinkTypeOK
    <2>3. ManagerKnows'
      BY <1>1, <2>1, BoundFacts DEF ManagerKnows
    <2> QED BY <2>2, <2>3 DEF IInv
  <1>4. CASE Fail("manager") /\ mgr' = [mgr EXCEPT !.pc = "idle"]
    <2>1. mgr' \in MgrValue /\ mgr'.pc = "idle"
      BY <1>4, MgrTyped DEF IInv, MgrValue, MgrPCs
    <2>2. failures' \in 0..MaxFailures /\ events' \subseteq Controllers /\ "manager" \in events'
      BY <1>4, BoundFacts DEF Fail, IInv, SideroLinkTypeOK, Controllers
    <2>3. SideroLinkTypeOK' /\ RoundKnows' /\ HeldOrDoomed'
      BY <1>1, <1>2, <2>1, <2>2, ManagerOnly
    <2>4. ManagerKnows'
      BY <2>1, <2>2 DEF ManagerKnows
    <2> QED BY <2>3, <2>4 DEF IInv
  <1> QED BY <1>3, <1>4 DEF Provision

LEMMA WriteLinkSpecKeeps ==
    ASSUME IInv, WriteLinkSpec
    PROVE  IInv'
  <1>1. mgr.left > 0 /\ mgr.left \in 0..Endpoints
    BY MgrTyped DEF WriteLinkSpec, IInv, ManagerKnows
  <1>2. mgr' = [mgr EXCEPT !.left = mgr.left - 1, !.pc = "address"] /\ mgr.left - 1 \in 0..Endpoints
    BY <1>1, BoundFacts DEF WriteLinkSpec
  <1>3. mgr' \in MgrValue /\ mgr'.pc = "address" /\ mgr'.uuid = mgr.uuid
    BY <1>2, MgrTyped DEF IInv, MgrValue, MgrPCs
  <1>4. link' \in [changed : BOOLEAN, up : BOOLEAN] /\ link'.up = link.up
    BY DEF WriteLinkSpec, IInv, SideroLinkTypeOK
  <1>5. SideroLinkTypeOK' /\ RoundKnows' /\ HeldOrDoomed'
    BY <1>3, <1>4, ManagerOnly DEF WriteLinkSpec, IInv, SideroLinkTypeOK
  <1>6. ManagerKnows'
    <2>1. UNCHANGED <<events, uuid>> /\ mgr.pc = "link"
      BY DEF WriteLinkSpec, machineVars
    <2> QED BY <1>3, <2>1 DEF IInv, ManagerKnows
  <1> QED BY <1>5, <1>6 DEF IInv

\* A step of the manager that writes a spec, and leaves it held by whom it is held by, or
\* destroys one that is not held.
LEMMA ManagerWrites ==
    ASSUME IInv, UNCHANGED <<failures, link, ac, nodeAddrs, machineVars, kernelVars>>,
           mgr' \in MgrValue,
           NEW u \in Uuids, NEW value \in SpecValue, value.phase = "absent" => value = Absent,
           spec[u].held => value.held,
           WriteSpec(u, value)
    PROVE  SideroLinkTypeOK' /\ RoundKnows' /\ HeldOrDoomed'
  <1>1. UNCHANGED <<failures, link, ac, nodeAddrs, uuid, overrides, used, kernel, statuses, cut>>
    BY DEF machineVars, kernelVars
  <1>2. /\ spec' \in [Uuids -> SpecValue]
        /\ \A w \in Uuids : spec'[w].phase = "absent" => spec'[w] = Absent
        /\ spec'[u] = value
        /\ \A w \in Uuids : w # u => spec'[w] = spec[w]
        /\ events' \subseteq Controllers
    BY WriteSpecFacts DEF IInv
  <1>3. SideroLinkTypeOK'
    BY <1>1, <1>2 DEF IInv, SideroLinkTypeOK, MgrValue, MgrPCs, SpecValue
  <1>4. \A w \in Uuids : spec[w].held => spec'[w].held
    BY <1>2
  <1>5. RoundKnows' /\ HeldOrDoomed'
    BY <1>1, <1>4, RoundAside DEF IInv, SideroLinkTypeOK
  <1> QED BY <1>3, <1>5

LEMMA CleanUpFacts ==
    ASSUME SideroLinkTypeOK, NEW todo \in SUBSET Uuids, CleanUp(todo)
    PROVE  /\ mgr' \in MgrValue /\ mgr'.uuid = mgr.uuid /\ mgr'.todo = todo
           /\ mgr'.pc = IF todo = {} THEN "idle" ELSE "clean"
  <1> DEFINE next == IF todo = {} THEN "idle" ELSE "clean"
  <1>1. mgr' = [mgr EXCEPT !.pc = next, !.todo = todo]
    BY DEF CleanUp
  <1>2. next \in MgrPCs
    BY DEF MgrPCs
  <1>3. mgr \in MgrValue
    BY MgrTyped
  <1> HIDE DEF next
  <1>4. mgr' \in MgrValue /\ mgr'.uuid = mgr.uuid /\ mgr'.todo = todo /\ mgr'.pc = next
    BY <1>1, <1>2, <1>3 DEF MgrValue
  <1> QED BY <1>4 DEF next

\* What is left to do is what still runs beside the address of the UUID.
LEMMA CleanUpKnows ==
    ASSUME SideroLinkTypeOK, NEW todo \in SUBSET Uuids, CleanUp(todo),
           UNCHANGED uuid, "manager" \notin events' => mgr.uuid = uuid,
           spec'[mgr.uuid].phase = "running", mgr.uuid \notin todo,
           Running' \subseteq {mgr.uuid} \union todo
    PROVE  ManagerKnows'
  <1>1. /\ mgr'.uuid = mgr.uuid /\ mgr'.todo = todo
        /\ mgr'.pc = IF todo = {} THEN "idle" ELSE "clean"
    BY CleanUpFacts
  <1>2. mgr.uuid \in Running'
    BY MgrTyped DEF Running
  <1>3. CASE todo = {}
    BY <1>1, <1>2, <1>3 DEF ManagerKnows
  <1>4. CASE todo # {}
    BY <1>1, <1>4 DEF ManagerKnows
  <1> QED BY <1>3, <1>4

\* The address of the UUID runs now, and every other spec is to be cleaned up; or the spec is
\* still being torn down and the manager runs again.
LEMMA WriteAddressSpecKeeps ==
    ASSUME IInv, WriteAddressSpec
    PROVE  IInv'
  <1> DEFINE u == mgr.uuid
             value == [spec[u] EXCEPT !.phase = "running"]
             todo == Specs \ {u}
  <1>1. SideroLinkTypeOK /\ u \in Uuids /\ todo \in SUBSET Uuids /\ mgr.pc = "address"
    BY MgrTyped DEF IInv, Specs, WriteAddressSpec
  <1>2. UNCHANGED <<failures, link, ac, nodeAddrs, machineVars, kernelVars, uuid>>
    BY DEF WriteAddressSpec, machineVars
  <1>3. value \in SpecValue /\ value.phase = "running" /\ value.held = spec[u].held
    BY <1>1, ExceptFacts, SpecTyped
  <1>4. CASE WriteSpec(u, value) /\ CleanUp(todo)
    <2> HIDE DEF u, value, todo
    <2>1. /\ mgr' \in MgrValue
      BY <1>1, <1>4, CleanUpFacts
    <2>2. /\ spec'[u] = value
          /\ \A w \in Uuids : w # u => spec'[w] = spec[w]
          /\ "manager" \in events' <=> "manager" \in events
      BY <1>1, <1>3, <1>4, AbsentFacts, WriteSpecFacts
    <2>3. SideroLinkTypeOK' /\ RoundKnows' /\ HeldOrDoomed'
      BY <1>1, <1>2, <1>3, <1>4, <2>1, ManagerWrites
    <2>4. Running' \subseteq {u} \union todo
      BY <1>1, <2>2 DEF Running, Specs, todo
    <2>5. "manager" \notin events' => u = uuid
      BY <1>1, <2>2 DEF IInv, ManagerKnows, u
    <2>6. ManagerKnows'
      BY <1>1, <1>2, <1>3, <1>4, <2>2, <2>4, <2>5, CleanUpKnows DEF u, todo
    <2> QED BY <2>3, <2>6 DEF IInv
  <1>5. CASE mgr' = [mgr EXCEPT !.pc = "idle"] /\ events' = events \union {"manager"} /\ UNCHANGED spec
    <2>1. mgr' \in MgrValue /\ mgr'.pc = "idle"
      BY <1>1, <1>5, MgrTyped DEF MgrValue, MgrPCs
    <2>2. SideroLinkTypeOK' /\ RoundKnows' /\ HeldOrDoomed'
      BY <1>2, <1>5, <2>1, ManagerOnly DEF IInv, SideroLinkTypeOK, Controllers
    <2>3. ManagerKnows'
      BY <1>5, <2>1 DEF ManagerKnows
    <2> QED BY <2>2, <2>3 DEF IInv
  <1> QED BY <1>4, <1>5 DEF WriteAddressSpec

\* One spec is torn down, and left behind if it is held.
LEMMA CleanupTeardownKeeps ==
    ASSUME IInv, NEW u \in Uuids, CleanupTeardown(u)
    PROVE  IInv'
  <1> DEFINE value == [spec[u] EXCEPT !.phase = "tearingDown"]
  <1>1. /\ SideroLinkTypeOK /\ mgr.pc = "clean" /\ u \in mgr.todo /\ mgr.uuid \in Uuids
        /\ mgr.todo \in SUBSET Uuids
        /\ mgr.uuid # u /\ spec[mgr.uuid].phase = "running"
        /\ Running \subseteq {mgr.uuid} \union mgr.todo /\ mgr.uuid \notin mgr.todo
        /\ "manager" \notin events => mgr.uuid = uuid
    BY MgrTyped DEF IInv, CleanupTeardown, ManagerKnows
  <1>2. UNCHANGED <<failures, link, ac, nodeAddrs, machineVars, kernelVars, uuid>>
    BY DEF CleanupTeardown, machineVars
  <1>3. value \in SpecValue /\ value.phase = "tearingDown" /\ value.held = spec[u].held
    BY <1>1, ExceptFacts, SpecTyped
  <1>4. WriteSpec(u, value)
    BY DEF CleanupTeardown
  <1> HIDE DEF value
  <1>5. /\ spec'[u] = value
        /\ \A w \in Uuids : w # u => spec'[w] = spec[w]
        /\ "manager" \in events' <=> "manager" \in events
    BY <1>1, <1>3, <1>4, AbsentFacts, WriteSpecFacts
  <1>6. /\ spec'[mgr.uuid].phase = "running"
        /\ Running' \subseteq {mgr.uuid} \union (mgr.todo \ {u})
    BY <1>1, <1>3, <1>5 DEF Running
  <1>7. mgr' \in MgrValue /\ ManagerKnows'
    <2>1. CASE CleanUp(mgr.todo \ {u})
      <3>1. mgr.todo \ {u} \in SUBSET Uuids
        BY <1>1
      <3> QED BY <1>1, <1>2, <1>5, <1>6, <2>1, <3>1, CleanUpFacts, CleanUpKnows
    <2>2. CASE mgr' = [mgr EXCEPT !.pc = "destroy"]
      <3>1. mgr' \in MgrValue /\ mgr'.pc = "destroy" /\ mgr'.uuid = mgr.uuid /\ mgr'.todo = mgr.todo
        BY <1>1, <2>2, MgrTyped DEF MgrValue, MgrPCs
      <3> QED BY <1>1, <1>2, <1>5, <1>6, <3>1 DEF ManagerKnows
    <2> QED BY <2>1, <2>2 DEF CleanupTeardown
  <1>8. SideroLinkTypeOK' /\ RoundKnows' /\ HeldOrDoomed'
    BY <1>2, <1>3, <1>4, <1>7, AbsentFacts, ManagerWrites
  <1> QED BY <1>7, <1>8 DEF IInv

\* It is destroyed: nobody holds it.
LEMMA CleanupDestroyKeeps ==
    ASSUME IInv, NEW u \in Uuids, CleanupDestroy(u)
    PROVE  IInv'
  <1>1. /\ SideroLinkTypeOK /\ mgr.pc = "destroy" /\ u \in mgr.todo /\ mgr.uuid \in Uuids
        /\ mgr.todo \ {u} \in SUBSET Uuids
        /\ mgr.uuid # u /\ spec[mgr.uuid].phase = "running"
        /\ Running \subseteq {mgr.uuid} \union mgr.todo /\ mgr.uuid \notin mgr.todo
        /\ "manager" \notin events => mgr.uuid = uuid
    BY MgrTyped DEF IInv, CleanupDestroy, ManagerKnows
  <1>2. /\ UNCHANGED <<failures, link, ac, nodeAddrs, machineVars, kernelVars, uuid>>
        /\ WriteSpec(u, Absent) /\ CleanUp(mgr.todo \ {u}) /\ ~spec[u].held
    BY DEF CleanupDestroy, machineVars
  <1>3. /\ spec'[u] = Absent
        /\ \A w \in Uuids : w # u => spec'[w] = spec[w]
        /\ "manager" \in events' <=> "manager" \in events
    BY <1>1, <1>2, AbsentFacts, WriteSpecFacts
  <1>4. /\ spec'[mgr.uuid].phase = "running"
        /\ Running' \subseteq {mgr.uuid} \union (mgr.todo \ {u})
    BY <1>1, <1>3, AbsentFacts DEF Running
  <1>5. mgr' \in MgrValue /\ ManagerKnows'
    BY <1>1, <1>2, <1>3, <1>4, CleanUpFacts, CleanUpKnows
  <1>6. SideroLinkTypeOK' /\ RoundKnows' /\ HeldOrDoomed'
    BY <1>2, <1>5, AbsentFacts, ManagerWrites
  <1> QED BY <1>5, <1>6 DEF IInv

-----------------------------------------------------------------------------
(* The steps of the other controllers *)

LEMMA SyncLinkKeeps ==
    ASSUME IInv, SyncLink \/ SyncLinkFails
    PROVE  IInv'
  <1>1. UNCHANGED <<mgr, uuid, overrides, used, spec, ac, nodeAddrs, kernel, statuses, cut>>
    BY DEF SyncLink, SyncLinkFails, machineVars, kernelVars
  <1>2. /\ link' \in [changed : BOOLEAN, up : BOOLEAN] /\ (link.up => link'.up)
        /\ failures' \in 0..MaxFailures /\ events' \subseteq Controllers
        /\ "manager" \in events' <=> "manager" \in events
    <2>1. failures \in 0..MaxFailures /\ events \subseteq Controllers
      BY DEF IInv, SideroLinkTypeOK
    <2>2. link \in [changed : BOOLEAN, up : BOOLEAN]
      BY DEF IInv, SideroLinkTypeOK
    <2>3. CASE SyncLink
      BY <2>1, <2>2, <2>3 DEF SyncLink, Controllers
    <2>4. CASE SyncLinkFails
      BY <2>1, <2>2, <2>4, BoundFacts DEF SyncLinkFails
    <2> QED BY <2>3, <2>4
  <1>3. SideroLinkTypeOK'
    BY <1>1, <1>2 DEF IInv, SideroLinkTypeOK
  <1>4. ManagerKnows'
    BY <1>1, <1>2, MgrTyped, ManagerAside DEF IInv
  <1>5. RoundKnows' /\ HeldOrDoomed'
    BY <1>1, <1>2, RoundAside DEF IInv, SideroLinkTypeOK
  <1> QED BY <1>3, <1>4, <1>5 DEF IInv

LEMMA NodeAddressesKeeps ==
    ASSUME IInv, NodeAddresses
    PROVE  IInv'
  <1>1. UNCHANGED <<failures, link, mgr, uuid, overrides, used, spec, ac, kernel, statuses, cut>>
    BY DEF NodeAddresses, machineVars, kernelVars
  <1>2. /\ nodeAddrs' \subseteq Uuids /\ events' \subseteq Controllers
        /\ "manager" \in events' <=> "manager" \in events
    BY DEF NodeAddresses, IInv, SideroLinkTypeOK, Specs
  <1>3. SideroLinkTypeOK'
    BY <1>1, <1>2 DEF IInv, SideroLinkTypeOK
  <1>4. ManagerKnows'
    BY <1>1, <1>2, MgrTyped, ManagerAside DEF IInv
  <1>5. RoundKnows' /\ HeldOrDoomed'
    BY <1>1, RoundAside DEF IInv, SideroLinkTypeOK
  <1> QED BY <1>3, <1>4, <1>5 DEF IInv

AcPCs == {"idle", "finalize", "sync"}
AcValue == [pc : AcPCs, list : [Uuids -> Phases], todo : SUBSET Uuids, link : BOOLEAN]

LEMMA AcTyped ==
    ASSUME SideroLinkTypeOK
    PROVE  /\ ac \in AcValue /\ ac.todo \in SUBSET Uuids /\ ac.link \in BOOLEAN
           /\ ac.list \in [Uuids -> Phases] /\ kernel \subseteq Uuids /\ statuses \subseteq Uuids
  BY DEF SideroLinkTypeOK, AcValue, AcPCs

LEMMA RestingFacts ==
    /\ Resting \in AcValue /\ Resting.pc = "idle" /\ Resting.todo = {} /\ ~Resting.link
    /\ \A u \in Uuids : Resting.list[u] = "absent"
  <1>1. [u \in Uuids |-> "absent"] \in [Uuids -> Phases]
    BY DEF Phases
  <1> QED BY <1>1 DEF Resting, AcValue, AcPCs

\* A step of the AddressSpecController keeps the types and the manager's part, whatever it
\* does to holders, addresses and statuses.
LEMMA AddressTypes ==
    ASSUME IInv, UNCHANGED <<mgr, link, nodeAddrs, machineVars>>,
           spec' \in [Uuids -> SpecValue],
           \A u \in Uuids : spec'[u].phase = spec[u].phase,
           \A u \in Uuids : spec'[u].phase = "absent" => spec'[u] = Absent,
           ac' \in AcValue, kernel' \subseteq Uuids, statuses' \subseteq Uuids,
           cut' \in BOOLEAN, failures' \in 0..MaxFailures, events' \subseteq Controllers,
           "manager" \in events' <=> "manager" \in events
    PROVE  SideroLinkTypeOK' /\ ManagerKnows'
  <1>1. UNCHANGED <<mgr, link, nodeAddrs, uuid, overrides, used>>
    BY DEF machineVars
  <1>2. SideroLinkTypeOK'
    BY <1>1 DEF IInv, SideroLinkTypeOK, AcValue, AcPCs, SpecValue
  <1>3. ManagerKnows'
    BY <1>1, MgrTyped, ManagerAside DEF IInv
  <1> QED BY <1>2, <1>3

\* The same if it writes no spec.
LEMMA AddressTypesOnly ==
    ASSUME IInv, UNCHANGED <<mgr, spec, link, nodeAddrs, machineVars>>,
           ac' \in AcValue, kernel' \subseteq Uuids, statuses' \subseteq Uuids,
           cut' \in BOOLEAN, failures' \in 0..MaxFailures, events' \subseteq Controllers,
           "manager" \in events' <=> "manager" \in events
    PROVE  SideroLinkTypeOK' /\ ManagerKnows'
  <1>1. spec' = spec /\ spec \in [Uuids -> SpecValue]
    BY SpecTyped DEF IInv
  <1>2. \A u \in Uuids : spec'[u].phase = "absent" => spec'[u] = Absent
    BY <1>1 DEF IInv, SideroLinkTypeOK
  <1> QED BY <1>1, <1>2, AddressTypes

\* A round starts: it has nothing behind it.
LEMMA AddressWakeKeeps ==
    ASSUME IInv, AddressWake
    PROVE  IInv'
  <1> DEFINE list == [u \in Uuids |-> spec[u].phase]
  <1>1. ac' = [ac EXCEPT !.pc = "finalize", !.todo = Specs, !.list = list] /\ ac.pc = "idle"
    BY DEF AddressWake
  <1>2. list \in [Uuids -> Phases] /\ \A u \in Uuids : list[u] = spec[u].phase
    BY SpecTyped DEF IInv, SpecValue
  <1>3. ac \in AcValue /\ Specs \in SUBSET Uuids /\ kernel \subseteq Uuids
    BY AcTyped DEF IInv, Specs
  <1> HIDE DEF list
  <1>4. /\ ac' \in AcValue /\ ac'.pc = "finalize" /\ ac'.todo = Specs /\ ac'.list = list
        /\ ac'.link = ac.link
    BY <1>1, <1>2, <1>3 DEF AcValue, AcPCs
  <1>5. UNCHANGED <<failures, mgr, spec, link, nodeAddrs, machineVars, kernel, statuses, cut>>
    BY DEF AddressWake, kernelVars
  <1>6. SideroLinkTypeOK' /\ ManagerKnows'
    BY <1>4, <1>5, AddressTypesOnly DEF AddressWake, IInv, SideroLinkTypeOK
  <1>7. RoundKnows'
    BY <1>2, <1>3, <1>4, <1>5 DEF IInv, RoundKnows, Listed, Specs
  <1>8. HeldOrDoomed'
    <2>1. Doomed = {}
      BY <1>1, RestingFacts DEF IInv, RoundKnows, Doomed
    <2> QED BY <1>5, <2>1 DEF IInv, HeldOrDoomed
  <1> QED BY <1>6, <1>7, <1>8 DEF IInv

\* The finalizer pass: a spec that was listed as running is held from here on, and one that
\* was listed as torn down is doomed already.
LEMMA SyncFinalizerKeeps ==
    ASSUME IInv, NEW u \in Uuids, SyncFinalizer(u)
    PROVE  IInv'
  <1> DEFINE held == ac.list[u] = "running"
             value == [spec[u] EXCEPT !.held = held]
  <1>1. SideroLinkTypeOK /\ spec[u] \in SpecValue /\ held \in BOOLEAN
    BY SpecTyped DEF IInv
  <1>2. value \in SpecValue /\ value.phase = spec[u].phase /\ (held => value.held)
    <2>1. CASE held
      <3>1. value = [spec[u] EXCEPT !.held = TRUE]
        BY <2>1
      <3>2. /\ [spec[u] EXCEPT !.held = TRUE] \in SpecValue
            /\ [spec[u] EXCEPT !.held = TRUE].phase = spec[u].phase
            /\ [spec[u] EXCEPT !.held = TRUE].held
        BY <1>1, ExceptFacts
      <3> HIDE DEF value
      <3> QED BY <3>1, <3>2
    <2>2. CASE ~held
      <3>1. value = [spec[u] EXCEPT !.held = FALSE]
        BY <2>2
      <3> QED BY <1>1, <2>2, <3>1, ExceptFacts
    <2> QED BY <2>1, <2>2
  <1>3. /\ ac.pc = "finalize" /\ u \in ac.todo
        /\ WriteSpec(u, value)
        /\ ac' = [ac EXCEPT !.todo = ac.todo \ {u}]
        /\ ac.list[u] = "tearingDown" \/ spec[u].phase = "running"
        /\ UNCHANGED <<failures, mgr, link, nodeAddrs, machineVars, kernel, statuses, cut>>
    BY DEF SyncFinalizer, kernelVars
  <1>4. ac.list[u] \in {"running", "tearingDown"}
    BY <1>1, <1>3, AcTyped DEF IInv, RoundKnows, Listed, Phases
  <1>5. /\ ac' \in AcValue /\ ac'.pc = "finalize" /\ ac'.todo = ac.todo \ {u}
        /\ ac'.list = ac.list /\ ac'.link = ac.link
    BY <1>1, <1>3, AcTyped DEF AcValue
  <1>6. value.phase = "absent" => value = Absent
    <2>1. CASE ac.list[u] = "running"
      BY <1>2, <1>3, <2>1
    <2>2. CASE ac.list[u] = "tearingDown"
      <3>1. spec[u].phase = "absent" => spec[u] = Absent
        BY <1>1 DEF SideroLinkTypeOK
      <3>2. held = FALSE
        BY <2>2
      <3> QED BY <1>2, <3>1, <3>2, AbsentIsUnheld
    <2> QED BY <1>4, <2>1, <2>2
  <1> HIDE DEF value
  <1>7. /\ spec' \in [Uuids -> SpecValue]
        /\ \A w \in Uuids : spec'[w].phase = "absent" => spec'[w] = Absent
        /\ spec'[u] = value
        /\ \A w \in Uuids : w # u => spec'[w] = spec[w]
        /\ events' \subseteq Controllers
        /\ "manager" \in events' <=> "manager" \in events
    BY <1>1, <1>2, <1>3, <1>6, WriteSpecFacts
  <1>8. SideroLinkTypeOK' /\ ManagerKnows'
    <2>1. \A w \in Uuids : spec'[w].phase = spec[w].phase
      BY <1>2, <1>7
    <2>2. /\ kernel' \subseteq Uuids /\ statuses' \subseteq Uuids /\ cut' \in BOOLEAN
          /\ failures' \in 0..MaxFailures
      BY <1>1, <1>3 DEF SideroLinkTypeOK
    <2> QED BY <1>3, <1>5, <1>7, <2>1, <2>2, AddressTypes
  <1>9. RoundKnows'
    <2>1. Listed' = Listed
      BY <1>5 DEF Listed
    <2>2. \A w \in Uuids : ac'.list[w] = "running" /\ w \notin ac'.todo => spec'[w].held
      BY <1>2, <1>3, <1>5, <1>7 DEF IInv, RoundKnows
    <2> QED BY <1>3, <1>5, <2>1, <2>2 DEF IInv, RoundKnows
  <1>10. HeldOrDoomed'
    <2>1. Doomed' = Doomed /\ Doomed = {w \in kernel : ac.list[w] = "tearingDown"}
      BY <1>3, <1>5 DEF Doomed
    <2>2. kernel \subseteq Uuids
      BY <1>1, AcTyped
    <2> QED BY <1>2, <1>3, <1>4, <1>7, <2>1, <2>2 DEF IInv, HeldOrDoomed
  <1> QED BY <1>8, <1>9, <1>10 DEF IInv

\* A round is cut short: what it was about to delete is on the record.
LEMMA CutKeeps ==
    ASSUME IInv, ac' = Resting, cut' = (cut \/ Doomed # {}),
           UNCHANGED <<mgr, spec, link, kernel, statuses, nodeAddrs, machineVars>>,
           failures' \in 0..MaxFailures, events' \subseteq Controllers,
           "manager" \in events' <=> "manager" \in events
    PROVE  IInv'
  <1>1. SideroLinkTypeOK' /\ ManagerKnows'
    BY RestingFacts, AddressTypesOnly DEF IInv, SideroLinkTypeOK
  <1>2. RoundKnows'
    BY RestingFacts DEF IInv, RoundKnows, SideroLinkTypeOK
  <1>3. HeldOrDoomed'
    BY DEF IInv, HeldOrDoomed
  <1> QED BY <1>1, <1>2, <1>3 DEF IInv

LEMMA SyncFinalizerFailsKeeps ==
    ASSUME IInv, NEW u \in Uuids, SyncFinalizerFails(u)
    PROVE  IInv'
  BY CutKeeps DEF SyncFinalizerFails, IInv, SideroLinkTypeOK, Controllers

LEMMA SyncAddressFailsKeeps ==
    ASSUME IInv, NEW u \in Uuids, SyncAddressFails(u)
    PROVE  IInv'
  BY CutKeeps, BoundFacts DEF SyncAddressFails, Fail, IInv, SideroLinkTypeOK, Controllers

LEMMA ListLinksFailsKeeps ==
    ASSUME IInv, ListLinksFails
    PROVE  IInv'
  BY CutKeeps, BoundFacts DEF ListLinksFails, Fail, IInv, SideroLinkTypeOK, Controllers

\* The links are listed after the finalizer pass.
LEMMA ListLinksKeeps ==
    ASSUME IInv, ListLinks
    PROVE  IInv'
  <1>1. /\ ac.pc = "finalize" /\ ac.todo = {}
        /\ ac' = [ac EXCEPT !.pc = "sync", !.link = link.up, !.todo = Listed]
        /\ UNCHANGED <<failures, mgr, spec, link, nodeAddrs, events, machineVars,
                       kernel, statuses, cut>>
    BY DEF ListLinks, kernelVars
  <1>2. ac \in AcValue /\ Listed \in SUBSET Uuids /\ link.up \in BOOLEAN
    BY AcTyped DEF IInv, SideroLinkTypeOK, Listed
  <1>3. /\ ac' \in AcValue /\ ac'.pc = "sync" /\ ac'.link = link.up /\ ac'.todo = Listed
        /\ ac'.list = ac.list
    BY <1>1, <1>2 DEF AcValue, AcPCs
  <1>4. SideroLinkTypeOK' /\ ManagerKnows'
    BY <1>1, <1>3, AddressTypesOnly DEF IInv, SideroLinkTypeOK
  <1>5. Listed' = Listed
    BY <1>3 DEF Listed
  <1>6. RoundKnows'
    BY <1>1, <1>3, <1>5 DEF IInv, RoundKnows
  <1>7. HeldOrDoomed'
    <2>1. kernel \subseteq Uuids
      BY AcTyped DEF IInv
    <2>2. Doomed \subseteq Doomed'
      BY <1>1, <1>3, <2>1 DEF Doomed, Listed
    <2> QED BY <1>1, <2>2 DEF IInv, HeldOrDoomed
  <1> QED BY <1>4, <1>6, <1>7 DEF IInv

\* An address that was listed as running is assigned, and its spec has been held since the
\* finalizer pass; one that was listed as torn down is deleted, unless the link was missing,
\* and without a link there was no address.
LEMMA SyncAddressKeeps ==
    ASSUME IInv, NEW u \in Uuids, SyncAddress(u)
    PROVE  IInv'
  <1>1. /\ SideroLinkTypeOK /\ spec[u] \in SpecValue
        /\ ac \in AcValue /\ kernel \subseteq Uuids /\ statuses \subseteq Uuids
        /\ spec[u].phase = "absent" => spec[u] = Absent
    BY SpecTyped, AcTyped DEF IInv, SideroLinkTypeOK
  <1>2. /\ ac.pc = "sync" /\ u \in ac.todo
        /\ ac' = [ac EXCEPT !.todo = ac.todo \ {u}]
        /\ UNCHANGED <<failures, cut, mgr, link, nodeAddrs, machineVars>>
    BY DEF SyncAddress
  <1>3. /\ ac' \in AcValue /\ ac'.pc = "sync" /\ ac'.todo = ac.todo \ {u}
        /\ ac'.list = ac.list /\ ac'.link = ac.link
    BY <1>1, <1>2 DEF AcValue
  <1>4. Listed' = Listed
    BY <1>3 DEF Listed
  <1>5. Doomed = {w \in kernel \intersect ac.todo : ac.list[w] = "tearingDown"}
    BY <1>2 DEF Doomed
  <1>6. Doomed' = {w \in kernel' \intersect (ac.todo \ {u}) : ac.list[w] = "tearingDown"}
    BY <1>3 DEF Doomed
  <1>7. CASE ac.list[u] = "running"
    <2>1. /\ kernel' = IF ac.link THEN kernel \union {u} ELSE kernel
          /\ statuses' = statuses \union {u}
          /\ UNCHANGED <<spec, events>>
      BY <1>7 DEF SyncAddress
    <2>2. SideroLinkTypeOK' /\ ManagerKnows'
      <3>1. kernel' \subseteq Uuids /\ statuses' \subseteq Uuids
        BY <1>1, <2>1
      <3>2. cut' \in BOOLEAN /\ failures' \in 0..MaxFailures /\ events' \subseteq Controllers
        BY <1>1, <1>2, <2>1 DEF SideroLinkTypeOK
      <3> QED BY <1>2, <1>3, <2>1, <3>1, <3>2, AddressTypesOnly
    <2>3. kernel' # {} => link.up /\ ac.link
      BY <1>2, <2>1 DEF IInv, RoundKnows
    <2>4. spec[u].held
      BY <1>2, <1>7 DEF IInv, RoundKnows
    <2>5. RoundKnows'
      BY <1>2, <1>3, <1>4, <2>1, <2>3 DEF IInv, RoundKnows
    <2>6. HeldOrDoomed'
      <3>1. \A w \in kernel : w \in Doomed /\ w # u => w \in Doomed'
        BY <1>5, <1>6, <2>1
      <3> QED BY <1>2, <2>1, <2>4, <3>1 DEF IInv, HeldOrDoomed
    <2> QED BY <2>2, <2>5, <2>6 DEF IInv
  <1>8. CASE ac.list[u] = "tearingDown"
    <2> DEFINE value == [spec[u] EXCEPT !.held = FALSE]
    <2>1. /\ kernel' = IF ac.link THEN kernel \ {u} ELSE kernel
          /\ WriteSpec(u, value)
          /\ UNCHANGED statuses
      BY <1>8 DEF SyncAddress
    <2>2. value \in SpecValue /\ value.phase = spec[u].phase /\ ~value.held
      BY <1>1, ExceptFacts
    <2>3. value.phase = "absent" => value = Absent
      BY <1>1, <2>2, AbsentIsUnheld
    <2> HIDE DEF value
    <2>4. /\ spec' \in [Uuids -> SpecValue]
          /\ \A w \in Uuids : spec'[w].phase = "absent" => spec'[w] = Absent
          /\ spec'[u] = value
          /\ \A w \in Uuids : w # u => spec'[w] = spec[w]
          /\ events' \subseteq Controllers
          /\ "manager" \in events' <=> "manager" \in events
      BY <1>1, <2>1, <2>2, <2>3, WriteSpecFacts
    <2>5. SideroLinkTypeOK' /\ ManagerKnows'
      <3>1. \A w \in Uuids : spec'[w].phase = spec[w].phase
        BY <2>2, <2>4
      <3>2. /\ kernel' \subseteq Uuids /\ statuses' \subseteq Uuids /\ cut' \in BOOLEAN
            /\ failures' \in 0..MaxFailures
        BY <1>1, <1>2, <2>1 DEF SideroLinkTypeOK
      <3> QED BY <1>2, <1>3, <2>4, <3>1, <3>2, AddressTypes
    <2>6. kernel' = kernel \ {u} /\ (kernel' # {} => link.up /\ ac.link)
      BY <1>2, <2>1 DEF IInv, RoundKnows
    <2>7. RoundKnows'
      <3>1. \A w \in Uuids : ac'.list[w] = "running" => spec'[w].held
        BY <1>2, <1>3, <1>8, <2>4 DEF IInv, RoundKnows
      <3> QED BY <1>2, <1>3, <1>4, <2>6, <3>1 DEF IInv, RoundKnows
    <2>8. HeldOrDoomed'
      BY <1>1, <1>2, <1>5, <1>6, <2>4, <2>6 DEF IInv, HeldOrDoomed
    <2> QED BY <2>5, <2>7, <2>8 DEF IInv
  <1> QED BY <1>7, <1>8 DEF SyncAddress

\* The statuses go, and the round ends: nothing is left to delete.
LEMMA DestroyStatusesKeeps ==
    ASSUME IInv, DestroyStatuses
    PROVE  IInv'
  <1>1. /\ ac.pc = "sync" /\ ac.todo = {} /\ ac' = Resting
        /\ UNCHANGED <<failures, cut, mgr, spec, link, kernel, nodeAddrs, events, machineVars>>
    BY DEF DestroyStatuses
  <1>2. SideroLinkTypeOK' /\ ManagerKnows'
    <2>1. statuses' \subseteq Uuids
      BY AcTyped DEF DestroyStatuses, IInv
    <2> QED BY <1>1, <2>1, RestingFacts, AddressTypesOnly DEF IInv, SideroLinkTypeOK
  <1>3. RoundKnows'
    BY <1>1, RestingFacts DEF IInv, RoundKnows
  <1>4. HeldOrDoomed'
    BY <1>1 DEF IInv, HeldOrDoomed, Doomed
  <1> QED BY <1>2, <1>3, <1>4 DEF IInv

\* Every step preserves the invariant.
LEMMA NextIInv == IInv /\ [Next]_vars => IInv'
  <1> SUFFICES ASSUME IInv, [Next]_vars PROVE IInv'
    OBVIOUS
  <1>1. ASSUME NEW u \in Uuids, OverrideNodeUUID(u) PROVE IInv'
    BY <1>1, OverrideKeeps
  <1>2. CASE ManagerStep
    BY <1>2, ManagerWakeKeeps, ProvisionKeeps, WriteLinkSpecKeeps, WriteAddressSpecKeeps,
       CleanupTeardownKeeps, CleanupDestroyKeeps
    DEF ManagerStep
  <1>3. CASE ManagerReconnect
    BY <1>3, ManagerReconnectKeeps
  <1>4. CASE SyncLink \/ SyncLinkFails
    BY <1>4, SyncLinkKeeps
  <1>5. CASE AddressStep
    BY <1>5, AddressWakeKeeps, ListLinksKeeps, ListLinksFailsKeeps, DestroyStatusesKeeps,
       SyncFinalizerKeeps, SyncFinalizerFailsKeeps, SyncAddressKeeps, SyncAddressFailsKeeps
    DEF AddressStep
  <1>6. CASE NodeAddresses
    BY <1>6, NodeAddressesKeeps
  <1>7. CASE UNCHANGED vars
    <2>1. UNCHANGED <<uuid, overrides, used, failures, cut, mgr, spec, link, ac, kernel,
                      statuses, nodeAddrs, events>>
      BY <1>7 DEF vars
    <2>2. SideroLinkTypeOK'
      BY <2>1 DEF IInv, SideroLinkTypeOK
    <2>3. ManagerKnows'
      BY <2>1, MgrTyped, ManagerAside DEF IInv
    <2>4. RoundKnows' /\ HeldOrDoomed'
      BY <2>1, RoundAside DEF IInv, SideroLinkTypeOK
    <2> QED BY <2>2, <2>3, <2>4 DEF IInv
  <1> QED BY <1>1, <1>2, <1>3, <1>4, <1>5, <1>6, <1>7 DEF Next

-----------------------------------------------------------------------------
(* The theorems *)

\* The inductive invariant holds in every behaviour of the four controllers.
THEOREM IInvCorrect == SideroLinkSpec => []IInv
  BY InitIInv, NextIInv, PTL DEF SideroLinkSpec

\* Type correctness: an endpoint is taken only while some are left, and a spec that is gone
\* is held by nobody.
THEOREM TypeCorrect == SideroLinkSpec => []SideroLinkTypeOK
  <1>1. IInv => SideroLinkTypeOK
    BY DEF IInv
  <1> QED BY <1>1, IInvCorrect, PTL

\* ManagerController.cleanup: a manager that is done has given the machine the address of its
\* current UUID and torn down all the others, however overrides, lost calls and the ticker of
\* the WireGuard peer interleave with its round.
THEOREM IdleCorrect == SideroLinkSpec => []IdleIsCurrent
  <1>1. IInv => IdleIsCurrent
    BY DEF IInv, ManagerKnows, IdleIsCurrent
  <1> QED BY <1>1, IInvCorrect, PTL

\* AddressSpecController.reconcile: no address stays in the kernel that no AddressSpec knows
\* of, although the finalizer is released before the address is deleted.
THEOREM AddressesTracked == SideroLinkSpec => []AddressTracked
  <1>1. ASSUME IInv PROVE AddressTracked
    <2>1. \A u \in Uuids : spec[u].held => u \in Specs
      BY <1>1, AbsentFacts DEF IInv, SideroLinkTypeOK, Specs
    <2>2. kernel \subseteq Uuids
      BY <1>1, AcTyped DEF IInv
    <2> QED BY <1>1, <2>1, <2>2 DEF IInv, HeldOrDoomed, AddressTracked
  <1> QED BY <1>1, IInvCorrect, PTL

=============================================================================
