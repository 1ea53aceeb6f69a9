# talemu in TLA+

talemu emulates Talos Linux machines for Omni: one process runs many fake machines, each with
its own COSI state, its own controllers and its own machine API, and a global COSI state they
share. This directory holds TLA+ models of the parts of talemu whose correctness depends on the
order of things, the TLC configurations that check them on small instances, and TLAPS proofs
of what they promise for every value of the constants.

    tlc -config MCClusterAccounting.cfg MCClusterAccounting     # any MC module with one of its .cfg
    tlapm ClusterAccountingProofs.tla

1. [The system](#the-system)
2. [The modules](#the-modules)
3. [The runs](#the-runs): bounds, fairness, what they show
4. [Where code and words differ](#where-code-and-words-differ)
5. [The proofs](#the-proofs)
6. [What is only checked, and what is not modelled](#what-is-only-checked-and-what-is-not-modelled)
7. [The plan](#the-plan)

## The system

Paths are relative to `src/internal/pkg`.

| part | state it keeps | operations | hard because | must hold |
|---|---|---|---|---|
| **cluster membership**, `machine/services/machined.go` | the machine's MachineConfig; the global ClusterStatus (uint32 counters, bootstrapped) and MachineStatus labels | ApplyConfiguration, Bootstrap, Reset | no lock; a call is a dozen store operations; calls are cut short when APID restarts | counters are the members; a cluster with members is never torn down, one without goes |
| **cluster cleanup**, `emu/controllers/cluster_cleanup.go` | none | destroys torn-down ClusterStatuses and their etcd data | acts on decisions taken elsewhere | destroys empty clusters only |
| **etcd**, `machine/controllers/etcd.go` | local etcd member, its global publication, Service etcd, the deny list of the cluster | reconcile on config and cluster events; EtcdRemoveMemberByID, EtcdLeaveCluster | two watches in either order; a deferred write whose error may be lost; reads that go stale | one member per machine; a removed one loses its health |
| **install, upgrade, reboot**, `machine/services/lifecycle.go`, `machined.go`, `machine/controllers/{machine_status,version,reboot_status}.go` | Image, SystemDisk, Reboot, RebootStatus, boot ID, Version, stage | Install, Upgrade (two services), Reboot, config-apply installation, reports | two mutexes, one writer under neither; destroy-then-create of the Reboot | a changed image is booted; reports catch up |
| **APID**, `machine/controllers/apid.go`, `machine/services/apid.go` | the listener and what the controller remembers of it; Service apid | start, restart on a new address or mode, stop for a reboot | stop-before-start, servers that die alone | reported healthy means serving |
| **event sink**, `machine/events/events.go` | EventSinkState: last reported versions | watches with a backlog, sends, reconnects | the send happens inside a retried update | nothing recorded unsent, nothing resent, all reported |
| **infra provider**, `provider/` | MachineTasks, running machines, their files | Provision and Deprovision (retried by a library), MachineController | a controller working on a stale list, and on every task in turn; timeouts; swallowed errors; restart | slots unique, given back clean; removed machines go, wanted ones run |
| **SideroLink**, `machine/controllers/{siderolink,link_spec,link_status,address_spec,node_address}.go` | provision data, LinkSpec, AddressSpecs with finalizers, kernel link and addresses, AddressStatus, NodeAddress | provision, UUID override, reconnect, sync with the kernel | four controllers and one finalizer; every call may fail | the machine has the address of its UUID and no other |
| **discovery**, `machine/controllers/{discovery_*,local_affiliate,affiliate_merge,member,node_identity}.go` | discovery config, identity, affiliates in two namespaces, members, a client of the discovery service | connect, reconnect, exchange, merge, list | six controllers in a chain, two owners of one resource type, a client that fails and answers late | at rest, members are the machines of the cluster; it comes to rest |
| **certificates**, `machine/controllers/{machine_type,root,grpc_tls,*_sans,kubernetes_*certs,render_*}.go` | machine type, roots, SANs, API and Kubernetes certificates | issue from inputs, ask trustd, take down | chains of controllers; a request over the network while the inputs change; a loop in a loop that changes its own inputs | certificates match the current config |
| **Kubernetes nodes**, `machine/controllers/{kubernetes_node,static_pods,kubernetes,kubeconfig,nodename}.go` | the API server of the machine, its Node and Pod objects in the emulated cluster, finalizers on the config | start and stop, register, refresh, remove | two controllers work through an API that the machine itself serves and that may go first; a config that is reset under a round | registered as what it is; a Reset ends and leaves nothing |
| **emulated control plane**, `kubefactory/` | one etcd, API servers per cluster | start once per cluster | shared by machines | – |
| **API proxy**, `machine/services/apid/pkg` | backends | route by metadata | – | a call reaches the nodes it names |
| **log sink, hostnames, hardware facts, middleware, commands** | – | translations of one input | – | – |

The parts meet in these places: *calls* write resources of the machine's own state and of the
global state; *controllers* are woken by events on the resources they declare as inputs and are
restarted with a new event when they return an error; a *finalizer* of a controller keeps a
torn-down resource from being destroyed until the controller has let go of it. All of the
concurrency here is interleaving of such store operations, so a store operation with the
code up to the next one is the usual action of these models. Every COSI update fails on a resource
that is torn down or gone, Teardown is idempotent, and Destroy fails while there are finalizers;
the guards say so.

## The modules

    ClusterMembership            what the membership calls promise (abstract)
      ^ implements: ClusterAccountingRefinement (INSTANCE ... WITH)
    ClusterAccounting            the membership calls, step by step
    ClusterAccountingProofs      theorems about it, and the refinement
    EtcdMembership               etcd, composed with ClusterMembership (EXTENDS)
    NodeLifecycle                install, upgrade, reboot, and the reports
    ApiCertificates              from the config to the certificates of APID
    ApidListener                 APID, composed with ApiCertificates (EXTENDS)
    KubernetesNode               the machine in its Kubernetes cluster
    EventSink                    event sink
    SlotLease                    what the infra provider promises of its slots (abstract)
      ^ implements: ProvisionRefinement (INSTANCE ... WITH)
    Provision                    infra provider
    SideroLink                   SideroLink addresses
    Discovery                    cluster discovery
    ReportingProofs              theorems about EventSink and Discovery
    *Proofs                      the others: theorems about the module of that name
    MC*                          model values and symmetry of each, one or more .cfg

**ClusterAccounting.** `config`, `cluster` and `label` are the MachineConfig of each machine, the
ClusterStatus of each cluster and the labels of each MachineStatus. `call` holds, per busy handler
goroutine, the step it is at and its local variables (machine, cluster, kind of config, and the one
flag that the code carries along). ApplyConfiguration is `ApplyStart`, `ApplySave`/`ApplyUpdate`,
`ApplyFindCluster`, `ApplyCreateCluster`, `ApplyCount`, `ApplyLabel`; Reset is `ResetStart`,
`ResetTeardown`, `ResetDestroy` (which waits for finalizers), `ResetLook`, `ResetDiscount`,
`ResetDispose`, `ResetUnlabel`; Bootstrap is `BootstrapStart`, `BootstrapCheck`, `BootstrapSet`.
`ClusterGone` is every return of an error because the ClusterStatus is gone or torn down, `Abort` a
cancelled context, `HoldConfig`/`ReleaseConfig` the finalizers of the node and static-pod controllers,
`Cleanup` the cleanup controller. Counters wrap at `CounterMod` (2^32 in the code). `Discipline` says
which calls clients serialise.

**ClusterMembership** gives every machine one *place* (stage, role, cluster). Joining, counting and
labelling are atomic changes of place; `Dispose(c)` requires that nobody holds `c`. That guard is the
promise: the code's Reset has no such test. `Abandon` is a Reset that was cut short.

**EtcdMembership** extends it, so that clusters appear, are bootstrapped and go under the
EtcdController's feet. `reader` is the controller: its queue of events, the step of its reconcile and
what it has read; `ReconcileStart`, `ReconcileCluster`, `ReconcileMember`, `ReconcileSync` and
`ReconcilePublish` are the reads and writes of `reconcile` in order, and the `...Fails` actions each
place that can fail, among them the deferred write of the service, whose error is lost.

**NodeLifecycle.** `image`, `disk`, `reboot` are the resources; `call` as above, where the two mutexes
are read off the calls in flight (TryLock at the start, deferred Unlock).
`StatusReport`/`StatusSetImage`/`StatusSetDisk` are the MachineStatusController, with the config-apply
installation as steps of their own because it takes no lock; `VersionReport` is the VersionController.
A report reads and writes in one action: an event that arrives in between runs the controller again,
and the installation, during which it can be stale for long, is not one action.

**ApiCertificates.** `config`, `mtype`, `root`, `sans` and `api` are the resources from the
MachineConfig to secrets.API. The controllers that only translate (`WriteType`, `WriteRoot`,
`WriteSans`) are enabled while their output is not what the inputs say. `tls` is GRPCTLSController: the
role whose inner loop it is in, the inputs that wake it in that loop (they stay when it leaves it), and
the CA it has asked to sign; `Ask`, `Signed`, `Cancelled` and `Refused` are the request of a worker and
what can become of it. Certificates are told apart by the CA of their cluster.

**ApidListener** extends it: what is listening, what the controller remembers as listening, the
RebootStatus and the Service it writes; the address and the certificates are those of ApiCertificates,
and `pending` is the event the two share.

**KubernetesNode.** From the config over the MachineType, the secrets, the rendered certificates and
the kubeconfig to the API server (`Serve`), again as translations, and the two controllers that work
through the Kubernetes API on what they read at first: `nodeRound` and `podRound` hold the step they
are at, the Nodename and the cluster they talk to, which is the machine's own API server or the one of
the ClusterStatus' kubeconfig. `Hold` and `Release` are the finalizers they keep on the config,
`Teardown` and `Destroy` the two halves of a Reset. Clusters are numbered in the order in which the
machine joins them. `excused`, `unseen` and `unswept` are history variables: the objects the code may
leave behind (see below), a round that ended because the ClusterStatus was not there yet, and pods that
were created without the removal that follows.

**EventSink.** Per resource type the current version, the watch with its backlog, the version recorded
and those sent; a send is inside the update of the record. **Provision.** Requests are driven by the
library's workers (`ProvisionStart`, `PickSlot`, `CreateTask`; `Deprovision`, `Released`,
`DestroyTask`) against a MachineController (`ListTasks`, then `Hold` and `Start`, or `ResetMachine` and
`Release`, over the list it read); files and running machines survive as they do in the code, and
`ProviderRestart` keeps the former. The error paths differ and so do the actions:

* `ProvisionFails`: no free slot, no schematic, no store. The step returns a plain error and does not ask
  to be run again; `failed` has the requests this happened to. The one error with which it does ask
  (`provision.go:123`) is a task that is being torn down when it is created, and cannot occur: the step found
  no task, and nobody else creates one.
* `WaitFails`: five seconds are over while the task is held, as often as that happens, or the wait
  fails. Deprovision returns the error and is called again. An error of its Teardown changes nothing.
* `DestroySwallowed`: the test of the error of `Destroy` (`provision.go:162`) returns "not found", which cannot
  occur, and drops the others. Deprovision reports success: the request is over, its torn-down task stays and
  keeps the slot.
* `ResetFails`, `FinalizerFails`, `StartRefused`, and `Hold` of a task that is going already: an error ends the
  loop over all tasks, and the restarted controller lists them again. `StartRefused` happens every time the
  loop comes to a task whose ConnectionArgs do not parse (`Malformed`).

**SlotLease** is what Provision comes to: a request gets the first free slot (`Grant`), its machine runs
on that slot and leaves files there only (`Run`, `Halt`, `Wipe`), and the slot is given back once, with
neither a machine nor files on it (`GiveBack`), or lost in the same state (`Lose`): the request is over, nobody
gets the slot again, and no other request is disturbed. Picking a slot and creating the task, marking the task,
waiting and destroying it, listing tasks and acting on the list are steps of Provision that map to one of
these or to none; `ProvisionRefinement` reads the lease off the slot of the MachineTask. The guards of the
abstract steps are the promise: nothing in the code's `Destroy` asks whether there are files, and nothing
in StartTask whether the task is still there.

**SideroLink.** Omni assigns an address per node UUID, so an address is named by its UUID. `mgr` is the
ManagerController: its provision data (UUID, endpoints left), its step and its cleanup list. `ac` is
the AddressSpecController: its step and the list of specs and the links it read. `spec` are the
AddressSpecs with phase and finalizer, `kernel` and `statuses` the effects. `cut` is a history
variable: a round of the AddressSpecController ended between releasing a spec and deleting its address,
because the links could not be listed (`ListLinksFails`) or an address failed (`SyncAddressFails`).
LinkSpecController, LinkRefresh and LinkStatusController are one action, `SyncLink`, because nothing
reads what lies between.

**Discovery.** `discovery`, `identity`, `affiliates`, `raw` and `members` are the resources of the
chain; `events` says which of the six controllers has an input that changed. A round of a controller is
one action because all it reads are inputs that wake it again, except `WriteLocal`/`CleanupLocal`:
between the two LocalAffiliateController owns the affiliates of two identities, and
AffiliateMergeController can fail on the older one. A config may name a cluster of the discovery service,
leave Kubernetes as the only registry (`KubernetesOnly`: the machine describes itself in an Affiliate and
is its own only Member, without a client), or disable discovery. `ctrl` is what the struct of
DiscoveryServiceController remembers; its client (`sent`, `known`, `dirty`) is a library and modelled
from its use: it pushes the local data, lists the others, and notifies of both. `missed` is a history
variable: a cluster.Config came with the version the service controller remembers, but is another one.

## The runs

| run | instance | checks |
|---|---|---|
| `membership` | 2 machines, 1 cluster, 2 handlers, serialised clients; one Reset or Bootstrap cut short | CountsCover, MembersKeepCluster, OnlyEmptyTornDown, BootstrappedForLife, ImplementsMembership, EmptyClusterGoes |
| `membership_race` | the same, clients serialise only the calls of one machine | OnlyEmptyTornDown is violated |
| `etcd` | 1 machine, both roles, 2 member IDs, 2 failures | PublishedIsLocal, ControlPlaneServes, RemovedGoesUnhealthy |
| `etcd_lost_write` | 1 control plane, 1 failure | ControlPlaneRecovers is violated |
| `node` | 2 images, 2 handlers, 1 call cut short | RebootNeverConflicts, ChangeCausesReboot, ReportsCurrent |
| `apid` | 2 addresses, both roles, 2 clusters, 3 changes of the inputs, 1 failure | HealthyServes, IssuedAreCurrent, ApidServes, RebootGoesDown |
| `kubernetes` | 2 configs, both roles, 2 static pods, 2 Nodenames, 1 disturbance | ResetLeavesNothing, RegisteredAsIs, ResetEnds |
| `events` | 1 service and the machine status, 3 versions, 2 moves of the sink, 1 failure | RecordedIsPublished, RecordedNotResent, StatusReported |
| `events_services` | 2 services | ServicesReported is violated |
| `provision` | 3 requests, one of them malformed, 2 slots, 1 worker, 1 failure or restart | RunningApart, ImplementsLease, RemovedGoes, WantedRuns |
| `siderolink` | 2 UUIDs, 2 endpoints, 2 overrides, 1 failure | IdleIsCurrent, AddressTracked, OneAddressArrives |
| `discovery` | 2 clusters with one other machine each, 2 configs, 1 failure of the client | QuietIsCurrent, SettlesDown |

Each run of a module's safety properties also checks its type invariant.

**Bounds.** Two machines and two handlers are the least for which a join races with a reset, two resets
each believe the other disposes of the cluster, and two requests race for a Reboot; a third handler would
only add another call of the same three kinds, and the counters are proved for any number. `CounterMod =
8` is above every count that occurs and small enough that a wrapped counter shows at once. Two member IDs
make a second, wrong generation visible. Two failures let a failure hit the recovery from the first.
Three changes from either start of `apid` (SideroLink up or not) are a config, its Reset and the next
config, or a config between two changes of the address; `apid` was explored with two failures and with
four changes as well (a million states each), without a difference. Two configs of `kubernetes` let the
machine move to another cluster or come back as the other role, two static pods let a round be cut
between them, two Nodenames let the Node be renamed between a round's reading and its writing; the one
disturbance is an Update of the config, a failing call or a lost address. With two disturbances, so that
the creation of each of the two pods can fail half-way, the safety properties were checked as well (2.3
million states), and they are proved for any number. Three versions let one be published between the
backlog and the watch and another after it. Two endpoints let the UUID change while some are left and
after they are used up; with two overrides the machine gives up one UUID and may return to it (`used`).
Three UUIDs were explored as well for the safety properties of SideroLink (4.4 million states), without a
difference. Two configs in two clusters let the machine move with and without a Reset in between, with
and without a new identity, and give up discovery. Three requests for two slots are the least for which
all slots are taken when a request looks for one, and for which a slot comes back to another one; that
the third is malformed puts it before or behind each of the others in the controller's loop (288,000
states; two requests with two failures were explored as well, without a difference). A config in
KubernetesOnly adds a registration without a client to `discovery`. Every bound (`MaxAborts`,
`MaxFailures`, `MaxChanges`, `MaxJoins`, `MaxNames`, `MaxDisturbances`, `MaxMoves`, `MaxOverrides`,
`MaxVersion`, `MaxSendFailures`, `MaxApplies`, `MaxFacts`) is a guard of the action it limits.
`CHECK_DEADLOCK FALSE` is set where a bounded environment leaves a system that has nothing left to do.

**Symmetry** is used only in runs without temporal properties.

**Fairness.** Weak fairness of handler steps: gRPC runs a handler until it returns. Weak fairness of a
controller with an event or in the middle of a round: the COSI runtime delivers events and restarts a
failed controller. What a worker of the provider has begun it goes on with; which request is next on an
idle worker is chosen with strong fairness, because another may take it in between, but only among the
requests that are new and those whose Deprovision is due: the library calls Deprovision again after an
error, which the five seconds' timeout of the code (`provision.go:149`) counts on. Of a request whose
createMachine failed with a plain error nothing is assumed: it may be tried again (ProvisionStart is
enabled) or never, and WantedRuns has as its premise that it is not left in that state for ever. In
Discovery it is only assumed that one of the controllers, the client and the TTLs goes on while any of
them can, which is less than the runtime gives, and likewise in KubernetesNode of its controllers. In
`apid` the answer of trustd is among the fair steps: without it a worker waits for its certificate for
ever. NodeLifecycle states no fairness. Nothing is assumed of clients, Omni, overrides, reboots, failures
or the WireGuard peer. Liveness in the presence of failures is stated with a premise on what has failed
(`[](aborts = 0)`, `[]~lost`, `~cut`, `[]<>(r \notin failed)`, `LoopGoesRound`), so that one run has both
the failures for its safety properties and a true statement about progress; the premise says exactly
which failure the code does not recover from.

## Where code and words differ

* `membership_race`: ClusterCleanupController "removes empty clusters and cleans up their data"
  (`emu/controllers/cluster_cleanup.go:21`). Reset takes the decision on the counters its update
  returned and tears down later, unconditionally; a machine that is counted in between loses its cluster.
* `etcd_lost_write`: "Reconcile here so etcd still comes up in that ordering"
  (`machine/controllers/etcd.go:81`). The error of the deferred write of the service is assigned
  to a local variable after the result is fixed, and is lost: etcd stays down until some other event.
* `events_services`: EventSinkState "describes which last version of a resource was reported"
  (`api/specs/specs.proto:26`). Versions are kept per type, and apid, etcd and kubelet are
  three resources of one type: versions of one hide those of the others.

The models also contain behaviour that no text of the repository contradicts and that the
properties therefore leave room for; it is worth a maintainer's attention:

* An ApplyConfiguration cut short between saving the config and counting the machine is never
  repeated; the Reset of that machine then takes a counter below zero. Runs and proofs assume that
  joins are not cut short.
* An Upgrade cut short after it wrote the image is not completed by its retry, which compares the
  request with that image (`ChangeCausesReboot` has `aborts = 0` as its premise).
* The config-apply installation may overwrite the image of an Install that finished meanwhile.
* APID closes its old listener before it opens the new one, and remembers an address whose listener
  failed to start; replaced certificates, those of another cluster included, are not presented until
  it restarts.
* Both loops of GRPCTLSController wait for an event before they look. If the role of the config changes
  (directly, or by a Reset and a new config before the controllers have run) and one round takes
  the events of all the consequences, that round destroys the certificates and nothing wakes
  the controller to issue the new ones (`passedOver`; ApidServes and IssuedAreCurrent fail without that premise).
* An Update of the config stores it without its finalizers. A Reset before they are back does not wait for the
  controllers, and the Node or the static pods stay. The Node also stays if its one deletion fails or if
  it was renamed since it was registered (`excused`; the comment at `kubernetes_node.go:171` leaves it to
  Omni).
* StaticPodController removes the pods of a former Nodename only after it has created a pod
  (`static_pods.go:302-324`). A round that fails between the two finds the pod there when it is repeated
  and does not remove anything; if that happens to each of the static pods, those of the former name stay
  until the Reset (`unswept`).
* A worker's KubernetesNodeController that runs before the ClusterStatus exists ends its round and is not
  woken by it (`unseen`).
* KubernetesController compares only the address: a machine that is configured again before it noticed the
  Reset keeps the API server of the first cluster, and a machine that comes back as a worker before its
  controllers noticed that it is no control plane cannot be reset, because StaticPodController waits for its
  own API server. `MayJoin` excludes both: clients configure a machine again when it has come to rest.
* The AddressSpecController removes the finalizer of a torn-down spec before it deletes the address.
  A round that ends in between (any address of the list fails, or a running one was torn
  down since) leaves an address in the kernel that nobody knows of (`cut`).
* A UUID that is overridden and comes back finds its AddressSpec still torn down. Writing it fails,
  and the cleanup that would destroy it comes after the write: the manager fails for ever
  (`OneAddressArrives` speaks of UUIDs not given up before).
* NodeAddress lists the specs that are torn down, and nothing wakes the manager to destroy them: the
  machine shows its old address until the WireGuard peer goes down.
* DiscoveryServiceController means to "force reconnect on config change" (`discovery_service.go:165`) and
  compares versions. A cluster.Config that goes with a Reset and comes back with the next config has
  version 1 again. If the identity survives as well, because NodeIdentityController did not run in
  between, the machine stays in its former discovery cluster (`missed`; QuietIsCurrent is false without
  that premise).
* Nothing creates a MachineResetSignal, so a machine that is reset is never deleted from the
  discovery service: its former identity is listed until its TTL ends, and for the machine itself, under
  the same node name, it may stand in for the new one (QuietIsCurrent).
* A new discovery client knows nobody: after each failure the other members vanish and come back.
* A machine removed by the provider is not reset, so the counters of its cluster stay.
* Deprovision drops every error of `Destroy` but the one that cannot occur (`provision.go:161-166`:
  `err != nil && state.IsNotFoundError(err)`, where the other two tests of the function suggest a negation). If
  Destroy fails, say because the five seconds are over, the machine is gone but its torn-down task is not, and of
  the slots there are (`maxMachineCount`) there is one less for good.
* createMachine returns a plain error when no slot is free, and asks for a retry only in a case that cannot
  occur: whether a request that finds all slots taken gets one later is up to the provider library.
* ConnectionArgs that do not parse end the MachineController's loop each time. As long as that task is there,
  the tasks listed behind it are neither started nor reset (`LoopGoesRound`; RemovedGoes and WantedRuns are false
  without that premise).

## The proofs

Every theorem holds for all values of the constants that satisfy the module's assumptions: any sets of
machines (finite in ClusterAccounting, which counts them), clusters, handlers, images, requests, UUIDs or
addresses, any bounds on failures, changes and restarts. They need `Init` and `[][Next]_vars`, and no
fairness.

| module | theorem | states |
|---|---|---|
| `ClusterAccountingProofs` | `TypeCorrect` | []TypeOK |
| | `CountsCorrect`, `ClusterOutlivesMembers`, `TornDownIsEmpty` | []CountsCover, []MembersKeepCluster, []OnlyEmptyTornDown, from Serialised |
| | `StaysBootstrapped` | BootstrappedForLife (an action property), from Serialised |
| | `AccountingImplements` | ImplementsMembership (the refinement), from Serialised |
| `NodeLifecycleProofs` | `TypeCorrect`, `RebootsApart`, `ChangeReboots`, `DiskHasImage`, `ReportsCorrect` | []NodeTypeOK, []RebootNeverConflicts, []ChangeCausesReboot, []InstalledHasImage (a part of ReportsCurrent), []ReportsCurrent |
| `EtcdMembershipProofs` | `TypeCorrect`, `PublishedCorrect` | []EtcdTypeOK, []PublishedIsLocal |
| `ApidListenerProofs` | `TypeCorrect`, `HealthyCorrect`, `IssuedCorrect` | []ApidTypeOK, []HealthyServes, []IssuedAreCurrent |
| `KubernetesNodeProofs` | `TypeCorrect`, `ResetCorrect`, `RegisteredCorrect` | []KubernetesTypeOK, []ResetLeavesNothing, []RegisteredAsIs |
| `ReportingProofs` | `EventTypeCorrect`, `RecordedWasSent`, `NothingResent` | []EventTypeOK, []RecordedIsPublished, RecordedNotResent (an action property) |
| | `DiscoveryTypeCorrect`, `QuietCorrect` | []DiscoveryTypeOK, []QuietIsCurrent |
| `ProvisionProofs` | `TypeCorrect`, `SlotsApart` | []ProvisionTypeOK, []RunningApart |
| | `ProvisionImplements` | ImplementsLease (the refinement) |
| | `SlotsClean` | []FreeIsClean of the abstract module: a free slot, and a lost one, has neither a machine nor files |
| `SideroLinkProofs` | `TypeCorrect`, `IdleCorrect`, `AddressesTracked` | []SideroLinkTypeOK, []IdleIsCurrent, []AddressTracked |

**Assumptions.** `Serialised` says what `membership` assumes and `membership_race` drops: clients have
one membership call per machine in flight and do not join a cluster that another machine is leaving, and
joins are not cut short. `membership_race` shows that the theorem about torn-down clusters fails without
it. `WorkerAssumption` of Provision: the provider has one worker. It is started without the option that
would say otherwise (`cmd/talemu-infra-provider/main.go:174`), and the library's default is one; with
two, PickSlot of one request can choose the slot that CreateTask of the other is about to take, and TLC
finds RunningApart violated. `DiscoveryAssumption` keeps the names of the other machines apart from the
machine's own identities, which are numbers in the model. The other assumptions say that bounds are
numbers, that the values standing for "none" are none of the others, and that the sets the code cannot do
without are not empty.

**The shape of each proof** is the same: an inductive invariant (`IInv`; `EventInv` and `DiscoveryInv` in
ReportingProofs) that TLC checked first on the
instance of the run, a lemma per action that shows it preserved, and the theorems as its consequences.
None of the properties is inductive as it stands. What each needs, with the name of the part:

* *ClusterAccounting.* Nothing in CountsCover says that the call about to decrement belongs to a machine
  that is counted. `Struct` = `Grounded` (configs and calls are about real machines and clusters), `Alone`
  (one membership call per machine), `Agrees` (what a call remembers of its machine's config is still so,
  which makes a decrement match an earlier increment) and `Apart` (nobody joins a cluster somebody is
  leaving); `Phased`, the cluster is there when a joining call needs it and still empty when a Reset
  disposes of it; `Hollow`, only a running cluster counts machines. The proof goes in that order: types;
  Struct; how the *set* of members changes (`SavedMembers`, `DestroyMembers`, `CountMembers`,
  `LeaveMembers`, `SameMembers`); then the counters, where a set that gains or loses one element moves its
  cardinality by one (FiniteSetTheorems); then the phases. For the bootstrap flag, `FlagInv` adds
  that the reset of a control plane does not carry the flag along and that a cluster that is gone is
  not bootstrapped.
* *The refinement.* Every action is shown to change the place of one machine as one abstract action does,
  or the status of a cluster, or neither (`Stutters`). The work is in the abstract guards: that a cluster
  is running when a machine is counted follows from `Phased`, that nobody holds it when it is disposed of
  from `Hollow` and CountsCover, that the abstract place does not jump from `Agrees`.
* *NodeLifecycle.* `SequenceExclusive` is what the TryLock gives; `CallShape` and `OwedIsPending` say that a
  change of the image that has no boot ID yet has a call on its way to one; `DiskAfterImage` that each of
  the three installations writes the image before the disk; `InstallerCurrent` that what the config-apply
  installation read is still so, or an event is pending.
* *EtcdMembership.* `ReconcileKnows`: a reconcile has a member when it is about to publish it and has
  published it when it reports it. `PlaceIsWhole` and `DenyKnows` ground the values.
* *ApidListener.* `Faithful`: without a failure so far, what the controller remembers is what listens,
  except between closing one listener and opening the next; and what it is about to report is what is
  wanted, unless an event is waiting. Of the certificate pipeline only `Follows` is needed: whoever changes
  the address or the certificates leaves an event. IssuedAreCurrent has an invariant of its own,
  `IssuedInv`: while nothing wakes GRPCTLSController, it is in the loop of the machine's type
  (`RoleKnown`), what it has asked trustd to sign is what it would ask now (`AskedKnown`, the reason why
  an answer that comes late does no harm), and what it issued is what it would issue now
  (`IssuedKnown`), which for the outer loop needs the premise on `passedOver`.
* *KubernetesNode.* `OfOneCluster`, everything there is belongs to the cluster of the config; `NodeGoes`
  and `PodsGo`, what the finalizers cover while the config is torn down; `NodeComes` and `PodsCome`, what a
  round without an event to come has already achieved; `PodsInOrder`, pods are created under the
  Nodenames in their order, so that pods of two names side by side tell of a creation whose removal was
  missed. The attempt to prove an earlier form of RegisteredAsIs, which said nothing of such pods, failed:
  it held in the run only because the bound left no room for as many failing calls as there are pods. The
  property now names the exception (`unswept`).
* *EventSink.* `Backs`: the publisher whose version was recorded has sent that or a later one and is not
  about to send an earlier one. `Sending`: what is being sent was not recorded when the update read it.
  `StatusAlone`: the MachineStatus has one publisher, so that the read of its version is not stale.
* *Discovery.* One clause per controller, `ConfigDone` to `MemberDone`: while it has no event, its output
  is what its inputs say. QuietIsCurrent follows from all of them at rest, but none of them is preserved
  alone. `ServiceDone` needs `ClientUp`, what the client sent is with the service or still to be
  exchanged, and its cluster is the one of the config unless a config was missed. `LocalDone` speaks of
  both halves of a round and allows, between them, affiliates of two identities. `Undescribed` covers the
  time before the machine has facts, when LocalAffiliateController does nothing at all: nothing of the
  machine is anywhere. `Counted` is for the types: versions and identities never run ahead of the
  configs that were applied, which are bounded.
* *Provision.* `WorkerKnows` (the worker provisions a machine that has no task and is in no list, on the
  first slot that is free, still so when it creates the task), `ListIsOld` (a listed task may be gone, but
  then its request is gone, too, and its slot has no files and runs no other machine), `HandKnows`,
  `HeldWhileUsed` (the finalizer covers the machine and its directory), and `OverIsClean` (a task that its
  request left behind is torn down and has no finalizer).
  The proof also shows that ProvisionStart never finds a machine with a stored slot but without its task
  (`MachineHasTask`), so that this branch of the code is not taken in the model. For the refinement, a reset
  of a listed task that is gone has to be a stutter: there is nothing left for it to remove, which is why
  ListIsOld speaks of files; and the task is destroyed, or left behind, without a finalizer,
  which by `HeldWhileUsed` is the abstract guard of `GiveBack` and `Lose`. The controller lists a task that was
  left behind once more; by `OverIsClean` it does not start it, and its reset changes nothing.
* *SideroLink.* `ManagerKnows`: the round is right for the UUID it read, which is the one of the machine
  unless an event is waiting. `RoundKnows`: the AddressSpecController holds what it listed as running from
  its finalizer pass on. `HeldOrDoomed`: an address of the kernel is held through its spec or about to be
  deleted, which AddressTracked, speaking of specs that exist, does not say.

## What is only checked, and what is not modelled

Checked by TLC on the instances above and not proved: all liveness (EmptyClusterGoes, ControlPlaneServes,
RemovedGoesUnhealthy, ApidServes, RebootGoesDown, ResetEnds, StatusReported, RemovedGoes, WantedRuns,
OneAddressArrives, SettlesDown), because fairness and ENABLED are beyond the prover. Every invariant, action
property and refinement that a run checks and that holds is also proved. The three runs with a violation show
statements that are false of the code as it is; OnlyEmptyTornDown holds and is proved under `Serialised`.

Not modelled: the API proxy, hostnames (Discovery, ApiCertificates and KubernetesNode take them from
their environment), the log sink, the facts of emulated hardware, the embedded Kubernetes servers, gRPC
middleware, the network client (no controller registers a listener with it), generated code and the
commands. The renewal of certificates after half of their validity repeats a round with the same inputs
and is left out; so is a change of the machine's address in KubernetesNode, which only loses it and
finds it again, and the moment at which the emulator deletes the data of a cluster. Within modelled
parts, contents are abstracted: a config is its role and cluster, an image, a certificate, an address
or a version is a value that is equal or not. `PROJECT.json` lists every part with its files and the
reason.

## The plan

Ordered by what matters most to the system; what is done is above.

1. **API proxy**: routing as operators, checked against a reference definition over all small inputs.
2. **Hostnames**: the layered merge and the nodename, in place of the arbitrary facts of Discovery.
3. **Abstract specifications**: "serving" for ApidListener (a listener that follows its inputs), with the
   refinement checked in the run `apid` and proved from `Faithful`.
