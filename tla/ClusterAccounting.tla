-------------------------- MODULE ClusterAccounting --------------------------
(***************************************************************************)
(* The bookkeeping of cluster membership: the machine-service calls that   *)
(* join a machine to a cluster (ApplyConfiguration), bootstrap the cluster *)
(* (Bootstrap) and take the machine out again (Reset), over two stores:    *)
(*                                                                         *)
(*   - the machine's own COSI state, which holds its MachineConfig;        *)
(*   - the emulator's global COSI state, shared by every machine, which    *)
(*     holds one ClusterStatus per cluster and one MachineStatus per       *)
(*     machine;                                                            *)
(*                                                                         *)
(* and the ClusterCleanupController, which destroys a ClusterStatus that   *)
(* has been torn down.                                                     *)
(*                                                                         *)
(* gRPC serves every call in a goroutine of its own and no lock covers     *)
(* these calls, so a call is a sequence of atomic store operations and     *)
(* everything may happen between two of them.  Each action below is one    *)
(* store operation together with the code up to the next one.              *)
(***************************************************************************)
EXTENDS Integers, FiniteSets

CONSTANTS
    Machines,     \* the emulated machines
    Clusters,     \* cluster IDs found in machine configs
    NoCluster,    \* "no cluster": an absent label, the cluster of no config
    NoMachine,    \* the machine of an idle call
    Callers,      \* the gRPC handler goroutines that may be busy at once
    CounterMod,   \* one more than the largest counter value (2^32 for uint32)
    Discipline,   \* what clients serialise: calls of a "machine", of a "cluster"
    Aborts,       \* the calls that may be cut short: "apply", "reset", "bootstrap"
    MaxAborts     \* bound on the number of calls cut short

ASSUME MachinesFinite == IsFiniteSet(Machines)
ASSUME CounterAssumption ==
    /\ MaxAborts \in Nat
    /\ CounterMod \in Nat
    /\ Cardinality(Machines) + MaxAborts < CounterMod
ASSUME ClientAssumption ==
    /\ Discipline \subseteq {"machine", "cluster"}
    /\ Aborts \subseteq {"apply", "reset", "bootstrap"}
ASSUME SentinelAssumption == NoCluster \notin Clusters /\ NoMachine \notin Machines

VARIABLES
    config,    \* machine -> its active MachineConfig
    cluster,   \* cluster ID -> its ClusterStatus
    label,     \* machine -> the labels of its MachineStatus
    call,      \* handler goroutine -> the call it is serving
    aborts     \* number of calls cut short so far

acctVars == <<config, cluster, label, call, aborts>>

-----------------------------------------------------------------------------
(* Types and empty values *)

Roles == {"controlplane", "worker"}
Kinds == Roles \union {"partial"}      \* a partial config has no machine section
Counter == 0 .. CounterMod - 1

Config == [kind : Kinds \union {"none"}, cluster : Clusters \union {NoCluster},
           phase : {"running", "tearingDown"}, held : BOOLEAN]
NoConfig == [kind |-> "none", cluster |-> NoCluster, phase |-> "running", held |-> FALSE]

ClusterStatus == [phase : {"absent", "running", "tearingDown"}, bootstrapped : BOOLEAN,
                  controlPlanes : Counter, workers : Counter]
NoStatus == [phase |-> "absent", bootstrapped |-> FALSE, controlPlanes |-> 0, workers |-> 0]

Label == [cluster : Clusters \union {NoCluster}, roles : SUBSET Roles]
NoLabel == [cluster |-> NoCluster, roles |-> {}]

ApplyPC == {"save", "update", "find", "create", "count", "label"}
ResetPC == {"teardown", "destroy", "look", "discount", "dispose", "unlabel"}
BootstrapPC == {"check", "bootstrap"}

Call == [pc : {"idle"} \union ApplyPC \union ResetPC \union BootstrapPC,
         machine : Machines \union {NoMachine}, cluster : Clusters \union {NoCluster},
         kind : Kinds \union {"none"},
         flag : BOOLEAN]   \* Apply: the config is new; Reset: no control plane was seen
Idle == [pc |-> "idle", machine |-> NoMachine, cluster |-> NoCluster,
         kind |-> "none", flag |-> FALSE]

TypeOK ==
    /\ config \in [Machines -> Config]
    /\ cluster \in [Clusters -> ClusterStatus]
    /\ label \in [Machines -> Label]
    /\ call \in [Callers -> Call]
    /\ aborts \in 0 .. MaxAborts

Init ==
    /\ config = [m \in Machines |-> NoConfig]
    /\ cluster = [c \in Clusters |-> NoStatus]
    /\ label = [m \in Machines |-> NoLabel]
    /\ call = [k \in Callers |-> Idle]
    /\ aborts = 0

-----------------------------------------------------------------------------
(* Helpers *)

\* machineconfig.GetComplete: a config with a machine section, in any phase.
Complete(m) == config[m].kind \in Roles

\* The uint32 counters of ClusterStatusSpec wrap.
Inc(n) == IF n = CounterMod - 1 THEN 0 ELSE n + 1
Dec(n) == IF n = 0 THEN CounterMod - 1 ELSE n - 1

Joining(c) == \E k \in Callers : call[k].pc \in ApplyPC /\ call[k].cluster = c
Leaving(c) == \E k \in Callers : call[k].pc \in ResetPC /\ call[k].cluster = c
Busy(m) == \E k \in Callers : call[k].pc \in ApplyPC \union ResetPC /\ call[k].machine = m

At(k, pc) == call[k].pc = pc
Goto(k, pc) == call' = [call EXCEPT ![k].pc = pc]
Return(k) == call' = [call EXCEPT ![k] = Idle]

\* A conflict-retrying update works on a running resource and fails otherwise.
Updatable(c) == cluster[c].phase = "running"

-----------------------------------------------------------------------------
(* MachineService.ApplyConfiguration *)

\* The clients behind the machines' APIs.  Those that serialise the calls of a machine
\* have one membership call per machine in flight and do not move a configured machine;
\* those that serialise the calls of a cluster do not let a machine join while another
\* one is leaving or the cluster is being cleaned up.
MayApply(m, c, kind) ==
    /\ "machine" \in Discipline =>
          /\ ~Busy(m)
          /\ Complete(m) => kind = config[m].kind /\ c = config[m].cluster
    /\ "cluster" \in Discipline => ~Leaving(c) /\ cluster[c].phase # "tearingDown"

MayReset(m) ==
    /\ "machine" \in Discipline => ~Busy(m)
    /\ "cluster" \in Discipline => ~Joining(config[m].cluster)

\* The config is parsed and the existing one is read; only a complete config on a
\* machine without one allocates the machine to a cluster.
ApplyStart(k, m, c, kind) ==
    /\ At(k, "idle")
    /\ MayApply(m, c, kind)
    /\ call' = [call EXCEPT ![k] =
                   [pc |-> "save", machine |-> m, cluster |-> c, kind |-> kind,
                    flag |-> ~Complete(m) /\ kind \in Roles]]
    /\ UNCHANGED <<config, cluster, label, aborts>>

\* The stored resource is the new one: it carries no finalizer, whatever the
\* config it replaces had.
Saved(k, m) ==
    config' = [config EXCEPT ![m] = [kind |-> call[k].kind, cluster |-> call[k].cluster,
                                     phase |-> "running", held |-> FALSE]]

\* Variant at fault: every stored config goes on to be counted.
AfterSaveAlways(k) == Goto(k, "find")

AfterSave(k) == IF call[k].flag THEN Goto(k, "find") ELSE Return(k)

\* state.Create of the MachineConfig; an existing one makes it a conflict.
ApplySave(k) ==
    /\ At(k, "save")
    /\ LET m == call[k].machine IN
       IF config[m].kind = "none"
       THEN Saved(k, m) /\ AfterSave(k)
       ELSE Goto(k, "update") /\ UNCHANGED config
    /\ UNCHANGED <<cluster, label, aborts>>

\* Get, SetVersion and Update of the existing MachineConfig.
ApplyUpdate(k) ==
    /\ At(k, "update")
    /\ LET m == call[k].machine IN
       /\ config[m].kind # "none" /\ config[m].phase = "running"
       /\ Saved(k, m)
    /\ AfterSave(k)
    /\ UNCHANGED <<cluster, label, aborts>>

\* The existing config went away, is being torn down, or changed (a finalizer is
\* enough) between Get and Update: the call fails.
ApplyUpdateFails(k) ==
    /\ At(k, "update")
    /\ Return(k)
    /\ UNCHANGED <<config, cluster, label, aborts>>

ApplyFindCluster(k) ==
    /\ At(k, "find")
    /\ Goto(k, IF cluster[call[k].cluster].phase = "absent" THEN "create" ELSE "count")
    /\ UNCHANGED <<config, cluster, label, aborts>>

\* state.Create of the ClusterStatus; losing the race to create it is no error.
ApplyCreateCluster(k) ==
    /\ At(k, "create")
    /\ LET c == call[k].cluster IN
       cluster' = IF cluster[c].phase = "absent"
                  THEN [cluster EXCEPT ![c] = [NoStatus EXCEPT !.phase = "running"]]
                  ELSE cluster
    /\ Goto(k, "count")
    /\ UNCHANGED <<config, label, aborts>>

ApplyCount(k) ==
    /\ At(k, "count")
    /\ LET c == call[k].cluster IN
       /\ Updatable(c)
       /\ cluster' =
            IF call[k].kind = "controlplane"
            THEN [cluster EXCEPT ![c].controlPlanes = Inc(@)]
            ELSE [cluster EXCEPT ![c].workers = Inc(@)]
    /\ Goto(k, "label")
    /\ UNCHANGED <<config, label, aborts>>

ApplyLabel(k) ==
    /\ At(k, "label")
    /\ label' = [label EXCEPT ![call[k].machine] =
                    [cluster |-> call[k].cluster, roles |-> @.roles \union {call[k].kind}]]
    /\ Return(k)
    /\ UNCHANGED <<config, cluster, aborts>>

ApplyStep(k) ==
    \/ ApplySave(k) \/ ApplyUpdate(k) \/ ApplyUpdateFails(k) \/ ApplyFindCluster(k)
    \/ ApplyCreateCluster(k) \/ ApplyCount(k) \/ ApplyLabel(k)

-----------------------------------------------------------------------------
(* MachineService.Reset *)

ResetStart(k, m) ==
    /\ At(k, "idle")
    /\ Complete(m)
    /\ MayReset(m)
    /\ call' = [call EXCEPT ![k] =
                   [pc |-> "teardown", machine |-> m, cluster |-> config[m].cluster,
                    kind |-> config[m].kind, flag |-> FALSE]]
    /\ UNCHANGED <<config, cluster, label, aborts>>

\* destroyResourceByID, first half: Teardown.
ResetTeardown(k) ==
    /\ At(k, "teardown")
    /\ LET m == call[k].machine IN
       IF config[m].kind = "none"
       THEN Return(k) /\ UNCHANGED config
       ELSE /\ config' = [config EXCEPT ![m].phase = "tearingDown"]
            /\ Goto(k, "destroy")
    /\ UNCHANGED <<cluster, label, aborts>>

\* destroyResourceByID, second half: wait until no finalizer is left, Destroy.
ResetDestroy(k) ==
    /\ At(k, "destroy")
    /\ LET m == call[k].machine IN
       /\ ~config[m].held
       /\ config' = [config EXCEPT ![m] = NoConfig]
       /\ IF config[m].kind = "none" THEN Return(k) ELSE Goto(k, "look")
    /\ UNCHANGED <<cluster, label, aborts>>

\* The ClusterStatus is read once before it is updated; the branch that clears
\* Bootstrapped looks at this reading, not at the value it has just decremented.
ResetLook(k) ==
    /\ At(k, "look")
    /\ LET status == cluster[call[k].cluster] IN
       /\ status.phase # "absent"
       /\ call' = [call EXCEPT ![k].pc = "discount", ![k].flag = (status.controlPlanes = 0)]
    /\ UNCHANGED <<config, cluster, label, aborts>>

\* Variant at fault: the role is not looked at.
DiscountedAnyRole(status, kind, sawNone) == [status EXCEPT !.workers = Dec(@)]

\* Variant at fault: the last control plane takes the bootstrapped flag with it.
DiscountedWithFlag(status, kind, sawNone) ==
    IF kind = "controlplane"
    THEN [status EXCEPT !.controlPlanes = Dec(@), !.bootstrapped = @ /\ status.controlPlanes # 1]
    ELSE [status EXCEPT !.workers = Dec(@)]

Discounted(status, kind, sawNone) ==
    IF kind = "controlplane"
    THEN [status EXCEPT !.controlPlanes = Dec(@),
                        !.bootstrapped = @ /\ ~sawNone]
    ELSE [status EXCEPT !.workers = Dec(@)]

\* Variant at fault: workers do not keep a cluster.
HasNoControlPlane(status) == status.controlPlanes = 0

IsEmpty(status) == status.controlPlanes = 0 /\ status.workers = 0

\* Variant at fault: the cluster is disposed of by every Reset.
ResetDiscountDisposes(k) ==
    /\ At(k, "discount")
    /\ LET c == call[k].cluster IN
       /\ Updatable(c)
       /\ cluster' = [cluster EXCEPT ![c] = Discounted(@, call[k].kind, call[k].flag)]
    /\ Goto(k, "dispose")
    /\ UNCHANGED <<config, label, aborts>>

\* Variant at fault: emptiness is judged by the counters before the decrement.
ResetDiscountStale(k) ==
    /\ At(k, "discount")
    /\ LET c == call[k].cluster IN
       /\ Updatable(c)
       /\ cluster' = [cluster EXCEPT ![c] = Discounted(@, call[k].kind, call[k].flag)]
       /\ Goto(k, IF IsEmpty(cluster[c]) THEN "dispose" ELSE "unlabel")
    /\ UNCHANGED <<config, label, aborts>>

ResetDiscount(k) ==
    /\ At(k, "discount")
    /\ LET c == call[k].cluster
           status == Discounted(cluster[c], call[k].kind, call[k].flag) IN
       /\ Updatable(c)
       /\ cluster' = [cluster EXCEPT ![c] = status]
       /\ Goto(k, IF IsEmpty(status) THEN "dispose" ELSE "unlabel")
    /\ UNCHANGED <<config, label, aborts>>

ResetDispose(k) ==
    /\ At(k, "dispose")
    /\ LET c == call[k].cluster IN
       /\ cluster[c].phase # "absent"
       /\ cluster' = [cluster EXCEPT ![c].phase = "tearingDown"]
    /\ Goto(k, "unlabel")
    /\ UNCHANGED <<config, label, aborts>>

\* Variant at fault: the role labels stay.
ResetUnlabelCluster(k) ==
    /\ At(k, "unlabel")
    /\ label' = [label EXCEPT ![call[k].machine].cluster = NoCluster]
    /\ Return(k)
    /\ UNCHANGED <<config, cluster, aborts>>

ResetUnlabel(k) ==
    /\ At(k, "unlabel")
    /\ label' = [label EXCEPT ![call[k].machine] = NoLabel]
    /\ Return(k)
    /\ UNCHANGED <<config, cluster, aborts>>

ResetStep(k) ==
    \/ ResetTeardown(k) \/ ResetDestroy(k) \/ ResetLook(k)
    \/ ResetDiscount(k) \/ ResetDispose(k) \/ ResetUnlabel(k)

-----------------------------------------------------------------------------
(* MachineService.Bootstrap *)

BootstrapStart(k, m) ==
    /\ At(k, "idle")
    /\ Complete(m)
    /\ call' = [call EXCEPT ![k] =
                   [pc |-> "check", machine |-> m, cluster |-> config[m].cluster,
                    kind |-> config[m].kind, flag |-> FALSE]]
    /\ UNCHANGED <<config, cluster, label, aborts>>

BootstrapCheck(k) ==
    /\ At(k, "check")
    /\ LET status == cluster[call[k].cluster] IN
       IF status.phase = "absent" \/ status.bootstrapped THEN Return(k) ELSE Goto(k, "bootstrap")
    /\ UNCHANGED <<config, cluster, label, aborts>>

BootstrapSet(k) ==
    /\ At(k, "bootstrap")
    /\ Updatable(call[k].cluster)
    /\ cluster' = [cluster EXCEPT ![call[k].cluster].bootstrapped = TRUE]
    /\ Return(k)
    /\ UNCHANGED <<config, label, aborts>>

BootstrapStep(k) == BootstrapCheck(k) \/ BootstrapSet(k)

-----------------------------------------------------------------------------
(* Failures and the other actors *)

\* The phases of the ClusterStatus in which a read, an update and a Teardown work.
WorksIn == [pc \in {"count", "discount", "bootstrap", "look", "dispose"} |->
               IF pc \in {"look", "dispose"} THEN {"running", "tearingDown"} ELSE {"running"}]

\* The operation the call is at finds the ClusterStatus gone or torn down, and the
\* call returns the error: what it has done so far stays done.
ClusterGone(k) ==
    /\ call[k].pc \in DOMAIN WorksIn
    /\ cluster[call[k].cluster].phase \notin WorksIn[call[k].pc]
    /\ Return(k)
    /\ UNCHANGED <<config, cluster, label, aborts>>

CallKind(k) == CASE call[k].pc \in ApplyPC -> "apply"
                 [] call[k].pc \in ResetPC -> "reset"
                 [] call[k].pc \in BootstrapPC -> "bootstrap"
                 [] OTHER -> "none"

\* The context of the call is cancelled: the client went away, or APID stopped its
\* servers for a reboot.
Abort(k) ==
    /\ CallKind(k) \in Aborts
    /\ aborts < MaxAborts
    /\ aborts' = aborts + 1
    /\ Return(k)
    /\ UNCHANGED <<config, cluster, label>>

\* KubernetesNodeController and StaticPodController put a finalizer on a running
\* complete MachineConfig and take it off once it is being torn down.
HoldConfig(m) ==
    /\ Complete(m) /\ config[m].phase = "running" /\ ~config[m].held
    /\ config' = [config EXCEPT ![m].held = TRUE]
    /\ UNCHANGED <<cluster, label, call, aborts>>

ReleaseConfig(m) ==
    /\ Complete(m) /\ config[m].phase = "tearingDown" /\ config[m].held
    /\ config' = [config EXCEPT ![m].held = FALSE]
    /\ UNCHANGED <<cluster, label, call, aborts>>

\* ClusterCleanupController
Cleanup(c) ==
    /\ cluster[c].phase = "tearingDown"
    /\ cluster' = [cluster EXCEPT ![c] = NoStatus]
    /\ UNCHANGED <<config, label, call, aborts>>

-----------------------------------------------------------------------------

HandlerStep(k) == ApplyStep(k) \/ ResetStep(k) \/ BootstrapStep(k) \/ ClusterGone(k)

AcctNext ==
    \/ \E k \in Callers, m \in Machines :
          \/ \E c \in Clusters, kind \in Kinds : ApplyStart(k, m, c, kind)
          \/ ResetStart(k, m)
          \/ BootstrapStart(k, m)
    \/ \E k \in Callers : HandlerStep(k) \/ Abort(k)
    \/ \E m \in Machines : HoldConfig(m) \/ ReleaseConfig(m)
    \/ \E c \in Clusters : Cleanup(c)

AcctInitNext == Init /\ [][AcctNext]_acctVars

\* A handler goroutine that can take its next step takes it, and the runtime keeps
\* restarting the cleanup controller until the torn-down cluster is destroyed.
AcctFairness ==
    /\ \A k \in Callers : WF_acctVars(HandlerStep(k))
    /\ \A c \in Clusters : WF_acctVars(Cleanup(c))

AcctSpec == AcctInitNext /\ AcctFairness

-----------------------------------------------------------------------------
(* Properties *)

\* Machine m counts towards role r of cluster c: it has such a config and no call
\* has still to add it, or a call has destroyed the config and has still to
\* subtract it.
Counted(m, c, r) ==
    \/ /\ config[m].kind = r /\ config[m].cluster = c
       /\ \A k \in Callers : call[k].machine = m => call[k].pc \notin {"find", "create", "count"}
    \/ \E k \in Callers : /\ call[k].machine = m /\ call[k].pc \in {"look", "discount"}
                         /\ call[k].kind = r /\ call[k].cluster = c

Members(c, r) == {m \in Machines : Counted(m, c, r)}

\* The counters of a ClusterStatus are the numbers of its control planes and of its
\* workers, up to the resets that were cut short: no concurrent join or reset of other
\* machines, in any order, loses an increment, decrements twice or wraps a counter.
CountsCover ==
    \A c \in Clusters :
        LET planes == Cardinality(Members(c, "controlplane"))
            workers == Cardinality(Members(c, "worker")) IN
        /\ cluster[c].controlPlanes \in planes .. planes + aborts
        /\ cluster[c].workers \in workers .. workers + aborts

\* The cleanup controller removes empty clusters: the counters of a cluster that is
\* torn down are still zero, although Teardown is not conditional on the update that
\* found them so.
OnlyEmptyTornDown ==
    \A c \in Clusters : cluster[c].phase = "tearingDown" => IsEmpty(cluster[c])

\* A cluster is never torn down or destroyed, and its Kubernetes data deleted, under
\* a machine that still counts towards it: the decision taken on the counters of one
\* update is still right when the Teardown that follows it happens.
MembersKeepCluster ==
    \A c \in Clusters, r \in Roles, m \in Machines :
        Counted(m, c, r) => cluster[c].phase = "running"

\* Once bootstrapped, a cluster stays so until its ClusterStatus is destroyed.  Reset
\* has a branch that clears the flag with the last control plane, but it tests the
\* count read before the decrement, which includes the machine being reset: a cluster
\* left with workers only is never bootstrapped again.
BootstrappedForLife ==
    [][\A c \in Clusters :
          cluster[c].bootstrapped => cluster'[c].bootstrapped \/ cluster'[c].phase = "absent"]_cluster

\* A cluster that lost its last machine is eventually destroyed, or joined again: no
\* order of concurrent resets leaves an empty ClusterStatus behind that every one of
\* them believed another would dispose of.  Only a Reset cut short before it could
\* dispose of the cluster does.
EmptyClusterGoes ==
    [](aborts = 0) =>
        \A c \in Clusters :
            cluster[c].phase # "absent" /\ IsEmpty(cluster[c])
                ~> cluster[c].phase = "absent" \/ ~IsEmpty(cluster[c])
=============================================================================
