--------------------------- MODULE EtcdMembership ---------------------------
(***************************************************************************)
(* Emulated etcd on top of ClusterMembership: the EtcdController of every  *)
(* machine brings the etcd service up once the machine's cluster is        *)
(* bootstrapped, generates the local member and publishes it to the global *)
(* MachineStatus; EtcdRemoveMemberByID and EtcdLeaveCluster add members to *)
(* the cluster's deny list; EtcdMemberList and EtcdStatus read the result. *)
(*                                                                         *)
(* The controller is level triggered: an event on its own MachineConfig or *)
(* on any ClusterStatus asks for one more reconcile, events that arrive    *)
(* while it is busy are remembered, and a failed controller is restarted   *)
(* by the runtime and reconciles again.  A reconcile reads and writes two  *)
(* stores in several operations, so its snapshot may be stale when used.   *)
(***************************************************************************)
EXTENDS ClusterMembership

CONSTANTS
    MemberIds,     \* etcd member IDs that the random generator may produce
    NoMember,      \* the empty member ID
    Callers,       \* the gRPC handlers that may be busy with etcd calls
    MaxFailures    \* bound on controller failures and emulator restarts

ASSUME MemberAssumption == NoMember \notin MemberIds
ASSUME FailureAssumption == MaxFailures \in Nat

VARIABLES
    member,      \* machine -> ID in its local etcd.Member resource
    published,   \* machine -> EtcdMemberId of its global MachineStatus
    deny,        \* cluster -> DenyEtcdMembers of its ClusterStatus
    service,     \* machine -> its etcd v1alpha1.Service
    pending,     \* machine -> an event waits for the EtcdController
    ctl,         \* machine -> where its EtcdController is
    ecall,       \* handler goroutine -> the etcd call it is serving
    failures,    \* failures so far
    lost         \* history: a write of a service failed

etcdVars == <<member, published, deny, service, pending, ctl, ecall, failures, lost>>
vars == <<place, status, label, member, published, deny, service,
          pending, ctl, ecall, failures, lost>>

-----------------------------------------------------------------------------

Service == [running : BOOLEAN, healthy : BOOLEAN]
Stopped == [running |-> FALSE, healthy |-> FALSE]

Controller == [pc : {"idle", "cluster", "member", "sync", "publish"},
               cluster : Clusters \union {NoCluster}, denied : SUBSET MemberIds]
Waiting == [pc |-> "idle", cluster |-> NoCluster, denied |-> {}]

EtcdCall == [cluster : Clusters \union {NoCluster}, id : MemberIds \union {NoMember}]
NoEtcdCall == [cluster |-> NoCluster, id |-> NoMember]

EtcdTypeOK ==
    /\ MembershipTypeOK
    /\ member \in [Machines -> MemberIds \union {NoMember}]
    /\ published \in [Machines -> MemberIds \union {NoMember}]
    /\ deny \in [Clusters -> SUBSET MemberIds]
    /\ service \in [Machines -> Service]
    /\ pending \in [Machines -> BOOLEAN]
    /\ ctl \in [Machines -> Controller]
    /\ ecall \in [Callers -> EtcdCall]
    /\ failures \in 0 .. MaxFailures
    /\ lost \in BOOLEAN

EtcdInit ==
    /\ MembershipInit
    /\ member = [m \in Machines |-> NoMember]
    /\ published = [m \in Machines |-> NoMember]
    /\ deny = [c \in Clusters |-> {}]
    /\ service = [m \in Machines |-> Stopped]
    /\ pending = [m \in Machines |-> TRUE]
    /\ ctl = [m \in Machines |-> Waiting]
    /\ ecall = [k \in Callers |-> NoEtcdCall]
    /\ failures = 0
    /\ lost = FALSE

IsControlPlane(m) == Configured(m) /\ place[m].role = "controlplane"

-----------------------------------------------------------------------------
(* A step of the membership calls: deny lists come and go with their       *)
(* ClusterStatus, and a change of a config or of any ClusterStatus is an   *)
(* event for the controllers.                                              *)

\* Variant at fault: the controller does not watch the ClusterStatus.
MembershipStepUnwatched ==
    /\ MembershipNext
    /\ deny' = [c \in Clusters |-> IF status'[c].phase = "absent" THEN {} ELSE deny[c]]
    /\ pending' = [m \in Machines |-> pending[m] \/ Configured(m)' # Configured(m)]
    /\ UNCHANGED <<member, published, service, ctl, ecall, failures, lost>>

MembershipStep ==
    /\ MembershipNext
    /\ deny' = [c \in Clusters |-> IF status'[c].phase = "absent" THEN {} ELSE deny[c]]
    /\ pending' = [m \in Machines |->
                      pending[m] \/ Configured(m)' # Configured(m) \/ status' # status]
    /\ UNCHANGED <<member, published, service, ctl, ecall, failures, lost>>

-----------------------------------------------------------------------------
(* EtcdController *)

\* The event is consumed and the machine's own config is read.
ReconcileStart(m) ==
    /\ ctl[m].pc = "idle" /\ pending[m]
    /\ pending' = [pending EXCEPT ![m] = FALSE]
    /\ ctl' = IF IsControlPlane(m)
              THEN [ctl EXCEPT ![m].pc = "cluster", ![m].cluster = place[m].cluster]
              ELSE ctl
    /\ UNCHANGED <<membershipVars, member, published, deny, service, ecall, failures, lost>>

\* The ClusterStatus is read; without one, or before the bootstrap, etcd is reported
\* as not running and the reconcile ends.
ReconcileCluster(m) ==
    /\ ctl[m].pc = "cluster"
    /\ LET c == ctl[m].cluster IN
       IF status[c].phase # "absent" /\ status[c].bootstrapped
       THEN /\ ctl' = [ctl EXCEPT ![m].pc = "member", ![m].denied = deny[c]]
            /\ UNCHANGED service
       ELSE /\ service' = [service EXCEPT ![m] = Stopped]
            /\ ctl' = [ctl EXCEPT ![m] = Waiting]
    /\ UNCHANGED <<membershipVars, member, published, deny, pending, ecall, failures, lost>>

\* Variant at fault: every reconcile generates a member.
ReconcileMemberAgain(m) ==
    /\ ctl[m].pc = "member"
    /\ \E id \in MemberIds \ {member[n] : n \in Machines} : member' = [member EXCEPT ![m] = id]
    /\ ctl' = [ctl EXCEPT ![m].pc = "sync"]
    /\ UNCHANGED <<membershipVars, published, deny, service, pending, ecall, failures, lost>>

\* The local member is generated once and kept; the 64 random bits of genMemberID
\* never repeat.
ReconcileMember(m) ==
    /\ ctl[m].pc = "member"
    /\ IF member[m] # NoMember
       THEN UNCHANGED member
       ELSE \E id \in MemberIds \ {member[n] : n \in Machines} :
               member' = [member EXCEPT ![m] = id]
    /\ ctl' = [ctl EXCEPT ![m].pc = "sync"]
    /\ UNCHANGED <<membershipVars, published, deny, service, pending, ecall, failures, lost>>

\* syncGlobalMember: the member and the labels it is listed by, in one update.
ReconcileSync(m) ==
    /\ ctl[m].pc = "sync"
    /\ published' = [published EXCEPT ![m] = member[m]]
    /\ label' = [label EXCEPT ![m] = [cluster |-> ctl[m].cluster,
                                      roles |-> @.roles \union {"controlplane"}]]
    /\ ctl' = [ctl EXCEPT ![m].pc = "publish"]
    /\ UNCHANGED <<place, status, member, deny, service, pending, ecall, failures, lost>>

\* Variant at fault: the deny list is not looked at.
ReconcilePublishHealthy(m) ==
    /\ ctl[m].pc = "publish"
    /\ service' = [service EXCEPT ![m] = [running |-> TRUE, healthy |-> TRUE]]
    /\ ctl' = [ctl EXCEPT ![m] = Waiting]
    /\ UNCHANGED <<membershipVars, member, published, deny, pending, ecall, failures, lost>>

\* The deny list of the snapshot decides about health; the deferred write of the
\* service comes last.
ReconcilePublish(m) ==
    /\ ctl[m].pc = "publish"
    /\ service' = [service EXCEPT ![m] =
                      [running |-> TRUE, healthy |-> member[m] \notin ctl[m].denied]]
    /\ ctl' = [ctl EXCEPT ![m] = Waiting]
    /\ UNCHANGED <<membershipVars, member, published, deny, pending, ecall, failures, lost>>

Reconcile(m) ==
    \/ ReconcileStart(m) \/ ReconcileCluster(m) \/ ReconcileMember(m)
    \/ ReconcileSync(m) \/ ReconcilePublish(m)

\* An operation of the reconcile fails: the deferred write still happens, and the
\* runtime restarts the controller with an event pending.
ReconcileFails(m) ==
    /\ failures < MaxFailures
    /\ ctl[m].pc \in {"cluster", "member", "sync"}
    /\ service' = [service EXCEPT ![m] = [running |-> ctl[m].pc # "cluster", healthy |-> FALSE]]
    /\ ctl' = [ctl EXCEPT ![m] = Waiting]
    /\ pending' = [pending EXCEPT ![m] = TRUE]
    /\ failures' = failures + 1
    /\ UNCHANGED <<membershipVars, member, published, deny, ecall, lost>>

\* The deferred write itself fails.  Its error is assigned to a variable of the function
\* that has returned already: the reconcile counts as done and nothing repeats it.
ReconcilePublishFails(m) ==
    /\ failures < MaxFailures
    /\ ctl[m].pc = "publish"
    /\ ctl' = [ctl EXCEPT ![m] = Waiting]
    /\ failures' = failures + 1
    /\ lost' = TRUE
    /\ UNCHANGED <<membershipVars, member, published, deny, service, pending, ecall>>

\* The emulator process restarts: both stores are on disk, everything else is lost.
EmulatorRestart ==
    /\ failures < MaxFailures
    /\ ecall' = [k \in Callers |-> NoEtcdCall]
    /\ ctl' = [m \in Machines |-> Waiting]
    /\ pending' = [m \in Machines |-> TRUE]
    /\ failures' = failures + 1
    /\ UNCHANGED <<membershipVars, member, published, deny, service, lost>>

-----------------------------------------------------------------------------
(* MachineService.EtcdRemoveMemberByID and EtcdLeaveCluster *)

RemoveStart(k, m, id) ==
    /\ ecall[k] = NoEtcdCall
    /\ IsControlPlane(m)
    /\ ecall' = [ecall EXCEPT ![k] = [cluster |-> place[m].cluster, id |-> id]]
    /\ UNCHANGED <<membershipVars, member, published, deny, service, pending, ctl, failures, lost>>

\* Variant at fault: a machine leaves that has no member.
LeaveStartUnchecked(k, m) == RemoveStart(k, m, member[m])

LeaveStart(k, m) == member[m] # NoMember /\ RemoveStart(k, m, member[m])

\* The conflict-retrying update that appends the member to the deny list, or fails
\* because the ClusterStatus is gone or going.
Deny(k) ==
    /\ ecall[k] # NoEtcdCall
    /\ LET c == ecall[k].cluster IN
       IF status[c].phase = "running" /\ ecall[k].id \notin deny[c]
       THEN /\ deny' = [deny EXCEPT ![c] = @ \union {ecall[k].id}]
            /\ pending' = [m \in Machines |-> TRUE]
       ELSE UNCHANGED <<deny, pending>>
    /\ ecall' = [ecall EXCEPT ![k] = NoEtcdCall]
    /\ UNCHANGED <<membershipVars, member, published, service, ctl, failures, lost>>

\* What the two read calls answer: EtcdMemberList on a machine of cluster c, and
\* EtcdStatus on machine m.
EtcdMemberList(c) ==
    {published[m] : m \in {n \in Machines : /\ label[n].cluster = c
                                            /\ "controlplane" \in label[n].roles
                                            /\ published[n] # NoMember}} \ deny[c]
EtcdStatus(m) == published[m]

-----------------------------------------------------------------------------

Next ==
    \/ MembershipStep
    \/ \E m \in Machines : Reconcile(m) \/ ReconcileFails(m) \/ ReconcilePublishFails(m)
    \/ EmulatorRestart
    \/ \E k \in Callers, m \in Machines :
          LeaveStart(k, m) \/ \E id \in MemberIds : RemoveStart(k, m, id)
    \/ \E k \in Callers : Deny(k)

InitNext == EtcdInit /\ [][Next]_vars

\* Every controller of the runtime keeps running; nothing is assumed of clients.
Fairness == \A m \in Machines : WF_vars(Reconcile(m))

Spec == InitNext /\ Fairness

-----------------------------------------------------------------------------
(* Properties *)

\* The member that a machine published, by which the other machines list it, is the
\* member it has: no failure or restart between the generation of the member and its
\* publication makes the controller generate another one.  Nor is etcd reported healthy
\* before, in spite of the write of the service being deferred to the end of every path.
PublishedIsLocal ==
    \A m \in Machines :
        /\ published[m] \in {NoMember, member[m]}
        /\ service[m].healthy => published[m] # NoMember

ShouldServe(m, c) ==
    /\ IsControlPlane(m) /\ place[m].cluster = c
    /\ status[c].phase # "absent" /\ status[c].bootstrapped
    /\ member[m] \notin deny[c]

Serves(m, c) == service[m].healthy /\ member[m] \in EtcdMemberList(c)

StaysUp ==
    \A m \in Machines, c \in Clusters : <>[]ShouldServe(m, c) => <>[]Serves(m, c)

\* A control plane of a bootstrapped cluster that nobody removes comes up as a listed,
\* healthy etcd member and stays one, whichever of its config and the bootstrap came
\* first, whatever stale snapshot a reconcile was working with and whatever else fails,
\* as long as no write of a service does.
ControlPlaneServes == []~lost => StaysUp

\* "etcd still comes up in that ordering, not only when the global cluster status
\* changes": a control plane comes up whatever fails, for a failed reconcile is retried.
ControlPlaneRecovers == StaysUp

\* A control plane whose member was removed stops reporting a healthy etcd for good,
\* even if the removal came after the reconcile had read the deny list.
RemovedGoesUnhealthy ==
    []~lost =>
        \A m \in Machines, c \in Clusters :
            <>[](/\ IsControlPlane(m) /\ place[m].cluster = c
                 /\ status[c].phase # "absent" /\ status[c].bootstrapped
                 /\ member[m] \in deny[c])
                => <>[](~service[m].healthy)
=============================================================================
