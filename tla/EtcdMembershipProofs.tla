------------------------ MODULE EtcdMembershipProofs ------------------------
(***************************************************************************)
(* Proofs about EtcdMembership, for any machines, clusters, members and    *)
(* handlers, any failures and restarts.  They need no fairness.            *)
(***************************************************************************)
EXTENDS EtcdMembership, TLAPS

-----------------------------------------------------------------------------
(* The inductive invariant *)

\* A machine that has a place has a role and a cluster.
PlaceIsWhole ==
    \A m \in Machines : place[m].stage # "out" => place[m].role \in Roles /\ place[m].cluster \in Clusters

\* An EtcdController that is busy works for a control plane of a cluster; it has a member
\* when it is about to publish it, and has published it when it is about to report it.
ReconcileKnows ==
    \A m \in Machines :
        /\ ctl[m].pc # "idle" => "controlplane" \in Roles /\ ctl[m].cluster \in Clusters
        /\ ctl[m].pc \in {"sync", "publish"} => member[m] # NoMember
        /\ ctl[m].pc = "publish" => published[m] # NoMember

\* A handler that is to add a member to a deny list has a cluster and a member.
DenyKnows ==
    \A k \in Callers : ecall[k] # NoEtcdCall => ecall[k].cluster \in Clusters /\ ecall[k].id \in MemberIds

IInv == EtcdTypeOK /\ PlaceIsWhole /\ ReconcileKnows /\ DenyKnows /\ PublishedIsLocal

-----------------------------------------------------------------------------
(* The membership calls *)

MembershipInv == MembershipTypeOK /\ PlaceIsWhole

\* The stage of a machine that has a place moves on.
LEMMA AdvanceInv ==
    ASSUME MembershipInv, NEW m \in Machines, NEW from \in Stages \ {"out"}, NEW to \in Stages,
           Advance(m, from, to)
    PROVE  /\ place' \in [Machines -> [stage : Stages, role : Roles \union {"none"},
                                       cluster : Clusters \union {NoCluster}]]
           /\ PlaceIsWhole'
  <1> DEFINE p == place[m]
             q == [p EXCEPT !.stage = to]
             P == [stage : Stages, role : Roles \union {"none"}, cluster : Clusters \union {NoCluster}]
  <1>1. p \in P /\ p.stage = from /\ p.role \in Roles /\ p.cluster \in Clusters
    BY DEF MembershipInv, MembershipTypeOK, PlaceIsWhole, Advance
  <1>2. q \in P /\ q.role = p.role /\ q.cluster = p.cluster
    <2> HIDE DEF p
    <2> QED BY <1>1
  <1>3. place' = [place EXCEPT ![m] = q] /\ place \in [Machines -> P]
    BY DEF Advance, MembershipInv, MembershipTypeOK
  <1> HIDE DEF q
  <1>4. place' \in [Machines -> P]
    BY <1>2, <1>3
  <1>5. PlaceIsWhole'
    BY <1>1, <1>2, <1>3 DEF PlaceIsWhole, MembershipInv
  <1> QED BY <1>4, <1>5

\* A machine drops out.
LEMMA OutInv ==
    ASSUME MembershipInv, NEW m \in Machines, place' = [place EXCEPT ![m] = Outside]
    PROVE  /\ place' \in [Machines -> [stage : Stages, role : Roles \union {"none"},
                                       cluster : Clusters \union {NoCluster}]]
           /\ PlaceIsWhole'
  BY DEF MembershipInv, MembershipTypeOK, PlaceIsWhole, Outside, Stages

\* Every step of the membership calls.
LEMMA MembershipStepInv ==
    ASSUME MembershipInv, MembershipNext
    PROVE  MembershipInv'
  <1> USE DEF MembershipInv, MembershipTypeOK
  <1>1. ASSUME NEW m \in Machines, NEW c \in Clusters, NEW role \in Roles, Join(m, c, role)
        PROVE  MembershipInv'
    BY <1>1 DEF Join, PlaceIsWhole, Stages
  <1>2. ASSUME NEW m \in Machines, Count(m) PROVE MembershipInv'
    BY <1>2, AdvanceInv DEF Count, Stages
  <1>3. ASSUME NEW m \in Machines, Enroll(m) PROVE MembershipInv'
    <2>1. place[m].role \in Roles /\ place[m].cluster \in Clusters
      BY <1>3 DEF Enroll, Advance, PlaceIsWhole
    <2>2. label' \in [Machines -> [cluster : Clusters \union {NoCluster}, roles : SUBSET Roles]]
      BY <1>3, <2>1 DEF Enroll
    <2> QED BY <1>3, <2>2, AdvanceInv DEF Enroll, Stages
  <1>4. ASSUME NEW m \in Machines, Withdraw(m) \/ Discount(m) PROVE MembershipInv'
    BY <1>4, AdvanceInv DEF Withdraw, Discount, Stages
  <1>5. ASSUME NEW m \in Machines, Unlabel(m) PROVE MembershipInv'
    BY <1>5, OutInv DEF Unlabel, NoLabel
  <1>6. ASSUME NEW m \in Machines, Abandon(m) PROVE MembershipInv'
    BY <1>6, OutInv DEF Abandon
  <1>7. ASSUME NEW c \in Clusters, Open(c) PROVE MembershipInv'
    BY <1>7 DEF Open, PlaceIsWhole
  <1>8. ASSUME NEW c \in Clusters, Bootstrap(c) PROVE MembershipInv'
    BY <1>8 DEF Bootstrap, PlaceIsWhole
  <1>9. ASSUME NEW c \in Clusters, Dispose(c) PROVE MembershipInv'
    BY <1>9 DEF Dispose, PlaceIsWhole
  <1>10. ASSUME NEW c \in Clusters, Cleanup(c) PROVE MembershipInv'
    BY <1>10 DEF Cleanup, Down, PlaceIsWhole
  <1> QED BY <1>1, <1>2, <1>3, <1>4, <1>5, <1>6, <1>7, <1>8, <1>9, <1>10 DEF MembershipNext

-----------------------------------------------------------------------------
(* The values that the steps write *)

\* A controller that goes on.
LEMMA NextPc ==
    ASSUME ctl \in [Machines -> Controller], NEW m \in Machines,
           NEW pc \in {"member", "sync", "publish"}, ctl' = [ctl EXCEPT ![m].pc = pc]
    PROVE  /\ ctl' \in [Machines -> Controller]
           /\ ctl'[m].pc = pc /\ ctl'[m].cluster = ctl[m].cluster
           /\ \A n \in Machines \ {m} : ctl'[n] = ctl[n]
  <1> DEFINE x == ctl[m]
             y == [x EXCEPT !.pc = pc]
  <1>1. x \in Controller /\ ctl' = [ctl EXCEPT ![m] = y]
    OBVIOUS
  <1>2. y \in Controller /\ y.pc = pc /\ y.cluster = x.cluster
    <2> HIDE DEF x
    <2> QED BY <1>1 DEF Controller
  <1> HIDE DEF y
  <1> QED BY <1>1, <1>2

\* One that begins, with the cluster of its machine ...
LEMMA BeginEffect ==
    ASSUME IInv, NEW m \in Machines, ReconcileStart(m)
    PROVE  /\ ctl' \in [Machines -> Controller]
           /\ \A n \in Machines \ {m} : ctl'[n] = ctl[n]
           /\ \/ ctl'[m] = ctl[m]
              \/ ctl'[m].pc = "cluster" /\ ctl'[m].cluster \in Clusters /\ "controlplane" \in Roles
  <1> DEFINE x == ctl[m]
             c == place[m].cluster
             y == [x EXCEPT !.pc = "cluster", !.cluster = c]
  <1> ctl \in [Machines -> Controller] /\ x \in Controller
    BY DEF IInv, EtcdTypeOK
  <1>1. CASE IsControlPlane(m)
    <2>1. c \in Clusters /\ "controlplane" \in Roles
      BY <1>1 DEF IInv, PlaceIsWhole, IsControlPlane, Configured
    <2>2. ctl' = [ctl EXCEPT ![m] = y]
      BY <1>1 DEF ReconcileStart
    <2>3. y \in Controller /\ y.pc = "cluster" /\ y.cluster = c
      <3> HIDE DEF x, c
      <3> QED BY <2>1 DEF Controller
    <2> HIDE DEF y
    <2> QED BY <2>1, <2>2, <2>3
  <1>2. CASE ~IsControlPlane(m)
    BY <1>2 DEF ReconcileStart
  <1> QED BY <1>1, <1>2

\* ... and one that reads its ClusterStatus, or gives up.
LEMMA ClusterEffect ==
    ASSUME IInv, NEW m \in Machines, ReconcileCluster(m)
    PROVE  /\ ctl' \in [Machines -> Controller]
           /\ \A n \in Machines \ {m} : ctl'[n] = ctl[n]
           /\ \/ ctl'[m] = Waiting
              \/ ctl'[m].pc = "member" /\ ctl'[m].cluster = ctl[m].cluster /\ UNCHANGED service
           /\ \A n \in Machines : service'[n] = service[n] \/ service'[n] = Stopped
           /\ service' \in [Machines -> Service]
  <1> DEFINE x == ctl[m]
             c == ctl[m].cluster
             y == [x EXCEPT !.pc = "member", !.denied = deny[c]]
  <1> /\ ctl \in [Machines -> Controller] /\ x \in Controller
      /\ service \in [Machines -> Service] /\ Stopped \in Service /\ Waiting \in Controller
    BY DEF IInv, EtcdTypeOK, Stopped, Service, Waiting, Controller
  <1>1. CASE status[c].phase # "absent" /\ status[c].bootstrapped
    <2>1. ctl' = [ctl EXCEPT ![m] = y] /\ UNCHANGED service
      BY <1>1 DEF ReconcileCluster
    <2>2. deny[c] \in SUBSET MemberIds
      BY DEF IInv, EtcdTypeOK, ReconcileKnows, ReconcileCluster
    <2>3. y \in Controller /\ y.pc = "member" /\ y.cluster = x.cluster
      <3> HIDE DEF x, c
      <3> QED BY <2>2 DEF Controller
    <2> HIDE DEF y
    <2> QED BY <2>1, <2>3
  <1>2. CASE ~(status[c].phase # "absent" /\ status[c].bootstrapped)
    BY <1>2 DEF ReconcileCluster
  <1> QED BY <1>1, <1>2

-----------------------------------------------------------------------------
(* The steps *)

\* A step of the membership calls.
LEMMA MembershipKeeps ==
    ASSUME IInv, MembershipStep
    PROVE  IInv'
  <1>1. MembershipInv'
    BY MembershipStepInv DEF MembershipStep, MembershipInv, IInv, EtcdTypeOK
  <1>2. deny' \in [Clusters -> SUBSET MemberIds] /\ pending' \in [Machines -> BOOLEAN]
    BY DEF MembershipStep, IInv, EtcdTypeOK
  <1>3. UNCHANGED <<member, published, service, ctl, ecall, failures, lost>>
    BY DEF MembershipStep
  <1> QED BY <1>1, <1>2, <1>3 DEF MembershipInv, IInv, EtcdTypeOK, ReconcileKnows, DenyKnows, PublishedIsLocal

\* A step of the EtcdController.
LEMMA ReconcileKeeps ==
    ASSUME IInv, NEW m \in Machines, Reconcile(m)
    PROVE  IInv'
  <1> USE DEF IInv, EtcdTypeOK, membershipVars
  <1>1. CASE ReconcileStart(m)
    <2>1. UNCHANGED <<membershipVars, member, published, deny, service, ecall, failures, lost>>
          /\ pending' \in [Machines -> BOOLEAN]
      BY <1>1 DEF ReconcileStart
    <2>2. EtcdTypeOK'
      BY <1>1, <2>1, BeginEffect DEF MembershipTypeOK
    <2>3. ReconcileKnows'
      BY <1>1, <2>1, BeginEffect DEF ReconcileKnows
    <2> QED BY <2>1, <2>2, <2>3 DEF PlaceIsWhole, DenyKnows, PublishedIsLocal
  <1>2. CASE ReconcileCluster(m)
    <2>1. UNCHANGED <<membershipVars, member, published, deny, pending, ecall, failures, lost>>
      BY <1>2 DEF ReconcileCluster
    <2>2. EtcdTypeOK'
      BY <1>2, <2>1, ClusterEffect DEF MembershipTypeOK
    <2>3. ReconcileKnows'
      BY <1>2, <2>1, ClusterEffect DEF ReconcileKnows, ReconcileCluster, Waiting
    <2>4. PublishedIsLocal'
      BY <1>2, <2>1, ClusterEffect DEF PublishedIsLocal, Stopped
    <2> QED BY <2>1, <2>2, <2>3, <2>4 DEF PlaceIsWhole, DenyKnows
  <1>3. CASE ReconcileMember(m)
    <2>1. UNCHANGED <<membershipVars, published, deny, service, pending, ecall, failures, lost>>
      BY <1>3 DEF ReconcileMember
    <2>2. /\ ctl' \in [Machines -> Controller]
          /\ ctl'[m].pc = "sync" /\ ctl'[m].cluster = ctl[m].cluster
          /\ \A n \in Machines \ {m} : ctl'[n] = ctl[n]
      BY <1>3, NextPc DEF ReconcileMember
    <2>3. /\ member' \in [Machines -> MemberIds \union {NoMember}] /\ member'[m] # NoMember
          /\ \A n \in Machines : member[n] # NoMember => member'[n] = member[n]
          /\ \A n \in Machines \ {m} : member'[n] = member[n]
      BY <1>3, MemberAssumption DEF ReconcileMember
    <2>4. EtcdTypeOK'
      BY <2>1, <2>2, <2>3 DEF MembershipTypeOK
    <2>5. ReconcileKnows'
      BY <1>3, <2>1, <2>2, <2>3 DEF ReconcileKnows, ReconcileMember
    <2>6. PublishedIsLocal'
      BY <2>1, <2>3 DEF PublishedIsLocal
    <2> QED BY <2>1, <2>4, <2>5, <2>6 DEF PlaceIsWhole, DenyKnows
  <1>4. CASE ReconcileSync(m)
    <2>1. UNCHANGED <<place, status, member, deny, service, pending, ecall, failures, lost>>
      BY <1>4 DEF ReconcileSync
    <2>2. /\ ctl' \in [Machines -> Controller]
          /\ ctl'[m].pc = "publish" /\ ctl'[m].cluster = ctl[m].cluster
          /\ \A n \in Machines \ {m} : ctl'[n] = ctl[n]
      BY <1>4, NextPc DEF ReconcileSync
    <2>3. ctl[m].pc = "sync" /\ published' = [published EXCEPT ![m] = member[m]] /\ member[m] # NoMember
      BY <1>4 DEF ReconcileSync, ReconcileKnows
    <2>4. label' \in [Machines -> [cluster : Clusters \union {NoCluster}, roles : SUBSET Roles]]
      <3>1. ctl[m].cluster \in Clusters /\ "controlplane" \in Roles
        BY <2>3 DEF ReconcileKnows
      <3> QED BY <1>4, <3>1 DEF ReconcileSync, MembershipTypeOK
    <2>5. EtcdTypeOK'
      BY <2>1, <2>2, <2>3, <2>4 DEF MembershipTypeOK
    <2>6. ReconcileKnows'
      BY <2>1, <2>2, <2>3 DEF ReconcileKnows
    <2>7. PublishedIsLocal'
      BY <2>1, <2>3 DEF PublishedIsLocal
    <2> QED BY <2>1, <2>5, <2>6, <2>7 DEF PlaceIsWhole, DenyKnows
  <1>5. CASE ReconcilePublish(m)
    <2>1. UNCHANGED <<membershipVars, member, published, deny, pending, ecall, failures, lost>>
      BY <1>5 DEF ReconcilePublish
    <2>2. ctl' = [ctl EXCEPT ![m] = Waiting] /\ Waiting \in Controller /\ ctl[m].pc = "publish"
      BY <1>5 DEF ReconcilePublish, Waiting, Controller
    <2>3. /\ service' \in [Machines -> Service]
          /\ \A n \in Machines \ {m} : service'[n] = service[n]
      BY <1>5 DEF ReconcilePublish, Service
    <2>4. EtcdTypeOK'
      BY <2>1, <2>2, <2>3 DEF MembershipTypeOK
    <2>5. ReconcileKnows'
      BY <2>1, <2>2 DEF ReconcileKnows, Waiting
    <2>6. PublishedIsLocal'
      BY <2>1, <2>2, <2>3 DEF PublishedIsLocal, ReconcileKnows
    <2> QED BY <2>1, <2>4, <2>5, <2>6 DEF PlaceIsWhole, DenyKnows
  <1> QED BY <1>1, <1>2, <1>3, <1>4, <1>5 DEF Reconcile

\* A failure or a restart.
LEMMA FailureKeeps ==
    ASSUME IInv,
           \/ \E m \in Machines : ReconcileFails(m) \/ ReconcilePublishFails(m)
           \/ EmulatorRestart
    PROVE  IInv'
  <1> USE DEF IInv, EtcdTypeOK, membershipVars
  <1>1. Waiting \in Controller /\ NoEtcdCall \in EtcdCall
    BY DEF Waiting, Controller, NoEtcdCall, EtcdCall
  <1>2. failures < MaxFailures => failures + 1 \in 0 .. MaxFailures
    BY FailureAssumption
  <1>3. ASSUME NEW m \in Machines, ReconcileFails(m) PROVE IInv'
    <2>1. /\ UNCHANGED <<membershipVars, member, published, deny, ecall, lost>>
          /\ ctl' = [ctl EXCEPT ![m] = Waiting] /\ pending' \in [Machines -> BOOLEAN]
          /\ failures' \in 0 .. MaxFailures
      BY <1>2, <1>3 DEF ReconcileFails
    <2>2. /\ service' \in [Machines -> Service] /\ ~service'[m].healthy
          /\ \A n \in Machines \ {m} : service'[n] = service[n]
      BY <1>3 DEF ReconcileFails, Service
    <2>3. EtcdTypeOK'
      BY <1>1, <2>1, <2>2 DEF MembershipTypeOK
    <2>4. ReconcileKnows' /\ PublishedIsLocal'
      BY <2>1, <2>2 DEF ReconcileKnows, PublishedIsLocal, Waiting
    <2> QED BY <2>1, <2>3, <2>4 DEF PlaceIsWhole, DenyKnows
  <1>4. ASSUME NEW m \in Machines, ReconcilePublishFails(m) PROVE IInv'
    <2>1. /\ UNCHANGED <<membershipVars, member, published, deny, service, pending, ecall>>
          /\ ctl' = [ctl EXCEPT ![m] = Waiting] /\ lost' \in BOOLEAN
          /\ failures' \in 0 .. MaxFailures
      BY <1>2, <1>4 DEF ReconcilePublishFails
    <2>2. EtcdTypeOK'
      BY <1>1, <2>1 DEF MembershipTypeOK
    <2>3. ReconcileKnows'
      BY <2>1 DEF ReconcileKnows, Waiting
    <2> QED BY <2>1, <2>2, <2>3 DEF PlaceIsWhole, DenyKnows, PublishedIsLocal
  <1>5. CASE EmulatorRestart
    <2>1. /\ UNCHANGED <<membershipVars, member, published, deny, service, lost>>
          /\ ctl' = [m \in Machines |-> Waiting] /\ ecall' = [k \in Callers |-> NoEtcdCall]
          /\ pending' \in [Machines -> BOOLEAN] /\ failures' \in 0 .. MaxFailures
      BY <1>2, <1>5 DEF EmulatorRestart
    <2>2. EtcdTypeOK'
      BY <1>1, <2>1 DEF MembershipTypeOK
    <2>3. ReconcileKnows' /\ DenyKnows'
      BY <2>1 DEF ReconcileKnows, DenyKnows, Waiting
    <2> QED BY <2>1, <2>2, <2>3 DEF PlaceIsWhole, PublishedIsLocal
  <1> QED BY <1>3, <1>4, <1>5

\* A call of a client, and what it does.
LEMMA CallKeeps ==
    ASSUME IInv, NEW k \in Callers,
           \/ \E m \in Machines : LeaveStart(k, m) \/ \E id \in MemberIds : RemoveStart(k, m, id)
           \/ Deny(k)
    PROVE  IInv'
  <1> USE DEF IInv, EtcdTypeOK, membershipVars
  <1>1. ASSUME NEW m \in Machines, NEW id \in MemberIds, RemoveStart(k, m, id) PROVE IInv'
    <2>1. UNCHANGED <<membershipVars, member, published, deny, service, pending, ctl, failures, lost>>
      BY <1>1 DEF RemoveStart
    <2>2. place[m].cluster \in Clusters
      BY <1>1 DEF RemoveStart, IsControlPlane, Configured, PlaceIsWhole
    <2>3. ecall' = [ecall EXCEPT ![k] = [cluster |-> place[m].cluster, id |-> id]]
      BY <1>1 DEF RemoveStart
    <2>4. EtcdTypeOK'
      BY <2>1, <2>2, <2>3 DEF EtcdCall, MembershipTypeOK
    <2>5. DenyKnows'
      BY <2>2, <2>3 DEF DenyKnows
    <2> QED BY <2>1, <2>4, <2>5 DEF PlaceIsWhole, ReconcileKnows, PublishedIsLocal
  <1>2. ASSUME NEW m \in Machines, LeaveStart(k, m) PROVE IInv'
    BY <1>1, <1>2 DEF LeaveStart
  <1>3. CASE Deny(k)
    <2>1. /\ UNCHANGED <<membershipVars, member, published, service, ctl, failures, lost>>
          /\ ecall' = [ecall EXCEPT ![k] = NoEtcdCall] /\ pending' \in [Machines -> BOOLEAN]
      BY <1>3 DEF Deny
    <2>2. deny' \in [Clusters -> SUBSET MemberIds]
      BY <1>3 DEF Deny, DenyKnows
    <2>3. EtcdTypeOK'
      BY <2>1, <2>2 DEF EtcdCall, NoEtcdCall, MembershipTypeOK
    <2>4. DenyKnows'
      BY <2>1 DEF DenyKnows
    <2> QED BY <2>1, <2>3, <2>4 DEF PlaceIsWhole, ReconcileKnows, PublishedIsLocal
  <1> QED BY <1>1, <1>2, <1>3

-----------------------------------------------------------------------------
(* The theorems *)

LEMMA InitIInv ==
    ASSUME EtcdInit
    PROVE  IInv
  <1> USE DEF EtcdInit, MembershipInit
  <1>1. MembershipTypeOK /\ PlaceIsWhole
    BY DEF MembershipTypeOK, PlaceIsWhole, Outside, Down, NoLabel, Stages
  <1>2. EtcdTypeOK
    <2>1. Stopped \in Service /\ Waiting \in Controller /\ NoEtcdCall \in EtcdCall
      BY DEF Stopped, Service, Waiting, Controller, NoEtcdCall, EtcdCall
    <2>2. 0 \in 0 .. MaxFailures
      BY FailureAssumption
    <2> QED BY <1>1, <2>1, <2>2 DEF EtcdTypeOK
  <1>3. ReconcileKnows /\ DenyKnows /\ PublishedIsLocal
    BY DEF ReconcileKnows, DenyKnows, PublishedIsLocal, Waiting, Stopped
  <1> QED BY <1>1, <1>2, <1>3 DEF IInv

LEMMA NextIInv ==
    ASSUME IInv, [Next]_vars
    PROVE  IInv'
  <1>1. CASE Next
    BY <1>1, MembershipKeeps, ReconcileKeeps, FailureKeeps, CallKeeps DEF Next
  <1>2. CASE UNCHANGED vars
    BY <1>2 DEF vars, IInv, EtcdTypeOK, MembershipTypeOK, PlaceIsWhole, ReconcileKnows, DenyKnows,
       PublishedIsLocal
  <1> QED BY <1>1, <1>2

\* The inductive invariant holds in every state.
THEOREM IInvCorrect == InitNext => []IInv
  BY InitIInv, NextIInv, PTL DEF InitNext

\* Type correctness: every variable keeps to the values it is declared with.
THEOREM TypeCorrect == Spec => []EtcdTypeOK
  <1>1. IInv => EtcdTypeOK
    BY DEF IInv
  <1> QED BY <1>1, IInvCorrect, PTL DEF Spec

\* The member a machine has published is the one it has, and etcd is reported healthy only
\* after that, whatever operations of the reconcile fail and whenever the emulator restarts.
THEOREM PublishedCorrect == Spec => []PublishedIsLocal
  <1>1. IInv => PublishedIsLocal
    BY DEF IInv
  <1> QED BY <1>1, IInvCorrect, PTL DEF Spec

=============================================================================
