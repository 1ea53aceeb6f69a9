-------------------------- MODULE ClusterMembership --------------------------
(***************************************************************************)
(* What the membership calls promise the rest of the emulator when clients *)
(* serialise joins against resets: a machine takes a place in a cluster    *)
(* and gives it up in a fixed order of stages, or drops out when its reset *)
(* is cut short, and a cluster is torn down only while nobody has a place. *)
(*                                                                         *)
(* ClusterAccounting implements this specification; EtcdMembership builds  *)
(* on it.                                                                  *)
(***************************************************************************)
EXTENDS Naturals, FiniteSets

CONSTANTS
    Machines,     \* the emulated machines
    Clusters,     \* cluster IDs found in machine configs
    NoCluster,    \* "no cluster"
    Roles         \* the roles a machine may have in a cluster

ASSUME NoClusterAssumption == NoCluster \notin Clusters
ASSUME RolesAssumption == Roles \subseteq {"controlplane", "worker"}

VARIABLES
    place,    \* machine -> its place: stage, role and cluster
    status,   \* cluster ID -> its ClusterStatus
    label     \* machine -> the labels of its MachineStatus

membershipVars == <<place, status, label>>

\* joined: the config is there; counted: the cluster counts the machine; in: its
\* labels are set; leaving: the config is gone; left: it is no longer counted.
Stages == {"out", "joined", "counted", "in", "leaving", "left"}

Outside == [stage |-> "out", role |-> "none", cluster |-> NoCluster]
NoLabel == [cluster |-> NoCluster, roles |-> {}]
Down == [phase |-> "absent", bootstrapped |-> FALSE]

MembershipTypeOK ==
    /\ place \in [Machines -> [stage : Stages, role : Roles \union {"none"},
                               cluster : Clusters \union {NoCluster}]]
    /\ status \in [Clusters -> [phase : {"absent", "running", "tearingDown"},
                                bootstrapped : BOOLEAN]]
    /\ label \in [Machines -> [cluster : Clusters \union {NoCluster}, roles : SUBSET Roles]]

MembershipInit ==
    /\ place = [m \in Machines |-> Outside]
    /\ status = [c \in Clusters |-> Down]
    /\ label = [m \in Machines |-> NoLabel]

\* Machine m has a complete config of a cluster.
Configured(m) == place[m].stage \in {"joined", "counted", "in"}

\* Machine m is a reason for cluster c to exist.
Holds(m, c) == place[m].cluster = c /\ place[m].stage \in Stages \ {"out", "left"}

Advance(m, from, to) ==
    /\ place[m].stage = from
    /\ place' = [place EXCEPT ![m].stage = to]

-----------------------------------------------------------------------------
(* ApplyConfiguration *)

Join(m, c, role) ==
    /\ place[m].stage = "out"
    /\ status[c].phase # "tearingDown"
    /\ place' = [place EXCEPT ![m] = [stage |-> "joined", role |-> role, cluster |-> c]]
    /\ UNCHANGED <<status, label>>

Open(c) ==
    /\ status[c].phase = "absent"
    /\ \E m \in Machines : place[m].cluster = c /\ place[m].stage = "joined"
    /\ status' = [status EXCEPT ![c] = [phase |-> "running", bootstrapped |-> FALSE]]
    /\ UNCHANGED <<place, label>>

Count(m) ==
    /\ Advance(m, "joined", "counted")
    /\ status[place[m].cluster].phase = "running"
    /\ UNCHANGED <<status, label>>

Enroll(m) ==
    /\ Advance(m, "counted", "in")
    /\ label' = [label EXCEPT ![m] = [cluster |-> place[m].cluster,
                                      roles |-> @.roles \union {place[m].role}]]
    /\ UNCHANGED status

-----------------------------------------------------------------------------
(* Bootstrap *)

Bootstrap(c) ==
    /\ status[c].phase = "running"
    /\ status' = [status EXCEPT ![c].bootstrapped = TRUE]
    /\ UNCHANGED <<place, label>>

-----------------------------------------------------------------------------
(* Reset, and the cleanup of a cluster that nobody holds any more *)

Withdraw(m) == Advance(m, "in", "leaving") /\ UNCHANGED <<status, label>>

Discount(m) == Advance(m, "leaving", "left") /\ UNCHANGED <<status, label>>

Unlabel(m) ==
    /\ place[m].stage = "left"
    /\ place' = [place EXCEPT ![m] = Outside]
    /\ label' = [label EXCEPT ![m] = NoLabel]
    /\ UNCHANGED status

\* A Reset is cut short once the config is gone: the machine is out and keeps its labels.
Abandon(m) ==
    /\ place[m].stage \in {"leaving", "left"}
    /\ place' = [place EXCEPT ![m] = Outside]
    /\ UNCHANGED <<status, label>>

Dispose(c) ==
    /\ status[c].phase = "running"
    /\ \A m \in Machines : ~Holds(m, c)
    /\ status' = [status EXCEPT ![c].phase = "tearingDown"]
    /\ UNCHANGED <<place, label>>

Cleanup(c) ==
    /\ status[c].phase = "tearingDown"
    /\ status' = [status EXCEPT ![c] = Down]
    /\ UNCHANGED <<place, label>>

-----------------------------------------------------------------------------

MembershipNext ==
    \/ \E m \in Machines :
          \/ \E c \in Clusters, role \in Roles : Join(m, c, role)
          \/ Count(m) \/ Enroll(m) \/ Withdraw(m) \/ Discount(m)
          \/ Unlabel(m) \/ Abandon(m)
    \/ \E c \in Clusters : Open(c) \/ Bootstrap(c) \/ Dispose(c) \/ Cleanup(c)

MembershipSpec == MembershipInit /\ [][MembershipNext]_membershipVars
=============================================================================
