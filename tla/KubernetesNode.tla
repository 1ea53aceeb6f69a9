--------------------------- MODULE KubernetesNode ---------------------------
(***************************************************************************)
(* One machine as a node of a Kubernetes cluster: from its machine config  *)
(* to the API server it runs, the Node and the static pods it registers,   *)
(* and back to nothing when it is reset.                                   *)
(*                                                                         *)
(* Some controllers only translate their inputs: into the MachineType, the *)
(* secrets, the rendered certificates, the kubeconfig of the cluster, and  *)
(* the API server that KubernetesController starts and stops.              *)
(* They are enabled exactly while their output is not what the inputs say. *)
(*                                                                         *)
(* KubernetesNodeController and StaticPodController work through calls     *)
(* of the Kubernetes API on what they read at the beginning.  Each keeps a *)
(* finalizer on the config, and removes its objects before the finalizer.  *)
(*                                                                         *)
(* The Nodename is told apart by its version, and names the Node.          *)
(***************************************************************************)
EXTENDS Naturals, FiniteSets

CONSTANTS
    PodKinds,         \* the static pods of a control plane, rendered from 1 to PodKinds
    MaxJoins,         \* bound on the number of configs created on the machine
    MaxNames,         \* bound on the number of Nodenames
    MaxDisturbances   \* bound on the updates, lost addresses and failing API calls

ASSUME BoundAssumption ==
    /\ PodKinds \in Nat \ {0}
    /\ MaxJoins \in Nat /\ MaxNames \in Nat /\ MaxDisturbances \in Nat

VARIABLES
    config,       \* the complete MachineConfig
    status,       \* ClusterStatus of the config's cluster: absent, without or with a kubeconfig
    nodename,     \* version of the Nodename, 0 before there is one
    mtype,        \* MachineType
    secrets,      \* the cluster whose secrets the machine has (KubernetesRoot, Kubernetes)
    certs,        \* the cluster whose CertSAN and KubernetesDynamicCerts it has
    files,        \* the cluster whose certificates are in certsDir
    ready,        \* is there a SecretsStatus?
    address,      \* is there an AddressStatus of the SideroLink link?
    server,       \* the cluster whose data the API server serves; the kubelet service
    nodes,        \* cluster -> the Nodes of this machine, by name
    pods,         \* cluster -> the static pods of this machine, by kind and Node
    nodeRound,    \* KubernetesNodeController: step and what the round has read
    podRound,     \* StaticPodController: likewise
    events,       \* the controllers of the two with an event pending
    joins, disturbances,
    unseen,       \* history: the last round of the node found no ClusterStatus
    excused,      \* history: the objects that may stay behind, and see Loose
    unswept       \* history: pods created without a removal of those of former Nodenames

configVars == <<config, joins>>
certVars == <<mtype, secrets, certs, files, ready>>
apiVars == <<nodes, pods>>
historyVars == <<unseen, excused, unswept>>
vars == <<config, status, nodename, mtype, secrets, certs, files, ready, address, server, nodes,
          pods, nodeRound, podRound, events, joins, disturbances, unseen, excused, unswept>>

-----------------------------------------------------------------------------

\* The clusters are numbered in the order in which the machine joins them.
Clusters == 1 .. MaxJoins
None == 0
AnyCluster == Clusters \union {None}

Keepers == {"node", "pods"}
Kinds == 1 .. PodKinds
Names == 1 .. MaxNames
Roles == {"controlplane", "worker"}

NoConfig == [stage |-> "none", cluster |-> None, role |-> "none", fin |-> {}]
Config == [stage : {"running", "tearingDown"}, cluster : Clusters, role : Roles,
           fin : SUBSET Keepers]

\* What a round goes by: the Nodename, and the cluster of its client, which is the
\* machine's own API server or the one of the cluster's kubeconfig.
Round == [pc : {"hold", "write", "remove"}, name : Names, cluster : Clusters,
          local : BOOLEAN, kind : Kinds]
Idle == [pc |-> "idle"]

KubernetesTypeOK ==
    /\ config \in Config \union {NoConfig}
    /\ status \in {"absent", "opened", "ready"}
    /\ nodename \in 0 .. MaxNames
    /\ mtype \in Roles \union {"none"}
    /\ {secrets, certs, files, server} \subseteq AnyCluster
    /\ ready \in BOOLEAN /\ address \in BOOLEAN
    /\ nodes \in [Clusters -> SUBSET Names]
    /\ pods \in [Clusters -> SUBSET (Kinds \X Names)]
    /\ nodeRound \in Round \union {Idle} /\ podRound \in Round \union {Idle}
    /\ events \subseteq Keepers
    /\ joins \in 0 .. MaxJoins /\ disturbances \in 0 .. MaxDisturbances
    /\ unseen \in BOOLEAN /\ excused \subseteq Keepers /\ unswept \subseteq Kinds \X Names

Init ==
    /\ config = NoConfig
    /\ status = "absent"
    /\ nodename = 0 /\ mtype = "none"
    /\ secrets = None /\ certs = None /\ files = None /\ ready = FALSE
    /\ address = TRUE /\ server = None
    /\ nodes = [c \in Clusters |-> {}]
    /\ pods = [c \in Clusters |-> {}]
    /\ nodeRound = Idle /\ podRound = Idle
    /\ events = {}
    /\ joins = 0 /\ disturbances = 0
    /\ unseen = FALSE /\ excused = {} /\ unswept = {}

Wake(ks) == events' = events \union ks

Disturb ==
    /\ disturbances < MaxDisturbances
    /\ disturbances' = disturbances + 1

-----------------------------------------------------------------------------
(* The config: ApplyConfiguration and Reset *)

\* A machine is configured again when its controllers have noticed that the last config
\* is gone, or when nothing changes for them, and when what a Reset may leave behind has
\* been cleaned up.
MayJoin(c, r) ==
    /\ nodeRound = Idle /\ podRound = Idle /\ excused = {}
    /\ {secrets, certs, files, server} \subseteq
          (IF r = "controlplane" THEN {c, None} ELSE {None})

Join(c, r) ==
    /\ config = NoConfig /\ joins < MaxJoins /\ c <= joins + 1 /\ MayJoin(c, r)
    /\ config' = [stage |-> "running", cluster |-> c, role |-> r, fin |-> {}]
    /\ joins' = joins + 1
    /\ Wake(Keepers)
    /\ UNCHANGED <<status, nodename, certVars, address, server, apiVars, nodeRound, podRound,
                   disturbances, historyVars>>

\* An update of the stored config: the resource is a new one, without finalizers.
Update ==
    /\ config.stage = "running" /\ Disturb
    /\ config' = [config EXCEPT !.fin = {}]
    /\ Wake(Keepers)
    /\ UNCHANGED <<status, nodename, certVars, address, server, apiVars, nodeRound, podRound,
                   joins, historyVars>>

\* The ClusterStatus is created after the config, unless another machine did it before:
\* that is no different from creating it before any controller has looked.
Open ==
    /\ config # NoConfig /\ status = "absent"
    /\ status' = "opened"
    /\ UNCHANGED <<configVars, nodename, certVars, address, server, apiVars, nodeRound, podRound,
                   events, disturbances, historyVars>>

\* KubeconfigController of another control plane of the cluster.
PublishElsewhere ==
    /\ status = "opened"
    /\ status' = "ready"
    /\ UNCHANGED <<configVars, nodename, certVars, address, server, apiVars, nodeRound, podRound,
                   events, disturbances, historyVars>>

\* The objects nobody holds the config for: an Update has taken the finalizer away and it
\* is not back yet, or the Node is not the one the Nodename will lead to.
Loose ==
    LET c == config.cluster
    IN  {k \in Keepers \ config.fin :
            \/ k = "node" /\ (nodes[c] # {} \/ nodeRound.pc = "write")
            \/ k = "pods" /\ (pods[c] # {} \/ podRound.pc = "write")}
        \union
        {k \in {"node"} : \/ ~(nodes[c] \subseteq {nodename})
                          \/ nodeRound # Idle /\ nodeRound.name # nodename}

\* destroyResourceByID of Reset: Teardown ...
Teardown ==
    /\ config.stage = "running"
    /\ config' = [config EXCEPT !.stage = "tearingDown"]
    /\ excused' = excused \union Loose
    /\ Wake(Keepers)
    /\ UNCHANGED <<status, nodename, certVars, address, server, apiVars, nodeRound, podRound,
                   joins, disturbances, unseen, unswept>>

Gone(k) == IF k = "node" THEN nodeRound = Idle /\ \A c \in Clusters : nodes[c] = {}
                      ELSE podRound = Idle /\ \A c \in Clusters : pods[c] = {}

\* ... and Destroy, once nobody holds the config.
Destroy ==
    /\ config.stage = "tearingDown" /\ config.fin = {}
    /\ excused' = excused \ {k \in Keepers : Gone(k)}
    /\ config' = NoConfig /\ status' = "absent" /\ unseen' = FALSE
    /\ Wake(Keepers)
    /\ UNCHANGED <<nodename, certVars, address, server, apiVars, nodeRound, podRound,
                   joins, disturbances, unswept>>

-----------------------------------------------------------------------------
(* The controllers that translate *)

\* NodenameController: from the config and a hostname, and again when the hostname changes.
Nodename ==
    /\ config # NoConfig /\ nodename < MaxNames
    /\ nodename' = nodename + 1
    /\ excused' = IF config.stage = "tearingDown" /\ nodename # 0
                  THEN excused \union {"node"} ELSE excused
    /\ Wake(Keepers)
    /\ UNCHANGED <<configVars, status, certVars, address, server, apiVars, nodeRound, podRound,
                   disturbances, unseen, unswept>>

TypeOfMachine == config.role

SetMachineType ==
    /\ mtype # TypeOfMachine
    /\ mtype' = TypeOfMachine
    /\ UNCHANGED <<configVars, status, nodename, secrets, certs, files, ready, address, server, apiVars,
                   nodeRound, podRound, events, disturbances, historyVars>>

\* Only control planes have the secrets; a config that is torn down still counts.
SecretsOfConfig == IF config.role = "controlplane" THEN config.cluster ELSE None

IssueSecrets ==
    /\ secrets # SecretsOfConfig
    /\ secrets' = SecretsOfConfig
    /\ Wake(Keepers)
    /\ UNCHANGED <<configVars, status, nodename, mtype, certs, files, ready, address, server, apiVars,
                   nodeRound, podRound, disturbances, historyVars>>

\* The CertSAN goes with the root secrets, and the certificates with the CertSAN.
CertsOfConfig == SecretsOfConfig

\* The certificates of the API server: signed by the CA of the secrets, for the hostname
\* and the addresses of the machine.
IssueCerts ==
    /\ certs # CertsOfConfig
    /\ certs' = CertsOfConfig
    /\ UNCHANGED <<configVars, status, nodename, mtype, secrets, files, ready, address, server, apiVars,
                   nodeRound, podRound, events, disturbances, historyVars>>

\* certsDir is wiped without a control plane's config, and left alone without secrets or
\* certificates.
FilesOfConfig ==
    IF config.role # "controlplane" THEN None ELSE IF None \in {secrets, certs} THEN files ELSE certs

RenderSecrets ==
    /\ files # FilesOfConfig
    /\ files' = FilesOfConfig
    /\ ready' = (ready \/ files' # None)
    /\ UNCHANGED <<configVars, status, nodename, mtype, secrets, certs, address, server, apiVars,
                   nodeRound, podRound, events, disturbances, historyVars>>

\* KubeconfigController of this machine.
PublishKubeconfig ==
    /\ config # NoConfig /\ secrets # None /\ status = "opened"
    /\ status' = "ready"
    /\ UNCHANGED <<configVars, nodename, certVars, address, server, apiVars, nodeRound, podRound,
                   events, disturbances, historyVars>>

\* KubernetesController keeps a server for as long as there is reason for one; the cluster
\* is that of the config it was started with.
WantServer == ready /\ address /\ config # NoConfig /\ mtype = "controlplane"

\* Variant at fault: StaticPodController does not watch the kubelet service.
ServeUnseen ==
    /\ WantServer # (server # None)
    /\ server' = IF WantServer THEN config.cluster ELSE None
    /\ UNCHANGED <<configVars, status, nodename, certVars, address, apiVars, nodeRound, podRound,
                   events, disturbances, historyVars>>

Serve ==
    /\ WantServer # (server # None)
    /\ server' = IF WantServer THEN config.cluster ELSE None
    /\ Wake({"pods"})
    /\ UNCHANGED <<configVars, status, nodename, certVars, address, apiVars, nodeRound, podRound,
                   disturbances, historyVars>>

LoseAddress ==
    /\ address /\ Disturb
    /\ address' = FALSE
    /\ UNCHANGED <<configVars, status, nodename, certVars, server, apiVars, nodeRound, podRound,
                   events, historyVars>>

FindAddress ==
    /\ ~address
    /\ address' = TRUE
    /\ UNCHANGED <<configVars, status, nodename, certVars, server, apiVars, nodeRound, podRound,
                   events, disturbances, historyVars>>

-----------------------------------------------------------------------------
(* The Kubernetes API, and the two controllers that work through it *)

\* A local call is answered while the server runs with the certificates of the client;
\* the other API servers of the cluster are taken to be there.
Reach(r) == r.local => server # None /\ files = r.cluster
Target(r) == IF r.local THEN server ELSE r.cluster

\* Every change of the finalizers is an event of the config.
Hold(k) ==
    /\ config' = [config EXCEPT !.fin = @ \union {k}]
    /\ events' = IF k \in config.fin THEN events ELSE Keepers

Release(k) ==
    /\ config' = [config EXCEPT !.fin = @ \ {k}]
    /\ events' = IF k \in config.fin THEN Keepers ELSE events

Begin(c, local) ==
    [pc |-> IF config.stage = "tearingDown" THEN "remove" ELSE "hold",
     name |-> nodename, cluster |-> c, local |-> local, kind |-> 1]

\* The client is that of the secrets, or else that of the kubeconfig in the ClusterStatus.
\* Without a kubeconfig the round fails, to be tried again; without the ClusterStatus it
\* ends, although nothing will say when there is one.
NodeStart ==
    LET c == config.cluster
        found == config # NoConfig /\ nodename # 0
        none == found /\ secrets = None /\ status = "absent"
    IN  /\ "node" \in events /\ nodeRound = Idle
        /\ found /\ secrets = None => status # "opened"
        /\ events' = events \ {"node"}
        /\ unseen' = (none /\ config.role = "worker")
        /\ nodeRound' = IF ~found \/ none THEN Idle
                        ELSE IF secrets # None THEN Begin(secrets, TRUE) ELSE Begin(c, FALSE)
        /\ UNCHANGED <<configVars, status, nodename, certVars, address, server, apiVars, podRound,
                       disturbances, excused, unswept>>

\* Variant at fault: AddFinalizer takes any config.
NodeHoldAny ==
    /\ nodeRound.pc = "hold"
    /\ Hold("node")
    /\ nodeRound' = [nodeRound EXCEPT !.pc = "write"]
    /\ UNCHANGED <<status, nodename, certVars, address, server, apiVars, podRound, joins,
                   disturbances, historyVars>>

\* AddFinalizer fails on a config that is gone or torn down, and the round is repeated.
NodeHold ==
    /\ nodeRound.pc = "hold"
    /\ IF config.stage = "running"
       THEN Hold("node") /\ nodeRound' = [nodeRound EXCEPT !.pc = "write"]
       ELSE Wake({"node"}) /\ nodeRound' = Idle /\ UNCHANGED config
    /\ UNCHANGED <<status, nodename, certVars, address, server, apiVars, podRound, joins,
                   disturbances, historyVars>>

\* Of a Node, with its status and its labels, the Nodename is told apart.
NodeOfRound == nodeRound.name

\* Variant at fault: Nodes with another Nodename stay.
NodeWriteKeeping ==
    /\ nodeRound.pc = "write" /\ Reach(nodeRound)
    /\ nodes' = [nodes EXCEPT ![Target(nodeRound)] = @ \union {NodeOfRound}]
    /\ nodeRound' = Idle
    /\ UNCHANGED <<configVars, status, nodename, certVars, address, server, pods, podRound,
                   events, disturbances, historyVars>>

\* Create or Update of the Node, and removal of those with another Nodename.
NodeWrite ==
    /\ nodeRound.pc = "write" /\ Reach(nodeRound)
    /\ nodes' = [nodes EXCEPT ![Target(nodeRound)] = {NodeOfRound}]
    /\ nodeRound' = Idle
    /\ UNCHANGED <<configVars, status, nodename, certVars, address, server, pods, podRound,
                   events, disturbances, historyVars>>

\* A call fails, the first or the last of them; the round is repeated.
NodeFails ==
    /\ nodeRound.pc = "write" /\ Reach(nodeRound) /\ Disturb
    /\ \/ UNCHANGED nodes
       \/ nodes' = [nodes EXCEPT ![Target(nodeRound)] = @ \union {NodeOfRound}]
    /\ nodeRound' = Idle
    /\ Wake({"node"})
    /\ UNCHANGED <<configVars, status, nodename, certVars, address, server, pods, podRound,
                   historyVars>>

\* The deletion is tried once, and the config let go of in any case.
NodeRemove ==
    /\ nodeRound.pc = "remove"
    /\ \/ /\ Reach(nodeRound)
          /\ nodes' = [nodes EXCEPT ![Target(nodeRound)] = @ \ {NodeOfRound}]
          /\ UNCHANGED <<excused, disturbances>>
       \/ /\ Reach(nodeRound) /\ Disturb
          /\ excused' = excused \union {"node"}
          /\ UNCHANGED nodes
       \/ /\ ~Reach(nodeRound)
          /\ excused' = excused \union {"node"}
          /\ UNCHANGED <<nodes, disturbances>>
    /\ Release("node")
    /\ nodeRound' = Idle
    /\ UNCHANGED <<status, nodename, certVars, address, server, pods, podRound, joins, unseen,
                   unswept>>

\* A round without an answer fails and is repeated; that is told apart from waiting for
\* one only when there is something new to read.
NodeRetry ==
    /\ nodeRound.pc = "write" /\ ~Reach(nodeRound) /\ "node" \in events
    /\ nodeRound' = Idle
    /\ UNCHANGED <<configVars, status, nodename, certVars, address, server, apiVars, podRound,
                   events, disturbances, historyVars>>

\* The kubelet service is there while the API server is.
PodStart ==
    /\ "pods" \in events /\ podRound = Idle
    /\ events' = events \ {"pods"}
    /\ podRound' = IF config = NoConfig \/ nodename = 0 \/ server = None \/ secrets = None
                   THEN Idle ELSE Begin(secrets, TRUE)
    /\ UNCHANGED <<configVars, status, nodename, certVars, address, server, apiVars, nodeRound,
                   disturbances, historyVars>>

PodHold ==
    /\ podRound.pc = "hold"
    /\ IF config.stage = "running"
       THEN Hold("pods") /\ podRound' = [podRound EXCEPT !.pc = "write"]
       ELSE Wake({"pods"}) /\ podRound' = Idle /\ UNCHANGED config
    /\ UNCHANGED <<status, nodename, certVars, address, server, apiVars, nodeRound, joins,
                   disturbances, historyVars>>

\* Of a pod, the component it is rendered for and the Nodename.
PodOfRound == <<podRound.kind, podRound.name>>

\* A pod that exists is updated; after the creation of one all the pods of the machine
\* with another Nodename are removed.
PodWrite ==
    /\ podRound.pc = "write" /\ Reach(podRound)
    /\ LET c == Target(podRound)
       IN  \/ PodOfRound \in pods[c] /\ UNCHANGED <<pods, unswept>>
           \/ /\ PodOfRound \notin pods[c]
              /\ pods' = [pods EXCEPT ![c] = {p \in @ : p[2] = podRound.name} \union {PodOfRound}]
              /\ unswept' = {}
    /\ podRound' = IF podRound.kind = PodKinds THEN Idle
                   ELSE [podRound EXCEPT !.kind = @ + 1]
    /\ UNCHANGED <<configVars, status, nodename, certVars, address, server, nodes, nodeRound,
                   events, disturbances, unseen, excused>>

\* A call fails, the creation or the removal after it; the round is repeated, and finds the
\* pod, if that was created.
PodFails ==
    /\ podRound.pc \in {"write", "remove"} /\ Reach(podRound) /\ Disturb
    /\ \/ UNCHANGED <<pods, unswept>>
       \/ /\ podRound.pc = "write" /\ PodOfRound \notin pods[Target(podRound)]
          /\ pods' = [pods EXCEPT ![Target(podRound)] = @ \union {PodOfRound}]
          /\ unswept' = unswept \union {PodOfRound}
    /\ podRound' = Idle
    /\ Wake({"pods"})
    /\ UNCHANGED <<configVars, status, nodename, certVars, address, server, nodes, nodeRound,
                   unseen, excused>>

\* Variant at fault: the removal of the pods is tried once, like that of the Node.
PodRemoveOnce ==
    /\ podRound.pc = "remove"
    /\ pods' = IF Reach(podRound) THEN [pods EXCEPT ![Target(podRound)] = {}] ELSE pods
    /\ Release("pods")
    /\ podRound' = Idle
    /\ UNCHANGED <<status, nodename, certVars, address, server, nodes, nodeRound, joins,
                   disturbances, historyVars>>

\* All the pods of the machine go before the finalizer does.
PodRemove ==
    /\ podRound.pc = "remove" /\ Reach(podRound)
    /\ pods' = [pods EXCEPT ![Target(podRound)] = {}] /\ unswept' = {}
    /\ Release("pods")
    /\ podRound' = Idle
    /\ UNCHANGED <<status, nodename, certVars, address, server, nodes, nodeRound, joins,
                   disturbances, unseen, excused>>

PodRetry ==
    /\ podRound.pc \in {"write", "remove"} /\ ~Reach(podRound) /\ "pods" \in events
    /\ podRound' = Idle
    /\ UNCHANGED <<configVars, status, nodename, certVars, address, server, apiVars, nodeRound,
                   events, disturbances, historyVars>>

-----------------------------------------------------------------------------

Translate == SetMachineType \/ IssueSecrets \/ IssueCerts \/ RenderSecrets \/ PublishKubeconfig \/ Serve
NodeStep == NodeStart \/ NodeHold \/ NodeWrite \/ NodeRemove \/ NodeRetry
PodStep == PodStart \/ PodHold \/ PodWrite \/ PodRemove \/ PodRetry

Environment ==
    \/ \E c \in Clusters, r \in Roles : Join(c, r)
    \/ Open \/ PublishElsewhere \/ Update \/ Teardown \/ Nodename
    \/ LoseAddress \/ FindAddress \/ NodeFails \/ PodFails

Next == Environment \/ Destroy \/ Translate \/ NodeStep \/ PodStep

Spec == Init /\ [][Next]_vars /\ WF_vars(Destroy \/ Translate \/ NodeStep \/ PodStep)

-----------------------------------------------------------------------------
(* What the machine promises *)

\* A Reset ends with neither the Node nor a static pod of the machine left in a cluster,
\* whatever was being registered when it began and however often the API failed: the
\* objects go before the finalizers.  What may stay is excused: the deletion of the Node is
\* tried once and under its last name, and an Update of the config drops finalizers.
ResetLeavesNothing ==
    config = NoConfig =>
       \A c \in Clusters : /\ "node" \notin excused => nodes[c] = {}
                           /\ "pods" \notin excused => pods[c] = {}

\* Nothing is left to do.
Quiet ==
    /\ nodeRound = Idle /\ podRound = Idle /\ events = {}
    /\ mtype = TypeOfMachine /\ secrets = SecretsOfConfig /\ certs = CertsOfConfig /\ files = FilesOfConfig
    /\ WantServer = (server # None)

\* At rest the machine is registered as what it is: one Node with its present name, on a
\* control plane the API server of its cluster and the static pods of that Node, and no
\* other object of it anywhere.  A machine whose ClusterStatus came after its config was
\* looked at is not registered until something else wakes the controller; and pods of a former
\* Nodename stay when each pod of the present one was created in a round that then failed.
RegisteredAsIs ==
    Quiet /\ config.stage = "running" /\ nodename # 0 =>
       LET c == config.cluster
           own == config.role = "controlplane" /\ address
       IN  /\ config.role = "worker" /\ ~unseen => nodes[c] = {nodename}
           /\ own => /\ server = c
                     /\ nodes[c] = {nodename}
                     /\ Kinds \X {nodename} \subseteq pods[c]
                     /\ ~(Kinds \X {nodename} \subseteq unswept) => pods[c] = Kinds \X {nodename}
           /\ \A d \in Clusters \ {c} : nodes[d] = {} /\ pods[d] = {}

\* A Reset does not wait for ever for the controllers, not even when the machine loses its
\* address, and with it its API server, while it is reset.
ResetEnds ==
    <>[]address => (config.stage = "tearingDown" ~> config.stage # "tearingDown")
=============================================================================
