------------------------- MODULE KubernetesNodeProofs -------------------------
(***************************************************************************)
(* Proofs about KubernetesNode, for any number of static pods, configs,    *)
(* Nodenames and disturbances.  They need no fairness.                     *)
(***************************************************************************)
EXTENDS KubernetesNode, TLAPS

-----------------------------------------------------------------------------
(* The inductive invariant *)

\* A config has one cluster, and whatever the controllers hold while it is there is of that
\* cluster; so is every object of the machine.
OfOneCluster ==
    config # NoConfig =>
        /\ {secrets, certs, files, server} \subseteq {config.cluster, None}
        /\ nodeRound # Idle => nodeRound.cluster = config.cluster
        /\ podRound # Idle => podRound.cluster = config.cluster
        /\ \A c \in Clusters \ {config.cluster} : nodes[c] = {} /\ pods[c] = {}

\* The Node of a config that is torn down, and then gone: it is held, or there is none and
\* none is being written; and the round that removes it knows its name.
NodeGoes ==
    /\ config = NoConfig /\ "node" \notin excused =>
         nodeRound.pc # "write" /\ \A c \in Clusters : nodes[c] = {}
    /\ config.stage = "tearingDown" /\ "node" \notin excused =>
         /\ nodes[config.cluster] \subseteq {nodename}
         /\ nodeRound # Idle => nodeRound.name = nodename
         /\ "node" \notin config.fin => nodeRound.pc # "write" /\ nodes[config.cluster] = {}

PodsGo ==
    /\ config = NoConfig /\ "pods" \notin excused =>
         podRound.pc # "write" /\ \A c \in Clusters : pods[c] = {}
    /\ config.stage = "tearingDown" /\ "pods" \notin excused /\ "pods" \notin config.fin =>
         podRound.pc # "write" /\ pods[config.cluster] = {}

\* While the config is not torn down nothing is removed; a round without an event to come goes
\* by the present name, and is the last one only if the Node is registered under it, unless the
\* machine had no client.
NodeComes ==
    config.stage = "running" =>
        /\ nodeRound.pc # "remove"
        /\ "node" \notin events /\ nodename # 0 =>
             /\ nodeRound # Idle => nodeRound.name = nodename
             /\ nodeRound = Idle => \/ nodes[config.cluster] = {nodename}
                                    \/ config.role = "worker" /\ unseen
                                    \/ config.role = "controlplane" /\ secrets = None

\* Likewise the pods, one kind after the other, while the API server runs.
PodsCome ==
    config.stage = "running" =>
        /\ podRound.pc # "remove"
        /\ "pods" \notin events /\ nodename # 0 /\ server # None /\ secrets # None =>
             /\ podRound # Idle =>
                  /\ podRound.name = nodename
                  /\ podRound.pc = "hold" => podRound.kind = 1
                  /\ \A k \in Kinds : k < podRound.kind => <<k, nodename>> \in pods[config.cluster]
             /\ podRound = Idle => Kinds \X {nodename} \subseteq pods[config.cluster]

\* Pods are created under the Nodenames in their order; beside a pod of a former Nodename
\* there are, of the present one, those only whose creation was not followed by the removal.
PodsInOrder ==
    config # NoConfig =>
        /\ \A p \in pods[config.cluster] : p[2] <= nodename
        /\ podRound # Idle =>
             /\ podRound.name <= nodename
             /\ \A p \in pods[config.cluster] : p[2] <= podRound.name
        /\ \A p, q \in pods[config.cluster] : p[2] = nodename /\ q[2] # nodename => p \in unswept

IInv ==
    /\ KubernetesTypeOK
    /\ files # None => ready
    /\ OfOneCluster /\ NodeGoes /\ PodsGo /\ NodeComes /\ PodsCome /\ PodsInOrder

-----------------------------------------------------------------------------
(* Values *)

LEMMA ConfigFacts ==
    ASSUME KubernetesTypeOK
    PROVE  /\ config = NoConfig <=> config.stage = "none"
           /\ config # NoConfig => /\ config \in Config /\ config.cluster \in Clusters
                                   /\ config.stage \in {"running", "tearingDown"}
                                   /\ config.role \in Roles /\ config.fin \subseteq Keepers
           /\ config.role = "none" <=> config = NoConfig
  BY DEF KubernetesTypeOK, Config, NoConfig, Roles

LEMMA NumberFacts ==
    /\ None \notin Clusters /\ 0 \notin Names /\ Names \subseteq Nat /\ Kinds \subseteq Nat
    /\ 1 \in Kinds /\ PodKinds \in Kinds /\ \A k \in Kinds : k <= PodKinds
    /\ \A k \in Kinds : k # PodKinds => k + 1 \in Kinds
    /\ \A n \in 0 .. MaxNames : (n # 0 => n \in Names) /\ (n < MaxNames => n + 1 \in 0 .. MaxNames)
    /\ \A n \in 0 .. MaxDisturbances : n < MaxDisturbances => n + 1 \in 0 .. MaxDisturbances
    /\ \A n \in 0 .. MaxJoins : n < MaxJoins => n + 1 \in 0 .. MaxJoins
    /\ 0 \in 0 .. MaxNames /\ 0 \in 0 .. MaxDisturbances /\ 0 \in 0 .. MaxJoins
  BY BoundAssumption DEF None, Clusters, Names, Kinds

LEMMA RoundFacts ==
    ASSUME NEW r \in Round \union {Idle}
    PROVE  /\ r = Idle <=> r.pc = "idle"
           /\ r # Idle => /\ r \in Round /\ r.pc \in {"hold", "write", "remove"} /\ r.name \in Names
                          /\ r.cluster \in Clusters /\ r.local \in BOOLEAN /\ r.kind \in Kinds
  BY DEF Round, Idle

LEMMA IdleFacts == Idle.pc = "idle" /\ Idle \in Round \union {Idle}
  BY DEF Idle

\* The two rounds are or are not there.
LEMMA RoundsTyped ==
    ASSUME KubernetesTypeOK
    PROVE  nodeRound \in Round \union {Idle} /\ podRound \in Round \union {Idle}
  BY DEF KubernetesTypeOK

\* The pc of a round in progress may change, and its kind.
LEMMA RoundExcept ==
    ASSUME NEW r \in Round
    PROVE  /\ LET w == [r EXCEPT !.pc = "write"]
              IN  /\ w \in Round /\ w # Idle /\ w.pc = "write" /\ w.name = r.name
                  /\ w.cluster = r.cluster /\ w.local = r.local /\ w.kind = r.kind
           /\ r.kind # PodKinds =>
              LET w == [r EXCEPT !.kind = @ + 1]
              IN  /\ w \in Round /\ w # Idle /\ w.pc = r.pc /\ w.name = r.name
                  /\ w.cluster = r.cluster /\ w.local = r.local /\ w.kind = r.kind + 1
  BY NumberFacts DEF Round, Idle

LEMMA BeginFacts ==
    ASSUME KubernetesTypeOK, NEW c \in Clusters, NEW local \in BOOLEAN, nodename # 0
    PROVE  LET r == Begin(c, local)
           IN  /\ r \in Round /\ r # Idle /\ r.name = nodename /\ r.cluster = c /\ r.kind = 1
               /\ r.pc = IF config.stage = "tearingDown" THEN "remove" ELSE "hold"
  <1>1. nodename \in Names
    BY NumberFacts DEF KubernetesTypeOK
  <1>2. Idle.pc = "idle"
    BY DEF Idle
  <1> QED BY <1>1, <1>2, NumberFacts DEF Begin, Round

\* Every call goes to a cluster, and as long as there is a config to that of the config.
LEMMA TargetFacts ==
    ASSUME KubernetesTypeOK, OfOneCluster, NEW r \in Round, Reach(r),
           config # NoConfig => r.cluster = config.cluster
    PROVE  Target(r) \in Clusters /\ (config # NoConfig => Target(r) = config.cluster)
  <1>1. server \in AnyCluster /\ r.cluster \in Clusters
    BY DEF KubernetesTypeOK, Round
  <1>2. r.local => server # None
    BY DEF Reach
  <1> QED BY <1>1, <1>2 DEF Target, AnyCluster, OfOneCluster

LEMMA NodesFacts ==
    ASSUME KubernetesTypeOK, NEW t \in Clusters, NEW S \in SUBSET Names, nodes' = [nodes EXCEPT ![t] = S]
    PROVE  /\ nodes' \in [Clusters -> SUBSET Names] /\ nodes'[t] = S
           /\ \A d \in Clusters : d # t => nodes'[d] = nodes[d]
  BY DEF KubernetesTypeOK

LEMMA PodsFacts ==
    ASSUME KubernetesTypeOK, NEW t \in Clusters, NEW S \in SUBSET (Kinds \X Names),
           pods' = [pods EXCEPT ![t] = S]
    PROVE  /\ pods' \in [Clusters -> SUBSET (Kinds \X Names)] /\ pods'[t] = S
           /\ \A d \in Clusters : d # t => pods'[d] = pods[d]
  BY DEF KubernetesTypeOK

\* A pod has a kind and a name, which is a number.
LEMMA PodsTyped ==
    ASSUME KubernetesTypeOK, NEW c \in Clusters
    PROVE  /\ pods[c] \subseteq Kinds \X Names
           /\ \A p \in pods[c] : p[2] \in Names /\ p[2] \in Nat
  <1>1. pods[c] \subseteq Kinds \X Names
    BY DEF KubernetesTypeOK
  <1>2. \A p \in Kinds \X Names : p[2] \in Names
    OBVIOUS
  <1> QED BY <1>1, <1>2, NumberFacts

\* Finalizers come and go, and nothing else of the config with them.
LEMMA FinFacts ==
    ASSUME KubernetesTypeOK, NEW fin \in SUBSET Keepers,
           config = NoConfig => fin = {}, config' = [config EXCEPT !.fin = fin]
    PROVE  /\ config' \in Config \union {NoConfig} /\ config'.fin = fin
           /\ config'.stage = config.stage /\ config'.cluster = config.cluster
           /\ config'.role = config.role
           /\ config' = NoConfig <=> config = NoConfig
  <1>1. CASE config = NoConfig
    <2>1. NoConfig = [stage |-> "none", cluster |-> None, role |-> "none", fin |-> {}]
      BY DEF NoConfig
    <2>2. [NoConfig EXCEPT !.fin = {}] = NoConfig
      BY <2>1
    <2>3. config' = NoConfig
      BY <1>1, <2>2
    <2> QED BY <1>1, <2>1, <2>3
  <1>2. CASE config # NoConfig
    <2>1. config \in Config
      BY <1>2 DEF KubernetesTypeOK
    <2>2. \A x \in Config : x # NoConfig
      BY DEF Config, NoConfig
    <2>3. /\ config' \in Config /\ config'.fin = fin
          /\ config'.stage = config.stage /\ config'.cluster = config.cluster
          /\ config'.role = config.role
      BY <2>1 DEF Config
    <2> QED BY <1>2, <2>2, <2>3
  <1> QED BY <1>1, <1>2

-----------------------------------------------------------------------------
(* Steps of others *)

SameConfig ==
    /\ config'.stage = config.stage /\ config'.cluster = config.cluster /\ config'.role = config.role
    /\ config' = NoConfig <=> config = NoConfig

\* What says of the Node what it says holds for as long as it is left alone, with the events
\* of its controller.
LEMMA NodeAside ==
    ASSUME NodeGoes, NodeComes, SameConfig, KubernetesTypeOK,
           "node" \in config'.fin <=> "node" \in config.fin,
           UNCHANGED <<nodename, nodes, nodeRound>>, UNCHANGED secrets \/ "node" \in events',
           unseen => unseen', "node" \in excused => "node" \in excused',
           "node" \in events => "node" \in events'
    PROVE  NodeGoes' /\ NodeComes'
  BY DEF NodeGoes, NodeComes, SameConfig

LEMMA PodsAside ==
    ASSUME PodsGo, PodsCome, PodsInOrder, SameConfig, KubernetesTypeOK,
           "pods" \in config'.fin <=> "pods" \in config.fin,
           UNCHANGED <<nodename, pods, podRound, unswept>>,
           UNCHANGED <<secrets, server>> \/ "pods" \in events',
           "pods" \in excused => "pods" \in excused', "pods" \in events => "pods" \in events'
    PROVE  PodsGo' /\ PodsCome' /\ PodsInOrder'
  <1>1. PodsGo'
    BY DEF PodsGo, SameConfig
  <1>2. PodsCome'
    BY DEF PodsCome, SameConfig
  <1>3. PodsInOrder'
    BY DEF PodsInOrder, SameConfig
  <1> QED BY <1>1, <1>2, <1>3

LEMMA OneClusterAside ==
    ASSUME OfOneCluster, SameConfig, UNCHANGED <<secrets, certs, files, server, nodes, pods>>,
           nodeRound' = nodeRound \/ nodeRound' = Idle, podRound' = podRound \/ podRound' = Idle
    PROVE  OfOneCluster'
  BY DEF OfOneCluster, SameConfig

\* A step that touches none of this.
LEMMA OtherStep ==
    ASSUME IInv,
           UNCHANGED <<configVars, nodename, secrets, certs, files, ready, server, apiVars,
                       nodeRound, podRound, events, historyVars>>,
           status' \in {"absent", "opened", "ready"}, mtype' \in Roles \union {"none"},
           address' \in BOOLEAN, disturbances' \in 0 .. MaxDisturbances
    PROVE  IInv'
  <1>1. UNCHANGED <<config, joins, nodename, secrets, certs, files, ready, server, nodes, pods,
                    nodeRound, podRound, events, unseen, excused, unswept>>
    BY DEF configVars, apiVars, historyVars
  <1>2. SameConfig
    BY <1>1 DEF SameConfig
  <1>3. KubernetesTypeOK'
    BY <1>1 DEF IInv, KubernetesTypeOK
  <1>4. OfOneCluster'
    BY <1>1, <1>2, OneClusterAside DEF IInv
  <1>5. NodeGoes' /\ NodeComes'
    BY <1>1, <1>2, NodeAside DEF IInv
  <1>6. PodsGo' /\ PodsCome' /\ PodsInOrder'
    BY <1>1, <1>2, PodsAside DEF IInv
  <1> QED BY <1>1, <1>3, <1>4, <1>5, <1>6 DEF IInv

-----------------------------------------------------------------------------
(* The steps of the environment and of the controllers that translate *)

LEMMA InitIInv == Init => IInv
  <1> SUFFICES ASSUME Init PROVE IInv
    OBVIOUS
  <1>1. NoConfig.stage = "none" /\ Idle.pc = "idle" /\ Idle \in Round \union {Idle}
    BY DEF NoConfig, Idle
  <1>2. KubernetesTypeOK
    BY <1>1, NumberFacts DEF Init, KubernetesTypeOK, AnyCluster
  <1>3. files = None /\ OfOneCluster
    BY DEF Init, OfOneCluster
  <1>4. NodeGoes /\ PodsGo /\ NodeComes /\ PodsCome /\ PodsInOrder
    BY <1>1 DEF Init, NodeGoes, PodsGo, NodeComes, PodsCome, PodsInOrder
  <1> QED BY <1>2, <1>3, <1>4 DEF IInv

\* A config comes when nothing is left of the one before.
LEMMA JoinKeeps ==
    ASSUME IInv, NEW c \in Clusters, NEW r \in Roles, Join(c, r)
    PROVE  IInv'
  <1>1. UNCHANGED <<status, nodename, mtype, secrets, certs, files, ready, address, server, nodes, pods,
                    nodeRound, podRound, disturbances, unseen, excused, unswept>>
    BY DEF Join, certVars, apiVars, historyVars
  <1>2. /\ config' \in Config /\ config'.stage = "running" /\ config'.cluster = c
        /\ config' # NoConfig
    BY DEF Join, Config, NoConfig
  <1>3. config = NoConfig /\ nodeRound = Idle /\ podRound = Idle /\ excused = {}
    BY DEF Join, MayJoin
  <1>4. \A d \in Clusters : nodes[d] = {} /\ pods[d] = {}
    BY <1>3 DEF IInv, NodeGoes, PodsGo
  <1>5. {secrets, certs, files, server} \subseteq {c, None}
    BY DEF Join, MayJoin
  <1>6. events' = Keepers /\ "node" \in events' /\ "pods" \in events'
    BY DEF Join, Wake, IInv, KubernetesTypeOK, Keepers
  <1>7. KubernetesTypeOK'
    <2>1. joins' \in 0 .. MaxJoins
      BY NumberFacts DEF Join, IInv, KubernetesTypeOK
    <2> QED BY <1>1, <1>2, <1>6, <2>1 DEF IInv, KubernetesTypeOK
  <1>8. OfOneCluster'
    BY <1>1, <1>2, <1>3, <1>4, <1>5 DEF OfOneCluster
  <1>9. NodeGoes' /\ PodsGo'
    BY <1>2 DEF NodeGoes, PodsGo
  <1>10. NodeComes' /\ PodsCome'
    BY <1>1, <1>3, <1>6, IdleFacts DEF NodeComes, PodsCome
  <1>11. PodsInOrder'
    BY <1>1, <1>2, <1>3, <1>4 DEF PodsInOrder
  <1> QED BY <1>1, <1>7, <1>8, <1>9, <1>10, <1>11 DEF IInv

\* The finalizers go: nothing is promised for a Node or pods nobody holds the config for.
LEMMA UpdateKeeps ==
    ASSUME IInv, Update
    PROVE  IInv'
  <1>1. UNCHANGED <<status, nodename, mtype, secrets, certs, files, ready, address, server, nodes, pods,
                    nodeRound, podRound, joins, unseen, excused, unswept>>
    BY DEF Update, certVars, apiVars, historyVars
  <1>2. config.stage = "running" /\ config' = [config EXCEPT !.fin = {}]
    BY DEF Update
  <1>3. config' \in Config \union {NoConfig} /\ SameConfig
    <2>1. {} \in SUBSET Keepers /\ KubernetesTypeOK
      BY DEF IInv
    <2> QED BY <1>2, <2>1, FinFacts DEF SameConfig
  <1>4. "node" \in events' /\ "pods" \in events' /\ events' \subseteq Keepers
    BY DEF Update, Wake, IInv, KubernetesTypeOK, Keepers
  <1>5. KubernetesTypeOK'
    <2>1. disturbances' \in 0 .. MaxDisturbances
      BY NumberFacts DEF Update, Disturb, IInv, KubernetesTypeOK
    <2> QED BY <1>1, <1>3, <1>4, <2>1 DEF IInv, KubernetesTypeOK
  <1>6. OfOneCluster'
    BY <1>1, <1>3, OneClusterAside DEF IInv
  <1>7. config'.stage = "running" /\ config' # NoConfig /\ config # NoConfig
    BY <1>2, <1>3, ConfigFacts DEF SameConfig, IInv
  <1>8. NodeGoes' /\ PodsGo'
    BY <1>7 DEF NodeGoes, PodsGo
  <1>9. NodeComes' /\ PodsCome'
    BY <1>1, <1>2, <1>4 DEF IInv, NodeComes, PodsCome
  <1>10. PodsInOrder'
    BY <1>1, <1>3, <1>7 DEF IInv, PodsInOrder, SameConfig
  <1> QED BY <1>1, <1>5, <1>6, <1>8, <1>9, <1>10 DEF IInv

\* What is loose when the Reset begins is excused; the rest is held, and known by its name.
LEMMA TeardownKeeps ==
    ASSUME IInv, Teardown
    PROVE  IInv'
  <1>1. UNCHANGED <<status, nodename, mtype, secrets, certs, files, ready, address, server, nodes, pods,
                    nodeRound, podRound, joins, disturbances, unseen, unswept>>
    BY DEF Teardown, certVars, apiVars
  <1>2. config.stage = "running" /\ config \in Config /\ config # NoConfig
    BY ConfigFacts DEF Teardown, IInv
  <1>3. /\ config' \in Config /\ config' # NoConfig /\ config'.stage = "tearingDown"
        /\ config'.cluster = config.cluster /\ config'.fin = config.fin
    BY <1>2 DEF Teardown, Config, NoConfig
  <1>4. excused' = excused \union Loose /\ events' = Keepers
    BY DEF Teardown, Wake, IInv, KubernetesTypeOK, Keepers
  <1>5. KubernetesTypeOK'
    <2>1. excused' \subseteq Keepers
      BY <1>4 DEF Loose, Keepers, IInv, KubernetesTypeOK
    <2> QED BY <1>1, <1>3, <1>4, <2>1 DEF IInv, KubernetesTypeOK
  <1>6. OfOneCluster'
    BY <1>1, <1>2, <1>3 DEF IInv, OfOneCluster
  <1>7. NodeGoes'
    <2>1. "node" \notin Loose =>
            /\ nodes[config.cluster] \subseteq {nodename}
            /\ nodeRound # Idle => nodeRound.name = nodename
            /\ "node" \notin config.fin => nodeRound.pc # "write" /\ nodes[config.cluster] = {}
      BY DEF Loose, Keepers
    <2> QED BY <1>1, <1>3, <1>4, <2>1 DEF NodeGoes
  <1>8. PodsGo'
    <2>1. "pods" \notin Loose =>
            ("pods" \notin config.fin => podRound.pc # "write" /\ pods[config.cluster] = {})
      BY DEF Loose, Keepers
    <2> QED BY <1>1, <1>3, <1>4, <2>1 DEF PodsGo
  <1>9. NodeComes' /\ PodsCome'
    BY <1>3 DEF NodeComes, PodsCome
  <1>10. PodsInOrder'
    BY <1>1, <1>2, <1>3 DEF IInv, PodsInOrder
  <1> QED BY <1>1, <1>5, <1>6, <1>7, <1>8, <1>9, <1>10 DEF IInv

\* The config goes when nobody holds it.
LEMMA DestroyKeeps ==
    ASSUME IInv, Destroy
    PROVE  IInv'
  <1>1. UNCHANGED <<nodename, mtype, secrets, certs, files, ready, address, server, nodes, pods,
                    nodeRound, podRound, joins, disturbances, unswept>>
    BY DEF Destroy, certVars, apiVars
  <1>2. config.stage = "tearingDown" /\ config # NoConfig /\ config.fin = {}
    BY ConfigFacts DEF Destroy, IInv
  <1>3. /\ config' = NoConfig /\ config'.stage = "none" /\ status' = "absent" /\ unseen' = FALSE
        /\ excused' = excused \ {k \in Keepers : Gone(k)} /\ events' = Keepers
    BY DEF Destroy, Wake, NoConfig, IInv, KubernetesTypeOK, Keepers
  <1>4. KubernetesTypeOK'
    BY <1>1, <1>3 DEF IInv, KubernetesTypeOK
  <1>5. OfOneCluster' /\ NodeComes' /\ PodsCome' /\ PodsInOrder'
    BY <1>3 DEF OfOneCluster, NodeComes, PodsCome, PodsInOrder
  <1>6. NodeGoes'
    <2>1. ASSUME "node" \notin excused PROVE nodeRound.pc # "write" /\ \A c \in Clusters : nodes[c] = {}
      BY <1>2, <2>1 DEF IInv, NodeGoes, OfOneCluster
    <2>2. ASSUME Gone("node") PROVE nodeRound.pc # "write" /\ \A c \in Clusters : nodes[c] = {}
      BY <2>2, IdleFacts DEF Gone
    <2> QED BY <1>1, <1>3, <2>1, <2>2 DEF NodeGoes, Keepers
  <1>7. PodsGo'
    <2>1. ASSUME "pods" \notin excused PROVE podRound.pc # "write" /\ \A c \in Clusters : pods[c] = {}
      BY <1>2, <2>1 DEF IInv, PodsGo, OfOneCluster
    <2>2. ASSUME Gone("pods") PROVE podRound.pc # "write" /\ \A c \in Clusters : pods[c] = {}
      BY <2>2, IdleFacts DEF Gone
    <2> QED BY <1>1, <1>3, <2>1, <2>2 DEF PodsGo, Keepers
  <1> QED BY <1>1, <1>4, <1>5, <1>6, <1>7 DEF IInv

\* A new Nodename: no pod has it yet, and a Node of the former one may stay behind a Reset.
LEMMA NodenameKeeps ==
    ASSUME IInv, Nodename
    PROVE  IInv'
  <1>1. UNCHANGED <<config, joins, status, mtype, secrets, certs, files, ready, address, server, nodes, pods,
                    nodeRound, podRound, disturbances, unseen, unswept>>
    BY DEF Nodename, certVars, apiVars, configVars
  <1>2. /\ config # NoConfig /\ nodename \in Nat /\ nodename' = nodename + 1 /\ nodename' \in 0 .. MaxNames
        /\ config.cluster \in Clusters
    BY NumberFacts, ConfigFacts DEF Nodename, IInv, KubernetesTypeOK
  <1>3. /\ "node" \in events' /\ "pods" \in events' /\ events' \subseteq Keepers
        /\ excused \subseteq excused' /\ excused' \subseteq Keepers
        /\ config.stage = "tearingDown" /\ nodename # 0 => "node" \in excused'
    BY DEF Nodename, Wake, IInv, KubernetesTypeOK, Keepers
  <1>4. KubernetesTypeOK'
    BY <1>1, <1>2, <1>3 DEF IInv, KubernetesTypeOK
  <1>5. OfOneCluster'
    BY <1>1 DEF IInv, OfOneCluster
  <1>6. NodeGoes'
    <2>1. CASE config.stage = "tearingDown" /\ nodename = 0 /\ "node" \notin excused'
      <3>1. nodes[config.cluster] = {} /\ nodeRound = Idle
        <4>1. nodes[config.cluster] \subseteq {0} /\ nodes[config.cluster] \subseteq Names
          BY <1>2, <1>3, <2>1 DEF IInv, NodeGoes, KubernetesTypeOK
        <4>2. nodeRound # Idle => nodeRound.name = 0 /\ nodeRound.name \in Names
          BY <1>3, <2>1, RoundsTyped, RoundFacts DEF IInv, NodeGoes
        <4> QED BY <4>1, <4>2, NumberFacts
      <3> QED BY <1>1, <1>2, <3>1, IdleFacts DEF NodeGoes
    <2> QED BY <1>1, <1>2, <1>3, <2>1 DEF NodeGoes
  <1>7. PodsGo'
    BY <1>1, <1>3 DEF IInv, PodsGo
  <1>8. NodeComes' /\ PodsCome'
    BY <1>1, <1>3 DEF IInv, NodeComes, PodsCome
  <1>9. PodsInOrder'
    <2>1. \A p \in pods[config.cluster] : p[2] \in Nat
      BY <1>2, PodsTyped DEF IInv
    <2>2. podRound # Idle => podRound.name \in Nat
      BY RoundsTyped, RoundFacts, NumberFacts DEF IInv
    <2> QED BY <1>1, <1>2, <2>1, <2>2 DEF IInv, PodsInOrder
  <1> QED BY <1>1, <1>4, <1>5, <1>6, <1>7, <1>8, <1>9 DEF IInv

\* What a controller that translates writes is of the cluster of the config, and those who go
\* by it hear of it.
LEMMA TranslatedKeeps ==
    ASSUME IInv,
           UNCHANGED <<configVars, status, nodename, mtype, address, apiVars, nodeRound, podRound,
                       disturbances, historyVars>>,
           {secrets', certs', files', server'} \subseteq AnyCluster, ready' \in BOOLEAN,
           config # NoConfig => {secrets', certs', files', server'} \subseteq {config.cluster, None},
           files' # None => ready',
           events \subseteq events', events' \subseteq Keepers,
           UNCHANGED secrets \/ "node" \in events',
           UNCHANGED <<secrets, server>> \/ "pods" \in events'
    PROVE  IInv'
  <1>1. UNCHANGED <<config, joins, status, nodename, mtype, address, nodes, pods, nodeRound, podRound,
                    disturbances, unseen, excused, unswept>>
    BY DEF configVars, apiVars, historyVars
  <1>2. SameConfig
    BY <1>1 DEF SameConfig
  <1>3. KubernetesTypeOK'
    BY <1>1 DEF IInv, KubernetesTypeOK
  <1>4. OfOneCluster'
    BY <1>1 DEF IInv, OfOneCluster
  <1>5. NodeGoes' /\ NodeComes'
    BY <1>1, <1>2, NodeAside DEF IInv
  <1>6. PodsGo' /\ PodsCome' /\ PodsInOrder'
    BY <1>1, <1>2, PodsAside DEF IInv
  <1> QED BY <1>3, <1>4, <1>5, <1>6 DEF IInv

LEMMA TranslateKeeps ==
    ASSUME IInv, Translate
    PROVE  IInv'
  <1>1. /\ {secrets, certs, files, server} \subseteq AnyCluster /\ ready \in BOOLEAN
        /\ config # NoConfig => /\ {secrets, certs, files, server} \subseteq {config.cluster, None}
                                /\ config.cluster \in AnyCluster
        /\ files # None => ready
        /\ events \subseteq Keepers
        /\ config.role = "controlplane" => config # NoConfig
    BY ConfigFacts DEF IInv, KubernetesTypeOK, OfOneCluster, AnyCluster
  <1>2. None \in AnyCluster
    BY DEF AnyCluster
  <1>3. /\ SecretsOfConfig \in AnyCluster
        /\ config # NoConfig => SecretsOfConfig \in {config.cluster, None}
    BY <1>1, <1>2 DEF SecretsOfConfig
  <1>4. CASE SetMachineType
    <2>1. mtype' \in Roles \union {"none"}
      BY <1>4, ConfigFacts DEF SetMachineType, TypeOfMachine, IInv, KubernetesTypeOK, NoConfig
    <2> QED BY <1>4, <2>1, OtherStep DEF SetMachineType, IInv, KubernetesTypeOK
  <1>5. CASE IssueSecrets
    <2>1. secrets' = SecretsOfConfig /\ UNCHANGED <<certs, files, server, ready>> /\ events' = Keepers
      BY <1>1, <1>5 DEF IssueSecrets, Wake
    <2> QED BY <1>1, <1>3, <1>5, <2>1, TranslatedKeeps DEF IssueSecrets, Keepers
  <1>6. CASE IssueCerts
    <2>1. certs' = SecretsOfConfig /\ UNCHANGED <<secrets, files, server, ready, events>>
      BY <1>6 DEF IssueCerts, CertsOfConfig
    <2> QED BY <1>1, <1>3, <1>6, <2>1, TranslatedKeeps DEF IssueCerts
  <1>7. CASE RenderSecrets
    <2>1. /\ files' \in {None, files, certs} /\ (ready' <=> (ready \/ files' # None)) /\ ready' \in BOOLEAN
          /\ UNCHANGED <<secrets, certs, server, events>>
      BY <1>7 DEF RenderSecrets, FilesOfConfig
    <2> QED BY <1>1, <1>2, <1>7, <2>1, TranslatedKeeps DEF RenderSecrets
  <1>8. CASE PublishKubeconfig
    BY <1>8, OtherStep
    DEF PublishKubeconfig, IInv, KubernetesTypeOK, certVars, configVars, apiVars, historyVars
  <1>9. CASE Serve
    <2>1. /\ server' \in {None, config.cluster} /\ (server' # None => config # NoConfig)
          /\ UNCHANGED <<secrets, certs, files, ready, mtype>>
          /\ events \subseteq events' /\ events' \subseteq Keepers /\ "pods" \in events'
      BY <1>1, <1>9 DEF Serve, WantServer, Wake, Keepers, certVars
    <2> QED BY <1>1, <1>2, <1>9, <2>1, TranslatedKeeps DEF Serve
  <1> QED BY <1>4, <1>5, <1>6, <1>7, <1>8, <1>9 DEF Translate

\* The steps of the environment that the invariant does not look at.
LEMMA SurroundingsKeep ==
    ASSUME IInv, Open \/ PublishElsewhere \/ LoseAddress \/ FindAddress
    PROVE  IInv'
  <1>1. disturbances' \in 0 .. MaxDisturbances
    BY NumberFacts DEF Open, PublishElsewhere, LoseAddress, FindAddress, Disturb, IInv, KubernetesTypeOK
  <1> QED BY <1>1, OtherStep DEF Open, PublishElsewhere, LoseAddress, FindAddress,
                                 IInv, KubernetesTypeOK, certVars

-----------------------------------------------------------------------------
(* The steps of KubernetesNodeController *)

\* What its steps have in common: the pods, and the secrets, are left alone.
LEMMA NodeStepKeeps ==
    ASSUME IInv,
           UNCHANGED <<status, nodename, mtype, secrets, certs, files, ready, address, server, pods,
                       podRound, joins, unswept>>,
           SameConfig, config' \in Config \union {NoConfig},
           "pods" \in config'.fin <=> "pods" \in config.fin,
           nodes' \in [Clusters -> SUBSET Names],
           config # NoConfig => \A d \in Clusters \ {config.cluster} : nodes'[d] = nodes[d],
           nodeRound' \in Round \union {Idle},
           config # NoConfig /\ nodeRound' # Idle => nodeRound'.cluster = config.cluster,
           events' \subseteq Keepers, "pods" \in events => "pods" \in events',
           disturbances' \in 0 .. MaxDisturbances, unseen' \in BOOLEAN,
           excused' \in {excused, excused \union {"node"}},
           NodeGoes', NodeComes'
    PROVE  IInv'
  <1>1. KubernetesTypeOK'
    BY DEF IInv, KubernetesTypeOK, Keepers
  <1>2. OfOneCluster'
    BY DEF IInv, OfOneCluster, SameConfig
  <1>3. PodsGo' /\ PodsCome' /\ PodsInOrder'
    BY PodsAside DEF IInv
  <1> QED BY <1>1, <1>2, <1>3 DEF IInv

\* The round begins with the present name; one that finds no client was not about a Node.
LEMMA NodeStartKeeps ==
    ASSUME IInv, NodeStart
    PROVE  IInv'
  <1> DEFINE found == config # NoConfig /\ nodename # 0
             none == found /\ secrets = None /\ status = "absent"
  <1>1. UNCHANGED <<config, joins, status, nodename, mtype, secrets, certs, files, ready, address, server,
                    nodes, pods, podRound, disturbances, excused, unswept>>
    BY DEF NodeStart, certVars, apiVars, configVars
  <1>2. events' = events \ {"node"}
    BY DEF NodeStart
  <1>3. unseen' \in BOOLEAN /\ (none /\ config.role = "worker" => unseen')
    BY DEF NodeStart
  <1>4. /\ ~found \/ none => nodeRound' = Idle
        /\ found /\ ~none /\ secrets # None => nodeRound' = Begin(secrets, TRUE)
        /\ found /\ ~none /\ secrets = None => nodeRound' = Begin(config.cluster, FALSE)
    BY DEF NodeStart
  <1>5. config # NoConfig => config.cluster \in Clusters /\ secrets \in {config.cluster, None}
    BY ConfigFacts DEF IInv, OfOneCluster
  <1>6. nodeRound' # Idle =>
          /\ config # NoConfig
          /\ nodeRound' \in Round /\ nodeRound'.name = nodename
          /\ nodeRound'.cluster = config.cluster
          /\ nodeRound'.pc = IF config.stage = "tearingDown" THEN "remove" ELSE "hold"
    <2>1. KubernetesTypeOK /\ TRUE \in BOOLEAN /\ FALSE \in BOOLEAN
      BY DEF IInv
    <2>2. ASSUME nodeRound' # Idle
          PROVE  /\ config # NoConfig /\ nodename # 0
                 /\ \/ nodeRound' = Begin(config.cluster, TRUE)
                    \/ nodeRound' = Begin(config.cluster, FALSE)
      BY <1>4, <1>5, <2>2
    <2> QED BY <1>5, <2>1, <2>2, BeginFacts
  <1>7. SameConfig
    BY <1>1 DEF SameConfig
  <1>8. NodeGoes'
    BY <1>1, <1>6, IdleFacts DEF IInv, NodeGoes
  <1>9. NodeComes'
    <2>1. CASE config.stage # "running"
      BY <1>1, <2>1 DEF NodeComes
    <2>2. CASE config.stage = "running"
      <3>1. config # NoConfig /\ config.role \in Roles /\ config.stage # "tearingDown"
        BY <2>2, ConfigFacts DEF IInv
      <3>2. nodeRound'.pc # "remove"
        BY <1>6, <3>1, IdleFacts
      <3>3. nodename # 0 /\ nodeRound' = Idle => none
        <4>1. ASSUME found, ~none PROVE nodeRound' # Idle
          BY <1>4, <1>5, <4>1, BeginFacts DEF IInv
        <4> QED BY <3>1, <4>1
      <3>4. none => (config.role = "worker" /\ unseen') \/ (config.role = "controlplane" /\ secrets = None)
        BY <1>3, <3>1 DEF Roles
      <3> HIDE DEF none, found
      <3> QED BY <1>1, <1>6, <3>2, <3>3, <3>4 DEF NodeComes
    <2> QED BY <2>1, <2>2
  <1>10. /\ disturbances \in 0 .. MaxDisturbances /\ nodes \in [Clusters -> SUBSET Names]
         /\ config \in Config \union {NoConfig} /\ events \subseteq Keepers
    BY DEF IInv, KubernetesTypeOK
  <1> HIDE DEF none, found
  <1> QED BY <1>1, <1>2, <1>3, <1>6, <1>7, <1>8, <1>9, <1>10, NodeStepKeeps

\* The finalizer is taken on a config that is not torn down, or the round is repeated.
LEMMA NodeHoldKeeps ==
    ASSUME IInv, NodeHold
    PROVE  IInv'
  <1>1. UNCHANGED <<status, nodename, mtype, secrets, certs, files, ready, address, server, nodes, pods,
                    podRound, joins, disturbances, unseen, excused, unswept>>
    BY DEF NodeHold, certVars, apiVars, historyVars
  <1>2. /\ disturbances \in 0 .. MaxDisturbances /\ nodes \in [Clusters -> SUBSET Names]
        /\ unseen \in BOOLEAN /\ KubernetesTypeOK /\ config.fin \in SUBSET Keepers
        /\ nodeRound \in Round /\ nodeRound.pc = "hold"
    BY ConfigFacts, RoundsTyped, RoundFacts, IdleFacts DEF IInv, KubernetesTypeOK, NodeHold, NoConfig
  <1>3. CASE config.stage = "running"
    <2>1. config # NoConfig
      BY <1>3, ConfigFacts DEF IInv
    <2>2. config' = [config EXCEPT !.fin = config.fin \union {"node"}] /\ nodeRound' = [nodeRound EXCEPT !.pc = "write"]
      BY <1>3 DEF NodeHold, Hold
    <2>3. /\ events' \subseteq Keepers /\ events \subseteq events'
      BY <1>3 DEF NodeHold, Hold, IInv, KubernetesTypeOK
    <2>4. /\ config' \in Config \union {NoConfig} /\ SameConfig
          /\ "pods" \in config'.fin <=> "pods" \in config.fin
      <3>1. config.fin \union {"node"} \in SUBSET Keepers
        BY <1>2 DEF Keepers
      <3> QED BY <1>2, <2>1, <2>2, <3>1, FinFacts DEF SameConfig
    <2>5. /\ nodeRound' \in Round /\ nodeRound' # Idle /\ nodeRound'.pc = "write"
          /\ nodeRound'.name = nodeRound.name /\ nodeRound'.cluster = nodeRound.cluster
      BY <1>2, <2>2, RoundExcept
    <2>6. nodeRound # Idle /\ nodeRound'.cluster = config.cluster
      BY <1>2, <2>1, <2>5, IdleFacts DEF IInv, OfOneCluster
    <2>7. NodeGoes'
      BY <1>3, <2>1, <2>4 DEF NodeGoes, SameConfig
    <2>8. NodeComes'
      BY <1>1, <1>3, <2>3, <2>4, <2>5, <2>6 DEF IInv, NodeComes, SameConfig
    <2> QED BY <1>1, <1>2, <2>3, <2>4, <2>5, <2>6, <2>7, <2>8, NodeStepKeeps
  <1>4. CASE config.stage # "running"
    <2>1. /\ config' = config /\ nodeRound' = Idle
          /\ events' \subseteq Keepers /\ events \subseteq events' /\ "node" \in events'
      BY <1>4 DEF NodeHold, Wake, Keepers, IInv, KubernetesTypeOK
    <2>2. config' \in Config \union {NoConfig} /\ SameConfig
      BY <2>1 DEF IInv, KubernetesTypeOK, SameConfig
    <2>3. NodeGoes'
      BY <1>1, <2>1, IdleFacts DEF IInv, NodeGoes
    <2>4. NodeComes'
      BY <1>4, <2>1 DEF NodeComes
    <2> QED BY <1>1, <1>2, <2>1, <2>2, <2>3, <2>4, IdleFacts, NodeStepKeeps
  <1> QED BY <1>3, <1>4

\* A call reaches the cluster of the config.
LEMMA NodeTarget ==
    ASSUME IInv, nodeRound # Idle, Reach(nodeRound)
    PROVE  /\ nodeRound \in Round /\ nodeRound.name \in Names /\ Target(nodeRound) \in Clusters
           /\ config # NoConfig => Target(nodeRound) = config.cluster
  <1>1. nodeRound \in Round /\ nodeRound.name \in Names
    BY RoundsTyped, RoundFacts DEF IInv
  <1>2. config # NoConfig => nodeRound.cluster = config.cluster
    BY DEF IInv, OfOneCluster
  <1> QED BY <1>1, <1>2, TargetFacts DEF IInv

\* What is written is the Node of the round, which is held, and the only one unless a call failed.
LEMMA NodeWriteKeeps ==
    ASSUME IInv, NodeWrite \/ NodeFails
    PROVE  IInv'
  <1>1. UNCHANGED <<config, joins, status, nodename, mtype, secrets, certs, files, ready, address, server, pods,
                    podRound, unseen, excused, unswept>>
    BY DEF NodeWrite, NodeFails, certVars, configVars, historyVars
  <1>2. nodeRound.pc = "write" /\ nodeRound # Idle /\ Reach(nodeRound) /\ nodeRound' = Idle
    BY IdleFacts DEF NodeWrite, NodeFails
  <1>3. /\ nodeRound.name \in Names /\ Target(nodeRound) \in Clusters
        /\ config # NoConfig => Target(nodeRound) = config.cluster
    BY <1>2, NodeTarget
  <1>4. /\ events' \subseteq Keepers /\ events \subseteq events'
        /\ disturbances' \in 0 .. MaxDisturbances
    BY NumberFacts DEF NodeWrite, NodeFails, Wake, Disturb, Keepers, IInv, KubernetesTypeOK
  <1>5. \/ nodes' = [nodes EXCEPT ![Target(nodeRound)] = {nodeRound.name}]
        \/ "node" \in events' /\ nodes' = nodes
        \/ "node" \in events' /\ nodes' = [nodes EXCEPT ![Target(nodeRound)] = nodes[Target(nodeRound)] \union {nodeRound.name}]
    BY DEF NodeWrite, NodeFails, Wake, NodeOfRound
  <1>6. /\ nodes' \in [Clusters -> SUBSET Names]
        /\ \A d \in Clusters : d # Target(nodeRound) => nodes'[d] = nodes[d]
        /\ \/ nodes'[Target(nodeRound)] = {nodeRound.name}
           \/ /\ "node" \in events'
              /\ nodes'[Target(nodeRound)] \subseteq nodes[Target(nodeRound)] \union {nodeRound.name}
    <2>1. nodes \in [Clusters -> SUBSET Names] /\ KubernetesTypeOK
      BY DEF IInv, KubernetesTypeOK
    <2>2. {nodeRound.name} \in SUBSET Names /\ nodes[Target(nodeRound)] \union {nodeRound.name} \in SUBSET Names
      BY <1>3, <2>1
    <2> QED BY <1>3, <1>5, <2>1, <2>2, NodesFacts
  <1>7. NodeGoes'
    <2>1. config = NoConfig => "node" \in excused
      BY <1>2 DEF IInv, NodeGoes
    <2>2. ASSUME config.stage = "tearingDown", "node" \notin excused
          PROVE  /\ config # NoConfig /\ "node" \in config.fin /\ nodeRound.name = nodename
                 /\ nodes[config.cluster] \subseteq {nodename}
      BY <1>2, <2>2, ConfigFacts DEF IInv, NodeGoes
    <2> QED BY <1>1, <1>2, <1>3, <1>6, <2>1, <2>2, IdleFacts DEF NodeGoes
  <1>8. NodeComes'
    <2>1. config.stage = "running" => config # NoConfig
      BY ConfigFacts DEF IInv
    <2> QED BY <1>1, <1>2, <1>3, <1>4, <1>6, <2>1, IdleFacts DEF IInv, NodeComes
  <1>9. config \in Config \union {NoConfig} /\ unseen \in BOOLEAN /\ SameConfig
    BY <1>1 DEF IInv, KubernetesTypeOK, SameConfig
  <1> QED BY <1>1, <1>2, <1>3, <1>4, <1>6, <1>7, <1>8, <1>9, IdleFacts, NodeStepKeeps

\* The deletion takes away the only Node there can be, or is excused.
LEMMA NodeRemoveKeeps ==
    ASSUME IInv, NodeRemove
    PROVE  IInv'
  <1>1. UNCHANGED <<status, nodename, mtype, secrets, certs, files, ready, address, server, pods,
                    podRound, joins, unseen, unswept>>
    BY DEF NodeRemove, certVars
  <1>2. nodeRound.pc = "remove" /\ nodeRound # Idle /\ nodeRound' = Idle /\ config.stage # "running"
    BY IdleFacts DEF NodeRemove, IInv, NodeComes
  <1>3. /\ config' = [config EXCEPT !.fin = config.fin \ {"node"}] /\ events' \subseteq Keepers
        /\ events \subseteq events'
    BY DEF NodeRemove, Release, IInv, KubernetesTypeOK
  <1>4. KubernetesTypeOK /\ config.fin \in SUBSET Keepers /\ (config = NoConfig => config.fin = {})
    BY ConfigFacts DEF IInv, NoConfig
  <1>5. /\ config' \in Config \union {NoConfig} /\ SameConfig
        /\ "pods" \in config'.fin <=> "pods" \in config.fin
    <2>1. config.fin \ {"node"} \in SUBSET Keepers /\ (config = NoConfig => config.fin \ {"node"} = {})
      BY <1>4
    <2> QED BY <1>3, <1>4, <2>1, FinFacts DEF SameConfig
  <1>6. disturbances' \in 0 .. MaxDisturbances /\ unseen \in BOOLEAN /\ excused' \in {excused, excused \union {"node"}}
    BY NumberFacts DEF NodeRemove, Disturb, IInv, KubernetesTypeOK
  <1>7. nodes \in [Clusters -> SUBSET Names]
    BY DEF IInv, KubernetesTypeOK
  <1>8. CASE "node" \in excused' /\ nodes' = nodes
    <2>1. NodeGoes'
      BY <1>8 DEF NodeGoes
    <2>2. NodeComes'
      BY <1>2, <1>5 DEF NodeComes, SameConfig
    <2> QED BY <1>1, <1>2, <1>3, <1>5, <1>6, <1>7, <1>8, <2>1, <2>2, IdleFacts, NodeStepKeeps
  <1>9. CASE /\ Reach(nodeRound) /\ UNCHANGED excused
             /\ nodes' = [nodes EXCEPT ![Target(nodeRound)] = nodes[Target(nodeRound)] \ {nodeRound.name}]
    <2>1. /\ Target(nodeRound) \in Clusters
          /\ config # NoConfig => Target(nodeRound) = config.cluster
      BY <1>2, <1>9, NodeTarget
    <2>2. /\ nodes' \in [Clusters -> SUBSET Names]
          /\ nodes'[Target(nodeRound)] = nodes[Target(nodeRound)] \ {nodeRound.name}
          /\ \A d \in Clusters : d # Target(nodeRound) => nodes'[d] = nodes[d]
      <3>1. nodes[Target(nodeRound)] \ {nodeRound.name} \in SUBSET Names
        BY <1>7, <2>1
      <3> QED BY <1>4, <1>9, <2>1, <3>1, NodesFacts
    <2>3. NodeGoes'
      <3>1. ASSUME config = NoConfig, "node" \notin excused PROVE \A d \in Clusters : nodes'[d] = {}
        BY <2>1, <2>2, <3>1 DEF IInv, NodeGoes
      <3>2. ASSUME config.stage = "tearingDown", "node" \notin excused PROVE nodes'[config.cluster] = {}
        <4>1. nodes[config.cluster] \subseteq {nodename} /\ nodeRound.name = nodename
          BY <1>2, <3>2 DEF IInv, NodeGoes
        <4>2. config # NoConfig
          BY <3>2, ConfigFacts DEF IInv
        <4> QED BY <2>1, <2>2, <4>1, <4>2
      <3> QED BY <1>1, <1>2, <1>5, <1>9, <3>1, <3>2, IdleFacts DEF NodeGoes, SameConfig
    <2>4. NodeComes'
      BY <1>2, <1>5 DEF NodeComes, SameConfig
    <2> QED BY <1>1, <1>2, <1>3, <1>5, <1>6, <2>1, <2>2, <2>3, <2>4, IdleFacts, NodeStepKeeps
  <1> QED BY <1>8, <1>9 DEF NodeRemove, NodeOfRound

\* Whoever gives up has an event to come.
LEMMA NodeRetryKeeps ==
    ASSUME IInv, NodeRetry
    PROVE  IInv'
  <1>1. UNCHANGED <<config, joins, status, nodename, mtype, secrets, certs, files, ready, address, server,
                    nodes, pods, podRound, events, disturbances, unseen, excused, unswept>>
    BY DEF NodeRetry, certVars, apiVars, configVars, historyVars
  <1>2. nodeRound' = Idle /\ "node" \in events
    BY DEF NodeRetry
  <1>3. SameConfig
    BY <1>1 DEF SameConfig
  <1>4. NodeGoes'
    BY <1>1, <1>2, IdleFacts DEF IInv, NodeGoes
  <1>5. NodeComes'
    BY <1>1, <1>2, IdleFacts DEF NodeComes
  <1>6. /\ disturbances \in 0 .. MaxDisturbances /\ nodes \in [Clusters -> SUBSET Names]
        /\ config \in Config \union {NoConfig} /\ events \subseteq Keepers /\ unseen \in BOOLEAN
    BY DEF IInv, KubernetesTypeOK
  <1> QED BY <1>1, <1>2, <1>3, <1>4, <1>5, <1>6, IdleFacts, NodeStepKeeps

-----------------------------------------------------------------------------
(* The steps of StaticPodController *)

\* What its steps have in common: the Node, and the secrets, are left alone.
LEMMA PodStepKeeps ==
    ASSUME IInv,
           UNCHANGED <<status, nodename, mtype, secrets, certs, files, ready, address, server, nodes,
                       nodeRound, joins, unseen, excused>>,
           SameConfig, config' \in Config \union {NoConfig},
           "node" \in config'.fin <=> "node" \in config.fin,
           pods' \in [Clusters -> SUBSET (Kinds \X Names)],
           config # NoConfig => \A d \in Clusters \ {config.cluster} : pods'[d] = pods[d],
           podRound' \in Round \union {Idle},
           config # NoConfig /\ podRound' # Idle => podRound'.cluster = config.cluster,
           events' \subseteq Keepers, "node" \in events => "node" \in events',
           disturbances' \in 0 .. MaxDisturbances, unswept' \subseteq Kinds \X Names,
           PodsGo', PodsCome', PodsInOrder'
    PROVE  IInv'
  <1>1. KubernetesTypeOK'
    BY DEF IInv, KubernetesTypeOK
  <1>2. OfOneCluster'
    BY DEF IInv, OfOneCluster, SameConfig
  <1>3. NodeGoes' /\ NodeComes'
    BY NodeAside DEF IInv
  <1> QED BY <1>1, <1>2, <1>3 DEF IInv

\* The round begins with the present name, above which there is none, and the first kind.
LEMMA PodStartKeeps ==
    ASSUME IInv, PodStart
    PROVE  IInv'
  <1>1. UNCHANGED <<config, joins, status, nodename, mtype, secrets, certs, files, ready, address, server,
                    nodes, pods, nodeRound, disturbances, unseen, excused, unswept>>
    BY DEF PodStart, certVars, apiVars, configVars, historyVars
  <1>2. events' = events \ {"pods"}
    BY DEF PodStart
  <1>3. config # NoConfig => config.cluster \in Clusters /\ secrets \in {config.cluster, None}
    BY ConfigFacts DEF IInv, OfOneCluster
  <1>4. \/ podRound' = Idle /\ (config = NoConfig \/ nodename = 0 \/ server = None \/ secrets = None)
        \/ config # NoConfig /\ nodename # 0 /\ podRound' = Begin(config.cluster, TRUE)
    BY <1>3 DEF PodStart
  <1>5. podRound' # Idle =>
          /\ config # NoConfig
          /\ podRound' \in Round /\ podRound'.name = nodename
          /\ podRound'.cluster = config.cluster /\ podRound'.kind = 1
          /\ podRound'.pc = IF config.stage = "tearingDown" THEN "remove" ELSE "hold"
    <2>1. KubernetesTypeOK /\ TRUE \in BOOLEAN
      BY DEF IInv
    <2> QED BY <1>3, <1>4, <2>1, BeginFacts
  <1>6. podRound' = Idle => config = NoConfig \/ nodename = 0 \/ server = None \/ secrets = None
    <2>1. KubernetesTypeOK /\ TRUE \in BOOLEAN
      BY DEF IInv
    <2> QED BY <1>3, <1>4, <2>1, BeginFacts
  <1>7. SameConfig
    BY <1>1 DEF SameConfig
  <1>8. PodsGo'
    BY <1>1, <1>5, IdleFacts DEF IInv, PodsGo
  <1>9. PodsCome'
    <2>1. CASE config.stage # "running"
      BY <1>1, <2>1 DEF PodsCome
    <2>2. CASE config.stage = "running"
      <3>1. config # NoConfig /\ config.stage # "tearingDown"
        BY <2>2, ConfigFacts DEF IInv
      <3>2. \A k \in Kinds : ~(k < 1)
        BY DEF Kinds
      <3>3. podRound'.pc # "remove"
        BY <1>5, <3>1, IdleFacts
      <3> QED BY <1>1, <1>5, <1>6, <3>1, <3>2, <3>3 DEF PodsCome
    <2> QED BY <2>1, <2>2
  <1>10. PodsInOrder'
    <2>1. nodename \in Nat
      BY DEF IInv, KubernetesTypeOK
    <2> QED BY <1>1, <1>5, <2>1 DEF IInv, PodsInOrder
  <1>11. /\ disturbances \in 0 .. MaxDisturbances /\ pods \in [Clusters -> SUBSET (Kinds \X Names)]
         /\ config \in Config \union {NoConfig} /\ events \subseteq Keepers
         /\ unswept \subseteq Kinds \X Names
    BY DEF IInv, KubernetesTypeOK
  <1> QED BY <1>1, <1>2, <1>5, <1>7, <1>8, <1>9, <1>10, <1>11, PodStepKeeps

\* The finalizer is taken on a config that is not torn down, or the round is repeated.
LEMMA PodHoldKeeps ==
    ASSUME IInv, PodHold
    PROVE  IInv'
  <1>1. UNCHANGED <<status, nodename, mtype, secrets, certs, files, ready, address, server, nodes, pods,
                    nodeRound, joins, disturbances, unseen, excused, unswept>>
    BY DEF PodHold, certVars, apiVars, historyVars
  <1>2. /\ disturbances \in 0 .. MaxDisturbances /\ pods \in [Clusters -> SUBSET (Kinds \X Names)]
        /\ unswept \subseteq Kinds \X Names /\ KubernetesTypeOK /\ config.fin \in SUBSET Keepers
        /\ podRound \in Round /\ podRound.pc = "hold" /\ podRound # Idle
    BY ConfigFacts, RoundsTyped, RoundFacts, IdleFacts DEF IInv, KubernetesTypeOK, PodHold, NoConfig
  <1>3. CASE config.stage = "running"
    <2>1. config # NoConfig
      BY <1>3, ConfigFacts DEF IInv
    <2>2. config' = [config EXCEPT !.fin = config.fin \union {"pods"}] /\ podRound' = [podRound EXCEPT !.pc = "write"]
      BY <1>3 DEF PodHold, Hold
    <2>3. events' \subseteq Keepers /\ events \subseteq events'
      BY <1>3 DEF PodHold, Hold, IInv, KubernetesTypeOK
    <2>4. /\ config' \in Config \union {NoConfig} /\ SameConfig
          /\ "node" \in config'.fin <=> "node" \in config.fin
      <3>1. config.fin \union {"pods"} \in SUBSET Keepers
        BY <1>2 DEF Keepers
      <3> QED BY <1>2, <2>1, <2>2, <3>1, FinFacts DEF SameConfig
    <2>5. /\ podRound' \in Round /\ podRound' # Idle /\ podRound'.pc = "write"
          /\ podRound'.name = podRound.name /\ podRound'.cluster = podRound.cluster
          /\ podRound'.kind = podRound.kind
      BY <1>2, <2>2, RoundExcept
    <2>6. podRound'.cluster = config.cluster
      BY <1>2, <2>1, <2>5 DEF IInv, OfOneCluster
    <2>7. PodsGo'
      BY <1>3, <2>1, <2>4 DEF PodsGo, SameConfig
    <2>8. PodsCome'
      BY <1>1, <1>2, <1>3, <2>3, <2>4, <2>5 DEF IInv, PodsCome, SameConfig
    <2>9. PodsInOrder'
      BY <1>1, <1>2, <2>1, <2>4, <2>5 DEF IInv, PodsInOrder, SameConfig
    <2> QED BY <1>1, <1>2, <2>3, <2>4, <2>5, <2>6, <2>7, <2>8, <2>9, PodStepKeeps
  <1>4. CASE config.stage # "running"
    <2>1. /\ config' = config /\ podRound' = Idle
          /\ events' \subseteq Keepers /\ events \subseteq events'
      BY <1>4 DEF PodHold, Wake, Keepers, IInv, KubernetesTypeOK
    <2>2. config' \in Config \union {NoConfig} /\ SameConfig
      BY <2>1 DEF IInv, KubernetesTypeOK, SameConfig
    <2>3. PodsGo'
      BY <1>1, <2>1, IdleFacts DEF IInv, PodsGo
    <2>4. PodsCome'
      BY <1>4, <2>1 DEF PodsCome
    <2>5. PodsInOrder'
      BY <1>1, <2>1 DEF IInv, PodsInOrder
    <2> QED BY <1>1, <1>2, <2>1, <2>2, <2>3, <2>4, <2>5, IdleFacts, PodStepKeeps
  <1> QED BY <1>3, <1>4

\* A call reaches the cluster of the config.
LEMMA PodTarget ==
    ASSUME IInv, podRound # Idle, Reach(podRound)
    PROVE  /\ podRound \in Round /\ Target(podRound) \in Clusters
           /\ PodOfRound = <<podRound.kind, podRound.name>> /\ PodOfRound \in Kinds \X Names
           /\ PodOfRound[2] = podRound.name /\ podRound.name \in Nat
           /\ config # NoConfig => Target(podRound) = config.cluster
  <1>1. podRound \in Round /\ podRound.name \in Names /\ podRound.kind \in Kinds
    BY RoundsTyped, RoundFacts DEF IInv
  <1>2. config # NoConfig => podRound.cluster = config.cluster
    BY DEF IInv, OfOneCluster
  <1>3. Target(podRound) \in Clusters /\ (config # NoConfig => Target(podRound) = config.cluster)
    BY <1>1, <1>2, TargetFacts DEF IInv
  <1> QED BY <1>1, <1>3, NumberFacts DEF PodOfRound

\* Whoever writes or removes is known to hold the config that is torn down, or is excused.
LEMMA WriterHolds ==
    ASSUME IInv, podRound.pc = "write"
    PROVE  /\ config = NoConfig => "pods" \in excused
           /\ config.stage = "tearingDown" => "pods" \in excused \/ "pods" \in config.fin
  BY DEF IInv, PodsGo

\* A pod is there when its kind has been gone through; its creation takes away all the others.
LEMMA PodWriteKeeps ==
    ASSUME IInv, PodWrite
    PROVE  IInv'
  <1> DEFINE c == Target(podRound)
             n == podRound.name
  <1>1. UNCHANGED <<config, joins, status, nodename, mtype, secrets, certs, files, ready, address, server, nodes,
                    nodeRound, events, disturbances, unseen, excused>>
    BY DEF PodWrite, certVars, configVars
  <1>2. podRound.pc = "write" /\ podRound # Idle /\ Reach(podRound)
    BY IdleFacts DEF PodWrite
  <1>3. /\ podRound \in Round /\ c \in Clusters /\ n \in Nat /\ podRound.kind \in Kinds
        /\ PodOfRound = <<podRound.kind, n>> /\ PodOfRound \in Kinds \X Names /\ PodOfRound[2] = n
        /\ config # NoConfig => c = config.cluster
    BY <1>2, PodTarget, RoundFacts
  <1>4. \/ PodOfRound \in pods[c] /\ UNCHANGED <<pods, unswept>>
        \/ /\ pods' = [pods EXCEPT ![c] = {p \in pods[c] : p[2] = n} \union {PodOfRound}]
           /\ unswept' = {}
    BY DEF PodWrite
  <1>5. podRound' = IF podRound.kind = PodKinds THEN Idle ELSE [podRound EXCEPT !.kind = @ + 1]
    BY DEF PodWrite
  <1> HIDE DEF c, n
  <1>6. /\ pods' \in [Clusters -> SUBSET (Kinds \X Names)] /\ unswept' \subseteq Kinds \X Names
        /\ \A d \in Clusters : d # c => pods'[d] = pods[d]
        /\ PodOfRound \in pods'[c] /\ \A p \in pods[c] : p[2] = n => p \in pods'[c]
        /\ \/ pods' = pods /\ unswept' = unswept
           \/ \A p \in pods'[c] : p[2] = n
    <2>1. KubernetesTypeOK /\ pods \in [Clusters -> SUBSET (Kinds \X Names)] /\ unswept \subseteq Kinds \X Names
      BY DEF IInv, KubernetesTypeOK
    <2>2. {p \in pods[c] : p[2] = n} \union {PodOfRound} \in SUBSET (Kinds \X Names)
      BY <1>3, <2>1
    <2> QED BY <1>3, <1>4, <2>1, <2>2, PodsFacts
  <1>7. /\ podRound.kind = PodKinds => podRound' = Idle
        /\ podRound.kind # PodKinds =>
             /\ podRound' \in Round /\ podRound' # Idle /\ podRound'.pc = "write" /\ podRound'.name = n
             /\ podRound'.cluster = podRound.cluster /\ podRound'.kind = podRound.kind + 1
    BY <1>2, <1>3, <1>5, RoundExcept DEF n
  <1>8. PodsGo'
    <2>1. ASSUME config.stage = "tearingDown" PROVE "pods" \in excused \/ "pods" \in config.fin
      BY <1>2, <2>1, WriterHolds
    <2>2. ASSUME config = NoConfig PROVE "pods" \in excused
      BY <1>2, <2>2, WriterHolds
    <2> QED BY <1>1, <2>1, <2>2 DEF PodsGo
  <1>9. PodsCome'
    <2> SUFFICES ASSUME config.stage = "running"
                 PROVE  /\ podRound'.pc # "remove"
                        /\ "pods" \notin events /\ nodename # 0 /\ server # None /\ secrets # None =>
                             /\ podRound' # Idle =>
                                  /\ podRound'.name = nodename
                                  /\ podRound'.pc = "hold" => podRound'.kind = 1
                                  /\ \A k \in Kinds : k < podRound'.kind => <<k, nodename>> \in pods'[config.cluster]
                             /\ podRound' = Idle => Kinds \X {nodename} \subseteq pods'[config.cluster]
      BY <1>1 DEF PodsCome
    <2>1. c = config.cluster
      BY <1>3, ConfigFacts DEF IInv
    <2>2. podRound'.pc # "remove" /\ podRound'.pc # "hold"
      BY <1>7, IdleFacts
    <2>3. ASSUME "pods" \notin events, nodename # 0, server # None, secrets # None
          PROVE  /\ n = nodename
                 /\ \A k \in Kinds : k <= podRound.kind => <<k, nodename>> \in pods'[c]
      <3>1. /\ n = nodename
            /\ \A k \in Kinds : k < podRound.kind => <<k, nodename>> \in pods[c]
        BY <1>2, <2>1, <2>3 DEF IInv, PodsCome, n
      <3>2. \A k \in Kinds : k <= podRound.kind => k < podRound.kind \/ k = podRound.kind
        BY <1>3 DEF Kinds
      <3>3. \A k \in Kinds : k < podRound.kind => <<k, nodename>> \in pods'[c]
        BY <1>6, <3>1
      <3> QED BY <1>3, <1>6, <3>1, <3>2, <3>3
    <2>4. \A k \in Kinds : k < podRound.kind + 1 => k <= podRound.kind
      BY <1>3 DEF Kinds
    <2>5. \A k \in Kinds : k <= PodKinds
      BY NumberFacts
    <2> QED BY <1>7, <2>1, <2>2, <2>3, <2>4, <2>5
  <1>10. PodsInOrder'
    <2>1. CASE config = NoConfig
      BY <1>1, <2>1 DEF PodsInOrder
    <2>2. CASE config # NoConfig
      <3>1. c = config.cluster /\ podRound'  \in {Idle} \union Round /\ (podRound' # Idle => podRound'.name = n)
        BY <1>3, <1>7, <2>2
      <3>2. n <= nodename /\ \A p \in pods[c] : p[2] <= nodename /\ p[2] <= n
        BY <1>2, <2>2, <3>1 DEF IInv, PodsInOrder, n
      <3>3. CASE pods' = pods /\ unswept' = unswept
        BY <1>1, <2>2, <3>1, <3>2, <3>3 DEF IInv, PodsInOrder
      <3>4. CASE \A p \in pods'[c] : p[2] = n
        BY <1>1, <1>3, <2>2, <3>1, <3>2, <3>4 DEF PodsInOrder
      <3> QED BY <1>6, <3>3, <3>4
    <2> QED BY <2>1, <2>2
  <1>11. config # NoConfig /\ podRound' # Idle => podRound'.cluster = config.cluster
    BY <1>2, <1>7 DEF IInv, OfOneCluster
  <1>12. /\ disturbances \in 0 .. MaxDisturbances /\ SameConfig
         /\ config \in Config \union {NoConfig} /\ events \subseteq Keepers
         /\ podRound' \in Round \union {Idle}
    BY <1>1, <1>7 DEF IInv, KubernetesTypeOK, SameConfig
  <1> QED BY <1>1, <1>3, <1>6, <1>8, <1>9, <1>10, <1>11, <1>12, PodStepKeeps

\* A pod whose creation was not followed by the removal is remembered; no other has its name.
LEMMA PodFailsKeeps ==
    ASSUME IInv, PodFails
    PROVE  IInv'
  <1> DEFINE c == Target(podRound)
             n == podRound.name
  <1>1. UNCHANGED <<config, joins, status, nodename, mtype, secrets, certs, files, ready, address, server, nodes,
                    nodeRound, unseen, excused>>
    BY DEF PodFails, certVars, configVars
  <1>2. podRound.pc \in {"write", "remove"} /\ podRound # Idle /\ Reach(podRound) /\ podRound' = Idle
    BY IdleFacts DEF PodFails
  <1>3. /\ c \in Clusters /\ n \in Nat
        /\ PodOfRound \in Kinds \X Names /\ PodOfRound[2] = n
        /\ config # NoConfig => c = config.cluster
    BY <1>2, PodTarget
  <1>4. /\ events' \subseteq Keepers /\ events \subseteq events' /\ "pods" \in events'
        /\ disturbances' \in 0 .. MaxDisturbances
    BY NumberFacts DEF PodFails, Wake, Disturb, Keepers, IInv, KubernetesTypeOK
  <1>5. \/ UNCHANGED <<pods, unswept>>
        \/ /\ podRound.pc = "write"
           /\ pods' = [pods EXCEPT ![c] = pods[c] \union {PodOfRound}]
           /\ unswept' = unswept \union {PodOfRound}
    BY DEF PodFails
  <1> HIDE DEF c, n
  <1>6. /\ pods' \in [Clusters -> SUBSET (Kinds \X Names)] /\ unswept' \subseteq Kinds \X Names
        /\ \A d \in Clusters : d # c => pods'[d] = pods[d]
        /\ \/ UNCHANGED <<pods, unswept>>
           \/ /\ podRound.pc = "write" /\ unswept' = unswept \union {PodOfRound}
              /\ pods'[c] = pods[c] \union {PodOfRound}
    <2>1. KubernetesTypeOK /\ pods \in [Clusters -> SUBSET (Kinds \X Names)] /\ unswept \subseteq Kinds \X Names
      BY DEF IInv, KubernetesTypeOK
    <2>2. pods[c] \union {PodOfRound} \in SUBSET (Kinds \X Names)
      BY <1>3, <2>1
    <2> QED BY <1>3, <1>5, <2>1, <2>2, PodsFacts
  <1>7. PodsGo'
    <2>1. CASE podRound.pc = "write"
      BY <1>1, <1>2, <2>1, WriterHolds, IdleFacts DEF PodsGo
    <2>2. CASE UNCHANGED <<pods, unswept>>
      BY <1>1, <1>2, <2>2, IdleFacts DEF IInv, PodsGo
    <2> QED BY <1>6, <2>1, <2>2
  <1>8. PodsCome'
    BY <1>2, <1>4, IdleFacts DEF PodsCome
  <1>9. PodsInOrder'
    <2>1. CASE config = NoConfig
      BY <1>1, <2>1 DEF PodsInOrder
    <2>2. CASE config # NoConfig
      <3>1. /\ c = config.cluster /\ n <= nodename /\ \A p \in pods[c] : p[2] <= nodename /\ p[2] <= n
            /\ \A p, q \in pods[c] : p[2] = nodename /\ q[2] # nodename => p \in unswept
        BY <1>2, <1>3, <2>2 DEF IInv, PodsInOrder, n
      <3>2. CASE UNCHANGED <<pods, unswept>>
        BY <1>1, <1>2, <3>1, <3>2 DEF PodsInOrder
      <3>3. CASE /\ unswept' = unswept \union {PodOfRound} /\ pods'[c] = pods[c] \union {PodOfRound}
        <4>1. \A p \in pods[c] : p[2] \in Nat
          BY <1>3, PodsTyped DEF IInv
        <4>2. nodename \in Nat
          BY DEF IInv, KubernetesTypeOK
        <4>3. n # nodename => \A p \in pods[c] : p[2] # nodename
          BY <1>3, <3>1, <4>1, <4>2
        <4>4. \A p, q \in pods'[c] : p[2] = nodename /\ q[2] # nodename => p \in unswept'
          BY <1>3, <3>1, <3>3, <4>3
        <4>5. \A p \in pods'[c] : p[2] <= nodename
          BY <1>3, <3>1, <3>3
        <4> QED BY <1>1, <1>2, <3>1, <4>4, <4>5 DEF PodsInOrder
      <3> QED BY <1>6, <3>2, <3>3
    <2> QED BY <2>1, <2>2
  <1>10. config \in Config \union {NoConfig} /\ SameConfig
    BY <1>1 DEF IInv, KubernetesTypeOK, SameConfig
  <1> QED BY <1>1, <1>2, <1>3, <1>4, <1>6, <1>7, <1>8, <1>9, <1>10, IdleFacts, PodStepKeeps

\* All the pods go, before the finalizer does.
LEMMA PodRemoveKeeps ==
    ASSUME IInv, PodRemove
    PROVE  IInv'
  <1> DEFINE c == Target(podRound)
  <1>1. UNCHANGED <<status, nodename, mtype, secrets, certs, files, ready, address, server, nodes, nodeRound,
                    joins, disturbances, unseen, excused>>
    BY DEF PodRemove, certVars
  <1>2. /\ podRound.pc = "remove" /\ podRound # Idle /\ podRound' = Idle /\ config.stage # "running"
        /\ Reach(podRound) /\ unswept' = {} /\ pods' = [pods EXCEPT ![c] = {}]
    BY IdleFacts DEF PodRemove, IInv, PodsCome
  <1>3. /\ config' = [config EXCEPT !.fin = config.fin \ {"pods"}]
        /\ events' \subseteq Keepers /\ events \subseteq events'
    BY DEF PodRemove, Release, IInv, KubernetesTypeOK
  <1>4. KubernetesTypeOK /\ config.fin \in SUBSET Keepers /\ (config = NoConfig => config.fin = {})
    BY ConfigFacts DEF IInv, NoConfig
  <1>5. /\ config' \in Config \union {NoConfig} /\ SameConfig
        /\ "node" \in config'.fin <=> "node" \in config.fin
    <2>1. config.fin \ {"pods"} \in SUBSET Keepers /\ (config = NoConfig => config.fin \ {"pods"} = {})
      BY <1>4
    <2> QED BY <1>3, <1>4, <2>1, FinFacts DEF SameConfig
  <1>6. c \in Clusters /\ (config # NoConfig => c = config.cluster)
    BY <1>2, PodTarget
  <1>7. /\ pods' \in [Clusters -> SUBSET (Kinds \X Names)] /\ pods'[c] = {}
        /\ \A d \in Clusters : d # c => pods'[d] = pods[d]
    <2>1. {} \in SUBSET (Kinds \X Names)
      OBVIOUS
    <2> HIDE DEF c
    <2> QED BY <1>2, <1>4, <1>6, <2>1, PodsFacts
  <1> HIDE DEF c
  <1>8. PodsGo'
    <2>1. ASSUME config = NoConfig, "pods" \notin excused PROVE \A d \in Clusters : pods'[d] = {}
      BY <1>6, <1>7, <2>1 DEF IInv, PodsGo
    <2>2. ASSUME config.stage = "tearingDown" PROVE pods'[config.cluster] = {}
      BY <1>6, <1>7, <2>2, ConfigFacts DEF IInv
    <2> QED BY <1>1, <1>2, <1>5, <2>1, <2>2, IdleFacts DEF PodsGo, SameConfig
  <1>9. PodsCome'
    BY <1>2, <1>5 DEF PodsCome, SameConfig
  <1>10. PodsInOrder'
    BY <1>1, <1>2, <1>5, <1>6, <1>7 DEF PodsInOrder, SameConfig
  <1>11. disturbances \in 0 .. MaxDisturbances
    BY DEF IInv, KubernetesTypeOK
  <1> QED BY <1>1, <1>2, <1>3, <1>5, <1>6, <1>7, <1>8, <1>9, <1>10, <1>11, IdleFacts, PodStepKeeps

\* Whoever gives up has an event to come.
LEMMA PodRetryKeeps ==
    ASSUME IInv, PodRetry
    PROVE  IInv'
  <1>1. UNCHANGED <<config, joins, status, nodename, mtype, secrets, certs, files, ready, address, server,
                    nodes, pods, nodeRound, events, disturbances, unseen, excused, unswept>>
    BY DEF PodRetry, certVars, apiVars, configVars, historyVars
  <1>2. podRound' = Idle /\ "pods" \in events
    BY DEF PodRetry
  <1>3. SameConfig
    BY <1>1 DEF SameConfig
  <1>4. PodsGo'
    BY <1>1, <1>2, IdleFacts DEF IInv, PodsGo
  <1>5. PodsCome'
    BY <1>1, <1>2, IdleFacts DEF PodsCome
  <1>6. PodsInOrder'
    BY <1>1, <1>2 DEF IInv, PodsInOrder
  <1>7. /\ disturbances \in 0 .. MaxDisturbances /\ pods \in [Clusters -> SUBSET (Kinds \X Names)]
        /\ config \in Config \union {NoConfig} /\ events \subseteq Keepers
        /\ unswept \subseteq Kinds \X Names
    BY DEF IInv, KubernetesTypeOK
  <1> QED BY <1>1, <1>2, <1>3, <1>4, <1>5, <1>6, <1>7, IdleFacts, PodStepKeeps

-----------------------------------------------------------------------------
(* The theorems *)

LEMMA StutterKeeps ==
    ASSUME IInv, UNCHANGED vars
    PROVE  IInv'
  BY OtherStep DEF vars, IInv, KubernetesTypeOK, configVars, apiVars, historyVars

LEMMA NextIInv == IInv /\ [Next]_vars => IInv'
  <1> SUFFICES ASSUME IInv, [Next]_vars PROVE IInv'
    OBVIOUS
  <1>1. CASE Environment
    <2>1. ASSUME NEW c \in Clusters, NEW r \in Roles, Join(c, r) PROVE IInv'
      BY <2>1, JoinKeeps
    <2> QED BY <1>1, <2>1, SurroundingsKeep, UpdateKeeps, TeardownKeeps, NodenameKeeps, NodeWriteKeeps,
               PodFailsKeeps DEF Environment
  <1>2. CASE Destroy
    BY <1>2, DestroyKeeps
  <1>3. CASE Translate
    BY <1>3, TranslateKeeps
  <1>4. CASE NodeStep
    BY <1>4, NodeStartKeeps, NodeHoldKeeps, NodeWriteKeeps, NodeRemoveKeeps, NodeRetryKeeps DEF NodeStep
  <1>5. CASE PodStep
    BY <1>5, PodStartKeeps, PodHoldKeeps, PodWriteKeeps, PodRemoveKeeps, PodRetryKeeps DEF PodStep
  <1>6. CASE UNCHANGED vars
    BY <1>6, StutterKeeps
  <1> QED BY <1>1, <1>2, <1>3, <1>4, <1>5, <1>6 DEF Next

\* The inductive invariant holds in every state of the machine.
THEOREM IInvCorrect == Spec => []IInv
  BY InitIInv, NextIInv, PTL DEF Spec

\* The variables keep their types.
THEOREM TypeCorrect == Spec => []KubernetesTypeOK
  <1>1. IInv => KubernetesTypeOK
    BY DEF IInv
  <1> QED BY <1>1, IInvCorrect, PTL

\* A Reset (machined.go) leaves neither the Node nor a static pod behind, except for what was
\* not held when it began and for the single attempt at deleting the Node
\* (kubernetes_node.go), however many pods, Nodenames, updates and failing calls there are.
THEOREM ResetCorrect == Spec => []ResetLeavesNothing
  <1>1. IInv => ResetLeavesNothing
    BY DEF IInv, NodeGoes, PodsGo, ResetLeavesNothing
  <1> QED BY <1>1, IInvCorrect, PTL

\* At rest, what a control plane has is of its cluster, and so it serves it.
LEMMA QuietServes ==
    ASSUME IInv, Quiet, config.stage = "running", config.role = "controlplane"
    PROVE  secrets = config.cluster /\ secrets # None /\ (address => server = config.cluster)
  <1>1. config # NoConfig /\ config.cluster \in Clusters /\ config.cluster # None
    BY ConfigFacts, NumberFacts DEF IInv
  <1>2. secrets = config.cluster /\ certs = config.cluster
    BY DEF Quiet, SecretsOfConfig, CertsOfConfig
  <1>3. files = config.cluster
    BY <1>1, <1>2 DEF Quiet, FilesOfConfig
  <1>4. ready /\ mtype = "controlplane"
    BY <1>1, <1>3 DEF IInv, Quiet, TypeOfMachine
  <1>5. address => server # None
    BY <1>1, <1>4 DEF Quiet, WantServer
  <1> QED BY <1>1, <1>2, <1>5 DEF IInv, OfOneCluster

\* A machine at rest is registered as what it is (kubernetes_node.go, static_pods.go), however
\* often its name changed, its config was updated, its API server went or a call failed.
THEOREM RegisteredCorrect == Spec => []RegisteredAsIs
  <1>1. ASSUME IInv PROVE RegisteredAsIs
    <2> SUFFICES ASSUME Quiet, config.stage = "running", nodename # 0
                 PROVE  LET c == config.cluster
                            own == config.role = "controlplane" /\ address
                        IN  /\ config.role = "worker" /\ ~unseen => nodes[c] = {nodename}
                            /\ own => /\ server = c
                                      /\ nodes[c] = {nodename}
                                      /\ Kinds \X {nodename} \subseteq pods[c]
                                      /\ ~(Kinds \X {nodename} \subseteq unswept) => pods[c] = Kinds \X {nodename}
                            /\ \A d \in Clusters \ {c} : nodes[d] = {} /\ pods[d] = {}
      BY DEF RegisteredAsIs
    <2>1. /\ config # NoConfig /\ config.cluster \in Clusters /\ config.cluster # None
          /\ nodeRound = Idle /\ podRound = Idle /\ "node" \notin events /\ "pods" \notin events
      BY <1>1, ConfigFacts, NumberFacts DEF IInv, Quiet
    <2>2. \/ nodes[config.cluster] = {nodename}
          \/ config.role = "worker" /\ unseen
          \/ config.role = "controlplane" /\ secrets = None
      BY <1>1, <2>1 DEF IInv, NodeComes
    <2>3. config.role = "controlplane" => secrets # None /\ (address => server = config.cluster)
      BY <1>1, QuietServes
    <2>4. ASSUME config.role = "controlplane", address
          PROVE  Kinds \X {nodename} \subseteq pods[config.cluster]
      BY <1>1, <2>1, <2>3, <2>4 DEF IInv, PodsCome
    <2>5. ASSUME config.role = "controlplane", address, ~(Kinds \X {nodename} \subseteq unswept)
          PROVE  pods[config.cluster] = Kinds \X {nodename}
      <3>1. Kinds \X {nodename} \subseteq pods[config.cluster]
        BY <2>4, <2>5
      <3>2. PICK p \in Kinds \X {nodename} : p \notin unswept
        BY <2>5
      <3>3. p \in pods[config.cluster] /\ p[2] = nodename
        BY <3>1, <3>2
      <3>4. \A q \in pods[config.cluster] : q[2] = nodename
        BY <1>1, <2>1, <3>2, <3>3 DEF IInv, PodsInOrder
      <3>5. pods[config.cluster] \subseteq Kinds \X Names
        BY <1>1, <2>1, PodsTyped DEF IInv
      <3>6. pods[config.cluster] \subseteq Kinds \X {nodename}
        <4>1. \A q \in Kinds \X Names : q[2] = nodename => q \in Kinds \X {nodename}
          OBVIOUS
        <4> QED BY <3>4, <3>5, <4>1
      <3> QED BY <3>1, <3>6
    <2>6. \A d \in Clusters \ {config.cluster} : nodes[d] = {} /\ pods[d] = {}
      BY <1>1, <2>1 DEF IInv, OfOneCluster
    <2> QED BY <2>2, <2>3, <2>4, <2>5, <2>6
  <1> QED BY <1>1, IInvCorrect, PTL

=============================================================================
