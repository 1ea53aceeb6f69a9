----------------------------- MODULE Discovery -----------------------------
(***************************************************************************)
(* Cluster discovery of one machine.  The machine config gives it a        *)
(* discovery cluster (ConfigController) and an identity that lasts until   *)
(* the config goes (NodeIdentityController).  LocalAffiliateController     *)
(* describes the machine in an Affiliate, DiscoveryServiceController       *)
(* exchanges it with the discovery service for the raw Affiliates of the   *)
(* others, AffiliateMergeController merges those with it into one list,    *)
(* and MemberController names the members by node name.                    *)
(*                                                                         *)
(* A controller is run when one of its inputs changed (events).  A round   *)
(* is one action, or two where another controller can get in its way.      *)
(* The discovery service and its client are a library, external; the       *)
(* service keeps an affiliate until its TTL ends, and a client lists all   *)
(* affiliates of its cluster but its own.                                  *)
(***************************************************************************)
EXTENDS Integers

CONSTANTS
    Clusters,    \* the discovery clusters; the other machine in each has its name
    Disabled,    \* the cluster of a config without discovery
    KubernetesOnly, \* that of a config without the discovery service: Kubernetes is the registry
    NoConfig,    \* the machine has no complete config
    Self,        \* the node name of this machine
    MaxApplies,  \* bound on the configs applied
    MaxFacts,    \* bound on the versions of hostname, address, Talos version
    MaxFailures  \* bound on the failures of the discovery client

Peers == Clusters
Ids == 1 .. MaxApplies
Nodes == Ids \union Peers
Configs == Clusters \union {Disabled, KubernetesOnly}

ASSUME DiscoveryAssumption ==
    /\ Disabled \notin Clusters /\ KubernetesOnly \notin Clusters \union {Disabled}
    /\ NoConfig \notin Configs
    /\ Self \notin Peers /\ Peers \intersect Int = {}
    /\ MaxApplies \in Nat /\ MaxFacts \in Nat /\ MaxFailures \in Nat

VARIABLES
    config,      \* the cluster of the machine config
    applies, failures,
    facts,       \* version of what describes the machine, 0 before all of it is there
    discovery,   \* cluster.Config: its cluster, and its version, 0 if it does not exist
    identity,    \* cluster.Identity, 0 if there is none
    lastId,      \* the identity generated last
    affiliates,  \* Affiliates in NamespaceName: node -> owner and facts
    keep,        \* LocalAffiliateController: the affiliate it is about to keep, or idle
    raw,         \* Affiliates in RawNamespaceName: node -> facts, 0 if there is none
    members,     \* Members: node name -> node and facts
    ctrl,        \* DiscoveryServiceController
    client,      \* its discovery client
    service,     \* cluster -> identity of this machine -> facts advertised
    events,      \* the controllers that have an event
    missed       \* history: did ctrl miss that its cluster.Config was another one?

envVars == <<config, applies, failures, facts>>
resourceVars == <<discovery, identity, lastId, missed>>
vars == <<envVars, resourceVars, affiliates, keep, raw, members, ctrl, client, service, events>>

-----------------------------------------------------------------------------

Controllers == {"config", "identity", "local", "service", "merge", "member"}
Idle == -1
Facts == 0 .. MaxFacts

NoAffiliate == [owner |-> "none", facts |-> 0]
NoMember == [id |-> 0, facts |-> 0]
NoResource == [cluster |-> Disabled, version |-> 0]
Resource == [cluster : Configs, version : 0 .. MaxApplies]
NoOne == [n \in Nodes |-> 0]
NoClient == [on |-> FALSE, cluster |-> Disabled, id |-> 0, sent |-> 0, dirty |-> FALSE,
             known |-> NoOne]

\* A client connects for the identity and the config its controller remembers.
DiscoveryTypeOK ==
    /\ config \in Configs \union {NoConfig}
    /\ applies \in 0 .. MaxApplies /\ failures \in 0 .. MaxFailures /\ facts \in Facts
    /\ discovery \in Resource
    /\ lastId \in 0 .. applies /\ identity \in {0, lastId}
    /\ affiliates \in [Nodes -> [owner : {"none", "local", "merge"}, facts : Facts \union {1}]]
    /\ keep \in {Idle, 0} \union Ids
    /\ raw \in [Nodes -> Facts \union {1}]
    /\ members \in [{Self} \union Peers -> [id : {0} \union Nodes, facts : Facts \union {1}]]
    /\ ctrl \in [version : 0 .. MaxApplies, id : {0} \union Ids]
    /\ client.on => client.cluster \in Clusters /\ client.id = ctrl.id /\ client.id # 0
    /\ client.known \in [Nodes -> Facts \union {1}] /\ client.sent \in Facts
    /\ service \in [Clusters -> [Ids -> Facts]]
    /\ events \subseteq Controllers
    /\ missed \in BOOLEAN

Init ==
    /\ config = NoConfig /\ applies = 0 /\ failures = 0 /\ facts = 0
    /\ discovery = NoResource /\ identity = 0 /\ lastId = 0 /\ missed = FALSE
    /\ affiliates = [n \in Nodes |-> NoAffiliate]
    /\ keep = Idle
    /\ raw = NoOne
    /\ members = [x \in {Self} \union Peers |-> NoMember]
    /\ ctrl = [version |-> 0, id |-> 0]
    /\ client = NoClient
    /\ service = [c \in Clusters |-> [i \in Ids |-> 0]]
    /\ events = {}

Wake(old, new, who) == IF old = new THEN {} ELSE who

-----------------------------------------------------------------------------
(* The config and the facts *)

\* ApplyConfiguration and Reset; another config may come at any time.
Configure(c) ==
    /\ c # config
    /\ applies' = IF c = NoConfig THEN applies ELSE applies + 1
    /\ applies' <= MaxApplies
    /\ config' = c
    /\ events' = events \union {"config", "identity"}
    /\ UNCHANGED <<failures, facts, resourceVars, affiliates, keep, raw, members, ctrl, client, service>>

\* The hostname, the addresses or the Talos version change.
Learn ==
    /\ facts < MaxFacts
    /\ facts' = facts + 1
    /\ events' = events \union {"local"}
    /\ UNCHANGED <<config, applies, failures, resourceVars, affiliates, keep, raw, members, ctrl, client, service>>

\* A cluster.Config that is created again starts over with version 1.
TransformConfig ==
    /\ "config" \in events
    /\ discovery' = IF config = NoConfig THEN NoResource
                    ELSE IF discovery.version > 0 /\ discovery.cluster = config THEN discovery
                    ELSE [cluster |-> config, version |-> discovery.version + 1]
    /\ missed' = \/ missed
                 \/ /\ discovery' # discovery /\ discovery'.version > 0
                    /\ client.on /\ ctrl.version = discovery'.version
    /\ events' = (events \ {"config"}) \union Wake(discovery, discovery', {"local", "service"})
    /\ UNCHANGED <<envVars, identity, lastId, affiliates, keep, raw, members, ctrl, client, service>>

GenerateIdentity ==
    /\ "identity" \in events
    /\ IF config = NoConfig THEN identity' = 0 /\ UNCHANGED lastId
       ELSE IF identity # 0 THEN UNCHANGED <<identity, lastId>>
       ELSE lastId' = lastId + 1 /\ identity' = lastId'
    /\ events' = (events \ {"identity"}) \union Wake(identity, identity', {"local", "service"})
    /\ UNCHANGED <<envVars, discovery, missed, affiliates, keep, raw, members, ctrl, client, service>>

-----------------------------------------------------------------------------
(* The Affiliates of this machine and of the others *)

\* The controllers that have the changed affiliates among their inputs.
Affected == Wake(affiliates, affiliates', {"member"})
            \union (IF ctrl.id # 0 THEN Wake(affiliates[ctrl.id], affiliates'[ctrl.id], {"service"}) ELSE {})

Owned(who) == {n \in Nodes : affiliates[n].owner = who}

\* A set of affiliates is destroyed.
Without(S) == [n \in Nodes |-> IF n \in S THEN NoAffiliate ELSE affiliates[n]]

\* LocalAffiliateController, up to the write: there is an affiliate as soon as there is a
\* registry, be it Kubernetes, which nobody reads ...
WriteLocal ==
    /\ keep = Idle /\ "local" \in events
    /\ \/ /\ discovery.version = 0
          /\ affiliates' = Without(Owned("local")) /\ UNCHANGED keep
       \/ /\ discovery.version > 0 /\ (identity = 0 \/ facts = 0)
          /\ UNCHANGED <<affiliates, keep>>
       \/ /\ discovery.version > 0 /\ identity # 0 /\ facts # 0
          /\ IF discovery.cluster = Disabled
             THEN keep' = 0 /\ UNCHANGED affiliates
             ELSE /\ affiliates[identity].owner # "merge"
                  /\ affiliates' = [affiliates EXCEPT ![identity] = [owner |-> "local", facts |-> facts]]
                  /\ keep' = identity
    /\ events' = (events \ {"local"}) \union Affected
    /\ UNCHANGED <<envVars, resourceVars, raw, members, ctrl, client, service>>

\* ... and the cleanup of the affiliates of former identities.
CleanupLocal ==
    /\ keep # Idle
    /\ affiliates' = Without(Owned("local") \ {keep})
    /\ keep' = Idle
    /\ events' = events \union Affected
    /\ UNCHANGED <<envVars, resourceVars, raw, members, ctrl, client, service>>

Merged(S) == [n \in Nodes |-> IF n \in S THEN [owner |-> "merge", facts |-> raw[n]] ELSE affiliates[n]]

\* Variant at fault: affiliates that are not reported any more are not cleaned up.
MergeKeeping ==
    LET reported == {n \in Nodes : raw[n] # 0}
        foreign == reported \intersect Owned("local")
    IN  /\ "merge" \in events
        /\ \/ foreign = {} /\ affiliates' = Merged(reported) /\ events' = (events \ {"merge"}) \union Affected
           \/ /\ foreign # {}
              /\ \E S \in SUBSET (reported \ foreign) : affiliates' = Merged(S)
              /\ events' = events \union Affected
        /\ UNCHANGED <<envVars, resourceVars, keep, raw, members, ctrl, client, service>>

\* AffiliateMergeController.  An affiliate that LocalAffiliateController still owns, of a
\* former identity, cannot be written: the round fails after some of the others, and
\* is repeated.
MergeAffiliates ==
    LET reported == {n \in Nodes : raw[n] # 0}
        foreign == reported \intersect Owned("local")
    IN  /\ "merge" \in events
        /\ \/ /\ foreign = {}
              /\ affiliates' = [n \in Nodes |-> IF n \in Owned("merge") \ reported THEN NoAffiliate
                                                ELSE Merged(reported)[n]]
              /\ events' = (events \ {"merge"}) \union Affected
           \/ /\ foreign # {}
              /\ \E S \in SUBSET (reported \ foreign) : affiliates' = Merged(S)
              /\ events' = events \union Affected
        /\ UNCHANGED <<envVars, resourceVars, keep, raw, members, ctrl, client, service>>

\* MemberController.  Affiliates of one node name overwrite each other.
ListMembers ==
    LET named(x) == {n \in Nodes : affiliates[n].owner # "none" /\ x = (IF n \in Ids THEN Self ELSE n)}
    IN  /\ "member" \in events
        /\ members' \in [{Self} \union Peers -> {NoMember} \union {[id |-> n, facts |-> affiliates[n].facts] : n \in Nodes}]
        /\ \A x \in {Self} \union Peers :
              IF named(x) = {} THEN members'[x] = NoMember ELSE members'[x].id \in named(x)
        /\ events' = events \ {"member"}
        /\ UNCHANGED <<envVars, resourceVars, affiliates, keep, raw, ctrl, client, service>>

-----------------------------------------------------------------------------
(* DiscoveryServiceController *)

\* Variant at fault: a change of the identity does not make the client reconnect.
UsableSameVersion == ctrl.version = discovery.version

\* The client stays as long as neither the version of the config nor the identity changes.
Usable == ctrl.version = discovery.version /\ identity \in {0, ctrl.id}

Current == IF client.on /\ Usable THEN client ELSE NoClient

\* There is an identity and its affiliate.
Described == identity # 0 /\ affiliates[identity] # NoAffiliate

\* Without the discovery service the client and the raw affiliates go.
Disconnect ==
    /\ discovery.cluster \notin Clusters
    /\ client' = NoClient /\ raw' = NoOne
    /\ UNCHANGED ctrl

\* Without an identity or its affiliate there is nothing to connect for yet.
Await ==
    /\ discovery.cluster \in Clusters
    /\ ~Described
    /\ client' = Current
    /\ ctrl' = IF identity = 0 THEN ctrl ELSE [ctrl EXCEPT !.id = identity]
    /\ UNCHANGED raw

\* Variant at fault: the local data is sent again in every round.
ExchangeAlways ==
    /\ discovery.cluster \in Clusters
    /\ Described
    /\ LET c == IF Current.on THEN client
                ELSE [NoClient EXCEPT !.on = TRUE, !.cluster = discovery.cluster, !.id = identity]
       IN  /\ client' = [c EXCEPT !.sent = affiliates[identity].facts, !.dirty = TRUE]
           /\ raw' = c.known
    /\ ctrl' = [version |-> discovery.version, id |-> identity]

\* The local data is sent only if it changed since this client sent it last.  A new
\* client knows of nobody yet, so that all raw affiliates go until it does.
Exchange ==
    /\ discovery.cluster \in Clusters
    /\ Described
    /\ LET c == IF Current.on THEN client
                ELSE [NoClient EXCEPT !.on = TRUE, !.cluster = discovery.cluster, !.id = identity]
           new == affiliates[identity].facts
       IN  /\ client' = [c EXCEPT !.sent = new, !.dirty = @ \/ c.sent # new]
           /\ raw' = c.known
    /\ ctrl' = [version |-> discovery.version, id |-> identity]

Reconcile ==
    /\ "service" \in events
    /\ Disconnect \/ Await \/ Exchange
    /\ events' = (events \ {"service"}) \union Wake(raw, raw', {"merge"})
    /\ UNCHANGED <<envVars, resourceVars, affiliates, keep, members, service>>

-----------------------------------------------------------------------------
(* The discovery client and the service *)

\* What the service tells a client.
Listed == [n \in Nodes |-> IF n \in Peers THEN (IF n = client.cluster THEN 1 ELSE 0)
                           ELSE IF n = client.id THEN 0 ELSE service[client.cluster][n]]

\* The client notifies the controller of every update it gets, that of itself included.
ClientSync ==
    /\ client.on /\ (client.dirty \/ client.known # Listed)
    /\ service' = [service EXCEPT ![client.cluster][client.id] = IF client.dirty THEN client.sent ELSE @]
    /\ client' = [client EXCEPT !.dirty = FALSE, !.known = Listed]
    /\ events' = events \union {"service"}
    /\ UNCHANGED <<envVars, resourceVars, affiliates, keep, raw, members, ctrl>>

\* An error of the client ends the controller as well, which is started again with what
\* its struct remembers.
ClientFails ==
    /\ client.on /\ failures < MaxFailures
    /\ failures' = failures + 1
    /\ client' = NoClient
    /\ events' = events \union {"service"}
    /\ UNCHANGED <<config, applies, facts, resourceVars, affiliates, keep, raw, members, ctrl, service>>

\* The TTL of an affiliate nobody refreshes.
Expire ==
    \E c \in Clusters, i \in Ids :
        /\ service[c][i] # 0
        /\ ~(client.on /\ client.cluster = c /\ client.id = i)
        /\ service' = [service EXCEPT ![c][i] = 0]
        /\ UNCHANGED <<envVars, resourceVars, affiliates, keep, raw, members, ctrl, client, events>>

-----------------------------------------------------------------------------

ControllerStep ==
    \/ TransformConfig \/ GenerateIdentity \/ WriteLocal \/ CleanupLocal
    \/ MergeAffiliates \/ ListMembers \/ Reconcile

Next ==
    \/ \E c \in Configs \union {NoConfig} : Configure(c)
    \/ Learn
    \/ ControllerStep
    \/ ClientSync \/ ClientFails \/ Expire

\* While a controller has an event or is in the middle of a round, the client has something
\* to exchange, or a TTL runs, one of them goes on; which one may be chosen unfairly.
Fairness == WF_vars(ControllerStep \/ ClientSync \/ Expire)

DiscoverySpec == Init /\ [][Next]_vars /\ Fairness

-----------------------------------------------------------------------------
(* What the controllers promise *)

\* Nobody has anything to do.
Quiet ==
    /\ events = {} /\ keep = Idle
    /\ client.on => ~client.dirty /\ client.known = Listed

Joined == config \in Clusters /\ facts # 0
Registered == config = KubernetesOnly /\ facts # 0

\* When all six controllers have run dry, in whatever order the changes of config, identity,
\* facts and service reached them, the service has the machine under its present identity with
\* its present facts, and the members are the machines the service has for that cluster; a
\* former identity of the machine may stand in for it until its TTL ends.  Without the service
\* the machine is the only member, and without a registry there is none.  Not so if the service
\* controller missed that the config is another one.
QuietIsCurrent ==
    Quiet /\ ~missed =>
        /\ Joined =>
              /\ service[config][identity] = facts
              /\ \A p \in Peers : members[p] # NoMember <=> p = config
              /\ \/ members[Self] = [id |-> identity, facts |-> facts]
                 \/ /\ members[Self].id \in Ids \ {identity}
                    /\ members[Self].facts = service[config][members[Self].id]
                    /\ members[Self].facts # 0
        /\ ~Joined => ~client.on /\ \A p \in Peers : members[p] = NoMember
        /\ ~Joined => members[Self] = IF Registered THEN [id |-> identity, facts |-> facts] ELSE NoMember

\* The exchange with the service comes to rest: no feedback from the notification of an own
\* update, no conflict between two owners of an Affiliate and no failure of the client keeps the
\* controllers running for ever once the config and the facts stay as they are.
SettlesDown == <>[]Quiet
=============================================================================
