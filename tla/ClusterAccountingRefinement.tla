--------------------- MODULE ClusterAccountingRefinement ---------------------
(***************************************************************************)
(* ClusterAccounting implements ClusterMembership when clients serialise   *)
(* joins against resets and no join is cut short: what the store holds and *)
(* where the one membership call of a machine has got to is its place.     *)
(***************************************************************************)
EXTENDS ClusterAccounting

CallAt(m, pcs) == \E k \in Callers : call[k].machine = m /\ call[k].pc \in pcs

Stage(m) ==
    IF Complete(m)
    THEN CASE CallAt(m, {"find", "create", "count"}) -> "joined"
           [] CallAt(m, {"label"}) -> "counted"
           [] OTHER -> "in"
    ELSE CASE CallAt(m, {"look", "discount"}) -> "leaving"
           [] CallAt(m, {"dispose", "unlabel"}) -> "left"
           [] OTHER -> "out"

\* The role and the cluster are those of the config, and once it is gone those that
\* the Reset which destroyed it goes on with.
Place(m) ==
    LET leaver == CHOOSE k \in Callers : call[k].machine = m /\ call[k].pc \in ResetPC
    IN CASE Complete(m) -> [stage |-> Stage(m), role |-> config[m].kind,
                            cluster |-> config[m].cluster]
         [] Stage(m) \in {"leaving", "left"} -> [stage |-> Stage(m), role |-> call[leaver].kind,
                                                 cluster |-> call[leaver].cluster]
         [] OTHER -> [stage |-> "out", role |-> "none", cluster |-> NoCluster]

Membership == INSTANCE ClusterMembership WITH
    place <- [m \in Machines |-> Place(m)],
    status <- [c \in Clusters |-> [phase |-> cluster[c].phase,
                                   bootstrapped |-> cluster[c].bootstrapped]]

\* The calls of concurrent clients, interleaved at every store operation and with the
\* finalizers and the cleanup of the controllers, look like atomic changes of place;
\* the status of a cluster is torn down only while no machine holds it.
ImplementsMembership == Membership!MembershipSpec
=============================================================================
