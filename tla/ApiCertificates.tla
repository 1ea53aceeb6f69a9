--------------------------- MODULE ApiCertificates ---------------------------
(***************************************************************************)
(* Where the certificates of APID come from: MachineTypeController and     *)
(* RootOSController translate the machine config into the MachineType and  *)
(* secrets.OSRoot, APICertSANsController adds the names and addresses of   *)
(* the machine, and GRPCTLSController issues secrets.API out of these:     *)
(* a control plane signs for itself, a worker asks trustd to sign.         *)
(*                                                                         *)
(* The first three are enabled exactly while their output is not what the  *)
(* inputs say.  GRPCTLSController loops inside a loop, each with inputs    *)
(* of its own, so that which events wake it is part of its state.          *)
(* ApidListener follows the certificates; what the two have in common are  *)
(* the address of the machine and the event that wakes APIDController.     *)
(***************************************************************************)
EXTENDS Naturals

CONSTANTS
    Addresses,    \* SideroLink addresses
    NoAddress,    \* no SideroLink address: netip.Prefix{}
    Certs,        \* API certificates, told apart by the CA of the cluster that signs them
    NoCerts,      \* no secrets.API resource: the maintenance (insecure) mode
    MaxChanges,   \* bound on the changes of the address, the config and the RebootStatus
    MaxFailures   \* bound on the number of operations that fail

ASSUME ValueAssumption ==
    /\ Addresses # {} /\ NoAddress \notin Addresses
    /\ NoCerts \notin Certs
ASSUME BoundAssumption == MaxChanges \in Nat /\ MaxFailures \in Nat

VARIABLES
    address,      \* the AddressStatus of the SideroLink link
    config,       \* the complete MachineConfig
    mtype,        \* MachineType
    root,         \* secrets.OSRoot: the config it was made of
    named,        \* are there a HostnameStatus and a NodeAddress?
    sans,         \* is there a CertSAN?
    api,          \* secrets.API
    tls,          \* GRPCTLSController: its loop, its inputs, the certificate it asked for
    woken,        \* an event waits in its channel
    pending,      \* an event waits in the channel of APIDController
    changes,      \* changes of the inputs so far
    failures,     \* operations failed so far
    passedOver    \* history: a round ended because the role had changed to another one

pipelineVars == <<config, mtype, root, named, sans, api, tls, woken, passedOver>>

-----------------------------------------------------------------------------

Roles == {"controlplane", "worker"}
Configs == [role : Roles, ca : Certs]
NoConfig == [role |-> "none", ca |-> NoCerts]

\* The inputs of the outer loop, and of the inner one for a role. The endpoint of Omni's
\* trustd, an input as well, is there from the start.
OuterInputs == {"type"}
InnerInputs(role) ==
    {"type", "root", "sans"} \union (IF role = "worker" THEN {"address"} ELSE {})

Tls == [role : Roles \union {"none"}, inputs : {OuterInputs} \union {InnerInputs(r) : r \in Roles},
        asked : Certs \union {NoCerts}]

CertificatesTypeOK ==
    /\ address \in Addresses \union {NoAddress}
    /\ config \in Configs \union {NoConfig} /\ root \in Configs \union {NoConfig}
    /\ mtype \in Roles \union {"absent", "unknown"}
    /\ named \in BOOLEAN /\ sans \in BOOLEAN
    /\ api \in Certs \union {NoCerts}
    /\ tls \in Tls
    /\ tls.asked # NoCerts => tls.role = "worker"
    /\ woken \in BOOLEAN /\ pending \in BOOLEAN /\ passedOver \in BOOLEAN
    /\ changes \in 0 .. MaxChanges /\ failures \in 0 .. MaxFailures

\* SideroLink may be up before the first rounds.
FirstAddress == CHOOSE a \in Addresses : TRUE

CertificatesInit ==
    /\ address \in {NoAddress, FirstAddress} /\ config = NoConfig
    /\ mtype = "absent" /\ root = NoConfig
    /\ named = FALSE /\ sans = FALSE /\ api = NoCerts
    /\ tls = [role |-> "none", inputs |-> OuterInputs, asked |-> NoCerts]
    /\ woken = TRUE /\ pending = TRUE
    /\ changes = 0 /\ failures = 0 /\ passedOver = FALSE

Change == changes < MaxChanges /\ changes' = changes + 1

\* An input of GRPCTLSController changes.
Changed(input) == woken' = (woken \/ input \in tls.inputs)

-----------------------------------------------------------------------------
(* The inputs: SideroLink, ApplyConfiguration and Reset, the hostname *)

SetAddress(a) ==
    /\ address # a /\ address' = a /\ Change
    /\ pending' = TRUE /\ Changed("address")
    /\ UNCHANGED <<config, mtype, root, named, sans, api, tls, failures, passedOver>>

SetConfig(c) ==
    /\ config # c /\ config' = c /\ Change
    /\ pending' = TRUE
    /\ UNCHANGED <<address, mtype, root, named, sans, api, tls, woken, failures, passedOver>>

SetNamed ==
    /\ ~named /\ named' = TRUE
    /\ UNCHANGED <<address, config, mtype, root, sans, api, tls, woken, pending, changes, failures, passedOver>>

-----------------------------------------------------------------------------
(* The controllers that translate *)

TypeOfConfig == IF config = NoConfig THEN "unknown" ELSE config.role

WriteType ==
    /\ mtype # TypeOfConfig /\ mtype' = TypeOfConfig
    /\ Changed("type")
    /\ UNCHANGED <<address, config, root, named, sans, api, tls, pending, changes, failures, passedOver>>

WriteRoot ==
    /\ root # config /\ root' = config
    /\ Changed("root")
    /\ UNCHANGED <<address, config, mtype, named, sans, api, tls, pending, changes, failures, passedOver>>

\* Without a root the names go; with one they wait for the hostname and the addresses.
WriteSans ==
    /\ IF root = NoConfig THEN sans ELSE named /\ ~sans
    /\ sans' = ~sans
    /\ Changed("sans")
    /\ UNCHANGED <<address, config, mtype, root, named, api, tls, pending, changes, failures, passedOver>>

Translate == WriteType \/ WriteRoot \/ WriteSans

-----------------------------------------------------------------------------
(* GRPCTLSController *)

\* What a round leaves alone, whatever it does.
Untouched == UNCHANGED <<address, config, mtype, root, named, sans, changes>>

Issue(c) == api' = c /\ pending' = TRUE
Destroy == api' = NoCerts /\ pending' = (pending \/ api # NoCerts)
Keep == UNCHANGED <<api, pending>>

Outside == tls.role = "none" /\ woken
Inside == tls.role # "none" /\ tls.asked = NoCerts /\ woken

\* The outer loop, before the machine has a type it can work with ...
OuterWait ==
    /\ Outside /\ mtype \notin Roles
    /\ tls' = [tls EXCEPT !.inputs = OuterInputs]
    /\ woken' = FALSE
    /\ IF mtype = "unknown" THEN Destroy ELSE Keep
    /\ Untouched /\ UNCHANGED <<failures, passedOver>>

Entered(role) == [role |-> role, inputs |-> InnerInputs(role), asked |-> NoCerts]

\* Variant at fault: nothing queues the first round of the inner loop.
EnterUnqueued ==
    /\ Outside /\ mtype \in Roles
    /\ tls' = Entered(mtype)
    /\ woken' = FALSE
    /\ Keep /\ Untouched /\ UNCHANGED <<failures, passedOver>>

\* ... and the start of the inner loop for its type, with a round of it queued.
Enter ==
    /\ Outside /\ mtype \in Roles
    /\ tls' = Entered(mtype)
    /\ woken' = TRUE
    /\ Keep /\ Untouched /\ UNCHANGED <<failures, passedOver>>

\* Variant at fault: the certificates stay for the next role.
LeaveKeeping ==
    /\ Inside /\ mtype # tls.role
    /\ tls' = [tls EXCEPT !.role = "none"]
    /\ woken' = FALSE
    /\ passedOver' = (passedOver \/ mtype \in Roles)
    /\ Keep /\ Untouched /\ UNCHANGED failures

\* The type is another one: back to the outer loop, which waits for the next event.
Leave ==
    /\ Inside /\ mtype # tls.role
    /\ tls' = [tls EXCEPT !.role = "none"]
    /\ woken' = FALSE
    /\ Destroy
    /\ passedOver' = (passedOver \/ mtype \in Roles)
    /\ Untouched /\ UNCHANGED failures

Proceed == Inside /\ mtype = tls.role

RootGone ==
    /\ Proceed /\ root = NoConfig
    /\ woken' = FALSE
    /\ Destroy
    /\ Untouched /\ UNCHANGED <<tls, failures, passedOver>>

\* No names yet, or the root of a worker, which has no key to sign with.
InnerWait ==
    /\ Proceed /\ root # NoConfig
    /\ ~sans \/ (tls.role = "controlplane" /\ root.role = "worker")
    /\ woken' = FALSE
    /\ Keep /\ Untouched /\ UNCHANGED <<tls, failures, passedOver>>

Sign ==
    /\ Proceed /\ root.role = "controlplane" /\ sans /\ tls.role = "controlplane"
    /\ woken' = FALSE
    /\ Issue(root.ca)
    /\ Untouched /\ UNCHANGED <<tls, failures, passedOver>>

\* A controller that fails is started again, in its outer loop and with an event.
Restart == tls' = [tls EXCEPT !.role = "none", !.asked = NoCerts] /\ woken' = TRUE

\* A worker asks from its SideroLink address, and fails without one ...
AskFails ==
    /\ Proceed /\ root # NoConfig /\ sans /\ tls.role = "worker" /\ address = NoAddress
    /\ Restart
    /\ Keep /\ Untouched /\ UNCHANGED <<failures, passedOver>>

Ask ==
    /\ Proceed /\ root # NoConfig /\ sans /\ tls.role = "worker" /\ address # NoAddress
    /\ tls' = [tls EXCEPT !.asked = root.ca]
    /\ woken' = FALSE
    /\ Keep /\ Untouched /\ UNCHANGED <<failures, passedOver>>

\* ... until trustd has signed ...
Signed ==
    /\ tls.asked # NoCerts
    /\ Issue(tls.asked)
    /\ tls' = [tls EXCEPT !.asked = NoCerts]
    /\ Untouched /\ UNCHANGED <<woken, failures, passedOver>>

\* ... or an event comes first and is put back for the next round ...
Cancelled ==
    /\ tls.asked # NoCerts /\ woken
    /\ tls' = [tls EXCEPT !.asked = NoCerts]
    /\ Keep /\ Untouched /\ UNCHANGED <<woken, failures, passedOver>>

\* ... or trustd cannot be reached or refuses.
Refused ==
    /\ tls.asked # NoCerts /\ failures < MaxFailures
    /\ failures' = failures + 1
    /\ Restart
    /\ Keep /\ Untouched /\ UNCHANGED passedOver

-----------------------------------------------------------------------------

TlsRound == OuterWait \/ Enter \/ Leave \/ RootGone \/ InnerWait \/ Sign \/ Ask \/ Signed \/ Cancelled

CertificatesEnvironment ==
    \/ \E a \in Addresses \union {NoAddress} : SetAddress(a)
    \/ \E c \in Configs \union {NoConfig} : SetConfig(c)
    \/ SetNamed

CertificatesFail == AskFails \/ Refused
=============================================================================
