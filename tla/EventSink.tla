------------------------------ MODULE EventSink ------------------------------
(***************************************************************************)
(* The event sink of one machine.  The Handler watches the SideroLink      *)
(* address and, for every new address, winds the publishers down and       *)
(* starts new ones, bound to it.  One publisher per resource watches the   *)
(* Service or the MachineStatus and sends each version of it to the sink,  *)
(* from inside the update of EventSinkState that records it.               *)
(*                                                                         *)
(* A version stands for the content of the resource.  EventSinkState holds *)
(* one version per resource type, and its update is retried on conflict.   *)
(***************************************************************************)
EXTENDS Integers

CONSTANTS
    Services,        \* the v1alpha1.Service resources: apid, etcd, kubelet
    MachineStatus,   \* the runtime.MachineStatus
    MaxVersion,      \* bound on the versions of a resource
    MaxMoves,        \* bound on the changes of the SideroLink address
    MaxSendFailures  \* bound on the publications that fail

ASSUME ResourceAssumption == MachineStatus \notin Services
ASSUME BoundAssumption == MaxVersion \in Nat /\ MaxMoves \in Nat /\ MaxSendFailures \in Nat

Resources == Services \union {MachineStatus}

\* The key of a resource in EventSinkState.
TypeOf(r) == IF r \in Services THEN "Service" ELSE "MachineStatus"
Types == {"Service", "MachineStatus"}

VARIABLES
    version,      \* resource -> its version in the state, 0 before it exists
    versions,     \* EventSinkState: type -> version
    address,      \* the SideroLink address, counted; 0 before there is one
    boundAddr,    \* the address the publishers are bound to
    draining,     \* is the Handler waiting for the publishers of the last address?
    publisher,    \* resource -> its publisher
    published,    \* history: resource -> the version the sink saw last
    sendFailures  \* publications that failed so far

handlerVars == <<address, boundAddr, draining>>
eventVars == <<version, versions, address, boundAddr, draining, publisher, published, sendFailures>>

-----------------------------------------------------------------------------

Version == 0 .. MaxVersion

Publisher == [pc : {"off", "start", "watch", "wait", "publish", "write"},
              backlog : Int, next : 1 .. MaxVersion + 1, saw : [Types -> Version]]
Off == [pc |-> "off", backlog |-> 0, next |-> 1, saw |-> [t \in Types |-> 0]]
Started == [Off EXCEPT !.pc = "start"]

EventTypeOK ==
    /\ version \in [Resources -> Version]
    /\ versions \in [Types -> Version]
    /\ address \in 0 .. MaxMoves /\ boundAddr \in 0 .. MaxMoves /\ draining \in BOOLEAN
    /\ publisher \in [Resources -> Publisher]
    /\ \A r \in Resources : publisher[r].next <= version[r] + 1
    /\ published \in [Resources -> Version]
    /\ sendFailures \in 0 .. MaxSendFailures

EventInit ==
    /\ version = [r \in Resources |-> 0] /\ versions = [t \in Types |-> 0]
    /\ address = 0 /\ boundAddr = 0 /\ draining = FALSE
    /\ publisher = [r \in Resources |-> Off]
    /\ published = [r \in Resources |-> 0]
    /\ sendFailures = 0

Largest(S) == CHOOSE x \in S : \A y \in S : x >= y

-----------------------------------------------------------------------------
(* What the controllers of the machine do meanwhile *)

Update(r) ==
    /\ version[r] < MaxVersion
    /\ version' = [version EXCEPT ![r] = @ + 1]
    /\ UNCHANGED <<versions, handlerVars, publisher, published, sendFailures>>

\* Re-provisioning gives the machine a new SideroLink address.
Move ==
    /\ address < MaxMoves
    /\ address' = address + 1
    /\ UNCHANGED <<version, versions, boundAddr, draining, publisher, published, sendFailures>>

-----------------------------------------------------------------------------
(* Handler.Run *)

\* Another address: teardownSink cancels the publishers ...
Rebind ==
    /\ ~draining /\ address # boundAddr
    /\ draining' = TRUE /\ boundAddr' = address
    /\ UNCHANGED <<version, versions, address, publisher, published, sendFailures>>

\* ... each of which stops wherever it is, its last event sent or not ...
Stop(r) ==
    /\ draining /\ publisher[r].pc # "off"
    /\ publisher' = [publisher EXCEPT ![r] = Off]
    /\ \/ UNCHANGED published
       \/ publisher[r].pc = "publish" /\ published' = [published EXCEPT ![r] = publisher[r].next]
    /\ UNCHANGED <<version, versions, handlerVars, sendFailures>>

\* ... and, when all of them have, startEventSink starts the next ones.
StartSink ==
    /\ draining /\ \A r \in Resources : publisher[r].pc = "off"
    /\ draining' = FALSE
    /\ publisher' = [r \in Resources |-> Started]
    /\ UNCHANGED <<version, versions, address, boundAddr, published, sendFailures>>

-----------------------------------------------------------------------------
(* generateEvents for one resource *)

At(r, pc) == ~draining /\ publisher[r].pc = pc

\* How many versions of the resource the sink has not seen, as far as is recorded.
CountBacklog(r) ==
    /\ At(r, "start")
    /\ publisher' = [publisher EXCEPT ![r].pc = "watch",
          ![r].backlog = IF version[r] = 0 THEN 0 ELSE version[r] - versions[TypeOf(r)]]
    /\ UNCHANGED <<version, versions, handlerVars, published, sendFailures>>

\* Variant at fault: the tail of the watch starts one version early.
WatchOpenEarly(r) ==
    /\ At(r, "watch")
    /\ LET b == publisher[r].backlog
           first == IF b > 0 THEN version[r] - b ELSE version[r]
       IN  publisher' = [publisher EXCEPT ![r].pc = "wait", ![r].next = first]
    /\ UNCHANGED <<version, versions, handlerVars, published, sendFailures>>

\* The watch replays that many versions, or begins with the current one.
WatchOpen(r) ==
    /\ At(r, "watch")
    /\ LET b == publisher[r].backlog
           first == IF b > 0 THEN version[r] - b + 1 ELSE version[r]
       IN  publisher' = [publisher EXCEPT ![r].pc = "wait", ![r].next = Largest({1, first})]
    /\ UNCHANGED <<version, versions, handlerVars, published, sendFailures>>

\* The update function on a fresh read: a version that is not new is skipped.
Consider(r) ==
    IF publisher[r].next <= versions[TypeOf(r)]
    THEN publisher' = [publisher EXCEPT ![r].pc = "wait", ![r].next = @ + 1]
    ELSE publisher' = [publisher EXCEPT ![r].pc = "publish", ![r].saw = versions]

Deliver(r) ==
    /\ At(r, "wait") /\ publisher[r].next <= version[r]
    /\ Consider(r)
    /\ UNCHANGED <<version, versions, handlerVars, published, sendFailures>>

\* Variant at fault: the version is recorded before it is sent.
PublishRecorded(r) ==
    /\ At(r, "publish")
    /\ versions' = [versions EXCEPT ![TypeOf(r)] = publisher[r].next]
    /\ publisher' = [publisher EXCEPT ![r].pc = "write", ![r].saw = versions']
    /\ UNCHANGED <<version, handlerVars, published, sendFailures>>

Publish(r) ==
    /\ At(r, "publish")
    /\ published' = [published EXCEPT ![r] = publisher[r].next]
    /\ publisher' = [publisher EXCEPT ![r].pc = "write"]
    /\ UNCHANGED <<version, versions, handlerVars, sendFailures>>

\* Variant at fault: the error is logged and the watch goes on.
PublishFailsOn(r) ==
    /\ At(r, "publish") /\ sendFailures < MaxSendFailures
    /\ sendFailures' = sendFailures + 1
    /\ UNCHANGED published
    /\ publisher' = [publisher EXCEPT ![r].pc = "wait", ![r].next = @ + 1]
    /\ UNCHANGED <<version, versions, handlerVars>>

\* An error, whether the sink got the event or not: runWithRetries starts over.
PublishFails(r) ==
    /\ At(r, "publish") /\ sendFailures < MaxSendFailures
    /\ sendFailures' = sendFailures + 1
    /\ \/ UNCHANGED published
       \/ published' = [published EXCEPT ![r] = publisher[r].next]
    /\ publisher' = [publisher EXCEPT ![r] = Started]
    /\ UNCHANGED <<version, versions, handlerVars>>

\* Variant at fault: what was read is written back whatever was recorded meanwhile.
WriteOver(r) ==
    /\ At(r, "write")
    /\ versions' = [publisher[r].saw EXCEPT ![TypeOf(r)] = publisher[r].next]
    /\ publisher' = [publisher EXCEPT ![r].pc = "wait", ![r].next = @ + 1]
    /\ UNCHANGED <<version, handlerVars, published, sendFailures>>

\* The update is stored, unless EventSinkState changed since it was read.
Write(r) ==
    /\ At(r, "write")
    /\ \/ /\ versions = publisher[r].saw
          /\ versions' = [versions EXCEPT ![TypeOf(r)] = publisher[r].next]
          /\ publisher' = [publisher EXCEPT ![r].pc = "wait", ![r].next = @ + 1]
       \/ /\ versions # publisher[r].saw
          /\ Consider(r)
          /\ UNCHANGED versions
    /\ UNCHANGED <<version, handlerVars, published, sendFailures>>

-----------------------------------------------------------------------------

PublisherStep(r) ==
    \/ CountBacklog(r) \/ WatchOpen(r) \/ Deliver(r) \/ Publish(r) \/ Write(r)

HandlerStep == Rebind \/ StartSink \/ \E r \in Resources : Stop(r)

EventNext ==
    \/ Move \/ HandlerStep
    \/ \E r \in Resources : Update(r) \/ PublisherStep(r) \/ PublishFails(r)

EventInitNext == EventInit /\ [][EventNext]_eventVars

\* The goroutines of the Handler and of its publishers go on.
EventFairness == WF_eventVars(HandlerStep) /\ \A r \in Resources : WF_eventVars(PublisherStep(r))

Spec == EventInitNext /\ EventFairness

-----------------------------------------------------------------------------
(* What the sink is promised *)

\* EventSinkState records a version only after it was sent: a failure at any point makes
\* the sink see it again, never miss it.
RecordedIsPublished ==
    \A t \in Types : versions[t] > 0 =>
        \E r \in Resources : TypeOf(r) = t /\ published[r] >= versions[t]

\* What has been recorded is never forgotten, nor sent again, over retries, address changes
\* and updates of EventSinkState by the other publishers: the sink sees no MachineStatus
\* that is older than a recorded one.
RecordedNotResent ==
    [][/\ \A t \in Types : versions'[t] >= versions[t]
       /\ published'[MachineStatus] # published[MachineStatus]
             => published'[MachineStatus] > versions[TypeOf(MachineStatus)]]_eventVars

Reported(r) ==
    \A v \in 1 .. MaxVersion : <>[](version[r] = v) => <>[](published[r] = v)

\* Once there is an address, the sink ends up with the current MachineStatus, whatever
\* failed and moved on the way.
StatusReported == <>(address > 0) => Reported(MachineStatus)

\* EventSinkState "describes which last version of a resource was reported": the sink
\* ends up with the current state of every service as well.
ServicesReported == <>(address > 0) => \A r \in Services : Reported(r)
=============================================================================
