-------------------------- MODULE ReportingProofs --------------------------
(***************************************************************************)
(* Proofs about what a machine reports of itself to the outside: its       *)
(* services and its status to the event sink (EventSink), for any          *)
(* services, versions, address changes and failures, and itself to the     *)
(* other machines of its cluster (Discovery), for any clusters, configs,   *)
(* facts and failures of the client.  The two share no variable, and no    *)
(* proof needs fairness.                                                   *)
(***************************************************************************)
EXTENDS EventSink, Discovery, TLAPS

-----------------------------------------------------------------------------
(* The event sink: the inductive invariant *)

\* A publisher is in the update of EventSinkState with a version that exists and was
\* not recorded when the update read it; it writes back what it has sent.
Sending ==
    \A r \in Resources :
        /\ publisher[r].pc \in {"publish", "write"} =>
              /\ publisher[r].next <= version[r]
              /\ publisher[r].next > publisher[r].saw[TypeOf(r)]
        /\ publisher[r].pc = "write" => published[r] = publisher[r].next

\* The MachineStatus has one publisher, so nobody records another version of it between
\* the read and the write of the update.
StatusAlone ==
    publisher[MachineStatus].pc \in {"publish", "write"} =>
        publisher[MachineStatus].saw["MachineStatus"] = versions["MachineStatus"]

\* r has sent the recorded version of its type or a later one, and is not about to send an
\* earlier one.
Backs(r, t) ==
    /\ TypeOf(r) = t
    /\ published[r] >= versions[t]
    /\ publisher[r].pc \in {"publish", "write"} => publisher[r].next >= versions[t]

Backed == \A t \in Types : versions[t] > 0 => \E r \in Resources : Backs(r, t)

EventInv == EventTypeOK /\ Sending /\ StatusAlone /\ Backed

\* The part of it that is about the resources and their publishers.
SinkTypes ==
    /\ version \in [Resources -> Version] /\ versions \in [Types -> Version]
    /\ publisher \in [Resources -> Publisher]
    /\ \A r \in Resources : publisher[r].next <= version[r] + 1
    /\ published \in [Resources -> Version]

SinkInv == SinkTypes /\ Sending /\ StatusAlone /\ Backed

-----------------------------------------------------------------------------
(* The values that the steps write *)

LEMMA Bounds == MaxVersion \in Nat /\ MaxMoves \in Nat /\ MaxSendFailures \in Nat
  BY BoundAssumption

\* Each resource has one key in EventSinkState, and the MachineStatus has its own.
LEMMA TypesOfResources ==
    /\ MachineStatus \in Resources /\ TypeOf(MachineStatus) = "MachineStatus"
    /\ "MachineStatus" \in Types
    /\ \A r \in Resources : /\ TypeOf(r) \in Types
                            /\ r # MachineStatus => TypeOf(r) = "Service"
  BY ResourceAssumption DEF Resources, TypeOf, Types

\* Largest of two numbers is one of them, and not below the other.
LEMMA LargestOfTwo ==
    ASSUME NEW a \in Int, NEW b \in Int
    PROVE  Largest({a, b}) \in {a, b} /\ Largest({a, b}) >= a /\ Largest({a, b}) >= b
  <1>1. \E x \in {a, b} : \A y \in {a, b} : x >= y
    <2>1. CASE a >= b
      BY <2>1
    <2>2. CASE ~(a >= b)
      BY <2>2
    <2> QED BY <2>1, <2>2
  <1>2. Largest({a, b}) \in {a, b} /\ \A y \in {a, b} : Largest({a, b}) >= y
    BY <1>1 DEF Largest
  <1> QED BY <1>2

\* The fields of a publisher.
LEMMA PublisherFields ==
    ASSUME NEW p \in Publisher
    PROVE  /\ p.pc \in {"off", "start", "watch", "wait", "publish", "write"}
           /\ p.backlog \in Int /\ p.next \in 1 .. MaxVersion + 1 /\ p.saw \in [Types -> Version]
  BY DEF Publisher

\* A publisher that is stopped or starts over has forgotten everything.
LEMMA OffType ==
    /\ Off \in Publisher /\ Off.pc = "off" /\ Off.next = 1
    /\ Started \in Publisher /\ Started.pc = "start" /\ Started.next = 1
  <1>1. 0 \in Version /\ 1 \in 1 .. MaxVersion + 1
    BY Bounds DEF Version
  <1>2. [t \in Types |-> 0] \in [Types -> Version]
    BY <1>1
  <1> QED BY <1>1, <1>2 DEF Off, Started, Publisher

\* What a publisher does to its own record while the others stay as they are.
Becomes(r, p) ==
    /\ p \in Publisher
    /\ publisher'[r] = p
    /\ publisher' \in [Resources -> Publisher]
    /\ \A q \in Resources \ {r} : publisher'[q] = publisher[q]

LEMMA BecomesEffect ==
    ASSUME publisher \in [Resources -> Publisher], NEW r \in Resources, NEW p \in Publisher,
           publisher' = [publisher EXCEPT ![r] = p]
    PROVE  Becomes(r, p)
  BY DEF Becomes

\* The update function skips a version that is recorded, and takes on a newer one together
\* with what it read.
LEMMA ConsiderEffect ==
    ASSUME EventTypeOK, NEW r \in Resources, publisher[r].next <= version[r], Consider(r)
    PROVE  \E p \in Publisher :
              /\ Becomes(r, p)
              /\ \/ p.pc = "wait" /\ p.next = publisher[r].next + 1
                 \/ /\ p.pc = "publish" /\ p.next = publisher[r].next /\ p.saw = versions
                    /\ publisher[r].next > versions[TypeOf(r)]
  <1> DEFINE q == publisher[r]
  <1>1. /\ q \in Publisher /\ q.next \in 1 .. MaxVersion /\ versions \in [Types -> Version]
        /\ versions[TypeOf(r)] \in Int
    BY PublisherFields, TypesOfResources, Bounds DEF EventTypeOK, Version
  <1>2. CASE q.next <= versions[TypeOf(r)]
    <2> DEFINE n == q.next + 1
               p == [q EXCEPT !.pc = "wait", !.next = n]
    <2>0. n \in 1 .. MaxVersion + 1
      BY <1>1, Bounds
    <2>1. p \in Publisher /\ p.pc = "wait" /\ p.next = n
      <3> HIDE DEF n, q
      <3> QED BY <1>1, <2>0 DEF Publisher
    <2>2. publisher' = [publisher EXCEPT ![r] = p]
      BY <1>2 DEF Consider
    <2> QED BY <2>1, <2>2, BecomesEffect DEF EventTypeOK
  <1>3. CASE ~(q.next <= versions[TypeOf(r)])
    <2> DEFINE p == [q EXCEPT !.pc = "publish", !.saw = versions]
    <2>1. p \in Publisher /\ p.pc = "publish" /\ p.next = q.next /\ p.saw = versions
      BY <1>1, Bounds DEF Publisher
    <2>2. publisher' = [publisher EXCEPT ![r] = p]
      BY <1>3 DEF Consider
    <2>3. q.next > versions[TypeOf(r)]
      BY <1>1, <1>3
    <2> QED BY <2>1, <2>2, <2>3, BecomesEffect DEF EventTypeOK
  <1> QED BY <1>2, <1>3

-----------------------------------------------------------------------------
(* What the steps do to the publisher *)

Calm(p) == p.pc \notin {"publish", "write"}

LEMMA CountEffect ==
    ASSUME EventTypeOK, NEW r \in Resources, CountBacklog(r)
    PROVE  \E p \in Publisher : Becomes(r, p) /\ Calm(p) /\ p.next = publisher[r].next
  <1> DEFINE q == publisher[r]
             b == IF version[r] = 0 THEN 0 ELSE version[r] - versions[TypeOf(r)]
             p == [q EXCEPT !.pc = "watch", !.backlog = b]
  <1>1. b \in Int /\ q \in Publisher
    BY TypesOfResources DEF EventTypeOK, Version
  <1>2. p \in Publisher /\ p.pc = "watch" /\ p.next = q.next
    <2> HIDE DEF b, q
    <2> QED BY <1>1 DEF Publisher
  <1>3. publisher' = [publisher EXCEPT ![r] = p]
    BY DEF CountBacklog
  <1> QED BY <1>2, <1>3, BecomesEffect DEF EventTypeOK, Calm

\* The watch begins with a version of the resource, or with the first one.
LEMMA WatchEffect ==
    ASSUME EventTypeOK, NEW r \in Resources, WatchOpen(r)
    PROVE  \E p \in Publisher : Becomes(r, p) /\ Calm(p) /\ p.next <= version[r] + 1
  <1> DEFINE q == publisher[r]
             first == IF q.backlog > 0 THEN version[r] - q.backlog + 1 ELSE version[r]
             n == Largest({1, first})
             p == [q EXCEPT !.pc = "wait", !.next = n]
  <1>1. q \in Publisher /\ q.backlog \in Int /\ version[r] \in 0 .. MaxVersion
    BY PublisherFields DEF EventTypeOK, Version
  <1>2. first \in Int /\ first <= version[r]
    BY <1>1
  <1>3. n \in 1 .. MaxVersion + 1 /\ n <= version[r] + 1
    <2> HIDE DEF first
    <2>1. n \in {1, first} /\ n >= 1
      BY <1>2, LargestOfTwo
    <2> HIDE DEF n
    <2> QED BY <1>1, <1>2, <2>1, Bounds
  <1>4. p \in Publisher /\ p.pc = "wait" /\ p.next = n
    <2> HIDE DEF n, q
    <2> QED BY <1>1, <1>3 DEF Publisher
  <1>5. publisher' = [publisher EXCEPT ![r] = p]
    BY DEF WatchOpen
  <1>6. Becomes(r, p)
    <2> HIDE DEF p
    <2> QED BY <1>4, <1>5, BecomesEffect DEF EventTypeOK
  <1> QED BY <1>3, <1>4, <1>6 DEF Calm

LEMMA PublishEffect ==
    ASSUME EventTypeOK, NEW r \in Resources, Publish(r)
    PROVE  \E p \in Publisher : /\ Becomes(r, p) /\ p.pc = "write"
                                /\ p.next = publisher[r].next /\ p.saw = publisher[r].saw
  <1> DEFINE q == publisher[r]
             p == [q EXCEPT !.pc = "write"]
  <1>1. q \in Publisher
    BY DEF EventTypeOK
  <1>2. p \in Publisher /\ p.pc = "write" /\ p.next = q.next /\ p.saw = q.saw
    <2> HIDE DEF q
    <2> QED BY <1>1 DEF Publisher
  <1>3. publisher' = [publisher EXCEPT ![r] = p]
    BY DEF Publish
  <1> QED BY <1>2, <1>3, BecomesEffect DEF EventTypeOK

\* A version is only recorded on top of what the update has read.
LEMMA RecordEffect ==
    ASSUME EventTypeOK, NEW r \in Resources, publisher[r].next <= version[r],
           publisher' = [publisher EXCEPT ![r].pc = "wait", ![r].next = @ + 1]
    PROVE  \E p \in Publisher : Becomes(r, p) /\ Calm(p) /\ p.next = publisher[r].next + 1
  <1> DEFINE q == publisher[r]
             n == q.next + 1
             p == [q EXCEPT !.pc = "wait", !.next = n]
  <1>1. q \in Publisher /\ n \in 1 .. MaxVersion + 1
    BY PublisherFields, Bounds DEF EventTypeOK, Version
  <1>2. p \in Publisher /\ p.pc = "wait" /\ p.next = n
    <2> HIDE DEF n, q
    <2> QED BY <1>1 DEF Publisher
  <1>3. publisher' = [publisher EXCEPT ![r] = p]
    OBVIOUS
  <1> QED BY <1>2, <1>3, BecomesEffect DEF EventTypeOK, Calm

\* A publisher that stops or starts over.
LEMMA RestartEffect ==
    ASSUME EventTypeOK, NEW r \in Resources, Stop(r) \/ PublishFails(r)
    PROVE  \E p \in Publisher : Becomes(r, p) /\ Calm(p) /\ p.next = 1
  BY OffType, BecomesEffect DEF Stop, PublishFails, EventTypeOK, Calm

-----------------------------------------------------------------------------
(* What they do to the invariant *)

\* What a publisher has sent is a version there is.
LEMMA SentVersion ==
    ASSUME EventInv, NEW r \in Resources, publisher[r].pc \in {"publish", "write"}
    PROVE  /\ publisher[r].next \in Version /\ publisher[r].next <= version[r]
           /\ publisher[r].next > publisher[r].saw[TypeOf(r)]
  <1>1. publisher[r].next \in 1 .. MaxVersion + 1 /\ version[r] \in 0 .. MaxVersion
    BY PublisherFields DEF EventInv, EventTypeOK, Version
  <1> QED BY <1>1, Bounds DEF EventInv, Sending, Version

\* A publisher that leaves the update, or is not in it, with its event sent or not: what it
\* sent is newer than what is recorded, or else it still backs what it backed.
LEMMA CalmStep ==
    ASSUME EventInv, NEW r \in Resources, NEW p \in Publisher, Becomes(r, p), Calm(p),
           p.next <= version[r] + 1, UNCHANGED <<version, versions>>,
           \/ UNCHANGED published
           \/ /\ publisher[r].pc = "publish"
              /\ published' = [published EXCEPT ![r] = publisher[r].next]
    PROVE  SinkInv'
  <1>1. SinkTypes'
    BY SentVersion DEF EventInv, EventTypeOK, SinkTypes, Becomes
  <1>2. \A q \in Resources \ {r} : publisher'[q] = publisher[q] /\ published'[q] = published[q]
    BY DEF Becomes, EventInv, EventTypeOK
  <1>3. Sending'
    BY <1>2 DEF Sending, EventInv, Becomes, Calm
  <1>4. StatusAlone'
    BY <1>2, TypesOfResources DEF StatusAlone, EventInv, Becomes, Calm
  <1>5. ASSUME NEW t \in Types, Backs(r, t) PROVE Backs(r, t)'
    BY <1>5 DEF Backs, Becomes, Calm, EventInv, EventTypeOK
  <1>6. ASSUME NEW t \in Types, NEW q \in Resources \ {r}, Backs(q, t) PROVE Backs(q, t)'
    BY <1>2, <1>6 DEF Backs
  <1>7. Backed'
    BY <1>5, <1>6 DEF Backed, EventInv
  <1> QED BY <1>1, <1>3, <1>4, <1>7 DEF SinkInv

\* A publisher takes on a version that is not recorded.
LEMMA TakeOnStep ==
    ASSUME EventInv, NEW r \in Resources, NEW p \in Publisher, Becomes(r, p),
           p.pc = "publish", p.next = publisher[r].next, p.saw = versions,
           p.next > versions[TypeOf(r)], p.next <= version[r],
           UNCHANGED <<version, versions, published>>
    PROVE  SinkInv'
  <1>1. SinkTypes'
    BY PublisherFields DEF EventInv, EventTypeOK, SinkTypes, Becomes
  <1>2. Sending'
    BY DEF Sending, EventInv, Becomes
  <1>3. StatusAlone'
    BY TypesOfResources DEF StatusAlone, EventInv, Becomes
  <1>4. versions[TypeOf(r)] \in Int /\ p.next \in Int
    BY TypesOfResources, PublisherFields DEF EventInv, EventTypeOK, Version
  <1>5. ASSUME NEW t \in Types, NEW q \in Resources, Backs(q, t) PROVE Backs(q, t)'
    BY <1>4, <1>5 DEF Backs, Becomes
  <1>6. Backed'
    BY <1>5 DEF Backed, EventInv
  <1> QED BY <1>1, <1>2, <1>3, <1>6 DEF SinkInv

LEMMA ConsiderStep ==
    ASSUME EventInv, NEW r \in Resources, publisher[r].next <= version[r], Consider(r),
           UNCHANGED <<version, versions, published>>
    PROVE  SinkInv'
  <1>1. PICK p \in Publisher :
           /\ Becomes(r, p)
           /\ \/ p.pc = "wait" /\ p.next = publisher[r].next + 1
              \/ /\ p.pc = "publish" /\ p.next = publisher[r].next /\ p.saw = versions
                 /\ publisher[r].next > versions[TypeOf(r)]
    BY ConsiderEffect DEF EventInv
  <1>2. publisher[r].next \in Int /\ version[r] \in Int
    BY PublisherFields DEF EventInv, EventTypeOK, Version
  <1>3. CASE p.pc = "wait"
    BY <1>1, <1>2, <1>3, CalmStep DEF Calm
  <1>4. CASE p.pc = "publish"
    BY <1>1, <1>4, TakeOnStep
  <1> QED BY <1>1, <1>3, <1>4

LEMMA PublishStep == ASSUME EventInv, NEW r \in Resources, Publish(r) PROVE SinkInv'
  <1>1. PICK p \in Publisher : /\ Becomes(r, p) /\ p.pc = "write"
                               /\ p.next = publisher[r].next /\ p.saw = publisher[r].saw
    BY PublishEffect DEF EventInv
  <1>2. /\ publisher[r].pc = "publish" /\ UNCHANGED <<version, versions>>
        /\ published' = [published EXCEPT ![r] = publisher[r].next]
    BY DEF Publish, At
  <1>3. /\ publisher[r].next \in Version /\ publisher[r].next <= version[r]
        /\ publisher[r].next > publisher[r].saw[TypeOf(r)]
    BY <1>2, SentVersion
  <1>4. SinkTypes'
    BY <1>1, <1>2, <1>3 DEF EventInv, EventTypeOK, SinkTypes, Becomes
  <1>5. Sending'
    BY <1>1, <1>2, <1>3 DEF Sending, EventInv, EventTypeOK, Becomes
  <1>6. StatusAlone'
    BY <1>1, <1>2, TypesOfResources DEF StatusAlone, EventInv, Becomes
  <1>7. ASSUME NEW t \in Types, NEW q \in Resources, Backs(q, t) PROVE Backs(q, t)'
    BY <1>1, <1>2, <1>7 DEF Backs, Becomes, EventInv, EventTypeOK
  <1>8. Backed'
    BY <1>2, <1>7 DEF Backed, EventInv
  <1> QED BY <1>4, <1>5, <1>6, <1>8 DEF SinkInv

\* The publisher that records a version has sent it, and it is the latest of its type.
LEMMA RecordStep ==
    ASSUME EventInv, NEW r \in Resources, At(r, "write"), versions = publisher[r].saw,
           versions' = [versions EXCEPT ![TypeOf(r)] = publisher[r].next],
           publisher' = [publisher EXCEPT ![r].pc = "wait", ![r].next = @ + 1],
           UNCHANGED <<version, published>>
    PROVE  SinkInv'
  <1>1. publisher[r].pc = "write"
    BY DEF At
  <1>2. /\ publisher[r].next \in Version /\ publisher[r].next <= version[r]
        /\ publisher[r].next > versions[TypeOf(r)]
        /\ published[r] = publisher[r].next
    BY <1>1, SentVersion DEF EventInv, Sending
  <1>3. PICK p \in Publisher : Becomes(r, p) /\ Calm(p) /\ p.next = publisher[r].next + 1
    BY <1>2, RecordEffect DEF EventInv
  <1>4. SinkTypes'
    BY <1>2, <1>3, TypesOfResources DEF EventInv, EventTypeOK, SinkTypes, Becomes, Version
  <1>5. Sending'
    BY <1>3 DEF Sending, EventInv, Becomes, Calm
  <1>6. StatusAlone'
    <2>1. CASE r = MachineStatus
      BY <1>3, <2>1 DEF StatusAlone, Becomes, Calm
    <2>2. CASE r # MachineStatus
      <3>1. versions'["MachineStatus"] = versions["MachineStatus"]
        BY <2>2, TypesOfResources DEF EventInv, EventTypeOK
      <3> QED BY <1>3, <2>2, <3>1, TypesOfResources DEF StatusAlone, Becomes, EventInv
    <2> QED BY <2>1, <2>2
  <1>7. versions'[TypeOf(r)] = publisher[r].next
    BY TypesOfResources DEF EventInv, EventTypeOK
  <1>8. Backs(r, TypeOf(r))'
    BY <1>2, <1>3, <1>7 DEF Backs, Becomes, Calm, Version
  <1>9. ASSUME NEW t \in Types, t # TypeOf(r), NEW q \in Resources, Backs(q, t)
        PROVE  Backs(q, t)'
    <2>1. versions'[t] = versions[t] /\ q # r
      BY <1>9 DEF Backs, EventInv, EventTypeOK
    <2> QED BY <1>3, <1>9, <2>1 DEF Backs, Becomes
  <1>10. ASSUME NEW t \in Types, t # TypeOf(r) PROVE versions'[t] = versions[t]
    BY <1>10 DEF EventInv, EventTypeOK
  <1>11. Backed'
    BY <1>8, <1>9, <1>10 DEF Backed, EventInv
  <1> QED BY <1>4, <1>5, <1>6, <1>11 DEF SinkInv

\* A resource that has a new version has nothing sent or recorded of it.
LEMMA UpdateStep == ASSUME EventInv, NEW r \in Resources, Update(r) PROVE SinkInv'
  <1>1. /\ version' \in [Resources -> Version]
        /\ \A q \in Resources : version'[q] >= version[q]
        /\ UNCHANGED <<versions, publisher, published>>
    BY Bounds DEF Update, EventInv, EventTypeOK, Version
  <1>2. ASSUME NEW q \in Resources
        PROVE  publisher[q].next \in Int /\ version[q] \in Int /\ version'[q] \in Int
    BY <1>1, PublisherFields DEF EventInv, EventTypeOK, Version
  <1>3. SinkTypes'
    BY <1>1, <1>2 DEF EventInv, EventTypeOK, SinkTypes
  <1>4. Sending'
    BY <1>1, <1>2 DEF EventInv, Sending
  <1>5. StatusAlone' /\ Backed'
    BY <1>1 DEF EventInv, StatusAlone, Backed, Backs
  <1> QED BY <1>3, <1>4, <1>5 DEF SinkInv

\* The next publishers know nothing of the last ones.
LEMMA StartStep == ASSUME EventInv, StartSink PROVE SinkInv'
  <1>1. /\ \A r \in Resources : publisher'[r] = Started
        /\ publisher' \in [Resources -> Publisher]
        /\ UNCHANGED <<version, versions, published>>
    BY OffType DEF StartSink
  <1>2. SinkTypes'
    BY <1>1, OffType DEF EventInv, EventTypeOK, SinkTypes, Version
  <1>3. Sending' /\ StatusAlone'
    BY <1>1, OffType, TypesOfResources DEF Sending, StatusAlone
  <1>4. Backed'
    BY <1>1, OffType DEF Backed, Backs, EventInv
  <1> QED BY <1>2, <1>3, <1>4 DEF SinkInv

\* Every step of a publisher, one after the other.
LEMMA PublisherKeeps ==
    ASSUME EventInv, NEW r \in Resources, PublisherStep(r) \/ PublishFails(r) \/ Stop(r)
    PROVE  SinkInv'
  <1>1. publisher[r].next \in Int /\ version[r] \in Int /\ version[r] >= 0
        /\ publisher[r].next <= version[r] + 1
    BY PublisherFields DEF EventInv, EventTypeOK, Version
  <1>2. CASE CountBacklog(r)
    <2>1. UNCHANGED <<version, versions, published>>
      BY <1>2 DEF CountBacklog
    <2> QED BY <1>1, <1>2, <2>1, CountEffect, CalmStep DEF EventInv
  <1>3. CASE WatchOpen(r)
    <2>1. UNCHANGED <<version, versions, published>>
      BY <1>3 DEF WatchOpen
    <2> QED BY <1>3, <2>1, WatchEffect, CalmStep DEF EventInv
  <1>4. CASE Deliver(r)
    BY <1>4, ConsiderStep DEF Deliver
  <1>5. CASE Publish(r)
    BY <1>5, PublishStep
  <1>6. CASE Write(r)
    <2>1. publisher[r].next <= version[r]
      BY <1>6, SentVersion DEF Write, At
    <2> QED BY <1>6, <2>1, RecordStep, ConsiderStep DEF Write
  <1>7. CASE Stop(r) \/ PublishFails(r)
    <2>1. PICK p \in Publisher : Becomes(r, p) /\ Calm(p) /\ p.next = 1
      BY <1>7, RestartEffect DEF EventInv
    <2>2. /\ UNCHANGED <<version, versions>>
          /\ \/ UNCHANGED published
             \/ /\ publisher[r].pc = "publish"
                /\ published' = [published EXCEPT ![r] = publisher[r].next]
      BY <1>7 DEF Stop, PublishFails, At
    <2>3. p.next <= version[r] + 1
      BY <1>1, <2>1
    <2> QED BY <2>1, <2>2, <2>3, CalmStep
  <1> QED BY <1>2, <1>3, <1>4, <1>5, <1>6, <1>7 DEF PublisherStep

-----------------------------------------------------------------------------
(* The theorems about the event sink *)

LEMMA EventInitInv == EventInit => EventInv
  <1> SUFFICES ASSUME EventInit
               PROVE  EventInv
    OBVIOUS
  <1>1. /\ \A r \in Resources : publisher[r] = Off /\ version[r] = 0
        /\ publisher \in [Resources -> Publisher]
    BY OffType DEF EventInit
  <1>2. \A t \in Types : versions[t] = 0
    BY DEF EventInit
  <1>3. EventTypeOK
    <2>1. /\ version \in [Resources -> Version] /\ versions \in [Types -> Version]
          /\ published \in [Resources -> Version]
      BY Bounds DEF EventInit, Version
    <2>2. address \in 0 .. MaxMoves /\ boundAddr \in 0 .. MaxMoves /\ sendFailures \in 0 .. MaxSendFailures
      BY Bounds DEF EventInit
    <2>3. \A r \in Resources : publisher[r].next <= version[r] + 1
      BY <1>1, OffType
    <2> QED BY <1>1, <2>1, <2>2, <2>3 DEF EventInit, EventTypeOK
  <1>4. Sending /\ StatusAlone
    BY <1>1, OffType, TypesOfResources DEF Sending, StatusAlone
  <1>5. Backed
    BY <1>2 DEF Backed
  <1> QED BY <1>3, <1>4, <1>5 DEF EventInv

LEMMA EventNextInv == EventInv /\ [EventNext]_eventVars => EventInv'
  <1> SUFFICES ASSUME EventInv, [EventNext]_eventVars
               PROVE  EventInv'
    OBVIOUS
  <1> DEFINE HandlerTypes == /\ address \in 0 .. MaxMoves /\ boundAddr \in 0 .. MaxMoves
                             /\ draining \in BOOLEAN /\ sendFailures \in 0 .. MaxSendFailures
  <1>1. SUFFICES SinkInv' /\ HandlerTypes'
    BY DEF SinkInv, SinkTypes, EventInv, EventTypeOK
  <1>2. HandlerTypes
    BY DEF EventInv, EventTypeOK
  <1>3. ASSUME UNCHANGED <<version, versions, publisher, published>> PROVE SinkInv'
    BY <1>3 DEF EventInv, EventTypeOK, Sending, StatusAlone, Backed, Backs, SinkInv, SinkTypes
  <1>4. ASSUME NEW r \in Resources, Update(r) PROVE SinkInv' /\ HandlerTypes'
    BY <1>2, <1>4, UpdateStep DEF Update, handlerVars
  <1>5. ASSUME NEW r \in Resources, PublisherStep(r) \/ Stop(r)
        PROVE  SinkInv' /\ HandlerTypes'
    <2>1. UNCHANGED <<address, boundAddr, draining, sendFailures>>
      BY <1>5 DEF PublisherStep, CountBacklog, WatchOpen, Deliver, Publish, Write, Stop, handlerVars
    <2> QED BY <1>2, <1>5, <2>1, PublisherKeeps
  <1>6. ASSUME NEW r \in Resources, PublishFails(r) PROVE SinkInv' /\ HandlerTypes'
    <2>1. UNCHANGED <<address, boundAddr, draining>> /\ sendFailures' \in 0 .. MaxSendFailures
      BY <1>2, <1>6, Bounds DEF PublishFails, handlerVars
    <2> QED BY <1>2, <1>6, <2>1, PublisherKeeps
  <1>7. CASE StartSink
    BY <1>2, <1>7, StartStep DEF StartSink
  <1>8. CASE Move
    BY <1>2, <1>3, <1>8, Bounds DEF Move
  <1>9. CASE Rebind
    BY <1>2, <1>3, <1>9 DEF Rebind
  <1>10. CASE UNCHANGED eventVars
    BY <1>2, <1>3, <1>10 DEF eventVars
  <1>11. CASE EventNext
    BY <1>4, <1>5, <1>6, <1>7, <1>8, <1>9, <1>11 DEF EventNext, HandlerStep
  <1> QED BY <1>10, <1>11

LEMMA EventInvCorrect == EventInitNext => []EventInv
  BY EventInitInv, EventNextInv, PTL DEF EventInitNext

\* Every value is of its type, and no publisher is ahead of its resource.
THEOREM EventTypeCorrect == EventInitNext => []EventTypeOK
  <1>1. EventInv => EventTypeOK
    BY DEF EventInv
  <1> QED BY <1>1, EventInvCorrect, PTL

\* Whatever fails, moves and conflicts on the way: what EventSinkState records was sent.
THEOREM RecordedWasSent == EventInitNext => []RecordedIsPublished
  <1>1. EventInv => RecordedIsPublished
    BY DEF EventInv, Backed, Backs, RecordedIsPublished
  <1> QED BY <1>1, EventInvCorrect, PTL

\* A step that records a version records a later one than was recorded.
LEMMA RecordedGrows ==
    ASSUME EventInv, [EventNext]_eventVars, NEW t \in Types
    PROVE  versions'[t] >= versions[t]
  <1>1. versions[t] \in Int
    BY DEF EventInv, EventTypeOK, Version
  <1>2. SUFFICES ASSUME versions' # versions
                 PROVE  versions'[t] >= versions[t]
    BY <1>1
  <1>3. PICK r \in Resources : Write(r)
    BY <1>2 DEF EventNext, HandlerStep, PublisherStep, Update, Move, Rebind, Stop, StartSink,
       CountBacklog, WatchOpen, Deliver, Publish, PublishFails, eventVars
  <1>4. /\ publisher[r].pc = "write" /\ versions = publisher[r].saw
        /\ versions' = [versions EXCEPT ![TypeOf(r)] = publisher[r].next]
    BY <1>2, <1>3 DEF Write, At
  <1>5. publisher[r].next \in Int /\ publisher[r].next > versions[TypeOf(r)]
    BY <1>4, SentVersion DEF Version
  <1> QED BY <1>1, <1>4, <1>5 DEF EventInv, EventTypeOK

\* A MachineStatus that is sent is newer than the recorded one.
LEMMA SentIsNew ==
    ASSUME EventInv, [EventNext]_eventVars, published'[MachineStatus] # published[MachineStatus]
    PROVE  published'[MachineStatus] > versions[TypeOf(MachineStatus)]
  <1>1. published' # published
    OBVIOUS
  <1>2. PICK r \in Resources : /\ publisher[r].pc = "publish"
                               /\ published' = [published EXCEPT ![r] = publisher[r].next]
    BY <1>1 DEF EventNext, HandlerStep, PublisherStep, Update, Move, Rebind, Stop, StartSink,
       CountBacklog, WatchOpen, Deliver, Publish, PublishFails, Write, At, eventVars
  <1>3. r = MachineStatus
    BY <1>2, TypesOfResources DEF EventInv, EventTypeOK
  <1>4. publisher[r].next > versions[TypeOf(r)]
    BY <1>2, <1>3, SentVersion, TypesOfResources DEF EventInv, StatusAlone
  <1> QED BY <1>2, <1>3, <1>4, TypesOfResources DEF EventInv, EventTypeOK

\* Nothing recorded is forgotten or, of the MachineStatus, sent again.
THEOREM NothingResent == EventInitNext => RecordedNotResent
  <1> DEFINE Step == /\ \A t \in Types : versions'[t] >= versions[t]
                     /\ published'[MachineStatus] # published[MachineStatus]
                           => published'[MachineStatus] > versions[TypeOf(MachineStatus)]
  <1>1. EventInv /\ [EventNext]_eventVars => [Step]_eventVars
    BY RecordedGrows, SentIsNew
  <1>2. RecordedNotResent <=> [][Step]_eventVars
    BY DEF RecordedNotResent
  <1> HIDE DEF Step
  <1> QED BY <1>1, <1>2, EventInvCorrect, PTL DEF EventInitNext

-----------------------------------------------------------------------------
(* Discovery: the inductive invariant *)

Names == {Self} \union Peers

Client == [on : BOOLEAN, cluster : Clusters \union {Disabled}, id : {0} \union Ids, sent : Facts,
           dirty : BOOLEAN, known : [Nodes -> Facts \union {1}]]

Typed == DiscoveryTypeOK /\ client \in Client /\ (~client.on => client = NoClient)

\* Versions of the config and identities are counted by the configs applied: while a
\* controller has to catch up with a config, there is one left for it.
Counted ==
    /\ discovery.version <= applies
    /\ config # NoConfig /\ ~(discovery.version > 0 /\ discovery.cluster = config)
          => discovery.version < applies
    /\ config # NoConfig /\ identity = 0 => lastId < applies
    /\ discovery.version = 0 => discovery = NoResource

\* Before the machine is described there is nobody.
Undescribed ==
    facts = 0 =>
        /\ \A n \in Nodes : affiliates[n].owner = "none"
        /\ ~client.on /\ raw = NoOne
        /\ \A x \in Names : members[x] = NoMember

\* An Affiliate has facts, and only this machine has Affiliates of its own.
Shaped ==
    \A n \in Nodes : /\ affiliates[n].owner = "none" <=> affiliates[n].facts = 0
                     /\ affiliates[n].owner = "local" => n \in Ids

\* What each of the controllers has brought about when it has no event.
ConfigDone ==
    "config" \notin events =>
        IF config = NoConfig THEN discovery = NoResource
        ELSE discovery.version > 0 /\ discovery.cluster = config

IdentityDone == "identity" \notin events => (identity = 0 <=> config = NoConfig)

Ready == discovery.version > 0 /\ identity # 0 /\ facts # 0

LocalDone ==
    "local" \notin events =>
        /\ keep = Idle /\ discovery.version = 0 => Owned("local") = {}
        /\ keep = Idle /\ Ready =>
              Owned("local") = IF discovery.cluster = Disabled THEN {} ELSE {identity}
        /\ keep # Idle => Ready /\ keep = IF discovery.cluster = Disabled THEN 0 ELSE identity
        /\ Ready /\ discovery.cluster # Disabled =>
              affiliates[identity].owner = "local" /\ affiliates[identity].facts = facts

ServiceDone ==
    "service" \notin events =>
        /\ discovery.cluster \notin Clusters => ~client.on /\ raw = NoOne
        /\ discovery.cluster \in Clusters =>
              /\ identity # 0 => ctrl.id = identity
              /\ client.on => Usable
              /\ Described => /\ client.on /\ ctrl.version = discovery.version
                              /\ client.sent = affiliates[identity].facts /\ raw = client.known

MergeDone ==
    "merge" \notin events =>
        \A n \in Nodes : /\ raw[n] = 0 => affiliates[n].owner # "merge"
                         /\ raw[n] # 0 => affiliates[n].owner = "merge" /\ affiliates[n].facts = raw[n]

Named(x) == {n \in Nodes : affiliates[n].owner # "none" /\ x = (IF n \in Ids THEN Self ELSE n)}

MemberDone ==
    "member" \notin events =>
        \A x \in Names :
            /\ Named(x) = {} => members[x] = NoMember
            /\ Named(x) # {} => /\ members[x].id \in Named(x)
                               /\ members[x].facts = affiliates[members[x].id].facts

\* The client is there for the identity its controller remembers, and for the cluster of the
\* config if the controller has not missed one; what it sent is with the service or on its way.
ClientUp ==
    client.on =>
        /\ client.cluster \in Clusters /\ client.id # 0 /\ client.id = ctrl.id /\ ctrl.version # 0
        /\ client.sent # 0
        /\ client.dirty \/ service[client.cluster][client.id] = client.sent
        /\ ~missed /\ ctrl.version = discovery.version => client.cluster = discovery.cluster

DiscoveryInv ==
    /\ Typed /\ Counted /\ Undescribed /\ Shaped
    /\ ConfigDone /\ IdentityDone /\ LocalDone /\ ServiceDone /\ MergeDone /\ MemberDone
    /\ ClientUp

-----------------------------------------------------------------------------
(* Facts about the values *)

LEMMA DiscoveryBounds ==
    /\ MaxApplies \in Nat /\ MaxFacts \in Nat /\ MaxFailures \in Nat
    /\ 0 \in Facts /\ Ids \subseteq Int /\ 0 \notin Nodes /\ Idle \notin Ids /\ Idle # 0
    /\ Disabled \notin Clusters /\ KubernetesOnly \notin Clusters \union {Disabled}
    /\ NoConfig \notin Configs /\ Disabled \in Configs
    /\ Self \notin Nodes \ Ids /\ \A p \in Peers : p \notin Ids /\ p \in Nodes /\ p \in Clusters
    /\ Ids \subseteq Nodes
  BY DiscoveryAssumption DEF Ids, Nodes, Peers, Facts, Idle, Configs

LEMMA NoneTypes ==
    /\ NoOne \in [Nodes -> Facts \union {1}] /\ \A n \in Nodes : NoOne[n] = 0
    /\ NoClient \in Client /\ ~NoClient.on
    /\ NoResource \in Resource /\ NoResource.version = 0 /\ NoResource.cluster = Disabled
    /\ NoMember \in [id : {0} \union Nodes, facts : Facts \union {1}]
    /\ NoMember.id = 0 /\ NoMember.facts = 0
    /\ NoAffiliate \in [owner : {"none", "local", "merge"}, facts : Facts \union {1}]
    /\ NoAffiliate.owner = "none" /\ NoAffiliate.facts = 0
  <1>1. NoOne \in [Nodes -> Facts \union {1}] /\ \A n \in Nodes : NoOne[n] = 0
    BY DiscoveryBounds DEF NoOne
  <1>2. NoResource \in Resource /\ NoResource.version = 0 /\ NoResource.cluster = Disabled
    BY DiscoveryBounds DEF NoResource, Resource
  <1>3. NoClient \in Client /\ ~NoClient.on
    BY <1>1, DiscoveryBounds DEF NoClient, Client
  <1> QED BY <1>1, <1>2, <1>3, DiscoveryBounds DEF NoMember, NoAffiliate

\* The identity is one of those counted by the configs.
LEMMA IdentityType ==
    ASSUME Typed
    PROVE  identity \in {0} \union Ids /\ (identity # 0 => identity \in Ids /\ identity \in Nodes)
  <1>1. applies \in 0 .. MaxApplies /\ lastId \in 0 .. applies /\ identity \in {0, lastId}
    BY DEF Typed, DiscoveryTypeOK
  <1> QED BY <1>1, DiscoveryBounds DEF Ids, Nodes

LEMMA DiscoveryInitInv == Init => DiscoveryInv
  <1> SUFFICES ASSUME Init PROVE DiscoveryInv
    OBVIOUS
  <1>1. Typed
    <2>1. affiliates \in [Nodes -> [owner : {"none", "local", "merge"}, facts : Facts \union {1}]]
      BY NoneTypes DEF Init
    <2>2. members \in [{Self} \union Peers -> [id : {0} \union Nodes, facts : Facts \union {1}]]
      BY NoneTypes DEF Init
    <2>3. service \in [Clusters -> [Ids -> Facts]]
      BY DiscoveryBounds DEF Init
    <2>4. client.known \in [Nodes -> Facts \union {1}] /\ client.sent \in Facts /\ ~client.on
      BY NoneTypes DEF Init, Client
    <2>5. raw \in [Nodes -> Facts \union {1}] /\ discovery \in Resource /\ client \in Client
      BY NoneTypes DEF Init
    <2>6. /\ applies \in 0 .. MaxApplies /\ failures \in 0 .. MaxFailures /\ facts \in Facts
          /\ lastId \in 0 .. applies /\ identity \in {0, lastId}
          /\ ctrl \in [version : 0 .. MaxApplies, id : {0} \union Ids]
      BY DiscoveryBounds DEF Init
    <2> QED BY <2>1, <2>2, <2>3, <2>4, <2>5, <2>6 DEF Init, Typed, DiscoveryTypeOK
  <1>2. Counted
    BY NoneTypes, DiscoveryBounds DEF Init, Counted
  <1>3. \A n \in Nodes : affiliates[n].owner = "none" /\ affiliates[n].facts = 0
    BY NoneTypes DEF Init
  <1>4. Undescribed /\ Shaped
    BY <1>3, NoneTypes DEF Init, Undescribed, Shaped, Names
  <1>5. ConfigDone /\ IdentityDone
    BY DEF Init, ConfigDone, IdentityDone
  <1>6. Owned("local") = {} /\ keep = Idle /\ ~Ready /\ ~Described
    BY <1>3 DEF Owned, Init, Ready, Described
  <1>7. LocalDone
    BY <1>6 DEF LocalDone
  <1>8. ServiceDone /\ ClientUp
    BY NoneTypes, DiscoveryBounds DEF Init, ServiceDone, ClientUp
  <1>9. \A x : Named(x) = {}
    BY <1>3 DEF Named
  <1>10. MergeDone /\ MemberDone
    BY <1>3, <1>9, NoneTypes DEF Init, MergeDone, MemberDone, Names
  <1> QED BY <1>1, <1>2, <1>4, <1>5, <1>7, <1>8, <1>10 DEF DiscoveryInv

-----------------------------------------------------------------------------
(* Steps that leave a part of the invariant alone *)

\* No controller has lost its event.
Pending(S) == \A e \in S : e \in events => e \in events'

LEMMA ConfigAside ==
    ASSUME ConfigDone, IdentityDone, Counted, Pending({"config", "identity"}),
           UNCHANGED <<config, applies, discovery, identity, lastId>>
    PROVE  ConfigDone' /\ IdentityDone' /\ Counted'
  BY DEF ConfigDone, IdentityDone, Counted, Pending

LEMMA LocalAside ==
    ASSUME LocalDone, Pending({"local"}), UNCHANGED <<facts, discovery, identity, keep, affiliates>>
    PROVE  LocalDone'
  BY DEF LocalDone, Pending, Ready, Owned

LEMMA ServiceAside ==
    ASSUME ServiceDone, Pending({"service"}),
           UNCHANGED <<discovery, identity, affiliates, client, raw, ctrl>>
    PROVE  ServiceDone'
  BY DEF ServiceDone, Pending, Usable, Described

LEMMA ListsAside ==
    ASSUME Shaped, MergeDone, MemberDone, Pending({"merge", "member"}),
           UNCHANGED <<affiliates, raw, members>>
    PROVE  Shaped' /\ MergeDone' /\ MemberDone'
  BY DEF Shaped, MergeDone, MemberDone, Pending, Named

LEMMA UndescribedAside ==
    ASSUME Undescribed, UNCHANGED <<facts, affiliates, client, raw, members>>
    PROVE  Undescribed'
  BY DEF Undescribed

LEMMA ClientAside ==
    ASSUME ClientUp, UNCHANGED <<client, service, ctrl, missed, discovery>>
    PROVE  ClientUp'
  BY DEF ClientUp

-----------------------------------------------------------------------------
(* The config and the facts *)

LEMMA ConfigureStep ==
    ASSUME DiscoveryInv, NEW c \in Configs \union {NoConfig}, Configure(c)
    PROVE  DiscoveryInv'
  <1>1. /\ applies' \in 0 .. MaxApplies /\ applies <= applies'
        /\ config' = c /\ (c # NoConfig => applies' = applies + 1)
        /\ events' \subseteq Controllers /\ "config" \in events' /\ "identity" \in events'
        /\ Pending(Controllers)
        /\ UNCHANGED <<failures, facts, resourceVars, affiliates, keep, raw, members, ctrl, client, service>>
    BY DiscoveryBounds DEF Configure, DiscoveryInv, Typed, DiscoveryTypeOK, Pending, Controllers
  <1>2. lastId \in 0 .. applies' /\ identity \in {0, lastId}
    BY <1>1 DEF DiscoveryInv, Typed, DiscoveryTypeOK
  <1>3. Typed'
    BY <1>1, <1>2 DEF DiscoveryInv, Typed, DiscoveryTypeOK, resourceVars
  <1>4. Counted'
    <2>1. discovery.version \in Int /\ lastId \in Int /\ applies \in Int
          /\ discovery.version <= applies /\ lastId <= applies
      BY DEF DiscoveryInv, Typed, DiscoveryTypeOK, Resource, Counted
    <2>2. discovery.version = 0 => discovery = NoResource
      BY DEF DiscoveryInv, Counted
    <2>3. c # NoConfig => discovery.version < applies' /\ lastId < applies'
      BY <1>1, <2>1
    <2>4. discovery.version <= applies'
      BY <1>1, <2>1
    <2> QED BY <1>1, <2>2, <2>3, <2>4 DEF Counted, resourceVars
  <1>5. ConfigDone' /\ IdentityDone'
    BY <1>1 DEF ConfigDone, IdentityDone
  <1>6. LocalDone' /\ ServiceDone'
    BY <1>1, LocalAside, ServiceAside DEF DiscoveryInv, resourceVars, Pending, Controllers
  <1>7. Shaped' /\ MergeDone' /\ MemberDone'
    BY <1>1, ListsAside DEF DiscoveryInv, Pending, Controllers
  <1>8. Undescribed' /\ ClientUp'
    BY <1>1, UndescribedAside, ClientAside DEF DiscoveryInv, resourceVars
  <1> QED BY <1>3, <1>4, <1>5, <1>6, <1>7, <1>8 DEF DiscoveryInv

LEMMA LearnStep == ASSUME DiscoveryInv, Learn PROVE DiscoveryInv'
  <1>1. /\ facts' \in Facts /\ facts' # 0
        /\ events' \subseteq Controllers /\ "local" \in events' /\ Pending(Controllers)
        /\ UNCHANGED <<config, applies, failures, resourceVars, affiliates, keep, raw, members, ctrl,
                       client, service>>
    BY DiscoveryBounds DEF Learn, DiscoveryInv, Typed, DiscoveryTypeOK, Facts, Pending, Controllers
  <1>2. Typed'
    BY <1>1 DEF DiscoveryInv, Typed, DiscoveryTypeOK, resourceVars
  <1>3. Counted' /\ ConfigDone' /\ IdentityDone'
    BY <1>1, ConfigAside DEF DiscoveryInv, resourceVars, Pending, Controllers
  <1>4. LocalDone' /\ Undescribed'
    BY <1>1 DEF LocalDone, Undescribed
  <1>5. ServiceDone' /\ ClientUp'
    BY <1>1, ServiceAside, ClientAside DEF DiscoveryInv, resourceVars, Pending, Controllers
  <1>6. Shaped' /\ MergeDone' /\ MemberDone'
    BY <1>1, ListsAside DEF DiscoveryInv, Pending, Controllers
  <1> QED BY <1>2, <1>3, <1>4, <1>5, <1>6 DEF DiscoveryInv

\* Another config gets another cluster.Config, and the other controllers hear of it.
LEMMA TransformStep == ASSUME DiscoveryInv, TransformConfig PROVE DiscoveryInv'
  <1>1. /\ UNCHANGED <<envVars, identity, lastId, affiliates, keep, raw, members, ctrl, client, service>>
        /\ events' = (events \ {"config"}) \union Wake(discovery, discovery', {"local", "service"})
    BY DEF TransformConfig
  <1>2. /\ events' \subseteq Controllers /\ Pending(Controllers \ {"config"})
        /\ discovery' # discovery => "local" \in events' /\ "service" \in events'
    BY <1>1 DEF Wake, Pending, Controllers, DiscoveryInv, Typed, DiscoveryTypeOK
  <1>3. /\ discovery' \in Resource /\ discovery'.version <= applies
        /\ discovery'.version = 0 => discovery' = NoResource
        /\ IF config = NoConfig THEN discovery' = NoResource
           ELSE discovery'.version > 0 /\ discovery'.cluster = config
    <2>1. /\ config \in Configs \union {NoConfig} /\ applies \in 0 .. MaxApplies
          /\ discovery \in Resource /\ discovery.version \in 0 .. MaxApplies
      BY DEF DiscoveryInv, Typed, DiscoveryTypeOK, Resource
    <2>2. CASE config = NoConfig
      BY <2>1, <2>2, NoneTypes DEF TransformConfig
    <2>3. CASE config # NoConfig /\ discovery.version > 0 /\ discovery.cluster = config
      BY <2>1, <2>3 DEF TransformConfig, DiscoveryInv, Counted
    <2>4. CASE config # NoConfig /\ ~(discovery.version > 0 /\ discovery.cluster = config)
      <3> DEFINE v == discovery.version + 1
      <3>1. v \in 1 .. MaxApplies /\ v <= applies
        BY <2>1, <2>4, DiscoveryBounds DEF DiscoveryInv, Counted
      <3>2. discovery' = [cluster |-> config, version |-> v]
        BY <2>4 DEF TransformConfig
      <3> HIDE DEF v
      <3> QED BY <2>1, <2>4, <3>1, <3>2 DEF Resource
    <2> QED BY <2>2, <2>3, <2>4
  <1>4. missed' \in BOOLEAN
    BY DEF TransformConfig, DiscoveryInv, Typed, DiscoveryTypeOK
  <1>5. Typed'
    BY <1>1, <1>2, <1>3, <1>4 DEF DiscoveryInv, Typed, DiscoveryTypeOK, envVars
  <1>6. Counted'
    BY <1>1, <1>3 DEF DiscoveryInv, Counted, envVars
  <1>7. ConfigDone' /\ IdentityDone'
    BY <1>1, <1>2, <1>3 DEF DiscoveryInv, ConfigDone, IdentityDone, envVars, Pending, Controllers
  <1>8. LocalDone' /\ ServiceDone'
    <2>1. CASE discovery' = discovery
      BY <1>1, <1>2, <2>1, LocalAside, ServiceAside DEF DiscoveryInv, envVars, Pending, Controllers
    <2>2. CASE discovery' # discovery
      BY <1>2, <2>2 DEF LocalDone, ServiceDone
    <2> QED BY <2>1, <2>2
  <1>9. Shaped' /\ MergeDone' /\ MemberDone' /\ Undescribed'
    BY <1>1, <1>2, ListsAside, UndescribedAside DEF DiscoveryInv, envVars, Pending, Controllers
  <1>10. ClientUp'
    <2>1. discovery'.version \in Int
      BY <1>3 DEF Resource
    <2>2. ASSUME client.on, ~missed', ctrl.version = discovery'.version
          PROVE  client.cluster = discovery'.cluster
      <3>1. ~missed
        BY <2>2 DEF TransformConfig
      <3>2. CASE discovery' = discovery
        BY <2>2, <3>1, <3>2 DEF DiscoveryInv, ClientUp
      <3>3. CASE discovery'.version > 0
        BY <2>2, <3>2, <3>3 DEF TransformConfig
      <3>4. CASE discovery'.version = 0
        BY <1>3, <2>2, <3>4 DEF DiscoveryInv, ClientUp
      <3> QED BY <1>3, <3>2, <3>3, <3>4 DEF Resource
    <2> QED BY <1>1, <2>2 DEF DiscoveryInv, ClientUp
  <1> QED BY <1>5, <1>6, <1>7, <1>8, <1>9, <1>10 DEF DiscoveryInv

\* An identity is generated only for a config, and it is another one than all before.
LEMMA GenerateStep == ASSUME DiscoveryInv, GenerateIdentity PROVE DiscoveryInv'
  <1>1. /\ UNCHANGED <<envVars, discovery, missed, affiliates, keep, raw, members, ctrl, client, service>>
        /\ events' = (events \ {"identity"}) \union Wake(identity, identity', {"local", "service"})
    BY DEF GenerateIdentity
  <1>2. /\ events' \subseteq Controllers /\ Pending(Controllers \ {"identity"})
        /\ identity' # identity => "local" \in events' /\ "service" \in events'
    BY <1>1 DEF Wake, Pending, Controllers, DiscoveryInv, Typed, DiscoveryTypeOK
  <1>3. /\ lastId' \in 0 .. applies /\ identity' \in {0, lastId'}
        /\ identity' = 0 <=> config = NoConfig
    <2>1. applies \in 0 .. MaxApplies /\ lastId \in 0 .. applies /\ identity \in {0, lastId}
      BY DEF DiscoveryInv, Typed, DiscoveryTypeOK
    <2>2. config # NoConfig /\ identity = 0 => lastId < applies
      BY DEF DiscoveryInv, Counted
    <2> QED BY <2>1, <2>2, DiscoveryBounds DEF GenerateIdentity
  <1>4. Typed'
    BY <1>1, <1>2, <1>3 DEF DiscoveryInv, Typed, DiscoveryTypeOK, envVars
  <1>5. Counted'
    BY <1>1, <1>3 DEF DiscoveryInv, Counted, envVars
  <1>6. ConfigDone' /\ IdentityDone'
    BY <1>1, <1>2, <1>3 DEF DiscoveryInv, ConfigDone, IdentityDone, envVars, Pending, Controllers
  <1>7. LocalDone' /\ ServiceDone'
    <2>1. CASE identity' = identity
      BY <1>1, <1>2, <2>1, LocalAside, ServiceAside DEF DiscoveryInv, envVars, Pending, Controllers
    <2>2. CASE identity' # identity
      BY <1>2, <2>2 DEF LocalDone, ServiceDone
    <2> QED BY <2>1, <2>2
  <1>8. Shaped' /\ MergeDone' /\ MemberDone' /\ Undescribed' /\ ClientUp'
    BY <1>1, <1>2, ListsAside, UndescribedAside, ClientAside DEF DiscoveryInv, envVars, Pending, Controllers
  <1> QED BY <1>4, <1>5, <1>6, <1>7, <1>8 DEF DiscoveryInv

-----------------------------------------------------------------------------
(* The Affiliates *)

AffiliateType == [owner : {"none", "local", "merge"}, facts : Facts \union {1}]

\* The controllers that read the Affiliates hear of a change, those of other
\* Affiliates than its own the service controller need not hear of.
LEMMA AffectedSpec ==
    /\ affiliates' # affiliates => "member" \in Affected
    /\ ctrl.id # 0 /\ affiliates'[ctrl.id] # affiliates[ctrl.id] => "service" \in Affected
    /\ Affected \subseteq {"member", "service"}
  BY DEF Affected, Wake

\* What a write of Affiliates keeps, when the service controller and the member controller
\* hear of it as far as it concerns them.
AffiliatesWritten ==
    /\ affiliates' \in [Nodes -> AffiliateType]
    /\ keep' \in {Idle, 0} \union Ids
    /\ events' \subseteq Controllers /\ Affected \subseteq events'
    /\ Pending({"config", "identity", "service", "member"})
    /\ UNCHANGED <<envVars, resourceVars, raw, members, ctrl, client, service>>

LEMMA AffiliatesAside ==
    ASSUME DiscoveryInv, AffiliatesWritten
    PROVE  /\ Typed' /\ Counted' /\ ConfigDone' /\ IdentityDone' /\ ServiceDone'
           /\ MemberDone' /\ ClientUp'
  <1>1. Typed'
    BY DEF AffiliatesWritten, AffiliateType, DiscoveryInv, Typed, DiscoveryTypeOK, envVars, resourceVars
  <1>2. Counted' /\ ConfigDone' /\ IdentityDone'
    BY ConfigAside DEF AffiliatesWritten, DiscoveryInv, envVars, resourceVars, Pending
  <1>3. ClientUp'
    BY ClientAside DEF AffiliatesWritten, DiscoveryInv, envVars, resourceVars
  <1>4. MemberDone'
    <2>1. CASE affiliates' = affiliates
      BY <2>1 DEF AffiliatesWritten, DiscoveryInv, MemberDone, Named, Pending
    <2>2. CASE affiliates' # affiliates
      BY <2>2, AffectedSpec DEF AffiliatesWritten, MemberDone
    <2> QED BY <2>1, <2>2
  <1>5. ServiceDone'
    <2>1. SUFFICES ASSUME "service" \notin events' PROVE ServiceDone'
      BY DEF ServiceDone
    <2>2. "service" \notin events /\ (ctrl.id # 0 => affiliates'[ctrl.id] = affiliates[ctrl.id])
      BY <2>1, AffectedSpec DEF AffiliatesWritten, Pending
    <2>3. discovery.cluster \in Clusters /\ identity # 0 => affiliates'[identity] = affiliates[identity]
      BY <2>2 DEF DiscoveryInv, ServiceDone
    <2> QED BY <2>2, <2>3 DEF AffiliatesWritten, DiscoveryInv, ServiceDone, Usable, Described, envVars, resourceVars
  <1> QED BY <1>1, <1>2, <1>3, <1>4, <1>5

LEMMA WriteLocalStep == ASSUME DiscoveryInv, WriteLocal PROVE DiscoveryInv'
  <1>1. /\ keep = Idle /\ events' = (events \ {"local"}) \union Affected
        /\ UNCHANGED <<envVars, resourceVars, raw, members, ctrl, client, service>>
    BY DEF WriteLocal
  <1>2. /\ affiliates \in [Nodes -> AffiliateType] /\ facts \in Facts /\ events \subseteq Controllers
        /\ keep \in {Idle, 0} \union Ids
    BY DEF DiscoveryInv, Typed, DiscoveryTypeOK, AffiliateType
  <1>3. /\ events' \subseteq Controllers /\ Affected \subseteq events'
        /\ Pending({"config", "identity", "service", "member"})
        /\ "local" \notin events'
    BY <1>1, <1>2, AffectedSpec DEF Pending, Controllers
  <1>4. CASE discovery.version = 0 /\ affiliates' = Without(Owned("local")) /\ UNCHANGED keep
    <2>1. /\ affiliates' \in [Nodes -> AffiliateType]
          /\ \A n \in Nodes : \/ affiliates'[n] = affiliates[n] /\ affiliates[n].owner # "local"
                              \/ affiliates'[n] = NoAffiliate /\ affiliates[n].owner = "local"
      BY <1>2, <1>4, NoneTypes DEF Without, Owned, AffiliateType
    <2>2. AffiliatesWritten
      BY <1>1, <1>2, <1>3, <1>4, <2>1 DEF AffiliatesWritten
    <2>3. \A n \in Nodes : affiliates'[n].owner # "local"
      BY <2>1, NoneTypes
    <2>4. LocalDone'
      BY <1>1, <1>4, <2>3 DEF LocalDone, Owned, Ready, resourceVars
    <2>5. Undescribed' /\ Shaped'
      BY <1>1, <2>1, NoneTypes DEF DiscoveryInv, Undescribed, Shaped, envVars
    <2>6. MergeDone'
      BY <1>1, <1>3, <2>1, NoneTypes DEF DiscoveryInv, MergeDone, Pending
    <2> QED BY <2>2, <2>4, <2>5, <2>6, AffiliatesAside DEF DiscoveryInv
  <1>5. CASE discovery.version > 0 /\ (identity = 0 \/ facts = 0) /\ UNCHANGED <<affiliates, keep>>
    <2>1. AffiliatesWritten
      BY <1>1, <1>2, <1>3, <1>5 DEF AffiliatesWritten
    <2>2. discovery.version # 0
      BY <1>5
    <2>3. LocalDone'
      BY <1>1, <1>5, <2>2 DEF LocalDone, Ready, envVars, resourceVars
    <2>4. Undescribed'
      BY <1>1, <1>5, UndescribedAside DEF DiscoveryInv, envVars
    <2>5. Shaped' /\ MergeDone'
      BY <1>1, <1>3, <1>5 DEF DiscoveryInv, Shaped, MergeDone, Pending
    <2> QED BY <2>1, <2>3, <2>4, <2>5, AffiliatesAside DEF DiscoveryInv
  <1>6. CASE Ready /\ discovery.cluster = Disabled /\ keep' = 0 /\ UNCHANGED affiliates
    <2>1. AffiliatesWritten
      BY <1>1, <1>2, <1>3, <1>6 DEF AffiliatesWritten
    <2>2. LocalDone'
      BY <1>1, <1>6, DiscoveryBounds DEF LocalDone, Ready, envVars, resourceVars
    <2>3. Undescribed'
      BY <1>1, <1>6, UndescribedAside DEF DiscoveryInv, envVars
    <2>4. Shaped' /\ MergeDone'
      BY <1>1, <1>3, <1>6 DEF DiscoveryInv, Shaped, MergeDone, Pending
    <2> QED BY <2>1, <2>2, <2>3, <2>4, AffiliatesAside DEF DiscoveryInv
  <1>7. CASE /\ Ready /\ discovery.cluster # Disabled /\ keep' = identity
             /\ affiliates[identity].owner # "merge"
             /\ affiliates' = [affiliates EXCEPT ![identity] = [owner |-> "local", facts |-> facts]]
    <2>1. identity \in Ids /\ identity \in Nodes /\ identity # Idle
      BY <1>7, IdentityType, DiscoveryBounds DEF DiscoveryInv, Ready
    <2>2. /\ affiliates' \in [Nodes -> AffiliateType]
          /\ affiliates'[identity].owner = "local" /\ affiliates'[identity].facts = facts
          /\ \A n \in Nodes \ {identity} : affiliates'[n] = affiliates[n]
      BY <1>2, <1>7, <2>1 DEF AffiliateType
    <2>3. AffiliatesWritten
      BY <1>1, <1>2, <1>3, <1>7, <2>1, <2>2 DEF AffiliatesWritten
    <2>4. LocalDone'
      BY <1>1, <1>7, <2>1, <2>2 DEF LocalDone, Ready, envVars, resourceVars
    <2>5. Undescribed' /\ Shaped'
      BY <1>1, <1>7, <2>1, <2>2 DEF DiscoveryInv, Undescribed, Shaped, envVars, Ready
    <2>6. "merge" \notin events => raw[identity] = 0
      BY <1>7, <2>1 DEF DiscoveryInv, MergeDone
    <2>7. MergeDone'
      BY <1>1, <1>3, <2>2, <2>6 DEF DiscoveryInv, MergeDone, Pending
    <2> QED BY <2>3, <2>4, <2>5, <2>7, AffiliatesAside DEF DiscoveryInv
  <1> QED BY <1>4, <1>5, <1>6, <1>7 DEF WriteLocal, Ready

LEMMA CleanupLocalStep == ASSUME DiscoveryInv, CleanupLocal PROVE DiscoveryInv'
  <1>1. /\ keep # Idle /\ keep' = Idle /\ events' = events \union Affected
        /\ affiliates' = Without(Owned("local") \ {keep})
        /\ UNCHANGED <<envVars, resourceVars, raw, members, ctrl, client, service>>
    BY DEF CleanupLocal
  <1>2. affiliates \in [Nodes -> AffiliateType] /\ events \subseteq Controllers
    BY DEF DiscoveryInv, Typed, DiscoveryTypeOK, AffiliateType
  <1>3. /\ affiliates' \in [Nodes -> AffiliateType]
        /\ \A n \in Nodes : \/ /\ affiliates'[n] = affiliates[n]
                               /\ affiliates[n].owner # "local" \/ n = keep
                            \/ /\ affiliates'[n] = NoAffiliate
                               /\ affiliates[n].owner = "local" /\ n # keep
    BY <1>1, <1>2, NoneTypes DEF Without, Owned, AffiliateType
  <1>4. /\ events' \subseteq Controllers /\ Affected \subseteq events' /\ Pending(Controllers)
        /\ "local" \notin events' => "local" \notin events
    BY <1>1, <1>2, AffectedSpec DEF Pending, Controllers
  <1>5. AffiliatesWritten
    BY <1>1, <1>3, <1>4, DiscoveryBounds DEF AffiliatesWritten, Pending, Controllers
  <1>6. LocalDone'
    <2>1. SUFFICES ASSUME "local" \notin events' PROVE LocalDone'
      BY DEF LocalDone
    <2>2. /\ Ready /\ keep = IF discovery.cluster = Disabled THEN 0 ELSE identity
          /\ discovery.cluster # Disabled =>
                affiliates[identity].owner = "local" /\ affiliates[identity].facts = facts
      BY <1>1, <1>4, <2>1 DEF DiscoveryInv, LocalDone
    <2>3. discovery.version # 0 /\ identity \in Nodes
      BY <2>2, IdentityType DEF DiscoveryInv, Ready
    <2>4. CASE discovery.cluster = Disabled
      <3>1. \A n \in Nodes : affiliates'[n].owner # "local"
        BY <1>3, <2>2, <2>4, NoneTypes, DiscoveryBounds
      <3> QED BY <1>1, <2>3, <2>4, <3>1 DEF LocalDone, Owned, Ready, envVars, resourceVars
    <2>5. CASE discovery.cluster # Disabled
      <3>1. affiliates'[identity] = affiliates[identity]
        BY <1>3, <2>2, <2>3, <2>5
      <3>2. \A n \in Nodes \ {identity} : affiliates'[n].owner # "local"
        BY <1>3, <2>2, <2>5, NoneTypes
      <3>3. {n \in Nodes : affiliates'[n].owner = "local"} = {identity}
        BY <2>2, <2>3, <2>5, <3>1, <3>2
      <3> QED BY <1>1, <2>2, <2>3, <2>5, <3>1, <3>3 DEF LocalDone, Owned, Ready, envVars, resourceVars
    <2> QED BY <2>4, <2>5
  <1>7. Undescribed' /\ Shaped'
    BY <1>1, <1>3, NoneTypes DEF DiscoveryInv, Undescribed, Shaped, envVars
  <1>8. MergeDone'
    BY <1>1, <1>3, <1>4, NoneTypes DEF DiscoveryInv, MergeDone, Pending, Controllers
  <1> QED BY <1>5, <1>6, <1>7, <1>8, AffiliatesAside DEF DiscoveryInv

\* The affiliates a merge writes are not those of this machine, and have facts.
LEMMA MergedSpec ==
    ASSUME DiscoveryInv, NEW S \in SUBSET Nodes,
           \A n \in S : raw[n] # 0 /\ affiliates[n].owner # "local",
           NEW T \in SUBSET (Nodes \ S), \A n \in T : affiliates[n].owner = "merge",
           affiliates' = [n \in Nodes |-> IF n \in T THEN NoAffiliate ELSE Merged(S)[n]]
    PROVE  /\ affiliates' \in [Nodes -> AffiliateType]
           /\ \A n \in S : affiliates'[n].owner = "merge" /\ affiliates'[n].facts = raw[n]
           /\ \A n \in T : affiliates'[n].owner = "none" /\ affiliates'[n].facts = 0
           /\ \A n \in Nodes \ (S \union T) : affiliates'[n] = affiliates[n]
           /\ \A n \in Nodes : affiliates[n].owner = "local" => affiliates'[n] = affiliates[n]
           /\ \A n \in Nodes : affiliates'[n].owner = "local" <=> affiliates[n].owner = "local"
  <1>1. affiliates \in [Nodes -> AffiliateType] /\ raw \in [Nodes -> Facts \union {1}]
    BY DEF DiscoveryInv, Typed, DiscoveryTypeOK, AffiliateType
  <1>2. \A n \in S : affiliates'[n].owner = "merge" /\ affiliates'[n].facts = raw[n]
    BY DEF Merged
  <1>3. \A n \in T : affiliates'[n] = NoAffiliate
    OBVIOUS
  <1>4. \A n \in Nodes \ (S \union T) : affiliates'[n] = affiliates[n]
    BY DEF Merged
  <1>5. affiliates' \in [Nodes -> AffiliateType]
    <2>1. \A n \in S : Merged(S)[n] \in AffiliateType
      BY <1>1 DEF Merged, AffiliateType
    <2>2. NoAffiliate \in AffiliateType
      BY NoneTypes DEF AffiliateType
    <2>3. \A n \in Nodes : affiliates'[n] \in AffiliateType
      BY <1>1, <1>4, <2>1, <2>2
    <2> QED BY <2>3
  <1> QED BY <1>2, <1>3, <1>4, <1>5, NoneTypes

\* Affiliates of this machine are none of a merge's business.
LEMMA MergeWritten ==
    ASSUME DiscoveryInv, NEW S \in SUBSET Nodes,
           \A n \in S : raw[n] # 0 /\ affiliates[n].owner # "local",
           NEW T \in SUBSET (Nodes \ S), \A n \in T : affiliates[n].owner = "merge",
           affiliates' = [n \in Nodes |-> IF n \in T THEN NoAffiliate ELSE Merged(S)[n]],
           events' \subseteq Controllers, Affected \subseteq events', Pending(Controllers \ {"merge"}),
           UNCHANGED <<envVars, resourceVars, keep, raw, members, ctrl, client, service>>,
           \/ "merge" \in events'
           \/ \A n \in Nodes : /\ raw[n] # 0 => n \in S
                               /\ affiliates[n].owner = "merge" => n \in S \union T
    PROVE  DiscoveryInv'
  <1>1. /\ affiliates' \in [Nodes -> AffiliateType]
        /\ \A n \in S : affiliates'[n].owner = "merge" /\ affiliates'[n].facts = raw[n]
        /\ \A n \in T : affiliates'[n].owner = "none" /\ affiliates'[n].facts = 0
        /\ \A n \in Nodes \ (S \union T) : affiliates'[n] = affiliates[n]
        /\ \A n \in Nodes : affiliates[n].owner = "local" => affiliates'[n] = affiliates[n]
        /\ \A n \in Nodes : affiliates'[n].owner = "local" <=> affiliates[n].owner = "local"
    BY MergedSpec
  <1>2. keep \in {Idle, 0} \union Ids
    BY DEF DiscoveryInv, Typed, DiscoveryTypeOK
  <1>3. AffiliatesWritten
    <2>1. Pending({"config", "identity", "service", "member"})
      BY DEF Pending, Controllers, DiscoveryInv, Typed, DiscoveryTypeOK
    <2> QED BY <1>1, <1>2, <2>1 DEF AffiliatesWritten
  <1>4. LocalDone'
    <2>1. Owned("local")' = Owned("local")
      BY <1>1 DEF Owned
    <2>2. Ready /\ affiliates[identity].owner = "local" => affiliates'[identity] = affiliates[identity]
      BY <1>1, IdentityType DEF DiscoveryInv, Ready
    <2>3. "local" \notin events' => "local" \notin events
      BY DEF Pending, Controllers
    <2> QED BY <2>1, <2>2, <2>3 DEF DiscoveryInv, LocalDone, Ready, envVars, resourceVars
  <1>5. Undescribed'
    <2>1. SUFFICES ASSUME facts = 0 PROVE Undescribed'
      BY DEF Undescribed, envVars
    <2>2. S = {} /\ T = {}
      BY <2>1, NoneTypes DEF DiscoveryInv, Undescribed
    <2> QED BY <1>1, <2>1, <2>2 DEF DiscoveryInv, Undescribed
  <1>6. Shaped'
    <2>1. \A n \in Nodes : affiliates'[n].owner = "none" <=> affiliates'[n].facts = 0
      <3>1. \A n \in S : affiliates'[n].owner # "none" /\ affiliates'[n].facts # 0
        BY <1>1
      <3>2. \A n \in Nodes \ (S \union T) : affiliates'[n].owner = "none" <=> affiliates'[n].facts = 0
        BY <1>1 DEF DiscoveryInv, Shaped
      <3> QED BY <1>1, <3>1, <3>2
    <2>2. \A n \in Nodes : affiliates'[n].owner = "local" => n \in Ids
      BY <1>1 DEF DiscoveryInv, Shaped
    <2> QED BY <2>1, <2>2 DEF Shaped
  <1>7. MergeDone'
    <2>1. SUFFICES ASSUME "merge" \notin events' PROVE MergeDone'
      BY DEF MergeDone
    <2>2. /\ \A n \in Nodes : raw[n] # 0 => n \in S
          /\ \A n \in Nodes : affiliates[n].owner = "merge" => n \in S \union T
      BY <2>1
    <2>3. ASSUME NEW n \in Nodes, raw[n] = 0 PROVE affiliates'[n].owner # "merge"
      <3>1. CASE n \in T
        BY <1>1, <3>1
      <3>2. CASE n \notin T
        <4>1. affiliates'[n] = affiliates[n] /\ affiliates[n].owner # "merge"
          BY <1>1, <2>2, <2>3, <3>2
        <4> QED BY <4>1
      <3> QED BY <3>1, <3>2
    <2>4. ASSUME NEW n \in Nodes, raw[n] # 0
          PROVE  affiliates'[n].owner = "merge" /\ affiliates'[n].facts = raw[n]
      <3>1. n \in S
        BY <2>2, <2>4
      <3> QED BY <1>1, <3>1
    <2> QED BY <2>3, <2>4 DEF MergeDone
  <1> QED BY <1>3, <1>4, <1>5, <1>6, <1>7, AffiliatesAside DEF DiscoveryInv

LEMMA MergeStep == ASSUME DiscoveryInv, MergeAffiliates PROVE DiscoveryInv'
  <1> DEFINE reported == {n \in Nodes : raw[n] # 0}
             foreign == reported \intersect Owned("local")
  <1>1. /\ "merge" \in events /\ events \subseteq Controllers /\ Affected \subseteq Controllers
        /\ UNCHANGED <<envVars, resourceVars, keep, raw, members, ctrl, client, service>>
    BY AffectedSpec DEF MergeAffiliates, DiscoveryInv, Typed, DiscoveryTypeOK, Controllers
  <1>2. CASE /\ foreign = {}
             /\ affiliates' = [n \in Nodes |-> IF n \in Owned("merge") \ reported THEN NoAffiliate
                                               ELSE Merged(reported)[n]]
             /\ events' = (events \ {"merge"}) \union Affected
    <2> DEFINE T == Owned("merge") \ reported
    <2>1. /\ reported \in SUBSET Nodes /\ T \in SUBSET (Nodes \ reported)
          /\ \A n \in reported : raw[n] # 0 /\ affiliates[n].owner # "local"
          /\ \A n \in T : affiliates[n].owner = "merge"
      BY <1>2 DEF Owned
    <2>2. affiliates' = [n \in Nodes |-> IF n \in T THEN NoAffiliate ELSE Merged(reported)[n]]
      BY <1>2
    <2>3. events' \subseteq Controllers /\ Affected \subseteq events' /\ Pending(Controllers \ {"merge"})
      BY <1>1, <1>2 DEF Pending
    <2>4. \A n \in Nodes : /\ raw[n] # 0 => n \in reported
                           /\ affiliates[n].owner = "merge" => n \in reported \union T
      BY DEF Owned
    <2> HIDE DEF T, reported
    <2> QED BY <1>1, <2>1, <2>2, <2>3, <2>4, MergeWritten
  <1>3. CASE /\ \E S \in SUBSET (reported \ foreign) : affiliates' = Merged(S)
             /\ events' = events \union Affected
    <2>1. PICK S \in SUBSET (reported \ foreign) : affiliates' = Merged(S)
      BY <1>3
    <2>2. /\ S \in SUBSET Nodes /\ {} \in SUBSET (Nodes \ S)
          /\ \A n \in S : raw[n] # 0 /\ affiliates[n].owner # "local"
          /\ \A n \in {} : affiliates[n].owner = "merge"
      BY DEF Owned
    <2>3. affiliates' = [n \in Nodes |-> IF n \in {} THEN NoAffiliate ELSE Merged(S)[n]]
      BY <2>1 DEF Merged
    <2>4. events' \subseteq Controllers /\ Affected \subseteq events' /\ Pending(Controllers \ {"merge"})
      BY <1>1, <1>3 DEF Pending
    <2>5. "merge" \in events'
      BY <1>1, <1>3
    <2> QED BY <1>1, <2>2, <2>3, <2>4, <2>5, MergeWritten
  <1> QED BY <1>2, <1>3 DEF MergeAffiliates

LEMMA ListStep == ASSUME DiscoveryInv, ListMembers PROVE DiscoveryInv'
  <1> DEFINE M == {NoMember} \union {[id |-> n, facts |-> affiliates[n].facts] : n \in Nodes}
  <1>1. /\ members' \in [Names -> M]
        /\ \A x \in Names : IF Named(x) = {} THEN members'[x] = NoMember ELSE members'[x].id \in Named(x)
        /\ events' = events \ {"member"}
        /\ UNCHANGED <<envVars, resourceVars, affiliates, keep, raw, ctrl, client, service>>
    BY DEF ListMembers, Names, Named
  <1>2. events' \subseteq Controllers /\ Pending(Controllers \ {"member"})
    BY <1>1 DEF DiscoveryInv, Typed, DiscoveryTypeOK, Pending
  <1>3. affiliates \in [Nodes -> AffiliateType]
    BY DEF DiscoveryInv, Typed, DiscoveryTypeOK, AffiliateType
  <1>4. \A m \in M : /\ m \in [id : {0} \union Nodes, facts : Facts \union {1}]
                     /\ m.id \in Nodes => m.facts = affiliates[m.id].facts
    BY <1>3, NoneTypes, DiscoveryBounds DEF AffiliateType
  <1>5. Typed'
    <2>1. members' \in [{Self} \union Peers -> [id : {0} \union Nodes, facts : Facts \union {1}]]
      BY <1>1, <1>4 DEF Names
    <2> QED BY <1>1, <1>2, <2>1 DEF DiscoveryInv, Typed, DiscoveryTypeOK, envVars, resourceVars
  <1>6. MemberDone'
    <2>1. \A x \in Names : Named(x) # {} => members'[x].id \in Nodes /\ members'[x] \in M
      BY <1>1 DEF Named
    <2> QED BY <1>1, <1>4, <2>1 DEF MemberDone, Named
  <1>7. Counted' /\ ConfigDone' /\ IdentityDone'
    BY <1>1, <1>2, ConfigAside DEF DiscoveryInv, envVars, resourceVars, Pending, Controllers
  <1>8. LocalDone' /\ ServiceDone' /\ ClientUp'
    BY <1>1, <1>2, LocalAside, ServiceAside, ClientAside DEF DiscoveryInv, envVars, resourceVars, Pending, Controllers
  <1>9. Shaped' /\ MergeDone'
    BY <1>1, <1>2 DEF DiscoveryInv, Shaped, MergeDone, Pending, Controllers
  <1>10. Undescribed'
    <2>1. (\A n \in Nodes : affiliates[n].owner = "none") => \A x \in Names : Named(x) = {}
      BY DEF Named
    <2> QED BY <1>1, <2>1 DEF DiscoveryInv, Undescribed, envVars
  <1> QED BY <1>5, <1>6, <1>7, <1>8, <1>9, <1>10 DEF DiscoveryInv

-----------------------------------------------------------------------------
(* DiscoveryServiceController *)

\* A usable client is one for the present identity, and of the config's cluster.
LEMMA CurrentSpec ==
    ASSUME DiscoveryInv
    PROVE  /\ Current \in Client
           /\ Current.on => Current = client /\ client.on /\ Usable
           /\ ~Current.on => Current = NoClient
  BY NoneTypes DEF Current, DiscoveryInv, Typed

\* The service controller writes its client, its memory and the raw Affiliates.
ServiceWritten ==
    /\ client' \in Client /\ ctrl' \in [version : 0 .. MaxApplies, id : {0} \union Ids]
    /\ raw' \in [Nodes -> Facts \union {1}]
    /\ ~client'.on => client' = NoClient
    /\ facts = 0 => ~client'.on /\ raw' = NoOne
    /\ events' = (events \ {"service"}) \union Wake(raw, raw', {"merge"})
    /\ UNCHANGED <<envVars, resourceVars, affiliates, keep, members, service>>

LEMMA ServiceWrites ==
    ASSUME DiscoveryInv, ServiceWritten, ClientUp', ServiceDone'
    PROVE  DiscoveryInv'
  <1>1. events' \subseteq Controllers /\ Pending(Controllers \ {"service"})
    BY DEF ServiceWritten, DiscoveryInv, Typed, DiscoveryTypeOK, Pending, Wake, Controllers
  <1>2. Typed'
    <2>1. client'.on => client'.cluster \in Clusters /\ client'.id = ctrl'.id /\ client'.id # 0
      BY DEF ClientUp
    <2>2. client'.known \in [Nodes -> Facts \union {1}] /\ client'.sent \in Facts
      BY DEF ServiceWritten, Client
    <2> QED BY <1>1, <2>1, <2>2 DEF ServiceWritten, DiscoveryInv, Typed, DiscoveryTypeOK, envVars, resourceVars
  <1>3. Counted' /\ ConfigDone' /\ IdentityDone' /\ LocalDone'
    BY <1>1, ConfigAside, LocalAside DEF ServiceWritten, DiscoveryInv, Pending, Controllers, envVars, resourceVars
  <1>4. Undescribed' /\ Shaped'
    BY DEF ServiceWritten, DiscoveryInv, Undescribed, Shaped, envVars
  <1>5. MemberDone'
    BY <1>1 DEF ServiceWritten, DiscoveryInv, MemberDone, Named, Pending, Controllers
  <1>6. MergeDone'
    <2>1. CASE raw' = raw
      BY <1>1, <2>1 DEF ServiceWritten, DiscoveryInv, MergeDone, Pending, Controllers
    <2>2. CASE raw' # raw
      BY <2>2 DEF ServiceWritten, MergeDone, Wake
    <2> QED BY <2>1, <2>2
  <1> QED BY <1>2, <1>3, <1>4, <1>5, <1>6 DEF DiscoveryInv

\* Nothing is left of the last cluster.
LEMMA DisconnectStep ==
    ASSUME DiscoveryInv, "service" \in events, Disconnect,
           events' = (events \ {"service"}) \union Wake(raw, raw', {"merge"}),
           UNCHANGED <<envVars, resourceVars, affiliates, keep, members, service>>
    PROVE  DiscoveryInv'
  <1>1. ServiceWritten
    BY NoneTypes DEF Disconnect, ServiceWritten, DiscoveryInv, Typed, DiscoveryTypeOK
  <1>2. ClientUp' /\ ServiceDone'
    BY NoneTypes DEF Disconnect, ClientUp, ServiceDone, resourceVars
  <1> QED BY <1>1, <1>2, ServiceWrites

\* The controller takes note of an identity before it has its Affiliate.
LEMMA AwaitStep ==
    ASSUME DiscoveryInv, "service" \in events, Await,
           events' = (events \ {"service"}) \union Wake(raw, raw', {"merge"}),
           UNCHANGED <<envVars, resourceVars, affiliates, keep, members, service>>
    PROVE  DiscoveryInv'
  <1>1. discovery.cluster \in Clusters /\ ~Described /\ client' = Current /\ UNCHANGED raw
    BY DEF Await
  <1>2. /\ ctrl \in [version : 0 .. MaxApplies, id : {0} \union Ids]
        /\ raw \in [Nodes -> Facts \union {1}]
    BY DEF DiscoveryInv, Typed, DiscoveryTypeOK
  <1>3. /\ ctrl' \in [version : 0 .. MaxApplies, id : {0} \union Ids]
        /\ ctrl'.version = ctrl.version
        /\ ctrl'.id = IF identity = 0 THEN ctrl.id ELSE identity
    BY <1>2, IdentityType DEF Await, DiscoveryInv
  <1>4. ServiceWritten
    <2>1. facts = 0 => ~client.on /\ raw = NoOne
      BY DEF DiscoveryInv, Undescribed
    <2> QED BY <1>1, <1>2, <1>3, <2>1, CurrentSpec DEF ServiceWritten
  <1>5. client'.on => client' = client /\ client.on /\ Usable
    BY <1>1, CurrentSpec
  <1>6. ctrl'.id = ctrl.id \/ ~Usable \/ identity = ctrl.id
    BY <1>3 DEF Usable
  <1>7. ClientUp'
    BY <1>3, <1>5, <1>6 DEF ClientUp, DiscoveryInv, resourceVars, Usable
  <1>8. ServiceDone'
    <2>1. ~Described'
      BY <1>1 DEF Described, resourceVars
    <2>2. identity # 0 => ctrl'.id = identity
      BY <1>3
    <2>3. client'.on => Usable'
      BY <1>3, <1>5 DEF Usable, resourceVars
    <2> QED BY <1>1, <2>1, <2>2, <2>3 DEF ServiceDone, resourceVars
  <1> QED BY <1>4, <1>7, <1>8, ServiceWrites

\* The client is one for the config and the identity, and has been given the present facts.
LEMMA ExchangeStep ==
    ASSUME DiscoveryInv, "service" \in events, Exchange,
           events' = (events \ {"service"}) \union Wake(raw, raw', {"merge"}),
           UNCHANGED <<envVars, resourceVars, affiliates, keep, members, service>>
    PROVE  DiscoveryInv'
  <1> DEFINE fresh == [NoClient EXCEPT !.on = TRUE, !.cluster = discovery.cluster, !.id = identity]
             c == IF Current.on THEN client ELSE fresh
             new == affiliates[identity].facts
             d == c.dirty \/ c.sent # new
  <1>1. /\ discovery.cluster \in Clusters /\ Described
        /\ client' = [c EXCEPT !.sent = new, !.dirty = d] /\ raw' = c.known
        /\ ctrl' = [version |-> discovery.version, id |-> identity]
    BY DEF Exchange
  <1>2. /\ identity \in Ids /\ identity \in Nodes /\ identity # 0
        /\ discovery.version \in 0 .. MaxApplies /\ discovery.version # 0
        /\ discovery.cluster \in Clusters
    <2>1. discovery \in Resource
      BY DEF DiscoveryInv, Typed, DiscoveryTypeOK
    <2>2. discovery.version # 0
      BY <1>1, NoneTypes, DiscoveryBounds DEF DiscoveryInv, Counted
    <2> QED BY <1>1, <2>1, <2>2, IdentityType DEF DiscoveryInv, Described, Resource
  <1>3. new \in Facts /\ new # 0 /\ facts # 0
    <2>1. affiliates \in [Nodes -> AffiliateType] /\ facts \in Facts
      BY DEF DiscoveryInv, Typed, DiscoveryTypeOK, AffiliateType
    <2>2. affiliates[identity].owner # "none" \/ affiliates[identity].facts # 0
      <3>1. affiliates[identity] \in AffiliateType /\ affiliates[identity] # NoAffiliate
        BY <1>1, <1>2, <2>1 DEF Described
      <3> QED BY <3>1 DEF AffiliateType, NoAffiliate
    <2>3. new # 0 /\ facts # 0
      BY <1>2, <2>2 DEF DiscoveryInv, Shaped, Undescribed
    <2>4. 1 \in Facts
      BY <2>1, <2>3, DiscoveryBounds DEF Facts
    <2>5. new \in Facts \union {1}
      BY <1>2, <2>1 DEF AffiliateType
    <2> QED BY <2>3, <2>4, <2>5
  <1>4. /\ fresh \in Client /\ fresh.on /\ fresh.cluster = discovery.cluster
        /\ fresh.id = identity /\ fresh.sent = 0
    <2>1. NoClient \in Client /\ NoClient.sent = 0
      BY NoneTypes DEF NoClient
    <2> QED BY <1>2, <2>1 DEF Client
  <1>5. /\ c \in Client /\ c.on /\ c.id = identity /\ c.cluster \in Clusters
        /\ c.dirty \/ service[c.cluster][c.id] = c.sent \/ c.sent = 0
        /\ ~missed => c.cluster = discovery.cluster
    <2>1. CASE Current.on
      <3>1. c = client /\ client.on /\ ctrl.version = discovery.version /\ identity = ctrl.id
        BY <1>2, <2>1, CurrentSpec DEF Usable
      <3> QED BY <3>1 DEF DiscoveryInv, ClientUp, Typed
    <2>2. CASE ~Current.on
      <3>1. c = fresh
        BY <2>2
      <3> HIDE DEF fresh, c
      <3> QED BY <1>2, <1>4, <3>1
    <2> QED BY <2>1, <2>2
  <1>6. d \in BOOLEAN
    BY <1>5 DEF Client
  <1>7. /\ client' \in Client /\ client'.on /\ client'.id = identity /\ client'.cluster = c.cluster
        /\ client'.sent = new /\ (client'.dirty <=> d) /\ client'.known = c.known
    <2> HIDE DEF c, new, d
    <2> QED BY <1>1, <1>3, <1>5, <1>6 DEF Client
  <1>8. ServiceWritten
    <2>1. c.known \in [Nodes -> Facts \union {1}]
      BY <1>5 DEF Client
    <2>2. ctrl' \in [version : 0 .. MaxApplies, id : {0} \union Ids]
      BY <1>1, <1>2
    <2> HIDE DEF c, new, d
    <2> QED BY <1>1, <1>3, <1>7, <2>1, <2>2 DEF ServiceWritten
  <1>9. ctrl'.version = discovery.version /\ ctrl'.id = identity
    BY <1>1
  <1>10. ClientUp'
    <2>1. client'.dirty \/ service[client'.cluster][client'.id] = client'.sent
      BY <1>3, <1>5, <1>7
    <2> HIDE DEF c, new, d
    <2> QED BY <1>2, <1>3, <1>5, <1>7, <1>9, <2>1 DEF ClientUp, resourceVars
  <1>11. ServiceDone'
    <2> HIDE DEF c, d
    <2> QED BY <1>1, <1>2, <1>7, <1>9 DEF ServiceDone, Usable, Described, resourceVars
  <1> QED BY <1>8, <1>10, <1>11, ServiceWrites

LEMMA ReconcileStep == ASSUME DiscoveryInv, Reconcile PROVE DiscoveryInv'
  BY DisconnectStep, AwaitStep, ExchangeStep DEF Reconcile

-----------------------------------------------------------------------------
(* The discovery client and the service *)

LEMMA ListedType ==
    ASSUME DiscoveryInv, client.on
    PROVE  Listed \in [Nodes -> Facts \union {1}]
  <1>1. service \in [Clusters -> [Ids -> Facts]] /\ client.cluster \in Clusters
    BY DEF DiscoveryInv, Typed, DiscoveryTypeOK
  <1>2. ASSUME NEW n \in Nodes, n \notin Peers
        PROVE  service[client.cluster][n] \in Facts
    BY <1>1, <1>2 DEF Nodes
  <1> QED BY <1>2, DiscoveryBounds DEF Listed

\* What the client does with the service wakes its controller, and nobody else.
LEMMA ClientWrites ==
    ASSUME DiscoveryInv, client' \in Client, ~client'.on => client' = NoClient,
           client'.on => client.on, service' \in [Clusters -> [Ids -> Facts]],
           failures' \in 0 .. MaxFailures, events' = events \union {"service"},
           UNCHANGED <<config, applies, facts, resourceVars, affiliates, keep, raw, members, ctrl>>,
           ClientUp'
    PROVE  DiscoveryInv'
  <1>1. events' \subseteq Controllers /\ Pending(Controllers)
    BY DEF DiscoveryInv, Typed, DiscoveryTypeOK, Pending, Controllers
  <1>2. Typed'
    <2>1. client'.on => client'.cluster \in Clusters /\ client'.id = ctrl'.id /\ client'.id # 0
      BY DEF ClientUp
    <2>2. client'.known \in [Nodes -> Facts \union {1}] /\ client'.sent \in Facts
      BY DEF Client
    <2> QED BY <1>1, <2>1, <2>2 DEF DiscoveryInv, Typed, DiscoveryTypeOK, resourceVars
  <1>3. Counted' /\ ConfigDone' /\ IdentityDone' /\ LocalDone'
    BY <1>1, ConfigAside, LocalAside DEF DiscoveryInv, Pending, Controllers, resourceVars
  <1>4. Shaped' /\ MergeDone' /\ MemberDone'
    BY <1>1, ListsAside DEF DiscoveryInv, Pending, Controllers
  <1>5. Undescribed' /\ ServiceDone'
    BY DEF DiscoveryInv, Undescribed, ServiceDone
  <1> QED BY <1>2, <1>3, <1>4, <1>5 DEF DiscoveryInv

\* After a sync the service has what the client sent.
LEMMA ClientSyncStep == ASSUME DiscoveryInv, ClientSync PROVE DiscoveryInv'
  <1> DEFINE given == IF client.dirty THEN client.sent ELSE service[client.cluster][client.id]
             list == Listed
  <1>1. /\ client.on /\ client.cluster \in Clusters /\ client.id \in Ids /\ client.id # 0
        /\ client \in Client /\ client.sent \in Facts
        /\ service \in [Clusters -> [Ids -> Facts]]
    BY DEF ClientSync, DiscoveryInv, Typed, DiscoveryTypeOK, Client
  <1>2. given = client.sent /\ given \in Facts
    BY <1>1 DEF DiscoveryInv, ClientUp
  <1>3. service' = [service EXCEPT ![client.cluster][client.id] = given]
    BY DEF ClientSync
  <1>4. /\ service' \in [Clusters -> [Ids -> Facts]]
        /\ service'[client.cluster][client.id] = client.sent
    <2> HIDE DEF given
    <2> QED BY <1>1, <1>2, <1>3
  <1>5. client' = [client EXCEPT !.dirty = FALSE, !.known = list]
    BY DEF ClientSync
  <1>6. list \in [Nodes -> Facts \union {1}]
    BY <1>1, ListedType
  <1>7. /\ client' \in Client /\ client'.on /\ client'.cluster = client.cluster
        /\ client'.id = client.id /\ client'.sent = client.sent
    <2> HIDE DEF list
    <2> QED BY <1>1, <1>5, <1>6 DEF Client
  <1>8. UNCHANGED <<config, applies, failures, facts, resourceVars, affiliates, keep, raw, members, ctrl>>
    BY DEF ClientSync, envVars
  <1>9. ClientUp'
    BY <1>1, <1>4, <1>7, <1>8 DEF DiscoveryInv, ClientUp, resourceVars
  <1>10. failures' \in 0 .. MaxFailures /\ events' = events \union {"service"}
    BY <1>8 DEF ClientSync, DiscoveryInv, Typed, DiscoveryTypeOK
  <1> QED BY <1>1, <1>4, <1>7, <1>8, <1>9, <1>10, ClientWrites

LEMMA ClientFailsStep == ASSUME DiscoveryInv, ClientFails PROVE DiscoveryInv'
  <1>1. /\ client' = NoClient /\ client' \in Client /\ ~client'.on
        /\ failures' \in 0 .. MaxFailures
        /\ service' \in [Clusters -> [Ids -> Facts]]
    BY NoneTypes, DiscoveryBounds DEF ClientFails, DiscoveryInv, Typed, DiscoveryTypeOK
  <1>2. ClientUp'
    BY <1>1 DEF ClientUp
  <1> QED BY <1>1, <1>2, ClientWrites DEF ClientFails

\* What the client keeps alive does not expire.
LEMMA ExpireStep == ASSUME DiscoveryInv, Expire PROVE DiscoveryInv'
  <1>1. PICK c \in Clusters, i \in Ids :
           /\ ~(client.on /\ client.cluster = c /\ client.id = i)
           /\ service' = [service EXCEPT ![c][i] = 0]
           /\ UNCHANGED <<envVars, resourceVars, affiliates, keep, raw, members, ctrl, client, events>>
    BY DEF Expire
  <1>2. service \in [Clusters -> [Ids -> Facts]]
    BY DEF DiscoveryInv, Typed, DiscoveryTypeOK
  <1>3. service' \in [Clusters -> [Ids -> Facts]]
    BY <1>1, <1>2, DiscoveryBounds
  <1>4. client.on => service'[client.cluster][client.id] = service[client.cluster][client.id]
    <2>1. client.on => client.cluster \in Clusters /\ client.id \in Ids
      BY DEF DiscoveryInv, ClientUp, Typed, Client
    <2> QED BY <1>1, <1>2, <2>1
  <1>5. Typed'
    BY <1>1, <1>3 DEF DiscoveryInv, Typed, DiscoveryTypeOK, envVars, resourceVars
  <1>6. ClientUp'
    BY <1>1, <1>4 DEF DiscoveryInv, ClientUp, resourceVars
  <1>7. Pending(Controllers)
    BY <1>1 DEF Pending
  <1>8. Counted' /\ ConfigDone' /\ IdentityDone' /\ LocalDone' /\ ServiceDone'
    BY <1>1, <1>7, ConfigAside, LocalAside, ServiceAside
       DEF DiscoveryInv, Pending, Controllers, envVars, resourceVars
  <1>9. Shaped' /\ MergeDone' /\ MemberDone' /\ Undescribed'
    BY <1>1, <1>7, ListsAside, UndescribedAside DEF DiscoveryInv, Pending, Controllers, envVars
  <1> QED BY <1>5, <1>6, <1>8, <1>9 DEF DiscoveryInv

-----------------------------------------------------------------------------
(* The theorems about discovery *)

LEMMA DiscoveryNextInv == DiscoveryInv /\ [Next]_vars => DiscoveryInv'
  <1> SUFFICES ASSUME DiscoveryInv, [Next]_vars
               PROVE  DiscoveryInv'
    OBVIOUS
  <1>1. ASSUME NEW c \in Configs \union {NoConfig}, Configure(c) PROVE DiscoveryInv'
    BY <1>1, ConfigureStep
  <1>2. CASE Learn
    BY <1>2, LearnStep
  <1>3. CASE TransformConfig
    BY <1>3, TransformStep
  <1>4. CASE GenerateIdentity
    BY <1>4, GenerateStep
  <1>5. CASE WriteLocal
    BY <1>5, WriteLocalStep
  <1>6. CASE CleanupLocal
    BY <1>6, CleanupLocalStep
  <1>7. CASE MergeAffiliates
    BY <1>7, MergeStep
  <1>8. CASE ListMembers
    BY <1>8, ListStep
  <1>9. CASE Reconcile
    BY <1>9, ReconcileStep
  <1>10. CASE ClientSync
    BY <1>10, ClientSyncStep
  <1>11. CASE ClientFails
    BY <1>11, ClientFailsStep
  <1>12. CASE Expire
    BY <1>12, ExpireStep
  <1>13. CASE UNCHANGED vars
    <2>1. Pending(Controllers) /\ Typed'
      BY <1>13 DEF vars, envVars, resourceVars, Pending, DiscoveryInv, Typed, DiscoveryTypeOK
    <2>2. Counted' /\ ConfigDone' /\ IdentityDone' /\ LocalDone' /\ ServiceDone'
      BY <1>13, <2>1, ConfigAside, LocalAside, ServiceAside
         DEF DiscoveryInv, Pending, Controllers, vars, envVars, resourceVars
    <2>3. Shaped' /\ MergeDone' /\ MemberDone' /\ Undescribed' /\ ClientUp'
      BY <1>13, <2>1, ListsAside, UndescribedAside, ClientAside
         DEF DiscoveryInv, Pending, Controllers, vars, envVars, resourceVars
    <2> QED BY <2>1, <2>2, <2>3 DEF DiscoveryInv
  <1> QED BY <1>1, <1>2, <1>3, <1>4, <1>5, <1>6, <1>7, <1>8, <1>9, <1>10, <1>11, <1>12, <1>13
          DEF Next, ControllerStep

LEMMA DiscoveryInvCorrect == DiscoverySpec => []DiscoveryInv
  BY DiscoveryInitInv, DiscoveryNextInv, PTL DEF DiscoverySpec

\* Every value is of its type, and a client that is on is one for the identity its
\* controller remembers.
THEOREM DiscoveryTypeCorrect == DiscoverySpec => []DiscoveryTypeOK
  <1>1. DiscoveryInv => DiscoveryTypeOK
    BY DEF DiscoveryInv, Typed
  <1> QED BY <1>1, DiscoveryInvCorrect, PTL

\* Without the discovery service, or before the machine is described, there is no client, and
\* the machine's own Affiliate is the only one.
LEMMA QuietAlone ==
    ASSUME DiscoveryInv, events = {}, keep = Idle, ~Joined
    PROVE  /\ ~client.on /\ raw = NoOne
           /\ \A n \in Nodes : affiliates[n].owner # "none" <=> Registered /\ n = identity
           /\ Registered => identity \in Ids /\ affiliates[identity].facts = facts
  <1>1. /\ config \in Configs \union {NoConfig}
        /\ IF config = NoConfig THEN discovery = NoResource
           ELSE discovery.version > 0 /\ discovery.cluster = config
        /\ identity = 0 <=> config = NoConfig
    BY DEF DiscoveryInv, Typed, DiscoveryTypeOK, ConfigDone, IdentityDone
  <1>2. affiliates \in [Nodes -> AffiliateType]
    BY DEF DiscoveryInv, Typed, DiscoveryTypeOK, AffiliateType
  <1>3. CASE facts = 0
    <2>1. /\ ~client.on /\ raw = NoOne /\ ~Registered
          /\ \A n \in Nodes : affiliates[n].owner = "none"
      BY <1>3 DEF DiscoveryInv, Undescribed, Registered
    <2> QED BY <2>1
  <1>4. CASE facts # 0
    <2>1. discovery.cluster \in Configs \ Clusters /\ (discovery.version = 0 \/ Ready)
      BY <1>1, <1>4, NoneTypes, DiscoveryBounds DEF Joined, Ready
    <2>2. ~client.on /\ raw = NoOne
      BY <2>1 DEF DiscoveryInv, ServiceDone
    <2>3. Owned("local") = IF Registered THEN {identity} ELSE {}
      <3>1. Registered <=> Ready /\ discovery.cluster # Disabled
        BY <1>1, <1>4, <2>1, NoneTypes, DiscoveryBounds DEF Registered, Ready, Configs
      <3> QED BY <2>1, <3>1 DEF DiscoveryInv, LocalDone
    <2>4. \A n \in Nodes : affiliates[n].owner # "merge"
      BY <2>2, NoneTypes DEF DiscoveryInv, MergeDone
    <2>5. \A n \in Nodes : affiliates[n].owner # "none" <=> n \in Owned("local")
      BY <1>2, <2>4 DEF AffiliateType, Owned
    <2>6. Registered => identity \in Ids /\ affiliates[identity].facts = facts
      <3>1. Registered => Ready /\ discovery.cluster # Disabled
        BY <1>1, <1>4, DiscoveryBounds DEF Registered, Ready, Configs
      <3> QED BY <3>1, IdentityType DEF DiscoveryInv, LocalDone, Ready
    <2> QED BY <2>2, <2>3, <2>5, <2>6
  <1> QED BY <1>3, <1>4

\* In a cluster the machine has its Affiliate, and every other Affiliate is one the service
\* has told of.
LEMMA QuietJoined ==
    ASSUME DiscoveryInv, Quiet, ~missed, Joined
    PROVE  /\ client.on /\ client.cluster = config /\ client.id = identity /\ identity \in Ids
           /\ service[config][identity] = facts
           /\ affiliates[identity].owner = "local" /\ affiliates[identity].facts = facts
           /\ \A n \in Nodes \ {identity} :
                 /\ affiliates[n].owner # "none" <=> Listed[n] # 0
                 /\ Listed[n] # 0 => affiliates[n].facts = Listed[n]
  <1>1. events = {} /\ keep = Idle
    BY DEF Quiet
  <1>2. /\ config \in Clusters /\ facts # 0 /\ config # NoConfig /\ config # Disabled
        /\ discovery.version > 0 /\ discovery.cluster = config /\ identity # 0
    BY <1>1, DiscoveryBounds DEF Joined, Configs, DiscoveryInv, ConfigDone, IdentityDone
  <1>3. /\ affiliates[identity].owner = "local" /\ affiliates[identity].facts = facts
        /\ Owned("local") = {identity}
    BY <1>1, <1>2 DEF DiscoveryInv, LocalDone, Ready
  <1>4. Described
    BY <1>2, <1>3, NoneTypes DEF Described
  <1>5. /\ client.on /\ ctrl.version = discovery.version /\ ctrl.id = identity
        /\ client.sent = facts /\ raw = client.known
    BY <1>1, <1>2, <1>3, <1>4 DEF DiscoveryInv, ServiceDone
  <1>6. client.cluster = config /\ client.id = identity /\ service[config][identity] = facts
    BY <1>2, <1>5 DEF DiscoveryInv, ClientUp, Quiet
  <1>7. identity \in Ids
    BY <1>2, IdentityType DEF DiscoveryInv
  <1>8. raw = Listed
    BY <1>5 DEF Quiet
  <1>9. ASSUME NEW n \in Nodes \ {identity}
        PROVE  /\ affiliates[n].owner # "none" <=> Listed[n] # 0
               /\ Listed[n] # 0 => affiliates[n].facts = Listed[n]
    <2>1. affiliates[n].owner \in {"none", "local", "merge"} /\ affiliates[n].owner # "local"
      BY <1>3 DEF DiscoveryInv, Typed, DiscoveryTypeOK, Owned
    <2>2. /\ raw[n] = 0 => affiliates[n].owner # "merge"
          /\ raw[n] # 0 => affiliates[n].owner = "merge" /\ affiliates[n].facts = raw[n]
      BY <1>1 DEF DiscoveryInv, MergeDone
    <2> QED BY <1>8, <2>1, <2>2
  <1> QED BY <1>3, <1>5, <1>6, <1>7, <1>9

\* Whatever order the changes came in, and whatever failed: when the controllers have run
\* dry, the service has the machine as it is and the members are those the service has.
THEOREM QuietCorrect == DiscoverySpec => []QuietIsCurrent
  <1>1. DiscoveryInv => QuietIsCurrent
    <2> SUFFICES ASSUME DiscoveryInv, Quiet, ~missed
                 PROVE  /\ Joined =>
                              /\ service[config][identity] = facts
                              /\ \A p \in Peers : members[p] # NoMember <=> p = config
                              /\ \/ members[Self] = [id |-> identity, facts |-> facts]
                                 \/ /\ members[Self].id \in Ids \ {identity}
                                    /\ members[Self].facts = service[config][members[Self].id]
                                    /\ members[Self].facts # 0
                        /\ ~Joined => ~client.on /\ \A p \in Peers : members[p] = NoMember
                        /\ ~Joined => members[Self] = IF Registered THEN [id |-> identity, facts |-> facts]
                                                      ELSE NoMember
      BY DEF QuietIsCurrent
    <2> DEFINE own == [id |-> identity, facts |-> facts]
    <2>1. CASE ~Joined
      <3>1. /\ ~client.on
            /\ \A n \in Nodes : affiliates[n].owner # "none" <=> Registered /\ n = identity
            /\ Registered => identity \in Ids /\ affiliates[identity].facts = facts
        BY <2>1, QuietAlone DEF Quiet
      <3>2. \A x \in Names :
               /\ Named(x) = {} => members[x] = NoMember
               /\ Named(x) # {} => /\ members[x].id \in Named(x)
                                  /\ members[x].facts = affiliates[members[x].id].facts
        BY DEF DiscoveryInv, MemberDone, Quiet
      <3>3. Self \in Names /\ Peers \subseteq Names
        BY DEF Names
      <3>4. ASSUME NEW p \in Peers PROVE members[p] = NoMember
        <4>1. Named(p) = {}
          BY <3>1, DiscoveryBounds, DiscoveryAssumption DEF Named
        <4> QED BY <3>2, <3>3, <4>1
      <3>5. ~Registered => members[Self] = NoMember
        <4>1. ~Registered => Named(Self) = {}
          BY <3>1 DEF Named
        <4> QED BY <3>2, <3>3, <4>1
      <3>6. ASSUME Registered PROVE members[Self] = own
        <4>1. Named(Self) = {identity}
          BY <3>1, <3>6, DiscoveryBounds DEF Named
        <4> DEFINE m == members[Self]
        <4>2. m.id = identity /\ m.facts = facts
          BY <3>1, <3>2, <3>3, <3>6, <4>1
        <4>3. m \in [id : {0} \union Nodes, facts : Facts \union {1}]
          BY <3>3 DEF DiscoveryInv, Typed, DiscoveryTypeOK, Names
        <4> HIDE DEF m
        <4>4. m = own
          BY <4>2, <4>3
        <4> QED BY <4>4 DEF m
      <3> QED BY <2>1, <3>1, <3>4, <3>5, <3>6
    <2>2. CASE Joined
      <3>1. /\ client.cluster = config /\ client.id = identity /\ identity \in Ids
            /\ service[config][identity] = facts
            /\ affiliates[identity].owner = "local" /\ affiliates[identity].facts = facts
            /\ \A n \in Nodes \ {identity} :
                  /\ affiliates[n].owner # "none" <=> Listed[n] # 0
                  /\ Listed[n] # 0 => affiliates[n].facts = Listed[n]
        BY <2>2, QuietJoined
      <3>2. /\ members \in [Names -> [id : {0} \union Nodes, facts : Facts \union {1}]]
            /\ \A x \in Names :
                  /\ Named(x) = {} => members[x] = NoMember
                  /\ Named(x) # {} => /\ members[x].id \in Named(x)
                                     /\ members[x].facts = affiliates[members[x].id].facts
        BY DEF DiscoveryInv, Typed, DiscoveryTypeOK, MemberDone, Quiet, Names
      <3>3. ASSUME NEW p \in Peers PROVE members[p] # NoMember <=> p = config
        <4>1. p \in Names /\ p \in Nodes \ {identity} /\ p \notin Ids /\ p # Self /\ p # 0
          BY <3>1, DiscoveryBounds DEF Names
        <4>2. Listed[p] # 0 <=> p = config
          BY <3>1, <4>1 DEF Listed
        <4>3. Named(p) = {n \in {p} : affiliates[n].owner # "none"}
          BY <4>1 DEF Named
        <4>4. affiliates[p].owner # "none" <=> p = config
          BY <3>1, <4>1, <4>2
        <4>5. CASE p = config
          <5>1. Named(p) = {p}
            BY <4>3, <4>4, <4>5
          <5>2. members[p].id = p
            BY <3>2, <4>1, <5>1
          <5> QED BY <4>1, <4>5, <5>2, NoneTypes
        <4>6. CASE p # config
          <5>1. Named(p) = {}
            BY <4>3, <4>4, <4>6
          <5> QED BY <3>2, <4>1, <4>6, <5>1
        <4> QED BY <4>5, <4>6
      <3>4. \/ members[Self] = [id |-> identity, facts |-> facts]
            \/ /\ members[Self].id \in Ids \ {identity}
               /\ members[Self].facts = service[config][members[Self].id]
               /\ members[Self].facts # 0
        <4>1. Self \in Names /\ Self \notin Peers /\ identity \in Nodes /\ identity \in Named(Self)
          BY <3>1, DiscoveryBounds, DiscoveryAssumption DEF Names, Named
        <4> DEFINE m == members[Self]
        <4>2. /\ m.id \in Named(Self) /\ m.facts = affiliates[m.id].facts
              /\ m \in [id : {0} \union Nodes, facts : Facts \union {1}]
          BY <3>2, <4>1
        <4>3. m.id \in Ids /\ m.id \in Nodes /\ affiliates[m.id].owner # "none"
          BY <4>1, <4>2 DEF Named, Nodes
        <4>4. CASE m.id = identity
          <5> HIDE DEF m
          <5>1. m.facts = facts
            BY <3>1, <4>2, <4>4
          <5>2. m = [id |-> identity, facts |-> facts]
            BY <4>2, <4>4, <5>1
          <5> QED BY <5>2 DEF m
        <4>5. CASE m.id # identity
          <5>1. Listed[m.id] # 0 /\ m.facts = Listed[m.id]
            BY <3>1, <4>2, <4>3, <4>5
          <5>2. m.id \notin Peers
            BY <4>3, DiscoveryBounds
          <5>3. Listed[m.id] = service[config][m.id]
            BY <3>1, <4>3, <4>5, <5>2 DEF Listed
          <5> QED BY <4>3, <4>5, <5>1, <5>3
        <4> QED BY <4>4, <4>5
      <3> QED BY <2>2, <3>1, <3>3, <3>4
    <2> QED BY <2>1, <2>2
  <1> QED BY <1>1, DiscoveryInvCorrect, PTL

=============================================================================
