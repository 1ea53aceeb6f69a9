----------------------- MODULE ClusterAccountingProofs -----------------------
(***************************************************************************)
(* Proofs about ClusterAccounting, for any number of machines, clusters    *)
(* and handlers: its invariants, and that it implements ClusterMembership. *)
(***************************************************************************)
EXTENDS ClusterAccountingRefinement, FiniteSetTheorems, TLAPS

-----------------------------------------------------------------------------
(* The values that the steps write *)

\* The uint32 counters stay in their range, wrapping or not.
LEMMA CounterType ==
    /\ CounterMod \in Nat /\ CounterMod > 0
    /\ 0 \in Counter
    /\ \A n \in Counter : Inc(n) \in Counter /\ Dec(n) \in Counter
  <1>1. Cardinality(Machines) \in Nat
    BY MachinesFinite, FS_CardinalityType
  <1>2. CounterMod \in Nat /\ CounterMod > 0
    BY <1>1, CounterAssumption
  <1> QED BY <1>2 DEF Counter, Inc, Dec

\* Every update of a ClusterStatus yields one.
LEMMA StatusType ==
    /\ NoStatus \in ClusterStatus
    /\ [NoStatus EXCEPT !.phase = "running"] \in ClusterStatus
    /\ \A s \in ClusterStatus :
          /\ [s EXCEPT !.phase = "tearingDown"] \in ClusterStatus
          /\ [s EXCEPT !.bootstrapped = TRUE] \in ClusterStatus
          /\ [s EXCEPT !.controlPlanes = Inc(@)] \in ClusterStatus
          /\ [s EXCEPT !.workers = Inc(@)] \in ClusterStatus
          /\ \A kind, flag : flag \in BOOLEAN => Discounted(s, kind, flag) \in ClusterStatus
  <1>1. NoStatus \in ClusterStatus
    BY CounterType DEF NoStatus, ClusterStatus
  <1>2. ASSUME NEW s \in ClusterStatus
        PROVE  /\ [s EXCEPT !.phase = "running"] \in ClusterStatus
               /\ [s EXCEPT !.phase = "tearingDown"] \in ClusterStatus
               /\ [s EXCEPT !.bootstrapped = TRUE] \in ClusterStatus
               /\ [s EXCEPT !.controlPlanes = Inc(@)] \in ClusterStatus
               /\ [s EXCEPT !.workers = Inc(@)] \in ClusterStatus
    BY CounterType DEF ClusterStatus
  <1>3. ASSUME NEW s \in ClusterStatus, NEW kind, NEW flag \in BOOLEAN
        PROVE  Discounted(s, kind, flag) \in ClusterStatus
    BY CounterType DEF ClusterStatus, Discounted
  <1> QED BY <1>1, <1>2, <1>3

\* Every write of a MachineConfig stores one.
LEMMA ConfigType ==
    /\ NoConfig \in Config
    /\ \A x \in Config : /\ [x EXCEPT !.phase = "tearingDown"] \in Config
                         /\ \A b \in BOOLEAN : [x EXCEPT !.held = b] \in Config
    /\ \A x \in Call : [kind |-> x.kind, cluster |-> x.cluster,
                        phase |-> "running", held |-> FALSE] \in Config
  BY DEF NoConfig, Config, Call

\* Where a handler may be, and how it moves: to another step of its call, or to idle.
LEMMA CallType ==
    /\ Idle \in Call
    /\ \A x \in Call :
          \A pc \in ApplyPC \union ResetPC \union BootstrapPC : [x EXCEPT !.pc = pc] \in Call
    /\ \A x \in Call : \A b \in BOOLEAN : [x EXCEPT !.pc = "discount", !.flag = b] \in Call
  BY DEF Idle, Call, ResetPC

\* The call moves to another step and keeps its arguments.
LEMMA GotoEffect ==
    ASSUME call \in [Callers -> Call], NEW k \in Callers,
           NEW pc \in ApplyPC \union ResetPC \union BootstrapPC, Goto(k, pc)
    PROVE  /\ call' \in [Callers -> Call]
           /\ \A l \in Callers \ {k} : call'[l] = call[l]
           /\ call'[k].pc = pc
           /\ call'[k].machine = call[k].machine
           /\ call'[k].cluster = call[k].cluster
           /\ call'[k].kind = call[k].kind
           /\ call'[k].flag = call[k].flag
  <1> DEFINE next == [call[k] EXCEPT !.pc = pc]
  <1>1. next \in Call
    BY CallType
  <1>2. call' = [call EXCEPT ![k] = next]
    BY DEF Goto
  <1>3. /\ call' \in [Callers -> Call]
        /\ \A l \in Callers \ {k} : call'[l] = call[l]
        /\ call'[k] = next
    BY <1>1, <1>2
  <1>4. call[k] \in Call
    OBVIOUS
  <1>5. /\ next.pc = pc
        /\ next.machine = call[k].machine /\ next.cluster = call[k].cluster
        /\ next.kind = call[k].kind /\ next.flag = call[k].flag
    BY <1>4 DEF Call
  <1> QED BY <1>3, <1>5

\* The call ends.
LEMMA ReturnEffect ==
    ASSUME call \in [Callers -> Call], NEW k \in Callers, Return(k)
    PROVE  /\ call' \in [Callers -> Call]
           /\ \A l \in Callers \ {k} : call'[l] = call[l]
           /\ call'[k] = Idle
  BY CallType DEF Return

\* The reading that a Reset takes of its cluster.
LEMMA LookEffect ==
    ASSUME call \in [Callers -> Call], NEW k \in Callers, ResetLook(k)
    PROVE  /\ call' \in [Callers -> Call]
           /\ \A l \in Callers \ {k} : call'[l] = call[l]
           /\ call'[k].pc = "discount"
           /\ call'[k].machine = call[k].machine
           /\ call'[k].cluster = call[k].cluster
           /\ call'[k].kind = call[k].kind
  <1> DEFINE sawNone == (cluster[call[k].cluster].controlPlanes = 0)
             next == [call[k] EXCEPT !.pc = "discount", !.flag = sawNone]
  <1>1. next \in Call
    BY CallType
  <1>2. call' = [call EXCEPT ![k] = next]
    BY DEF ResetLook
  <1>3. /\ call' \in [Callers -> Call]
        /\ \A l \in Callers \ {k} : call'[l] = call[l]
        /\ call'[k] = next
    BY <1>1, <1>2
  <1>4. call[k] \in Call
    OBVIOUS
  <1>5. /\ next.pc = "discount"
        /\ next.machine = call[k].machine /\ next.cluster = call[k].cluster
        /\ next.kind = call[k].kind
    BY <1>4 DEF Call
  <1> QED BY <1>3, <1>5

-----------------------------------------------------------------------------
(* Type correctness *)

\* A call that is to allocate its machine has a role to allocate it to.
AllocatesRole ==
    \A k \in Callers :
        \/ call[k].pc \in {"save", "update"} /\ call[k].flag
        \/ call[k].pc \in {"find", "create", "count", "label"}
        => call[k].kind \in Roles

TypeInv == TypeOK /\ AllocatesRole

\* The empty stores are well typed.
LEMMA InitType == Init => TypeInv
  <1> SUFFICES ASSUME Init PROVE TypeInv
    OBVIOUS
  <1>1. NoLabel \in Label
    BY DEF NoLabel, Label
  <1>2. Idle.pc = "idle"
    BY DEF Idle
  <1>3. AllocatesRole
    BY <1>2 DEF Init, AllocatesRole
  <1>4. aborts \in 0 .. MaxAborts
    BY CounterAssumption DEF Init
  <1> QED BY StatusType, ConfigType, CallType, <1>1, <1>3, <1>4 DEF Init, TypeInv, TypeOK

\* Every step of an ApplyConfiguration keeps the types.
LEMMA ApplyStepType ==
    ASSUME TypeInv, NEW k \in Callers, ApplyStep(k) PROVE TypeInv'
  <1> USE DEF TypeInv, TypeOK, AllocatesRole, ApplyPC, At
  <1> call[k] \in Call
    OBVIOUS
  <1>0. Saved(k, call[k].machine) => config' \in [Machines -> Config]
    BY ConfigType DEF Saved
  <1>1. CASE ApplySave(k)
    BY <1>1, <1>0, GotoEffect, ReturnEffect DEF ApplySave, AfterSave, Idle
  <1>2. CASE ApplyUpdate(k)
    BY <1>2, <1>0, GotoEffect, ReturnEffect DEF ApplyUpdate, AfterSave, Idle
  <1>3. CASE ApplyUpdateFails(k)
    BY <1>3, ReturnEffect DEF ApplyUpdateFails, Idle
  <1>4. CASE ApplyFindCluster(k)
    BY <1>4, GotoEffect DEF ApplyFindCluster
  <1>5. CASE ApplyCreateCluster(k)
    <2>1. cluster' \in [Clusters -> ClusterStatus]
      BY <1>5, StatusType DEF ApplyCreateCluster
    <2> QED BY <1>5, <2>1, GotoEffect DEF ApplyCreateCluster
  <1>6. CASE ApplyCount(k)
    <2>1. cluster' \in [Clusters -> ClusterStatus]
      BY <1>6, CounterType DEF ApplyCount, ClusterStatus
    <2> QED BY <1>6, <2>1, GotoEffect DEF ApplyCount
  <1>7. CASE ApplyLabel(k)
    <2>1. label' \in [Machines -> Label]
      <3>1. call[k].kind \in Roles /\ call[k].cluster \in Clusters \union {NoCluster}
        BY <1>7 DEF ApplyLabel, Call
      <3> QED BY <1>7, <3>1 DEF ApplyLabel, Label
    <2> QED BY <1>7, <2>1, ReturnEffect DEF ApplyLabel, Idle
  <1> QED BY <1>1, <1>2, <1>3, <1>4, <1>5, <1>6, <1>7 DEF ApplyStep

\* Every step of a Reset keeps the types.
LEMMA ResetStepType ==
    ASSUME TypeInv, NEW k \in Callers, ResetStep(k) PROVE TypeInv'
  <1> USE DEF TypeInv, TypeOK, AllocatesRole, ResetPC, At
  <1>1. CASE ResetTeardown(k)
    <2>1. config' \in [Machines -> Config]
      BY <1>1 DEF ResetTeardown, Config
    <2> QED BY <1>1, <2>1, GotoEffect, ReturnEffect DEF ResetTeardown, Idle
  <1>2. CASE ResetDestroy(k)
    <2>1. config' \in [Machines -> Config]
      BY <1>2, ConfigType DEF ResetDestroy
    <2> QED BY <1>2, <2>1, GotoEffect, ReturnEffect DEF ResetDestroy, Idle
  <1>3. CASE ResetLook(k)
    BY <1>3, LookEffect DEF ResetLook
  <1>4. CASE ResetDiscount(k)
    <2>1. cluster' \in [Clusters -> ClusterStatus]
      BY <1>4, StatusType DEF ResetDiscount, Call
    <2> QED BY <1>4, <2>1, GotoEffect DEF ResetDiscount
  <1>5. CASE ResetDispose(k)
    <2>1. cluster' \in [Clusters -> ClusterStatus]
      BY <1>5 DEF ResetDispose, ClusterStatus
    <2> QED BY <1>5, <2>1, GotoEffect DEF ResetDispose
  <1>6. CASE ResetUnlabel(k)
    <2>1. label' \in [Machines -> Label]
      BY <1>6 DEF ResetUnlabel, Label, NoLabel
    <2> QED BY <1>6, <2>1, ReturnEffect DEF ResetUnlabel, Idle
  <1> QED BY <1>1, <1>2, <1>3, <1>4, <1>5, <1>6 DEF ResetStep

\* So do the steps of a Bootstrap and the calls that fail or are cut short.
LEMMA OtherCallStepType ==
    ASSUME TypeInv, NEW k \in Callers, BootstrapStep(k) \/ ClusterGone(k) \/ Abort(k)
    PROVE  TypeInv'
  <1> USE DEF TypeInv, TypeOK, AllocatesRole, At
  <1>1. CASE BootstrapCheck(k)
    BY <1>1, GotoEffect, ReturnEffect DEF BootstrapCheck, BootstrapPC, Idle
  <1>2. CASE BootstrapSet(k)
    <2>1. cluster' \in [Clusters -> ClusterStatus]
      BY <1>2 DEF BootstrapSet, ClusterStatus
    <2> QED BY <1>2, <2>1, ReturnEffect DEF BootstrapSet, Idle
  <1>3. CASE ClusterGone(k)
    BY <1>3, ReturnEffect DEF ClusterGone, Idle
  <1>4. CASE Abort(k)
    BY <1>4, ReturnEffect, CounterAssumption DEF Abort, Idle
  <1> QED BY <1>1, <1>2, <1>3, <1>4 DEF BootstrapStep

\* A call starts with arguments of the right types.
LEMMA StartType ==
    ASSUME TypeInv, NEW k \in Callers, NEW m \in Machines,
           \/ \E c \in Clusters, kind \in Kinds : ApplyStart(k, m, c, kind)
           \/ ResetStart(k, m)
           \/ BootstrapStart(k, m)
    PROVE  TypeInv'
  <1> USE DEF TypeInv, TypeOK, AllocatesRole
  <1>1. ASSUME NEW c \in Clusters, NEW kind \in Kinds, ApplyStart(k, m, c, kind)
        PROVE  TypeInv'
    BY <1>1 DEF ApplyStart, Call, ApplyPC
  <1>2. CASE ResetStart(k, m)
    BY <1>2 DEF ResetStart, Call, Config, ResetPC
  <1>3. CASE BootstrapStart(k, m)
    BY <1>3 DEF BootstrapStart, Call, Config, BootstrapPC
  <1> QED BY <1>1, <1>2, <1>3

\* The controllers keep the types.
LEMMA ControllerStepType ==
    ASSUME TypeInv,
           \/ \E m \in Machines : HoldConfig(m) \/ ReleaseConfig(m)
           \/ \E c \in Clusters : Cleanup(c)
    PROVE  TypeInv'
  <1> USE DEF TypeInv, TypeOK, AllocatesRole
  <1>1. ASSUME NEW m \in Machines, HoldConfig(m) \/ ReleaseConfig(m) PROVE TypeInv'
    <2>1. config' \in [Machines -> Config]
      <3>1. PICK b \in BOOLEAN : config' = [config EXCEPT ![m].held = b]
        BY <1>1 DEF HoldConfig, ReleaseConfig
      <3>2. config' = [config EXCEPT ![m] = [config[m] EXCEPT !.held = b]]
        BY <3>1
      <3> QED BY <3>2, ConfigType
    <2> QED BY <1>1, <2>1 DEF HoldConfig, ReleaseConfig
  <1>2. ASSUME NEW c \in Clusters, Cleanup(c) PROVE TypeInv'
    BY <1>2, StatusType DEF Cleanup
  <1> QED BY <1>1, <1>2

\* Every step keeps the types.
LEMMA NextType == TypeInv /\ [AcctNext]_acctVars => TypeInv'
  <1>1. TypeInv /\ UNCHANGED acctVars => TypeInv'
    BY DEF TypeInv, TypeOK, AllocatesRole, acctVars
  <1> QED BY <1>1, ApplyStepType, ResetStepType, OtherCallStepType, StartType, ControllerStepType
          DEF AcctNext, HandlerStep

\* Type correctness: whatever order the handlers, controllers and clients run in, and
\* whatever they serialise, the stored configs, counters and labels and the progress of
\* the calls keep their types.
THEOREM TypeCorrect == AcctInitNext => []TypeOK
  <1>1. TypeInv => TypeOK
    BY DEF TypeInv
  <1> QED BY InitType, NextType, <1>1, PTL DEF AcctInitNext

-----------------------------------------------------------------------------
(* The inductive invariant for clients that serialise the calls of a        *)
(* machine and of a cluster, when no join is cut short                      *)

Serialised ==
    /\ Discipline = {"machine", "cluster"}
    /\ "apply" \notin Aborts

MembershipPC == ApplyPC \union ResetPC

Adding == {"find", "create", "count"}
Removing == {"look", "discount"}

\* A stored config, and a call, are about a machine and a cluster.
Grounded ==
    /\ \A m \in Machines : config[m].kind # "none" => config[m].cluster \in Clusters
    /\ \A k \in Callers : call[k].pc # "idle" =>
          call[k].machine \in Machines /\ call[k].cluster \in Clusters

\* A machine has one membership call at a time.
Alone ==
    \A k, l \in Callers :
        /\ call[k].pc \in MembershipPC /\ call[l].pc \in MembershipPC
        /\ call[k].machine = call[l].machine
        => k = l

\* What a call believes about the config of its machine is still so.
SameAs(k) ==
    LET stored == config[call[k].machine] IN
    /\ stored.kind \in Roles
    /\ call[k].kind = stored.kind /\ call[k].cluster = stored.cluster

Agrees(k) ==
    /\ call[k].pc \in {"save", "update"} =>
          IF config[call[k].machine].kind \in Roles
          THEN SameAs(k) /\ ~call[k].flag
          ELSE call[k].flag <=> call[k].kind \in Roles
    /\ call[k].pc \in Adding \union {"label", "teardown", "destroy"} => SameAs(k)
    /\ call[k].pc \in Removing \union {"dispose", "unlabel"} =>
          call[k].kind \in Roles /\ config[call[k].machine].kind \notin Roles

\* Nobody joins a cluster while somebody leaves it.
Apart ==
    \A k, l \in Callers :
        call[k].pc \in ApplyPC /\ call[l].pc \in ResetPC => call[k].cluster # call[l].cluster

Struct == Grounded /\ Alone /\ (\A k \in Callers : Agrees(k)) /\ Apart

\* A joining machine finds its cluster when it needs it, and the zero counters that a
\* Reset saw are still zero when it tears the cluster down.
Phased(k) ==
    /\ call[k].pc \in ApplyPC => cluster[call[k].cluster].phase # "tearingDown"
    /\ call[k].pc = "count" => cluster[call[k].cluster].phase = "running"
    /\ call[k].pc = "dispose" => IsEmpty(cluster[call[k].cluster])

\* Only a running cluster counts machines.
Hollow == \A c \in Clusters : cluster[c].phase # "running" => IsEmpty(cluster[c])

IInv == TypeInv /\ Struct /\ (\A k \in Callers : Phased(k)) /\ Hollow /\ CountsCover

USE DEF MembershipPC

\* The groups of steps between which only a change of the config moves a call.
Groups == {{"save", "update"}, {"find", "create", "count", "label"}, {"teardown", "destroy"},
           {"look", "discount", "dispose", "unlabel"}, {"check", "bootstrap"}}

\* A call that goes on within its group leaves the structure as it is.
LEMMA GoOnStruct ==
    ASSUME TypeInv, Struct, NEW k \in Callers,
           \A m \in Machines : /\ config'[m].kind = config[m].kind
                               /\ config'[m].cluster = config[m].cluster,
           \A l \in Callers \ {k} : call'[l] = call[l],
           call'[k].machine = call[k].machine, call'[k].cluster = call[k].cluster,
           call'[k].kind = call[k].kind,
           NEW g \in Groups, call[k].pc \in g, call'[k].pc \in g,
           call'[k].flag = call[k].flag \/ call'[k].pc = "discount"
    PROVE  Struct'
  <1> USE DEF Struct, ApplyPC, ResetPC
  <1>1. Grounded'
    BY DEF Grounded, Groups
  <1>2. Alone' /\ Apart'
    <2>1. \A l \in Callers : /\ call'[l].machine = call[l].machine
                             /\ call'[l].cluster = call[l].cluster
                             /\ call'[l].pc \in ApplyPC <=> call[l].pc \in ApplyPC
                             /\ call'[l].pc \in ResetPC <=> call[l].pc \in ResetPC
      BY DEF Groups
    <2> QED BY <2>1 DEF Alone, Apart
  <1>3. ASSUME NEW l \in Callers PROVE Agrees(l)'
    <2>1. CASE l = k
      <3>1. call[k].machine \in Machines
        BY DEF Groups, Grounded
      <3> QED BY <2>1, <3>1 DEF Agrees, SameAs, Groups, Adding, Removing
    <2>2. CASE l # k /\ call[l].pc # "idle"
      BY <2>2 DEF Agrees, SameAs, Grounded
    <2>3. CASE l # k /\ call[l].pc = "idle"
      BY <2>3 DEF Agrees, Adding, Removing
    <2> QED BY <2>1, <2>2, <2>3
  <1> QED BY <1>1, <1>2, <1>3

\* So does a call that returns.
LEMMA ReturnStruct ==
    ASSUME TypeInv, Struct, NEW k \in Callers, UNCHANGED config, Return(k)
    PROVE  Struct'
  <1> USE DEF Struct, ApplyPC, ResetPC
  <1>1. /\ call'[k].pc = "idle"
        /\ \A l \in Callers \ {k} : call'[l] = call[l]
    BY ReturnEffect DEF TypeInv, TypeOK, Idle
  <1>2. Grounded' /\ Alone' /\ Apart'
    BY <1>1 DEF Grounded, Alone, Apart
  <1>3. ASSUME NEW l \in Callers PROVE Agrees(l)'
    BY <1>1 DEF Agrees, SameAs, Adding, Removing
  <1> QED BY <1>2, <1>3

\* A finalizer comes or goes, or a config is torn down.
LEMMA HeldStruct ==
    ASSUME TypeInv, Struct, UNCHANGED call,
           \A m \in Machines : /\ config'[m].kind = config[m].kind
                               /\ config'[m].cluster = config[m].cluster
    PROVE  Struct'
  <1> USE DEF Struct
  <1>1. Grounded' /\ Alone' /\ Apart'
    BY DEF Grounded, Alone, Apart
  <1>2. ASSUME NEW l \in Callers PROVE Agrees(l)'
    <2>1. CASE call[l].pc = "idle"
      BY <2>1 DEF Agrees, Adding, Removing
    <2>2. CASE call[l].pc # "idle"
      BY <2>2 DEF Agrees, SameAs, Grounded
    <2> QED BY <2>1, <2>2
  <1> QED BY <1>1, <1>2

\* A new call finds its machine and its cluster free.
LEMMA StartStruct ==
    ASSUME Serialised, TypeInv, Struct, NEW k \in Callers, NEW m \in Machines,
           \/ \E c \in Clusters, kind \in Kinds : ApplyStart(k, m, c, kind)
           \/ ResetStart(k, m)
           \/ BootstrapStart(k, m)
    PROVE  Struct'
  <1> USE DEF Struct, TypeInv, TypeOK, ApplyPC, ResetPC, At, Serialised
  <1>1. ASSUME NEW c \in Clusters, NEW kind \in Kinds, ApplyStart(k, m, c, kind)
        PROVE  Struct'
    <2>1. /\ UNCHANGED config
          /\ \A l \in Callers \ {k} : call'[l] = call[l]
          /\ call'[k] = [pc |-> "save", machine |-> m, cluster |-> c, kind |-> kind,
                         flag |-> ~Complete(m) /\ kind \in Roles]
      BY <1>1 DEF ApplyStart
    <2>2. /\ ~Busy(m) /\ ~Leaving(c)
          /\ Complete(m) => kind = config[m].kind /\ c = config[m].cluster
      BY <1>1 DEF ApplyStart, MayApply
    <2>3. Grounded' /\ Alone' /\ Apart'
      BY <2>1, <2>2 DEF Grounded, Alone, Apart, Busy, Leaving
    <2>4. ASSUME NEW l \in Callers PROVE Agrees(l)'
      <3>1. CASE l = k
        <4>1. IF config[m].kind \in Roles
              THEN kind = config[m].kind /\ c = config[m].cluster /\ ~call'[k].flag
              ELSE call'[k].flag <=> kind \in Roles
          <5>1. call'[k].flag = (~Complete(m) /\ kind \in Roles)
            BY <2>1
          <5> QED BY <2>2, <5>1 DEF Complete
        <4> QED BY <2>1, <3>1, <4>1 DEF Agrees, SameAs, Adding, Removing
      <3>2. CASE l # k
        BY <2>1, <3>2 DEF Agrees, SameAs
      <3> QED BY <3>1, <3>2
    <2> QED BY <2>3, <2>4
  <1>2. CASE ResetStart(k, m)
    <2>1. /\ UNCHANGED config
          /\ \A l \in Callers \ {k} : call'[l] = call[l]
          /\ call'[k] = [pc |-> "teardown", machine |-> m, cluster |-> config[m].cluster,
                         kind |-> config[m].kind, flag |-> FALSE]
      BY <1>2 DEF ResetStart
    <2>2. ~Busy(m) /\ ~Joining(config[m].cluster) /\ config[m].kind \in Roles
      BY <1>2 DEF ResetStart, MayReset, Complete
    <2>3. config[m].cluster \in Clusters
      BY <2>2 DEF Grounded, Roles
    <2>4. Grounded' /\ Alone' /\ Apart'
      BY <2>1, <2>2, <2>3 DEF Grounded, Alone, Apart, Busy, Joining
    <2>5. ASSUME NEW l \in Callers PROVE Agrees(l)'
      BY <2>1, <2>2 DEF Agrees, SameAs, Adding, Removing
    <2> QED BY <2>4, <2>5
  <1>3. CASE BootstrapStart(k, m)
    <2>1. /\ UNCHANGED config
          /\ \A l \in Callers \ {k} : call'[l] = call[l]
          /\ call'[k] = [pc |-> "check", machine |-> m, cluster |-> config[m].cluster,
                         kind |-> config[m].kind, flag |-> FALSE]
      BY <1>3 DEF BootstrapStart
    <2>2. config[m].cluster \in Clusters
      BY <1>3 DEF BootstrapStart, Complete, Grounded, Roles
    <2>3. Grounded' /\ Alone' /\ Apart'
      BY <2>1, <2>2 DEF Grounded, Alone, Apart
    <2>4. ASSUME NEW l \in Callers PROVE Agrees(l)'
      BY <2>1 DEF Agrees, SameAs, Adding, Removing
    <2> QED BY <2>3, <2>4
  <1> QED BY <1>1, <1>2, <1>3

\* The config is stored; a machine without one goes on to be counted.
LEMMA SaveStruct ==
    ASSUME TypeInv, Struct, NEW k \in Callers, call[k].pc \in {"save", "update"},
           Saved(k, call[k].machine), AfterSave(k)
    PROVE  Struct'
  <1> USE DEF Struct, TypeInv, TypeOK, ApplyPC, ResetPC
  <1> DEFINE m == call[k].machine
  <1>1. /\ m \in Machines /\ call[k].cluster \in Clusters
        /\ \A n \in Machines \ {m} : config'[n] = config[n]
        /\ config'[m].kind = call[k].kind /\ config'[m].cluster = call[k].cluster
    BY DEF Saved, Grounded
  <1>2. ASSUME NEW l \in Callers \ {k}, call[l].pc \in MembershipPC
        PROVE  call[l].machine \in Machines \ {m}
    BY <1>2 DEF Alone, Grounded
  <1>3. CASE call[k].flag
    <2>1. /\ \A l \in Callers \ {k} : call'[l] = call[l]
          /\ call'[k].pc = "find" /\ call'[k].machine = m
          /\ call'[k].cluster = call[k].cluster /\ call'[k].kind = call[k].kind
      BY <1>3, GotoEffect DEF AfterSave
    <2>2. Grounded' /\ Alone' /\ Apart'
      BY <1>1, <2>1 DEF Grounded, Alone, Apart
    <2>3. ASSUME NEW l \in Callers PROVE Agrees(l)'
      <3>1. CASE l = k
        <4>1. call[k].kind \in Roles
          BY <1>3 DEF AllocatesRole
        <4> QED BY <1>1, <2>1, <3>1, <4>1 DEF Agrees, SameAs, Adding, Removing
      <3>2. CASE l # k
        BY <1>1, <1>2, <2>1, <3>2 DEF Agrees, SameAs, Adding, Removing
      <3> QED BY <3>1, <3>2
    <2> QED BY <2>2, <2>3
  <1>4. CASE ~call[k].flag
    <2>1. /\ \A l \in Callers \ {k} : call'[l] = call[l]
          /\ call'[k].pc = "idle"
      BY <1>4, ReturnEffect DEF AfterSave, Idle
    <2>2. Grounded' /\ Alone' /\ Apart'
      BY <1>1, <2>1 DEF Grounded, Alone, Apart
    <2>3. ASSUME NEW l \in Callers PROVE Agrees(l)'
      BY <1>1, <1>2, <2>1 DEF Agrees, SameAs, Adding, Removing
    <2> QED BY <2>2, <2>3
  <1> QED BY <1>3, <1>4

\* The config is destroyed: the call goes on to take the machine out of its cluster.
LEMMA DestroyStruct ==
    ASSUME TypeInv, Struct, NEW k \in Callers, ResetDestroy(k)
    PROVE  Struct' /\ Goto(k, "look")
  <1> USE DEF Struct, TypeInv, TypeOK, ApplyPC, ResetPC
  <1> DEFINE m == call[k].machine
  <1>1. call[k].pc = "destroy"
    BY DEF ResetDestroy, At
  <1>2. config[m].kind \in Roles /\ call[k].kind = config[m].kind
    BY <1>1 DEF Agrees, SameAs
  <1>3. Goto(k, "look")
    BY <1>2 DEF ResetDestroy, Roles
  <1>4. /\ \A l \in Callers \ {k} : call'[l] = call[l]
        /\ call'[k].pc = "look" /\ call'[k].machine = m
        /\ call'[k].cluster = call[k].cluster /\ call'[k].kind = call[k].kind
    BY <1>3, GotoEffect
  <1>5. /\ m \in Machines
        /\ \A n \in Machines \ {m} : config'[n] = config[n]
        /\ config'[m].kind = "none"
    BY <1>1 DEF ResetDestroy, NoConfig, Grounded
  <1>6. ASSUME NEW l \in Callers \ {k}, call[l].pc \in MembershipPC
        PROVE  call[l].machine \in Machines \ {m}
    BY <1>1, <1>6 DEF Alone, Grounded
  <1>7. Grounded' /\ Alone' /\ Apart'
    BY <1>1, <1>4, <1>5 DEF Grounded, Alone, Apart
  <1>8. ASSUME NEW l \in Callers PROVE Agrees(l)'
    <2>1. CASE l = k
      BY <1>2, <1>4, <1>5, <2>1 DEF Agrees, SameAs, Adding, Removing, Roles
    <2>2. CASE l # k
      BY <1>4, <1>5, <1>6, <2>2 DEF Agrees, SameAs, Adding, Removing
    <2> QED BY <2>1, <2>2
  <1> QED BY <1>3, <1>7, <1>8

\* Every step of a handler keeps the structure.
LEMMA HandlerStruct ==
    ASSUME TypeInv, Struct, NEW k \in Callers, HandlerStep(k) \/ Abort(k)
    PROVE  Struct'
  <1> USE DEF At
  <1> call \in [Callers -> Call]
    BY DEF TypeInv, TypeOK
  <1>1. ASSUME UNCHANGED config, Return(k) PROVE Struct'
    BY <1>1, ReturnStruct
  <1>2. ASSUME UNCHANGED config, NEW g \in Groups, NEW pc \in g, call[k].pc \in g, Goto(k, pc)
        PROVE  Struct'
    <2>1. pc \in ApplyPC \union ResetPC \union BootstrapPC
      BY <1>2 DEF Groups, ApplyPC, ResetPC, BootstrapPC
    <2> QED BY <1>2, <2>1, GotoEffect, GoOnStruct
  <1>3. CASE ApplyStep(k)
    <2>1. CASE ApplySave(k)
      <3>1. CASE config[call[k].machine].kind = "none"
        BY <2>1, <3>1, SaveStruct DEF ApplySave
      <3>2. CASE config[call[k].machine].kind # "none"
        BY <2>1, <3>2, <1>2 DEF ApplySave, Groups
      <3> QED BY <3>1, <3>2
    <2>2. CASE ApplyUpdate(k)
      BY <2>2, SaveStruct DEF ApplyUpdate
    <2>3. CASE ApplyUpdateFails(k) \/ ApplyLabel(k)
      BY <2>3, <1>1 DEF ApplyUpdateFails, ApplyLabel
    <2>4. CASE ApplyFindCluster(k)
      BY <2>4, <1>2 DEF ApplyFindCluster, Groups
    <2>5. CASE ApplyCreateCluster(k)
      BY <2>5, <1>2 DEF ApplyCreateCluster, Groups
    <2>6. CASE ApplyCount(k)
      BY <2>6, <1>2 DEF ApplyCount, Groups
    <2> QED BY <1>3, <2>1, <2>2, <2>3, <2>4, <2>5, <2>6 DEF ApplyStep
  <1>4. CASE ResetStep(k)
    <2>1. CASE ResetTeardown(k)
      <3>1. config[call[k].machine].kind \in Roles /\ call[k].machine \in Machines
        BY <2>1 DEF ResetTeardown, Struct, Agrees, SameAs, Grounded
      <3>2. Goto(k, "destroy")
        BY <2>1, <3>1 DEF ResetTeardown, Roles
      <3>3. \A m \in Machines : /\ config'[m].kind = config[m].kind
                                /\ config'[m].cluster = config[m].cluster
        BY <2>1, <3>1 DEF ResetTeardown, Roles, TypeInv, TypeOK, Config
      <3> QED BY <2>1, <3>2, <3>3, GotoEffect, GoOnStruct DEF ResetTeardown, Groups, ResetPC
    <2>2. CASE ResetDestroy(k)
      BY <2>2, DestroyStruct
    <2>3. CASE ResetLook(k)
      BY <2>3, LookEffect, GoOnStruct DEF ResetLook, Groups
    <2>4. CASE ResetDiscount(k)
      BY <2>4, <1>2 DEF ResetDiscount, Groups
    <2>5. CASE ResetDispose(k)
      BY <2>5, <1>2 DEF ResetDispose, Groups
    <2>6. CASE ResetUnlabel(k)
      BY <2>6, <1>1 DEF ResetUnlabel
    <2> QED BY <1>4, <2>1, <2>2, <2>3, <2>4, <2>5, <2>6 DEF ResetStep
  <1>5. CASE BootstrapStep(k)
    BY <1>5, <1>1, <1>2 DEF BootstrapStep, BootstrapCheck, BootstrapSet, Groups
  <1>6. CASE ClusterGone(k) \/ Abort(k)
    BY <1>6, <1>1 DEF ClusterGone, Abort
  <1> QED BY <1>3, <1>4, <1>5, <1>6 DEF HandlerStep

-----------------------------------------------------------------------------
(* Who counts *)

\* Who counts, by where the call about the machine is.
LEMMA CountedIff ==
    TypeInv /\ Struct =>
      \A m \in Machines, c \in Clusters, r \in Roles :
        /\ (\A k \in Callers : call[k].machine = m => call[k].pc \notin Adding \union Removing)
              => (Counted(m, c, r) <=> config[m].kind = r /\ config[m].cluster = c)
        /\ \A k \in Callers : call[k].machine = m /\ call[k].pc \in Adding
              => ~Counted(m, c, r)
        /\ \A k \in Callers : call[k].machine = m /\ call[k].pc \in Removing
              => (Counted(m, c, r) <=> call[k].kind = r /\ call[k].cluster = c)
  <1> SUFFICES ASSUME TypeInv, Struct, NEW m \in Machines, NEW c \in Clusters, NEW r \in Roles
               PROVE  /\ (\A k \in Callers : call[k].machine = m
                              => call[k].pc \notin Adding \union Removing)
                            => (Counted(m, c, r) <=> config[m].kind = r /\ config[m].cluster = c)
                      /\ \A k \in Callers : call[k].machine = m /\ call[k].pc \in Adding
                            => ~Counted(m, c, r)
                      /\ \A k \in Callers : call[k].machine = m /\ call[k].pc \in Removing
                            => (Counted(m, c, r) <=> call[k].kind = r /\ call[k].cluster = c)
    OBVIOUS
  <1> USE DEF Adding, Removing
  <1>1. ASSUME \A k \in Callers : call[k].machine = m => call[k].pc \notin Adding \union Removing
        PROVE  Counted(m, c, r) <=> config[m].kind = r /\ config[m].cluster = c
    BY <1>1 DEF Counted
  <1>2. ASSUME NEW k \in Callers, call[k].machine = m, call[k].pc \in Adding
        PROVE  ~Counted(m, c, r)
    <2>1. \A l \in Callers \ {k} : call[l].machine = m => call[l].pc \notin Removing
      BY <1>2 DEF Struct, Alone, ApplyPC, ResetPC
    <2> QED BY <1>2, <2>1 DEF Counted
  <1>3. ASSUME NEW k \in Callers, call[k].machine = m, call[k].pc \in Removing
        PROVE  Counted(m, c, r) <=> call[k].kind = r /\ call[k].cluster = c
    <2>1. \A l \in Callers \ {k} : call[l].machine = m => call[l].pc \notin Removing
      BY <1>3 DEF Struct, Alone, ApplyPC, ResetPC
    <2>2. config[m].kind \notin Roles
      BY <1>3 DEF Struct, Agrees
    <2> QED BY <1>3, <2>1, <2>2 DEF Counted
  <1> QED BY <1>1, <1>2, <1>3

\* The same of the next state.
LEMMA CountedIffNext ==
    TypeInv' /\ Struct' =>
      (\A m \in Machines, c \in Clusters, r \in Roles :
        /\ (\A k \in Callers : call[k].machine = m => call[k].pc \notin Adding \union Removing)
              => (Counted(m, c, r) <=> config[m].kind = r /\ config[m].cluster = c)
        /\ \A k \in Callers : call[k].machine = m /\ call[k].pc \in Adding
              => ~Counted(m, c, r)
        /\ \A k \in Callers : call[k].machine = m /\ call[k].pc \in Removing
              => (Counted(m, c, r) <=> call[k].kind = r /\ call[k].cluster = c))'
  BY CountedIff, PTL

\* A step that neither stores nor destroys a config, and adds and removes nobody.
LEMMA SameMembers ==
    ASSUME \A m \in Machines : /\ config'[m].kind = config[m].kind
                               /\ config'[m].cluster = config[m].cluster,
           \A k \in Callers :
              /\ call'[k].pc \in Adding <=> call[k].pc \in Adding
              /\ call'[k].pc \in Removing <=> call[k].pc \in Removing
              /\ call[k].pc \in Adding \union Removing =>
                    /\ call'[k].machine = call[k].machine
                    /\ call'[k].kind = call[k].kind
                    /\ call'[k].cluster = call[k].cluster
    PROVE  \A c \in Clusters, r \in Roles : Members(c, r)' = Members(c, r)
  <1> SUFFICES ASSUME NEW m \in Machines, NEW c \in Clusters, NEW r \in Roles
               PROVE  Counted(m, c, r)' <=> Counted(m, c, r)
    BY DEF Members
  <1> QED BY DEF Counted, Adding, Removing

\* A step of the call of one machine concerns no other machine.
LEMMA Elsewhere ==
    ASSUME NEW k \in Callers,
           \A l \in Callers \ {k} : call'[l] = call[l],
           call'[k].machine = call[k].machine \/ call'[k] = Idle,
           \A m \in Machines \ {call[k].machine} : config'[m] = config[m]
    PROVE  \A m \in Machines \ {call[k].machine}, c \in Clusters, r \in Roles :
              Counted(m, c, r)' <=> Counted(m, c, r)
  <1> SUFFICES ASSUME NEW m \in Machines \ {call[k].machine},
                      NEW c \in Clusters, NEW r \in Roles
               PROVE  Counted(m, c, r)' <=> Counted(m, c, r)
    OBVIOUS
  <1>1. call[k].machine # m /\ call'[k].machine # m
    BY SentinelAssumption DEF Idle
  <1> QED BY <1>1 DEF Counted

\* How many count, in a bounded range.
LEMMA MembersCard ==
    ASSUME NEW S \in SUBSET Machines
    PROVE  /\ IsFiniteSet(S)
           /\ Cardinality(S) \in Nat
           /\ Cardinality(S) <= Cardinality(Machines) /\ Cardinality(Machines) \in Nat
           /\ \A m \in Machines \ S : /\ Cardinality(S \union {m}) = Cardinality(S) + 1
                                       /\ Cardinality(S) < Cardinality(Machines)
           /\ \A m \in S : /\ Cardinality(S \ {m}) = Cardinality(S) - 1
                            /\ Cardinality(S) >= 1
           /\ Cardinality(S) = 0 => S = {}
  <1>1. IsFiniteSet(S) /\ Cardinality(S) \in Nat
    BY MachinesFinite, FS_Subset, FS_CardinalityType
  <1>2. Cardinality(S) <= Cardinality(Machines) /\ Cardinality(Machines) \in Nat
    BY MachinesFinite, FS_Subset, FS_CardinalityType
  <1>3. ASSUME NEW m \in Machines \ S
        PROVE  /\ Cardinality(S \union {m}) = Cardinality(S) + 1
               /\ Cardinality(S) < Cardinality(Machines)
    <2>1. Cardinality(S \union {m}) = Cardinality(S) + 1
      BY <1>1, FS_AddElement
    <2>2. S \union {m} \in SUBSET Machines
      OBVIOUS
    <2>3. Cardinality(S \union {m}) <= Cardinality(Machines)
      BY <2>2, MachinesFinite, FS_Subset
    <2> QED BY <1>1, <1>2, <2>1, <2>3
  <1>4. ASSUME NEW m \in S
        PROVE  Cardinality(S \ {m}) = Cardinality(S) - 1 /\ Cardinality(S) >= 1
    <2>1. IsFiniteSet(S \ {m}) /\ Cardinality(S \ {m}) \in Nat
      BY <1>1, FS_Subset, FS_CardinalityType
    <2>2. Cardinality(S \ {m}) = Cardinality(S) - 1
      BY <1>1, FS_RemoveElement
    <2> QED BY <1>1, <2>1, <2>2
  <1>5. Cardinality(S) = 0 => S = {}
    BY <1>1, FS_EmptySet
  <1> QED BY <1>1, <1>2, <1>3, <1>4, <1>5

\* Storing a config counts nobody yet, or changes nothing about who counts.
LEMMA SavedMembers ==
    ASSUME TypeInv, Struct, TypeInv', Struct', NEW k \in Callers,
           call[k].pc \in {"save", "update"}, Saved(k, call[k].machine), AfterSave(k)
    PROVE  \A c \in Clusters, r \in Roles : Members(c, r)' = Members(c, r)
  <1> USE DEF TypeInv, TypeOK
  <1> PICK m \in Machines : m = call[k].machine
    BY DEF Struct, Grounded, Removing, ResetDestroy, ApplyCount, At
  <1>1. /\ m \in Machines /\ \A n \in Machines \ {m} : config'[n] = config[n]
        /\ config'[m].kind = call[k].kind /\ config'[m].cluster = call[k].cluster
    BY DEF Saved, Struct, Grounded
  <1>2. /\ \A l \in Callers \ {k} : call'[l] = call[l]
        /\ \/ call[k].flag /\ call'[k].pc = "find" /\ call'[k].machine = m
           \/ ~call[k].flag /\ call'[k] = Idle
    BY GotoEffect, ReturnEffect DEF AfterSave, ApplyPC
  <1>3. \A l \in Callers \ {k} : call[l].machine = m => call[l].pc \notin MembershipPC
    BY DEF Struct, Alone, ApplyPC
  <1>4. \A l \in Callers : call[l].machine = m => call[l].pc \notin Adding \union Removing
    BY <1>3 DEF ApplyPC, ResetPC, Adding, Removing
  <1>5. ASSUME NEW c \in Clusters, NEW r \in Roles PROVE Counted(m, c, r)' <=> Counted(m, c, r)
    <2>1. Counted(m, c, r) <=> config[m].kind = r /\ config[m].cluster = c
      BY <1>1, <1>4, CountedIff
    <2>2. CASE call[k].flag
      <3>1. config[m].kind \notin Roles
        BY <2>2 DEF Struct, Agrees
      <3>2. ~Counted(m, c, r)'
        BY <1>1, <1>2, <2>2, CountedIffNext DEF Adding
      <3> QED BY <2>1, <3>1, <3>2
    <2>3. CASE ~call[k].flag
      <3>1. IF config[m].kind \in Roles THEN SameAs(k) ELSE call[k].kind \notin Roles
        BY <2>3 DEF Struct, Agrees
      <3>2. \A l \in Callers : call'[l].machine = m => call'[l].pc \notin Adding \union Removing
        BY <1>1, <1>2, <1>4, <2>3, SentinelAssumption DEF Idle
      <3>3. Counted(m, c, r)' <=> config'[m].kind = r /\ config'[m].cluster = c
        BY <3>2 DEF Counted, Adding, Removing
      <3> QED BY <1>1, <2>1, <3>1, <3>3 DEF SameAs
    <2> QED BY <2>2, <2>3
  <1>6. \A n \in Machines, c \in Clusters, r \in Roles : Counted(n, c, r)' <=> Counted(n, c, r)
    BY <1>1, <1>2, <1>5, Elsewhere
  <1> QED BY <1>6 DEF Members

\* The destroyed config still counts until the call has subtracted it.
LEMMA DestroyMembers ==
    ASSUME TypeInv, Struct, TypeInv', Struct', NEW k \in Callers, ResetDestroy(k)
    PROVE  \A c \in Clusters, r \in Roles : Members(c, r)' = Members(c, r)
  <1> USE DEF TypeInv, TypeOK
  <1> PICK m \in Machines : m = call[k].machine
    BY DEF Struct, Grounded, Removing, ResetDestroy, ApplyCount, At
  <1>0. call[k].pc = "destroy"
    BY DEF ResetDestroy, At
  <1>1. /\ m \in Machines /\ \A n \in Machines \ {m} : config'[n] = config[n]
        /\ SameAs(k)
    BY <1>0 DEF ResetDestroy, Struct, Grounded, Agrees
  <1>2. /\ \A l \in Callers \ {k} : call'[l] = call[l]
        /\ call'[k].pc = "look" /\ call'[k].machine = m
        /\ call'[k].kind = call[k].kind /\ call'[k].cluster = call[k].cluster
    BY DestroyStruct, GotoEffect DEF ResetPC
  <1>3. \A l \in Callers : call[l].machine = m => call[l].pc \notin Adding \union Removing
    BY <1>0 DEF Struct, Alone, ApplyPC, ResetPC, Adding, Removing
  <1>4. ASSUME NEW c \in Clusters, NEW r \in Roles PROVE Counted(m, c, r)' <=> Counted(m, c, r)
    <2>1. Counted(m, c, r) <=> config[m].kind = r /\ config[m].cluster = c
      BY <1>1, <1>3, CountedIff
    <2>2. Counted(m, c, r)' <=> call[k].kind = r /\ call[k].cluster = c
      BY <1>1, <1>2, CountedIffNext DEF Removing
    <2> QED BY <1>1, <2>1, <2>2 DEF SameAs
  <1> QED BY <1>1, <1>2, <1>4, Elsewhere DEF Members

\* The machine that an ApplyConfiguration counts was not counted before.
LEMMA CountMembers ==
    ASSUME TypeInv, Struct, TypeInv', Struct', NEW k \in Callers, ApplyCount(k)
    PROVE  \A c \in Clusters, r \in Roles :
              IF call[k].kind = r /\ call[k].cluster = c
              THEN /\ call[k].machine \in Machines \ Members(c, r)
                   /\ Members(c, r)' = Members(c, r) \union {call[k].machine}
              ELSE Members(c, r)' = Members(c, r)
  <1> USE DEF TypeInv, TypeOK
  <1> PICK m \in Machines : m = call[k].machine
    BY DEF Struct, Grounded, Removing, ResetDestroy, ApplyCount, At
  <1>0. call[k].pc = "count" /\ UNCHANGED config
    BY DEF ApplyCount, At
  <1>1. m \in Machines /\ SameAs(k)
    BY <1>0 DEF Struct, Grounded, Agrees, Adding
  <1>2. /\ \A l \in Callers \ {k} : call'[l] = call[l]
        /\ call'[k].pc = "label" /\ call'[k].machine = m
    BY GotoEffect DEF ApplyCount, ApplyPC
  <1>3. \A l \in Callers \ {k} : call[l].machine = m => call[l].pc \notin Adding \union Removing
    BY <1>0 DEF Struct, Alone, ApplyPC, ResetPC, Adding, Removing
  <1>4. ASSUME NEW c \in Clusters, NEW r \in Roles
        PROVE  /\ ~Counted(m, c, r)
               /\ Counted(m, c, r)' <=> call[k].kind = r /\ call[k].cluster = c
    <2>1. ~Counted(m, c, r)
      BY <1>0, <1>1, CountedIff DEF Adding
    <2>2. \A l \in Callers : call'[l].machine = m => call'[l].pc \notin Adding \union Removing
      BY <1>2, <1>3 DEF Adding, Removing
    <2>3. Counted(m, c, r)' <=> config'[m].kind = r /\ config'[m].cluster = c
      BY <2>2 DEF Counted, Adding, Removing
    <2> QED BY <1>0, <1>1, <2>1, <2>3 DEF SameAs
  <1>5. \A n \in Machines \ {m}, c \in Clusters, r \in Roles : Counted(n, c, r)' <=> Counted(n, c, r)
    BY <1>0, <1>2, Elsewhere
  <1> SUFFICES ASSUME NEW c \in Clusters, NEW r \in Roles
               PROVE  IF call[k].kind = r /\ call[k].cluster = c
                      THEN /\ m \in Machines \ Members(c, r)
                           /\ Members(c, r)' = Members(c, r) \union {m}
                      ELSE Members(c, r)' = Members(c, r)
    OBVIOUS
  <1> HIDE DEF TypeInv, TypeOK
  <1>6. CASE call[k].kind = r /\ call[k].cluster = c
    BY <1>1, <1>4, <1>5, <1>6 DEF Members
  <1>7. CASE ~(call[k].kind = r /\ call[k].cluster = c)
    <2>1. \A n \in Machines : Counted(n, c, r)' <=> Counted(n, c, r)
      BY <1>4, <1>5, <1>7
    <2> QED BY <1>7, <2>1 DEF Members
  <1> QED BY <1>6, <1>7

\* The machine that a Reset subtracts, or would have subtracted, was counted.
LEMMA LeaveMembers ==
    ASSUME TypeInv, Struct, TypeInv', Struct', NEW k \in Callers, call[k].pc \in Removing,
           UNCHANGED config,
           \A l \in Callers \ {k} : call'[l] = call[l],
           \/ call'[k] = Idle
           \/ call'[k].pc \in {"dispose", "unlabel"} /\ call'[k].machine = call[k].machine
    PROVE  \A c \in Clusters, r \in Roles :
              IF call[k].kind = r /\ call[k].cluster = c
              THEN /\ call[k].machine \in Members(c, r)
                   /\ Members(c, r)' = Members(c, r) \ {call[k].machine}
              ELSE Members(c, r)' = Members(c, r)
  <1> USE DEF TypeInv, TypeOK
  <1> PICK m \in Machines : m = call[k].machine
    BY DEF Struct, Grounded, Removing, ResetDestroy, ApplyCount, At
  <1>1. m \in Machines /\ config[m].kind \notin Roles
    BY DEF Struct, Grounded, Agrees, Removing
  <1>2. \A l \in Callers \ {k} : call[l].machine = m => call[l].pc \notin Adding \union Removing
    BY DEF Struct, Alone, ApplyPC, ResetPC, Adding, Removing
  <1>3. ASSUME NEW c \in Clusters, NEW r \in Roles
        PROVE  /\ Counted(m, c, r) <=> call[k].kind = r /\ call[k].cluster = c
               /\ ~Counted(m, c, r)'
    <2>1. Counted(m, c, r) <=> call[k].kind = r /\ call[k].cluster = c
      BY <1>1, CountedIff
    <2>2. \A l \in Callers : call'[l].machine = m => call'[l].pc \notin Adding \union Removing
      BY <1>1, <1>2, SentinelAssumption DEF Adding, Removing, Idle
    <2>3. Counted(m, c, r)' <=> config'[m].kind = r /\ config'[m].cluster = c
      BY <2>2 DEF Counted, Adding, Removing
    <2> QED BY <1>1, <2>1, <2>3
  <1>4. \A n \in Machines \ {m}, c \in Clusters, r \in Roles : Counted(n, c, r)' <=> Counted(n, c, r)
    BY Elsewhere
  <1> SUFFICES ASSUME NEW c \in Clusters, NEW r \in Roles
               PROVE  IF call[k].kind = r /\ call[k].cluster = c
                      THEN /\ m \in Members(c, r)
                           /\ Members(c, r)' = Members(c, r) \ {m}
                      ELSE Members(c, r)' = Members(c, r)
    OBVIOUS
  <1> HIDE DEF TypeInv, TypeOK
  <1>5. CASE call[k].kind = r /\ call[k].cluster = c
    BY <1>1, <1>3, <1>4, <1>5 DEF Members
  <1>6. CASE ~(call[k].kind = r /\ call[k].cluster = c)
    <2>1. \A n \in Machines : Counted(n, c, r)' <=> Counted(n, c, r)
      BY <1>3, <1>4, <1>6
    <2> QED BY <1>6, <2>1 DEF Members
  <1> QED BY <1>5, <1>6

-----------------------------------------------------------------------------
(* Counters and phases *)

ClusterInv == (\A k \in Callers : Phased(k)) /\ Hollow /\ CountsCover

\* Nobody counts towards a cluster that is not running.
LEMMA OnlyRunningCounts ==
    TypeInv /\ ClusterInv =>
      \A c \in Clusters, r \in Roles : Members(c, r) # {} => cluster[c].phase = "running"
  <1> SUFFICES ASSUME TypeInv, ClusterInv, NEW c \in Clusters, NEW r \in Roles,
                      cluster[c].phase # "running"
               PROVE  Members(c, r) = {}
    OBVIOUS
  <1>1. Members(c, r) \in SUBSET Machines
    BY DEF Members
  <1>2. cluster[c].controlPlanes = 0 /\ cluster[c].workers = 0
    BY DEF ClusterInv, Hollow, IsEmpty
  <1>3. Cardinality(Members(c, r)) \in Nat /\ Cardinality(Members(c, r)) <= 0
    BY <1>1, <1>2, MembersCard DEF ClusterInv, CountsCover, Roles, TypeInv, TypeOK
  <1> QED BY <1>1, <1>3, MembersCard

\* The counters stay right when who counts and the counters stay as they are.
LEMMA KeptCounts ==
    ASSUME TypeInv, CountsCover, aborts' \in {aborts, aborts + 1},
           \A c \in Clusters, r \in Roles : Members(c, r)' = Members(c, r),
           \A c \in Clusters : /\ cluster'[c].controlPlanes = cluster[c].controlPlanes
                               /\ cluster'[c].workers = cluster[c].workers
    PROVE  CountsCover'
  <1> SUFFICES ASSUME NEW c \in Clusters
               PROVE  /\ cluster'[c].controlPlanes \in
                           Cardinality(Members(c, "controlplane")') ..
                           Cardinality(Members(c, "controlplane")') + aborts'
                      /\ cluster'[c].workers \in
                           Cardinality(Members(c, "worker")') ..
                           Cardinality(Members(c, "worker")') + aborts'
    BY DEF CountsCover
  <1>1. /\ Cardinality(Members(c, "controlplane")) \in Nat
        /\ Cardinality(Members(c, "worker")) \in Nat
    BY MembersCard DEF Members
  <1>2. aborts \in Nat
    BY CounterAssumption DEF TypeInv, TypeOK
  <1> QED BY <1>1, <1>2 DEF CountsCover, Roles

\* Of the conditions on phases only those of the call that moves are in question when
\* no ClusterStatus changes.
LEMMA KeptPhases ==
    ASSUME TypeInv, ClusterInv, NEW k \in Callers, UNCHANGED cluster,
           \A l \in Callers \ {k} : call'[l] = call[l], Phased(k)'
    PROVE  (\A l \in Callers : Phased(l)') /\ Hollow'
  BY DEF ClusterInv, Phased, Hollow

Steady == TypeInv /\ Struct /\ ClusterInv /\ TypeInv' /\ Struct'

\* A step that leaves every ClusterStatus alone, keeps who counts, and moves one call
\* into a place whose conditions hold.
LEMMA QuietCluster ==
    ASSUME Steady, NEW k \in Callers, UNCHANGED cluster, aborts' \in {aborts, aborts + 1},
           \A l \in Callers \ {k} : call'[l] = call[l], Phased(k)',
           \A c \in Clusters, r \in Roles : Members(c, r)' = Members(c, r)
    PROVE  ClusterInv'
  BY KeptCounts, KeptPhases DEF Steady, ClusterInv

\* A call that starts finds no cluster being torn down.
LEMMA StartCluster ==
    ASSUME Steady, Serialised, NEW k \in Callers, NEW m \in Machines,
           \/ \E c \in Clusters, kind \in Kinds : ApplyStart(k, m, c, kind)
           \/ ResetStart(k, m)
           \/ BootstrapStart(k, m)
    PROVE  ClusterInv'
  <1> USE DEF Steady, TypeInv, TypeOK
  <1>1. /\ UNCHANGED <<config, cluster, label, aborts>> /\ call[k].pc = "idle"
        /\ \A l \in Callers \ {k} : call'[l] = call[l]
    BY DEF ApplyStart, ResetStart, BootstrapStart, At
  <1>2. /\ call'[k].pc \in {"save", "teardown", "check"}
        /\ call'[k].pc = "save" => cluster[call'[k].cluster].phase # "tearingDown"
    <2>1. ASSUME NEW c \in Clusters, NEW kind \in Kinds, ApplyStart(k, m, c, kind)
          PROVE  call'[k].pc = "save" /\ cluster[call'[k].cluster].phase # "tearingDown"
      BY <2>1 DEF ApplyStart, MayApply, Serialised
    <2>2. CASE ResetStart(k, m)
      BY <2>2 DEF ResetStart
    <2>3. CASE BootstrapStart(k, m)
      BY <2>3 DEF BootstrapStart
    <2> QED BY <2>1, <2>2, <2>3
  <1>3. Phased(k)'
    BY <1>1, <1>2 DEF Phased, ApplyPC
  <1>4. \A c \in Clusters, r \in Roles : Members(c, r)' = Members(c, r)
    BY <1>1, <1>2, SameMembers DEF Adding, Removing
  <1> HIDE DEF Steady, TypeInv, TypeOK
  <1> QED BY <1>1, <1>3, <1>4, QuietCluster

\* A call that ends when its machine is neither being added nor removed changes nothing.
LEMMA ReturnCluster ==
    ASSUME Steady, NEW k \in Callers, UNCHANGED <<config, cluster>>,
           aborts' \in {aborts, aborts + 1}, call[k].pc \notin Adding \union Removing, Return(k)
    PROVE  ClusterInv'
  <1>1. call'[k].pc = "idle" /\ \A l \in Callers \ {k} : call'[l] = call[l]
    BY ReturnEffect DEF Steady, TypeInv, TypeOK, Idle
  <1>2. Phased(k)'
    BY <1>1 DEF Phased, ApplyPC
  <1>3. \A c \in Clusters, r \in Roles : Members(c, r)' = Members(c, r)
    BY <1>1, SameMembers DEF Adding, Removing
  <1> QED BY <1>1, <1>2, <1>3, QuietCluster

\* A reset that ends before it has subtracted its machine leaves the counters too high.
LEMMA LostReset ==
    ASSUME Steady, NEW k \in Callers, UNCHANGED <<config, cluster>>, aborts' = aborts + 1,
           call[k].pc \in Removing, Return(k)
    PROVE  ClusterInv'
  <1> USE DEF Steady
  <1>1. call'[k] = Idle /\ \A l \in Callers \ {k} : call'[l] = call[l]
    BY ReturnEffect DEF TypeInv, TypeOK
  <1>2. Phased(k)'
    BY <1>1 DEF Phased, ApplyPC, Idle
  <1>3. ASSUME NEW c \in Clusters, NEW r \in Roles
        PROVE  /\ Cardinality(Members(c, r)) \in Nat
               /\ \/ Cardinality(Members(c, r)') = Cardinality(Members(c, r))
                  \/ /\ Cardinality(Members(c, r)') = Cardinality(Members(c, r)) - 1
                     /\ Cardinality(Members(c, r)) >= 1
    <2>1. Members(c, r) \in SUBSET Machines
      BY DEF Members
    <2>2. \/ Members(c, r)' = Members(c, r)
          \/ /\ call[k].machine \in Members(c, r)
             /\ Members(c, r)' = Members(c, r) \ {call[k].machine}
      BY <1>1, LeaveMembers
    <2> QED BY <2>1, <2>2, MembersCard
  <1>4. aborts \in Nat
    BY CounterAssumption DEF TypeInv, TypeOK
  <1>5. CountsCover'
    <2> SUFFICES ASSUME NEW c \in Clusters
                 PROVE  /\ cluster[c].controlPlanes \in
                             Cardinality(Members(c, "controlplane")') ..
                             Cardinality(Members(c, "controlplane")') + aborts'
                        /\ cluster[c].workers \in
                             Cardinality(Members(c, "worker")') ..
                             Cardinality(Members(c, "worker")') + aborts'
      BY DEF CountsCover
    <2>1. /\ cluster[c].controlPlanes \in
               Cardinality(Members(c, "controlplane")) .. Cardinality(Members(c, "controlplane")) + aborts
          /\ cluster[c].workers \in
               Cardinality(Members(c, "worker")) .. Cardinality(Members(c, "worker")) + aborts
      BY DEF ClusterInv, CountsCover
    <2> QED BY <1>3, <1>4, <2>1 DEF Roles
  <1> QED BY <1>1, <1>2, <1>5, KeptPhases DEF ClusterInv

\* When one ClusterStatus changes, the conditions on phases are in question only for
\* the calls about that cluster.
LEMMA ChangedPhases ==
    ASSUME Steady, NEW c \in Clusters,
           \A d \in Clusters \ {c} : cluster'[d] = cluster[d],
           \A l \in Callers : Phased(l)' \/ (call'[l] = call[l] /\ call[l].cluster # c),
           cluster'[c].phase = "running" \/ IsEmpty(cluster'[c])
    PROVE  (\A l \in Callers : Phased(l)') /\ Hollow'
  <1>1. Hollow'
    BY DEF Steady, ClusterInv, Hollow, IsEmpty
  <1>2. ASSUME NEW l \in Callers, call'[l] = call[l], call[l].cluster # c PROVE Phased(l)'
    <2>1. CASE call[l].pc = "idle"
      BY <1>2, <2>1 DEF Phased, ApplyPC
    <2>2. CASE call[l].pc # "idle"
      <3>1. cluster'[call[l].cluster] = cluster[call[l].cluster]
        BY <1>2, <2>2 DEF Steady, Struct, Grounded
      <3> QED BY <1>2, <3>1 DEF Steady, ClusterInv, Phased, IsEmpty
    <2> QED BY <2>1, <2>2
  <1> QED BY <1>1, <1>2

\* The counters stay right when one role of one cluster gains or loses one machine, and
\* the counter of that role follows.
LEMMA MovedCounts ==
    ASSUME Steady, NEW c \in Clusters, NEW role \in Roles, NEW delta \in {-1, 1},
           aborts' = aborts,
           \A d \in Clusters, r \in Roles :
              Cardinality(Members(d, r)') =
                 Cardinality(Members(d, r)) + (IF d = c /\ r = role THEN delta ELSE 0),
           \A d \in Clusters :
              /\ cluster'[d].controlPlanes = cluster[d].controlPlanes
                    + (IF d = c /\ role = "controlplane" THEN delta ELSE 0)
              /\ cluster'[d].workers = cluster[d].workers
                    + (IF d = c /\ role = "worker" THEN delta ELSE 0)
    PROVE  CountsCover'
  <1> SUFFICES ASSUME NEW d \in Clusters
               PROVE  /\ cluster'[d].controlPlanes \in
                           Cardinality(Members(d, "controlplane")') ..
                           Cardinality(Members(d, "controlplane")') + aborts'
                      /\ cluster'[d].workers \in
                           Cardinality(Members(d, "worker")') ..
                           Cardinality(Members(d, "worker")') + aborts'
    BY DEF CountsCover
  <1>1. /\ Cardinality(Members(d, "controlplane")) \in Nat
        /\ Cardinality(Members(d, "worker")) \in Nat
    BY MembersCard DEF Members
  <1>2. aborts \in Nat
    BY CounterAssumption DEF Steady, TypeInv, TypeOK
  <1>3. /\ cluster[d].controlPlanes \in
             Cardinality(Members(d, "controlplane")) .. Cardinality(Members(d, "controlplane")) + aborts
        /\ cluster[d].workers \in
             Cardinality(Members(d, "worker")) .. Cardinality(Members(d, "worker")) + aborts
    BY DEF Steady, ClusterInv, CountsCover
  <1>4. CASE role = "controlplane"
    BY <1>1, <1>2, <1>3, <1>4 DEF Roles
  <1>5. CASE role = "worker"
    BY <1>1, <1>2, <1>3, <1>5 DEF Roles
  <1> QED BY <1>4, <1>5 DEF Roles

\* Every step of an ApplyConfiguration keeps the counters and phases right.
LEMMA ApplyCluster ==
    ASSUME Steady, NEW k \in Callers, ApplyStep(k)
    PROVE  ClusterInv'
  <1> USE DEF Steady, At, ApplyPC
  <1> call \in [Callers -> Call] /\ aborts \in Nat
    BY CounterAssumption DEF TypeInv, TypeOK
  <1>1. ASSUME call[k].pc \in {"save", "update"}, UNCHANGED <<cluster, label, aborts>>,
               Saved(k, call[k].machine), AfterSave(k)
        PROVE  ClusterInv'
    <2>1. /\ \A l \in Callers \ {k} : call'[l] = call[l]
          /\ \/ call'[k].pc = "find" /\ call'[k].cluster = call[k].cluster
             \/ call'[k].pc = "idle"
      BY <1>1, GotoEffect, ReturnEffect DEF AfterSave, Idle
    <2>2. Phased(k)'
      BY <1>1, <2>1 DEF ClusterInv, Phased
    <2> QED BY <1>1, <2>1, <2>2, SavedMembers, QuietCluster
  <1>2. CASE ApplySave(k)
    <2>1. CASE config[call[k].machine].kind = "none"
      BY <1>1, <1>2, <2>1 DEF ApplySave
    <2>2. CASE config[call[k].machine].kind # "none"
      <3>1. /\ \A l \in Callers \ {k} : call'[l] = call[l]
            /\ call[k].pc = "save"
            /\ call'[k].pc = "update" /\ call'[k].cluster = call[k].cluster
            /\ UNCHANGED <<config, cluster, label, aborts>>
        BY <1>2, <2>2, GotoEffect DEF ApplySave
      <3>2. Phased(k)'
        BY <3>1 DEF ClusterInv, Phased
      <3>3. \A c \in Clusters, r \in Roles : Members(c, r)' = Members(c, r)
        BY <3>1, SameMembers DEF Adding, Removing
      <3> QED BY <3>1, <3>2, <3>3, QuietCluster
    <2> QED BY <2>1, <2>2
  <1>3. CASE ApplyUpdate(k)
    BY <1>1, <1>3 DEF ApplyUpdate
  <1>4. CASE ApplyUpdateFails(k)
    BY <1>4, ReturnCluster DEF ApplyUpdateFails, Adding, Removing
  <1>5. CASE ApplyLabel(k)
    BY <1>5, ReturnCluster DEF ApplyLabel, Adding, Removing
  <1>6. CASE ApplyFindCluster(k)
    <2> DEFINE c == call[k].cluster
    <2>1. /\ \A l \in Callers \ {k} : call'[l] = call[l]
          /\ call'[k].machine = call[k].machine /\ call'[k].kind = call[k].kind
          /\ call'[k].cluster = c
          /\ call'[k].pc = IF cluster[c].phase = "absent" THEN "create" ELSE "count"
      BY <1>6, GotoEffect DEF ApplyFindCluster
    <2>2. UNCHANGED <<config, cluster, label, aborts>> /\ call[k].pc = "find"
      BY <1>6 DEF ApplyFindCluster
    <2>3. cluster[c].phase # "tearingDown" /\ c \in Clusters
      BY <2>2 DEF ClusterInv, Phased, Struct, Grounded
    <2>4. cluster[c].phase \in {"absent", "running", "tearingDown"}
      BY <2>3 DEF TypeInv, TypeOK, ClusterStatus
    <2>5. Phased(k)'
      BY <2>1, <2>2, <2>3, <2>4 DEF Phased
    <2>6. \A d \in Clusters, r \in Roles : Members(d, r)' = Members(d, r)
      BY <2>1, <2>2, SameMembers DEF Adding, Removing
    <2> QED BY <2>1, <2>2, <2>5, <2>6, QuietCluster
  <1>7. CASE ApplyCreateCluster(k)
    <2> DEFINE c == call[k].cluster
    <2>1. /\ \A l \in Callers \ {k} : call'[l] = call[l]
          /\ call'[k].machine = call[k].machine /\ call'[k].kind = call[k].kind
          /\ call'[k].cluster = c /\ call'[k].pc = "count"
          /\ call[k].pc = "create" /\ UNCHANGED <<config, label, aborts>>
      BY <1>7, GotoEffect DEF ApplyCreateCluster
    <2>2. cluster[c].phase # "tearingDown" /\ c \in Clusters
      BY <2>1 DEF ClusterInv, Phased, Struct, Grounded
    <2>3. /\ cluster[c].phase \in {"absent", "running", "tearingDown"}
          /\ cluster[c].phase = "absent" =>
                cluster[c].controlPlanes = 0 /\ cluster[c].workers = 0
      BY <2>2 DEF TypeInv, TypeOK, ClusterStatus, ClusterInv, Hollow, IsEmpty
    <2>4. /\ \A d \in Clusters : /\ cluster'[d].controlPlanes = cluster[d].controlPlanes
                                 /\ cluster'[d].workers = cluster[d].workers
          /\ \A d \in Clusters \ {c} : cluster'[d] = cluster[d]
          /\ cluster'[c].phase = "running"
      BY <1>7, <2>2, <2>3 DEF ApplyCreateCluster, NoStatus, TypeInv, TypeOK
    <2>5. \A d \in Clusters, r \in Roles : Members(d, r)' = Members(d, r)
      BY <2>1, SameMembers DEF Adding, Removing
    <2>6. CountsCover'
      BY <2>1, <2>4, <2>5, KeptCounts DEF ClusterInv
    <2>7. Hollow'
      BY <2>4 DEF ClusterInv, Hollow, IsEmpty
    <2>8. ASSUME NEW l \in Callers PROVE Phased(l)'
      <3>1. CASE call'[l].pc = "idle" \/ call'[l].pc \in BootstrapPC
        BY <3>1 DEF Phased, BootstrapPC
      <3>2. CASE call'[l].pc \in MembershipPC
        <4>1. call'[l].cluster \in Clusters
          BY <3>2 DEF Struct, Grounded, ResetPC
        <4> QED BY <2>1, <2>4, <4>1 DEF ClusterInv, Phased, IsEmpty
      <3>3. call'[l].pc \in {"idle"} \union ApplyPC \union ResetPC \union BootstrapPC
        BY DEF TypeInv, TypeOK, Call
      <3> QED BY <3>1, <3>2, <3>3
    <2> QED BY <2>6, <2>7, <2>8 DEF ClusterInv
  <1>8. CASE ApplyCount(k)
    <2> PICK c \in Clusters : c = call[k].cluster
      BY <1>8 DEF ApplyCount, Struct, Grounded
    <2> PICK role \in Roles : role = call[k].kind
      BY <1>8 DEF ApplyCount, Struct, Agrees, SameAs, Adding
    <2>1. /\ \A l \in Callers \ {k} : call'[l] = call[l]
          /\ call'[k].pc = "label" /\ call'[k].cluster = c
          /\ call[k].pc = "count" /\ UNCHANGED <<config, label, aborts>>
      BY <1>8, GotoEffect DEF ApplyCount
    <2>2. \A d \in Clusters, r \in Roles :
             /\ Cardinality(Members(d, r)') =
                   Cardinality(Members(d, r)) + (IF d = c /\ r = role THEN 1 ELSE 0)
             /\ Cardinality(Members(c, role)) \in Nat
             /\ Cardinality(Members(c, role)) < Cardinality(Machines)
      <3> SUFFICES ASSUME NEW d \in Clusters, NEW r \in Roles
                   PROVE  /\ Cardinality(Members(d, r)') =
                                Cardinality(Members(d, r)) + (IF d = c /\ r = role THEN 1 ELSE 0)
                          /\ Cardinality(Members(c, role)) \in Nat
                          /\ Cardinality(Members(c, role)) < Cardinality(Machines)
        OBVIOUS
      <3>1. Members(d, r) \in SUBSET Machines /\ Members(c, role) \in SUBSET Machines
        BY DEF Members
      <3>2. /\ call[k].machine \in Machines \ Members(c, role)
            /\ Members(c, role)' = Members(c, role) \union {call[k].machine}
            /\ ~(d = c /\ r = role) => Members(d, r)' = Members(d, r)
        BY <1>8, CountMembers
      <3>3. /\ Cardinality(Members(c, role)') = Cardinality(Members(c, role)) + 1
            /\ Cardinality(Members(c, role)) \in Nat
            /\ Cardinality(Members(c, role)) < Cardinality(Machines)
            /\ Cardinality(Members(d, r)) \in Nat
        BY <3>1, <3>2, MembersCard
      <3>4. CASE d = c /\ r = role
        BY <3>3, <3>4
      <3>5. CASE ~(d = c /\ r = role)
        <4>1. Cardinality(Members(d, r)') = Cardinality(Members(d, r))
          BY <3>2, <3>5
        <4> QED BY <3>3, <3>5, <4>1
      <3> QED BY <3>4, <3>5
    <2>3. /\ cluster[c] \in ClusterStatus /\ cluster[c].phase = "running"
          /\ cluster' = IF role = "controlplane"
                        THEN [cluster EXCEPT ![c].controlPlanes = Inc(cluster[c].controlPlanes)]
                        ELSE [cluster EXCEPT ![c].workers = Inc(cluster[c].workers)]
      BY <1>8 DEF ApplyCount, Updatable, TypeInv, TypeOK
    <2>4. /\ cluster[c].controlPlanes \in Nat /\ cluster[c].workers \in Nat
          /\ role = "controlplane" =>
                Inc(cluster[c].controlPlanes) = cluster[c].controlPlanes + 1
          /\ role = "worker" => Inc(cluster[c].workers) = cluster[c].workers + 1
      <3>1. /\ Cardinality(Machines) \in Nat /\ CounterMod \in Nat /\ aborts <= MaxAborts
            /\ MaxAborts \in Nat /\ Cardinality(Machines) + MaxAborts < CounterMod
        BY CounterAssumption, MachinesFinite, FS_CardinalityType DEF TypeInv, TypeOK
      <3>2. /\ cluster[c].controlPlanes \in Nat /\ cluster[c].workers \in Nat
        BY <2>3, <3>1 DEF ClusterStatus, Counter
      <3>3. /\ role = "controlplane" =>
                  cluster[c].controlPlanes <= Cardinality(Members(c, role)) + aborts
            /\ role = "worker" => cluster[c].workers <= Cardinality(Members(c, role)) + aborts
        BY <2>2, <3>2 DEF ClusterInv, CountsCover
      <3> QED BY <2>2, <3>1, <3>2, <3>3 DEF Inc
    <2>5. /\ \A d \in Clusters \ {c} : cluster'[d] = cluster[d]
          /\ cluster'[c].phase = "running"
          /\ role = "controlplane" => /\ cluster'[c].controlPlanes = cluster[c].controlPlanes + 1
                                      /\ cluster'[c].workers = cluster[c].workers
          /\ role = "worker" => /\ cluster'[c].controlPlanes = cluster[c].controlPlanes
                                /\ cluster'[c].workers = cluster[c].workers + 1
      BY <2>3, <2>4 DEF TypeInv, TypeOK, ClusterStatus, Roles
    <2>6. \A d \in Clusters : cluster[d].controlPlanes \in Nat /\ cluster[d].workers \in Nat
      BY CounterAssumption DEF TypeInv, TypeOK, ClusterStatus, Counter
    <2>7. CountsCover'
      <3>1. \A d \in Clusters :
               /\ cluster'[d].controlPlanes = cluster[d].controlPlanes
                     + (IF d = c /\ role = "controlplane" THEN 1 ELSE 0)
               /\ cluster'[d].workers = cluster[d].workers
                     + (IF d = c /\ role = "worker" THEN 1 ELSE 0)
        BY <2>5, <2>6 DEF Roles
      <3> HIDE DEF Steady
      <3> QED BY <2>1, <2>2, <3>1, MovedCounts
    <2>8. ASSUME NEW l \in Callers
          PROVE  Phased(l)' \/ (call'[l] = call[l] /\ call[l].cluster # c)
      <3>1. CASE l = k
        BY <2>1, <2>5, <3>1 DEF Phased
      <3>2. CASE l # k /\ call[l].cluster = c
        <4>1. call[l].pc \notin ResetPC
          BY <2>1, <3>2 DEF Struct, Apart
        <4> QED BY <2>1, <2>5, <3>2, <4>1 DEF Phased, ResetPC
      <3> QED BY <2>1, <3>1, <3>2
    <2> HIDE DEF Steady
    <2> QED BY <2>5, <2>7, <2>8, ChangedPhases DEF ClusterInv
  <1> QED BY <1>2, <1>3, <1>4, <1>5, <1>6, <1>7, <1>8 DEF ApplyStep

\* The update with which a Reset leaves its cluster takes one machine off one counter,
\* which is not zero.
LEMMA DiscountCluster ==
    ASSUME Steady, NEW k \in Callers, ResetDiscount(k)
    PROVE  ClusterInv'
  <1> USE DEF Steady, At, ResetPC
  <1> call \in [Callers -> Call] /\ aborts \in Nat
    BY CounterAssumption DEF TypeInv, TypeOK
  <1>0. call[k].pc = "discount"
    BY DEF ResetDiscount
  <1> PICK c \in Clusters : c = call[k].cluster
    BY <1>0 DEF Struct, Grounded
  <1> PICK role \in Roles : role = call[k].kind
    BY <1>0 DEF Struct, Agrees, Removing
  <1> DEFINE status == Discounted(cluster[c], role, call[k].flag)
             next == IF IsEmpty(status) THEN "dispose" ELSE "unlabel"
  <1>1. /\ \A l \in Callers \ {k} : call'[l] = call[l]
        /\ call'[k].pc = next /\ call'[k].cluster = c /\ call'[k].machine = call[k].machine
        /\ UNCHANGED <<config, label, aborts>>
    BY GotoEffect DEF ResetDiscount
  <1>2. ASSUME NEW d \in Clusters, NEW r \in Roles
        PROVE  /\ Cardinality(Members(d, r)') =
                     Cardinality(Members(d, r)) + (IF d = c /\ r = role THEN -1 ELSE 0)
               /\ Cardinality(Members(c, role)) \in Nat
               /\ Cardinality(Members(c, role)) >= 1
    <2>1. Members(d, r) \in SUBSET Machines /\ Members(c, role) \in SUBSET Machines
      BY DEF Members
    <2>2. /\ call[k].machine \in Members(c, role)
          /\ Members(c, role)' = Members(c, role) \ {call[k].machine}
          /\ ~(d = c /\ r = role) => Members(d, r)' = Members(d, r)
      BY <1>0, <1>1, LeaveMembers DEF Removing
    <2>3. /\ Cardinality(Members(c, role)') = Cardinality(Members(c, role)) - 1
          /\ Cardinality(Members(c, role)) \in Nat
          /\ Cardinality(Members(c, role)) >= 1
          /\ Cardinality(Members(d, r)) \in Nat
      BY <2>1, <2>2, MembersCard
    <2>4. CASE d = c /\ r = role
      BY <2>3, <2>4
    <2>5. CASE ~(d = c /\ r = role)
      <3>1. Cardinality(Members(d, r)') = Cardinality(Members(d, r))
        BY <2>2, <2>5
      <3> QED BY <2>3, <2>5, <3>1
    <2> QED BY <2>4, <2>5
  <1>3. \A d \in Clusters : cluster[d].controlPlanes \in Nat /\ cluster[d].workers \in Nat
    BY CounterAssumption DEF TypeInv, TypeOK, ClusterStatus, Counter
  <1>4. role = "controlplane" => cluster[c].controlPlanes >= 1
    BY <1>2, <1>3 DEF ClusterInv, CountsCover
  <1>5. role = "worker" => cluster[c].workers >= 1
    BY <1>2, <1>3 DEF ClusterInv, CountsCover
  <1>6. /\ status.phase = cluster[c].phase
        /\ role = "controlplane" => /\ status.controlPlanes = cluster[c].controlPlanes - 1
                                    /\ status.workers = cluster[c].workers
        /\ role = "worker" => /\ status.controlPlanes = cluster[c].controlPlanes
                              /\ status.workers = cluster[c].workers - 1
    <2>1. cluster[c] \in ClusterStatus
      BY DEF TypeInv, TypeOK
    <2>2. CASE role = "controlplane"
      <3>1. Dec(cluster[c].controlPlanes) = cluster[c].controlPlanes - 1
        BY <1>3, <1>4, <2>2 DEF Dec
      <3> QED BY <2>1, <2>2, <3>1 DEF Discounted, ClusterStatus
    <2>3. CASE role = "worker"
      <3>1. Dec(cluster[c].workers) = cluster[c].workers - 1
        BY <1>3, <1>5, <2>3 DEF Dec
      <3> QED BY <2>1, <2>3, <3>1 DEF Discounted, ClusterStatus
    <2> QED BY <2>2, <2>3 DEF Roles
  <1>7. /\ cluster' = [cluster EXCEPT ![c] = status]
        /\ cluster[c].phase = "running"
    BY DEF ResetDiscount, Updatable
  <1> HIDE DEF status
  <1>8. /\ \A d \in Clusters \ {c} : cluster'[d] = cluster[d]
        /\ cluster'[c] = status
    BY <1>7 DEF TypeInv, TypeOK
  <1>9. CountsCover'
    <2>1. \A d \in Clusters :
             /\ cluster'[d].controlPlanes = cluster[d].controlPlanes
                   + (IF d = c /\ role = "controlplane" THEN -1 ELSE 0)
             /\ cluster'[d].workers = cluster[d].workers
                   + (IF d = c /\ role = "worker" THEN -1 ELSE 0)
      BY <1>3, <1>6, <1>8 DEF Roles
    <2> HIDE DEF Steady
    <2> QED BY <1>1, <1>2, <2>1, MovedCounts
  <1>10. ASSUME NEW l \in Callers
         PROVE  Phased(l)' \/ (call'[l] = call[l] /\ call[l].cluster # c)
    <2>1. CASE l = k
      BY <1>1, <1>8, <2>1 DEF Phased, ApplyPC, IsEmpty
    <2>2. CASE l # k /\ call[l].cluster = c
      <3>1. call[l].pc \notin ApplyPC
        BY <1>0, <2>2 DEF Struct, Apart
      <3>2. call[l].pc # "dispose"
        BY <1>4, <1>5, <2>2 DEF ClusterInv, Phased, IsEmpty, Roles
      <3> QED BY <1>1, <2>2, <3>1, <3>2 DEF Phased, ApplyPC
    <2> QED BY <1>1, <2>1, <2>2
  <1> HIDE DEF Steady
  <1> QED BY <1>6, <1>7, <1>8, <1>9, <1>10, ChangedPhases DEF ClusterInv

\* The other steps of a Reset: the cluster it tears down is still empty and nobody is
\* joining it.
LEMMA ResetCluster ==
    ASSUME Steady, NEW k \in Callers, ResetStep(k)
    PROVE  ClusterInv'
  <1> USE DEF Steady, At, ResetPC
  <1> call \in [Callers -> Call] /\ aborts \in Nat
    BY CounterAssumption DEF TypeInv, TypeOK
  <1>1. CASE ResetTeardown(k)
    <2>1. config[call[k].machine].kind \in Roles /\ call[k].machine \in Machines
      BY <1>1 DEF ResetTeardown, Struct, Agrees, SameAs, Grounded
    <2>2. /\ \A l \in Callers \ {k} : call'[l] = call[l]
          /\ call[k].pc = "teardown" /\ call'[k].pc = "destroy"
          /\ UNCHANGED <<cluster, label, aborts>>
      BY <1>1, <2>1, GotoEffect DEF ResetTeardown, Roles
    <2>3. \A m \in Machines : /\ config'[m].kind = config[m].kind
                              /\ config'[m].cluster = config[m].cluster
      BY <1>1, <2>1 DEF ResetTeardown, Roles, TypeInv, TypeOK, Config
    <2>4. Phased(k)'
      BY <2>2 DEF Phased, ApplyPC
    <2>5. \A c \in Clusters, r \in Roles : Members(c, r)' = Members(c, r)
      BY <2>2, <2>3, SameMembers DEF Adding, Removing
    <2> QED BY <2>2, <2>4, <2>5, QuietCluster
  <1>2. CASE ResetDestroy(k)
    <2>1. /\ \A l \in Callers \ {k} : call'[l] = call[l]
          /\ call'[k].pc = "look" /\ UNCHANGED <<cluster, label, aborts>>
      BY <1>2, DestroyStruct, GotoEffect DEF ResetDestroy
    <2>2. Phased(k)'
      BY <2>1 DEF Phased, ApplyPC
    <2> QED BY <1>2, <2>1, <2>2, DestroyMembers, QuietCluster
  <1>3. CASE ResetLook(k)
    <2>1. /\ \A l \in Callers \ {k} : call'[l] = call[l]
          /\ call[k].pc = "look" /\ call'[k].pc = "discount"
          /\ call'[k].machine = call[k].machine /\ call'[k].cluster = call[k].cluster
          /\ call'[k].kind = call[k].kind
          /\ UNCHANGED <<config, cluster, label, aborts>>
      BY <1>3, LookEffect DEF ResetLook
    <2>2. Phased(k)'
      BY <2>1 DEF Phased, ApplyPC
    <2>3. \A c \in Clusters, r \in Roles : Members(c, r)' = Members(c, r)
      BY <2>1, SameMembers DEF Adding, Removing
    <2> QED BY <2>1, <2>2, <2>3, QuietCluster
  <1>4. CASE ResetDiscount(k)
    BY <1>4, DiscountCluster
  <1>5. CASE ResetDispose(k)
    <2> PICK c \in Clusters : c = call[k].cluster
      BY <1>5 DEF ResetDispose, Struct, Grounded
    <2>1. /\ \A l \in Callers \ {k} : call'[l] = call[l]
          /\ call[k].pc = "dispose" /\ call'[k].pc = "unlabel"
          /\ UNCHANGED <<config, label, aborts>>
      BY <1>5, GotoEffect DEF ResetDispose
    <2>2. IsEmpty(cluster[c])
      BY <2>1 DEF ClusterInv, Phased
    <2>3. cluster' = [cluster EXCEPT ![c].phase = "tearingDown"]
      BY <1>5 DEF ResetDispose
    <2>4. /\ \A d \in Clusters \ {c} : cluster'[d] = cluster[d]
          /\ cluster'[c].controlPlanes = cluster[c].controlPlanes
          /\ cluster'[c].workers = cluster[c].workers
      BY <2>3 DEF TypeInv, TypeOK, ClusterStatus
    <2>5. IsEmpty(cluster'[c])
      BY <2>2, <2>4 DEF IsEmpty
    <2>6. ASSUME NEW l \in Callers
          PROVE  Phased(l)' \/ (call'[l] = call[l] /\ call[l].cluster # c)
      <3>1. CASE l = k
        BY <2>1, <3>1 DEF Phased, ApplyPC
      <3>2. CASE l # k /\ call[l].cluster = c
        <4>1. call[l].pc \notin ApplyPC
          BY <2>1, <3>2 DEF Struct, Apart
        <4> QED BY <2>1, <2>5, <3>2, <4>1 DEF Phased, ApplyPC, IsEmpty
      <3> QED BY <2>1, <3>1, <3>2
    <2>7. \A d \in Clusters, r \in Roles : Members(d, r)' = Members(d, r)
      BY <2>1, SameMembers DEF Adding, Removing
    <2>8. CountsCover'
      BY <2>1, <2>4, <2>7, KeptCounts DEF ClusterInv
    <2> HIDE DEF Steady
    <2> QED BY <2>4, <2>5, <2>6, <2>8, ChangedPhases DEF ClusterInv
  <1>6. CASE ResetUnlabel(k)
    BY <1>6, ReturnCluster DEF ResetUnlabel, Adding, Removing
  <1> QED BY <1>1, <1>2, <1>3, <1>4, <1>5, <1>6 DEF ResetStep

\* A call that is cut short, or finds its cluster gone: a joining call always finds it,
\* and so does a Reset, whose machine still counts.
LEMMA StoppedCluster ==
    ASSUME Steady, Serialised, NEW k \in Callers, ClusterGone(k) \/ Abort(k)
    PROVE  ClusterInv'
  <1> USE DEF Steady
  <1> call \in [Callers -> Call] /\ aborts \in Nat
    BY CounterAssumption DEF TypeInv, TypeOK
  <1>1. CASE ClusterGone(k)
    <2>1. call[k].pc # "count"
      BY <1>1 DEF ClusterGone, WorksIn, ClusterInv, Phased
    <2>2. call[k].pc \notin Removing
      <3> SUFFICES ASSUME call[k].pc \in Removing PROVE FALSE
        OBVIOUS
      <3>1. /\ call[k].machine \in Machines /\ call[k].cluster \in Clusters
            /\ call[k].kind \in Roles
        BY DEF Struct, Grounded, Agrees, Removing
      <3>2. call[k].machine \in Members(call[k].cluster, call[k].kind)
        BY <3>1, CountedIff DEF Members
      <3>3. cluster[call[k].cluster].phase = "running"
        BY <3>1, <3>2, OnlyRunningCounts
      <3> QED BY <1>1, <3>3 DEF ClusterGone, WorksIn, Removing
    <2>3. call[k].pc \notin Adding \union Removing
      BY <1>1, <2>1, <2>2 DEF ClusterGone, WorksIn, Adding
    <2>4. UNCHANGED <<config, cluster>> /\ aborts' = aborts /\ Return(k)
      BY <1>1 DEF ClusterGone
    <2> QED BY <2>3, <2>4, ReturnCluster
  <1>2. CASE Abort(k)
    <2>1. call[k].pc \notin ApplyPC
      BY <1>2 DEF Abort, Serialised, CallKind, ApplyPC, ResetPC, BootstrapPC
    <2>2. UNCHANGED <<config, cluster>> /\ aborts' = aborts + 1 /\ Return(k)
      BY <1>2 DEF Abort
    <2>3. CASE call[k].pc \in Removing
      BY <2>2, <2>3, LostReset
    <2>4. CASE call[k].pc \notin Removing
      BY <2>1, <2>2, <2>4, ReturnCluster DEF ApplyPC, Adding
    <2> QED BY <2>3, <2>4
  <1> QED BY <1>1, <1>2

\* Bootstrap sets a flag that the counters and phases do not look at.
LEMMA BootstrapCluster ==
    ASSUME Steady, NEW k \in Callers, BootstrapStep(k)
    PROVE  ClusterInv'
  <1> USE DEF Steady, At
  <1> call \in [Callers -> Call] /\ aborts \in Nat
    BY CounterAssumption DEF TypeInv, TypeOK
  <1>1. CASE BootstrapCheck(k)
    <2>1. CASE Return(k)
      BY <1>1, <2>1, ReturnCluster DEF BootstrapCheck, Adding, Removing
    <2>2. CASE Goto(k, "bootstrap")
      <3>1. /\ \A l \in Callers \ {k} : call'[l] = call[l]
            /\ call[k].pc = "check" /\ call'[k].pc = "bootstrap"
            /\ UNCHANGED <<config, cluster, label, aborts>>
        BY <1>1, <2>2, GotoEffect DEF BootstrapCheck, BootstrapPC
      <3>2. Phased(k)'
        BY <3>1 DEF Phased, ApplyPC
      <3>3. \A c \in Clusters, r \in Roles : Members(c, r)' = Members(c, r)
        BY <3>1, SameMembers DEF Adding, Removing
      <3> QED BY <3>1, <3>2, <3>3, QuietCluster
    <2> QED BY <1>1, <2>1, <2>2 DEF BootstrapCheck
  <1>2. CASE BootstrapSet(k)
    <2> PICK c \in Clusters : c = call[k].cluster
      BY <1>2 DEF BootstrapSet, Struct, Grounded
    <2>1. /\ \A l \in Callers \ {k} : call'[l] = call[l]
          /\ call[k].pc = "bootstrap" /\ call'[k].pc = "idle"
          /\ UNCHANGED <<config, label, aborts>>
      BY <1>2, ReturnEffect DEF BootstrapSet, Idle
    <2>2. /\ \A d \in Clusters : /\ cluster'[d].controlPlanes = cluster[d].controlPlanes
                                 /\ cluster'[d].workers = cluster[d].workers
                                 /\ cluster'[d].phase = cluster[d].phase
      BY <1>2 DEF BootstrapSet, TypeInv, TypeOK, ClusterStatus
    <2>3. \A d \in Clusters \ {c} : cluster'[d] = cluster[d]
      BY <1>2 DEF BootstrapSet, TypeInv, TypeOK
    <2>4. cluster'[c].phase = "running"
      BY <1>2, <2>2 DEF BootstrapSet, Updatable
    <2>5. ASSUME NEW l \in Callers
          PROVE  Phased(l)' \/ (call'[l] = call[l] /\ call[l].cluster # c)
      <3>1. CASE l = k
        BY <2>1, <3>1 DEF Phased, ApplyPC
      <3>2. CASE l # k /\ call[l].cluster = c
        BY <2>1, <2>2, <3>2 DEF ClusterInv, Phased, IsEmpty
      <3> QED BY <2>1, <3>1, <3>2
    <2>6. \A d \in Clusters, r \in Roles : Members(d, r)' = Members(d, r)
      BY <2>1, SameMembers DEF Adding, Removing
    <2>7. CountsCover'
      BY <2>1, <2>2, <2>6, KeptCounts DEF ClusterInv
    <2> HIDE DEF Steady
    <2> QED BY <2>3, <2>4, <2>5, <2>7, ChangedPhases DEF ClusterInv
  <1> QED BY <1>1, <1>2 DEF BootstrapStep

\* A finalizer that comes or goes, and the cleanup of an empty cluster.
LEMMA ControllerCluster ==
    ASSUME Steady,
           \/ \E m \in Machines : HoldConfig(m) \/ ReleaseConfig(m)
           \/ \E c \in Clusters : Cleanup(c)
    PROVE  ClusterInv'
  <1> USE DEF Steady
  <1>1. ASSUME NEW m \in Machines, HoldConfig(m) \/ ReleaseConfig(m) PROVE ClusterInv'
    <2>1. /\ UNCHANGED <<cluster, call, aborts>>
          /\ \A n \in Machines : /\ config'[n].kind = config[n].kind
                                 /\ config'[n].cluster = config[n].cluster
      BY <1>1 DEF HoldConfig, ReleaseConfig, TypeInv, TypeOK, Config
    <2>2. \A c \in Clusters, r \in Roles : Members(c, r)' = Members(c, r)
      BY <2>1, SameMembers
    <2>3. CountsCover'
      BY <2>1, <2>2, KeptCounts DEF ClusterInv
    <2>4. (\A l \in Callers : Phased(l)') /\ Hollow'
      BY <2>1 DEF ClusterInv, Phased, Hollow
    <2> QED BY <2>3, <2>4 DEF ClusterInv
  <1>2. ASSUME NEW c \in Clusters, Cleanup(c) PROVE ClusterInv'
    <2>1. /\ UNCHANGED <<config, call, aborts>> /\ cluster[c].phase = "tearingDown"
          /\ \A d \in Clusters \ {c} : cluster'[d] = cluster[d]
          /\ cluster'[c] = NoStatus
      BY <1>2 DEF Cleanup, TypeInv, TypeOK
    <2>2. IsEmpty(cluster[c]) /\ IsEmpty(cluster'[c])
      BY <2>1 DEF ClusterInv, Hollow, IsEmpty, NoStatus
    <2>3. \A d \in Clusters, r \in Roles : Members(d, r)' = Members(d, r)
      BY <2>1, SameMembers
    <2>4. CountsCover'
      <3>1. \A d \in Clusters : /\ cluster'[d].controlPlanes = cluster[d].controlPlanes
                                /\ cluster'[d].workers = cluster[d].workers
        BY <2>1, <2>2 DEF IsEmpty
      <3> QED BY <2>1, <2>3, <3>1, KeptCounts DEF ClusterInv
    <2>5. ASSUME NEW l \in Callers
          PROVE  Phased(l)' \/ (call'[l] = call[l] /\ call[l].cluster # c)
      <3>1. CASE call[l].cluster = c
        BY <2>1, <2>2, <3>1 DEF ClusterInv, Phased, ApplyPC, IsEmpty
      <3> QED BY <2>1, <3>1
    <2> HIDE DEF Steady
    <2> QED BY <2>1, <2>2, <2>4, <2>5, ChangedPhases DEF ClusterInv
  <1> QED BY <1>1, <1>2

-----------------------------------------------------------------------------
(* The inductive invariant *)

\* Before anything happened there are no configs, no clusters and no calls.
LEMMA InitInv == Init => IInv
  <1> SUFFICES ASSUME Init PROVE IInv
    OBVIOUS
  <1>1. TypeInv
    BY InitType
  <1>2. Struct
    BY DEF Init, Struct, Grounded, Alone, Agrees, Apart, NoConfig, Idle, ApplyPC, ResetPC,
           Adding, Removing
  <1>3. (\A k \in Callers : Phased(k)) /\ Hollow
    BY DEF Init, Phased, Hollow, Idle, NoStatus, IsEmpty, ApplyPC
  <1>4. \A c \in Clusters, r \in Roles : Members(c, r) = {}
    BY DEF Init, Members, Counted, NoConfig, Idle, Roles
  <1>5. Cardinality({}) = 0
    BY FS_EmptySet
  <1>6. CountsCover
    <2>1. \A c \in Clusters : /\ Cardinality(Members(c, "controlplane")) = 0
                             /\ Cardinality(Members(c, "worker")) = 0
      BY <1>4, <1>5 DEF Roles
    <2>2. aborts = 0 /\ \A c \in Clusters :
                           cluster[c].controlPlanes = 0 /\ cluster[c].workers = 0
      BY DEF Init, NoStatus
    <2> QED BY <2>1, <2>2 DEF CountsCover
  <1> QED BY <1>1, <1>2, <1>3, <1>6 DEF IInv

\* Every step keeps the structure of calls and configs.
LEMMA NextStruct ==
    ASSUME Serialised, TypeInv, Struct, AcctNext
    PROVE  Struct'
  <1>1. ASSUME NEW m \in Machines, HoldConfig(m) \/ ReleaseConfig(m) PROVE Struct'
    <2>1. /\ UNCHANGED call
          /\ \A n \in Machines : /\ config'[n].kind = config[n].kind
                                 /\ config'[n].cluster = config[n].cluster
      BY <1>1 DEF HoldConfig, ReleaseConfig, TypeInv, TypeOK, Config
    <2> QED BY <2>1, HeldStruct
  <1>2. ASSUME NEW c \in Clusters, Cleanup(c) PROVE Struct'
    BY <1>2, HeldStruct DEF Cleanup
  <1> QED BY <1>1, <1>2, StartStruct, HandlerStruct DEF AcctNext

\* Every step keeps the invariant.
LEMMA NextInv ==
    ASSUME Serialised, IInv, [AcctNext]_acctVars
    PROVE  IInv'
  <1>1. CASE AcctNext
    <2>1. Steady
      <3>1. TypeInv' /\ Struct'
        BY <1>1, NextType, NextStruct DEF IInv
      <3> QED BY <3>1 DEF IInv, Steady, ClusterInv
    <2>2. ClusterInv'
      BY <1>1, <2>1, StartCluster, ApplyCluster, ResetCluster, BootstrapCluster,
         StoppedCluster, ControllerCluster DEF AcctNext, HandlerStep
    <2> QED BY <2>1, <2>2 DEF IInv, Steady, ClusterInv
  <1>2. CASE UNCHANGED acctVars
    <2>1. TypeInv'
      BY <1>2, NextType DEF IInv
    <2>2. Struct'
      BY <1>2, HeldStruct DEF IInv, acctVars
    <2>3. \A c \in Clusters, r \in Roles : Members(c, r)' = Members(c, r)
      BY <1>2, SameMembers DEF acctVars
    <2>4. CountsCover'
      BY <1>2, <2>3, KeptCounts DEF IInv, acctVars
    <2>5. (\A k \in Callers : Phased(k)') /\ Hollow'
      BY <1>2 DEF IInv, Phased, Hollow, acctVars
    <2> QED BY <2>1, <2>2, <2>4, <2>5 DEF IInv
  <1> QED BY <1>1, <1>2

\* The strengthened invariant holds throughout, when clients serialise the calls of a
\* machine and of a cluster and no join is cut short.
LEMMA InvHolds == Serialised /\ AcctInitNext => []IInv
  <1> SUFFICES ASSUME Serialised PROVE AcctInitNext => []IInv
    OBVIOUS
  <1>1. IInv /\ [AcctNext]_acctVars => IInv'
    BY NextInv
  <1> QED BY InitInv, <1>1, PTL DEF AcctInitNext

\* The counters of every ClusterStatus are the numbers of its control planes and
\* workers, up to the resets that were cut short, for any number of machines, clusters
\* and concurrent handlers: no interleaving of Create, conflict-retrying updates and
\* Teardown loses an update or wraps a counter.
THEOREM CountsCorrect == Serialised /\ AcctInitNext => []CountsCover
  <1>1. IInv => CountsCover
    BY DEF IInv
  <1> QED BY InvHolds, <1>1, PTL

\* A cluster is torn down or destroyed only when nobody counts towards it any more.
THEOREM ClusterOutlivesMembers == Serialised /\ AcctInitNext => []MembersKeepCluster
  <1>1. IInv => MembersKeepCluster
    <2> SUFFICES ASSUME IInv, NEW c \in Clusters, NEW r \in Roles, NEW m \in Machines,
                        Counted(m, c, r)
                 PROVE  cluster[c].phase = "running"
      BY DEF MembersKeepCluster
    <2> QED BY OnlyRunningCounts DEF IInv, ClusterInv, Members
  <1> QED BY InvHolds, <1>1, PTL

\* The counters of a cluster that is being torn down are still zero.
THEOREM TornDownIsEmpty == Serialised /\ AcctInitNext => []OnlyEmptyTornDown
  <1>1. IInv => OnlyEmptyTornDown
    BY DEF IInv, Hollow, OnlyEmptyTornDown
  <1> QED BY InvHolds, <1>1, PTL

-----------------------------------------------------------------------------
(* The bootstrapped flag *)

\* A Reset that has read its cluster and goes on to update it has seen the control plane
\* that it takes out itself.
SawItself ==
    \A k \in Callers : call[k].pc = "discount" /\ call[k].kind = "controlplane" => ~call[k].flag

\* A cluster that does not exist is not bootstrapped.
AbsentIsDown ==
    \A c \in Clusters : cluster[c].phase = "absent" => ~cluster[c].bootstrapped

FlagInv == SawItself /\ AbsentIsDown

\* The steps of a call after which it is not about to update the cluster it leaves.
LEMMA SawItselfMoves ==
    ASSUME SawItself, NEW k \in Callers, \A l \in Callers \ {k} : call'[l] = call[l],
           call'[k].pc # "discount"
    PROVE  SawItself'
  BY DEF SawItself

\* The machine that a Reset is about to take out still counts when its cluster is read.
LEMMA LookSees ==
    ASSUME IInv, NEW k \in Callers, ResetLook(k), call[k].kind = "controlplane"
    PROVE  ~call'[k].flag
  <1> DEFINE c == call[k].cluster
             sawNone == (cluster[c].controlPlanes = 0)
  <1>1. /\ call[k].pc = "look" /\ call[k].machine \in Machines /\ c \in Clusters
        /\ call[k] \in Call
    BY DEF ResetLook, At, IInv, Struct, Grounded, TypeInv, TypeOK
  <1>2. Counted(call[k].machine, c, "controlplane")
    BY <1>1, CountedIff DEF IInv, Removing, Roles
  <1>3. Members(c, "controlplane") # {} /\ Members(c, "controlplane") \in SUBSET Machines
    BY <1>1, <1>2 DEF Members
  <1>4. cluster[c].controlPlanes # 0
    <2>1. Cardinality(Members(c, "controlplane")) >= 1
      BY <1>3, MembersCard
    <2>2. Cardinality(Members(c, "controlplane")) \in Nat /\ aborts \in Nat
      BY <1>3, MembersCard, CounterAssumption DEF IInv, TypeInv, TypeOK
    <2>3. cluster[c].controlPlanes \in Cardinality(Members(c, "controlplane")) ..
                                       Cardinality(Members(c, "controlplane")) + aborts
      BY <1>1 DEF IInv, CountsCover
    <2> QED BY <2>1, <2>2, <2>3
  <1>5. call' = [call EXCEPT ![k] = [call[k] EXCEPT !.pc = "discount", !.flag = sawNone]]
    BY DEF ResetLook
  <1>6. call'[k] = [call[k] EXCEPT !.pc = "discount", !.flag = sawNone]
    BY <1>5 DEF IInv, TypeInv, TypeOK
  <1>7. call'[k].flag = sawNone
    <2> HIDE DEF sawNone
    <2> QED BY <1>1, <1>6 DEF Call
  <1> QED BY <1>4, <1>7

\* Every step keeps what the flag means.
LEMMA FlagStep ==
    ASSUME IInv, FlagInv, [AcctNext]_acctVars
    PROVE  FlagInv'
  <1> USE DEF FlagInv, At
  <1> call \in [Callers -> Call] /\ cluster \in [Clusters -> ClusterStatus]
    BY DEF IInv, TypeInv, TypeOK
  <1>1. ASSUME NEW k \in Callers, NEW m \in Machines,
               \/ \E c \in Clusters, kind \in Kinds : ApplyStart(k, m, c, kind)
               \/ ResetStart(k, m) \/ BootstrapStart(k, m)
        PROVE  FlagInv'
    <2>1. /\ UNCHANGED cluster /\ \A l \in Callers \ {k} : call'[l] = call[l]
          /\ call'[k].pc \in {"save", "teardown", "check"}
      BY <1>1 DEF ApplyStart, ResetStart, BootstrapStart
    <2> QED BY <2>1, SawItselfMoves DEF AbsentIsDown
  <1>2. ASSUME NEW k \in Callers, Return(k)
        PROVE  SawItself'
    <2>1. call'[k].pc # "discount" /\ \A l \in Callers \ {k} : call'[l] = call[l]
      BY <1>2, ReturnEffect DEF Idle
    <2> QED BY <2>1, SawItselfMoves
  <1>3. ASSUME NEW k \in Callers, NEW pc \in ApplyPC \union ResetPC \union BootstrapPC,
               pc # "discount", Goto(k, pc)
        PROVE  SawItself'
    <2>1. call'[k].pc # "discount" /\ \A l \in Callers \ {k} : call'[l] = call[l]
      BY <1>3, GotoEffect
    <2> QED BY <2>1, SawItselfMoves
  <1>4. ASSUME NEW k \in Callers, ApplyStep(k) PROVE SawItself'
    <2> USE DEF ApplyPC, ResetPC, BootstrapPC
    <2>1. CASE ApplySave(k) \/ ApplyUpdate(k) \/ ApplyUpdateFails(k)
      BY <1>2, <1>3, <2>1 DEF ApplySave, ApplyUpdate, ApplyUpdateFails, AfterSave
    <2>2. CASE ApplyFindCluster(k) \/ ApplyCreateCluster(k) \/ ApplyCount(k) \/ ApplyLabel(k)
      BY <1>2, <1>3, <2>2 DEF ApplyFindCluster, ApplyCreateCluster, ApplyCount, ApplyLabel
    <2> QED BY <1>4, <2>1, <2>2 DEF ApplyStep
  <1>5. ASSUME NEW k \in Callers, ApplyStep(k) PROVE AbsentIsDown'
    <2>1. CASE ApplySave(k) \/ ApplyUpdate(k) \/ ApplyUpdateFails(k) \/ ApplyFindCluster(k)
               \/ ApplyLabel(k)
      BY <2>1 DEF ApplySave, ApplyUpdate, ApplyUpdateFails, ApplyFindCluster, ApplyLabel,
         AbsentIsDown
    <2>2. CASE ApplyCreateCluster(k)
      BY <2>2 DEF ApplyCreateCluster, AbsentIsDown, NoStatus
    <2>3. CASE ApplyCount(k)
      BY <2>3 DEF ApplyCount, Updatable, AbsentIsDown, ClusterStatus
    <2> QED BY <1>5, <2>1, <2>2, <2>3 DEF ApplyStep
  <1>6. ASSUME NEW k \in Callers, ResetStep(k) PROVE SawItself'
    <2> USE DEF ApplyPC, ResetPC, BootstrapPC
    <2>1. CASE ResetTeardown(k) \/ ResetDestroy(k) \/ ResetDispose(k) \/ ResetUnlabel(k)
      BY <1>2, <1>3, <2>1 DEF ResetTeardown, ResetDestroy, ResetDispose, ResetUnlabel
    <2>2. CASE ResetLook(k)
      BY <2>2, LookSees, LookEffect DEF SawItself
    <2>3. CASE ResetDiscount(k)
      BY <1>3, <2>3 DEF ResetDiscount
    <2> QED BY <1>6, <2>1, <2>2, <2>3 DEF ResetStep
  <1>7. ASSUME NEW k \in Callers, ResetStep(k) PROVE AbsentIsDown'
    <2>1. CASE ResetTeardown(k) \/ ResetDestroy(k) \/ ResetLook(k) \/ ResetUnlabel(k)
      BY <2>1 DEF ResetTeardown, ResetDestroy, ResetLook, ResetUnlabel, AbsentIsDown
    <2>2. CASE ResetDiscount(k)
      BY <2>2 DEF ResetDiscount, Discounted, Updatable, AbsentIsDown, ClusterStatus
    <2>3. CASE ResetDispose(k)
      BY <2>3 DEF ResetDispose, AbsentIsDown, ClusterStatus
    <2> QED BY <1>7, <2>1, <2>2, <2>3 DEF ResetStep
  <1>8. ASSUME NEW k \in Callers, BootstrapStep(k) PROVE FlagInv'
    <2>1. SawItself'
      BY <1>2, <1>3, <1>8 DEF BootstrapStep, BootstrapCheck, BootstrapSet, BootstrapPC
    <2>2. AbsentIsDown'
      BY <1>8 DEF BootstrapStep, BootstrapCheck, BootstrapSet, Updatable, AbsentIsDown, ClusterStatus
    <2> QED BY <2>1, <2>2
  <1>9. ASSUME NEW k \in Callers, ClusterGone(k) \/ Abort(k) PROVE FlagInv'
    BY <1>2, <1>9 DEF ClusterGone, Abort, AbsentIsDown
  <1>10. ASSUME NEW m \in Machines, HoldConfig(m) \/ ReleaseConfig(m) PROVE FlagInv'
    BY <1>10 DEF HoldConfig, ReleaseConfig, SawItself, AbsentIsDown
  <1>11. ASSUME NEW c \in Clusters, Cleanup(c) PROVE FlagInv'
    BY <1>11 DEF Cleanup, SawItself, AbsentIsDown, NoStatus
  <1>12. CASE AcctNext
    BY <1>1, <1>4, <1>5, <1>6, <1>7, <1>8, <1>9, <1>10, <1>11, <1>12 DEF AcctNext, HandlerStep
  <1>13. CASE UNCHANGED acctVars
    BY <1>13 DEF acctVars, SawItself, AbsentIsDown
  <1> QED BY <1>12, <1>13

\* Both invariants hold throughout.
LEMMA FlagHolds == Serialised /\ AcctInitNext => [](IInv /\ FlagInv)
  <1>1. Init => FlagInv
    BY DEF Init, FlagInv, SawItself, AbsentIsDown, Idle, NoStatus
  <1>2. IInv /\ FlagInv /\ [AcctNext]_acctVars => FlagInv'
    BY FlagStep
  <1> QED BY <1>1, <1>2, InvHolds, PTL DEF AcctInitNext

\* What a step does to the flag of a cluster.
LEMMA FlagKept ==
    ASSUME IInv, FlagInv, [AcctNext]_acctVars, NEW c \in Clusters, cluster[c].bootstrapped
    PROVE  cluster'[c].bootstrapped \/ cluster'[c].phase = "absent"
  <1> USE DEF FlagInv
  <1> call \in [Callers -> Call] /\ cluster \in [Clusters -> ClusterStatus]
    BY DEF IInv, TypeInv, TypeOK
  <1>1. ASSUME NEW k \in Callers, ApplyStep(k) PROVE cluster'[c].bootstrapped
    <2>1. CASE ApplyCreateCluster(k)
      BY <2>1 DEF ApplyCreateCluster, AbsentIsDown
    <2>2. CASE ApplyCount(k)
      BY <2>2 DEF ApplyCount, ClusterStatus
    <2> QED BY <1>1, <2>1, <2>2
        DEF ApplyStep, ApplySave, ApplyUpdate, ApplyUpdateFails, ApplyFindCluster, ApplyLabel
  <1>2. ASSUME NEW k \in Callers, ResetStep(k) PROVE cluster'[c].bootstrapped
    <2>1. CASE ResetDiscount(k)
      <3>1. call[k].pc = "discount" /\ call[k].kind = "controlplane" => ~call[k].flag
        BY DEF SawItself
      <3>2. call[k].pc = "discount"
        BY <2>1 DEF ResetDiscount, At
      <3>3. call[k].flag \in BOOLEAN
        BY DEF Call
      <3> QED BY <2>1, <3>1, <3>2, <3>3 DEF ResetDiscount, Discounted, ClusterStatus
    <2>2. CASE ResetDispose(k)
      BY <2>2 DEF ResetDispose, ClusterStatus
    <2> QED BY <1>2, <2>1, <2>2 DEF ResetStep, ResetTeardown, ResetDestroy, ResetLook, ResetUnlabel
  <1>3. ASSUME NEW k \in Callers, BootstrapStep(k) PROVE cluster'[c].bootstrapped
    BY <1>3 DEF BootstrapStep, BootstrapCheck, BootstrapSet, ClusterStatus
  <1>4. ASSUME NEW d \in Clusters, Cleanup(d)
        PROVE  cluster'[c].bootstrapped \/ cluster'[c].phase = "absent"
    BY <1>4 DEF Cleanup, NoStatus
  <1> QED BY <1>1, <1>2, <1>3, <1>4 DEF AcctNext, HandlerStep, acctVars,
          ApplyStart, ResetStart, BootstrapStart, ClusterGone, Abort, HoldConfig, ReleaseConfig

\* A cluster that was bootstrapped stays so until its ClusterStatus is destroyed, whoever
\* leaves it: the branch of Reset that clears the flag is never taken.
THEOREM StaysBootstrapped == Serialised /\ AcctInitNext => BootstrappedForLife
  <1> DEFINE Kept == \A c \in Clusters : cluster[c].bootstrapped =>
                         cluster'[c].bootstrapped \/ cluster'[c].phase = "absent"
  <1>1. IInv /\ FlagInv /\ [AcctNext]_acctVars => [Kept]_cluster
    BY FlagKept
  <1> HIDE DEF Kept
  <1>2. Serialised /\ AcctInitNext => [][Kept]_cluster
    BY <1>1, FlagHolds, PTL DEF AcctInitNext
  <1> QED BY <1>2 DEF BootstrappedForLife, Kept

-----------------------------------------------------------------------------
(* The place of a machine *)

Moving == {"find", "create", "count", "label", "look", "discount", "dispose", "unlabel"}

StageAt == [pc \in Moving |->
    CASE pc \in {"find", "create", "count"} -> "joined" [] pc = "label" -> "counted"
      [] pc \in {"look", "discount"} -> "leaving" [] OTHER -> "left"]

Settled(m) == \A k \in Callers : call[k].machine = m => call[k].pc \notin Moving

\* The place of a machine is that of the call that moves it, or else that of its config.
Placed ==
    \A m \in Machines :
        /\ \A k \in Callers : call[k].machine = m /\ call[k].pc \in Moving =>
              Place(m) = [stage |-> StageAt[call[k].pc], role |-> call[k].kind,
                          cluster |-> call[k].cluster]
        /\ Settled(m) /\ Complete(m) =>
              Place(m) = [stage |-> "in", role |-> config[m].kind, cluster |-> config[m].cluster]
        /\ Settled(m) /\ ~Complete(m) =>
              Place(m) = [stage |-> "out", role |-> "none", cluster |-> NoCluster]

LEMMA PlaceOf == TypeInv /\ Struct => Placed
  <1> SUFFICES ASSUME TypeInv, Struct, NEW m \in Machines
               PROVE  /\ \A k \in Callers : call[k].machine = m /\ call[k].pc \in Moving =>
                            Place(m) = [stage |-> StageAt[call[k].pc], role |-> call[k].kind,
                                        cluster |-> call[k].cluster]
                      /\ Settled(m) /\ Complete(m) =>
                            Place(m) = [stage |-> "in", role |-> config[m].kind,
                                        cluster |-> config[m].cluster]
                      /\ Settled(m) /\ ~Complete(m) =>
                            Place(m) = [stage |-> "out", role |-> "none", cluster |-> NoCluster]
    BY DEF Placed
  <1>1. ASSUME NEW k \in Callers, call[k].machine = m, call[k].pc \in Moving
        PROVE  Place(m) = [stage |-> StageAt[call[k].pc], role |-> call[k].kind,
                           cluster |-> call[k].cluster]
    <2>1. \A l \in Callers : call[l].machine = m /\ call[l].pc \in ApplyPC \union ResetPC => l = k
      BY <1>1 DEF Struct, Alone, MembershipPC, Moving, ApplyPC, ResetPC
    <2>2. CASE call[k].pc \in {"find", "create", "count"}
      <3>1. Complete(m) /\ config[m].kind = call[k].kind /\ config[m].cluster = call[k].cluster
        BY <1>1, <2>2 DEF Struct, Agrees, SameAs, Complete, Adding
      <3>2. Stage(m) = "joined"
        <4>1. CallAt(m, {"find", "create", "count"}) /\ ~CallAt(m, {"label"})
          BY <1>1, <2>1, <2>2 DEF CallAt, ApplyPC
        <4> QED BY <3>1, <4>1 DEF Stage
      <3> QED BY <2>2, <3>1, <3>2 DEF Place, StageAt, Moving
    <2>3. CASE call[k].pc = "label"
      <3>1. Complete(m) /\ config[m].kind = call[k].kind /\ config[m].cluster = call[k].cluster
        BY <1>1, <2>3 DEF Struct, Agrees, SameAs, Complete
      <3>2. ~CallAt(m, {"find", "create", "count"}) /\ CallAt(m, {"label"})
        BY <1>1, <2>1, <2>3 DEF CallAt, ApplyPC
      <3>3. Stage(m) = "counted"
        BY <3>1, <3>2 DEF Stage
      <3> QED BY <2>3, <3>1, <3>3 DEF Place, StageAt, Moving
    <2>4. CASE call[k].pc \in {"look", "discount", "dispose", "unlabel"}
      <3>1. ~Complete(m)
        BY <1>1, <2>4 DEF Struct, Agrees, Complete, Removing
      <3>2. Stage(m) = StageAt[call[k].pc] /\ Stage(m) \in {"leaving", "left"}
        <4>1. CASE call[k].pc \in {"look", "discount"}
          <5>1. CallAt(m, {"look", "discount"}) /\ ~CallAt(m, {"dispose", "unlabel"})
            BY <1>1, <2>1, <4>1 DEF CallAt, ResetPC
          <5> QED BY <3>1, <4>1, <5>1 DEF Stage, StageAt, Moving
        <4>2. CASE call[k].pc \in {"dispose", "unlabel"}
          <5>1. ~CallAt(m, {"look", "discount"}) /\ CallAt(m, {"dispose", "unlabel"})
            BY <1>1, <2>1, <4>2 DEF CallAt, ResetPC
          <5> QED BY <3>1, <4>2, <5>1 DEF Stage, StageAt, Moving
        <4> QED BY <2>4, <4>1, <4>2
      <3>3. (CHOOSE l \in Callers : call[l].machine = m /\ call[l].pc \in ResetPC) = k
        BY <1>1, <2>1, <2>4 DEF ResetPC
      <3> QED BY <3>1, <3>2, <3>3 DEF Place
    <2> QED BY <1>1, <2>2, <2>3, <2>4 DEF Moving
  <1>2. ASSUME Settled(m), Complete(m)
        PROVE  Place(m) = [stage |-> "in", role |-> config[m].kind, cluster |-> config[m].cluster]
    <2>1. ~CallAt(m, {"find", "create", "count"}) /\ ~CallAt(m, {"label"})
      BY <1>2 DEF Settled, Moving, CallAt
    <2> QED BY <1>2, <2>1 DEF Place, Stage
  <1>3. ASSUME Settled(m), ~Complete(m)
        PROVE  Place(m) = [stage |-> "out", role |-> "none", cluster |-> NoCluster]
    <2>1. ~CallAt(m, {"look", "discount"}) /\ ~CallAt(m, {"dispose", "unlabel"})
      BY <1>3 DEF Settled, Moving, CallAt
    <2> QED BY <1>3, <2>1 DEF Place, Stage
  <1> QED BY <1>1, <1>2, <1>3

\* The same of the next state.
LEMMA PlaceOfNext == TypeInv' /\ Struct' => Placed'
  BY PlaceOf, PTL

\* A machine that no call takes anywhere, and whose config stays, stays in its place.
LEMMA SamePlace ==
    ASSUME Placed, Placed', NEW m \in Machines,
           config'[m].kind = config[m].kind /\ config'[m].cluster = config[m].cluster,
           \A k \in Callers :
              \/ call'[k] = call[k]
              \/ /\ call[k].machine = m => call[k].pc \notin Moving
                 /\ call'[k].machine = m => call'[k].pc \notin Moving
              \/ /\ call[k].pc \in Moving /\ call'[k].pc \in Moving
                 /\ StageAt[call'[k].pc] = StageAt[call[k].pc]
                 /\ call'[k].machine = call[k].machine
                 /\ call'[k].kind = call[k].kind /\ call'[k].cluster = call[k].cluster
    PROVE  Place(m)' = Place(m)
  <1>1. ASSUME NEW k \in Callers, call[k].machine = m, call[k].pc \in Moving
        PROVE  Place(m)' = Place(m)
    <2>1. call'[k].machine = m /\ call'[k].pc \in Moving
      BY <1>1
    <2>2. Place(m) = [stage |-> StageAt[call[k].pc], role |-> call[k].kind,
                      cluster |-> call[k].cluster]
      BY <1>1 DEF Placed
    <2>3. Place(m)' = [stage |-> StageAt[call'[k].pc], role |-> call'[k].kind,
                       cluster |-> call'[k].cluster]
      BY <2>1 DEF Placed, StageAt
    <2>4. /\ StageAt[call'[k].pc] = StageAt[call[k].pc]
          /\ call'[k].kind = call[k].kind /\ call'[k].cluster = call[k].cluster
      BY <1>1
    <2> QED BY <2>2, <2>3, <2>4
  <1>2. ASSUME Settled(m) PROVE Place(m)' = Place(m)
    <2>1. Settled(m)'
      BY <1>2 DEF Settled
    <2>2. Complete(m)' <=> Complete(m)
      BY DEF Complete
    <2>3. CASE Complete(m)
      BY <1>2, <2>1, <2>2, <2>3 DEF Placed
    <2>4. CASE ~Complete(m)
      BY <1>2, <2>1, <2>2, <2>4 DEF Placed
    <2> QED BY <2>3, <2>4
  <1> QED BY <1>1, <1>2 DEF Settled

-----------------------------------------------------------------------------
(* The steps *)

Abstract == [Membership!MembershipNext]_(Membership!membershipVars)

KeepsPlaces == \A m \in Machines : Place(m)' = Place(m)
KeepsStatuses ==
    \A c \in Clusters : /\ cluster'[c].phase = cluster[c].phase
                        /\ cluster'[c].bootstrapped = cluster[c].bootstrapped

\* Machine m, and nobody else, changes its place.
MovesTo(m, p) == Place(m)' = p /\ \A n \in Machines \ {m} : Place(n)' = Place(n)

LEMMA Stutters ==
    ASSUME KeepsPlaces, KeepsStatuses, UNCHANGED label
    PROVE  Abstract
  <1>1. [m \in Machines |-> Place(m)]' = [m \in Machines |-> Place(m)]
    BY DEF KeepsPlaces
  <1>2. [c \in Clusters |-> [phase |-> cluster[c].phase, bootstrapped |-> cluster[c].bootstrapped]]'
        = [c \in Clusters |-> [phase |-> cluster[c].phase, bootstrapped |-> cluster[c].bootstrapped]]
    BY DEF KeepsStatuses
  <1> QED BY <1>1, <1>2 DEF Abstract, Membership!membershipVars

\* The stage of a machine moves on.
LEMMA Advances ==
    ASSUME NEW m \in Machines, NEW from, NEW to, NEW role, NEW c,
           Place(m) = [stage |-> from, role |-> role, cluster |-> c],
           MovesTo(m, [stage |-> to, role |-> role, cluster |-> c])
    PROVE  Membership!Advance(m, from, to)
  <1> DEFINE place == [n \in Machines |-> Place(n)]
             moved == [place EXCEPT ![m].stage = to]
  <1>1. moved[m] = [stage |-> to, role |-> role, cluster |-> c]
    OBVIOUS
  <1>2. \A n \in Machines : Place(n)' = moved[n]
    BY <1>1 DEF MovesTo
  <1>3. place' = moved
    BY <1>2
  <1> QED BY <1>3 DEF Membership!Advance

\* What is known before and after a step.
Both ==
    /\ Serialised
    /\ IInv /\ SawItself /\ Placed
    /\ TypeInv' /\ Struct' /\ Placed'

\* The membership call of a machine is the only one, so that before it moves the machine
\* nobody does.
LEMMA OnlyCall ==
    ASSUME Struct, NEW k \in Callers, call[k].pc \in {"save", "update", "teardown", "destroy"}
    PROVE  Settled(call[k].machine)
  BY DEF Struct, Alone, MembershipPC, ApplyPC, ResetPC, Settled, Moving

\* When it has returned, nobody does any more.
LEMMA NoCallLeft ==
    ASSUME Struct, NEW k \in Callers, NEW m, call[k].machine = m,
           call[k].pc \in Moving \/ Settled(m),
           \A l \in Callers \ {k} : call'[l] = call[l], call'[k] = Idle
    PROVE  Settled(m)'
  BY DEF Struct, Alone, MembershipPC, ApplyPC, ResetPC, Settled, Moving, Idle

\* A call moves its own machine only.
LEMMA OthersStay ==
    ASSUME Placed, Placed', NEW k \in Callers,
           \A l \in Callers \ {k} : call'[l] = call[l],
           call'[k].machine = call[k].machine \/ call'[k] = Idle,
           \A n \in Machines \ {call[k].machine} :
              config'[n].kind = config[n].kind /\ config'[n].cluster = config[n].cluster
    PROVE  \A n \in Machines \ {call[k].machine} : Place(n)' = Place(n)
  <1> SUFFICES ASSUME NEW n \in Machines \ {call[k].machine} PROVE Place(n)' = Place(n)
    OBVIOUS
  <1>1. call'[k].machine # n
    BY SentinelAssumption DEF Idle
  <1> QED BY <1>1, SamePlace

\* A step of a call that moves nobody.
LEMMA AllStay ==
    ASSUME Placed, Placed', NEW k \in Callers,
           \A l \in Callers \ {k} : call'[l] = call[l],
           \A n \in Machines : config'[n].kind = config[n].kind /\ config'[n].cluster = config[n].cluster,
           \/ call[k].pc \notin Moving /\ call'[k].pc \notin Moving
           \/ /\ call[k].pc \in Moving /\ call'[k].pc \in Moving
              /\ StageAt[call'[k].pc] = StageAt[call[k].pc]
              /\ call'[k].machine = call[k].machine
              /\ call'[k].kind = call[k].kind /\ call'[k].cluster = call[k].cluster
    PROVE  KeepsPlaces
  BY SamePlace DEF KeepsPlaces

\* The calls that begin.
LEMMA StartRefines ==
    ASSUME Both, NEW k \in Callers, NEW m \in Machines,
           \/ \E c \in Clusters, kind \in Kinds : ApplyStart(k, m, c, kind)
           \/ ResetStart(k, m) \/ BootstrapStart(k, m)
    PROVE  Abstract
  <1>1. /\ UNCHANGED <<config, cluster, label>> /\ \A l \in Callers \ {k} : call'[l] = call[l]
        /\ call[k].pc = "idle" /\ call'[k].pc \in {"save", "teardown", "check"}
    BY DEF ApplyStart, ResetStart, BootstrapStart, At, Both, TypeInv, TypeOK
  <1>2. KeepsPlaces
    BY <1>1, AllStay DEF Both, Moving
  <1> QED BY <1>1, <1>2, Stutters DEF KeepsStatuses

\* A machine joins when its first complete config is stored.
LEMMA SaveRefines ==
    ASSUME Both, NEW k \in Callers, call[k].pc \in {"save", "update"},
           NEW m \in Machines, NEW c \in Clusters, call[k].machine = m, call[k].cluster = c,
           Saved(k, m), AfterSave(k), UNCHANGED <<cluster, label>>
    PROVE  Abstract
  <1> USE DEF Both, IInv
  <1>1. /\ call \in [Callers -> Call]
        /\ config \in [Machines -> Config] /\ Settled(m)
    BY OnlyCall DEF TypeInv, TypeOK
  <1>2. /\ config'[m].kind = call[k].kind /\ config'[m].cluster = c
        /\ \A n \in Machines \ {m} : config'[n] = config[n]
    BY <1>1 DEF Saved
  <1>3. IF config[m].kind \in Roles
        THEN call[k].kind = config[m].kind /\ c = config[m].cluster /\ ~call[k].flag
        ELSE call[k].flag <=> call[k].kind \in Roles
    BY DEF Struct, Agrees, SameAs
  <1>4. CASE call[k].flag
    <2>1. /\ \A l \in Callers \ {k} : call'[l] = call[l]
          /\ call'[k].pc = "find" /\ call'[k].machine = m /\ call'[k].kind = call[k].kind
          /\ call'[k].cluster = c
      BY <1>1, <1>4, GotoEffect DEF AfterSave, ApplyPC
    <2>2. ~Complete(m) /\ call[k].kind \in Roles
      BY <1>3, <1>4 DEF Complete
    <2>3. Place(m) = [stage |-> "out", role |-> "none", cluster |-> NoCluster]
      BY <1>1, <2>2 DEF Placed
    <2>4. Place(m)' = [stage |-> "joined", role |-> call[k].kind, cluster |-> c]
      BY <1>1, <2>1 DEF Placed, Moving, StageAt
    <2>5. \A n \in Machines \ {m} : Place(n)' = Place(n)
      BY <1>2, <2>1, OthersStay
    <2>6. cluster[c].phase # "tearingDown"
      BY DEF Phased, ApplyPC
    <2> HIDE DEF Both, IInv
    <2>7. [n \in Machines |-> Place(n)]' =
          [[n \in Machines |-> Place(n)] EXCEPT ![m] =
              [stage |-> "joined", role |-> call[k].kind, cluster |-> c]]
      BY <2>4, <2>5
    <2>8. Membership!Join(m, c, call[k].kind)
      BY <1>1, <2>3, <2>6, <2>7 DEF Membership!Join
    <2> QED BY <1>1, <2>2, <2>8 DEF Abstract, Membership!MembershipNext
  <1>5. CASE ~call[k].flag
    <2>1. call'[k] = Idle /\ \A l \in Callers \ {k} : call'[l] = call[l]
      BY <1>1, <1>5, ReturnEffect DEF AfterSave
    <2>2. \A n \in Machines \ {m} : Place(n)' = Place(n)
      BY <1>2, <2>1, OthersStay
    <2>3. Settled(m)'
      BY <1>1, <2>1, NoCallLeft
    <2>4. Place(m)' = Place(m)
      <3>1. CASE Complete(m)
        BY <1>1, <1>2, <1>3, <2>3, <3>1 DEF Placed, Complete
      <3>2. CASE ~Complete(m)
        BY <1>1, <1>2, <1>3, <1>5, <2>3, <3>2 DEF Placed, Complete
      <3> QED BY <3>1, <3>2
    <2> QED BY <2>2, <2>4, Stutters DEF KeepsPlaces, KeepsStatuses
  <1> QED BY <1>4, <1>5

\* The first machine of a cluster opens it.
LEMMA CreateRefines ==
    ASSUME Both, NEW k \in Callers, ApplyCreateCluster(k),
           NEW m \in Machines, NEW c \in Clusters, call[k].machine = m, call[k].cluster = c
    PROVE  Abstract
  <1> DEFINE status == [d \in Clusters |-> [phase |-> cluster[d].phase,
                                            bootstrapped |-> cluster[d].bootstrapped]]
  <1>1. /\ call[k].pc = "create" /\ call'[k].pc = "count" /\ UNCHANGED <<config, label>>
        /\ \A l \in Callers \ {k} : call'[l] = call[l]
        /\ call'[k].machine = m /\ call'[k].kind = call[k].kind /\ call'[k].cluster = c
    BY GotoEffect DEF ApplyCreateCluster, At, ApplyPC, Both, TypeInv, TypeOK, IInv
  <1>2. KeepsPlaces
    BY <1>1, AllStay DEF Both, Moving, StageAt
  <1>3. CASE cluster[c].phase = "absent"
    <2>1. cluster' = [cluster EXCEPT ![c] = [NoStatus EXCEPT !.phase = "running"]]
      BY <1>3 DEF ApplyCreateCluster
    <2>2. cluster'[c].phase = "running" /\ ~cluster'[c].bootstrapped
          /\ cluster'[c].bootstrapped \in BOOLEAN
          /\ \A d \in Clusters \ {c} : cluster'[d] = cluster[d]
      BY <2>1 DEF NoStatus, Both, IInv, TypeInv, TypeOK
    <2>3. status' = [status EXCEPT ![c] = [phase |-> "running", bootstrapped |-> FALSE]]
      BY <2>2
    <2>4. Place(m) = [stage |-> "joined", role |-> call[k].kind, cluster |-> c]
      BY <1>1 DEF Both, Placed, Moving, StageAt
    <2>5. [n \in Machines |-> Place(n)]' = [n \in Machines |-> Place(n)]
      BY <1>2 DEF KeepsPlaces
    <2>6. Membership!Open(c)
      BY <1>1, <1>3, <2>3, <2>4, <2>5 DEF Membership!Open
    <2> QED BY <2>6 DEF Abstract, Membership!MembershipNext
  <1>4. CASE cluster[c].phase # "absent"
    <2>1. UNCHANGED cluster
      BY <1>4 DEF ApplyCreateCluster
    <2> QED BY <1>1, <1>2, <2>1, Stutters DEF KeepsStatuses
  <1> QED BY <1>3, <1>4

\* The machine is counted.
LEMMA CountRefines ==
    ASSUME Both, NEW k \in Callers, ApplyCount(k),
           NEW m \in Machines, NEW c \in Clusters, call[k].machine = m, call[k].cluster = c
    PROVE  Abstract
  <1> DEFINE status == [d \in Clusters |-> [phase |-> cluster[d].phase,
                                            bootstrapped |-> cluster[d].bootstrapped]]
  <1>1. /\ call[k].pc = "count" /\ call'[k].pc = "label" /\ UNCHANGED <<config, label>>
        /\ \A l \in Callers \ {k} : call'[l] = call[l]
        /\ call'[k].machine = m /\ call'[k].kind = call[k].kind /\ call'[k].cluster = c
    BY GotoEffect DEF ApplyCount, At, ApplyPC, Both, TypeInv, TypeOK, IInv
  <1>2. /\ Place(m) = [stage |-> "joined", role |-> call[k].kind, cluster |-> c]
        /\ Place(m)' = [stage |-> "counted", role |-> call[k].kind, cluster |-> c]
    BY <1>1 DEF Both, Placed, Moving, StageAt
  <1>3. \A n \in Machines \ {m} : Place(n)' = Place(n)
    BY <1>1, OthersStay DEF Both
  <1>4. Membership!Advance(m, "joined", "counted")
    BY <1>2, <1>3, Advances DEF MovesTo
  <1>5. cluster[c].phase = "running" /\ KeepsStatuses
    BY DEF ApplyCount, Updatable, KeepsStatuses, Both, IInv, TypeInv, TypeOK, ClusterStatus
  <1>6. status' = status
    BY <1>5 DEF KeepsStatuses
  <1>7. Membership!Count(m)
    BY <1>1, <1>2, <1>4, <1>5, <1>6 DEF Membership!Count
  <1> QED BY <1>7 DEF Abstract, Membership!MembershipNext

\* The labels of the machine are set.
LEMMA LabelRefines ==
    ASSUME Both, NEW k \in Callers, ApplyLabel(k),
           NEW m \in Machines, NEW c \in Clusters, call[k].machine = m, call[k].cluster = c
    PROVE  Abstract
  <1>1. /\ call[k].pc = "label" /\ call'[k] = Idle /\ UNCHANGED <<config, cluster>>
        /\ \A l \in Callers \ {k} : call'[l] = call[l]
    BY ReturnEffect DEF ApplyLabel, At, Both, TypeInv, TypeOK, IInv
  <1>2. Complete(m) /\ config[m].kind = call[k].kind /\ config[m].cluster = c
    BY <1>1 DEF Both, IInv, Struct, Agrees, SameAs, Complete
  <1>3. Settled(m)'
    BY <1>1, NoCallLeft DEF Both, IInv, Moving
  <1>4. Complete(m)'
    BY <1>1, <1>2 DEF Complete
  <1>5. /\ Place(m) = [stage |-> "counted", role |-> call[k].kind, cluster |-> c]
        /\ Place(m)' = [stage |-> "in", role |-> call[k].kind, cluster |-> c]
    BY <1>1, <1>2, <1>3, <1>4 DEF Both, Placed, Moving, StageAt
  <1>6. \A n \in Machines \ {m} : Place(n)' = Place(n)
    BY <1>1, OthersStay DEF Both
  <1>7. Membership!Advance(m, "counted", "in")
    BY <1>5, <1>6, Advances DEF MovesTo
  <1>8. label' = [label EXCEPT ![m] = [cluster |-> c, roles |-> @.roles \union {call[k].kind}]]
    BY DEF ApplyLabel
  <1>9. Membership!Enroll(m)
    <2>1. /\ [n \in Machines |-> Place(n)][m].cluster = c
          /\ [n \in Machines |-> Place(n)][m].role = call[k].kind
      BY <1>5
    <2> QED BY <1>1, <1>7, <1>8, <2>1 DEF Membership!Enroll
  <1> QED BY <1>9 DEF Abstract, Membership!MembershipNext

\* The stage of a machine that is reset.
LEMMA DestroyRefines ==
    ASSUME Both, NEW k \in Callers, ResetDestroy(k),
           NEW m \in Machines, NEW c \in Clusters, call[k].machine = m, call[k].cluster = c
    PROVE  Abstract
  <1>1. call[k].pc = "destroy" /\ UNCHANGED <<cluster, label>>
    BY DEF ResetDestroy, At
  <1>2. /\ call'[k].pc = "look" /\ \A l \in Callers \ {k} : call'[l] = call[l]
        /\ call'[k].machine = m /\ call'[k].kind = call[k].kind /\ call'[k].cluster = c
    BY DestroyStruct, GotoEffect DEF Both, IInv, TypeInv, TypeOK, ResetPC
  <1>3. Complete(m) /\ config[m].kind = call[k].kind /\ config[m].cluster = c
    BY <1>1 DEF Both, IInv, Struct, Agrees, SameAs, Complete
  <1>4. Settled(m)
    BY <1>1, OnlyCall DEF Both, IInv
  <1>5. /\ Place(m) = [stage |-> "in", role |-> call[k].kind, cluster |-> c]
        /\ Place(m)' = [stage |-> "leaving", role |-> call[k].kind, cluster |-> c]
    BY <1>2, <1>3, <1>4 DEF Both, Placed, Moving, StageAt
  <1>6. \A n \in Machines \ {m} : config'[n] = config[n]
    BY DEF ResetDestroy, Both, IInv, TypeInv, TypeOK
  <1>7. \A n \in Machines \ {m} : Place(n)' = Place(n)
    BY <1>2, <1>6, OthersStay DEF Both
  <1>8. Membership!Advance(m, "in", "leaving")
    BY <1>5, <1>7, Advances DEF MovesTo
  <1>9. Membership!Withdraw(m)
    BY <1>1, <1>8 DEF Membership!Withdraw
  <1> QED BY <1>9 DEF Abstract, Membership!MembershipNext

\* The machine is taken out of the counters.
LEMMA DiscountRefines ==
    ASSUME Both, NEW k \in Callers, ResetDiscount(k),
           NEW m \in Machines, NEW c \in Clusters, call[k].machine = m, call[k].cluster = c
    PROVE  Abstract
  <1> DEFINE status == [d \in Clusters |-> [phase |-> cluster[d].phase,
                                            bootstrapped |-> cluster[d].bootstrapped]]
             next == Discounted(cluster[c], call[k].kind, call[k].flag)
  <1>1. /\ call[k].pc = "discount" /\ call'[k].pc \in {"dispose", "unlabel"}
        /\ UNCHANGED <<config, label>> /\ \A l \in Callers \ {k} : call'[l] = call[l]
        /\ call'[k].machine = m /\ call'[k].kind = call[k].kind /\ call'[k].cluster = c
    BY GotoEffect DEF ResetDiscount, At, ResetPC, Both, TypeInv, TypeOK, IInv
  <1>2. /\ Place(m) = [stage |-> "leaving", role |-> call[k].kind, cluster |-> c]
        /\ Place(m)' = [stage |-> "left", role |-> call[k].kind, cluster |-> c]
    BY <1>1 DEF Both, Placed, Moving, StageAt
  <1>3. \A n \in Machines \ {m} : Place(n)' = Place(n)
    BY <1>1, OthersStay DEF Both
  <1>4. Membership!Advance(m, "leaving", "left")
    BY <1>2, <1>3, Advances DEF MovesTo
  <1>5. next.phase = cluster[c].phase /\ next.bootstrapped = cluster[c].bootstrapped
    <2>1. cluster[c] \in ClusterStatus /\ call[k].flag \in BOOLEAN
      BY DEF Both, IInv, TypeInv, TypeOK, Call
    <2>2. call[k].kind = "controlplane" => ~call[k].flag
      BY <1>1 DEF Both, SawItself
    <2> QED BY <2>1, <2>2 DEF Discounted, ClusterStatus
  <1>6. cluster'[c] = next /\ \A d \in Clusters \ {c} : cluster'[d] = cluster[d]
    BY DEF ResetDiscount, Both, IInv, TypeInv, TypeOK
  <1> HIDE DEF next
  <1>7. status' = status
    BY <1>5, <1>6
  <1>8. Membership!Discount(m)
    BY <1>1, <1>4, <1>7 DEF Membership!Discount
  <1> QED BY <1>8 DEF Abstract, Membership!MembershipNext

\* Nobody holds a cluster that a Reset found empty: who still joins it or still counts
\* would be counted, and who leaves it has been taken out.
LEMMA NobodyHolds ==
    ASSUME Both, NEW k \in Callers, call[k].pc = "dispose",
           NEW c \in Clusters, call[k].cluster = c, NEW n \in Machines
    PROVE  ~Membership!Holds(n, c)
  <1> USE DEF Both, IInv
  <1>1. IsEmpty(cluster[c])
    BY DEF Phased
  <1>2. \A r \in Roles : ~Counted(n, c, r)
    <2> SUFFICES ASSUME NEW r \in Roles PROVE n \notin Members(c, r)
      BY DEF Members
    <2>1. Members(c, r) \in SUBSET Machines
      BY DEF Members
    <2>2. Cardinality(Members(c, r)) \in Nat /\ Cardinality(Members(c, r)) <= 0
      BY <1>1, <2>1, MembersCard DEF CountsCover, Roles, TypeInv, TypeOK, IsEmpty
    <2> QED BY <2>1, <2>2, MembersCard
  <1>3. ASSUME NEW l \in Callers, call[l].machine = n, call[l].pc \in Moving
        PROVE  ~Membership!Holds(n, c)
    <2>1. Place(n) = [stage |-> StageAt[call[l].pc], role |-> call[l].kind, cluster |-> call[l].cluster]
      BY <1>3 DEF Placed
    <2>2. CASE call[l].pc \in ApplyPC
      BY <2>1, <2>2 DEF Struct, Apart, ResetPC, Membership!Holds
    <2>3. CASE call[l].pc \in Removing
      <3>1. call[l].cluster # c
        BY <1>2, <1>3, <2>3, CountedIff DEF Struct, Agrees
      <3> QED BY <2>1, <3>1 DEF Membership!Holds
    <2>4. CASE call[l].pc \in {"dispose", "unlabel"}
      BY <2>1, <2>4 DEF Membership!Holds, Moving, StageAt
    <2> QED BY <1>3, <2>2, <2>3, <2>4 DEF Moving, ApplyPC, Removing
  <1>4. CASE Settled(n) /\ Complete(n)
    <2>1. Place(n) = [stage |-> "in", role |-> config[n].kind, cluster |-> config[n].cluster]
      BY <1>4 DEF Placed
    <2>2. config[n].cluster # c
      BY <1>2, <1>4 DEF Counted, Settled, Moving, Complete
    <2> QED BY <2>1, <2>2 DEF Membership!Holds
  <1>5. CASE Settled(n) /\ ~Complete(n)
    <2>1. Place(n) = [stage |-> "out", role |-> "none", cluster |-> NoCluster]
      BY <1>5 DEF Placed
    <2> QED BY <2>1 DEF Membership!Holds
  <1> QED BY <1>3, <1>4, <1>5 DEF Settled

\* The empty cluster is torn down, unless another Reset has done so already.
LEMMA DisposeRefines ==
    ASSUME Both, NEW k \in Callers, ResetDispose(k),
           NEW m \in Machines, NEW c \in Clusters, call[k].machine = m, call[k].cluster = c
    PROVE  Abstract
  <1> DEFINE status == [d \in Clusters |-> [phase |-> cluster[d].phase,
                                            bootstrapped |-> cluster[d].bootstrapped]]
  <1>1. /\ call[k].pc = "dispose" /\ call'[k].pc = "unlabel" /\ UNCHANGED <<config, label>>
        /\ \A l \in Callers \ {k} : call'[l] = call[l]
        /\ call'[k].machine = m /\ call'[k].kind = call[k].kind /\ call'[k].cluster = c
    BY GotoEffect DEF ResetDispose, At, ResetPC, Both, TypeInv, TypeOK, IInv
  <1>2. KeepsPlaces
    BY <1>1, AllStay DEF Both, Moving, StageAt
  <1>3. /\ cluster'[c].phase = "tearingDown" /\ cluster'[c].bootstrapped = cluster[c].bootstrapped
        /\ \A d \in Clusters \ {c} : cluster'[d] = cluster[d]
    BY DEF ResetDispose, Both, IInv, TypeInv, TypeOK, ClusterStatus
  <1>4. CASE cluster[c].phase = "running"
    <2>1. status' = [status EXCEPT ![c].phase = "tearingDown"]
      BY <1>3
    <2>2. [n \in Machines |-> Place(n)]' = [n \in Machines |-> Place(n)]
      BY <1>2 DEF KeepsPlaces
    <2>3. Membership!Dispose(c)
      BY <1>1, <1>4, <2>1, <2>2, NobodyHolds DEF Membership!Dispose
    <2> QED BY <2>3 DEF Abstract, Membership!MembershipNext
  <1>5. CASE cluster[c].phase = "tearingDown"
    BY <1>1, <1>2, <1>3, <1>5, Stutters DEF KeepsStatuses
  <1>6. cluster[c].phase \in {"running", "tearingDown"}
    BY DEF ResetDispose, Both, IInv, TypeInv, TypeOK, ClusterStatus
  <1> QED BY <1>4, <1>5, <1>6

\* The place of a machine whose Reset ends.
LEMMA LeaverPlace ==
    ASSUME Both, NEW k \in Callers, Return(k), UNCHANGED config,
           call[k].pc \in {"look", "discount", "dispose", "unlabel"},
           NEW m \in Machines, call[k].machine = m
    PROVE  /\ Place(m).stage \in {"leaving", "left"}
           /\ call[k].pc = "unlabel" => Place(m).stage = "left"
           /\ [n \in Machines |-> Place(n)]' =
                 [[n \in Machines |-> Place(n)] EXCEPT ![m] = Membership!Outside]
  <1>1. call'[k] = Idle /\ \A l \in Callers \ {k} : call'[l] = call[l]
    BY ReturnEffect DEF Both, TypeInv, TypeOK, IInv
  <1>2. ~Complete(m)
    BY DEF Both, IInv, Struct, Agrees, Complete, Removing
  <1>3. Settled(m)'
    BY <1>1, NoCallLeft DEF Both, IInv, Moving
  <1>4. Place(m) = [stage |-> StageAt[call[k].pc], role |-> call[k].kind,
                    cluster |-> call[k].cluster]
    BY DEF Both, Placed, Moving
  <1>5. Place(m)' = [stage |-> "out", role |-> "none", cluster |-> NoCluster]
    <2>1. ~Complete(m)'
      BY <1>2 DEF Complete
    <2> QED BY <1>3, <2>1 DEF Both, Placed
  <1>6. \A n \in Machines \ {m} : Place(n)' = Place(n)
    BY <1>1, OthersStay DEF Both
  <1>7. [n \in Machines |-> Place(n)]' =
            [[n \in Machines |-> Place(n)] EXCEPT ![m] = Membership!Outside]
    BY <1>5, <1>6 DEF Membership!Outside
  <1>8. /\ StageAt[call[k].pc] \in {"leaving", "left"}
        /\ call[k].pc = "unlabel" => StageAt[call[k].pc] = "left"
    BY DEF StageAt, Moving
  <1> QED BY <1>4, <1>7, <1>8

\* The labels of the machine are removed.
LEMMA UnlabelRefines ==
    ASSUME Both, NEW k \in Callers, ResetUnlabel(k), NEW m \in Machines, call[k].machine = m
    PROVE  Abstract
  <1>1. call[k].pc = "unlabel" /\ Return(k) /\ UNCHANGED <<config, cluster>>
    BY DEF ResetUnlabel, At
  <1>2. label' = [label EXCEPT ![m] = Membership!NoLabel]
    BY DEF ResetUnlabel, NoLabel, Membership!NoLabel
  <1>3. Membership!Unlabel(m)
    BY <1>1, <1>2, LeaverPlace DEF Membership!Unlabel
  <1> QED BY <1>3 DEF Abstract, Membership!MembershipNext

\* A Reset ends too early, once the config is gone.
LEMMA AbandonRefines ==
    ASSUME Both, NEW k \in Callers, Return(k), UNCHANGED <<config, cluster, label>>,
           call[k].pc \in {"look", "discount", "dispose", "unlabel"}
    PROVE  Abstract
  <1>1. PICK m \in Machines : call[k].machine = m
    BY DEF Both, IInv, Struct, Grounded
  <1>2. Membership!Abandon(m)
    BY <1>1, LeaverPlace DEF Membership!Abandon
  <1> QED BY <1>1, <1>2 DEF Abstract, Membership!MembershipNext

\* A call ends that moves no machine.
LEMMA ReturnRefines ==
    ASSUME Both, NEW k \in Callers, Return(k), UNCHANGED <<config, label>>, KeepsStatuses,
           call[k].pc \notin Moving
    PROVE  Abstract
  <1>1. call'[k].pc = "idle" /\ \A l \in Callers \ {k} : call'[l] = call[l]
    BY ReturnEffect DEF Both, TypeInv, TypeOK, IInv, Idle
  <1>2. KeepsPlaces
    BY <1>1, AllStay DEF Both, Moving
  <1> QED BY <1>2, Stutters

\* A call goes on without moving its machine.
LEMMA GotoRefines ==
    ASSUME Both, NEW k \in Callers, NEW pc \in ApplyPC \union ResetPC \union BootstrapPC,
           Goto(k, pc), UNCHANGED label, KeepsStatuses,
           \A n \in Machines : config'[n].kind = config[n].kind /\ config'[n].cluster = config[n].cluster,
           \/ call[k].pc \notin Moving /\ pc \notin Moving
           \/ call[k].pc \in Moving /\ pc \in Moving /\ StageAt[pc] = StageAt[call[k].pc]
    PROVE  Abstract
  <1>1. /\ call'[k].pc = pc /\ \A l \in Callers \ {k} : call'[l] = call[l]
        /\ call'[k].machine = call[k].machine /\ call'[k].kind = call[k].kind
        /\ call'[k].cluster = call[k].cluster
    BY GotoEffect DEF Both, TypeInv, TypeOK, IInv
  <1>2. KeepsPlaces
    BY <1>1, AllStay DEF Both
  <1> QED BY <1>2, Stutters

\* Every step of an ApplyConfiguration.
LEMMA ApplyRefines ==
    ASSUME Both, NEW k \in Callers, ApplyStep(k)
    PROVE  Abstract
  <1> USE DEF At
  <1>1. /\ call[k].pc # "idle" => call[k].machine \in Machines /\ call[k].cluster \in Clusters
        /\ UNCHANGED cluster => KeepsStatuses
    BY DEF Both, IInv, Struct, Grounded, KeepsStatuses
  <1>2. CASE ApplySave(k)
    <2>1. CASE config[call[k].machine].kind = "none"
      BY <1>1, <1>2, <2>1, SaveRefines DEF ApplySave
    <2>2. CASE config[call[k].machine].kind # "none"
      BY <1>1, <1>2, <2>2, GotoRefines DEF ApplySave, ApplyPC, Moving
    <2> QED BY <2>1, <2>2
  <1>3. CASE ApplyUpdate(k)
    BY <1>1, <1>3, SaveRefines DEF ApplyUpdate
  <1>4. CASE ApplyUpdateFails(k)
    BY <1>1, <1>4, ReturnRefines DEF ApplyUpdateFails, Moving
  <1>5. CASE ApplyFindCluster(k)
    BY <1>1, <1>5, GotoRefines DEF ApplyFindCluster, ApplyPC, Moving, StageAt
  <1>6. CASE ApplyCreateCluster(k)
    BY <1>1, <1>6, CreateRefines DEF ApplyCreateCluster
  <1>7. CASE ApplyCount(k)
    BY <1>1, <1>7, CountRefines DEF ApplyCount
  <1>8. CASE ApplyLabel(k)
    BY <1>1, <1>8, LabelRefines DEF ApplyLabel
  <1> QED BY <1>2, <1>3, <1>4, <1>5, <1>6, <1>7, <1>8 DEF ApplyStep

\* Every step of a Reset.
LEMMA ResetRefines ==
    ASSUME Both, NEW k \in Callers, ResetStep(k)
    PROVE  Abstract
  <1> USE DEF At
  <1>1. /\ call[k].pc # "idle" => call[k].machine \in Machines /\ call[k].cluster \in Clusters
        /\ UNCHANGED cluster => KeepsStatuses
    BY DEF Both, IInv, Struct, Grounded, KeepsStatuses
  <1>2. CASE ResetTeardown(k)
    <2>1. CASE config[call[k].machine].kind = "none"
      BY <1>1, <1>2, <2>1, ReturnRefines DEF ResetTeardown, Moving
    <2>2. CASE config[call[k].machine].kind # "none"
      <3>1. \A n \in Machines : config'[n].kind = config[n].kind /\ config'[n].cluster = config[n].cluster
        BY <1>2, <2>2 DEF ResetTeardown, Both, IInv, TypeInv, TypeOK, Config
      <3> QED BY <1>1, <1>2, <2>2, <3>1, GotoRefines DEF ResetTeardown, ResetPC, Moving
    <2> QED BY <2>1, <2>2
  <1>3. CASE ResetDestroy(k)
    BY <1>1, <1>3, DestroyRefines DEF ResetDestroy
  <1>4. CASE ResetLook(k)
    <2>1. /\ call[k].pc = "look" /\ call'[k].pc = "discount"
          /\ \A l \in Callers \ {k} : call'[l] = call[l]
          /\ call'[k].machine = call[k].machine /\ call'[k].kind = call[k].kind
          /\ call'[k].cluster = call[k].cluster
      BY <1>4, LookEffect DEF ResetLook, Both, IInv, TypeInv, TypeOK
    <2>2. UNCHANGED <<config, label>> /\ KeepsStatuses
      BY <1>1, <1>4 DEF ResetLook
    <2>3. KeepsPlaces
      BY <2>1, <2>2, AllStay DEF Both, Moving, StageAt
    <2> QED BY <2>2, <2>3, Stutters
  <1>5. CASE ResetDiscount(k)
    BY <1>1, <1>5, DiscountRefines DEF ResetDiscount
  <1>6. CASE ResetDispose(k)
    BY <1>1, <1>6, DisposeRefines DEF ResetDispose
  <1>7. CASE ResetUnlabel(k)
    BY <1>1, <1>7, UnlabelRefines DEF ResetUnlabel
  <1> QED BY <1>2, <1>3, <1>4, <1>5, <1>6, <1>7 DEF ResetStep

\* Every step of a Bootstrap.
LEMMA BootstrapRefines ==
    ASSUME Both, NEW k \in Callers, BootstrapStep(k)
    PROVE  Abstract
  <1> DEFINE status == [d \in Clusters |-> [phase |-> cluster[d].phase,
                                            bootstrapped |-> cluster[d].bootstrapped]]
  <1> USE DEF At
  <1>1. CASE BootstrapCheck(k)
    BY <1>1, ReturnRefines, GotoRefines DEF BootstrapCheck, KeepsStatuses, BootstrapPC, Moving
  <1>2. CASE BootstrapSet(k)
    <2>1. PICK c \in Clusters : call[k].cluster = c
      BY <1>2 DEF BootstrapSet, Both, IInv, Struct, Grounded
    <2>2. /\ call[k].pc = "bootstrap" /\ UNCHANGED <<config, label>>
          /\ call'[k].pc = "idle" /\ \A l \in Callers \ {k} : call'[l] = call[l]
      BY <1>2, ReturnEffect DEF BootstrapSet, Both, TypeInv, TypeOK, IInv, Idle
    <2>3. KeepsPlaces
      BY <2>2, AllStay DEF Both, Moving
    <2>4. [n \in Machines |-> Place(n)]' = [n \in Machines |-> Place(n)]
      BY <2>3 DEF KeepsPlaces
    <2>5. /\ cluster'[c].phase = cluster[c].phase /\ cluster'[c].bootstrapped = TRUE
          /\ \A d \in Clusters \ {c} : cluster'[d] = cluster[d]
      BY <1>2, <2>1 DEF BootstrapSet, Both, IInv, TypeInv, TypeOK, ClusterStatus
    <2>6. status' = [status EXCEPT ![c].bootstrapped = TRUE]
      BY <2>5
    <2>7. cluster[c].phase = "running"
      BY <1>2, <2>1 DEF BootstrapSet, Updatable
    <2>8. Membership!Bootstrap(c)
      BY <2>2, <2>4, <2>6, <2>7 DEF Membership!Bootstrap
    <2> QED BY <2>8 DEF Abstract, Membership!MembershipNext
  <1> QED BY <1>1, <1>2 DEF BootstrapStep

\* A call that is cut short is no join: its cluster is there.
LEMMA StoppedRefines ==
    ASSUME Both, NEW k \in Callers, ClusterGone(k) \/ Abort(k)
    PROVE  Abstract
  <1>1. UNCHANGED <<config, cluster, label>> /\ Return(k) /\ KeepsStatuses
    BY DEF ClusterGone, Abort, KeepsStatuses
  <1>2. call[k].pc \notin {"find", "create", "count", "label"}
    <2>1. CASE ClusterGone(k)
      BY <2>1 DEF ClusterGone, WorksIn, Both, IInv, Phased
    <2>2. CASE Abort(k)
      BY <2>2 DEF Abort, CallKind, Both, Serialised, ApplyPC, ResetPC, BootstrapPC
    <2> QED BY <2>1, <2>2
  <1> QED BY <1>1, <1>2, AbandonRefines, ReturnRefines DEF Moving

\* The controllers: finalizers are not seen, and a cluster that is torn down goes.
LEMMA ControllerRefines ==
    ASSUME Both,
           \/ \E m \in Machines : HoldConfig(m) \/ ReleaseConfig(m)
           \/ \E c \in Clusters : Cleanup(c)
    PROVE  Abstract
  <1> DEFINE status == [d \in Clusters |-> [phase |-> cluster[d].phase,
                                            bootstrapped |-> cluster[d].bootstrapped]]
  <1>1. ASSUME NEW m \in Machines, HoldConfig(m) \/ ReleaseConfig(m) PROVE Abstract
    <2>1. \A n \in Machines : config'[n].kind = config[n].kind /\ config'[n].cluster = config[n].cluster
      BY <1>1 DEF HoldConfig, ReleaseConfig, Both, IInv, TypeInv, TypeOK, Config
    <2>2. UNCHANGED <<call, cluster, label>>
      BY <1>1 DEF HoldConfig, ReleaseConfig
    <2>3. KeepsPlaces /\ KeepsStatuses
      BY <2>1, <2>2, SamePlace DEF Both, KeepsPlaces, KeepsStatuses
    <2> QED BY <2>2, <2>3, Stutters
  <1>2. ASSUME NEW c \in Clusters, Cleanup(c) PROVE Abstract
    <2>1. UNCHANGED <<config, call, label>>
      BY <1>2 DEF Cleanup
    <2>2. KeepsPlaces
      BY <2>1, SamePlace DEF Both, KeepsPlaces
    <2>3. [n \in Machines |-> Place(n)]' = [n \in Machines |-> Place(n)]
      BY <2>2 DEF KeepsPlaces
    <2>4. /\ cluster[c].phase = "tearingDown"
          /\ cluster'[c].phase = "absent" /\ cluster'[c].bootstrapped = FALSE
          /\ \A d \in Clusters \ {c} : cluster'[d] = cluster[d]
      BY <1>2 DEF Cleanup, NoStatus, Both, IInv, TypeInv, TypeOK
    <2>5. status' = [status EXCEPT ![c] = Membership!Down]
      BY <2>4 DEF Membership!Down
    <2>6. Membership!Cleanup(c)
      BY <2>1, <2>3, <2>4, <2>5 DEF Membership!Cleanup
    <2> QED BY <2>6 DEF Abstract, Membership!MembershipNext
  <1> QED BY <1>1, <1>2

\* Every step is a change of place, one of a cluster, or nothing to see.
LEMMA StepRefines ==
    ASSUME Serialised, IInv, FlagInv, IInv', [AcctNext]_acctVars
    PROVE  Abstract
  <1>1. Both
    BY PlaceOf, PlaceOfNext DEF Both, IInv, FlagInv
  <1>2. CASE AcctNext
    BY <1>1, <1>2, StartRefines, ApplyRefines, ResetRefines, BootstrapRefines, StoppedRefines,
       ControllerRefines DEF AcctNext, HandlerStep
  <1>3. CASE UNCHANGED acctVars
    <2>1. UNCHANGED <<config, cluster, label, call>>
      BY <1>3 DEF acctVars
    <2>2. KeepsPlaces /\ KeepsStatuses
      BY <1>1, <2>1, SamePlace DEF Both, KeepsPlaces, KeepsStatuses
    <2> QED BY <2>1, <2>2, Stutters
  <1> QED BY <1>2, <1>3

\* Before anything happened every machine is outside and every cluster is down.
LEMMA InitRefines ==
    ASSUME Init
    PROVE  Membership!MembershipInit
  <1>1. Placed
    BY InitInv, PlaceOf DEF IInv
  <1>2. \A m \in Machines : Settled(m) /\ ~Complete(m)
    BY DEF Init, Settled, Complete, Idle, NoConfig, Moving, Roles
  <1>3. \A m \in Machines : Place(m) = Membership!Outside
    BY <1>1, <1>2 DEF Placed, Membership!Outside
  <1> QED BY <1>3 DEF Init, NoStatus, NoLabel, Membership!MembershipInit, Membership!Down,
          Membership!NoLabel

\* The calls of any number of concurrent clients, interleaved at every store operation, look
\* like atomic changes of place: no cluster is torn down while a machine holds it, and a
\* machine that goes through a Reset does so in the order of the stages.
THEOREM AccountingImplements == Serialised /\ AcctInitNext => ImplementsMembership
  <1>1. Serialised /\ IInv /\ FlagInv /\ IInv' /\ [AcctNext]_acctVars
            => [Membership!MembershipNext]_(Membership!membershipVars)
    BY StepRefines DEF Abstract
  <1>2. Serialised /\ AcctInitNext => [][Membership!MembershipNext]_(Membership!membershipVars)
    <2> SUFFICES ASSUME Serialised
                 PROVE  AcctInitNext => [][Membership!MembershipNext]_(Membership!membershipVars)
      OBVIOUS
    <2>1. IInv /\ FlagInv /\ IInv' /\ [AcctNext]_acctVars
              => [Membership!MembershipNext]_(Membership!membershipVars)
      BY <1>1
    <2> QED BY <2>1, FlagHolds, PTL DEF AcctInitNext
  <1> QED BY <1>2, InitRefines, PTL DEF AcctInitNext, ImplementsMembership, Membership!MembershipSpec

=============================================================================
