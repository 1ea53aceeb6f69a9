------------------------ MODULE NodeLifecycleProofs ------------------------
(***************************************************************************)
(* Proofs about NodeLifecycle, for any number of callers and images, with  *)
(* any bound on the calls cut short.                                       *)
(***************************************************************************)
EXTENDS NodeLifecycle, TLAPS

-----------------------------------------------------------------------------
(* The inductive invariant: the type invariant, four parts of its own, and *)
(* the checked invariants it makes inductive.                              *)

\* A Reboot that does not exist holds nothing.
AbsentIsNew == reboot.phase = "absent" => reboot = NoReboot

TypeInv == NodeTypeOK /\ AbsentIsNew

\* sequenceMu: one Upgrade or Reboot at a time.
SequenceExclusive ==
    \A k, l \in Callers : call[k].op \in SequenceOps /\ call[l].op \in SequenceOps => k = l

RebootPC == {"teardown", "destroy", "create", "rotate"}

\* Only Upgrade and Reboot get to requestReboot, and what installs or upgrades brings
\* an image.
CallShape ==
    \A k \in Callers : /\ call[k].pc \in RebootPC => call[k].op \in SequenceOps
                       /\ call[k].op \in LifecycleOps \union {"upgrade"} => call[k].image \in Images

\* An installation that is about to write the SystemDisk has written the Image.
DiskAfterImage ==
    /\ \A k \in Callers : call[k].pc = "disk" => image # NoImage
    /\ installer.pc # "idle" => installer.image # NoImage
    /\ installer.pc = "disk" => image # NoImage

\* While no call was cut short, the change that has no boot ID yet is on its way to one.
OwedIsPending == owed /\ aborts = 0 => \E k \in Callers : call[k].pc \in RebootPC

\* What an installation in progress read is still so, or an event is pending.
InstallerCurrent ==
    ~watch.status /\ installer.pc # "idle" =>
        config # NoImage /\ installer.rebooting = rebooting

IInv ==
    /\ TypeInv
    /\ SequenceExclusive /\ CallShape /\ RebootNeverConflicts
    /\ OwedIsPending
    /\ DiskAfterImage /\ InstalledHasImage
    /\ InstallerCurrent /\ ReportsCurrent

-----------------------------------------------------------------------------
(* Types *)

\* A handler moves to another step of its call, starts another call, or returns.
LEMMA CallType ==
    /\ Idle \in Call
    /\ \A x \in Call : \A pc \in {"image", "disk", "teardown", "destroy", "create", "rotate"} :
          [x EXCEPT !.pc = pc] \in Call
    /\ \A op \in LifecycleOps \union SequenceOps, pc \in {"check", "teardown"},
          i \in Images \union {NoImage}, d \in Disks \union {"none"} :
          [op |-> op, pc |-> pc, image |-> i, disk |-> d] \in Call
  BY DEF Idle, Call

\* What a step of a handler may do to the calls: it changes one of them.
OneCallMoves ==
    \E k \in Callers : \E c \in Call : call' = [call EXCEPT ![k] = c]

LEMMA GotoMoves ==
    ASSUME NodeTypeOK, NEW k \in Callers,
           NEW pc \in {"image", "disk", "teardown", "destroy", "create", "rotate"}, Goto(k, pc)
    PROVE  OneCallMoves
  <1>1. call[k] \in Call
    BY DEF NodeTypeOK
  <1>2. [call[k] EXCEPT !.pc = pc] \in Call
    BY <1>1, CallType
  <1>3. call' = [call EXCEPT ![k] = [call[k] EXCEPT !.pc = pc]]
    BY DEF Goto
  <1> QED BY <1>2, <1>3 DEF OneCallMoves

\* ... keeping its arguments, while the other calls stay where they are.
LEMMA GotoEffect ==
    ASSUME NodeTypeOK, NEW k \in Callers, NEW pc, Goto(k, pc)
    PROVE  /\ \A l \in Callers \ {k} : call'[l] = call[l]
           /\ call'[k].pc = pc
           /\ call'[k].op = call[k].op
           /\ call'[k].image = call[k].image
  <1>1. call[k] \in Call /\ call \in [Callers -> Call]
    BY DEF NodeTypeOK
  <1>2. call'[k] = [call[k] EXCEPT !.pc = pc]
    BY <1>1 DEF Goto
  <1>3. \A l \in Callers \ {k} : call'[l] = call[l]
    BY <1>1 DEF Goto
  <1> QED BY <1>1, <1>2, <1>3 DEF Call

\* A call that returns has no operation any more.
LEMMA ReturnEffect ==
    ASSUME NodeTypeOK, NEW k \in Callers, Return(k)
    PROVE  /\ \A l \in Callers \ {k} : call'[l] = call[l]
           /\ call'[k] = Idle
  BY DEF NodeTypeOK, Return

LEMMA ReturnMoves ==
    ASSUME NEW k \in Callers, Return(k)
    PROVE  OneCallMoves
  BY CallType DEF Return, OneCallMoves

LEMMA BeginMoves ==
    ASSUME NEW k \in Callers, NEW op \in LifecycleOps \union SequenceOps,
           NEW pc \in {"check", "teardown"}, NEW i \in Images \union {NoImage},
           NEW d \in Disks \union {"none"}, Begin(k, op, pc, i, d)
    PROVE  OneCallMoves
  BY CallType DEF Begin, OneCallMoves

LEMMA MovesType == NodeTypeOK /\ (OneCallMoves \/ UNCHANGED call) => call' \in [Callers -> Call]
  BY DEF NodeTypeOK, OneCallMoves

\* The steps of the controllers, the config and stuttering.
ControllerStep ==
    \/ \E i \in Images \union {NoImage} : Configure(i)
    \/ StatusStep \/ StatusFails \/ VersionReport \/ RebootStatusStep
    \/ UNCHANGED vars

\* They leave the calls alone ...
LEMMA CallsKept == ControllerStep => UNCHANGED call
  BY DEF ControllerStep, Configure, StatusStep, StatusReport, StatusSetImage, StatusSetDisk,
     StatusFails, VersionReport, RebootStatusStep, RebootBegin, RebootEnd, RebootRelease, vars,
     callVars

\* ... and neither create nor destroy a Reboot, nor count one.
LEMMA PhaseKept == TypeInv /\ ControllerStep => reboot'.phase = reboot.phase
  BY DEF ControllerStep, Configure, StatusStep, StatusReport, StatusSetImage, StatusSetDisk,
     StatusFails, VersionReport, RebootStatusStep, RebootBegin, RebootEnd, RebootRelease, vars,
     rebootVars, TypeInv, NodeTypeOK, Reboot

\* ... nor do they take a call that was cut short back, or owe a boot ID.
LEMMA CountsKept ==
    ASSUME TypeInv, ControllerStep
    PROVE  owed' = owed /\ aborts' \in Nat /\ (aborts' = 0 => aborts = 0)
  <1>1. CASE StatusFails
    BY <1>1, BoundAssumption DEF StatusFails, TypeInv, NodeTypeOK
  <1>2. CASE ~StatusFails
    <2>1. UNCHANGED <<owed, aborts>>
      BY <1>2 DEF ControllerStep, Configure, StatusStep, StatusReport, StatusSetImage,
         StatusSetDisk, VersionReport, RebootStatusStep, RebootBegin, RebootEnd, RebootRelease,
         vars, callVars
    <2> QED BY <2>1, BoundAssumption DEF TypeInv, NodeTypeOK
  <1> QED BY <1>1, <1>2

\* Every step of a handler changes one call and leaves the others alone.
LEMMA CallsMove ==
    ASSUME NodeTypeOK, [Next]_vars
    PROVE  OneCallMoves \/ UNCHANGED call
  <1>1. ASSUME NEW k \in Callers, NEW i \in Images,
               \/ \E d \in Disks : InstallStart(k, i, d)
               \/ LifecycleUpgradeStart(k, i) \/ UpgradeStart(k, i)
        PROVE  OneCallMoves
    BY <1>1, BeginMoves DEF InstallStart, LifecycleUpgradeStart, UpgradeStart,
       LifecycleOps, SequenceOps
  <1>2. ASSUME NEW k \in Callers, RebootStart(k) \/ CallStep(k) \/ Abort(k)
        PROVE  OneCallMoves
    BY <1>2, BeginMoves, GotoMoves, ReturnMoves DEF RebootStart, SequenceOps, CallStep, Check,
       LifecycleSetImage, InstallDisk, UpgradeSetImage, RebootTeardown, RebootDestroy,
       RebootCreate, RebootRotate, Abort
  <1>3. CASE Next
    BY <1>1, <1>2, <1>3, CallsKept DEF Next, ControllerStep
  <1> QED BY <1>3, CallsKept DEF ControllerStep

\* The type invariant holds after every step.
LEMMA TypeStep == TypeInv /\ [Next]_vars => TypeInv'
  <1> SUFFICES ASSUME TypeInv, [Next]_vars
               PROVE  TypeInv'
    OBVIOUS
  <1> USE DEF TypeInv, NodeTypeOK, AbsentIsNew
  <1>1. call' \in [Callers -> Call]
    BY CallsMove, MovesType
  <1>2. ASSUME NEW i \in Images \union {NoImage}, Configure(i) PROVE TypeInv'
    BY <1>2, <1>1 DEF Configure, Wake, callVars, rebootVars, reportVars
  <1>3. ASSUME NEW k \in Callers, NEW i \in Images, NEW d \in Disks,
               \/ InstallStart(k, i, d)
        PROVE  TypeInv'
    BY <1>3, <1>1 DEF InstallStart, Begin, installVars, rebootVars, reportVars
  <1>4. ASSUME NEW k \in Callers, NEW i \in Images,
               \/ LifecycleUpgradeStart(k, i)
        PROVE  TypeInv'
    BY <1>4, <1>1 DEF LifecycleUpgradeStart, Begin, installVars, rebootVars, reportVars
  <1>5. ASSUME NEW k \in Callers, NEW i \in Images, UpgradeStart(k, i) PROVE TypeInv'
    BY <1>5, <1>1 DEF UpgradeStart, Begin, installVars, rebootVars, reportVars
  <1>6. ASSUME NEW k \in Callers, RebootStart(k) PROVE TypeInv'
    BY <1>6, <1>1 DEF RebootStart, Begin, installVars, rebootVars, reportVars
  <1>7. ASSUME NEW k \in Callers, Check(k) PROVE TypeInv'
    BY <1>7, <1>1 DEF Check, installVars, rebootVars, reportVars
  <1>8. ASSUME NEW k \in Callers, LifecycleSetImage(k) PROVE TypeInv'
    BY <1>8, <1>1 DEF LifecycleSetImage, At, Wake, rebootVars, reportVars, Call
  <1>9. ASSUME NEW k \in Callers, InstallDisk(k) PROVE TypeInv'
    BY <1>9, <1>1 DEF InstallDisk, At, rebootVars, reportVars, Call
  <1>10. ASSUME NEW k \in Callers, UpgradeSetImage(k) PROVE TypeInv'
    BY <1>10, <1>1 DEF UpgradeSetImage, At, Wake, rebootVars, reportVars, Call
  <1>11. ASSUME NEW k \in Callers, RebootTeardown(k) PROVE TypeInv'
    BY <1>11, <1>1 DEF RebootTeardown, installVars, reportVars, Reboot, NoReboot
  <1>12. ASSUME NEW k \in Callers, RebootDestroy(k) PROVE TypeInv'
    BY <1>12, <1>1 DEF RebootDestroy, installVars, reportVars, Reboot, NoReboot
  <1>13. ASSUME NEW k \in Callers, RebootCreate(k) PROVE TypeInv'
    BY <1>13, <1>1 DEF RebootCreate, installVars, reportVars, Reboot, NoReboot
  <1>14. ASSUME NEW k \in Callers, RebootRotate(k) PROVE TypeInv'
    BY <1>14, <1>1 DEF RebootRotate, installVars, reportVars
  <1>15. ASSUME NEW k \in Callers, Abort(k) PROVE TypeInv'
    <2>1. aborts' \in 0 .. MaxAborts
      BY <1>15, BoundAssumption DEF Abort
    <2> QED BY <1>1, <1>15, <2>1 DEF Abort, installVars, rebootVars, reportVars
  <1>16. CASE StatusReport
    <2>1. installer' \in Installer
      BY <1>16 DEF StatusReport, Installer
    <2>2. watch' \in [version : BOOLEAN, status : BOOLEAN]
      BY <1>16 DEF StatusReport
    <2>3. image' \in Images \union {NoImage}
      BY <1>16 DEF StatusReport, Installer
    <2> QED
      BY <1>1, <1>16, <2>1, <2>2, <2>3 DEF StatusReport, Stages, StageOf, rebootVars,
         callVars, reportVars
  <1>17. CASE StatusSetImage
    <2>1. installer' \in Installer
      BY <1>17 DEF StatusSetImage, Installer
    <2>2. watch' \in [version : BOOLEAN, status : BOOLEAN]
      BY <1>17 DEF StatusSetImage, Wake
    <2>3. image' \in Images \union {NoImage}
      BY <1>17 DEF StatusSetImage, Installer
    <2> QED
      BY <1>1, <1>17, <2>1, <2>2, <2>3 DEF StatusSetImage, Stages, StageOf, rebootVars,
         callVars, reportVars
  <1>18. CASE StatusSetDisk
    BY <1>18, <1>1 DEF StatusSetDisk, rebootVars, callVars, Disks, Stages, StageOf,
       Installer, NotInstalling
  <1>19. CASE StatusFails
    <2>1. aborts' \in 0 .. MaxAborts
      BY <1>19, BoundAssumption DEF StatusFails
    <2> QED
      BY <1>1, <1>19, <2>1 DEF StatusFails, Wake, Installer, NotInstalling, rebootVars, reportVars
  <1>20. CASE VersionReport
    BY <1>20, <1>1 DEF VersionReport, installVars, rebootVars, callVars, CurrentVersion,
       Versions
  <1>21. CASE RebootBegin
    BY <1>21, <1>1 DEF RebootBegin, Wake, installVars, reportVars, callVars, Reboot,
       NoReboot
  <1>22. CASE RebootEnd
    BY <1>22, <1>1 DEF RebootEnd, Wake, installVars, reportVars, callVars, Reboot, NoReboot
  <1>23. CASE RebootRelease
    BY <1>23, <1>1 DEF RebootRelease, Wake, installVars, reportVars, callVars, Reboot,
       NoReboot
  <1>24. CASE UNCHANGED vars
    BY <1>24, <1>1 DEF vars
  <1>25. CASE Next
    BY <1>2, <1>3, <1>4, <1>5, <1>6, <1>7, <1>8, <1>9, <1>10, <1>11, <1>12, <1>13, <1>14,
       <1>15, <1>16, <1>17, <1>18, <1>19, <1>20, <1>21, <1>22, <1>23, <1>25 DEF Next,
       CallStep, StatusStep, RebootStatusStep
  <1> QED BY <1>24, <1>25

-----------------------------------------------------------------------------
(* The other parts of the inductive invariant *)

\* sequenceMu is tried before an Upgrade or a Reboot begins.
LEMMA ExclusiveStep ==
    ASSUME TypeInv, SequenceExclusive, [Next]_vars
    PROVE  SequenceExclusive'
  <1> USE DEF TypeInv, SequenceExclusive
  <1>1. ASSUME NEW k \in Callers, NEW i \in Images, NEW d \in Disks, InstallStart(k, i, d)
        PROVE  SequenceExclusive'
    BY <1>1 DEF InstallStart, Begin, NodeTypeOK, LifecycleOps, SequenceOps
  <1>2. ASSUME NEW k \in Callers, NEW i \in Images, LifecycleUpgradeStart(k, i)
        PROVE  SequenceExclusive'
    BY <1>2 DEF LifecycleUpgradeStart, Begin, NodeTypeOK, LifecycleOps, SequenceOps
  <1>3. ASSUME NEW k \in Callers, NEW i \in Images, UpgradeStart(k, i)
        PROVE  SequenceExclusive'
    BY <1>3 DEF UpgradeStart, Begin, NodeTypeOK, Free
  <1>4. ASSUME NEW k \in Callers, RebootStart(k) PROVE SequenceExclusive'
    BY <1>4 DEF RebootStart, Begin, NodeTypeOK, Free
  <1>5. ASSUME NEW k \in Callers,
               \/ Check(k) \/ LifecycleSetImage(k) \/ InstallDisk(k)
               \/ UpgradeSetImage(k) \/ RebootTeardown(k) \/ RebootDestroy(k)
               \/ RebootCreate(k) \/ RebootRotate(k) \/ Abort(k)
        PROVE  SequenceExclusive'
    BY <1>5, GotoEffect, ReturnEffect DEF Check, LifecycleSetImage, At, Wake, InstallDisk,
       UpgradeSetImage, RebootTeardown, RebootDestroy, RebootCreate, RebootRotate, Abort,
       Idle, SequenceOps
  <1>6. CASE ControllerStep
    BY <1>6, CallsKept
  <1>7. CASE Next
    BY <1>1, <1>2, <1>3, <1>4, <1>5, <1>6, <1>7 DEF Next, CallStep, ControllerStep
  <1> QED BY <1>6, <1>7 DEF ControllerStep

\* A call keeps its operation and its image until it returns.
LEMMA ShapeStep ==
    ASSUME TypeInv, CallShape, [Next]_vars
    PROVE  CallShape'
  <1> USE DEF TypeInv, CallShape, SequenceOps, LifecycleOps, RebootPC
  <1>1. ASSUME NEW k \in Callers, NEW i \in Images, NEW d \in Disks, InstallStart(k, i, d)
        PROVE  CallShape'
    BY <1>1 DEF InstallStart, Begin, NodeTypeOK
  <1>2. ASSUME NEW k \in Callers, NEW i \in Images, LifecycleUpgradeStart(k, i)
        PROVE  CallShape'
    BY <1>2 DEF LifecycleUpgradeStart, Begin, NodeTypeOK
  <1>3. ASSUME NEW k \in Callers, NEW i \in Images, UpgradeStart(k, i) PROVE CallShape'
    BY <1>3 DEF UpgradeStart, Begin, NodeTypeOK
  <1>4. ASSUME NEW k \in Callers, RebootStart(k) PROVE CallShape'
    BY <1>4 DEF RebootStart, Begin, NodeTypeOK
  <1>5. ASSUME NEW k \in Callers, Check(k) \/ LifecycleSetImage(k) \/ InstallDisk(k)
        PROVE  CallShape'
    BY <1>5, GotoEffect, ReturnEffect DEF Check, LifecycleSetImage, At, Wake, InstallDisk,
       Idle
  <1>6. ASSUME NEW k \in Callers, UpgradeSetImage(k) PROVE CallShape'
    BY <1>6, GotoEffect, ReturnEffect DEF UpgradeSetImage, At, Wake, Idle
  <1>7. ASSUME NEW k \in Callers,
               \/ RebootTeardown(k) \/ RebootDestroy(k) \/ RebootCreate(k)
               \/ RebootRotate(k) \/ Abort(k)
        PROVE  CallShape'
    BY <1>7, GotoEffect, ReturnEffect DEF RebootTeardown, RebootDestroy, RebootCreate,
       RebootRotate, Abort, Idle
  <1>8. CASE ControllerStep
    BY <1>8, CallsKept
  <1>9. CASE Next
    BY <1>1, <1>2, <1>3, <1>4, <1>5, <1>6, <1>7, <1>8, <1>9 DEF Next, CallStep,
       ControllerStep
  <1> QED BY <1>8, <1>9 DEF ControllerStep

\* requestReboot runs alone, so nobody else makes or removes a Reboot between its steps.
LEMMA ConflictStep ==
    ASSUME TypeInv, SequenceExclusive, CallShape, RebootNeverConflicts, [Next]_vars
    PROVE  RebootNeverConflicts'
  <1> USE DEF TypeInv, SequenceExclusive, CallShape, RebootNeverConflicts, RebootPC
  <1>1. ASSUME NEW k \in Callers, NEW i \in Images, NEW d \in Disks, InstallStart(k, i, d)
        PROVE  RebootNeverConflicts'
    BY <1>1 DEF InstallStart, Begin, NodeTypeOK, rebootVars
  <1>2. ASSUME NEW k \in Callers, NEW i \in Images, LifecycleUpgradeStart(k, i)
        PROVE  RebootNeverConflicts'
    BY <1>2 DEF LifecycleUpgradeStart, Begin, NodeTypeOK, rebootVars
  <1>3. ASSUME NEW k \in Callers, NEW i \in Images, UpgradeStart(k, i)
        PROVE  RebootNeverConflicts'
    BY <1>3 DEF UpgradeStart, Begin, NodeTypeOK, rebootVars
  <1>4. ASSUME NEW k \in Callers, RebootStart(k) PROVE RebootNeverConflicts'
    BY <1>4 DEF RebootStart, Begin, NodeTypeOK, rebootVars
  <1>5. ASSUME NEW k \in Callers,
               \/ Check(k) \/ LifecycleSetImage(k) \/ InstallDisk(k) \/ Abort(k)
        PROVE  RebootNeverConflicts'
    BY <1>5, GotoEffect, ReturnEffect DEF Check, LifecycleSetImage, At, Wake, InstallDisk,
       Abort, Idle, rebootVars
  <1>6. ASSUME NEW k \in Callers, UpgradeSetImage(k) PROVE RebootNeverConflicts'
    BY <1>6, GotoEffect, ReturnEffect DEF UpgradeSetImage, At, Wake, Idle, rebootVars
  <1>7. ASSUME NEW k \in Callers, RebootTeardown(k) PROVE RebootNeverConflicts'
    <2>1. CASE reboot.phase = "absent"
      BY <1>7, <2>1, GotoEffect DEF RebootTeardown
    <2>2. CASE reboot.phase # "absent"
      <3>1. reboot'.phase = "tearingDown" /\ call'[k].pc = "destroy"
        BY <1>7, <2>2, GotoEffect DEF RebootTeardown, NodeTypeOK, Reboot
      <3>2. \A l \in Callers \ {k} : call'[l].pc \notin {"create", "destroy"}
        BY <1>7, <2>2, GotoEffect DEF RebootTeardown
      <3> QED BY <3>1, <3>2
    <2> QED BY <2>1, <2>2
  <1>8. ASSUME NEW k \in Callers, RebootDestroy(k) PROVE RebootNeverConflicts'
    BY <1>8, GotoEffect, ReturnEffect DEF RebootDestroy, NoReboot
  <1>9. ASSUME NEW k \in Callers, RebootCreate(k) PROVE RebootNeverConflicts'
    BY <1>9, GotoEffect, ReturnEffect DEF RebootCreate, Idle
  <1>10. ASSUME NEW k \in Callers, RebootRotate(k) PROVE RebootNeverConflicts'
    BY <1>10, GotoEffect, ReturnEffect DEF RebootRotate, Idle
  <1>11. CASE ControllerStep
    BY <1>11, CallsKept, PhaseKept
  <1>12. CASE Next
    BY <1>1, <1>2, <1>3, <1>4, <1>5, <1>6, <1>7, <1>8, <1>9, <1>10, <1>11, <1>12 DEF Next,
       CallStep, ControllerStep
  <1> QED BY <1>11, <1>12 DEF ControllerStep

\* The Upgrade that changes the image goes on to requestReboot, and nothing but the end of
\* its context stops it before the new boot ID.
LEMMA OwedStep ==
    ASSUME TypeInv, CallShape, RebootNeverConflicts, OwedIsPending, [Next]_vars
    PROVE  OwedIsPending'
  <1> USE DEF TypeInv, RebootNeverConflicts, OwedIsPending, RebootPC
  <1>1. ASSUME NEW k \in Callers, NEW i \in Images, NEW d \in Disks, InstallStart(k, i, d)
        PROVE  OwedIsPending'
    BY <1>1 DEF InstallStart, Begin, NodeTypeOK, Idle
  <1>2. ASSUME NEW k \in Callers, NEW i \in Images, LifecycleUpgradeStart(k, i)
        PROVE  OwedIsPending'
    BY <1>2 DEF LifecycleUpgradeStart, Begin, NodeTypeOK, Idle
  <1>3. ASSUME NEW k \in Callers, NEW i \in Images, UpgradeStart(k, i) PROVE OwedIsPending'
    BY <1>3 DEF UpgradeStart, Begin, NodeTypeOK, Idle
  <1>4. ASSUME NEW k \in Callers, RebootStart(k) PROVE OwedIsPending'
    BY <1>4 DEF RebootStart, Begin, NodeTypeOK, Idle
  <1>5. ASSUME NEW k \in Callers, Check(k) \/ LifecycleSetImage(k) \/ InstallDisk(k)
        PROVE  OwedIsPending'
    BY <1>5, GotoEffect, ReturnEffect DEF Check, LifecycleSetImage, At, Wake, InstallDisk
  <1>6. ASSUME NEW k \in Callers, UpgradeSetImage(k) PROVE OwedIsPending'
    BY <1>6, GotoEffect, ReturnEffect DEF UpgradeSetImage, At, Wake
  <1>7. ASSUME NEW k \in Callers, RebootTeardown(k) \/ RebootDestroy(k) PROVE OwedIsPending'
    BY <1>7, GotoEffect, ReturnEffect DEF RebootTeardown, RebootDestroy
  <1>8. ASSUME NEW k \in Callers, RebootCreate(k) PROVE OwedIsPending'
    BY <1>8, GotoEffect, ReturnEffect DEF RebootCreate
  <1>9. ASSUME NEW k \in Callers, RebootRotate(k) PROVE OwedIsPending'
    BY <1>9 DEF RebootRotate
  <1>10. ASSUME NEW k \in Callers, Abort(k) PROVE OwedIsPending'
    BY <1>10, BoundAssumption DEF Abort, NodeTypeOK
  <1>11. CASE ControllerStep
    BY <1>11, CallsKept, CountsKept DEF NodeTypeOK
  <1>12. CASE Next
    BY <1>1, <1>2, <1>3, <1>4, <1>5, <1>6, <1>7, <1>8, <1>9, <1>10, <1>11, <1>12 DEF Next,
       CallStep, ControllerStep
  <1> QED BY <1>11, <1>12 DEF ControllerStep

\* Whoever writes the SystemDisk has written an image, and nobody takes it away.
LEMMA DiskStep ==
    ASSUME TypeInv, CallShape, DiskAfterImage, InstalledHasImage, [Next]_vars
    PROVE  (DiskAfterImage /\ InstalledHasImage)'
  <1> USE DEF TypeInv, CallShape, DiskAfterImage, InstalledHasImage
  <1>1. ASSUME NEW k \in Callers, NEW i \in Images, NEW d \in Disks, InstallStart(k, i, d)
        PROVE  (DiskAfterImage /\ InstalledHasImage)'
    BY <1>1 DEF InstallStart, Begin, installVars, rebootVars, reportVars, NodeTypeOK
  <1>2. ASSUME NEW k \in Callers, NEW i \in Images, LifecycleUpgradeStart(k, i)
        PROVE  (DiskAfterImage /\ InstalledHasImage)'
    BY <1>2 DEF LifecycleUpgradeStart, Begin, installVars, rebootVars, reportVars,
       NodeTypeOK
  <1>3. ASSUME NEW k \in Callers, NEW i \in Images, UpgradeStart(k, i)
        PROVE  (DiskAfterImage /\ InstalledHasImage)'
    BY <1>3 DEF UpgradeStart, Begin, installVars, rebootVars, reportVars, NodeTypeOK
  <1>4. ASSUME NEW k \in Callers, RebootStart(k) PROVE (DiskAfterImage /\ InstalledHasImage)'
    BY <1>4 DEF RebootStart, Begin, installVars, rebootVars, reportVars, NodeTypeOK
  <1>5. ASSUME NEW k \in Callers, Check(k) \/ RebootTeardown(k) \/ RebootDestroy(k)
        PROVE  (DiskAfterImage /\ InstalledHasImage)'
    BY <1>5, GotoEffect, ReturnEffect DEF Check, installVars, rebootVars, reportVars,
       RebootTeardown, RebootDestroy, Idle
  <1>6. ASSUME NEW k \in Callers, LifecycleSetImage(k)
        PROVE  (DiskAfterImage /\ InstalledHasImage)'
    BY <1>6, GotoEffect, ReturnEffect, ImageAssumption DEF LifecycleSetImage, At, Wake,
       rebootVars, reportVars, Idle, LifecycleOps
  <1>7. ASSUME NEW k \in Callers, InstallDisk(k) PROVE (DiskAfterImage /\ InstalledHasImage)'
    BY <1>7, GotoEffect, ReturnEffect DEF InstallDisk, At, rebootVars, reportVars, Idle
  <1>8. ASSUME NEW k \in Callers, UpgradeSetImage(k)
        PROVE  (DiskAfterImage /\ InstalledHasImage)'
    BY <1>8, GotoEffect, ReturnEffect, ImageAssumption DEF UpgradeSetImage, At, Wake,
       rebootVars, reportVars, Idle
  <1>9. ASSUME NEW k \in Callers, RebootCreate(k) \/ RebootRotate(k) \/ Abort(k)
        PROVE  (DiskAfterImage /\ InstalledHasImage)'
    BY <1>9, GotoEffect, ReturnEffect DEF RebootCreate, installVars, reportVars,
       RebootRotate, Abort, rebootVars, Idle
  <1>10. ASSUME NEW i \in Images \union {NoImage}, Configure(i)
        PROVE  (DiskAfterImage /\ InstalledHasImage)'
    BY <1>10 DEF Configure, Wake, callVars, rebootVars, reportVars
  <1>11. CASE StatusReport
    BY <1>11 DEF StatusReport, rebootVars, callVars, NodeTypeOK
  <1>12. CASE StatusSetImage
    BY <1>12 DEF StatusSetImage, Wake, rebootVars, callVars, reportVars, NodeTypeOK,
       Installer
  <1>13. CASE StatusSetDisk
    BY <1>13 DEF StatusSetDisk, rebootVars, callVars, NotInstalling
  <1>14. CASE StatusFails
    BY <1>14 DEF StatusFails, Wake, rebootVars, reportVars, NotInstalling
  <1>15. CASE VersionReport
    BY <1>15 DEF VersionReport, installVars, rebootVars, callVars
  <1>16. CASE RebootBegin
    BY <1>16 DEF RebootBegin, Wake, installVars, reportVars, callVars
  <1>17. CASE RebootEnd
    BY <1>17 DEF RebootEnd, Wake, installVars, reportVars, callVars
  <1>18. CASE RebootRelease
    BY <1>18 DEF RebootRelease, Wake, installVars, reportVars, callVars
  <1>19. CASE UNCHANGED vars
    BY <1>19 DEF vars
  <1>20. CASE Next
    BY <1>1, <1>2, <1>3, <1>4, <1>5, <1>6, <1>7, <1>8, <1>9, <1>10, <1>11, <1>12, <1>13,
       <1>14, <1>15, <1>16, <1>17, <1>18, <1>19, <1>20 DEF Next, CallStep, StatusStep,
       RebootStatusStep
  <1> QED BY <1>19, <1>20

\* Every change of what was read leaves an event behind.
LEMMA ReportStep ==
    ASSUME TypeInv, InstallerCurrent, ReportsCurrent, InstalledHasImage', [Next]_vars
    PROVE  (InstallerCurrent /\ ReportsCurrent)'
  <1> USE DEF TypeInv, InstallerCurrent, ReportsCurrent, StageOf
  <1>1. ASSUME NEW k \in Callers, NEW i \in Images, NEW d \in Disks, InstallStart(k, i, d)
        PROVE  (InstallerCurrent /\ ReportsCurrent)'
    BY <1>1 DEF InstallStart, Begin, installVars, rebootVars, reportVars
  <1>2. ASSUME NEW k \in Callers, NEW i \in Images, LifecycleUpgradeStart(k, i)
        PROVE  (InstallerCurrent /\ ReportsCurrent)'
    BY <1>2 DEF LifecycleUpgradeStart, Begin, installVars, rebootVars, reportVars
  <1>3. ASSUME NEW k \in Callers, NEW i \in Images, UpgradeStart(k, i)
        PROVE  (InstallerCurrent /\ ReportsCurrent)'
    BY <1>3 DEF UpgradeStart, Begin, installVars, rebootVars, reportVars
  <1>4. ASSUME NEW k \in Callers, RebootStart(k) PROVE (InstallerCurrent /\ ReportsCurrent)'
    BY <1>4 DEF RebootStart, Begin, installVars, rebootVars, reportVars
  <1>5. ASSUME NEW k \in Callers, Check(k) PROVE (InstallerCurrent /\ ReportsCurrent)'
    BY <1>5 DEF Check, installVars, rebootVars, reportVars, NodeTypeOK
  <1>6. ASSUME NEW k \in Callers, LifecycleSetImage(k)
        PROVE  (InstallerCurrent /\ ReportsCurrent)'
    BY <1>6 DEF LifecycleSetImage, At, Wake, rebootVars, reportVars, NodeTypeOK
  <1>7. ASSUME NEW k \in Callers, InstallDisk(k) PROVE (InstallerCurrent /\ ReportsCurrent)'
    BY <1>7 DEF InstallDisk, At, rebootVars, reportVars, NodeTypeOK
  <1>8. ASSUME NEW k \in Callers, UpgradeSetImage(k)
        PROVE  (InstallerCurrent /\ ReportsCurrent)'
    BY <1>8 DEF UpgradeSetImage, At, Wake, rebootVars, reportVars, NodeTypeOK
  <1>9. ASSUME NEW k \in Callers, RebootTeardown(k)
        PROVE  (InstallerCurrent /\ ReportsCurrent)'
    BY <1>9 DEF RebootTeardown, installVars, reportVars, NodeTypeOK
  <1>10. ASSUME NEW k \in Callers, RebootDestroy(k)
        PROVE  (InstallerCurrent /\ ReportsCurrent)'
    BY <1>10 DEF RebootDestroy, installVars, reportVars, NodeTypeOK
  <1>11. ASSUME NEW k \in Callers, RebootCreate(k)
        PROVE  (InstallerCurrent /\ ReportsCurrent)'
    BY <1>11 DEF RebootCreate, installVars, reportVars, NodeTypeOK
  <1>12. ASSUME NEW k \in Callers, RebootRotate(k)
        PROVE  (InstallerCurrent /\ ReportsCurrent)'
    BY <1>12 DEF RebootRotate, installVars, reportVars, NodeTypeOK
  <1>13. ASSUME NEW k \in Callers, Abort(k) PROVE (InstallerCurrent /\ ReportsCurrent)'
    BY <1>13 DEF Abort, installVars, rebootVars, reportVars, NodeTypeOK
  <1>14. ASSUME NEW i \in Images \union {NoImage}, Configure(i)
        PROVE  (InstallerCurrent /\ ReportsCurrent)'
    BY <1>14 DEF Configure, Wake, callVars, rebootVars, reportVars, NodeTypeOK
  <1>15. CASE StatusReport
    BY <1>15 DEF StatusReport, rebootVars, callVars, NodeTypeOK
  <1>16. CASE StatusSetImage
    <2>1. watch'.version /\ (watch'.status <=> watch.status)
      BY <1>16 DEF StatusSetImage, Wake, NodeTypeOK
    <2>2. installer'.pc # "idle" /\ installer'.rebooting = installer.rebooting
      BY <1>16 DEF StatusSetImage, NodeTypeOK, Installer
    <2>3. UNCHANGED <<config, rebooting>>
      BY <1>16 DEF StatusSetImage, rebootVars
    <2>4. installer.pc # "idle"
      BY <1>16 DEF StatusSetImage
    <2> QED BY <2>1, <2>2, <2>3, <2>4
  <1>17. CASE StatusSetDisk
    BY <1>17 DEF StatusSetDisk, rebootVars, callVars, NotInstalling, NodeTypeOK
  <1>18. CASE StatusFails
    BY <1>18 DEF StatusFails, Wake, rebootVars, reportVars, NotInstalling, NodeTypeOK
  <1>19. CASE VersionReport
    BY <1>19 DEF VersionReport, installVars, rebootVars, callVars, CurrentVersion,
       NodeTypeOK
  <1>20. CASE RebootBegin
    BY <1>20 DEF RebootBegin, Wake, installVars, reportVars, callVars, NodeTypeOK
  <1>21. CASE RebootEnd
    BY <1>21 DEF RebootEnd, Wake, installVars, reportVars, callVars, NodeTypeOK
  <1>22. CASE RebootRelease
    BY <1>22 DEF RebootRelease, Wake, installVars, reportVars, callVars, NodeTypeOK
  <1>23. CASE UNCHANGED vars
    BY <1>23 DEF vars
  <1>24. CASE Next
    BY <1>1, <1>2, <1>3, <1>4, <1>5, <1>6, <1>7, <1>8, <1>9, <1>10, <1>11, <1>12, <1>13,
       <1>14, <1>15, <1>16, <1>17, <1>18, <1>19, <1>20, <1>21, <1>22, <1>23, <1>24 DEF Next,
       CallStep, StatusStep, RebootStatusStep
  <1> QED BY <1>23, <1>24

-----------------------------------------------------------------------------
(* The theorems *)

\* The machine starts with the inductive invariant ...
LEMMA InitIInv == Init => IInv
  <1> SUFFICES ASSUME Init
               PROVE  IInv
    OBVIOUS
  <1>1. TypeInv
    <2>1. aborts \in 0 .. MaxAborts
      BY BoundAssumption DEF Init
    <2>2. /\ call \in [Callers -> Call] /\ reboot \in Reboot /\ installer \in Installer
          /\ stage \in Stages
      BY CallType DEF Init, Reboot, NoReboot, Installer, NotInstalling, Stages
    <2>3. watch \in [version : BOOLEAN, status : BOOLEAN]
      BY DEF Init
    <2> QED BY <2>1, <2>2, <2>3 DEF Init, TypeInv, NodeTypeOK, AbsentIsNew
  <1>2. \A k \in Callers : call[k] = Idle
    BY DEF Init
  <1>3. SequenceExclusive /\ CallShape /\ RebootNeverConflicts
    BY <1>2 DEF SequenceExclusive, CallShape, RebootNeverConflicts, Idle, RebootPC, SequenceOps,
       LifecycleOps
  <1>4. OwedIsPending /\ DiskAfterImage /\ InstalledHasImage
    BY <1>2 DEF Init, OwedIsPending, DiskAfterImage, InstalledHasImage, Idle, NotInstalling
  <1>5. InstallerCurrent /\ ReportsCurrent
    BY <1>4 DEF Init, InstallerCurrent, ReportsCurrent
  <1> QED BY <1>1, <1>3, <1>4, <1>5 DEF IInv

\* ... and keeps it.
LEMMA NextIInv == IInv /\ [Next]_vars => IInv'
  BY TypeStep, ExclusiveStep, ShapeStep, ConflictStep, OwedStep, DiskStep, ReportStep DEF IInv

LEMMA IInvCorrect == Spec => []IInv
  BY InitIInv, NextIInv, PTL DEF Spec

\* Every value is of its type, and a RebootStatus is only there while the Reboot is held.
THEOREM TypeCorrect == Spec => []NodeTypeOK
  <1>1. IInv => NodeTypeOK
    BY DEF IInv, TypeInv
  <1> QED BY <1>1, IInvCorrect, PTL

\* Neither the creation of a Reboot nor the wait for the end of the last one meets the
\* Reboot of another call.
THEOREM RebootsApart == Spec => []RebootNeverConflicts
  <1>1. IInv => RebootNeverConflicts
    BY DEF IInv
  <1> QED BY <1>1, IInvCorrect, PTL

\* Without a call cut short, no Upgrade that changed the image ends before the machine
\* has a new boot ID: the call that is on its way to one is an Upgrade or a Reboot.
THEOREM ChangeReboots == Spec => []ChangeCausesReboot
  <1>1. IInv => ChangeCausesReboot
    BY DEF IInv, OwedIsPending, CallShape, ChangeCausesReboot, Free
  <1> QED BY <1>1, IInvCorrect, PTL

\* However Install, Upgrade and the installation of the config interleave and wherever they
\* are cut short, a SystemDisk comes with an Image.
THEOREM DiskHasImage == Spec => []InstalledHasImage
  <1>1. IInv => InstalledHasImage
    BY DEF IInv
  <1> QED BY <1>1, IInvCorrect, PTL

\* What the two reporting controllers say is current as soon as no event is pending.
THEOREM ReportsCorrect == Spec => []ReportsCurrent
  <1>1. IInv => ReportsCurrent
    BY DEF IInv
  <1> QED BY <1>1, IInvCorrect, PTL
=============================================================================
