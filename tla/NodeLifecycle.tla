---------------------------- MODULE NodeLifecycle ----------------------------
(***************************************************************************)
(* The Talos image of one emulated machine: how it is installed, upgraded  *)
(* and rebooted into.  Three writers share the Image and the SystemDisk:   *)
(*                                                                         *)
(*   - LifecycleService.Install and Upgrade, one at a time under           *)
(*     lifecycleMu;                                                        *)
(*   - MachineService.Upgrade and Reboot, one at a time under sequenceMu;  *)
(*   - MachineStatusController, which installs the image of the config on  *)
(*     a machine that has no system disk, under no lock at all.            *)
(*                                                                         *)
(* A reboot is a Reboot resource that RebootStatusController turns into a  *)
(* RebootStatus for the downtime, and a new kernel boot ID.                *)
(* VersionController and MachineStatusController report what is there.     *)
(*                                                                         *)
(* TryLock and the deferred Unlock make a call hold its lock as long as it *)
(* lasts, so the locks are read off the calls in flight.                   *)
(***************************************************************************)
EXTENDS Naturals, FiniteSets

CONSTANTS
    Images,       \* the Talos images in configs and in requests
    NoImage,      \* no Image resource, no install image
    Callers,      \* the gRPC handler goroutines that may be busy at once
    MaxAborts,    \* bound on the number of calls cut short
    InstallDiskExists \* is the install disk of the configs a disk of the machine?

ASSUME ImageAssumption == NoImage \notin Images
ASSUME BoundAssumption == MaxAborts \in Nat /\ InstallDiskExists \in BOOLEAN

VARIABLES
    config,     \* install image of the complete MachineConfig, or NoImage without one
    image,      \* the Image resource
    disk,       \* the SystemDisk: "none", a disk of the machine, or some other disk
    reboot,     \* the Reboot resource
    rebooting,  \* is there a RebootStatus?
    call,       \* handler goroutine -> the call it is serving
    installer,  \* MachineStatusController's installation: step and install image
    version,    \* the reported version, by the image it is the version of
    stage,      \* MachineStatus stage
    watch,      \* the reporting controllers: is an event pending?
    aborts,     \* calls cut short so far
    owed        \* history: an Upgrade changed the image and no new boot ID followed yet

callVars == <<call, aborts, owed>>
rebootVars == <<reboot, rebooting>>
installVars == <<config, image, disk, installer>>
reportVars == <<version, stage>>
vars == <<config, image, disk, reboot, rebooting, call, installer,
          version, stage, watch, aborts, owed>>

-----------------------------------------------------------------------------

Disks == {"known", "other"}
Default == "default"      \* the version reported without an image
Versions == Images \union {Default}

Reboot == [phase : {"absent", "running", "tearingDown"}, held : BOOLEAN, done : BOOLEAN]
NoReboot == [phase |-> "absent", held |-> FALSE, done |-> FALSE]

LifecycleOps == {"install", "lifecycleUpgrade"}
SequenceOps == {"upgrade", "reboot"}

Call == [op : {"none"} \union LifecycleOps \union SequenceOps,
         pc : {"idle", "check", "image", "disk", "teardown", "destroy", "create", "rotate"},
         image : Images \union {NoImage}, disk : Disks \union {"none"}]
Idle == [op |-> "none", pc |-> "idle", image |-> NoImage, disk |-> "none"]

Installer == [pc : {"idle", "image", "disk"}, image : Images \union {NoImage},
              rebooting : BOOLEAN]
NotInstalling == [pc |-> "idle", image |-> NoImage, rebooting |-> FALSE]

Stages == {"none", "maintenance", "installing", "running", "rebooting", "booting"}

NodeTypeOK ==
    /\ config \in Images \union {NoImage}
    /\ image \in Images \union {NoImage}
    /\ disk \in Disks \union {"none"}
    /\ reboot \in Reboot
    /\ rebooting \in BOOLEAN
    /\ rebooting => reboot.held
    /\ call \in [Callers -> Call]
    /\ installer \in Installer
    /\ version \in Versions \union {"none"}
    /\ stage \in Stages
    /\ watch \in [version : BOOLEAN, status : BOOLEAN]
    /\ aborts \in 0 .. MaxAborts
    /\ owed \in BOOLEAN

\* The boot media may have seeded the Image.
Init ==
    /\ config = NoImage /\ image \in Images \union {NoImage} /\ disk = "none"
    /\ reboot = NoReboot /\ rebooting = FALSE
    /\ call = [k \in Callers |-> Idle]
    /\ installer = NotInstalling
    /\ version = "none" /\ stage = "none"
    /\ watch = [version |-> TRUE, status |-> TRUE]
    /\ aborts = 0 /\ owed = FALSE

At(k, op, pc) == call[k].op \in op /\ call[k].pc = pc
Goto(k, pc) == call' = [call EXCEPT ![k].pc = pc]
Return(k) == call' = [call EXCEPT ![k] = Idle]

\* TryLock: no call of these is in flight.
Free(ops) == \A k \in Callers : call[k].op \notin ops

\* What wakes the reporting controllers up: both watch the config; the Image is an
\* input of one, the Version, the RebootStatus and the services of the other.
Wake(v, s) == watch' = [watch EXCEPT !.version = @ \/ v, !.status = @ \/ s]

-----------------------------------------------------------------------------
(* The configuration comes and goes through ApplyConfiguration and Reset *)

Configure(i) ==
    /\ config # i
    /\ config' = i
    /\ Wake(TRUE, TRUE)
    /\ UNCHANGED <<image, disk, installer, callVars, rebootVars, reportVars>>

-----------------------------------------------------------------------------
(* LifecycleService *)

Begin(k, op, pc, i, d) ==
    /\ call[k] = Idle
    /\ call' = [call EXCEPT ![k] = [op |-> op, pc |-> pc, image |-> i, disk |-> d]]
    /\ UNCHANGED <<installVars, rebootVars, reportVars, watch, aborts, owed>>

InstallStart(k, i, d) == Free(LifecycleOps) /\ Begin(k, "install", "check", i, d)

LifecycleUpgradeStart(k, i) ==
    Free(LifecycleOps) /\ Begin(k, "lifecycleUpgrade", "check", i, "none")

\* machineInstalled: an Install wants no SystemDisk, an upgrade wants one.
Check(k) ==
    /\ call[k].pc = "check"
    /\ IF (disk = "none") = (call[k].op = "install") THEN Goto(k, "image") ELSE Return(k)
    /\ UNCHANGED <<installVars, rebootVars, reportVars, watch, aborts, owed>>

\* setImage of the two lifecycle calls, which do not look at whether it changed.
LifecycleSetImage(k) ==
    /\ At(k, LifecycleOps, "image")
    /\ image' = call[k].image
    /\ IF call[k].op = "install" THEN Goto(k, "disk") ELSE Return(k)
    /\ Wake(TRUE, FALSE)
    /\ UNCHANGED <<config, disk, installer, rebootVars, reportVars, aborts, owed>>

InstallDisk(k) ==
    /\ At(k, {"install"}, "disk")
    /\ disk' = call[k].disk
    /\ Return(k)
    /\ UNCHANGED <<config, image, installer, rebootVars, reportVars, watch, aborts, owed>>

-----------------------------------------------------------------------------
(* MachineService: Upgrade and Reboot *)

UpgradeStart(k, i) ==
    Free(SequenceOps) /\ Begin(k, "upgrade", "check", i, "none")

\* Variant at fault: a Reboot does not try the lock.
RebootStartUnlocked(k) == Begin(k, "reboot", "teardown", NoImage, "none")

RebootStart(k) ==
    Free(SequenceOps) /\ Begin(k, "reboot", "teardown", NoImage, "none")

\* Variant at fault: every image that is no new version of the reported one is the same.
UpgradeSetImageReported(k) ==
    /\ At(k, {"upgrade"}, "image")
    /\ image' = call[k].image
    /\ owed' = (owed \/ image # call[k].image)
    /\ IF version # call[k].image THEN Goto(k, "teardown") ELSE Return(k)
    /\ Wake(TRUE, FALSE)
    /\ UNCHANGED <<config, disk, installer, rebootVars, reportVars, aborts>>

\* setImage of Upgrade: only an image that differs leads to a reboot.
UpgradeSetImage(k) ==
    /\ At(k, {"upgrade"}, "image")
    /\ image' = call[k].image
    /\ owed' = (owed \/ image # call[k].image)
    /\ IF image # call[k].image THEN Goto(k, "teardown") ELSE Return(k)
    /\ Wake(TRUE, FALSE)
    /\ UNCHANGED <<config, disk, installer, rebootVars, reportVars, aborts>>

\* requestReboot: destroyResourceByID of the last Reboot, if there is one ...
RebootTeardown(k) ==
    /\ call[k].pc = "teardown"
    /\ IF reboot.phase = "absent"
       THEN Goto(k, "create") /\ UNCHANGED reboot
       ELSE Goto(k, "destroy") /\ reboot' = [reboot EXCEPT !.phase = "tearingDown"]
    /\ UNCHANGED <<installVars, rebooting, reportVars, watch, aborts, owed>>

\* Variant at fault: the last Reboot is destroyed without waiting for its finalizer.
RebootDestroyHeld(k) ==
    /\ call[k].pc = "destroy"
    /\ reboot' = NoReboot
    /\ Goto(k, "create")
    /\ UNCHANGED <<installVars, rebooting, reportVars, watch, aborts, owed>>

RebootDestroy(k) ==
    /\ call[k].pc = "destroy"
    /\ ~reboot.held
    /\ reboot' = NoReboot
    /\ Goto(k, "create")
    /\ UNCHANGED <<installVars, rebooting, reportVars, watch, aborts, owed>>

\* ... creation of the next one, which would fail on a conflict ...
RebootCreate(k) ==
    /\ call[k].pc = "create"
    /\ IF reboot.phase = "absent"
       THEN reboot' = [NoReboot EXCEPT !.phase = "running"] /\ Goto(k, "rotate")
       ELSE Return(k) /\ UNCHANGED reboot
    /\ UNCHANGED <<installVars, rebooting, reportVars, watch, aborts, owed>>

\* ... and a new boot ID.
RebootRotate(k) ==
    /\ call[k].pc = "rotate"
    /\ owed' = FALSE
    /\ Return(k)
    /\ UNCHANGED <<installVars, reboot, rebooting, reportVars, watch, aborts>>

\* The context of a call ends wherever the call waits for the store: the client went
\* away, or APID restarted for new certificates or another address.
Abort(k) ==
    /\ call[k] # Idle /\ call[k].pc # "rotate"
    /\ aborts < MaxAborts
    /\ aborts' = aborts + 1
    /\ Return(k)
    /\ UNCHANGED <<installVars, rebootVars, reportVars, watch, owed>>

-----------------------------------------------------------------------------
(* RebootStatusController *)

\* The Reboot is held and its status published until the downtime is over.
RebootBegin ==
    /\ reboot.phase = "running" /\ ~reboot.done /\ ~rebooting
    /\ reboot' = [reboot EXCEPT !.held = TRUE]
    /\ rebooting' = TRUE
    /\ Wake(FALSE, TRUE)
    /\ UNCHANGED <<installVars, reportVars, callVars>>

\* Variant at fault: the end of the downtime wakes nobody.
RebootEndUnseen ==
    /\ reboot.phase = "running" /\ ~reboot.done
    /\ reboot' = [reboot EXCEPT !.held = TRUE, !.done = TRUE]
    /\ rebooting' = FALSE
    /\ UNCHANGED <<installVars, reportVars, callVars, watch>>

RebootEnd ==
    /\ reboot.phase = "running" /\ ~reboot.done
    /\ reboot' = [reboot EXCEPT !.held = TRUE, !.done = TRUE]
    /\ rebooting' = FALSE
    /\ Wake(FALSE, rebooting)
    /\ UNCHANGED <<installVars, reportVars, callVars>>

\* A Reboot that is being destroyed is released once its status is gone.
RebootRelease ==
    /\ reboot.phase = "tearingDown" /\ reboot.held
    /\ reboot' = [reboot EXCEPT !.held = FALSE]
    /\ rebooting' = FALSE
    /\ Wake(FALSE, rebooting)
    /\ UNCHANGED <<installVars, reportVars, callVars>>

-----------------------------------------------------------------------------
(* MachineStatusController *)

\* The stage of a configured machine, with the RebootStatus read at the beginning.
StageOf(reb) ==
    IF reb THEN "rebooting" ELSE IF version = "none" THEN "booting" ELSE "running"

\* The event is consumed and the inputs are read.  A config on a machine whose
\* SystemDisk is none of its disks is installed; the stage says so first.  When the
\* config names no disk of the machine the controller fails and is tried again.
StatusReport ==
    /\ watch.status /\ installer.pc = "idle"
    /\ \/ /\ config = NoImage
          /\ stage' = "maintenance"
          /\ UNCHANGED installer
       \/ /\ config # NoImage /\ disk = "known"
          /\ stage' = StageOf(rebooting)
          /\ UNCHANGED installer
       \/ /\ config # NoImage /\ disk # "known" /\ InstallDiskExists
          /\ installer' = [pc |-> "image", image |-> config, rebooting |-> rebooting]
          /\ stage' = "installing"
    /\ watch' = [watch EXCEPT !.status = FALSE]
    /\ UNCHANGED <<config, image, disk, rebootVars, callVars, version>>

\* setInstalledImage, whatever has been written to the Image since.
StatusSetImage ==
    /\ installer.pc = "image"
    /\ image' = installer.image
    /\ installer' = [installer EXCEPT !.pc = "disk"]
    /\ Wake(TRUE, FALSE)
    /\ UNCHANGED <<config, disk, rebootVars, callVars, reportVars>>

\* The SystemDisk is the install disk, and the reconcile goes on to the stage.
StatusSetDisk ==
    /\ installer.pc = "disk"
    /\ disk' = "known"
    /\ installer' = NotInstalling
    /\ stage' = StageOf(installer.rebooting)
    /\ UNCHANGED <<config, image, rebootVars, callVars, version, watch>>

\* A step of the installation fails: the controller is restarted with an event pending.
StatusFails ==
    /\ installer.pc # "idle"
    /\ aborts < MaxAborts
    /\ aborts' = aborts + 1
    /\ installer' = NotInstalling
    /\ Wake(FALSE, TRUE)
    /\ UNCHANGED <<config, image, disk, rebootVars, call, reportVars, owed>>

-----------------------------------------------------------------------------
(* VersionController *)

\* The Image wins over the config's install image, which wins over the default.
CurrentVersion ==
    IF image # NoImage THEN image ELSE IF config # NoImage THEN config ELSE Default

VersionReport ==
    /\ watch.version
    /\ version' = CurrentVersion
    /\ watch' = [version |-> FALSE, status |-> watch.status \/ version # CurrentVersion]
    /\ UNCHANGED <<installVars, rebootVars, callVars, stage>>

-----------------------------------------------------------------------------

CallStep(k) ==
    \/ Check(k) \/ LifecycleSetImage(k) \/ InstallDisk(k) \/ UpgradeSetImage(k)
    \/ RebootTeardown(k) \/ RebootDestroy(k) \/ RebootCreate(k) \/ RebootRotate(k)

StatusStep == StatusReport \/ StatusSetImage \/ StatusSetDisk
RebootStatusStep == RebootBegin \/ RebootEnd \/ RebootRelease

Next ==
    \/ \E i \in Images \union {NoImage} : Configure(i)
    \/ \E k \in Callers :
          \/ \E i \in Images : \/ \E d \in Disks : InstallStart(k, i, d)
                               \/ LifecycleUpgradeStart(k, i)
                               \/ UpgradeStart(k, i)
          \/ RebootStart(k)
          \/ CallStep(k)
          \/ Abort(k)
    \/ StatusStep \/ StatusFails \/ VersionReport \/ RebootStatusStep

Spec == Init /\ [][Next]_vars

-----------------------------------------------------------------------------
(* What the machine promises *)

\* destroyResourceByID has emptied the way for the next Reboot: its creation never
\* conflicts, and a call that waits with sequenceMu held waits for a Reboot that the
\* RebootStatusController is to let go of, never for the running one of another call.
RebootNeverConflicts ==
    \A k \in Callers : /\ call[k].pc = "create" => reboot.phase = "absent"
                       /\ call[k].pc = "destroy" => reboot.phase = "tearingDown"

\* setImage: a change of the image by Upgrade causes a reboot.  As soon as no Upgrade or
\* Reboot is in flight, every change has been followed by a new boot ID, unless a call
\* was cut short: its retry finds the image it wrote itself and sees no change.
ChangeCausesReboot == owed /\ aborts = 0 => ~Free(SequenceOps)

\* A machine that says it is installed knows what is installed on it, wherever an
\* installation was cut short or met another one.
InstalledHasImage == disk # "none" => image # NoImage

\* What the machine says of itself, whatever an installation, an upgrade and a reboot write
\* while they are read: installed, it has an image; and without an event pending the reported
\* version is that of the Image, and the stage is the one of the config and the RebootStatus,
\* although the installation that wrote it may have read them long before.
ReportsCurrent ==
    /\ InstalledHasImage
    /\ ~watch.version /\ image # NoImage => version = image
    /\ ~watch.status /\ installer.pc = "idle" =>
          stage = IF config = NoImage THEN "maintenance" ELSE StageOf(rebooting)
=============================================================================
