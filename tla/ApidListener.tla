---------------------------- MODULE ApidListener ----------------------------
(***************************************************************************)
(* The APID of one machine: APIDController, which follows the SideroLink   *)
(* address, the API certificates of ApiCertificates and the RebootStatus   *)
(* of the machine, and the listener APID.Run opens and APID.Stop closes.   *)
(*                                                                         *)
(* The controller keeps in memory what it last started APID with; it does  *)
(* not look at the listener.  A reconcile is split where it leaves the     *)
(* process: closing the listener, opening the next one, and the write of   *)
(* the service status that is deferred to its end.                         *)
(***************************************************************************)
EXTENDS ApiCertificates

VARIABLES
    rebooting,                  \* is there a RebootStatus?
    started,                    \* ctrl.address and ctrl.insecure
    group,                      \* APID.eg: "none", "serving" or "failed"
    listener,                   \* where the servers accept connections, and as what
    leaked,                     \* addresses bound by listeners nobody has closed
    service,                    \* the Service resource
    work                        \* the reconcile in progress

inputVars == <<address, pipelineVars, rebooting, changes>>
serverVars == <<group, listener, leaked>>
vars == <<address, config, mtype, root, named, sans, api, tls, woken, passedOver,
          changes, rebooting, pending, started, group, listener, leaked, service, work, failures>>

-----------------------------------------------------------------------------

Listener == [address : Addresses, insecure : BOOLEAN]
NoListener == [address |-> NoAddress, insecure |-> TRUE]
Status == [running : BOOLEAN, healthy : BOOLEAN]
Up == [running |-> TRUE, healthy |-> TRUE]
Down == [running |-> FALSE, healthy |-> FALSE]
Work == [pc : {"idle", "listen", "write"}, address : Addresses \union {NoAddress},
         insecure : BOOLEAN, report : Status, again : BOOLEAN]
Resting == [pc |-> "idle", address |-> NoAddress, insecure |-> TRUE, report |-> Down, again |-> FALSE]

ApidTypeOK ==
    /\ CertificatesTypeOK
    /\ rebooting \in BOOLEAN
    /\ started \in [address : Addresses \union {NoAddress}, insecure : BOOLEAN]
    /\ group \in {"none", "serving", "failed"}
    /\ listener \in Listener \union {NoListener}
    /\ listener # NoListener <=> group = "serving"
    /\ leaked \subseteq Addresses
    /\ service \in {Up, Down}
    /\ work \in Work

Init ==
    /\ CertificatesInit
    /\ rebooting = FALSE
    /\ started = [address |-> NoAddress, insecure |-> FALSE]
    /\ group = "none" /\ listener = NoListener /\ leaked = {}
    /\ service = Down
    /\ work = Resting

-----------------------------------------------------------------------------
(* The inputs: reboots, the address and the certificates *)

SetRebooting ==
    /\ rebooting' = ~rebooting /\ Change
    /\ pending' = TRUE
    /\ UNCHANGED <<address, pipelineVars, started, serverVars, service, work, failures>>

apidVars == <<rebooting, started, serverVars, service, work>>

Environment == CertificatesEnvironment /\ UNCHANGED apidVars
Translation == Translate /\ UNCHANGED apidVars
Issuing == TlsRound /\ UNCHANGED apidVars

\* The servers stop by themselves: the error waits for APID.Stop.
ServeFails ==
    /\ group = "serving" /\ failures < MaxFailures
    /\ failures' = failures + 1
    /\ group' = "failed" /\ listener' = NoListener
    /\ UNCHANGED <<inputVars, pending, started, leaked, service, work>>

-----------------------------------------------------------------------------
(* One reconcile: Receive, at most one of the ways through it, Write *)

Receive == work.pc = "idle" /\ pending /\ pending' = FALSE

Report(status, again) ==
    work' = [Resting EXCEPT !.pc = "write", !.report = status, !.again = again]

\* APID.Stop: the listener is closed; the group is forgotten even if it failed.
StopServers == group' = "none" /\ listener' = NoListener /\ UNCHANGED leaked
StopFails == group = "failed"

\* Variant at fault: the address APID was started with outlives the reboot.
ReconcileRebootForgetless ==
    /\ Receive
    /\ rebooting
    /\ StopServers
    /\ Report(Down, StopFails)
    /\ UNCHANGED <<inputVars, started, service, failures>>

\* Variant at fault: a reboot is reported but APID is left alone.
ReconcileRebootServing ==
    /\ Receive
    /\ rebooting
    /\ Report(Down, FALSE)
    /\ UNCHANGED <<inputVars, started, serverVars, service, failures>>

ReconcileReboot ==
    /\ Receive
    /\ rebooting
    /\ started' = [started EXCEPT !.address = NoAddress]
    /\ StopServers
    /\ Report(Down, StopFails)
    /\ UNCHANGED <<inputVars, service, failures>>

\* Variant at fault: running is set before the address is known.
ReconcileWaitRunning ==
    /\ Receive
    /\ ~rebooting /\ address = NoAddress
    /\ Report([running |-> TRUE, healthy |-> FALSE], FALSE)
    /\ UNCHANGED <<inputVars, started, serverVars, service, failures>>

\* No SideroLink address: nothing is stopped, the status says down.
ReconcileWait ==
    /\ Receive
    /\ ~rebooting /\ address = NoAddress
    /\ Report(Down, FALSE)
    /\ UNCHANGED <<inputVars, started, serverVars, service, failures>>

Started == started = [address |-> address, insecure |-> api = NoCerts]

\* APID was started for this address and mode.
ReconcileKeep ==
    /\ Receive
    /\ ~rebooting /\ address # NoAddress /\ Started
    /\ Report(Up, FALSE)
    /\ UNCHANGED <<inputVars, started, serverVars, service, failures>>

\* APID.Run stops the servers first, and fails if they had failed ...
ReconcileStart ==
    /\ Receive
    /\ ~rebooting /\ address # NoAddress /\ ~Started
    /\ StopServers
    /\ IF StopFails
       THEN Report(Up, TRUE)
       ELSE work' = [Resting EXCEPT !.pc = "listen", !.address = address, !.insecure = api = NoCerts]
    /\ UNCHANGED <<inputVars, started, service, failures>>

\* ... then listens, on an address it was given before, and serves ...
Listen ==
    /\ work.pc = "listen" /\ work.address \notin leaked
    /\ group' = "serving"
    /\ listener' = [address |-> work.address, insecure |-> work.insecure]
    /\ started' = listener'
    /\ Report(Up, FALSE)
    /\ UNCHANGED <<inputVars, pending, leaked, service, failures>>

\* ... or cannot, because the address is not there or is bound already ...
ListenFails ==
    /\ work.pc = "listen"
    /\ \/ work.address \in leaked /\ UNCHANGED failures
       \/ failures < MaxFailures /\ failures' = failures + 1
    /\ Report(Up, TRUE)
    /\ UNCHANGED <<inputVars, pending, started, serverVars, service>>

\* ... or fails over the certificates, and the new listener is not closed.
UpdateFails ==
    /\ work.pc = "listen" /\ work.address \notin leaked
    /\ failures < MaxFailures
    /\ failures' = failures + 1
    /\ leaked' = leaked \union {work.address}
    /\ Report(Up, TRUE)
    /\ UNCHANGED <<inputVars, pending, started, group, listener, service>>

\* The deferred write; with an error the controller is restarted and runs again.
Write ==
    /\ work.pc = "write"
    /\ service' = work.report
    /\ pending' = (pending \/ work.again)
    /\ work' = Resting
    /\ UNCHANGED <<inputVars, started, serverVars, failures>>

\* The error of the deferred write comes too late to be returned.
WriteFails ==
    /\ work.pc = "write" /\ failures < MaxFailures
    /\ failures' = failures + 1
    /\ pending' = (pending \/ work.again)
    /\ work' = Resting
    /\ UNCHANGED <<inputVars, started, serverVars, service>>

\* The garbage collector closes a listener nobody refers to.
Collect ==
    /\ leaked # {} /\ leaked' = {}
    /\ UNCHANGED <<inputVars, pending, started, group, listener, service, work, failures>>

-----------------------------------------------------------------------------

Reconcile ==
    ReconcileReboot \/ ReconcileWait \/ ReconcileKeep \/ ReconcileStart \/ Listen \/ Write

Fails ==
    \/ ServeFails \/ ListenFails \/ UpdateFails \/ WriteFails
    \/ CertificatesFail /\ UNCHANGED apidVars

Next == SetRebooting \/ Environment \/ Translation \/ Issuing \/ Reconcile \/ Collect \/ Fails

InitNext == Init /\ [][Next]_vars

\* The controllers go on while they have something to do, trustd answers or refuses, and the
\* Go runtime collects garbage at least every few minutes.
Fairness == WF_vars(Reconcile \/ Collect) /\ WF_vars(Translation) /\ WF_vars(Issuing)

Spec == InitNext /\ Fairness

-----------------------------------------------------------------------------
(* What the controllers promise *)

\* Without an event to come and without a failure so far, a healthy APID accepts
\* connections on the address of the machine, and not in maintenance mode once there are
\* certificates.
HealthyServes ==
    failures = 0 /\ service = Up /\ work.pc = "idle" /\ ~pending =>
        listener = [address |-> address, insecure |-> api = NoCerts]

\* The controllers of the certificates have nothing to do, and nothing is on its way.
Settled ==
    /\ mtype = TypeOfConfig /\ root = config /\ sans = (config # NoConfig)
    /\ ~woken /\ tls.asked = NoCerts

\* When they have come to rest, the certificates are those of the config the machine has now,
\* and there are none without one: no answer of trustd to an earlier question, no failure and
\* no change of the role half-way through a round leaves those of another cluster behind.
IssuedAreCurrent == Settled /\ ~passedOver => api = config.ca

\* The machine has the certificates its config asks for, and APID listens on its address
\* in their mode.
Current ==
    /\ api = config.ca
    /\ listener = [address |-> address, insecure |-> config = NoConfig]

\* "the existing insecure listener" is left running until APID "is restarted in secure
\* mode": when the inputs have settled and nothing fails, the certificates and the listener
\* are those of the config and the address, however these came and went on the way.
ApidServes ==
    [](failures = 0 /\ ~passedOver) =>
        <>[](address # NoAddress /\ named /\ ~rebooting => Current)

\* A reboot takes APID down for as long as it lasts, whatever failed before.
RebootGoesDown == <>[]rebooting => <>[](listener = NoListener)
=============================================================================
