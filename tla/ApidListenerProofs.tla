------------------------- MODULE ApidListenerProofs -------------------------
(***************************************************************************)
(* Proofs about ApidListener and the certificates it follows, for any      *)
(* addresses, certificates, changes and failures.  They need no fairness.  *)
(***************************************************************************)
EXTENDS ApidListener, TLAPS

-----------------------------------------------------------------------------
(* The inductive invariant *)

\* What APID is to be: on the address of the machine, in the mode of its certificates.
Wanted == [address |-> address, insecure |-> api = NoCerts]

\* A reconcile listens on an address only, and reports that the service is up or down.
WorkIsWhole ==
    /\ work.pc = "listen" => work.address \in Addresses
    /\ work.report \in {Up, Down}

\* As long as nothing has failed, what the controller remembers is what listens, except
\* between closing the one listener and opening the next; and what it listens for, is about to
\* report or has reported is what is wanted, unless an event is waiting.
Faithful ==
    /\ group # "failed" /\ leaked = {}
    /\ work.pc # "listen" /\ started.address # NoAddress => listener = started
    /\ work.pc = "listen" => pending \/ (work.address = address /\ work.insecure = (api = NoCerts))
    /\ work.pc = "write" /\ work.report = Up => pending \/ listener = Wanted
    /\ work.pc = "idle" /\ service = Up => pending \/ listener = Wanted

IInv == ApidTypeOK /\ WorkIsWhole /\ (failures = 0 => Faithful)

-----------------------------------------------------------------------------
(* The certificates *)

\* What the steps of the inputs and of the controllers before APIDController do to it: an
\* event, if it is about the address or the certificates, and no more than that.
Follows ==
    /\ CertificatesTypeOK'
    /\ failures' = failures \/ failures' = failures + 1
    /\ pending => pending'
    /\ pending' \/ UNCHANGED <<address, api>>

LEMMA BoundFacts ==
    /\ \A n \in 0 .. MaxChanges : n < MaxChanges => n + 1 \in 0 .. MaxChanges
    /\ \A n \in 0 .. MaxFailures : n < MaxFailures => n + 1 \in 0 .. MaxFailures
  BY BoundAssumption

\* The inputs.
LEMMA EnvironmentFollows ==
    ASSUME CertificatesTypeOK, CertificatesEnvironment
    PROVE  Follows
  <1> USE BoundFacts DEF CertificatesTypeOK, Follows, Change
  <1>1. ASSUME NEW a \in Addresses \union {NoAddress}, SetAddress(a) PROVE Follows
    BY <1>1 DEF SetAddress, Changed
  <1>2. ASSUME NEW c \in Configs \union {NoConfig}, SetConfig(c) PROVE Follows
    BY <1>2 DEF SetConfig
  <1>3. CASE SetNamed
    BY <1>3 DEF SetNamed
  <1> QED BY <1>1, <1>2, <1>3 DEF CertificatesEnvironment

\* The controllers that translate.
LEMMA TranslateFollows ==
    ASSUME CertificatesTypeOK, Translate
    PROVE  Follows
  <1> USE DEF CertificatesTypeOK, Follows, Changed
  <1>1. CASE WriteType
    <2>1. TypeOfConfig \in Roles \union {"unknown"}
      BY DEF TypeOfConfig, Configs
    <2> QED BY <1>1, <2>1 DEF WriteType
  <1>2. CASE WriteRoot
    BY <1>2 DEF WriteRoot
  <1>3. CASE WriteSans
    BY <1>3 DEF WriteSans
  <1> QED BY <1>1, <1>2, <1>3 DEF Translate

\* The loops of GRPCTLSController.
LEMMA TlsFollows ==
    ASSUME CertificatesTypeOK, TlsRound
    PROVE  Follows
  <1> USE DEF CertificatesTypeOK, Follows, Untouched
  <1>1. CASE OuterWait
    BY <1>1 DEF OuterWait, Outside, Destroy, Keep, Tls
  <1>2. CASE Enter
    BY <1>2 DEF Enter, Entered, Outside, Keep, Tls
  <1>3. CASE Leave
    BY <1>3 DEF Leave, Inside, Destroy, Tls
  <1>4. CASE RootGone
    BY <1>4 DEF RootGone, Destroy
  <1>5. CASE InnerWait
    BY <1>5 DEF InnerWait, Keep
  <1>6. CASE Sign
    <2>1. root.ca \in Certs
      BY <1>6 DEF Sign, Configs, NoConfig
    <2> QED BY <1>6, <2>1 DEF Sign, Issue
  <1>7. CASE Ask
    BY <1>7 DEF Ask, Keep, Tls, Configs, NoConfig
  <1>8. CASE Signed
    BY <1>8 DEF Signed, Issue, Tls
  <1>9. CASE Cancelled
    BY <1>9 DEF Cancelled, Keep, Tls
  <1> QED BY <1>1, <1>2, <1>3, <1>4, <1>5, <1>6, <1>7, <1>8, <1>9 DEF TlsRound

\* Their failures.
LEMMA FailFollows ==
    ASSUME CertificatesTypeOK, CertificatesFail
    PROVE  Follows
  <1> USE DEF CertificatesTypeOK, Follows, Untouched, Restart, Keep
  <1>1. CASE AskFails
    BY <1>1 DEF AskFails, Tls
  <1>2. CASE Refused
    BY <1>2, BoundFacts DEF Refused, Tls
  <1> QED BY <1>1, <1>2 DEF CertificatesFail

\* Such a step leaves APID as it is, with an event if that is not what is wanted.
LEMMA CertificatesKeep ==
    ASSUME IInv, Follows, UNCHANGED apidVars
    PROVE  IInv'
  <1>1. UNCHANGED <<rebooting, started, group, listener, leaked, service, work>>
    BY DEF apidVars, serverVars
  <1>2. failures' = 0 => failures = 0
    <2>1. failures \in Nat
      BY BoundAssumption DEF IInv, ApidTypeOK, CertificatesTypeOK
    <2> QED BY <2>1 DEF Follows
  <1>3. failures = 0 => Faithful'
    BY <1>1 DEF IInv, Faithful, Wanted, Follows
  <1>4. ApidTypeOK' /\ WorkIsWhole'
    BY <1>1 DEF IInv, ApidTypeOK, WorkIsWhole, Follows
  <1> QED BY <1>2, <1>3, <1>4 DEF IInv

-----------------------------------------------------------------------------
(* The steps of APID *)

LEMMA UpIsNotDown == Up # Down /\ Up \in Status /\ Down \in Status
  BY DEF Up, Down, Status

\* The initial states satisfy the invariant.
LEMMA InitIInv == Init => IInv
  <1> SUFFICES ASSUME Init PROVE IInv
    OBVIOUS
  <1>1. CertificatesTypeOK
    <2>1. FirstAddress \in Addresses
      BY ValueAssumption DEF FirstAddress
    <2>2. 0 \in 0 .. MaxChanges /\ 0 \in 0 .. MaxFailures
      BY BoundAssumption
    <2> QED BY <2>1, <2>2 DEF Init, CertificatesInit, CertificatesTypeOK, Tls
  <1>2. ApidTypeOK
    BY <1>1, UpIsNotDown DEF Init, ApidTypeOK, Resting, Work
  <1>3. WorkIsWhole /\ Faithful
    BY UpIsNotDown DEF Init, WorkIsWhole, Faithful, Resting
  <1> QED BY <1>2, <1>3 DEF IInv

\* A reboot begins or ends, with an event.
LEMMA RebootingKeeps ==
    ASSUME IInv, SetRebooting
    PROVE  IInv'
  <1>1. UNCHANGED <<address, pipelineVars, started, group, listener, leaked, service, work, failures>>
    BY DEF SetRebooting, serverVars
  <1>2. ApidTypeOK'
    BY <1>1, BoundFacts DEF IInv, ApidTypeOK, CertificatesTypeOK, pipelineVars, SetRebooting, Change
  <1>3. WorkIsWhole'
    BY <1>1 DEF IInv, WorkIsWhole
  <1>4. Faithful => Faithful'
    BY <1>1 DEF Faithful, Wanted, pipelineVars, SetRebooting
  <1> QED BY <1>1, <1>2, <1>3, <1>4 DEF IInv

\* What a step of APID does not touch keeps the certificates well typed; a failure that is
\* counted leaves nothing to show but the types.
LEMMA InputsKeep ==
    ASSUME IInv, UNCHANGED inputVars, pending' \in BOOLEAN,
           failures' = failures \/ (failures < MaxFailures /\ failures' = failures + 1)
    PROVE  /\ CertificatesTypeOK'
           /\ rebooting' \in BOOLEAN
           /\ UNCHANGED <<address, api>>
           /\ failures' = 0 => failures = 0 /\ UNCHANGED failures
  <1>1. failures \in Nat /\ failures' \in 0 .. MaxFailures
    BY BoundFacts, BoundAssumption DEF IInv, ApidTypeOK, CertificatesTypeOK
  <1>2. failures' = 0 => failures = 0 /\ UNCHANGED failures
    BY <1>1
  <1>3. CertificatesTypeOK' /\ UNCHANGED <<address, api>>
    BY <1>1 DEF IInv, ApidTypeOK, CertificatesTypeOK, inputVars, pipelineVars
  <1> QED BY <1>2, <1>3 DEF IInv, ApidTypeOK, inputVars

\* What a reconcile has to report next.
LEMMA ReportFacts ==
    ASSUME NEW status \in {Up, Down}, NEW again \in BOOLEAN, Report(status, again)
    PROVE  work' \in Work /\ work'.pc = "write" /\ work'.report = status
  BY UpIsNotDown DEF Report, Resting, Work

LEMMA StopFailsFacts == StopFails \in BOOLEAN /\ (Faithful => ~StopFails)
  BY DEF StopFails, Faithful

\* The servers stop by themselves.
LEMMA ServeFailsKeeps ==
    ASSUME IInv, ServeFails
    PROVE  IInv'
  <1>1. /\ CertificatesTypeOK' /\ rebooting' \in BOOLEAN
        /\ failures' # 0
    BY BoundAssumption, InputsKeep DEF ServeFails, IInv, ApidTypeOK, CertificatesTypeOK
  <1>2. ApidTypeOK'
    BY <1>1 DEF IInv, ApidTypeOK, ServeFails
  <1> QED BY <1>1, <1>2 DEF IInv, WorkIsWhole, ServeFails

\* A reconcile during a reboot: APID is down, and remembered as down.
LEMMA ReconcileRebootKeeps ==
    ASSUME IInv, ReconcileReboot
    PROVE  IInv'
  <1>1. work' \in Work /\ work'.pc = "write" /\ work'.report = Down
    BY ReportFacts, StopFailsFacts DEF ReconcileReboot
  <1>2. /\ CertificatesTypeOK' /\ rebooting' \in BOOLEAN
        /\ UNCHANGED <<address, api, failures>>
    BY InputsKeep DEF ReconcileReboot, Receive
  <1>3. /\ started' \in [address : Addresses \union {NoAddress}, insecure : BOOLEAN]
        /\ started'.address = NoAddress
    BY DEF ReconcileReboot, IInv, ApidTypeOK
  <1>4. group' = "none" /\ listener' = NoListener /\ UNCHANGED <<leaked, service>>
    BY DEF ReconcileReboot, StopServers
  <1>5. ApidTypeOK'
    BY <1>1, <1>2, <1>3, <1>4 DEF IInv, ApidTypeOK
  <1>6. WorkIsWhole'
    BY <1>1 DEF WorkIsWhole
  <1>7. Faithful => Faithful'
    BY <1>1, <1>3, <1>4, UpIsNotDown DEF Faithful
  <1> QED BY <1>2, <1>5, <1>6, <1>7 DEF IInv

\* A reconcile without an address: APID is reported down and left alone.
LEMMA ReconcileWaitKeeps ==
    ASSUME IInv, ReconcileWait
    PROVE  IInv'
  <1>1. work' \in Work /\ work'.pc = "write" /\ work'.report = Down
    BY ReportFacts DEF ReconcileWait
  <1>2. /\ CertificatesTypeOK' /\ rebooting' \in BOOLEAN
        /\ UNCHANGED <<address, api, failures>>
    BY InputsKeep DEF ReconcileWait, Receive
  <1>3. UNCHANGED <<started, group, listener, leaked, service>> /\ work.pc = "idle"
    BY DEF ReconcileWait, Receive, serverVars
  <1>4. ApidTypeOK'
    BY <1>1, <1>2, <1>3 DEF IInv, ApidTypeOK
  <1>5. WorkIsWhole'
    BY <1>1 DEF WorkIsWhole
  <1>6. Faithful => Faithful'
    BY <1>1, <1>3, UpIsNotDown DEF Faithful
  <1> QED BY <1>2, <1>4, <1>5, <1>6 DEF IInv

\* A reconcile that finds APID started as wanted: what it remembers is what listens.
LEMMA ReconcileKeepKeeps ==
    ASSUME IInv, ReconcileKeep
    PROVE  IInv'
  <1>1. work' \in Work /\ work'.pc = "write" /\ work'.report = Up
    BY ReportFacts DEF ReconcileKeep
  <1>2. /\ CertificatesTypeOK' /\ rebooting' \in BOOLEAN
        /\ UNCHANGED <<address, api, failures>>
    BY InputsKeep DEF ReconcileKeep, Receive
  <1>3. /\ UNCHANGED <<started, group, listener, leaked, service>> /\ work.pc = "idle"
        /\ started = Wanted /\ started.address # NoAddress
    BY DEF ReconcileKeep, Receive, serverVars, Started, Wanted
  <1>4. ApidTypeOK'
    BY <1>1, <1>2, <1>3 DEF IInv, ApidTypeOK
  <1>5. WorkIsWhole'
    BY <1>1 DEF WorkIsWhole
  <1>6. Wanted' = Wanted
    BY <1>2 DEF Wanted
  <1>7. Faithful => Faithful'
    BY <1>1, <1>3, <1>6 DEF Faithful
  <1> QED BY <1>2, <1>4, <1>5, <1>7 DEF IInv

\* A reconcile that closes the listener, to open another one.
LEMMA ReconcileStartKeeps ==
    ASSUME IInv, ReconcileStart
    PROVE  IInv'
  <1>1. /\ CertificatesTypeOK' /\ rebooting' \in BOOLEAN
        /\ UNCHANGED <<address, api, failures>>
    BY InputsKeep DEF ReconcileStart, Receive
  <1>2. group' = "none" /\ listener' = NoListener /\ UNCHANGED <<started, leaked, service>>
    BY DEF ReconcileStart, StopServers
  <1>3. CASE StopFails
    <2>1. work' \in Work /\ work'.pc = "write" /\ work'.report = Up
      BY <1>3, ReportFacts DEF ReconcileStart
    <2>2. ApidTypeOK' /\ WorkIsWhole'
      BY <1>1, <1>2, <2>1 DEF IInv, ApidTypeOK, WorkIsWhole
    <2>3. ~Faithful
      BY <1>3, StopFailsFacts
    <2> QED BY <1>1, <2>2, <2>3 DEF IInv
  <1>4. CASE ~StopFails
    <2>1. /\ work' \in Work /\ work'.pc = "listen" /\ work'.report = Down
          /\ work'.address = address /\ work'.insecure = (api = NoCerts)
          /\ address \in Addresses
      <3>1. address \in Addresses
        BY DEF ReconcileStart, IInv, ApidTypeOK, CertificatesTypeOK
      <3>2. work' = [Resting EXCEPT !.pc = "listen", !.address = address, !.insecure = api = NoCerts]
        BY <1>4 DEF ReconcileStart
      <3> QED BY <3>1, <3>2, UpIsNotDown DEF Resting, Work
    <2>2. ApidTypeOK' /\ WorkIsWhole'
      BY <1>1, <1>2, <2>1 DEF IInv, ApidTypeOK, WorkIsWhole
    <2>3. Faithful => Faithful'
      BY <1>1, <1>2, <2>1 DEF Faithful
    <2> QED BY <1>1, <2>2, <2>3 DEF IInv
  <1> QED BY <1>3, <1>4

\* The new listener: on the address the reconcile read, and an event waits if that is not the
\* address any more.
LEMMA ListenKeeps ==
    ASSUME IInv, Listen
    PROVE  IInv'
  <1>1. work' \in Work /\ work'.pc = "write" /\ work'.report = Up
    BY ReportFacts DEF Listen
  <1>2. /\ CertificatesTypeOK' /\ rebooting' \in BOOLEAN
        /\ UNCHANGED <<address, api, failures, pending, leaked, service>>
    BY InputsKeep DEF Listen, IInv, ApidTypeOK, CertificatesTypeOK
  <1>3. /\ group' = "serving" /\ started' = listener'
        /\ listener' = [address |-> work.address, insecure |-> work.insecure]
        /\ listener' \in Listener /\ listener' # NoListener
    BY ValueAssumption DEF Listen, Listener, NoListener, IInv, ApidTypeOK, WorkIsWhole, Work
  <1>4. ApidTypeOK'
    BY <1>1, <1>2, <1>3 DEF IInv, ApidTypeOK, Listener
  <1>5. WorkIsWhole'
    BY <1>1 DEF WorkIsWhole
  <1>6. Faithful => pending' \/ listener' = Wanted'
    BY <1>2, <1>3 DEF Faithful, Wanted, Listen
  <1>7. Faithful => Faithful'
    BY <1>1, <1>2, <1>3, <1>6 DEF Faithful
  <1> QED BY <1>2, <1>4, <1>5, <1>7 DEF IInv

\* There is none: without a failure the address is not bound, so this is one.
LEMMA ListenFailsKeeps ==
    ASSUME IInv, ListenFails
    PROVE  IInv'
  <1>1. work' \in Work /\ work'.pc = "write" /\ work'.report = Up
    BY ReportFacts DEF ListenFails
  <1>2. /\ CertificatesTypeOK' /\ rebooting' \in BOOLEAN
        /\ UNCHANGED <<started, group, listener, leaked, service>>
        /\ failures' = 0 => failures = 0 /\ UNCHANGED failures
    BY InputsKeep DEF ListenFails, serverVars, IInv, ApidTypeOK, CertificatesTypeOK
  <1>3. ApidTypeOK' /\ WorkIsWhole'
    BY <1>1, <1>2 DEF IInv, ApidTypeOK, WorkIsWhole
  <1>4. failures' # 0
    <2> SUFFICES ASSUME failures' = 0 PROVE FALSE
      OBVIOUS
    <2>1. leaked = {} /\ failures' = failures /\ failures = 0
      BY <1>2 DEF IInv, Faithful
    <2> QED BY <2>1 DEF ListenFails
  <1> QED BY <1>3, <1>4 DEF IInv

\* The listener is there, and leaks.
LEMMA UpdateFailsKeeps ==
    ASSUME IInv, UpdateFails
    PROVE  IInv'
  <1>1. work' \in Work /\ work'.pc = "write" /\ work'.report = Up
    BY ReportFacts DEF UpdateFails
  <1>2. /\ CertificatesTypeOK' /\ rebooting' \in BOOLEAN
        /\ UNCHANGED <<started, group, listener, service>>
        /\ failures' # 0
    BY InputsKeep, BoundAssumption DEF UpdateFails, IInv, ApidTypeOK, CertificatesTypeOK
  <1>3. leaked' \subseteq Addresses
    BY DEF UpdateFails, IInv, ApidTypeOK, WorkIsWhole
  <1>4. ApidTypeOK' /\ WorkIsWhole'
    BY <1>1, <1>2, <1>3 DEF IInv, ApidTypeOK, WorkIsWhole
  <1> QED BY <1>2, <1>4 DEF IInv

\* The deferred write.
LEMMA WriteKeeps ==
    ASSUME IInv, Write
    PROVE  IInv'
  <1>1. work.again \in BOOLEAN /\ work.report \in {Up, Down} /\ pending \in BOOLEAN
    BY DEF IInv, ApidTypeOK, CertificatesTypeOK, WorkIsWhole, Work
  <1>2. /\ CertificatesTypeOK' /\ rebooting' \in BOOLEAN
        /\ UNCHANGED <<address, api, failures, started, group, listener, leaked>>
        /\ service' = work.report /\ (pending => pending')
    BY <1>1, InputsKeep DEF Write, serverVars
  <1>3. work' \in Work /\ work'.pc = "idle" /\ work'.report = Down
    BY UpIsNotDown DEF Write, Resting, Work
  <1>4. ApidTypeOK' /\ WorkIsWhole'
    BY <1>1, <1>2, <1>3 DEF IInv, ApidTypeOK, WorkIsWhole
  <1>5. Wanted' = Wanted
    BY <1>2 DEF Wanted
  <1>6. Faithful => Faithful'
    BY <1>2, <1>3, <1>5 DEF Faithful, Write
  <1> QED BY <1>2, <1>4, <1>6 DEF IInv

LEMMA WriteFailsKeeps ==
    ASSUME IInv, WriteFails
    PROVE  IInv'
  <1>1. work.again \in BOOLEAN /\ pending \in BOOLEAN
    BY DEF IInv, ApidTypeOK, CertificatesTypeOK, Work
  <1>2. /\ CertificatesTypeOK' /\ rebooting' \in BOOLEAN
        /\ UNCHANGED <<started, group, listener, leaked, service>>
        /\ failures' # 0
    <2>1. failures \in Nat /\ failures' = failures + 1
      BY BoundAssumption DEF WriteFails, IInv, ApidTypeOK, CertificatesTypeOK
    <2> QED BY <1>1, <2>1, InputsKeep DEF WriteFails, serverVars
  <1>3. work' \in Work /\ work'.pc = "idle" /\ work'.report = Down
    BY UpIsNotDown DEF WriteFails, Resting, Work
  <1>4. ApidTypeOK' /\ WorkIsWhole'
    BY <1>2, <1>3 DEF IInv, ApidTypeOK, WorkIsWhole
  <1> QED BY <1>2, <1>4 DEF IInv

\* The garbage collector has nothing to do before a failure.
LEMMA CollectKeeps ==
    ASSUME IInv, Collect
    PROVE  IInv'
  <1>1. /\ CertificatesTypeOK' /\ rebooting' \in BOOLEAN
        /\ UNCHANGED <<failures, started, group, listener, service, work>>
    BY InputsKeep DEF Collect, IInv, ApidTypeOK, CertificatesTypeOK
  <1>2. ApidTypeOK' /\ WorkIsWhole'
    BY <1>1 DEF IInv, ApidTypeOK, WorkIsWhole, Collect
  <1>3. failures # 0
    BY DEF IInv, Faithful, Collect
  <1> QED BY <1>1, <1>2, <1>3 DEF IInv

\* Nothing happens.
LEMMA StutterKeeps ==
    ASSUME IInv, UNCHANGED vars
    PROVE  IInv'
  <1>1. UNCHANGED apidVars /\ Follows
    BY DEF vars, apidVars, serverVars, Follows, IInv, ApidTypeOK, CertificatesTypeOK
  <1> QED BY <1>1, CertificatesKeep

\* Every step preserves the invariant.
LEMMA NextIInv == IInv /\ [Next]_vars => IInv'
  <1> SUFFICES ASSUME IInv, [Next]_vars PROVE IInv'
    OBVIOUS
  <1>1. CertificatesTypeOK
    BY DEF IInv, ApidTypeOK
  <1>2. CASE SetRebooting
    BY <1>2, RebootingKeeps
  <1>3. CASE Environment
    BY <1>1, <1>3, EnvironmentFollows, CertificatesKeep DEF Environment
  <1>4. CASE Translation
    BY <1>1, <1>4, TranslateFollows, CertificatesKeep DEF Translation
  <1>5. CASE Issuing
    BY <1>1, <1>5, TlsFollows, CertificatesKeep DEF Issuing
  <1>6. CASE Reconcile
    BY <1>6, ReconcileRebootKeeps, ReconcileWaitKeeps, ReconcileKeepKeeps, ReconcileStartKeeps,
       ListenKeeps, WriteKeeps
    DEF Reconcile
  <1>7. CASE Collect
    BY <1>7, CollectKeeps
  <1>8. CASE Fails
    <2>1. CASE CertificatesFail /\ UNCHANGED apidVars
      BY <1>1, <2>1, FailFollows, CertificatesKeep
    <2> QED BY <1>8, <2>1, ServeFailsKeeps, ListenFailsKeeps, UpdateFailsKeeps, WriteFailsKeeps DEF Fails
  <1>9. CASE UNCHANGED vars
    BY <1>9, StutterKeeps
  <1> QED BY <1>2, <1>3, <1>4, <1>5, <1>6, <1>7, <1>8, <1>9 DEF Next

-----------------------------------------------------------------------------
(* The certificates are those of the config *)

\* GRPCTLSController is woken by the inputs of the loop it is in.
LoopInputs == tls.role # "none" => tls.inputs = InnerInputs(tls.role)

\* Before the machine has a type nothing is issued.
Unstarted == mtype = "absent" => tls.role = "none" /\ api = NoCerts

\* While nothing wakes it, it is in the loop of the type of the machine, or in the outer one
\* because there is none; what it has asked for is what it would ask for now; and what it has
\* issued what it would issue.
RoleKnown == ~woken /\ tls.role # "none" => mtype = tls.role

AskedKnown ==
    ~woken /\ tls.asked # NoCerts =>
        root # NoConfig /\ root.ca = tls.asked /\ sans /\ mtype = "worker"

IssuedKnown ==
    ~woken /\ tls.asked = NoCerts =>
        /\ tls.role = "none" => passedOver \/ (mtype \notin Roles /\ api = NoCerts)
        /\ tls.role # "none" /\ root = NoConfig => api = NoCerts
        /\ tls.role # "none" /\ root # NoConfig /\ sans /\ root.role = mtype => api = root.ca

IssuedInv == LoopInputs /\ Unstarted /\ RoleKnown /\ AskedKnown /\ IssuedKnown

\* Every loop hears of the type, the inner ones of the root and the names, too.
LEMMA InputFacts ==
    /\ \A r : {"type", "root", "sans"} \subseteq InnerInputs(r)
    /\ "type" \in OuterInputs
  BY DEF InnerInputs, OuterInputs

LEMMA Hears ==
    ASSUME CertificatesTypeOK, LoopInputs
    PROVE  /\ "type" \in tls.inputs
           /\ tls.role # "none" => "root" \in tls.inputs /\ "sans" \in tls.inputs
  BY InputFacts DEF CertificatesTypeOK, Tls, LoopInputs

\* Without a certificate asked for, and awake, there is nothing to be known but the loop.
LEMMA AwakeKnows ==
    ASSUME LoopInputs', Unstarted', woken'
    PROVE  IssuedInv'
  BY DEF IssuedInv, RoleKnown, AskedKnown, IssuedKnown

\* What the controller does not look at.
LEMMA IssuedAside ==
    ASSUME IssuedInv, UNCHANGED <<mtype, root, sans, api, tls, passedOver>>, woken => woken'
    PROVE  IssuedInv'
  BY DEF IssuedInv, LoopInputs, Unstarted, RoleKnown, AskedKnown, IssuedKnown

LEMMA EnvironmentIssued ==
    ASSUME CertificatesTypeOK, IssuedInv, CertificatesEnvironment
    PROVE  IssuedInv'
  <1>1. UNCHANGED <<mtype, root, sans, api, tls, passedOver>>
    BY DEF CertificatesEnvironment, SetAddress, SetConfig, SetNamed
  <1>2. woken => woken'
    BY Zenon DEF CertificatesEnvironment, SetAddress, SetConfig, SetNamed, Changed
  <1> QED BY <1>1, <1>2, IssuedAside

\* A translation wakes the controller, unless it is in the outer loop and hears of the type only.
LEMMA TranslateIssued ==
    ASSUME CertificatesTypeOK, IssuedInv, Translate
    PROVE  IssuedInv'
  <1> USE DEF IssuedInv, LoopInputs, Unstarted
  <1>1. CASE WriteType
    <2>1. mtype' # "absent" /\ UNCHANGED <<tls, api>>
      BY <1>1 DEF WriteType, TypeOfConfig, CertificatesTypeOK, Configs, Roles
    <2>2. woken'
      BY <1>1, Hears, Zenon DEF WriteType, Changed
    <2> QED BY <2>1, <2>2, AwakeKnows
  <1>2. CASE WriteRoot \/ WriteSans
    <2>1. UNCHANGED <<tls, api, mtype, passedOver>>
      BY <1>2 DEF WriteRoot, WriteSans
    <2>2. (tls.role # "none" => woken') /\ (woken => woken')
      BY <1>2, Hears, Zenon DEF WriteRoot, WriteSans, Changed
    <2>3. tls.asked # NoCerts => woken'
      BY <2>2 DEF CertificatesTypeOK
    <2> QED BY <2>1, <2>2, <2>3 DEF RoleKnown, AskedKnown, IssuedKnown
  <1> QED BY <1>1, <1>2 DEF Translate

\* A round of the controller.
LEMMA TlsIssued ==
    ASSUME CertificatesTypeOK, IssuedInv, TlsRound
    PROVE  IssuedInv'
  <1> USE DEF CertificatesTypeOK, IssuedInv, LoopInputs, Unstarted, RoleKnown, AskedKnown,
              IssuedKnown, Untouched
  <1>1. CASE OuterWait
    <2>1. /\ tls'.role = "none" /\ tls'.asked = NoCerts /\ ~woken' /\ mtype \notin Roles
          /\ api' = NoCerts /\ UNCHANGED <<mtype, root, sans>>
      BY <1>1 DEF OuterWait, Outside, Destroy, Keep, Tls
    <2> QED BY <2>1
  <1>2. CASE Enter
    <2>1. /\ tls'.inputs = InnerInputs(tls'.role) /\ woken' /\ mtype \in Roles
          /\ UNCHANGED mtype
      BY <1>2 DEF Enter, Entered
    <2>2. mtype' # "absent"
      BY <2>1 DEF Roles
    <2> QED BY <2>1, <2>2
  <1>3. CASE Leave
    <2>1. /\ tls'.role = "none" /\ tls'.asked = NoCerts /\ ~woken' /\ api' = NoCerts
          /\ passedOver' = (passedOver \/ mtype \in Roles) /\ UNCHANGED <<mtype, root, sans>>
      BY <1>3 DEF Leave, Inside, Destroy, Tls
    <2> QED BY <2>1
  <1>4. CASE RootGone
    <2>1. /\ api' = NoCerts /\ root = NoConfig /\ mtype = tls.role /\ tls.role # "none"
          /\ tls.asked = NoCerts /\ ~woken' /\ UNCHANGED <<tls, mtype, root, sans, passedOver>>
      BY <1>4 DEF RootGone, Proceed, Inside, Destroy
    <2> QED BY <2>1
  <1>5. CASE InnerWait
    <2>1. /\ root # NoConfig /\ mtype = tls.role /\ tls.role # "none" /\ tls.asked = NoCerts
          /\ ~sans \/ root.role # mtype
          /\ ~woken' /\ UNCHANGED <<tls, api, mtype, root, sans, passedOver>>
      BY <1>5 DEF InnerWait, Proceed, Inside, Keep
    <2> QED BY <2>1
  <1>6. CASE Sign
    <2>1. /\ api' = root.ca /\ root # NoConfig /\ mtype = tls.role /\ tls.role = "controlplane"
          /\ tls.asked = NoCerts /\ ~woken' /\ UNCHANGED <<tls, mtype, root, sans, passedOver>>
      BY <1>6 DEF Sign, Proceed, Inside, Issue, NoConfig
    <2> QED BY <2>1
  <1>7. CASE Ask
    <2>1. /\ tls'.asked = root.ca /\ root # NoConfig /\ root.ca # NoCerts
          /\ mtype = "worker" /\ tls'.role = "worker" /\ tls'.inputs = tls.inputs
          /\ sans /\ ~woken' /\ UNCHANGED <<api, mtype, root, sans, passedOver>>
          /\ tls.role = "worker"
      BY <1>7, ValueAssumption DEF Ask, Proceed, Inside, Keep, Tls, Configs
    <2> QED BY <2>1
  <1>8. CASE Signed
    <2>1. /\ api' = tls.asked /\ tls.asked # NoCerts /\ tls.role = "worker"
          /\ tls'.asked = NoCerts /\ tls'.role = "worker" /\ tls'.inputs = tls.inputs
          /\ UNCHANGED <<woken, mtype, root, sans, passedOver>>
      BY <1>8 DEF Signed, Issue, Tls
    <2>2. LoopInputs' /\ Unstarted' /\ RoleKnown' /\ AskedKnown'
      BY <2>1
    <2>3. ~woken' => root' # NoConfig /\ api' = root'.ca
      BY <2>1
    <2>4. IssuedKnown'
      BY <2>1, <2>3
    <2> QED BY <2>2, <2>4
  <1>9. CASE Cancelled
    <2>1. /\ woken' /\ tls'.role = tls.role /\ tls'.inputs = tls.inputs
          /\ UNCHANGED <<api, mtype>>
      BY <1>9 DEF Cancelled, Keep, Tls
    <2> QED BY <2>1
  <1> QED BY <1>1, <1>2, <1>3, <1>4, <1>5, <1>6, <1>7, <1>8, <1>9 DEF TlsRound

\* A failure starts the controller again, with an event.
LEMMA FailIssued ==
    ASSUME CertificatesTypeOK, IssuedInv, CertificatesFail
    PROVE  IssuedInv'
  <1>1. woken' /\ tls'.role = "none" /\ UNCHANGED <<api, mtype>>
    BY DEF CertificatesFail, AskFails, Refused, Restart, Keep, Untouched, CertificatesTypeOK, Tls
  <1> QED BY <1>1, AwakeKnows DEF IssuedInv, LoopInputs, Unstarted

LEMMA InitIssued == Init => IssuedInv
  BY DEF Init, CertificatesInit, IssuedInv, LoopInputs, Unstarted, RoleKnown, AskedKnown,
     IssuedKnown

LEMMA NextIssued == IInv /\ IssuedInv /\ [Next]_vars => IssuedInv'
  <1> SUFFICES ASSUME IInv, IssuedInv, [Next]_vars PROVE IssuedInv'
    OBVIOUS
  <1>1. CertificatesTypeOK
    BY DEF IInv, ApidTypeOK
  <1>2. CASE UNCHANGED pipelineVars
    BY <1>2, IssuedAside DEF pipelineVars
  <1>3. CASE Environment
    BY <1>1, <1>3, EnvironmentIssued DEF Environment
  <1>4. CASE Translation
    BY <1>1, <1>4, TranslateIssued DEF Translation
  <1>5. CASE Issuing
    BY <1>1, <1>5, TlsIssued DEF Issuing
  <1>6. CASE CertificatesFail
    BY <1>1, <1>6, FailIssued
  <1>7. CASE SetRebooting \/ Reconcile \/ Collect
    <2>1. UNCHANGED pipelineVars
      BY <1>7 DEF SetRebooting, Reconcile, ReconcileReboot, ReconcileWait, ReconcileKeep,
         ReconcileStart, Listen, Write, Collect, inputVars
    <2> QED BY <1>2, <2>1
  <1>8. CASE Fails
    <2>1. UNCHANGED pipelineVars \/ CertificatesFail
      BY <1>8 DEF Fails, ServeFails, ListenFails, UpdateFails, WriteFails, inputVars
    <2> QED BY <1>2, <1>6, <2>1
  <1>9. CASE UNCHANGED vars
    BY <1>2, <1>9 DEF vars, pipelineVars
  <1> QED BY <1>3, <1>4, <1>5, <1>7, <1>8, <1>9 DEF Next

-----------------------------------------------------------------------------
(* The theorems *)

\* The inductive invariant holds in every behaviour of the controllers and the listener.
THEOREM IInvCorrect == Spec => []IInv
  BY InitIInv, NextIInv, PTL DEF Spec, InitNext

\* Type correctness: a listener is open exactly while the group of APID.Run serves, and a
\* certificate is asked for by workers only.
THEOREM TypeCorrect == Spec => []ApidTypeOK
  <1>1. IInv => ApidTypeOK
    BY DEF IInv
  <1> QED BY <1>1, IInvCorrect, PTL

\* APIDController.Run never looks at the listener; and still, before the first failure, an
\* APID reported healthy accepts connections on the address of the machine, in the mode of
\* its certificates, whenever no event is to come.
THEOREM HealthyCorrect == Spec => []HealthyServes
  <1>1. IInv => HealthyServes
    BY DEF IInv, Faithful, Wanted, HealthyServes
  <1> QED BY <1>1, IInvCorrect, PTL

\* For any addresses, clusters, changes and failures: when the controllers of the certificates
\* have come to rest, what they have issued is for the config the machine has now.
THEOREM IssuedCorrect == Spec => []IssuedAreCurrent
  <1>1. IInv /\ IssuedInv => IssuedAreCurrent
    <2> SUFFICES ASSUME IInv, IssuedInv, Settled, ~passedOver PROVE api = config.ca
      BY DEF IssuedAreCurrent
    <2>1. CertificatesTypeOK
      BY DEF IInv, ApidTypeOK
    <2>2. CASE config = NoConfig
      <3>1. root = NoConfig /\ NoConfig.ca = NoCerts
        BY <2>2 DEF Settled, NoConfig
      <3> QED BY <2>2, <3>1 DEF IssuedInv, IssuedKnown, Settled
    <2>3. CASE config # NoConfig
      <3>1. mtype = config.role /\ root = config /\ sans /\ mtype \in Roles
        BY <2>1, <2>3 DEF Settled, TypeOfConfig, CertificatesTypeOK, Configs
      <3> QED BY <2>3, <3>1 DEF IssuedInv, IssuedKnown, Settled
    <2> QED BY <2>2, <2>3
  <1>2. Spec => []IssuedInv
    BY InitIssued, NextIssued, IInvCorrect, PTL DEF Spec, InitNext
  <1> QED BY <1>1, <1>2, IInvCorrect, PTL
=============================================================================
