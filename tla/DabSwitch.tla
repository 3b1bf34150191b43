------------------------------ MODULE DabSwitch ------------------------------
(***************************************************************************)
(* The DAB side of class DAB (src/src/si4684.cpp): a user asks for a       *)
(* frequency or a service at any moment, the foreground pump starts at     *)
(* most one Si4684 command per pass, and answers may be late, negative,    *)
(* missing or out of date.  The module models                              *)
(*   - setFreq, setService and the cold recovery (SwitchRadioMode);        *)
(*   - one pass of scheduleNextDabCommand with processDabSwitchState;      *)
(*   - finishDabCommand for every outcome of every command;                *)
(*   - the tuner as the firmware uses it: which services it decodes and    *)
(*     whether its last tune has completed (external, see the README).     *)
(*                                                                         *)
(* A service is named by one value for its SID/CID pair, and the slideshow *)
(* component that belongs to an audio service by the same value.           *)
(*                                                                         *)
(* LoseStaleStart, ServesAnyRequest and RetuneNotDispatched are faulty     *)
(* variants of the operator that follows them: the specification does not  *)
(* use them, they test that the properties notice such a bug.              *)
(***************************************************************************)
EXTENDS SwitchPolicy, FiniteSets

CONSTANTS
  Services,         \* the audio services that exist on air
  Freqs,            \* the DAB channels
  Ensemble,         \* Ensemble[s]: the channel that carries service s
  None,             \* no service, no channel
  MaxBusyRetries,   \* DAB_TUNE_BUSY_MAX_RETRIES
  FailureLimit,     \* Watchdog::failureLimit
  StallLimit,       \* RADIO_DAB_STALL_TIMEOUT_COUNT
  MaxRequests,      \* bound: request ids in use, the first setFreq has number 2
  MaxFaults,        \* bound: commands refused without cause or not answered
  FaultyOps,        \* the operations those faults are confined to
  EarlySignal       \* may the 1 s RF poll fall due before the tune is issued?

ASSUME SwitchAssumption ==
  /\ None \notin Services /\ None \notin Freqs
  /\ Ensemble \in [Services -> Freqs]
  /\ MaxBusyRetries \in Nat
  /\ FailureLimit \in Nat \ {0}
  /\ StallLimit \in Nat \ {0}
  /\ MaxRequests \in Nat /\ MaxFaults \in Nat /\ IsFiniteSet(FaultyOps)
  /\ EarlySignal \in BOOLEAN

VARIABLES
  sw,           \* dabSwitch
  tuneReq,      \* dabTuneRequestPending
  reqFreq,      \* dabRequestedFrequency
  tuneWait,     \* dabTuneRetryNotBeforeMs lies in the future
  busyRetries,  \* dabTuneBusyRetries
  serviceReq,   \* dabServiceRequestPending
  requested,    \* dabRequestedServiceId / ComponentId
  generation,   \* dabGeneration
  cmd,          \* dabCommand, its generation and its target
  active,       \* dabActiveServiceId, None when not valid
  data,         \* dabActiveDataServiceId, None when not valid
  dataTarget,   \* dabDataServiceId / ComponentId
  serviceStart, \* ServiceStart
  waitingStc,   \* dabWaitingForStc
  stcPending,   \* dabStcPending
  stalled,      \* dabTransportStalled
  failures,     \* dabProgress.failures
  genuine,      \* dabConsecutiveCtsTimeouts
  lock,         \* signallock
  signalDue,    \* dabSignalRefreshPending
  listDue,      \* dabServiceListRefreshPending
  listReady,    \* dabServiceListReady
  list,         \* service[0 .. numberofservices - 1]
  untyped,      \* service[dabServiceTypeScanIndex .. numberofservices - 1]
  tuner,        \* the Si4684
  faults,       \* bound: faults so far
  lost          \* history: START commands that were not answered

requestVars == <<tuneReq, reqFreq, tuneWait, busyRetries, serviceReq, requested>>
ownerVars   == <<active, data, dataTarget, serviceStart>>
healthVars  == <<stalled, failures, genuine>>
listVars    == <<lock, signalDue, listDue, listReady, list, untyped>>
chipVars    == <<tuner, faults, lost>>
vars == <<sw, requestVars, generation, cmd, ownerVars, waitingStc, stcPending,
          healthVars, listVars, chipVars>>

Kinds == {"audio", "data"}
Streams == Kinds \X Services

ServiceOps == {"StopData", "StopAudio", "StartAudio", "StartData"}
TuneOps    == {"Tune", "TuneStatus"}
Background == {"SignalStatus", "ServiceList", "ServiceType", "Metadata"}

Commands ==
  [ op : {"None"} \cup ServiceOps \cup TuneOps \cup Background,
    target : Services \cup Freqs \cup {None}, gen : Nat ]

NoCmd == [op |-> "None", target |-> None, gen |-> 0]
Command(op, target) == [op |-> op, target |-> target, gen |-> generation]

\* finishDabCommand sees Ok, a device error with its reason, or a timeout that
\* the host's own service gap classifies as genuine or as host starvation.
Timeouts == {"Genuine", "HostStarved"}
Errors   == {"NotAvailable", "TuneBusy", "DeviceError"}
Results  == {"Ok"} \cup Errors \cup Timeouts

\* The Si4684: where it is tuned to, how far its last tune has come (STCINT is
\* raised in phase "done") and the services it decodes.
Tuner ==
  [ freq : Freqs \cup {None}, phase : {"idle", "tuning", "done"},
    running : SUBSET Streams ]

Counters ==
  /\ generation \in Nat /\ failures \in Nat /\ genuine \in Nat
  /\ busyRetries \in 0..MaxBusyRetries
  /\ faults \in Nat

ControlTypes ==
  /\ sw \in Controller /\ cmd \in Commands
  /\ tuneReq \in BOOLEAN /\ reqFreq \in Freqs /\ tuneWait \in BOOLEAN
  /\ serviceReq \in BOOLEAN /\ requested \in Services \cup {None}

OwnerTypes ==
  /\ active \in Services \cup {None} /\ data \in Services \cup {None}
  /\ dataTarget \in Services \cup {None} /\ serviceStart \in BOOLEAN
  /\ waitingStc \in BOOLEAN /\ stcPending \in BOOLEAN /\ stalled \in BOOLEAN

ListTypes ==
  /\ lock \in BOOLEAN /\ signalDue \in BOOLEAN /\ listDue \in BOOLEAN
  /\ listReady \in BOOLEAN
  /\ list \subseteq Services /\ untyped \subseteq list

ChipTypes == tuner \in Tuner /\ lost \subseteq Streams

TypeOK == Counters /\ ControlTypes /\ OwnerTypes /\ ListTypes /\ ChipTypes

\* setup() has booted the tuner and made its first setFreq.
Init ==
  /\ sw = RequestSwitch(Fresh("Idle", 1, 0))
  /\ tuneReq = TRUE /\ reqFreq \in Freqs /\ tuneWait = FALSE /\ busyRetries = 0
  /\ serviceReq = FALSE /\ requested = None
  /\ generation = 1
  /\ cmd = NoCmd
  /\ active = None /\ data = None /\ dataTarget = None /\ serviceStart = FALSE
  /\ waitingStc = FALSE /\ stcPending = FALSE
  /\ stalled = FALSE /\ failures = 0 /\ genuine = 0
  /\ lock = FALSE /\ signalDue = FALSE /\ listDue = FALSE /\ listReady = FALSE
  /\ list = {} /\ untyped = {}
  /\ tuner = [freq |-> None, phase |-> "idle", running |-> {}]
  /\ faults = 0 /\ lost = {}

-----------------------------------------------------------------------------
(* Requests. *)

ForgetWork ==
  /\ lock' = FALSE /\ signalDue' = FALSE /\ listDue' = FALSE
  /\ waitingStc' = FALSE /\ stcPending' = FALSE
  /\ serviceStart' = FALSE /\ serviceReq' = FALSE
  /\ tuneWait' = FALSE /\ busyRetries' = 0
  /\ failures' = 0
  /\ tuneReq' = TRUE

\* What every tune request forgets: the list, the lock and all pending work.
ForgetEnsemble == ForgetWork /\ listReady' = FALSE /\ list' = {} /\ untyped' = {}

SetFreq(f) ==
  /\ sw.requestId <= MaxRequests
  /\ sw' = RequestSwitch(sw)
  /\ generation' = generation + 1
  /\ reqFreq' = f
  /\ ForgetEnsemble
  /\ UNCHANGED <<requested, cmd, active, data, dataTarget, stalled, genuine, chipVars>>

\* The early returns: the same request is pending, or that service plays.
AlreadyServed(s) ==
  \/ serviceReq /\ requested = s
  \/ ~serviceReq /\ active = s /\ serviceStart

SetService(s) ==
  /\ sw.requestId <= MaxRequests
  /\ s \in list
  /\ ~AlreadyServed(s)
  /\ requested' = s
  /\ serviceReq' = TRUE
  /\ serviceStart' = FALSE
  /\ sw' = RequestSwitch(sw)
  /\ UNCHANGED <<tuneReq, reqFreq, tuneWait, busyRetries, generation, cmd, active,
                 data, dataTarget, waitingStc, stcPending, healthVars, listVars,
                 chipVars>>

\* doRecovery -> SwitchRadioMode: reset pin, onHardwareResetComplete, begin and
\* setFreq run in one call, and the interrupted command is aborted.
Recover ==
  /\ stalled
  /\ sw' = RequestSwitch(ResetController(sw))
  /\ generation' = generation + 2
  /\ cmd' = NoCmd
  /\ active' = None /\ data' = None
  /\ stalled' = FALSE /\ genuine' = 0
  /\ ForgetEnsemble
  /\ tuner' = [freq |-> None, phase |-> "idle", running |-> {}]
  /\ lost' = {}
  /\ UNCHANGED <<reqFreq, requested, dataTarget, faults>>

-----------------------------------------------------------------------------
(* Time and the tuner. *)

Elapse ==
  /\ sw.waiting
  /\ sw' = [sw EXCEPT !.waiting = FALSE]
  /\ UNCHANGED <<requestVars, generation, cmd, ownerVars, waitingStc, stcPending,
                 healthVars, listVars, chipVars>>

TuneRetryElapse ==
  /\ tuneWait
  /\ tuneWait' = FALSE
  /\ UNCHANGED <<sw, tuneReq, reqFreq, busyRetries, serviceReq, requested, generation,
                 cmd, ownerVars, waitingStc, stcPending, healthVars, listVars, chipVars>>

\* updateDabPeriodicRequests, the 1 s RF deadline.  setFreq rearms it, so it
\* falls due before the tune is issued only if the STOPs take that long.
SignalDue ==
  /\ tuneReq => EarlySignal
  /\ ~signalDue
  /\ signalDue' = TRUE
  /\ UNCHANGED <<sw, requestVars, generation, cmd, ownerVars, waitingStc, stcPending,
                 healthVars, lock, listDue, listReady, list, untyped, chipVars>>

TunerSettles ==
  /\ tuner.phase = "tuning"
  /\ tuner' = [tuner EXCEPT !.phase = "done"]
  /\ UNCHANGED <<sw, requestVars, generation, cmd, ownerVars, waitingStc, stcPending,
                 healthVars, listVars, faults, lost>>

\* statusChanged latches STCINT on every status byte that is read; a tune
\* command clears the bit in the tuner as soon as it is received.
Latched(phase) == stcPending \/ phase = "done"

PollStatus ==
  /\ tuner.phase = "done" /\ ~stcPending /\ cmd.op # "Tune"
  /\ stcPending' = TRUE
  /\ UNCHANGED <<sw, requestVars, generation, cmd, ownerVars, waitingStc, healthVars,
                 listVars, chipVars>>

-----------------------------------------------------------------------------
(* One foreground pass: processDabSwitchState, then scheduleNextDabCommand. *)

Free == cmd = NoCmd /\ ~stalled

\* The controller after the three tests that precede the switch statement.
Woken ==
  LET c == ServiceBackoff(sw) IN
  IF \/ c.state = "AudioOnly" /\ ~c.waiting
     \/ c.state = "Ready" /\ c.dataEvaluationRequested /\ data = None
  THEN [c EXCEPT !.state = "ResolveData"]
  ELSE c

IssueService(op, target, wait) ==
  /\ Free
  /\ Woken.state = op
  /\ target # None
  /\ cmd' = Command(op, target)
  /\ sw' = [BindCommand(Woken) EXCEPT !.state = wait]
  /\ UNCHANGED <<requestVars, generation, ownerVars, waitingStc, stcPending, healthVars,
                 listVars, chipVars>>

PassStopData   == IssueService("StopData", data, "WaitDataStop")
PassStopAudio  == IssueService("StopAudio", active, "WaitAudioStop")
PassStartAudio == serviceReq /\ IssueService("StartAudio", requested, "WaitAudioStart")
PassStartData  == IssueService("StartData", dataTarget, "WaitDataStart")

\* The pass issues no service command; the states in which it could.
QuietPass ==
  /\ Free
  /\ CASE Woken.state = "StopData"   -> data = None
       [] Woken.state = "StopAudio"  -> active = None
       [] Woken.state = "StartAudio" -> ~serviceReq
       [] OTHER                      -> Woken.state # "StartData"

\* resolveDabDataService needs a valid inventory, which only a list reply gives.
CanFindData == active # None /\ listReady

Resolved(c, found) ==
  IF active = None THEN [c EXCEPT !.state = "Failed"]
  ELSE IF untyped # {} THEN c
  ELSE IF data # None THEN [c EXCEPT !.state = "Ready", !.slsContextValid = TRUE]
  ELSE IF found THEN [c EXCEPT !.state = "StartData"]
  ELSE [c EXCEPT !.state = "Ready", !.slsContextValid = TRUE,
                 !.dataEvaluationRequested = FALSE]

Moved(found) ==
  LET c == Woken
      To(s) == [c EXCEPT !.state = s]
  IN CASE c.state = "RequestSwitch" ->
            To(DispatchRequest(data # None, active # None, tuneReq, serviceReq))
       [] c.state = "StopData"      -> To("StopAudio")
       [] c.state = "StopAudio"     -> Settle(c, "ServiceSettle")
       [] c.state = "ServiceSettle" /\ ~c.waiting ->
            To(IF serviceReq /\ ~tuneReq THEN "StartAudio" ELSE "Idle")
       [] c.state = "StartAudio"    -> To("Idle")
       [] c.state = "AudioSettle" /\ ~c.waiting -> To("ResolveData")
       [] c.state = "ResolveData"   -> Resolved(c, found)
       [] OTHER                     -> c

\* A quiet pass leaves the controller at Moved(found) and targets the data
\* component it has found.
Quiet(found) ==
  /\ QuietPass
  /\ found => CanFindData
  /\ dataTarget' = IF Woken.state = "ResolveData" /\ Moved(found).state = "StartData"
                   THEN active ELSE dataTarget
  /\ UNCHANGED <<reqFreq, tuneWait, busyRetries, serviceReq, requested, generation,
                 active, data, serviceStart, waitingStc, healthVars, chipVars>>

TuneComesFirst(found) == Moved(found).state = "Idle" /\ tuneReq

PassTune ==
  /\ Quiet(FALSE)
  /\ TuneComesFirst(FALSE) /\ ~tuneWait
  /\ sw' = [Moved(FALSE) EXCEPT !.state = "WaitTune"]
  /\ cmd' = Command("Tune", reqFreq)
  /\ tuneReq' = FALSE
  /\ stcPending' = FALSE
  /\ UNCHANGED listVars

\* STC has been seen, or RADIO_DAB_TUNE_TIMEOUT_MS has passed.
PassTuneStatus(found) ==
  /\ Quiet(found)
  /\ ~TuneComesFirst(found)
  /\ waitingStc
  /\ sw' = Moved(found)
  /\ cmd' = Command("TuneStatus", None)
  /\ stcPending' = FALSE
  /\ UNCHANGED <<tuneReq, listVars>>

\* One background command in the scheduler's priority order.  Metadata stands
\* for the commands whose answers this module ignores, DSRV bursts included.
InBackground(found, op) ==
  /\ Quiet(found)
  /\ ~TuneComesFirst(found)
  /\ ~(waitingStc /\ stcPending)
  /\ sw' = Moved(found)
  /\ cmd' = Command(op, None)
  /\ UNCHANGED <<tuneReq, stcPending, lock, listReady, list, untyped>>

PassSignal(found) ==
  /\ signalDue
  /\ InBackground(found, "SignalStatus")
  /\ signalDue' = FALSE /\ UNCHANGED listDue

PassServiceList(found) ==
  /\ ~signalDue /\ listDue /\ lock
  /\ InBackground(found, "ServiceList")
  /\ listDue' = FALSE /\ UNCHANGED signalDue

PassServiceType(found) ==
  /\ ~signalDue /\ ~(listDue /\ lock) /\ untyped # {}
  /\ InBackground(found, "ServiceType")
  /\ UNCHANGED <<signalDue, listDue>>

PassMetadata(found) ==
  /\ InBackground(found, "Metadata")
  /\ UNCHANGED <<signalDue, listDue>>

\* Nothing is due, the 100 ms gap has not passed or a busy tune backs off.
PassNothing(found) ==
  /\ Quiet(found)
  /\ ~signalDue \/ TuneComesFirst(found)
  /\ ~(waitingStc /\ stcPending) \/ TuneComesFirst(found)
  /\ TuneComesFirst(found) => tuneWait
  /\ sw' = Moved(found)
  /\ UNCHANGED <<tuneReq, cmd, stcPending, listVars>>

-----------------------------------------------------------------------------
(* The tuner's side of a command. *)

Stream(c) == <<IF c.op \in {"StopData", "StartData"} THEN "data" ELSE "audio", c.target>>

\* The tuner after it has carried out the command in flight.
CarriedOut ==
  CASE cmd.op \in {"StartAudio", "StartData"} ->
         [tuner EXCEPT !.running = @ \cup {Stream(cmd)}]
    [] cmd.op \in {"StopAudio", "StopData"} ->
         [tuner EXCEPT !.running = @ \ {Stream(cmd)}]
    [] cmd.op = "Tune" -> [freq |-> cmd.target, phase |-> "tuning", running |-> {}]
    [] cmd.op = "TuneStatus" ->
         [tuner EXCEPT !.phase = IF @ = "done" THEN "idle" ELSE @]
    [] OTHER -> tuner

\* What the tuner can answer now.
Answerable(r) ==
  /\ r = "NotAvailable" => /\ cmd.op \in {"StopAudio", "StopData"}
                           /\ Stream(cmd) \notin tuner.running
  /\ r = "TuneBusy" => cmd.op = "Tune"
  /\ r = "Ok" /\ cmd.op \in {"StartAudio", "StartData"} =>
       Ensemble[cmd.target] = tuner.freq /\ tuner.phase # "tuning"

\* A command that succeeds has been carried out, one that is refused has not,
\* and nobody knows about one that is not answered.
TunerAnswers(r) ==
  /\ Answerable(r)
  /\ tuner' \in CASE r = "Ok"       -> {CarriedOut}
                  [] r \in Errors   -> {tuner}
                  [] r \in Timeouts -> {tuner, CarriedOut}
  /\ lost' = CASE cmd.op \in ServiceOps /\ r \in Timeouts -> lost \cup {Stream(cmd)}
               [] cmd.op \in ServiceOps /\ r \in {"Ok", "NotAvailable"} -> lost \ {Stream(cmd)}
               [] cmd.op = "Tune" /\ r = "Ok" -> {}
               [] OTHER -> lost
  /\ IF r \in {"Ok", "NotAvailable"} \/ (r = "DeviceError" /\ ~Answerable("Ok"))
     THEN UNCHANGED faults
     ELSE cmd.op \in FaultyOps /\ faults < MaxFaults /\ faults' = faults + 1

-----------------------------------------------------------------------------
(* finishDabCommand. *)

OfThisTune == cmd.gen = generation

\* Watchdog::terminal; only answers of the current generation count.
FailuresAfter(r) ==
  IF ~OfThisTune THEN failures ELSE IF r \in Timeouts THEN failures + 1 ELSE 0

\* nextConsecutiveCtsTimeouts
GenuineAfter(r) == IF r = "Genuine" THEN genuine + 1 ELSE 0

Stalls(r) ==
  \/ OfThisTune /\ r \in Timeouts /\ FailuresAfter(r) >= FailureLimit
  \/ GenuineAfter(r) >= StallLimit

\* What happens first, whatever the command was.
Terminal(r) ==
  /\ cmd # NoCmd
  /\ TunerAnswers(r)
  /\ cmd' = NoCmd
  /\ failures' = FailuresAfter(r)
  /\ genuine' = GenuineAfter(r)

FinishStalled(r) ==
  /\ Stalls(r)
  /\ Terminal(r)
  /\ stalled' = TRUE
  /\ stcPending' = Latched(tuner'.phase)
  /\ UNCHANGED <<sw, requestVars, generation, ownerVars, waitingStc, listVars>>

LoseStaleStart(owner, start, stop, r) ==
  IF cmd.op = stop /\ r \in {"Ok", "NotAvailable"} THEN None ELSE owner

\* The owner of a stream after an answer to a command of a superseded tune.
Reconciled(owner, start, stop, r) ==
  CASE cmd.op = start /\ r = "Ok" -> cmd.target
    [] cmd.op = stop /\ r = "Ok" -> IF cmd.target = owner THEN None ELSE owner
    [] cmd.op = stop /\ r = "NotAvailable" -> None
    [] OTHER -> owner

\* A setFreq has superseded the command: only what the tuner really runs is kept.
FinishStale(r) ==
  /\ ~OfThisTune /\ ~Stalls(r)
  /\ Terminal(r)
  /\ active' = Reconciled(active, "StartAudio", "StopAudio", r)
  /\ data' = Reconciled(data, "StartData", "StopData", r)
  /\ stcPending' = FALSE
  /\ UNCHANGED <<sw, requestVars, generation, dataTarget, serviceStart, waitingStc,
                 stalled, listVars>>

\* The command belongs to the tune request in force and nothing has stalled.
Finish(r, ops) ==
  /\ cmd.op \in ops /\ OfThisTune /\ ~Stalls(r)
  /\ Terminal(r)
  /\ stcPending' = Latched(tuner'.phase)
  /\ UNCHANGED generation

IfCurrent(c) == IF CommandIsCurrent(sw) THEN c ELSE sw

\* A STOP that failed is retried, then a lost CTS asks for the cold recovery
\* and any other failure gives the request up.
StopFailed(r, resume) ==
  IF ~CommandIsCurrent(sw) THEN sw' = sw /\ stalled' = stalled
  ELSE IF CanRetryStop(sw) THEN sw' = BackoffStop(sw, resume) /\ stalled' = stalled
  ELSE IF r = "Genuine" THEN sw' = sw /\ stalled' = TRUE
  ELSE sw' = [sw EXCEPT !.state = "Failed"] /\ stalled' = stalled

FinishStopData(r) ==
  /\ Finish(r, {"StopData"})
  /\ IF r \in {"Ok", "NotAvailable"}
     THEN /\ data' = IF cmd.target = data THEN None ELSE data
          /\ sw' = IfCurrent([sw EXCEPT !.stopRetries = 0, !.state = "StopAudio"])
          /\ UNCHANGED stalled
     ELSE StopFailed(r, "StopData") /\ UNCHANGED data
  /\ UNCHANGED <<requestVars, active, dataTarget, serviceStart, waitingStc, listVars>>

FinishStopAudio(r) ==
  /\ Finish(r, {"StopAudio"})
  /\ IF r \in {"Ok", "NotAvailable"}
     THEN /\ active' = IF cmd.target = active THEN None ELSE active
          /\ serviceStart' = (serviceStart /\ cmd.target # active)
          /\ sw' = IfCurrent(Settle([sw EXCEPT !.stopRetries = 0], "ServiceSettle"))
          /\ UNCHANGED stalled
     ELSE StopFailed(r, "StopAudio") /\ UNCHANGED <<active, serviceStart>>
  /\ UNCHANGED <<requestVars, data, dataTarget, waitingStc, listVars>>

\* The audio START is retried until it succeeds or is superseded: after the
\* fast retries the service list is read again and the attempt is deferred.
StartAudioFailed ==
  IF ~CommandIsCurrent(sw) THEN sw' = sw /\ listDue' = listDue
  ELSE IF CanRetryAudio(sw) THEN sw' = BackoffAudio(sw) /\ listDue' = listDue
  ELSE /\ sw' = BackoffTo([sw EXCEPT !.audioRetries = 0], "StartAudio")
       /\ listDue' = lock

\* A START that succeeds serves the request unless a newer one has come.
ServesAnyRequest(r) == r = "Ok"
Serves(r) == r = "Ok" /\ CommandIsCurrent(sw) /\ cmd.target = requested

FinishStartAudio(r) ==
  /\ Finish(r, {"StartAudio"})
  /\ serviceReq' = (serviceReq /\ ~Serves(r))
  /\ IF r = "Ok"
     THEN /\ active' = cmd.target
          /\ serviceStart' = (serviceStart \/ Serves(r))
          /\ sw' = IF Serves(r) THEN Settle([sw EXCEPT !.audioRetries = 0], "AudioSettle")
                                ELSE sw
          /\ UNCHANGED listDue
     ELSE /\ serviceStart' = FALSE
          /\ StartAudioFailed
          /\ UNCHANGED active
  /\ UNCHANGED <<tuneReq, reqFreq, tuneWait, busyRetries, requested, data, dataTarget,
                 waitingStc, stalled, lock, signalDue, listReady, list, untyped>>

FinishStartData(r) ==
  /\ Finish(r, {"StartData"})
  /\ data' = IF r = "Ok" THEN cmd.target ELSE data
  /\ sw' = IF ~CommandIsCurrent(sw) THEN sw
           ELSE IF r = "Ok"
             THEN IF cmd.target = dataTarget
                  THEN [sw EXCEPT !.dataRetries = 0, !.dataEvaluationRequested = FALSE,
                                  !.slsContextValid = TRUE, !.state = "Ready"]
                  ELSE sw
           ELSE IF CanRetryData(sw) THEN BackoffData(sw) ELSE DeferData(sw)
  /\ UNCHANGED <<requestVars, active, dataTarget, serviceStart, waitingStc, stalled, listVars>>

RetuneNotDispatched(r) ==
  /\ tuneReq' = (r \in Timeouts)
  /\ waitingStc' = FALSE
  /\ sw' = IF r \in Timeouts THEN sw ELSE [sw EXCEPT !.state = "Failed"]

\* A tune that is not answered is issued again; one that is refused ends it.
TuneFailed(r) ==
  /\ tuneReq' = (r \in Timeouts)
  /\ waitingStc' = FALSE
  /\ sw' = [sw EXCEPT !.state = IF r \in Timeouts THEN "RequestSwitch" ELSE "Failed"]

\* TUNE_BUSY: the tune stays requested and is sent again after a back-off.
CanRetryTune(r) == r = "TuneBusy" /\ busyRetries < MaxBusyRetries

RetryTune ==
  /\ busyRetries' = busyRetries + 1 /\ tuneWait' = TRUE
  /\ tuneReq' = TRUE /\ waitingStc' = FALSE
  /\ sw' = [sw EXCEPT !.state = "Idle"]

FinishTune(r) ==
  /\ Finish(r, {"Tune"})
  /\ \/ /\ r = "Ok"
        /\ waitingStc' = TRUE /\ busyRetries' = 0 /\ tuneWait' = FALSE
        /\ UNCHANGED <<sw, tuneReq>>
     \/ CanRetryTune(r) /\ RetryTune
     \/ /\ r # "Ok" /\ ~CanRetryTune(r)
        /\ TuneFailed(r)
        /\ UNCHANGED <<busyRetries, tuneWait>>
  /\ UNCHANGED <<reqFreq, serviceReq, requested, ownerVars, stalled, listVars>>

\* The RF state: a lock needs a channel and a tune that has completed.
LockAfter == {FALSE, tuner.freq # None /\ tuner.phase # "tuning"}

FinishTuneStatus(r) ==
  /\ Finish(r, {"TuneStatus"})
  /\ IF r = "Ok"
     THEN /\ lock' \in LockAfter
          /\ waitingStc' = FALSE
          /\ sw' = [sw EXCEPT !.state = "Idle"]
          /\ listDue' = (listDue \/ lock')
          /\ UNCHANGED tuneReq
     ELSE TuneFailed(r) /\ UNCHANGED <<lock, listDue>>
  /\ UNCHANGED <<reqFreq, tuneWait, busyRetries, serviceReq, requested, ownerVars, stalled,
                 signalDue, listReady, list, untyped>>

\* Only a lock that appears makes a periodic RF reading refresh the list.
FinishSignal(r) ==
  /\ Finish(r, {"SignalStatus"})
  /\ lock' \in IF r = "Ok" THEN LockAfter ELSE {lock}
  /\ listDue' = (listDue \/ (lock' /\ ~lock))
  /\ UNCHANGED <<sw, requestVars, ownerVars, waitingStc, stalled, signalDue, listReady,
                 list, untyped>>

\* What the tuner can list: nothing before its tune has completed.
OnAir == {s \in Services : Ensemble[s] = tuner.freq /\ tuner.phase # "tuning"}

\* A complete list replaces the old one, a malformed one leaves it; both make
\* the type scan start again.  A reply that cannot be read changes nothing.
FinishServiceList(r) ==
  /\ Finish(r, {"ServiceList"})
  /\ \/ /\ r = "Ok"
        /\ list' \in (SUBSET OnAir) \cup {list}
        /\ listReady' \in IF list' = list THEN {listReady, TRUE} ELSE {TRUE}
        /\ untyped' = list'
        /\ sw' = RequestDataEvaluation(sw)
     \/ UNCHANGED <<list, listReady, untyped, sw>>
  /\ UNCHANGED <<requestVars, ownerVars, waitingStc, stalled, lock, signalDue, listDue>>

FinishServiceType(r) ==
  /\ Finish(r, {"ServiceType"})
  /\ IF r = "Ok" /\ untyped # {}
     THEN /\ \E s \in untyped : untyped' = untyped \ {s}
          /\ sw' = RequestDataEvaluation(sw)
     ELSE UNCHANGED <<untyped, sw>>
  /\ UNCHANGED <<requestVars, ownerVars, waitingStc, stalled, lock, signalDue, listDue,
                 listReady, list>>

\* An event answer may ask for the list again.
FinishMetadata(r) ==
  /\ Finish(r, {"Metadata"})
  /\ listDue' \in IF r = "Ok" THEN {listDue, TRUE} ELSE {listDue}
  /\ UNCHANGED <<sw, requestVars, ownerVars, waitingStc, stalled, lock, signalDue, listReady,
                 list, untyped>>

-----------------------------------------------------------------------------
Request == (\E f \in Freqs : SetFreq(f)) \/ (\E s \in Services : SetService(s))

Pass ==
  \/ PassStopData \/ PassStopAudio \/ PassStartAudio \/ PassStartData \/ PassTune
  \/ \E found \in BOOLEAN :
       \/ PassTuneStatus(found) \/ PassSignal(found) \/ PassServiceList(found)
       \/ PassServiceType(found) \/ PassMetadata(found) \/ PassNothing(found)

FinishOne(r) ==
  \/ FinishStalled(r) \/ FinishStale(r)
  \/ FinishStopData(r) \/ FinishStopAudio(r) \/ FinishStartAudio(r) \/ FinishStartData(r)
  \/ FinishTune(r) \/ FinishTuneStatus(r) \/ FinishSignal(r)
  \/ FinishServiceList(r) \/ FinishServiceType(r) \/ FinishMetadata(r)

Finished == \E r \in Results : FinishOne(r)

Next ==
  \/ Request \/ Recover
  \/ Elapse \/ TuneRetryElapse \/ SignalDue \/ TunerSettles \/ PollStatus
  \/ Pass \/ Finished

Spec == Init /\ [][Next]_vars

-----------------------------------------------------------------------------
(* Safety. *)

\* A tune or an audio START is never at the tuner while the driver owns a
\* running service, and a slideshow START only for the service that plays
\* (processDabSwitchState, dispatchRequest and the Idle test before the tune).
TeardownFirst ==
  /\ cmd.op \in {"Tune", "StartAudio"} => active = None /\ data = None
  /\ cmd.op = "StartData" => active = cmd.target /\ data = None

\* What the driver believes to run is what runs, on every stream whose last
\* START or STOP was answered: no superseded or stale completion loses a
\* service that the tuner still decodes (finishDabCommand 3347-3389).
OwnershipReconciled ==
  \A st \in Streams \ lost :
    st \in tuner.running <=> IF st[1] = "audio" THEN st[2] = active ELSE st[2] = data

\* Slideshow data is accepted only in the context of the service the user asked
\* for last, once nothing newer is pending (slsContextValid).
SlsContextSound ==
  sw.slsContextValid =>
    active # None /\ active = requested /\ ~serviceReq /\ data \in {None, active}

\* ServiceStart, which the user interface reads, is set for the requested
\* service only while it is the active one.
PlayingAsRequested ==
  serviceStart => active # None /\ active = requested /\ ~serviceReq

\* A list that is offered to the user was read from the ensemble the tuner is
\* tuned to now (si4684.h 239-241).
ListBelongsToTunedEnsemble ==
  listReady => \A s \in list : Ensemble[s] = tuner.freq

\* A service request is never left behind by a controller that has come to
\* rest without reporting failure.
NoStrandedRequest ==
  sw.state \in {"Idle", "Ready", "AudioOnly"} => ~serviceReq

\* audioContextUsable: the states in which slideshow and programme data are
\* taken from the stream are reached only with the requested service playing.
AudioContextUsable(s) ==
  s \in {"AudioSettle", "ResolveData", "StartData", "WaitDataStart", "Ready", "AudioOnly"}

UsableContext ==
  AudioContextUsable(sw.state) => active # None /\ active = requested /\ ~serviceReq /\ ~tuneReq

\* The switch implements the nested protocol, read on the driver's own records.
Nesting == INSTANCE ServiceNesting WITH
  channel <- tuner.freq, audio <- active, slideshow <- data

ServicesNest == Nesting!NestingSpec

-----------------------------------------------------------------------------
(* The inductive invariant behind the safety properties: what a state of the *)
(* controller, or a command in flight, says about the services that run.     *)

\* The state controller c is in, or returns to when its backoff is over.
PhaseOf(c) == IF c.state = "Backoff" THEN c.resume ELSE c.state
Phase == PhaseOf(sw)

Quietened == active = None /\ data = None

\* A service command is either the one the controller waits for, or it has been
\* superseded and the controller waits for its end in RequestSwitch.
WaitOf(op) ==
  CASE op = "StopData" -> "WaitDataStop"     [] op = "StopAudio" -> "WaitAudioStop"
    [] op = "StartAudio" -> "WaitAudioStart" [] op = "StartData" -> "WaitDataStart"

CommandAccounted ==
  /\ sw.commandRequestId <= sw.requestId /\ cmd.gen <= generation
  /\ cmd.op \in ServiceOps =>
       \/ CommandIsCurrent(sw) /\ sw.state = WaitOf(cmd.op) /\ OfThisTune
       \/ ~CommandIsCurrent(sw) /\ sw.state = "RequestSwitch"

\* What each command in flight takes for granted.
CommandSafe ==
  /\ cmd.op \in {"Tune", "StartAudio"} => Quietened
  /\ cmd.op = "StartData" => active = cmd.target /\ data = None
  /\ cmd.op = "StopAudio" => active = cmd.target /\ data = None
  /\ cmd.op = "StopData"  => data = cmd.target
  /\ cmd.op \in ServiceOps => cmd.target \in Services
  /\ cmd.op = "StartAudio" /\ CommandIsCurrent(sw) => cmd.target = requested
  /\ cmd.op = "Tune" => cmd.target \in Freqs
  /\ cmd.op \in ServiceOps /\ ~OfThisTune => ~serviceStart

\* What each state takes for granted when the controller is c and the slideshow
\* component that would be started is target.
SafeIn(c, target) ==
  LET p == PhaseOf(c) IN
  /\ p \in {"StopAudio", "WaitAudioStop"} => data = None
  /\ p \in {"ServiceSettle", "StartAudio", "WaitAudioStart"} => Quietened
  /\ p \in {"StartAudio", "WaitAudioStart"} => ~tuneReq
  /\ p = "Idle" /\ tuneReq => Quietened
  /\ AudioContextUsable(p) =>
       /\ active # None /\ active = requested /\ ~serviceReq /\ ~tuneReq
       /\ data \in {None, active}
  /\ p \in {"StartData", "WaitDataStart"} => data = None /\ target = active

PhaseSafe ==
  /\ SafeIn(sw, dataTarget)
  /\ serviceReq => requested \in Services

\* A tune that is under way is not pending as well.
TunePendingOnce ==
  /\ waitingStc => ~tuneReq
  /\ cmd.op \in TuneOps /\ OfThisTune => ~tuneReq

Inductive ==
  /\ TypeOK /\ CommandAccounted /\ CommandSafe /\ PhaseSafe /\ TunePendingOnce
  /\ PlayingAsRequested /\ OwnershipReconciled

\* A tune that waits for its end has not been superseded, and its completion is
\* still to come unless the reading that collects it is under way.
TuneTracked ==
  /\ cmd # NoCmd => cmd.op # "None" /\ ~stalled
  /\ waitingStc /\ cmd # NoCmd => OfThisTune
  /\ cmd.op = "TuneStatus" /\ OfThisTune => waitingStc
  /\ waitingStc /\ tuner.phase = "idle" => cmd.op = "TuneStatus" \/ stalled

\* A service started while a tune still waits for its end gets no further than
\* its settle time: the reading that concludes the tune comes first.
TuneEndsFirst ==
  waitingStc /\ AudioContextUsable(Phase) =>
    \/ Phase = "AudioSettle" /\ (stcPending \/ cmd.op = "TuneStatus" \/ stalled)
    \/ Phase = "ResolveData" /\ (cmd.op = "TuneStatus" \/ stalled)

\* The slideshow context is given back with the audio context.
ContextKept ==
  /\ sw.slsContextValid => AudioContextUsable(Phase) /\ ~waitingStc
  /\ Phase = "Ready" => sw.slsContextValid
  /\ Phase = "AudioOnly" => data = None

\* Services are torn down for a request that is still pending.
Teardown ==
  { "RequestSwitch", "StopData", "WaitDataStop", "StopAudio", "WaitAudioStop", "ServiceSettle" }

TornDownForCause == Phase \in Teardown => serviceReq \/ tuneReq

ContextInvariant == TuneTracked /\ TuneEndsFirst /\ ContextKept /\ TornDownForCause

SwitchInvariant == Inductive /\ ContextInvariant

-----------------------------------------------------------------------------
(* Liveness.  The foreground loop keeps running passes, every command ends in *)
(* an answer or a timeout, time passes, the tuner completes its tunes and the *)
(* main loop performs the recovery it has noticed.  No request is fair.       *)
Fairness ==
  /\ WF_vars(Pass) /\ WF_vars(Finished)
  /\ WF_vars(Elapse) /\ WF_vars(TuneRetryElapse)
  /\ WF_vars(TunerSettles) /\ WF_vars(PollStatus)
  /\ WF_vars(Recover)

FairSpec == Spec /\ Fairness

\* Every requested service is started, superseded by a retune or reported as
\* failed: no retry, deferral or supersession loses the request.
ServiceRequestResolved == []<>(~serviceReq \/ sw.state = "Failed")

\* Every retune reaches the tuner and is concluded, through STOP retries, busy
\* answers, lost answers and cold recoveries, or is reported as failed.
RetuneConcluded == []<>((~tuneReq /\ ~waitingStc) \/ sw.state = "Failed")

=============================================================================
