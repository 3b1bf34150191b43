---------------------------- MODULE SwitchPolicy ----------------------------
(***************************************************************************)
(* The pure part of the DAB service switch: the Controller record of       *)
(* src/src/dab_service_switch_policy.h and its member functions, as        *)
(* operators from a controller to a controller.  Nothing here knows about  *)
(* commands or about the tuner; DabSwitch drives these operators.          *)
(*                                                                         *)
(* Time is abstracted to one flag: "waiting" says that notBeforeMs lies in *)
(* the future, so ready(now) is ~waiting.  The driver clears it when the   *)
(* settle, retry or deferral interval has elapsed.  Request ids are        *)
(* naturals: the code wraps a 32-bit counter and skips 0.                  *)
(*                                                                         *)
(* KeepSlsContext, ForgetToBind, AnyCommandIsCurrent, TuneFirst and        *)
(* AudioFirst are faulty variants of the operator that follows them, used  *)
(* only to test that the properties notice such a bug.                     *)
(***************************************************************************)
EXTENDS Naturals

CONSTANTS
  MaxStopRetries,   \* MAX_STOP_RETRIES
  MaxAudioRetries,  \* MAX_AUDIO_RETRIES
  MaxDataRetries    \* MAX_DATA_RETRIES

ASSUME RetryAssumption ==
  /\ MaxStopRetries \in Nat
  /\ MaxAudioRetries \in Nat
  /\ MaxDataRetries \in Nat

State ==
  { "Idle", "RequestSwitch", "StopData", "WaitDataStop", "StopAudio",
    "WaitAudioStop", "ServiceSettle", "WaitTune", "StartAudio",
    "WaitAudioStart", "AudioSettle", "ResolveData", "StartData",
    "WaitDataStart", "Backoff", "Ready", "AudioOnly", "Failed" }

\* Resume::None is "None"; the other values name the state they lead back to.
Resume == { "None", "StopData", "StopAudio", "StartAudio", "ResolveData" }

\* The states in which a command of this controller is at the tuner.
WaitStates == { "WaitDataStop", "WaitAudioStop", "WaitAudioStart", "WaitDataStart" }

Controller ==
  [ state : State, resume : Resume,
    requestId : Nat, commandRequestId : Nat,
    waiting : BOOLEAN,
    stopRetries : Nat, audioRetries : Nat, dataRetries : Nat,
    dataEvaluationRequested : BOOLEAN, slsContextValid : BOOLEAN ]

\* A controller in state s serving request id, with nothing else remembered.
Fresh(s, id, commandId) ==
  [ state |-> s, resume |-> "None",
    requestId |-> id, commandRequestId |-> commandId,
    waiting |-> FALSE,
    stopRetries |-> 0, audioRetries |-> 0, dataRetries |-> 0,
    dataEvaluationRequested |-> FALSE, slsContextValid |-> FALSE ]

\* Controller::reset keeps the request id; a fresh controller has id 1.
ResetController(c) == Fresh("Idle", c.requestId, 0)

KeepSlsContext(c) ==
  [Fresh("RequestSwitch", c.requestId + 1, c.commandRequestId)
     EXCEPT !.slsContextValid = c.slsContextValid]

\* Controller::requestSwitch keeps the id of the command in flight.
RequestSwitch(c) == Fresh("RequestSwitch", c.requestId + 1, c.commandRequestId)

ForgetToBind(c) == c
BindCommand(c) == [c EXCEPT !.commandRequestId = c.requestId]

AnyCommandIsCurrent(c) == TRUE
CommandIsCurrent(c) == c.commandRequestId = c.requestId

Settle(c, next) == [c EXCEPT !.state = next, !.waiting = TRUE]

\* Controller::backoff is called with one of the three retry counters; it
\* returns false, and changes nothing, when that counter is exhausted.
CanRetryStop(c)  == c.stopRetries < MaxStopRetries
CanRetryAudio(c) == c.audioRetries < MaxAudioRetries
CanRetryData(c)  == c.dataRetries < MaxDataRetries

BackoffTo(c, resume) ==
  [c EXCEPT !.resume = resume, !.state = "Backoff", !.waiting = TRUE]

BackoffStop(c, resume) ==
  [BackoffTo(c, resume) EXCEPT !.stopRetries = c.stopRetries + 1]

BackoffAudio(c) ==
  [BackoffTo(c, "StartAudio") EXCEPT !.audioRetries = c.audioRetries + 1]

BackoffData(c) ==
  [BackoffTo(c, "ResolveData") EXCEPT !.dataRetries = c.dataRetries + 1]

DeferData(c) ==
  [c EXCEPT !.state = "AudioOnly", !.waiting = TRUE, !.dataRetries = 0,
            !.slsContextValid = FALSE]

RequestDataEvaluation(c) ==
  [c EXCEPT !.dataEvaluationRequested = TRUE,
            !.state = IF c.state = "Ready" /\ ~c.slsContextValid
                      THEN "ResolveData" ELSE c.state]

ServiceBackoff(c) ==
  IF c.state = "Backoff" /\ ~c.waiting
  THEN [c EXCEPT !.state  = IF c.resume = "None" THEN "Failed" ELSE c.resume,
                 !.resume = "None"]
  ELSE c

TransitionActive(s) == s \notin { "Idle", "Ready", "AudioOnly", "Failed" }

TuneFirst(activeData, activeAudio, tuneRequested, serviceRequested) ==
  IF tuneRequested THEN "Idle" ELSE IF activeData THEN "StopData"
  ELSE IF activeAudio THEN "StopAudio"
  ELSE IF serviceRequested THEN "StartAudio" ELSE "Idle"

AudioFirst(activeData, activeAudio, tuneRequested, serviceRequested) ==
  IF activeAudio THEN "StopAudio" ELSE IF activeData THEN "StopData"
  ELSE IF serviceRequested /\ ~tuneRequested THEN "StartAudio" ELSE "Idle"

DispatchRequest(activeData, activeAudio, tuneRequested, serviceRequested) ==
  IF activeData THEN "StopData"
  ELSE IF activeAudio THEN "StopAudio"
  ELSE IF tuneRequested THEN "Idle"
  ELSE IF serviceRequested THEN "StartAudio"
  ELSE "Idle"
=============================================================================
