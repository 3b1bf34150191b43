---------------------------- MODULE SwitchOutline ----------------------------
(***************************************************************************)
(* What the rest of class DAB can see of the service switch: the requests  *)
(* that are pending, the services the driver owns, whether the switch has  *)
(* come to rest, and the one command at the tuner.  DabSwitch implements   *)
(* it (DabSwitchOutlined); SpiProbe composes it with the EPG packet        *)
(* receiver, so that the two are checked together without the retry        *)
(* counters, the service list and the tuner's phases of DabSwitch.         *)
(*                                                                         *)
(* Names of services and channels are left out: the outline says only that *)
(* an audio service, or its slideshow component, is owned.                 *)
(***************************************************************************)
EXTENDS Naturals

CONSTANT MaxRequests  \* bound: request ids in use, the first setFreq has number 2

ASSUME OutlineAssumption == MaxRequests \in Nat

VARIABLES
  request,     \* dabSwitch.requestId
  generation,  \* dabGeneration
  tuneReq,     \* dabTuneRequestPending
  serviceReq,  \* dabServiceRequestPending
  tuning,      \* dabWaitingForStc
  audio,       \* dabActiveServiceValid
  sls,         \* dabActiveDataServiceValid
  settled,     \* dabSwitch.state is Ready or AudioOnly
  lock,        \* signallock
  stalled,     \* dabTransportStalled
  cmd          \* dabCommand and its generation

owned == <<audio, sls>>
outline == <<request, generation, tuneReq, serviceReq, tuning, owned, settled, lock,
             stalled, cmd>>

SwitchOps == { "StopData", "StopAudio", "StartAudio", "StartData" }
OtherOps  == { "Tune", "TuneStatus", "Background" }

NoCmd == [op |-> "None", gen |-> 0]
Command(op) == [op |-> op, gen |-> generation]

Free == cmd = NoCmd /\ ~stalled
OfThisTune == cmd.gen = generation

OutlineInit ==
  /\ request = 2 /\ generation = 1
  /\ tuneReq = TRUE /\ serviceReq = FALSE /\ tuning = FALSE
  /\ audio = FALSE /\ sls = FALSE /\ settled = FALSE /\ lock = FALSE
  /\ stalled = FALSE
  /\ cmd = NoCmd

-----------------------------------------------------------------------------
(* Requests. *)

SetFreq ==
  /\ request <= MaxRequests
  /\ request' = request + 1 /\ generation' = generation + 1
  /\ tuneReq' = TRUE /\ serviceReq' = FALSE /\ tuning' = FALSE
  /\ settled' = FALSE /\ lock' = FALSE
  /\ UNCHANGED <<owned, stalled, cmd>>

SetService ==
  /\ request <= MaxRequests
  /\ request' = request + 1
  /\ serviceReq' = TRUE
  /\ settled' = FALSE
  /\ UNCHANGED <<generation, tuneReq, tuning, owned, lock, stalled, cmd>>

\* The cold recovery resets the tuner and tunes again.
Recover ==
  /\ stalled
  /\ request' = request + 1 /\ generation' = generation + 2
  /\ tuneReq' = TRUE /\ serviceReq' = FALSE /\ tuning' = FALSE
  /\ audio' = FALSE /\ sls' = FALSE /\ settled' = FALSE /\ lock' = FALSE
  /\ stalled' = FALSE
  /\ cmd' = NoCmd

-----------------------------------------------------------------------------
(* A foreground pass.  Ready and AudioOnly are reached and left by passes and *)
(* by completions, and only with the requested service playing; the search    *)
(* for its slideshow component leaves them until that component is owned.     *)

MayRest == audio /\ ~tuneReq /\ ~serviceReq /\ ~tuning
Rests == settled' \in {settled /\ sls', MayRest'}

\* A service is stopped slideshow first, and started on a quiet tuner.
Issuable(op) ==
  CASE op = "StopData"   -> sls /\ (serviceReq \/ tuneReq)
    [] op = "StopAudio"  -> audio /\ ~sls /\ (serviceReq \/ tuneReq)
    [] op = "StartAudio" -> serviceReq /\ ~tuneReq /\ ~audio /\ ~sls
    [] op = "StartData"  -> audio /\ ~sls /\ ~serviceReq /\ ~tuneReq
    [] op = "Tune"       -> tuneReq /\ ~audio /\ ~sls
    [] op = "TuneStatus" -> tuning
    [] op = "Background" -> TRUE

Issue(op) ==
  /\ Free
  /\ Issuable(op)
  /\ cmd' = Command(op)
  /\ tuneReq' = (tuneReq /\ op # "Tune")
  /\ UNCHANGED <<request, generation, serviceReq, tuning, owned, lock, stalled>>
  /\ IF op \in SwitchOps \cup {"Tune"} THEN settled' = FALSE ELSE Rests

\* The pass moves the switch, and starts nothing.
Move ==
  /\ Free
  /\ UNCHANGED <<request, generation, tuneReq, serviceReq, tuning, owned, lock, stalled, cmd>>
  /\ Rests

-----------------------------------------------------------------------------
(* finishDabCommand. *)

\* The transport is given up; nothing else is looked at.
FinishStalled ==
  /\ cmd # NoCmd
  /\ cmd' = NoCmd
  /\ stalled' = TRUE
  /\ UNCHANGED <<request, generation, tuneReq, serviceReq, tuning, owned, settled, lock>>

\* What the driver owns after the command in flight has ended.
Owns(owner, start, stop, ok) ==
  IF ok /\ cmd.op = start THEN TRUE ELSE IF ok /\ cmd.op = stop THEN FALSE ELSE owner

Reconciles(ok) ==
  /\ audio' = Owns(audio, "StartAudio", "StopAudio", ok)
  /\ sls' = Owns(sls, "StartData", "StopData", ok)

\* A command that setFreq has superseded only settles who owns what.
FinishStale(ok) ==
  /\ cmd # NoCmd /\ ~OfThisTune
  /\ cmd' = NoCmd
  /\ Reconciles(ok)
  /\ UNCHANGED <<request, generation, tuneReq, serviceReq, tuning, settled, lock, stalled>>

\* A tune that is accepted waits for its end, and the reading concludes it.
TuningAfter(ok) ==
  CASE cmd.op = "Tune" -> ok
    [] cmd.op = "TuneStatus" -> FALSE
    [] OTHER -> tuning

\* A START of the requested service serves the request, a tune waits for its
\* end or is requested again, and RF readings change the lock.
FinishCurrent(ok) ==
  /\ cmd # NoCmd /\ OfThisTune
  /\ cmd' = NoCmd
  /\ Reconciles(ok)
  /\ serviceReq' \in IF ok /\ cmd.op = "StartAudio" THEN {serviceReq, FALSE} ELSE {serviceReq}
  /\ tuneReq' \in IF ~ok /\ cmd.op \in {"Tune", "TuneStatus"} THEN {tuneReq, TRUE} ELSE {tuneReq}
  /\ tuning' = TuningAfter(ok)
  /\ lock' \in IF ok /\ cmd.op \in {"TuneStatus", "Background"} THEN BOOLEAN ELSE {lock}
  /\ UNCHANGED <<request, generation, stalled>>
  /\ Rests

Finish(ok) == FinishStale(ok) \/ FinishCurrent(ok)

-----------------------------------------------------------------------------
OutlineNext ==
  \/ SetFreq \/ SetService \/ Recover
  \/ (\E op \in SwitchOps \cup OtherOps : Issue(op)) \/ Move
  \/ FinishStalled \/ (\E ok \in BOOLEAN : Finish(ok))

OutlineSpec == OutlineInit /\ [][OutlineNext]_outline

OutlineTypes ==
  /\ request \in Nat /\ generation \in Nat
  /\ tuneReq \in BOOLEAN /\ serviceReq \in BOOLEAN /\ tuning \in BOOLEAN
  /\ audio \in BOOLEAN /\ sls \in BOOLEAN /\ settled \in BOOLEAN
  /\ lock \in BOOLEAN /\ stalled \in BOOLEAN
=============================================================================
