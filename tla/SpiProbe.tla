------------------------------ MODULE SpiProbe ------------------------------
(***************************************************************************)
(* The EPG packet receiver of class DAB (src/src/si4684.cpp) beside the    *)
(* service switch: a probe starts the packet component that carries the    *)
(* programme guide next to the audio service, the AUTO policy stops it     *)
(* while the guide is empty, and both must be out of the way before the    *)
(* switch or a tune goes on.  The module models                            *)
(*   - syncEpgAuto, requestSpiProbe, stopSpiProbe and the mode commands;   *)
(*   - the probe's part of one pass of scheduleNextDabCommand;             *)
(*   - the completion of the probe's START and STOP, and what every other  *)
(*     command and request does to the probe;                              *)
(*   - the scan that selects the packet component, by its outcome.         *)
(* The switch itself is SwitchOutline, which DabSwitch implements.         *)
(*                                                                         *)
(* LooseContext, KeepsReceiving, HastyCleanup and StopOvertaken are faulty *)
(* variants of the operator that follows them.                             *)
(***************************************************************************)
EXTENDS SwitchOutline, EpgPolicy

CONSTANTS
  Components,    \* the packet components that may carry the guide
  MaxCommands,   \* bound: commands of the operator on the diagnostic port
  MaxFaults,     \* bound: unanswered or refused START/STOP, and stalls
  RoutineScans   \* does the 60 s rescan of the components run?

ASSUME ProbeAssumption ==
  /\ NoComponent \notin Components
  /\ MaxCommands \in Nat /\ MaxFaults \in Nat /\ RoutineScans \in BOOLEAN

VARIABLES
  discovery,   \* dabSpiDiscovery: its status, and the component when available
  present,     \* dabSpiPresent
  probe,       \* dabSpiProbe
  auto,        \* epg_auto::policy()
  continuous,  \* epgContinuous
  manual,      \* epgManualPending
  paused,      \* epgProductionPaused
  debug,       \* diagnosticDebug
  mode,        \* dab_loss::evidence().mode
  running,     \* the packet components the tuner decodes
  commands,    \* bound: commands of the operator so far
  faults,      \* bound: faults so far
  recheck,     \* history: reception was resumed to look again, and nothing was seen yet
  byHand       \* history: DEBUG SPI has taken the probe, by a pass or while the tuner was busy

settings == <<paused, debug, mode>>
ownership == <<probe, auto, continuous, manual>>
bounds == <<commands, faults>>
history == <<recheck, byHand>>
vars == <<outline, discovery, present, ownership, settings, running, bounds, history>>

ProbeOps == {"SpiStart", "SpiStop"}

\* "Unlisted" stands for an inventory that is not valid.
Statuses == {"Unlisted", "Pending", "Available", "Ambiguous", "Absent", "Incomplete"}
Discovery == [status : Statuses, spi : Components \cup {NoComponent}]
Found(status) == [status |-> status, spi |-> NoComponent]

\* Selector::finish: only a unique candidate is selected.
Outcomes ==
  {Found(status) : status \in {"Ambiguous", "Absent", "Incomplete"}}
    \cup [status : {"Available"}, spi : Components]

\* DSRV MODE A, B, and either of C and D, in which AUTO has no say.
Modes == {"Normal", "NoPacket", "NoParse"}

Contexts ==
  [ generation : Nat, request : Nat, sls : BOOLEAN,
    spi : Components \cup {NoComponent}, mode : Modes ]

Policies ==
  [ enabled : BOOLEAN, state : PolicyState, eligible : BOOLEAN, empty : BOOLEAN,
    waiting : BOOLEAN, context : Contexts ]

Probes ==
  [ state : ProbeState, spi : Components \cup {NoComponent}, request : Nat, sls : BOOLEAN,
    attempts : Nat, cancel : BOOLEAN, waiting : BOOLEAN ]

CommandTypes ==
  cmd \in [op : {"None"} \cup SwitchOps \cup OtherOps \cup ProbeOps, gen : Nat]

TypeOK ==
  /\ OutlineTypes /\ CommandTypes
  /\ discovery \in Discovery /\ present \in BOOLEAN
  /\ probe \in Probes /\ auto \in Policies
  /\ continuous \in BOOLEAN /\ manual \in BOOLEAN /\ paused \in BOOLEAN
  /\ debug \in BOOLEAN /\ mode \in Modes
  /\ running \subseteq Components
  /\ commands \in Nat /\ faults \in Nat
  /\ recheck \in BOOLEAN /\ byHand \in BOOLEAN

NoContext ==
  [generation |-> 0, request |-> 0, sls |-> FALSE, spi |-> NoComponent, mode |-> "Normal"]

Init ==
  /\ OutlineInit
  /\ discovery = Found("Unlisted") /\ present = FALSE
  /\ probe = NoProbe
  /\ auto = [enabled |-> TRUE, state |-> "Ineligible", eligible |-> FALSE,
             empty |-> FALSE, waiting |-> FALSE, context |-> NoContext]
  /\ continuous = FALSE /\ manual = FALSE /\ paused = FALSE
  /\ debug = FALSE /\ mode = "Normal"
  /\ running = {}
  /\ commands = 0 /\ faults = 0
  /\ recheck = FALSE /\ byHand = FALSE

-----------------------------------------------------------------------------
(* Contexts. *)

Available == discovery.status = "Available"
Undisturbed == audio /\ lock /\ ~serviceReq /\ ~tuneReq

\* A scan is looking again at the component whose reception is suspended.
PendingDiscovery ==
  /\ discovery.status = "Pending"
  /\ probe.spi = NoComponent
  /\ Suspended(auto)

Context ==
  [ generation |-> generation, request |-> request, sls |-> sls,
    spi |-> IF PendingDiscovery THEN auto.context.spi ELSE discovery.spi, mode |-> mode ]

\* The endpoint that is tracked, if any, belongs to this context.
Tracked ==
  \/ probe.spi = NoComponent
  \/ probe.spi = Context.spi /\ probe.request = request /\ probe.sls = sls

Usable ==
  /\ Undisturbed /\ ~stalled /\ settled
  /\ Tracked
  /\ ~paused /\ ~manual /\ mode = "Normal"
  /\ probe.state = "Idle" \/ continuous

\* syncEpgAuto
Synced == Sync(auto, Context, Usable /\ Available, Usable /\ PendingDiscovery)

\* requestSpiProbe, once the probe is known to be idle.
MayRequest == Available /\ Undisturbed /\ settled /\ mode # "NoPacket"

-----------------------------------------------------------------------------
(* Requests and the operator's commands, at any moment. *)

\* The probe receives, or is about to, where it was asked to.
Rechecks ==
  /\ Undisturbed /\ settled /\ discovery.status \in {"Pending", "Available"}
  /\ probe.state \in {"Baseline", "StartRequested", "Starting", "Observing"}

\* What hangs on the probe ends with it.
Forgets == recheck' = (recheck /\ Rechecks') /\ byHand' = (byHand /\ Running(probe'))

UserTunes ==
  /\ SetFreq
  /\ probe' = StopProbe(probe)
  /\ auto' = ResetPolicy(auto)
  /\ paused' = FALSE
  /\ discovery' = Found("Unlisted") /\ present' = FALSE
  /\ Forgets
  /\ UNCHANGED <<continuous, manual, debug, mode, running, bounds>>

\* The inventory stays, if it is valid: its components are asked again.
UserSelects ==
  /\ SetService
  /\ probe' = StopProbe(probe)
  /\ discovery' = IF discovery.status = "Unlisted" THEN discovery ELSE Found("Pending")
  /\ Forgets
  /\ UNCHANGED <<auto, continuous, manual, settings, present, running, bounds>>

Operator ==
  /\ commands < MaxCommands /\ commands' = commands + 1
  /\ UNCHANGED <<outline, discovery, present, running, faults>>

\* DEBUG SPI.  Production reception is stopped first, an idle probe is taken at
\* once, and any other state refuses; AUTO forgets its context in each case.
DebugSpi ==
  /\ Operator
  /\ debug' = TRUE
  /\ auto' = ResetPolicy(auto)
  /\ LET takesOver == continuous /\ probe.spi # NoComponent
                      /\ probe.state # "CleanupFailed" /\ mode # "NoPacket"
         starts == ~takesOver /\ probe.state = "Idle" /\ MayRequest
     IN /\ manual' = (manual \/ takesOver)
        /\ probe' = IF takesOver THEN StopProbe(probe)
                    ELSE IF starts THEN Baseline(discovery.spi, request, sls) ELSE probe
        /\ byHand' = ((starts /\ ~Free) \/ (byHand /\ Running(probe')))
        /\ recheck' = (recheck /\ Rechecks')
  /\ UNCHANGED <<continuous, paused, mode>>

\* DEBUG SPI STOP
DebugSpiStop ==
  /\ Operator
  /\ manual' = FALSE /\ paused' = TRUE
  /\ probe' = StopProbe(probe)
  /\ Forgets
  /\ UNCHANGED <<auto, continuous, debug, mode>>

ToggleDebug ==
  /\ Operator
  /\ debug' = ~debug
  /\ UNCHANGED <<ownership, paused, mode, history>>

\* DSRV MODE A-D.  Mode B stops reception, and is refused when there is neither
\* packet reception nor a confirmed suspension that it could keep.
SetMode(m) ==
  /\ Operator
  /\ probe.state # "CleanupFailed"
  /\ m = "NoPacket" => \/ probe.spi # NoComponent /\ continuous
                       \/ auto.state = "Cooldown" /\ auto.eligible
  /\ mode' = m
  /\ manual' = FALSE /\ paused' = (m = "NoPacket")
  /\ probe' = IF m = "NoPacket" THEN StopProbe(probe) ELSE probe
  /\ debug' \in BOOLEAN
  /\ Forgets
  /\ UNCHANGED <<auto, continuous>>

\* EPG AUTO ON and OFF
EnableAuto(on) ==
  /\ Operator
  /\ LET switched == ResetPolicy([auto EXCEPT !.enabled = on])
         p == IF on = auto.enabled THEN auto ELSE switched
     IN auto' = Sync(p, Context, Usable /\ Available, Usable /\ PendingDiscovery)
  /\ UNCHANGED <<probe, continuous, manual, settings, history>>

\* doRecovery: the tuner is reset and tuned again.
ColdRecovery ==
  /\ Recover
  /\ probe' = NoProbe
  /\ auto' = ResetPolicy(auto)
  /\ continuous' = FALSE /\ manual' = FALSE /\ paused' = FALSE
  /\ discovery' = Found("Unlisted") /\ present' = FALSE
  /\ running' = {}
  /\ Forgets
  /\ UNCHANGED <<debug, mode, bounds>>

-----------------------------------------------------------------------------
(* Discovery and time. *)

Scanning == UNCHANGED <<outline, ownership, settings, running, bounds>> /\ Forgets

\* The scan of the components has ended.  A guide may be known to be present that
\* no component carries: in the audio service itself, or from a query that failed.
Discovered(result) ==
  /\ discovery.status = "Pending"
  /\ settled /\ ~serviceReq
  /\ discovery' = result
  /\ present' \in IF result.status \in {"Available", "Ambiguous"} THEN {TRUE} ELSE BOOLEAN
  /\ Scanning

\* Every 60 s the components are asked again, reception going on.
RoutineScan ==
  /\ RoutineScans /\ Free
  /\ Undisturbed /\ settled
  /\ continuous \/ (~Running(probe) /\ probe.spi = NoComponent)
  /\ discovery.status \notin {"Pending", "Unlisted"}
  /\ discovery' = Found("Pending")
  /\ UNCHANGED present
  /\ Scanning

ProbeElapse ==
  /\ probe.waiting
  /\ probe' = [probe EXCEPT !.waiting = FALSE]
  /\ UNCHANGED <<outline, discovery, present, auto, continuous, manual, settings, running,
                 bounds, history>>

AutoElapse ==
  /\ auto.waiting
  /\ auto' = [auto EXCEPT !.waiting = FALSE]
  /\ UNCHANGED <<outline, discovery, present, probe, continuous, manual, settings, running,
                 bounds, history>>

-----------------------------------------------------------------------------
(* One pass of scheduleNextDabCommand.  First an idle probe is taken by the   *)
(* operator or by production reception, then the policy may ask for its STOP, *)
(* then the probe follows its context and its deadlines.                      *)

ByOperator == probe.state = "Idle" /\ manual
ByProduction == probe.state = "Idle" /\ ~manual /\ ~paused /\ AllowsStart(Synced)
Armed == (ByOperator \/ ByProduction) /\ MayRequest

ArmedProbe == IF Armed THEN Baseline(discovery.spi, request, sls) ELSE probe

ArmedAuto ==
  IF ByOperator THEN ResetPolicy(Synced)
  ELSE IF ByProduction THEN Reopened(Synced) ELSE Synced

IsContinuous == IF probe.state = "Idle" THEN ByProduction /\ Armed ELSE continuous

\* The probe keeps to its service, whatever has become of that service.
LooseContext ==
  /\ IsContinuous \/ debug
  /\ IsContinuous => present /\ discovery.status # "Ambiguous"
  /\ ArmedProbe.request = request /\ ArmedProbe.sls = sls

\* sameProbeContext
SameContext ==
  /\ IsContinuous \/ debug
  /\ IsContinuous => present /\ discovery.status # "Ambiguous"
  /\ Undisturbed
  /\ ArmedProbe.request = request /\ ArmedProbe.sls = sls

Suspends ==
  IsContinuous /\ SameContext /\ StopDue(ArmedAuto, ArmedProbe.state = "Observing")

\* The policy counts on a STOP that nobody asks the probe for.
KeepsReceiving ==
  IF IsContinuous /\ SameContext /\ ArmedProbe.state = "Observing" THEN ArmedProbe
  ELSE Advance(ArmedProbe, SameContext)

\* Continuous reception has no deadline of its own.
AdvancedProbe ==
  LET p == IF Suspends THEN StopProbe(ArmedProbe) ELSE ArmedProbe IN
  IF IsContinuous /\ SameContext /\ p.state = "Observing" THEN p
  ELSE Advance(p, SameContext)

\* Between two attempts to STOP the switch goes on.
HastyCleanup == AdvancedProbe.state = "StopRequested" /\ ~AdvancedProbe.waiting

CleanupPending == AdvancedProbe.state = "StopRequested"

\* What every pass does to the probe and to the policy.
Prepares ==
  /\ auto' = IF Suspends THEN Suspend(ArmedAuto) ELSE ArmedAuto
  /\ continuous' = IsContinuous
  /\ manual' = (manual /\ probe.state # "Idle")
  /\ UNCHANGED <<discovery, present, settings, running, bounds>>
  /\ recheck' = ((recheck \/ (Armed /\ ArmedAuto.state = "RecheckStart")) /\ Rechecks')
  /\ byHand' = (\/ Armed /\ ByOperator
                \/ byHand /\ Running(AdvancedProbe))

\* The probe's own commands are started like any other.
IssueProbe(op) ==
  /\ Free
  /\ cmd' = Command(op)
  /\ UNCHANGED <<request, generation, tuneReq, serviceReq, tuning, owned, lock, stalled>>

\* STOP goes before everything else; the switch is not even looked at.
PassProbeStop ==
  /\ CleanupPending /\ ~AdvancedProbe.waiting
  /\ IssueProbe("SpiStop") /\ UNCHANGED settled
  /\ probe' = [AdvancedProbe EXCEPT !.state = "Stopping",
                                    !.attempts = AdvancedProbe.attempts + 1]
  /\ Prepares

\* Between two attempts to STOP only status and background commands are sent.
PassOther(op) ==
  /\ CleanupPending => /\ AdvancedProbe.waiting
                       /\ op \in {"TuneStatus", "Background"} /\ settled' = settled
  /\ Issue(op)
  /\ probe' = AdvancedProbe
  /\ Prepares

PassProbeStart ==
  /\ AdvancedProbe.state = "StartRequested"
  /\ IssueProbe("SpiStart") /\ Rests
  /\ probe' = [AdvancedProbe EXCEPT !.state = "Starting"]
  /\ Prepares

PassNothing ==
  /\ CleanupPending => AdvancedProbe.waiting /\ settled' = settled
  /\ Move
  /\ probe' = AdvancedProbe
  /\ Prepares

-----------------------------------------------------------------------------
(* Completions. *)

Spend(cost) == faults + cost <= MaxFaults /\ faults' = faults + cost /\ UNCHANGED commands

\* The tuner after a command that was carried out, refused or not answered.
CarriedOut ==
  CASE cmd.op = "SpiStart" -> running \cup {probe.spi}
    [] cmd.op = "SpiStop"  -> running \ {probe.spi}
    [] cmd.op = "Tune"     -> {}
    [] OTHER -> running

Tunes(r) ==
  running' \in CASE r = "Ok" -> {CarriedOut} [] r \in {"Error", "Absent"} -> {running}
                 [] r = "Timeout" -> {running, CarriedOut}

Results == {"Ok", "Error", "Timeout"}
Stopped(r) == r \in {"Ok", "Absent"}

\* The transport stalls before the probe has seen the result of its command.
CompleteStalled ==
  /\ FinishStalled
  /\ Spend(1)
  /\ Tunes("Timeout")
  /\ UNCHANGED <<discovery, present, ownership, settings, history>>

\* A tune that is complete has ended every service, the packet component's too.
ForgetsProbe(r) == cmd.op = "TuneStatus" /\ r = "Ok" /\ OfThisTune

Complete(r) ==
  /\ cmd.op \notin ProbeOps
  /\ Finish(r = "Ok")
  /\ Tunes(r)
  /\ IF ForgetsProbe(r)
     THEN /\ probe' = NoProbe /\ auto' = ResetPolicy(auto)
          /\ continuous' = FALSE /\ manual' = FALSE /\ paused' = FALSE
     ELSE UNCHANGED <<ownership, paused>>
  /\ UNCHANGED <<debug, mode, discovery, present, bounds>>
  /\ Forgets

\* A valid service list of this tune that differs from the last one ends the probe
\* and is asked for its components; one that cannot be read ends discovery.
InventoryRead(valid) ==
  /\ cmd.op = "Background" /\ OfThisTune
  /\ Finish(TRUE) /\ lock' = lock
  /\ discovery' = Found(IF valid THEN "Pending" ELSE "Unlisted")
  /\ present' = (present /\ ~valid)
  /\ probe' = IF valid THEN StopProbe(probe) ELSE probe
  /\ Forgets
  /\ UNCHANGED <<auto, continuous, manual, settings, running, bounds>>

\* A directory that has been received completely, or an object of the guide.
GuideReceived(content, confirms) ==
  /\ cmd.op = "Background" /\ OfThisTune
  /\ Finish(TRUE) /\ lock' = lock
  /\ probe.state = "Observing" /\ probe.spi \in running
  /\ audio /\ ~serviceReq /\ ~tuneReq /\ mode # "NoParse"
  /\ auto' = DirectoryRead(Synced, content, confirms)
  /\ UNCHANGED <<discovery, present, probe, continuous, manual, settings, running, bounds, byHand>>
  /\ recheck' = (recheck /\ ~content /\ Rechecks')

\* The probe follows its command whatever has been requested since; the policy
\* is told only about commands of the tune in force.
CompleteProbe(op, r) ==
  /\ cmd.op = op /\ cmd' = NoCmd
  /\ Spend(IF Stopped(r) THEN 0 ELSE 1)
  /\ Tunes(r)
  /\ UNCHANGED <<request, generation, tuneReq, serviceReq, tuning, owned, settled, lock, stalled>>
  /\ UNCHANGED <<discovery, present, continuous, manual, settings>>

CompleteStart(r) ==
  /\ CompleteProbe("SpiStart", r)
  /\ auto' = IF OfThisTune THEN PolicyStarted(Synced, r = "Ok", r = "Timeout") ELSE Synced
  /\ probe' = ProbeStarted(probe, r = "Ok", r = "Timeout")
  /\ Forgets

\* The answer to a STOP that a new tune has overtaken is dropped.
StopOvertaken(r) ==
  /\ CompleteProbe("SpiStop", r)
  /\ r = "Absent" => probe.spi \notin running
  /\ auto' = IF OfThisTune THEN PolicyStopped(Synced, Stopped(r)) ELSE Synced
  /\ probe' = IF OfThisTune THEN ProbeStopped(probe, Stopped(r)) ELSE probe
  /\ Forgets

\* Reason 03, the service is not available, proves that it does not run.
CompleteStop(r) ==
  /\ CompleteProbe("SpiStop", r)
  /\ r = "Absent" => probe.spi \notin running
  /\ auto' = IF OfThisTune THEN PolicyStopped(Synced, Stopped(r)) ELSE Synced
  /\ probe' = ProbeStopped(probe, Stopped(r))
  /\ Forgets

-----------------------------------------------------------------------------
OperatorCommands ==
  \/ DebugSpi \/ DebugSpiStop \/ ToggleDebug
  \/ (\E m \in Modes : SetMode(m)) \/ (\E on \in BOOLEAN : EnableAuto(on))

Pass ==
  \/ PassProbeStop \/ PassProbeStart \/ PassNothing
  \/ \E op \in SwitchOps \cup OtherOps : PassOther(op)

Completes ==
  \/ CompleteStalled
  \/ \E r \in Results : Complete(r) \/ CompleteStart(r)
  \/ \E r \in Results \cup {"Absent"} : CompleteStop(r)
  \/ \E valid \in BOOLEAN : InventoryRead(valid)
  \/ \E content, confirms \in BOOLEAN : GuideReceived(content, confirms)

Next ==
  \/ UserTunes \/ UserSelects \/ OperatorCommands \/ ColdRecovery
  \/ (\E result \in Outcomes : Discovered(result)) \/ RoutineScan
  \/ ProbeElapse \/ AutoElapse
  \/ Pass \/ Completes

Spec == Init /\ [][Next]_vars

-----------------------------------------------------------------------------
(* Properties. *)

\* The endpoint is kept until the tuner has confirmed its STOP, through lost
\* answers, cancelled STARTs and failed cleanups (Probe::started, stopped): no
\* packet component is ever decoded that routePayload cannot tell from audio.
StreamQuarantined ==
  running \subseteq (IF probe.spi = NoComponent THEN {} ELSE {probe.spi})

\* "Before any tune/service teardown" (si4684.cpp 4436): no service is stopped or
\* started and no tune is sent while a packet component is decoded, unless its
\* cleanup was given up.
CleanupBeforeSwitch ==
  cmd.op \in {"StopData", "StopAudio", "StartAudio", "Tune"} =>
    running = {} \/ probe.state = "CleanupFailed"

\* The policy counts the five minutes only from a STOP that was confirmed, or
\* after a START that was refused: while it waits nothing is received.
CooldownIsSilent == Suspended(auto) => running = {}

\* A pending suspension always has a STOP under way that will settle it, or a
\* cleanup that was given up; a change of context withdraws it.
AutoNotStuck ==
  Synced.state = "StopPending" =>
    probe.state \in {"StopRequested", "Stopping", "CleanupFailed"}

\* A suspension neither receives nor waits for a STOP that nobody sends.
AutoSuspensionSound == CooldownIsSilent /\ AutoNotStuck

\* A START is sent only for the request it was asked for, on a locked tuner with
\* the audio service playing, and never against a suspension.
StartInContext ==
  [][cmd.op # "SpiStart" /\ cmd'.op = "SpiStart" =>
       /\ Undisturbed /\ probe'.request = request
       /\ auto'.state \notin {"Cooldown", "Error", "StopPending"}]_vars

\* "Explicit DEBUG SPI still runs its original finite window" (si4684.cpp 4418).
ManualIsFinite == byHand /\ probe.state = "Observing" => ~continuous

-----------------------------------------------------------------------------
(* Fairness: the loop runs passes and completions, deadlines pass, a stalled    *)
(* tuner is reset and a scan ends.  chooseBackgroundWork lets the START of the  *)
(* probe through between bursts of other background commands.                   *)

Fairness ==
  /\ WF_vars(Pass) /\ WF_vars(Completes) /\ SF_vars(PassProbeStart)
  /\ WF_vars(ProbeElapse) /\ WF_vars(AutoElapse) /\ WF_vars(ColdRecovery)
  /\ WF_vars(\E result \in Outcomes : Discovered(result))

FairSpec == Spec /\ Fairness

\* A STOP that is wanted is confirmed or given up, whatever requests, lost answers
\* and stalls come between its attempts: the switch behind it is not held for ever.
CleanupEnds ==
  probe.state \in {"StopRequested", "Stopping"} ~> probe.state \in {"Idle", "CleanupFailed"}

\* A recheck that receives nothing ends (docs/EPG_AUTO_SUSPEND.md 66: "Recheck bez
\* uplneho Directory/obsahu konci INCONCLUSIVE, bezpecnym STOP"), as long as the
\* audio service is left alone and a component of the guide is known.
RecheckIsLimited == recheck ~> ~recheck
=============================================================================
