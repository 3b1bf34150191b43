------------------------------ MODULE MCParts ------------------------------
(***************************************************************************)
(* Small instances of the parts of the driver that share nothing but their *)
(* turn with each other: DsrvDrain, MetadataQueue, ClockRefresh, UaScan,   *)
(* SlideCollector, DabScan and Settings.  One run checks them side by      *)
(* side: in each of its behaviours one of them runs and the others stay as *)
(* they were at first.  The fairness is that of the module whose part runs.*)
(***************************************************************************)
EXTENDS DsrvDrain, MetadataQueue, ClockRefresh, UaScan, SlideCollector, DabScan, MCSettings

VARIABLE part
Parts == {"Drain", "Queue", "Clock", "Ua", "Slide", "Scan", "Settings"}

\* Two objects, of three and of two segments.
MCSize == [t \in Tids |-> 4 - t]

\* The audio services on the two channels that are scanned.
MCStations == [c \in 1..2 |-> IF c = 1 THEN {1} ELSE {2, 3}]

partsVars ==
  <<part, drainVars, queueVars, clockVars, uaVars, slideVars, dabScanVars, settingsVars>>

PartsInit ==
  /\ part \in Parts
  /\ DrainInit /\ QueueInit /\ ClockInit /\ UaInit /\ SlideInit /\ DabScanInit /\ SettingsInit
  /\ part # "Drain" => irqHeld = "Never"
  /\ settings \in {Defaults} \cup (IF part = "Settings" THEN {[Defaults EXCEPT !.mode = "FM"]} ELSE {})

OnlyDrain ==
  part = "Drain" /\ UNCHANGED <<part, queueVars, clockVars, uaVars, slideVars, dabScanVars, settingsVars>>
OnlyQueue ==
  part = "Queue" /\ UNCHANGED <<part, drainVars, clockVars, uaVars, slideVars, dabScanVars, settingsVars>>
OnlyClock ==
  part = "Clock" /\ UNCHANGED <<part, drainVars, queueVars, uaVars, slideVars, dabScanVars, settingsVars>>
OnlyUa ==
  part = "Ua" /\ UNCHANGED <<part, drainVars, queueVars, clockVars, slideVars, dabScanVars, settingsVars>>
OnlySlide ==
  part = "Slide" /\ UNCHANGED <<part, drainVars, queueVars, clockVars, uaVars, dabScanVars, settingsVars>>
OnlyScan ==
  part = "Scan" /\ UNCHANGED <<part, drainVars, queueVars, clockVars, uaVars, slideVars, settingsVars>>
OnlySettings ==
  part = "Settings" /\ UNCHANGED <<part, drainVars, queueVars, clockVars, uaVars, slideVars, dabScanVars>>

PartsNext ==
  \/ OnlyDrain /\ DrainNext
  \/ OnlyQueue /\ QueueNext
  \/ OnlyClock /\ ClockNext
  \/ OnlyUa /\ UaNext
  \/ OnlySlide /\ SlideNext
  \/ OnlyScan /\ DabScanNext
  \/ OnlySettings /\ SettingsNext

\* One part runs, so that the conjunction of WF(A) for every part is WF of the disjunction.
PartsFairness ==
  /\ WF_partsVars(
       \/ OnlyDrain /\ PollStatus
       \/ OnlyQueue /\ SeeEventBit
       \/ OnlyClock /\ SendTune
       \/ OnlyUa /\ AskComponent
       \/ OnlySlide /\ ReceiveHeaders
       \/ OnlyScan /\ ScanPass
       \/ OnlySettings /\ CommitWhenDue)
  /\ WF_partsVars(
       \/ OnlyDrain /\ AnswerRead
       \/ OnlyQueue /\ AudioDelayOver
       \/ OnlyClock /\ SendTuneStatus
       \/ OnlyUa /\ AskList
       \/ OnlySlide /\ ServiceConfirmed
       \/ OnlyScan /\ TuneDeadline)
  /\ WF_partsVars(
       \/ OnlyDrain /\ CompleteRead
       \/ OnlyQueue /\ Ask
       \/ OnlyClock /\ CompleteTune
       \/ OnlyUa /\ ParseList
       \/ OnlySlide /\ (CacheImage \/ StartDecoding)
       \/ OnlyScan /\ HardDeadline)
  /\ WF_partsVars(
       \/ OnlyDrain /\ CompleteOther
       \/ OnlyQueue /\ ReportEvent
       \/ OnlyClock /\ CompleteStatus
       \/ OnlyUa /\ DropOldList
       \/ OnlySlide /\ EndDecoding
       \/ OnlyScan /\ ListSettles)
  /\ WF_partsVars(
       \/ OnlyDrain /\ BackoffOver
       \/ OnlyQueue /\ Answer
       \/ OnlyClock /\ ForgetOther
       \/ OnlyUa /\ ComponentAnswers)
  /\ WF_partsVars(
       \/ OnlyDrain /\ (ScheduleRead \/ ScheduleSignal \/ ScheduleLow \/ CarryOutTune)
       \/ OnlyClock /\ CompleteTime
       \/ OnlyUa /\ Conclude)
  /\ WF_partsVars(OnlyClock /\ TimeComesDue)
  /\ WF_partsVars(OnlyClock /\ RetryComesDue)
  /\ WF_partsVars(OnlyClock /\ Acquire)
  /\ SF_partsVars(OnlyClock /\ SendTime)
  /\ \A s \in UNION {Segments(t) : t \in Tids} : WF_partsVars(OnlySlide /\ ReceiveSegments(s))

PartsSpec == PartsInit /\ [][PartsNext]_partsVars /\ PartsFairness

\* Every part keeps its types, and the counters that its module relates to them.
PartsTypeOK ==
  /\ part \in Parts
  /\ DrainTypeOK /\ QueueTypeOK /\ ClockTypeOK /\ UaTypeOK /\ SlideTypeOK /\ DabScanTypeOK /\ SettingsTypeOK
=============================================================================
