------------------------------- MODULE FmScan --------------------------------
(***************************************************************************)
(* The full FM scan of src/SI4684-DAB-Receiver.ino (StartFmFullScan,       *)
(* ProcessFmFullScan, FinishFmFullScan, CancelFmFullScan) over the         *)
(* receiver of FmReceiver, the station list it fills                       *)
(* (src/src/fm_station_list.cpp) and the three records of it in the flash  *)
(* (src/src/nvs_storage.cpp), across cancellations, changes of the region, *)
(* failed writes and power losses.                                         *)
(*                                                                         *)
(* A record is the frequency and the PI; which of two records of one       *)
(* station is the better is left open.  The frequencies are valid in every *)
(* region.  The driver gives up a tune before the scan does.  Failed       *)
(* writes and power losses count as requests.                              *)
(*                                                                         *)
(* NoLimit, KeepPartialList, NoCancel and NoSeekLimit are faulty variants  *)
(* of the operator that follows them.                                      *)
(***************************************************************************)
EXTENDS FmReceiver, FiniteSets

CONSTANTS
  BandEnd,        \* the last frequency of the band
  Regions,
  StationLimit,   \* FM_STATION_LIST_CAPACITY
  MaxSeeks,       \* the 220 seeks of a scan
  FineTuneInScan  \* may rotary 2 or the remote control tune while a scan runs?

ASSUME FmScanAssumption ==
  /\ BandEnd \in Freqs /\ Regions \subseteq Nat \ {0} /\ Regions # {}
  /\ StationLimit \in Nat /\ MaxSeeks \in Nat \ {0}
  /\ FineTuneInScan \in BOOLEAN

VARIABLES
  region,      \* fmRegion
  fmScan,      \* fmScanState and what belongs to it
  fmStations,  \* FmStations
  fmCompleted, \* fmScanCompleted
  fmNvs        \* the keys fm_scan, fm_scan_reg and fm_scan_done

lists == <<region, fmScan, fmStations, fmCompleted, fmNvs>>
fmScanVars == <<fmVars, lists>>

FmRecords == [freq : Freqs, pi : Programmes \cup {0}]
ScanStates == {"Idle", "WaitBandStart", "StartSeek", "WaitSeek", "RdsDwell"}
NoFmScan == [state |-> "Idle", first |-> 0, candidate |-> 0, seeks |-> 0]
Scanning == fmScan.state # "Idle"

FmScanTypeOK ==
  /\ FmTypeOK
  /\ region \in Regions
  /\ fmScan \in [state : ScanStates, first : Freqs \cup {0}, candidate : Freqs \cup {0},
                 seeks : 0..MaxSeeks]
  /\ fmStations \subseteq FmRecords /\ Cardinality(fmStations) <= StationLimit
  /\ fmCompleted \in BOOLEAN
  /\ fmNvs \in [list : SUBSET FmRecords, region : Regions \cup {0}, done : BOOLEAN]

FmScanInit ==
  /\ FmInit
  /\ region \in Regions /\ fmScan = NoFmScan
  /\ fmStations = {} /\ fmCompleted = FALSE
  /\ fmNvs = [list |-> {}, region |-> 0, done |-> FALSE]

-----------------------------------------------------------------------------
(* The list and its copy in the flash. *)

\* FmStationList::load; there is no key fm_scan without a station.
Loaded(contents, r) == IF contents.region = r THEN contents.list ELSE {}

\* fmScanCompleted
Complete(contents, r) == contents.done /\ contents.region = r

\* sameStation
SameStation(a, b) == IF a.pi # 0 /\ b.pi # 0 THEN a.pi = b.pi ELSE a.freq = b.freq

\* A full list takes one more.
NoLimit(held) == TRUE

Fits(held) == Cardinality(held) < StationLimit

\* FmStationList::add
Added(held, new) ==
  LET same == {old \in held : SameStation(old, new)}
  IN IF same # {} THEN {held} \cup {(held \ {old}) \cup {new} : old \in same}
     ELSE IF Fits(held) THEN {held \cup {new}} ELSE {held}

\* putScan and putEmptyScan write the list, the region and the flag, in that order.
AfterList(held) == [fmNvs EXCEPT !.list = held]
AfterRegion(held) == [AfterList(held) EXCEPT !.region = region]
Saved(held) == [AfterRegion(held) EXCEPT !.done = TRUE]
CutShort(held) == {fmNvs, AfterList(held), AfterRegion(held)}

\* A list that could not be saved stays on offer until the next start.
KeepPartialList(held, contents) == held

\* FinishFmFullScan: load() after a save that failed
ListAfterSave(held, contents) ==
  IF contents = Saved(held) THEN held ELSE Loaded(contents, region)

-----------------------------------------------------------------------------
(* The scan. *)

StartFmScan ==
  /\ ~Scanning /\ Asks
  /\ SetFmFrequency(BandEnd) /\ fmfreq' = BandEnd
  /\ seek' = FALSE /\ started' = FALSE /\ tuning' = FALSE /\ allowed' = FALSE
  /\ fmStations' = {} /\ fmScan' = [NoFmScan EXCEPT !.state = "WaitBandStart"]
  /\ UNCHANGED <<muted, region, fmCompleted, fmNvs>>

\* A cancelled scan leaves what it has found on offer.
NoCancel == UNCHANGED fmStations

ListAfterCancel == fmStations' = Loaded(fmNvs, region)

\* CancelFmFullScan
CancelFmScan ==
  /\ fmScan' = NoFmScan /\ ListAfterCancel
  /\ UNCHANGED <<region, fmCompleted, fmNvs>>

FinishFmScan(held) ==
  /\ \E contents \in CutShort(held) \cup {Saved(held)} :
       /\ IF contents = Saved(held) THEN UNCHANGED fmEvents ELSE Asks
       /\ fmNvs' = contents
       /\ fmStations' = ListAfterSave(held, contents)
       /\ fmCompleted' = Complete(contents, region)
  /\ fmScan' = NoFmScan
  /\ fmfreq' = fmFrequency /\ allowed' \in BOOLEAN
  /\ UNCHANGED <<tuner, reception, af, muted, tuning, seek, started, chosen, region>>

PassBandStart ==
  /\ fmScan.state = "WaitBandStart" /\ ~tunePending
  /\ fmScan' = [fmScan EXCEPT !.state = "StartSeek"]
  /\ UNCHANGED <<fmVars, region, fmStations, fmCompleted, fmNvs>>

PassStartSeek ==
  /\ fmScan.state = "StartSeek" /\ StartFmSeek
  /\ fmScan' = [fmScan EXCEPT !.state = "WaitSeek", !.seeks = IF @ < MaxSeeks THEN @ + 1 ELSE @]
  /\ UNCHANGED <<muted, controls, region, fmStations, fmCompleted, fmNvs>>

\* The seek found nothing, or is round the band: its first station again.
BandDone == ~fmValid \/ fmFrequency = fmScan.first

PassWaitSeek ==
  /\ fmScan.state = "WaitSeek" /\ ~tunePending
  /\ IF BandDone THEN FinishFmScan(fmStations)
     ELSE /\ fmScan' = [fmScan EXCEPT !.state = "RdsDwell", !.candidate = fmFrequency,
                                      !.first = IF @ = 0 THEN fmFrequency ELSE @]
          /\ UNCHANGED <<fmVars, region, fmStations, fmCompleted, fmNvs>>

\* A scan ends with the band only.
NoSeekLimit(seeks) == FALSE

SeeksUsedUp(seeks) == seeks >= MaxSeeks

Candidate == [freq |-> fmScan.candidate, pi |-> fmPi]

\* The dwell is over.
PassDwell ==
  /\ fmScan.state = "RdsDwell"
  /\ \E held \in Added(fmStations, Candidate) :
       IF SeeksUsedUp(fmScan.seeks) THEN FinishFmScan(held)
       ELSE /\ fmStations' = held
            /\ fmScan' = [fmScan EXCEPT !.state = "StartSeek"]
            /\ UNCHANGED <<fmVars, region, fmCompleted, fmNvs>>

\* ProcessFmFullScan
FmScanPass == PassBandStart \/ PassStartSeek \/ PassWaitSeek \/ PassDwell

-----------------------------------------------------------------------------
(* Around the scan. *)

\* The button, a change of the tune mode, the standby key
CancelByKey ==
  /\ Scanning /\ Asks
  /\ CancelFmScan
  /\ allowed' \in BOOLEAN
  /\ UNCHANGED <<tuner, reception, af, muted, fmfreq, tuning, seek, started, chosen>>

\* KeyUp and KeyDown: rotary 1 ends a scan.
RotaryOne ==
  /\ TurnKnob \/ PressSeek
  /\ IF Scanning THEN CancelFmScan ELSE UNCHANGED lists

\* KeyUp2, KeyDown2, RemoteTuneAction: rotary 2 does not.
RotaryTwo ==
  /\ TurnKnob \/ (SelectStation /\ \E r \in fmStations : fmfreq' = r.freq)
  /\ Scanning => FineTuneInScan
  /\ UNCHANGED lists

\* ExitSettingsMenu
ChangeRegion ==
  /\ ~Scanning /\ Asks
  /\ region' \in Regions \ {region}
  /\ fmStations' = Loaded(fmNvs, region') /\ fmCompleted' = Complete(fmNvs, region')
  /\ SetFmFrequency(fmfreq)
  /\ UNCHANGED <<muted, fmfreq, tuning, seek, started, allowed, fmScan, fmNvs>>

\* The lists that are being saved, if the scan is about to end
BeingSaved ==
  CASE fmScan.state = "WaitSeek" /\ ~tunePending /\ BandDone -> {fmStations}
    [] fmScan.state = "RdsDwell" /\ SeeksUsedUp(fmScan.seeks) -> Added(fmStations, Candidate)
    [] OTHER -> {}

\* The power fails, possibly between two writes; the receiver starts with what the flash holds.
LosePower ==
  /\ Asks
  /\ fmNvs' \in {fmNvs} \cup UNION {CutShort(held) \cup {Saved(held)} : held \in BeingSaved}
  /\ fmStations' = Loaded(fmNvs', region) /\ fmCompleted' = Complete(fmNvs', region)
  /\ fmScan' = NoFmScan
  /\ fmfreq' \in Freqs /\ to' = fmfreq' /\ busy' = TRUE /\ tunePending' = TRUE
  /\ seekPending' = FALSE /\ fmFrequency' = fmfreq' /\ fmValid' = FALSE /\ fmPi' = 0 /\ fmAf' = {}
  /\ af' = NoSweep /\ muted' = FALSE /\ tuning' = FALSE /\ seek' = FALSE /\ started' = FALSE
  /\ allowed' = TRUE /\ chosen' = fmfreq'
  /\ UNCHANGED <<at, region>>

\* What FmReceiver does of itself, and what the user does there outside a scan
Receive ==
  /\ \/ Arrive \/ ProcessDAB \/ BeginSeek \/ EndSeek \/ TuneByKnob
     \/ ~Scanning /\ (LeaveSeek \/ ChangeView)
  /\ UNCHANGED lists

FmScanNext ==
  \/ Receive \/ RotaryOne \/ RotaryTwo
  \/ StartFmScan \/ FmScanPass \/ CancelByKey
  \/ ChangeRegion \/ LosePower

FmScanSpec == FmScanInit /\ [][FmScanNext]_fmScanVars

\* The loop serves the scan as it serves the receiver, and its dwell ends.
FmScanFairness == FmFairness /\ WF_fmScanVars(FmScanPass)

FmScanFairSpec == FmScanSpec /\ FmScanFairness

-----------------------------------------------------------------------------
(* Properties. *)

\* A listed station has the PI of its own frequency, or none: "so a scan can never combine an
\* old name with the newly tuned station" (si4684.cpp:2932-2934).
ListedAsReceived == \A r \in fmStations \cup fmNvs.list : r.pi \in {0, Programme[r.freq]}

\* Without a scan the list on offer and its flag are those a restart would bring back.
FmListSurvives ==
  ~Scanning => fmStations = Loaded(fmNvs, region) /\ fmCompleted = Complete(fmNvs, region)

\* Every scan ends, whatever the seeks find, and so do the sweeps and seeks of the receiver.
FmScanEnds == []<>~Scanning /\ SearchesEnd
=============================================================================
