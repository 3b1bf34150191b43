------------------------------- MODULE DabScan -------------------------------
(***************************************************************************)
(* The full DAB scan of src/SI4684-DAB-Receiver.ino (StartDabFullScan,     *)
(* ProcessDabFullScan, FinishDabFullScan, CancelDabFullScan, and the       *)
(* restore of the service in ProcessDAB), the station list it fills        *)
(* (src/src/dab_station_list.cpp) and the copy of that list in the flash   *)
(* (src/src/nvs_storage.cpp), across cancellations, failed writes and      *)
(* power losses.                                                           *)
(*                                                                         *)
(* Of the tuner there is the channel it receives and whether the driver    *)
(* has its lock and its lists; the switch of services and the stages of a  *)
(* tune are in DabSwitch.  A list may be provisional, and lack services.   *)
(* Whether labels are missing is left open.  The list generations are      *)
(* modelled by what is asked of them, "is there a list after the one that  *)
(* was remembered" (newer).  Each deadline is a flag.                      *)
(*                                                                         *)
(* ForgetTune, KeepPartial and NoHardDeadline are faulty variants of the   *)
(* operator that follows them.                                             *)
(***************************************************************************)
EXTENDS Naturals, FiniteSets

CONSTANTS
  NumChannels,   \* channels of Band III
  Ensemble,      \* the audio services on each of them
  Capacity,      \* DAB_STATION_LIST_CAPACITY
  ListRequests,  \* DAB_SCAN_LIST_MAX_REQUESTS
  EarlyLock,     \* may an RF poll see the lock of the channel a pending tune leaves?
  MaxScanEvents  \* bound: commands of the user, lost locks, failed writes, power losses

Channels == 1..NumChannels

ASSUME DabScanAssumption ==
  /\ NumChannels \in Nat \ {0} /\ Ensemble \in [Channels -> SUBSET (Nat \ {0})]
  /\ Capacity \in Nat /\ ListRequests \in Nat /\ EarlyLock \in BOOLEAN /\ MaxScanEvents \in Nat

VARIABLES
  onChannel,    \* external: the channel the tuner receives
  requested,    \* dabfreq
  tuneWaits,    \* tunePending
  signal,       \* signallock
  services,     \* service[0..numberofservices - 1], audio only
  listing,      \* dabServiceListReady, and isDabServiceMetadataReady
  listDue,      \* dabServiceListRefreshPending
  newer,        \* a list was read after the generation the scan remembers
  dabScan,      \* dabFullScanState, dabScanChannelsTried, -ListRequests and the deadlines
  before,       \* dabScanRestoreChannel and dabScanRestoreServiceId
  wantedId,     \* _serviceID, 0 for none
  armed,        \* trysetserviceFreq, 0 unless trysetservice
  selected,     \* the service with ServiceStart, 0 for none
  stations,     \* DabStations
  completed,    \* dabScanCompleted
  nvs,          \* the keys dab_scan and dab_scan_done
  scanEvents    \* bound: events so far

radio == <<onChannel, requested, tuneWaits, signal, services, listing, listDue, newer>>
restore == <<before, wantedId, armed, selected>>
lists == <<stations, completed, nvs>>
dabScanVars == <<radio, dabScan, restore, lists, scanEvents>>

Services == UNION {Ensemble[c] : c \in Channels}
Records == {<<c, s>> : c \in Channels, s \in Services}

States == {"Idle", "TuneChannel", "WaitTune", "WaitServiceList", "WaitServiceTypes", "WaitListRefresh"}
NoScan == [ state |-> "Idle", tried |-> 0, requests |-> 0,
            late |-> FALSE, hardLate |-> FALSE, settled |-> FALSE ]

DabScanTypeOK ==
  /\ onChannel \in Channels /\ requested \in Channels
  /\ tuneWaits \in BOOLEAN /\ signal \in BOOLEAN /\ listDue \in BOOLEAN /\ newer \in BOOLEAN
  /\ services \subseteq Services /\ listing \in {"None", "List", "Types"}
  /\ dabScan \in [ state : States, tried : 0..NumChannels, requests : 0..ListRequests,
                   late : BOOLEAN, hardLate : BOOLEAN, settled : BOOLEAN ]
  /\ before \in [channel : Channels, service : Services \cup {0}]
  /\ wantedId \in Services \cup {0} /\ selected \in Services \cup {0}
  /\ armed \in 0..NumChannels
  /\ stations \subseteq Records /\ Cardinality(stations) <= Capacity
  /\ completed \in BOOLEAN
  /\ nvs \in [list : SUBSET Records, done : BOOLEAN]
  /\ scanEvents \in 0..MaxScanEvents

DabScanInit ==
  /\ onChannel = 1 /\ requested = 1 /\ tuneWaits = TRUE /\ signal = FALSE
  /\ services = {} /\ listing = "None" /\ listDue = FALSE /\ newer = FALSE
  /\ dabScan = NoScan
  /\ before = [channel |-> 1, service |-> 0] /\ wantedId = 0 /\ armed = 0 /\ selected = 0
  /\ stations = {} /\ completed = FALSE /\ nvs = [list |-> {}, done |-> FALSE]
  /\ scanEvents = 0

Happens == scanEvents < MaxScanEvents /\ scanEvents' = scanEvents + 1

-----------------------------------------------------------------------------
(* The radio. *)

\* The old list stays until the new one is read.
ForgetTune(c) ==
  /\ requested' = c /\ tuneWaits' = TRUE /\ signal' = FALSE /\ listDue' = FALSE
  /\ UNCHANGED <<onChannel, services, listing>>

\* DAB::setFreq
SetChannel(c) ==
  /\ requested' = c /\ tuneWaits' = TRUE /\ signal' = FALSE /\ listDue' = FALSE
  /\ services' = {} /\ listing' = "None"
  /\ UNCHANGED onChannel

\* The tune ends: with or without a lock, or given up with the tuner where it was.
TuneEnds ==
  /\ tuneWaits /\ tuneWaits' = FALSE
  /\ \E carriedOut, found \in BOOLEAN :
       /\ found => carriedOut /\ Ensemble[requested] # {}
       /\ onChannel' = IF carriedOut THEN requested ELSE onChannel
       /\ signal' = found /\ listDue' = (listDue \/ found)
  /\ UNCHANGED <<requested, services, listing, newer, dabScan, restore, lists, scanEvents>>

\* An RF poll.  A pass of the scan that sees no lock comes before a poll that finds one,
\* unless the scan waits for a tune.
PollSignal ==
  /\ ~tuneWaits \/ EarlyLock
  /\ signal' = ~signal /\ Happens
  /\ signal' => /\ Ensemble[onChannel] # {}
                /\ dabScan.state = "Idle" \/ (dabScan.state = "WaitTune" /\ tuneWaits)
  /\ listDue' = (listDue \/ signal')
  /\ UNCHANGED <<onChannel, requested, tuneWaits, services, listing, newer, dabScan, restore, lists>>

\* parseDabServiceListReply
ReadList ==
  /\ listDue /\ signal
  /\ listDue' = FALSE /\ newer' = TRUE
  /\ services' \in (SUBSET Ensemble[onChannel]) \ {{}} /\ listing' = "List"
  /\ UNCHANGED <<onChannel, requested, tuneWaits, signal, dabScan, restore, lists, scanEvents>>

ReadTypes ==
  /\ listing = "List"
  /\ listing' = "Types"
  /\ UNCHANGED <<onChannel, requested, tuneWaits, signal, services, listDue, newer, dabScan,
                 restore, lists, scanEvents>>

\* The restore of a service (ProcessDAB) is given up on another channel and when the whole list
\* does not have the service.
RestoreService ==
  /\ armed # 0
  /\ \/ armed # requested /\ UNCHANGED selected
     \/ /\ armed = requested /\ signal /\ listing # "None"
        /\ IF wantedId \in services THEN selected' = wantedId
           ELSE listing = "Types" /\ UNCHANGED selected
  /\ armed' = 0
  /\ UNCHANGED <<radio, dabScan, before, wantedId, lists, scanEvents>>

-----------------------------------------------------------------------------
(* The list and its copy in the flash. *)

\* StoreCurrentDabScanServices: what does not fit is dropped.
Kept(held, new) ==
  LET all  == held \cup new
      room == IF Cardinality(all) <= Capacity THEN Cardinality(all) ELSE Capacity
  IN {kept \in SUBSET all : held \subseteq kept /\ Cardinality(kept) = room}

Store == stations' \in Kept(stations, {<<requested, s>> : s \in services})

\* What save() may leave in the flash: everything, the list without the flag, or nothing new.
Saved == [list |-> stations, done |-> TRUE]
Written == {Saved, [nvs EXCEPT !.list = stations], nvs}

\* A list that could not be saved stays on offer until the next start.
KeepPartial(contents) == stations

\* load() after a save that failed
ListAfter(contents) == IF contents = Saved THEN stations ELSE contents.list

-----------------------------------------------------------------------------
(* The scan. *)

StartScan ==
  /\ dabScan.state = "Idle" /\ Happens
  /\ before' = [channel |-> requested, service |-> IF selected # 0 THEN selected ELSE wantedId]
  /\ armed' = 0
  /\ stations' = {} /\ newer' = FALSE
  /\ dabScan' = [NoScan EXCEPT !.state = "TuneChannel"]
  /\ UNCHANGED <<onChannel, requested, tuneWaits, signal, services, listing, listDue,
                 wantedId, selected, completed, nvs>>

\* RestoreAfterDabFullScan
RestoreAfterScan ==
  /\ SetChannel(before.channel)
  /\ wantedId' = before.service /\ selected' = 0
  /\ armed' = IF before.service # 0 THEN before.channel ELSE 0
  /\ UNCHANGED <<newer, before>>

FinishScan ==
  /\ dabScan.state = "TuneChannel" /\ dabScan.tried = NumChannels
  /\ \E contents \in Written :
       /\ nvs' = contents
       /\ IF contents = Saved THEN UNCHANGED scanEvents ELSE Happens
       /\ stations' = ListAfter(contents) /\ completed' = contents.done
  /\ dabScan' = NoScan
  /\ RestoreAfterScan

\* By a key, the encoder, or a change of the mode
CancelScan ==
  /\ dabScan.state # "Idle" /\ Happens
  /\ stations' = nvs.list
  /\ dabScan' = NoScan
  /\ RestoreAfterScan
  /\ UNCHANGED <<completed, nvs>>

TuneNextChannel ==
  /\ dabScan.state = "TuneChannel" /\ dabScan.tried < NumChannels
  /\ SetChannel(dabScan.tried + 1)
  /\ selected' = 0 /\ newer' = FALSE
  /\ dabScan' = [NoScan EXCEPT !.state = "WaitTune", !.tried = dabScan.tried + 1]
  /\ UNCHANGED <<before, wantedId, armed, lists, scanEvents>>

To(state) == dabScan' = [dabScan EXCEPT !.state = state]
Advance == dabScan' = [NoScan EXCEPT !.state = "TuneChannel", !.tried = dabScan.tried]

PassWaitTune ==
  /\ dabScan.state = "WaitTune"
  /\ ~tuneWaits \/ dabScan.late
  /\ IF signal THEN To("WaitServiceList") ELSE Advance
  /\ UNCHANGED <<radio, restore, lists, scanEvents>>

\* Only the list ends the wait.
NoHardDeadline == FALSE

OutOfTime == dabScan.hardLate

PassWaitList ==
  /\ dabScan.state = "WaitServiceList"
  /\ IF ~signal \/ OutOfTime THEN Advance /\ UNCHANGED newer
     ELSE newer /\ newer' = FALSE /\ To("WaitServiceTypes")
  /\ UNCHANGED <<onChannel, requested, tuneWaits, signal, services, listing, listDue, restore,
                 lists, scanEvents>>

\* The stations are stored; a first list is always asked for once more, one without labels
\* while requests are left.
PassWaitTypes ==
  /\ dabScan.state = "WaitServiceTypes"
  /\ IF ~signal THEN Advance /\ UNCHANGED <<stations, listDue>>
     ELSE IF OutOfTime
     THEN /\ Advance /\ UNCHANGED listDue
          /\ IF listing = "Types" THEN Store ELSE UNCHANGED stations
     ELSE /\ dabScan.settled /\ listing = "Types" /\ Store
          /\ \E missing \in BOOLEAN :
               IF (dabScan.requests # 0 /\ ~missing) \/ dabScan.requests >= ListRequests
               THEN Advance /\ UNCHANGED listDue
               ELSE /\ dabScan' = [dabScan EXCEPT !.state = "WaitListRefresh", !.late = FALSE,
                                                  !.requests = @ + 1]
                    /\ listDue' = TRUE
  /\ UNCHANGED <<onChannel, requested, tuneWaits, signal, services, listing, newer, restore,
                 completed, nvs, scanEvents>>

PassWaitRefresh ==
  /\ dabScan.state = "WaitListRefresh"
  /\ IF ~signal THEN Advance /\ UNCHANGED <<stations, listDue, newer>>
     ELSE IF OutOfTime
     THEN /\ Advance /\ UNCHANGED <<listDue, newer>>
          /\ IF listing = "Types" THEN Store ELSE UNCHANGED stations
     ELSE IF newer
     THEN /\ newer' = FALSE /\ UNCHANGED <<stations, listDue>>
          /\ dabScan' = [dabScan EXCEPT !.state = "WaitServiceTypes", !.settled = TRUE]
     ELSE /\ dabScan.late /\ dabScan.requests < ListRequests
          /\ dabScan' = [dabScan EXCEPT !.requests = @ + 1, !.late = FALSE]
          /\ listDue' = TRUE /\ UNCHANGED <<stations, newer>>
  /\ UNCHANGED <<onChannel, requested, tuneWaits, signal, services, listing, restore,
                 completed, nvs, scanEvents>>

\* ProcessDabFullScan
ScanPass ==
  FinishScan \/ TuneNextChannel \/ PassWaitTune \/ PassWaitList \/ PassWaitTypes \/ PassWaitRefresh

Elapses(deadline, states) ==
  /\ dabScan.state \in states /\ ~dabScan[deadline]
  /\ dabScan' = [dabScan EXCEPT ![deadline] = TRUE]
  /\ UNCHANGED <<radio, restore, lists, scanEvents>>

TuneDeadline == Elapses("late", {"WaitTune", "WaitListRefresh"})
HardDeadline == Elapses("hardLate", {"WaitServiceList", "WaitServiceTypes", "WaitListRefresh"})
ListSettles  == Elapses("settled", {"WaitServiceTypes"})

-----------------------------------------------------------------------------
(* Around the scan. *)

\* The serial command T, and the user's tuning when no scan runs
TuneByHand ==
  /\ Happens
  /\ \E c \in Channels : SetChannel(c)
  /\ selected' = 0
  /\ UNCHANGED <<newer, dabScan, before, wantedId, armed, lists>>

\* The power fails, possibly within save(); the receiver starts with what the flash holds.
LosePower ==
  /\ Happens
  /\ nvs' \in IF dabScan.state = "TuneChannel" /\ dabScan.tried = NumChannels THEN Written ELSE {nvs}
  /\ stations' = nvs'.list /\ completed' = nvs'.done
  /\ dabScan' = NoScan
  /\ onChannel' = 1 /\ requested' = 1 /\ tuneWaits' = TRUE /\ signal' = FALSE
  /\ services' = {} /\ listing' = "None" /\ listDue' = FALSE /\ newer' = FALSE
  /\ before' = [channel |-> 1, service |-> 0]
  /\ wantedId' \in {0} \cup Ensemble[1] /\ armed' = (IF wantedId' = 0 THEN 0 ELSE 1) /\ selected' = 0

DabScanNext ==
  \/ TuneEnds \/ PollSignal \/ ReadList \/ ReadTypes \/ RestoreService
  \/ StartScan \/ CancelScan \/ ScanPass
  \/ TuneDeadline \/ HardDeadline \/ ListSettles
  \/ TuneByHand \/ LosePower

DabScanSpec == DabScanInit /\ [][DabScanNext]_dabScanVars

\* The main loop runs the scan, and time passes.
DabScanFairness ==
  /\ WF_dabScanVars(ScanPass)
  /\ WF_dabScanVars(TuneDeadline) /\ WF_dabScanVars(HardDeadline)
  /\ WF_dabScanVars(ListSettles)

DabScanFairSpec == DabScanSpec /\ DabScanFairness

-----------------------------------------------------------------------------
(* Properties. *)

\* Every station that is listed, now or after a restart, is received on its channel, and the
\* service that is restored where the tuner is, although lists arrive late and tunes fail or
\* overtake the scan.
StationsOnTheirChannel ==
  /\ \A record \in stations \cup nvs.list : record[2] \in Ensemble[record[1]]
  /\ selected # 0 => selected \in Ensemble[onChannel]

\* Without a scan the list on offer and its flag are those a restart would bring back: the
\* flash is the copy to which a cancelled scan and a failed save return (README.md:117).
ListSurvives == dabScan.state = "Idle" => stations = nvs.list /\ completed = nvs.done

\* Every scan ends, whether or not there are signals, lists and service types.
ScanEnds == []<>(dabScan.state = "Idle")
=============================================================================
