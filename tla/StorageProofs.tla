----------------------------- MODULE StorageProofs -----------------------------
(***************************************************************************)
(* The two parts whose state is kept in the flash.                         *)
(*                                                                         *)
(* DabScan: the station list is right, fits and survives, for every number *)
(* of channels, every set of services on them, every capacity of the list  *)
(* and any number of cancellations, failed writes, lost locks and power    *)
(* losses.  The services in the driver's list are those of the channel the *)
(* tuner receives (ListIsReceived); when the scan looks at them with the   *)
(* lock, that is the channel it asked for (LockIsRequested), so that what  *)
(* it stores belongs where it is stored.                                   *)
(*                                                                         *)
(* Settings: what it keeps, for any options, defaults and numbers of       *)
(* events.  Sound, about the flash and its image, holds of every step that *)
(* touches the image: a value that differs from the flash is in a dirty    *)
(* record, and a dirty record waits for a commit.  Agreed extends          *)
(* RunsAsKept into the open menu, where the image has what was set when it *)
(* was opened.                                                             *)
(***************************************************************************)
EXTENDS DabScan, Settings, TLAPS, FiniteSetTheorems

\* What the driver lists, and the service that was restored, is received; while a tune
\* waits there is no lock, no list and no service.
ListIsReceived ==
  /\ services \subseteq Ensemble[onChannel]
  /\ selected # 0 => selected \in Ensemble[onChannel]
  /\ tuneWaits => ~signal /\ services = {} /\ listing = "None" /\ selected = 0

\* A scan that has tuned sees the lock of its own channel only.
LockIsRequested ==
  dabScan.state \notin {"Idle", "TuneChannel"} /\ signal => onChannel = requested

\* The flash and the list on offer.
ListsAreReceived == \A record \in stations \cup nvs.list : record[2] \in Ensemble[record[1]]

\* The flash holds no more than the list can.
FlashFits == Cardinality(nvs.list) <= Capacity

ScanInductive ==
  DabScanTypeOK /\ FlashFits /\ ListIsReceived /\ LockIsRequested /\ ListsAreReceived

-----------------------------------------------------------------------------
(* Types. *)

ScanRecord ==
  [ state : States, tried : 0..NumChannels, requests : 0..ListRequests,
    late : BOOLEAN, hardLate : BOOLEAN, settled : BOOLEAN ]

LEMMA EnsembleType ==
  ASSUME NEW c \in Channels
  PROVE  Ensemble[c] \subseteq Services
  BY DEF Services

LEMMA EmptyFits == Cardinality({}) <= Capacity
  BY FS_EmptySet, DabScanAssumption DEF DabScanAssumption

\* Whatever is dropped, the list holds what it held, and what it holds was held or is new.
LEMMA KeptFits ==
  ASSUME NEW held, NEW new, NEW kept \in Kept(held, new)
  PROVE  held \subseteq kept /\ kept \subseteq held \cup new /\ Cardinality(kept) <= Capacity
  BY DabScanAssumption DEF Kept, DabScanAssumption

LEMMA EventCounted ==
  ASSUME Happens, scanEvents \in 0..MaxScanEvents
  PROVE  scanEvents' \in 0..MaxScanEvents
  BY DabScanAssumption DEF Happens, DabScanAssumption

\* What the scan makes of its own record.
LEMMA RecordTypes ==
  ASSUME dabScan \in ScanRecord
  PROVE  /\ NoScan \in ScanRecord
         /\ [NoScan EXCEPT !.state = "TuneChannel"] \in ScanRecord
         /\ [NoScan EXCEPT !.state = "TuneChannel", !.tried = dabScan.tried] \in ScanRecord
         /\ \A s \in States : [dabScan EXCEPT !.state = s] \in ScanRecord
         /\ dabScan.tried < NumChannels =>
              [NoScan EXCEPT !.state = "WaitTune", !.tried = dabScan.tried + 1] \in ScanRecord
         /\ dabScan.requests < ListRequests =>
              /\ [dabScan EXCEPT !.state = "WaitListRefresh", !.late = FALSE,
                                 !.requests = @ + 1] \in ScanRecord
              /\ [dabScan EXCEPT !.requests = @ + 1, !.late = FALSE] \in ScanRecord
         /\ [dabScan EXCEPT !.state = "WaitServiceTypes", !.settled = TRUE] \in ScanRecord
         /\ [dabScan EXCEPT !.late = TRUE] \in ScanRecord
         /\ [dabScan EXCEPT !.hardLate = TRUE] \in ScanRecord
         /\ [dabScan EXCEPT !.settled = TRUE] \in ScanRecord
<1> USE DabScanAssumption DEF DabScanAssumption, ScanRecord, States, NoScan
<1>1. NoScan \in ScanRecord
  OBVIOUS
<1>2. \A s \in States : [dabScan EXCEPT !.state = s] \in ScanRecord
  OBVIOUS
<1>3. dabScan.tried < NumChannels => dabScan.tried + 1 \in 0..NumChannels
  OBVIOUS
<1>4. dabScan.requests < ListRequests => dabScan.requests + 1 \in 0..ListRequests
  OBVIOUS
<1> QED
  BY <1>1, <1>2, <1>3, <1>4

\* What a save may leave in the flash.
LEMMA WrittenTypes ==
  ASSUME DabScanTypeOK, FlashFits, NEW contents \in Written
  PROVE  /\ contents \in [list : SUBSET Records, done : BOOLEAN]
         /\ Cardinality(contents.list) <= Capacity
         /\ ListAfter(contents) = contents.list
         /\ contents.list \in {stations, nvs.list}
<1> USE DEF DabScanTypeOK, FlashFits, Written, Saved, ListAfter
<1>1. CASE contents = Saved
  BY <1>1
<1>2. CASE contents = [nvs EXCEPT !.list = stations] /\ contents # Saved
  BY <1>2
<1>3. CASE contents = nvs /\ contents # Saved
  BY <1>3
<1> QED
  BY <1>1, <1>2, <1>3

\* What is stored.
LEMMA StoreTypes ==
  ASSUME DabScanTypeOK, Store
  PROVE  /\ stations' \subseteq Records /\ Cardinality(stations') <= Capacity
         /\ stations' \subseteq stations \cup {<<requested, s>> : s \in services}
<1>1. stations' \subseteq stations \cup {<<requested, s>> : s \in services}
  BY KeptFits DEF Store
<1>2. {<<requested, s>> : s \in services} \subseteq Records
  BY DEF DabScanTypeOK, Records
<1>3. stations \subseteq Records
  BY DEF DabScanTypeOK
<1>4. Cardinality(stations') <= Capacity
  BY KeptFits DEF Store
<1> QED
  BY <1>1, <1>2, <1>3, <1>4

LEMMA DabScanTypeStep ==
  ASSUME DabScanTypeOK, FlashFits, [DabScanNext]_dabScanVars
  PROVE  DabScanTypeOK' /\ FlashFits'
<1> USE DEF DabScanTypeOK, FlashFits
<1>0. dabScan \in ScanRecord
  BY DEF ScanRecord
<1>1. CASE TuneEnds
  <2>1. PICK carriedOut \in BOOLEAN, found \in BOOLEAN :
          /\ onChannel' = IF carriedOut THEN requested ELSE onChannel
          /\ signal' = found /\ listDue' = (listDue \/ found)
    BY <1>1 DEF TuneEnds
  <2>2. onChannel' \in Channels /\ signal' \in BOOLEAN /\ listDue' \in BOOLEAN
    BY <2>1
  <2> QED
    BY <1>1, <2>2 DEF TuneEnds, restore, lists
<1>2. CASE PollSignal
  BY <1>2, EventCounted DEF PollSignal, restore, lists
<1>3. CASE ReadList
  <2>1. services' \subseteq Services
    BY <1>3, EnsembleType DEF ReadList
  <2> QED
    BY <1>3, <2>1 DEF ReadList, restore, lists
<1>4. CASE ReadTypes
  BY <1>4 DEF ReadTypes, restore, lists
<1>5. CASE RestoreService
  <2>1. armed' \in 0..NumChannels
    BY <1>5, DabScanAssumption DEF RestoreService, DabScanAssumption
  <2> QED
    BY <1>5, <2>1 DEF RestoreService, radio, lists
<1>6. CASE StartScan
  <2>1. before' \in [channel : Channels, service : Services \cup {0}]
    BY <1>6 DEF StartScan
  <2>2. armed' \in 0..NumChannels
    BY <1>6, DabScanAssumption DEF StartScan, DabScanAssumption
  <2>3. dabScan' \in ScanRecord
    BY <1>0, <1>6, RecordTypes DEF StartScan
  <2> QED
    BY <1>6, <2>1, <2>2, <2>3, EventCounted, EmptyFits DEF StartScan, ScanRecord
<1>7. ASSUME RestoreAfterScan
      PROVE  /\ onChannel' \in Channels /\ requested' \in Channels
             /\ tuneWaits' \in BOOLEAN /\ signal' \in BOOLEAN /\ listDue' \in BOOLEAN
             /\ newer' \in BOOLEAN
             /\ services' \subseteq Services /\ listing' \in {"None", "List", "Types"}
             /\ before' \in [channel : Channels, service : Services \cup {0}]
             /\ wantedId' \in Services \cup {0} /\ selected' \in Services \cup {0}
             /\ armed' \in 0..NumChannels
  <2>1. before.channel \in 0..NumChannels /\ 0 \in 0..NumChannels
    BY DabScanAssumption DEF DabScanAssumption, Channels
  <2> QED
    BY <1>7, <2>1 DEF RestoreAfterScan, SetChannel
<1>8. CASE FinishScan
  <2>1. PICK contents \in Written :
          /\ nvs' = contents
          /\ IF contents = Saved THEN UNCHANGED scanEvents ELSE Happens
          /\ stations' = ListAfter(contents) /\ completed' = contents.done
    BY <1>8 DEF FinishScan
  <2>2. /\ nvs' \in [list : SUBSET Records, done : BOOLEAN] /\ completed' \in BOOLEAN
        /\ stations' \subseteq Records /\ Cardinality(stations') <= Capacity
        /\ Cardinality(nvs'.list) <= Capacity
    BY <2>1, WrittenTypes
  <2>3. dabScan' \in ScanRecord
    BY <1>0, <1>8, RecordTypes DEF FinishScan
  <2>4. scanEvents' \in 0..MaxScanEvents
    BY <2>1, EventCounted
  <2> QED
    BY <1>7, <1>8, <2>2, <2>3, <2>4 DEF FinishScan, ScanRecord
<1>9. CASE CancelScan
  <2>1. dabScan' \in ScanRecord
    BY <1>0, <1>9, RecordTypes DEF CancelScan
  <2> QED
    BY <1>7, <1>9, <2>1, EventCounted DEF CancelScan, ScanRecord
<1>10. CASE TuneNextChannel
  <2>1. dabScan' \in ScanRecord
    BY <1>0, <1>10, RecordTypes DEF TuneNextChannel
  <2>2. dabScan.tried + 1 \in Channels
    BY <1>10, DabScanAssumption DEF TuneNextChannel, Channels, DabScanAssumption
  <2> QED
    BY <1>10, <2>1, <2>2 DEF TuneNextChannel, SetChannel, lists, ScanRecord
<1>11. CASE PassWaitTune
  <2>1. dabScan' \in ScanRecord
    BY <1>0, <1>11, RecordTypes DEF PassWaitTune, To, Advance, States
  <2> QED
    BY <1>11, <2>1 DEF PassWaitTune, radio, restore, lists, ScanRecord
<1>12. CASE PassWaitList
  <2>1. dabScan' \in ScanRecord /\ newer' \in BOOLEAN
    BY <1>0, <1>12, RecordTypes DEF PassWaitList, To, Advance, States
  <2> QED
    BY <1>12, <2>1 DEF PassWaitList, restore, lists, ScanRecord
<1>13. CASE PassWaitTypes
  <2>1. dabScan' \in ScanRecord /\ listDue' \in BOOLEAN
    <3>1. ~(dabScan.requests >= ListRequests) => dabScan.requests < ListRequests
      BY <1>0, DabScanAssumption DEF ScanRecord, DabScanAssumption
    <3>2. dabScan' \in ScanRecord
      BY <1>0, <1>13, <3>1, RecordTypes DEF PassWaitTypes, Advance
    <3> QED
      BY <1>13, <3>2 DEF PassWaitTypes
  <2>2. stations' \subseteq Records /\ Cardinality(stations') <= Capacity
    BY <1>13, StoreTypes DEF PassWaitTypes
  <2> QED
    BY <1>13, <2>1, <2>2 DEF PassWaitTypes, restore, ScanRecord
<1>14. CASE PassWaitRefresh
  <2>1. dabScan' \in ScanRecord /\ listDue' \in BOOLEAN /\ newer' \in BOOLEAN
    BY <1>0, <1>14, RecordTypes DEF PassWaitRefresh, Advance
  <2>2. stations' \subseteq Records /\ Cardinality(stations') <= Capacity
    BY <1>14, StoreTypes DEF PassWaitRefresh
  <2> QED
    BY <1>14, <2>1, <2>2 DEF PassWaitRefresh, restore, ScanRecord
<1>15. CASE TuneDeadline \/ HardDeadline \/ ListSettles
  <2>1. dabScan' \in ScanRecord
    BY <1>0, <1>15, RecordTypes DEF TuneDeadline, HardDeadline, ListSettles, Elapses
  <2> QED
    BY <1>15, <2>1 DEF TuneDeadline, HardDeadline, ListSettles, Elapses, radio, restore, lists,
                       ScanRecord
<1>16. CASE TuneByHand
  BY <1>16, EventCounted DEF TuneByHand, SetChannel, lists
<1>17. CASE LosePower
  <2>1. nvs' \in [list : SUBSET Records, done : BOOLEAN] /\ Cardinality(nvs'.list) <= Capacity
    BY <1>17, WrittenTypes DEF LosePower
  <2>2. dabScan' \in ScanRecord
    BY <1>0, <1>17, RecordTypes DEF LosePower
  <2>3. 1 \in Channels /\ {0, 1} \subseteq 0..NumChannels
    BY DabScanAssumption DEF DabScanAssumption, Channels
  <2>4. wantedId' \in Services \cup {0} /\ armed' \in 0..NumChannels
    BY <1>17, <2>3, EnsembleType DEF LosePower
  <2>5. before' \in [channel : Channels, service : Services \cup {0}]
    BY <1>17, <2>3 DEF LosePower
  <2> QED
    BY <1>17, <2>1, <2>2, <2>3, <2>4, <2>5, EventCounted DEF LosePower, ScanRecord
<1>18. CASE UNCHANGED dabScanVars
  BY <1>18 DEF dabScanVars, radio, restore, lists
<1> QED
  BY <1>1, <1>2, <1>3, <1>4, <1>5, <1>6, <1>8, <1>9, <1>10, <1>11, <1>12, <1>13, <1>14,
     <1>15, <1>16, <1>17, <1>18 DEF DabScanNext, ScanPass

-----------------------------------------------------------------------------
(* Where the lists come from. *)

LEMMA ScanInitial == DabScanInit => ScanInductive
<1> SUFFICES ASSUME DabScanInit PROVE ScanInductive
  OBVIOUS
<1> USE DEF DabScanInit
<1>1. 1 \in Channels /\ {0, 1} \subseteq 0..NumChannels
  BY DabScanAssumption DEF DabScanAssumption, Channels
<1>2. dabScan \in ScanRecord
  BY <1>1, DabScanAssumption DEF DabScanAssumption, NoScan, ScanRecord, States
<1>3. /\ before \in [channel : Channels, service : Services \cup {0}]
      /\ nvs \in [list : SUBSET Records, done : BOOLEAN]
  BY <1>1
<1>4. scanEvents \in 0..MaxScanEvents
  BY DabScanAssumption DEF DabScanAssumption
<1>5. DabScanTypeOK
  BY <1>1, <1>2, <1>3, <1>4, EmptyFits DEF DabScanTypeOK, ScanRecord
<1> QED
  BY <1>5, EmptyFits
     DEF ScanInductive, FlashFits, ListIsReceived, LockIsRequested, ListsAreReceived, NoScan

LEMMA ReceivedStep ==
  ASSUME ScanInductive, ~EarlyLock, [DabScanNext]_dabScanVars
  PROVE  ListIsReceived'
<1> USE DEF ScanInductive, DabScanTypeOK, ListIsReceived
<1>1. CASE TuneEnds
  BY <1>1 DEF TuneEnds, restore, lists
<1>2. CASE PollSignal
  BY <1>2 DEF PollSignal, restore, lists
<1>3. CASE ReadList \/ ReadTypes
  BY <1>3 DEF ReadList, ReadTypes, restore, lists
<1>4. CASE RestoreService
  BY <1>4 DEF RestoreService, radio, lists
<1>5. CASE FinishScan \/ CancelScan \/ TuneNextChannel \/ TuneByHand
  <2>1. ~signal' /\ services' = {} /\ listing' = "None" /\ selected' = 0
    BY <1>5 DEF FinishScan, CancelScan, TuneNextChannel, TuneByHand, RestoreAfterScan, SetChannel
  <2> QED
    BY <2>1
<1>6. CASE LosePower
  BY <1>6 DEF LosePower
<1>7. CASE StartScan \/ PassWaitTune \/ PassWaitList \/ PassWaitTypes \/ PassWaitRefresh
  <2>1. UNCHANGED <<onChannel, tuneWaits, signal, services, listing, selected>>
    BY <1>7 DEF StartScan, PassWaitTune, PassWaitList, PassWaitTypes, PassWaitRefresh, radio, restore
  <2> QED
    BY <2>1
<1>8. CASE TuneDeadline \/ HardDeadline \/ ListSettles \/ UNCHANGED dabScanVars
  BY <1>8 DEF TuneDeadline, HardDeadline, ListSettles, Elapses, dabScanVars, radio, restore
<1> QED
  BY <1>1, <1>2, <1>3, <1>4, <1>5, <1>6, <1>7, <1>8 DEF DabScanNext, ScanPass

LEMMA LockStep ==
  ASSUME ScanInductive, ~EarlyLock, [DabScanNext]_dabScanVars
  PROVE  LockIsRequested'
<1> USE DEF ScanInductive, DabScanTypeOK, ListIsReceived, LockIsRequested
<1>1. CASE TuneEnds
  BY <1>1 DEF TuneEnds
<1>2. CASE PollSignal
  BY <1>2 DEF PollSignal
<1>3. CASE ReadList \/ ReadTypes \/ RestoreService
  BY <1>3 DEF ReadList, ReadTypes, RestoreService, radio
<1>4. CASE FinishScan \/ CancelScan \/ TuneNextChannel \/ TuneByHand \/ LosePower
  <2>1. ~signal'
    BY <1>4 DEF FinishScan, CancelScan, TuneNextChannel, TuneByHand, RestoreAfterScan, SetChannel,
                LosePower
  <2> QED
    BY <2>1
<1>5. CASE StartScan
  <2>1. dabScan'.state = "TuneChannel"
    BY <1>5 DEF StartScan, NoScan
  <2> QED
    BY <2>1
<1>6. CASE PassWaitTune \/ PassWaitList \/ PassWaitTypes \/ PassWaitRefresh
  <2>1. UNCHANGED <<onChannel, requested, signal>> /\ dabScan.state \notin {"Idle", "TuneChannel"}
    BY <1>6 DEF PassWaitTune, PassWaitList, PassWaitTypes, PassWaitRefresh, radio
  <2> QED
    BY <2>1
<1>7. CASE TuneDeadline \/ HardDeadline \/ ListSettles
  <2>1. UNCHANGED <<onChannel, requested, signal>> /\ dabScan.state \notin {"Idle", "TuneChannel"}
    BY <1>7 DEF TuneDeadline, HardDeadline, ListSettles, Elapses, radio
  <2> QED
    BY <2>1
<1>8. CASE UNCHANGED dabScanVars
  BY <1>8 DEF dabScanVars, radio
<1> QED
  BY <1>1, <1>2, <1>3, <1>4, <1>5, <1>6, <1>7, <1>8 DEF DabScanNext, ScanPass

\* What the scan stores while it sees the lock is received where it is stored.
LEMMA StoredIsReceived ==
  ASSUME ScanInductive, signal, dabScan.state \notin {"Idle", "TuneChannel"}, Store
  PROVE  \A record \in stations' \cup nvs.list : record[2] \in Ensemble[record[1]]
<1>1. services \subseteq Ensemble[requested]
  BY DEF ScanInductive, ListIsReceived, LockIsRequested
<1>2. stations' \subseteq stations \cup {<<requested, s>> : s \in services}
  BY StoreTypes DEF ScanInductive
<1> QED
  BY <1>1, <1>2 DEF ScanInductive, ListsAreReceived

LEMMA ListsStep ==
  ASSUME ScanInductive, [DabScanNext]_dabScanVars
  PROVE  ListsAreReceived'
<1> USE DEF ScanInductive
<1>1. CASE StartScan \/ CancelScan
  BY <1>1 DEF StartScan, CancelScan, ListsAreReceived
<1>2. CASE FinishScan
  <2>1. /\ nvs'.list \in {stations, nvs.list} /\ stations' = nvs'.list
    BY <1>2, WrittenTypes DEF FinishScan
  <2> QED
    BY <2>1 DEF ListsAreReceived
<1>3. CASE LosePower
  <2>1. nvs'.list \in {stations, nvs.list} /\ stations' = nvs'.list
    BY <1>3, WrittenTypes DEF LosePower
  <2> QED
    BY <2>1 DEF ListsAreReceived
<1>4. CASE PassWaitTypes \/ PassWaitRefresh
  <2>1. nvs' = nvs /\ (stations' = stations \/ (signal /\ Store))
    BY <1>4 DEF PassWaitTypes, PassWaitRefresh
  <2>2. dabScan.state \notin {"Idle", "TuneChannel"}
    BY <1>4 DEF PassWaitTypes, PassWaitRefresh
  <2> QED
    BY <2>1, <2>2, StoredIsReceived DEF ListsAreReceived
<1>5. CASE TuneEnds \/ PollSignal \/ ReadList \/ ReadTypes \/ RestoreService \/ TuneNextChannel
           \/ PassWaitTune \/ PassWaitList \/ TuneDeadline \/ HardDeadline \/ ListSettles
           \/ TuneByHand \/ UNCHANGED dabScanVars
  <2>1. UNCHANGED <<stations, nvs>>
    BY <1>5 DEF TuneEnds, PollSignal, ReadList, ReadTypes, RestoreService, TuneNextChannel,
                PassWaitTune, PassWaitList, TuneDeadline, HardDeadline, ListSettles, Elapses,
                TuneByHand, dabScanVars, lists
  <2> QED
    BY <2>1 DEF ListsAreReceived
<1> QED
  BY <1>1, <1>2, <1>3, <1>4, <1>5 DEF DabScanNext, ScanPass

-----------------------------------------------------------------------------
(* The list that survives. *)

Survives == completed = nvs.done /\ (dabScan.state = "Idle" => stations = nvs.list)

LEMMA SurvivalStep ==
  ASSUME DabScanTypeOK, FlashFits, Survives, [DabScanNext]_dabScanVars
  PROVE  Survives'
<1> USE DEF Survives
<1>1. CASE StartScan
  <2>1. dabScan'.state # "Idle"
    BY <1>1 DEF StartScan, NoScan
  <2> QED
    BY <1>1, <2>1 DEF StartScan
<1>2. CASE FinishScan \/ LosePower
  <2>1. CASE FinishScan
    BY <2>1, WrittenTypes DEF FinishScan
  <2>2. CASE LosePower
    BY <2>2 DEF LosePower
  <2> QED
    BY <1>2, <2>1, <2>2
<1>3. CASE CancelScan
  BY <1>3 DEF CancelScan
<1>4. CASE TuneNextChannel \/ PassWaitTune \/ PassWaitList \/ PassWaitTypes \/ PassWaitRefresh
  <2>1. dabScan'.state # "Idle"
    BY <1>4 DEF TuneNextChannel, PassWaitTune, PassWaitList, PassWaitTypes, PassWaitRefresh,
                To, Advance, NoScan, DabScanTypeOK
  <2> QED
    BY <1>4, <2>1 DEF TuneNextChannel, PassWaitTune, PassWaitList, PassWaitTypes, PassWaitRefresh,
                      lists
<1>5. CASE TuneDeadline \/ HardDeadline \/ ListSettles
  <2>1. dabScan'.state = dabScan.state
    BY <1>5 DEF TuneDeadline, HardDeadline, ListSettles, Elapses, DabScanTypeOK
  <2> QED
    BY <1>5, <2>1 DEF TuneDeadline, HardDeadline, ListSettles, Elapses, lists
<1>6. CASE TuneEnds \/ PollSignal \/ ReadList \/ ReadTypes \/ RestoreService \/ TuneByHand
           \/ UNCHANGED dabScanVars
  BY <1>6 DEF TuneEnds, PollSignal, ReadList, ReadTypes, RestoreService, TuneByHand,
              dabScanVars, lists
<1> QED
  BY <1>1, <1>2, <1>3, <1>4, <1>5, <1>6 DEF DabScanNext, ScanPass

-----------------------------------------------------------------------------
(* Theorems. *)

\* The scan and its lists keep their types; in particular the list, and its copy in the
\* flash, never hold more than DAB_STATION_LIST_CAPACITY stations.
THEOREM DabScanTypeCorrect == DabScanSpec => [](DabScanTypeOK /\ FlashFits)
<1>1. DabScanInit => DabScanTypeOK /\ FlashFits
  BY ScanInitial DEF ScanInductive
<1>2. (DabScanTypeOK /\ FlashFits) /\ [DabScanNext]_dabScanVars => (DabScanTypeOK /\ FlashFits)'
  BY DabScanTypeStep
<1> QED
  BY <1>1, <1>2, PTL DEF DabScanSpec

\* A station that is listed is received on its channel, provided that no RF poll reports the
\* lock of the channel a pending tune leaves.
THEOREM StationsCorrect == ~EarlyLock => (DabScanSpec => []StationsOnTheirChannel)
<1> SUFFICES ASSUME ~EarlyLock PROVE DabScanSpec => []StationsOnTheirChannel
  OBVIOUS
<1>1. DabScanInit => ScanInductive
  BY ScanInitial
<1>2. ScanInductive /\ [DabScanNext]_dabScanVars => ScanInductive'
  <2> SUFFICES ASSUME ScanInductive, [DabScanNext]_dabScanVars PROVE ScanInductive'
    OBVIOUS
  <2>1. DabScanTypeOK' /\ FlashFits'
    BY DabScanTypeStep DEF ScanInductive
  <2> QED
    BY <2>1, ReceivedStep, LockStep, ListsStep DEF ScanInductive
<1>3. ScanInductive => StationsOnTheirChannel
  BY DEF ScanInductive, ListIsReceived, ListsAreReceived, StationsOnTheirChannel
<1> QED
  BY <1>1, <1>2, <1>3, PTL DEF DabScanSpec

\* Without a scan the list on offer is the one in the flash, whatever was cancelled, could
\* not be saved, or was interrupted.
THEOREM ListSurvivesAlways == DabScanSpec => []ListSurvives
<1>1. DabScanInit => DabScanTypeOK /\ FlashFits /\ Survives
  <2> SUFFICES ASSUME DabScanInit PROVE DabScanTypeOK /\ FlashFits /\ Survives
    OBVIOUS
  <2>1. nvs.list = {} /\ nvs.done = FALSE
    BY DEF DabScanInit
  <2> QED
    BY <2>1, ScanInitial DEF ScanInductive, DabScanInit, Survives
<1>2. DabScanTypeOK /\ FlashFits /\ Survives /\ [DabScanNext]_dabScanVars
        => (DabScanTypeOK /\ FlashFits /\ Survives)'
  BY DabScanTypeStep, SurvivalStep
<1>3. Survives => ListSurvives
  BY DEF Survives, ListSurvives
<1> QED
  BY <1>1, <1>2, <1>3, PTL DEF DabScanSpec

-----------------------------------------------------------------------------
(* Settings: what is in the image, and where it differs from the flash. *)

Unsaved(s) == {k \in Keys : s.image[k] # s.flash[k]}

Sound(s) ==
  /\ s \in Storage
  /\ \A k \in Unsaved(s) : RecordOf(k) \in s.dirty
  /\ s.dirty # {} => s.due

\* The store that a commit leaves behind
Persisted(s) == s.flash = s.image /\ s.dirty = {}

Base == IF menu.open THEN Entered ELSE settings

Agreed ==
  power # "Halted" /\ ~cut /\ ~TuneAfterEdit =>
    /\ Base = nv.image /\ driver = InDriver(Base)
    /\ listRegion = settings.region /\ application = settings.mode

SettingsInv ==
  /\ SettingsTypeOK /\ Sound(nv)
  /\ power = "Asleep" => Persisted(nv)
  /\ Agreed

-----------------------------------------------------------------------------
(* The store. *)

\* A change of the image marks the records it changes.
LEMMA PutMarks ==
  ASSUME NEW s \in Storage, NEW new \in Contents, \A k \in Unsaved(s) : RecordOf(k) \in s.dirty
  PROVE  /\ Put(s, new) \in Storage
         /\ Put(s, new).image = new /\ Put(s, new).flash = s.flash /\ Put(s, new).due = s.due
         /\ \A k \in Unsaved(Put(s, new)) : RecordOf(k) \in Put(s, new).dirty
  BY DEF Put, Storage, Unsaved, RecordOf, NvsKeys

\* A marked change is sound.
LEMMA MarkedIsSound ==
  ASSUME NEW s, NEW new \in Contents, Sound(s)
  PROVE  /\ Sound(Mark(Put(s, new))) /\ Mark(Put(s, new)).image = new
         /\ Mark(Put(s, new)).due
<1>1. s \in Storage /\ \A k \in Unsaved(s) : RecordOf(k) \in s.dirty
  BY DEF Sound
<1> DEFINE p == Put(s, new)
<1>2. /\ p \in Storage /\ p.image = new
      /\ \A k \in Unsaved(p) : RecordOf(k) \in p.dirty
  BY <1>1, PutMarks
<1> HIDE DEF p
<1>3. /\ Mark(p) \in Storage /\ Mark(p).image = p.image /\ Mark(p).flash = p.flash
      /\ Mark(p).dirty = p.dirty /\ Mark(p).due
  BY <1>2 DEF Mark, Storage
<1>4. Sound(Mark(p))
  BY <1>2, <1>3 DEF Sound, Unsaved
<1> QED
  BY <1>2, <1>3, <1>4 DEF p

\* Writing records makes contents of image and flash.
LEMMA FlashWithType ==
  ASSUME NEW s \in Storage, NEW records
  PROVE  FlashWith(s, records) \in Contents
<1>1. s.image \in Contents /\ s.flash \in Contents
  BY DEF Storage
<1> QED
  BY <1>1 DEF FlashWith, Contents, Keys

\* After a commit that succeeds, the flash has the image.
LEMMA CommitSaves ==
  ASSUME NEW s, Sound(s)
  PROVE  /\ Sound(Commit(s)) /\ Persisted(Commit(s)) /\ Commit(s).image = s.image
<1>1. s \in Storage /\ s.image \in Contents /\ s.flash \in Contents
  BY DEF Sound, Storage
<1>2. FlashWith(s, s.dirty) = s.image
  BY <1>1 DEF FlashWith, Sound, Unsaved, Contents
<1>3. /\ Commit(s) \in Storage /\ Commit(s).flash = s.image /\ Commit(s).image = s.image
      /\ Commit(s).dirty = {}
  BY <1>1, <1>2 DEF Commit, Storage
<1> QED
  BY <1>3 DEF Sound, Persisted, Unsaved

\* FlushEeprom saves everything, although it does nothing when no commit is due.
LEMMA FlushSaves ==
  ASSUME NEW s, Sound(s)
  PROVE  /\ Sound(Flushed(s)) /\ Persisted(Flushed(s)) /\ Flushed(s).image = s.image
<1>1. CASE s.due
  BY <1>1, CommitSaves DEF Flushed
<1>2. CASE ~s.due
  <2>1. s \in Storage /\ s.dirty = {} /\ Unsaved(s) = {}
    BY <1>2 DEF Sound
  <2>2. s.flash = s.image
    BY <2>1 DEF Unsaved, Storage, Contents
  <2> QED
    BY <1>2, <2>1, <2>2 DEF Flushed, Persisted
<1> QED
  BY <1>1, <1>2 DEF Sound, Storage

\* A refused commit forgets nothing.
LEMMA RefusedIsSound ==
  ASSUME NEW s, Sound(s), NEW t \in RefusedCommit(s)
  PROVE  Sound(t) /\ t.image = s.image
<1>1. s \in Storage
  BY DEF Sound
<1>2. PICK records \in (SUBSET s.dirty) \ {s.dirty} : t = Refused(s, records)
  BY DEF RefusedCommit
<1>3. FlashWith(s, records) \in Contents
  BY <1>1, FlashWithType
<1>4. /\ t \in Storage /\ t.image = s.image /\ t.flash = FlashWith(s, records)
      /\ t.dirty = s.dirty /\ t.due
  BY <1>1, <1>2, <1>3 DEF Refused, Storage
<1>5. \A k \in Keys : t.image[k] # t.flash[k] => s.image[k] # s.flash[k]
  BY <1>4 DEF FlashWith
<1> QED
  BY <1>4, <1>5 DEF Sound, Unsaved

\* What has been loaded is sound and saved.
LEMMA FreshIsSound ==
  ASSUME NEW c \in Contents
  PROVE  Sound(Fresh(c)) /\ Persisted(Fresh(c)) /\ Fresh(c).image = c
  BY DEF Fresh, Sound, Persisted, Unsaved, Storage

-----------------------------------------------------------------------------
(* The settings. *)

\* A setting changes to a value of its own.
LEMMA ContentsChange ==
  ASSUME NEW c \in Contents
  PROVE  /\ \A k \in Keys \ {"mode"} : c[k] \in Options
         /\ \A k \in Keys \ {"mode"}, v \in Options : [c EXCEPT ![k] = v] \in Contents
         /\ c.mode \in Modes
         /\ \A m \in Modes : [c EXCEPT !.mode = m] \in Contents
         /\ InDriver(c) \in [af : Options, region : Options, i2s : Options]
<1>1. /\ c \in [Keys -> Options \cup Modes] /\ c.mode \in Modes
      /\ \A k \in Keys \ {"mode"} : c[k] \in Options
  BY DEF Contents
<1>2. \A k \in Keys \ {"mode"}, v \in Options : [c EXCEPT ![k] = v] \in Contents
  BY <1>1 DEF Contents, Keys
<1>3. \A m \in Modes : [c EXCEPT !.mode = m] \in Contents
  BY <1>1 DEF Contents, Keys
<1>4. InDriver(c) \in [af : Options, region : Options, i2s : Options]
  BY <1>1 DEF InDriver, Keys
<1> QED
  BY <1>1, <1>2, <1>3, <1>4

\* A start takes over everything from the flash.
LEMMA StartedKeeps ==
  ASSUME NEW c \in Contents, NEW works \in BOOLEAN, Started(c, works),
         settingEvents' \in 0..MaxSettingEvents
  PROVE  SettingsInv'
<1> USE DEF Started, Running
<1>1. Sound(nv') /\ Persisted(nv') /\ nv'.image = c
  BY FreshIsSound
<1>2. SettingsTypeOK'
  <2>1. nv' \in Storage
    BY <1>1 DEF Sound
  <2>2. driver' \in [af : Options, region : Options, i2s : Options] /\ listRegion' \in Options
    BY ContentsChange DEF Keys
  <2>3. menu' \in [open : BOOLEAN, asked : Contents, before : Options]
    BY SettingsAssumption, ContentsChange DEF Closed, Keys
  <2>4. application' \in Modes \cup {"None"}
    BY ContentsChange
  <2> QED
    BY <2>1, <2>2, <2>3, <2>4 DEF SettingsTypeOK
<1>3. Agreed'
  BY <1>1 DEF Agreed, Base, Closed
<1> QED
  BY <1>1, <1>2, <1>3 DEF SettingsInv

\* SwitchRadioMode keeps the image sound, and settings that agreed with it.
LEMMA SwitchKeeps ==
  ASSUME NEW s, Sound(s), NEW c \in Contents, NEW mode \in Modes, NEW works \in BOOLEAN,
         SwitchRadioMode(s, c, mode, works),
         cut \in BOOLEAN, settingEvents \in 0..MaxSettingEvents
  PROVE  /\ Sound(nv') /\ settings' \in Contents /\ application' \in Modes \cup {"None"}
         /\ cut' \in BOOLEAN /\ settingEvents' \in 0..MaxSettingEvents
         /\ settings'.region = c.region
         /\ ~cut' => /\ ~cut /\ application' = mode /\ settings' = [c EXCEPT !.mode = mode]
                     /\ [s.image EXCEPT !.mode = mode] = settings' /\ s.image.mode \in {mode, c.mode}
                          => nv'.image = settings'
<1> USE DEF SwitchRadioMode
<1>1. s \in Storage /\ s.image \in Contents
  BY DEF Sound, Storage
<1>2. [s.image EXCEPT !.mode = mode] \in Contents /\ [c EXCEPT !.mode = mode] \in Contents
  BY <1>1, ContentsChange
<1>3. Sound(nv') /\ (works /\ mode # c.mode => nv'.image = [s.image EXCEPT !.mode = mode])
  BY <1>2, MarkedIsSound
<1>4. settingEvents' \in 0..MaxSettingEvents
  BY SettingsAssumption DEF Meets, SettingEvent
<1>5. settings'.region = c.region
  BY <1>2 DEF Contents, Keys
<1>6. ASSUME ~cut', [s.image EXCEPT !.mode = mode] = settings', s.image.mode \in {mode, c.mode}
      PROVE  nv'.image = settings'
  <2>1. works
    BY <1>6
  <2>2. CASE mode = c.mode
    BY <1>1, <1>6, <2>1, <2>2 DEF Contents, Keys
  <2> QED
    BY <1>3, <1>6, <2>1, <2>2
<1> QED
  BY <1>2, <1>3, <1>4, <1>5, <1>6

\* Entered and Asked are settings.
LEMMA MenuContents ==
  ASSUME SettingsTypeOK
  PROVE  /\ Entered \in Contents /\ Asked \in Contents /\ Base \in Contents
         /\ \A k \in {"region", "mode", "gpio", "i2s"} : Entered[k] = settings[k] /\ Asked[k] = menu.asked[k]
         /\ Entered.memory = settings.memory /\ Asked.memory = settings.memory
         /\ Entered.af = menu.before /\ Asked.af = settings.af
<1>1. settings \in Contents /\ menu.asked \in Contents /\ menu.before \in Options
  BY DEF SettingsTypeOK
<1>2. settings \in [Keys -> Options \cup Modes] /\ menu.asked \in [Keys -> Options \cup Modes]
  BY <1>1 DEF Contents
<1>3. Entered \in Contents
  BY <1>1, ContentsChange DEF Entered, Keys
<1>4. Asked \in Contents
  <2>1. settings.af \in Options /\ settings.memory \in Options
    BY <1>1, ContentsChange DEF Keys
  <2>2. [menu.asked EXCEPT !.af = settings.af] \in Contents
    BY <1>1, <2>1, ContentsChange DEF Keys
  <2>3. [[menu.asked EXCEPT !.af = settings.af] EXCEPT !.memory = settings.memory] \in Contents
    BY <2>1, <2>2, ContentsChange DEF Keys
  <2> QED
    BY <2>3 DEF Asked
<1> QED
  BY <1>1, <1>2, <1>3, <1>4 DEF Base, Entered, Asked, Keys

\* The writes of the exit bring the image from what it was to what is asked for.
LEMMA ExitWrites ==
  ASSUME SettingsTypeOK, Sound(nv)
  PROVE  Sound(AfterWrites) /\ (nv.image = Entered => AfterWrites.image = Asked)
<1>1. Entered \in Contents /\ Asked \in Contents /\ nv.image \in Contents
  BY MenuContents DEF Sound, Storage
<1> DEFINE new == [k \in Keys |-> IF Changed(k) THEN Asked[k] ELSE nv.image[k]]
<1>2. new \in Contents
  BY <1>1 DEF Contents, Keys
<1>3. nv.image = Entered => new = Asked
  BY <1>1 DEF Changed, Contents
<1> HIDE DEF new
<1>4. Sound(Mark(Put(nv, new))) /\ Mark(Put(nv, new)).image = new
  BY <1>2, MarkedIsSound
<1>5. AfterWrites = IF Asked = Entered THEN nv ELSE Mark(Put(nv, new))
  BY DEF AfterWrites, new
<1> QED
  BY <1>3, <1>4, <1>5

\* The memory changes in the program and in the image.
LEMMA MemoryKeeps ==
  ASSUME SettingsTypeOK, Sound(nv), NEW v \in Options, Remember(v), UNCHANGED menu
  PROVE  /\ settings' \in Contents /\ Sound(WithMemory(v)) /\ WithMemory(v).due
         /\ Base = nv.image => Base' = WithMemory(v).image
         /\ InDriver(Base') = InDriver(Base)
         /\ settings'.region = settings.region /\ settings'.mode = settings.mode
         /\ WithMemory(v).image.memory = v
<1>1. settings \in Contents /\ nv.image \in Contents /\ menu.before \in Options
  BY DEF SettingsTypeOK, Sound, Storage
<1>2. settings' \in Contents /\ settings' = [settings EXCEPT !.memory = v]
  BY <1>1, ContentsChange DEF Remember, Keys
<1>3. [nv.image EXCEPT !.memory = v] \in Contents
  BY <1>1, ContentsChange DEF Keys
<1>4. /\ Sound(WithMemory(v)) /\ WithMemory(v).due
      /\ WithMemory(v).image = [nv.image EXCEPT !.memory = v]
  BY <1>3, MarkedIsSound DEF WithMemory
<1>5. Base' = [Base EXCEPT !.memory = v] /\ InDriver(Base') = InDriver(Base)
  BY <1>1, <1>2 DEF Base, Entered, Contents, Keys, InDriver
<1>6. nv.image \in [Keys -> Options \cup Modes] /\ settings \in [Keys -> Options \cup Modes]
  BY <1>1 DEF Contents
<1> QED
  BY <1>2, <1>4, <1>5, <1>6 DEF Keys

-----------------------------------------------------------------------------
(* The invariant. *)

LEMMA SettingsInvInit == SettingsInit => SettingsInv
<1> SUFFICES ASSUME SettingsInit PROVE SettingsInv
  OBVIOUS
<1> USE DEF SettingsInit
<1>1. Sound(nv) /\ Persisted(nv) /\ nv.image = settings
  BY FreshIsSound
<1>2. SettingsTypeOK
  <2>1. nv \in Storage
    BY <1>1 DEF Sound
  <2>2. driver \in [af : Options, region : Options, i2s : Options] /\ listRegion \in Options
    BY ContentsChange DEF Keys
  <2>3. menu \in [open : BOOLEAN, asked : Contents, before : Options]
    BY SettingsAssumption, ContentsChange DEF Closed, Keys
  <2>4. application \in Modes \cup {"None"}
    BY ContentsChange
  <2>5. settings \in Contents /\ power = "On" /\ cut = FALSE /\ settingEvents \in 0..MaxSettingEvents
    BY SettingsAssumption
  <2> HIDE DEF SettingsInit
  <2> QED
    BY <2>1, <2>2, <2>3, <2>4, <2>5 DEF SettingsTypeOK
<1>3. Agreed
  BY <1>1 DEF Agreed, Base, Closed
<1> QED
  BY <1>1, <1>2, <1>3 DEF SettingsInv

\* Each step keeps it.
LEMMA SettingsInvStep == SettingsInv /\ [SettingsNext]_settingsVars => SettingsInv'
<1> SUFFICES ASSUME SettingsInv, [SettingsNext]_settingsVars PROVE SettingsInv'
  OBVIOUS
<1>0. SettingsTypeOK /\ Sound(nv) /\ (power = "Asleep" => Persisted(nv)) /\ Agreed
  BY DEF SettingsInv
<1>t. /\ nv \in Storage /\ nv.flash \in Contents /\ settings \in Contents
      /\ menu.asked \in Contents /\ menu.before \in Options
      /\ cut \in BOOLEAN /\ settingEvents \in 0..MaxSettingEvents
  BY <1>0 DEF SettingsTypeOK, Storage
<1>e. SettingEvent => settingEvents' \in 0..MaxSettingEvents
  BY <1>t, SettingsAssumption DEF SettingEvent
<1>c. Closed.open = FALSE /\ Closed \in [open : BOOLEAN, asked : Contents, before : Options]
  BY SettingsAssumption, ContentsChange DEF Closed, Keys
<1>1. CASE PowerFails
  <2>1. PICK records \in SUBSET nv.dirty, works \in BOOLEAN : Started(FlashWith(nv, records), works)
    BY <1>1 DEF PowerFails
  <2>2. FlashWith(nv, records) \in Contents
    BY <1>t, FlashWithType
  <2> QED
    BY <1>1, <1>e, <2>1, <2>2, StartedKeeps DEF PowerFails
<1>2. CASE StartWithDefaults
  <2>1. PICK works \in BOOLEAN : Started(Defaults, works)
    BY <1>2 DEF StartWithDefaults
  <2> QED
    BY <1>2, <1>e, <2>1, SettingsAssumption, StartedKeeps DEF StartWithDefaults
<1>3. CASE DefaultsRefused
  <2> DEFINE c == nv.flash
             reset == Put(Fresh(c), Defaults)
  <2>1. PICK works \in BOOLEAN : Running(c, works)
    BY <1>3 DEF DefaultsRefused
  <2>2. /\ cut' = TRUE /\ SettingEvent
        /\ nv' \in {Commit(reset)} \cup RefusedCommit(reset)
    BY <1>3 DEF DefaultsRefused
  <2>3. Sound(nv')
    <3>1. Sound(Fresh(c))
      BY <1>t, FreshIsSound
    <3>2. /\ reset \in Storage /\ \A k \in Unsaved(reset) : RecordOf(k) \in reset.dirty
      BY <3>1, PutMarks, SettingsAssumption DEF Sound
    <3> HIDE DEF reset
    <3>3. CASE nv' = Commit(reset)
      <4>1. FlashWith(reset, reset.dirty) = reset.image
        BY <3>2 DEF FlashWith, Unsaved, Storage, Contents
      <4> QED
        BY <3>2, <3>3, <4>1 DEF Commit, Sound, Unsaved, Storage
    <3>4. CASE nv' \in RefusedCommit(reset)
      <4>1. PICK records : nv' = Refused(reset, records)
        BY <3>4 DEF RefusedCommit
      <4>2. FlashWith(reset, records) \in Contents
        BY <3>2, FlashWithType
      <4>3. /\ nv' \in Storage /\ nv'.image = reset.image /\ nv'.due
            /\ nv'.flash = FlashWith(reset, records) /\ nv'.dirty = reset.dirty
        BY <3>2, <4>1, <4>2 DEF Refused, Storage
      <4>4. \A k \in Keys : nv'.image[k] # nv'.flash[k] => reset.image[k] # reset.flash[k]
        BY <4>3 DEF FlashWith
      <4> QED
        BY <3>2, <4>3, <4>4 DEF Sound, Unsaved
    <3> QED
      BY <2>2, <3>3, <3>4
  <2> HIDE DEF reset
  <2>4. SettingsTypeOK'
    <3>1. /\ c \in Contents /\ settings' = c /\ menu' = Closed /\ driver' = InDriver(c)
          /\ listRegion' = c.region /\ application' = IF works THEN c.mode ELSE "None"
          /\ power' = IF works THEN "On" ELSE "Halted"
      BY <1>t, <2>1 DEF Running
    <3>2. driver' \in [af : Options, region : Options, i2s : Options] /\ listRegion' \in Options
      BY <3>1, ContentsChange DEF Keys
    <3>3. application' \in Modes \cup {"None"}
      BY <3>1, ContentsChange
    <3> QED
      BY <1>c, <1>e, <2>2, <2>3, <3>1, <3>2, <3>3 DEF SettingsTypeOK, Sound
  <2>5. power' # "Asleep"
    BY <2>1 DEF Running
  <2> QED
    BY <2>2, <2>3, <2>4, <2>5 DEF SettingsInv, Agreed
<1>4. CASE SwitchByRemote \/ Recover
  <2>1. /\ power = "On" /\ UNCHANGED <<menu, driver, listRegion, power>>
        /\ \E mode \in Modes, works \in BOOLEAN :
             SwitchRadioMode(nv, settings, mode, works) /\ (~menu.open \/ mode = settings.mode)
    BY <1>4 DEF SwitchByRemote, Recover, Modes
  <2>2. PICK mode \in Modes, works \in BOOLEAN :
          SwitchRadioMode(nv, settings, mode, works) /\ (~menu.open \/ mode = settings.mode)
    BY <2>1
  <2>3. /\ Sound(nv') /\ settings' \in Contents /\ application' \in Modes \cup {"None"}
        /\ cut' \in BOOLEAN /\ settingEvents' \in 0..MaxSettingEvents
        /\ settings'.region = settings.region
        /\ ~cut' => /\ ~cut /\ application' = mode /\ settings' = [settings EXCEPT !.mode = mode]
                    /\ [nv.image EXCEPT !.mode = mode] = settings' /\ nv.image.mode \in {mode, settings.mode}
                         => nv'.image = settings'
    BY <1>0, <1>t, <2>2, SwitchKeeps
  <2>4. SettingsTypeOK'
    BY <1>0, <2>1, <2>3 DEF SettingsTypeOK, Sound
  <2>5. ASSUME ~cut', ~TuneAfterEdit
        PROVE  /\ Base' = nv'.image /\ driver' = InDriver(Base')
               /\ listRegion' = settings'.region /\ application' = settings'.mode
    <3>1. /\ Base = nv.image /\ driver = InDriver(Base)
          /\ listRegion = settings.region /\ application = settings.mode
      BY <1>0, <2>1, <2>3, <2>5 DEF Agreed
    <3>2. settings' = [settings EXCEPT !.mode = mode] /\ settings'.mode = mode
      BY <1>t, <2>3, <2>5 DEF Contents, Keys
    <3>3. CASE ~menu.open
      <4>1. Base = settings /\ Base' = settings'
        BY <2>1, <3>3 DEF Base
      <4>2. nv'.image = settings'
        BY <2>3, <2>5, <3>1, <3>2, <4>1
      <4>3. InDriver(settings') = InDriver(settings)
        BY <1>t, <3>2 DEF InDriver, Contents, Keys
      <4> QED
        BY <2>1, <2>3, <2>5, <3>1, <3>2, <4>1, <4>2, <4>3
    <3>4. CASE menu.open
      <4>1. settings' = settings /\ mode = settings.mode
        BY <1>t, <2>2, <3>2, <3>4 DEF Contents
      <4>2. nv' = nv
        BY <2>2, <2>5, <4>1 DEF SwitchRadioMode
      <4>3. Base' = Base
        BY <2>1, <4>1 DEF Base, Entered
      <4> QED
        BY <2>1, <2>3, <2>5, <3>1, <4>1, <4>2, <4>3
    <3> QED
      BY <3>3, <3>4
  <2> QED
    BY <2>1, <2>3, <2>4, <2>5 DEF SettingsInv, Agreed
<1>5. CASE OpenMenu
  <2>1. /\ ~menu.open /\ menu'.open /\ menu'.before = settings.af
        /\ power' = "On" /\ menu' \in [open : BOOLEAN, asked : Contents, before : Options]
        /\ UNCHANGED <<nv, settings, driver, application, listRegion, power, cut, settingEvents>>
    BY <1>t, <1>5, ContentsChange DEF OpenMenu, Keys
  <2>2. Base' = Base
    BY <1>t, <2>1 DEF Base, Entered, Contents
  <2> QED
    BY <1>0, <2>1, <2>2 DEF SettingsInv, Agreed, SettingsTypeOK
<1>6. CASE EditSetting
  <2>1. /\ power = "On" /\ menu.open /\ menu'.open /\ menu'.before = menu.before
        /\ menu' \in [open : BOOLEAN, asked : Contents, before : Options]
        /\ settings' \in Contents /\ settingEvents' \in 0..MaxSettingEvents
        /\ UNCHANGED <<nv, driver, application, listRegion, power, cut>>
        /\ settings' = settings \/ \E v \in Options : settings' = [settings EXCEPT !.af = v]
    <3>1. menu \in [open : BOOLEAN, asked : Contents, before : Options]
      BY <1>0 DEF SettingsTypeOK
    <3>2. CASE UNCHANGED menu
      BY <1>e, <1>t, <1>6, <3>1, <3>2, ContentsChange DEF EditSetting, Keys
    <3>3. CASE settings' = settings
      <4>1. PICK a \in Contents : menu' = [menu EXCEPT !.asked = a]
        <5>1. CASE \E k \in {"region", "gpio", "i2s"}, v \in Options : menu' = [menu EXCEPT !.asked[k] = v]
          <6>1. PICK k \in {"region", "gpio", "i2s"}, v \in Options : menu' = [menu EXCEPT !.asked[k] = v]
            BY <5>1
          <6>2. [menu.asked EXCEPT ![k] = v] \in Contents
            BY <1>t, ContentsChange DEF Keys
          <6> QED
            BY <6>1, <6>2
        <5>2. CASE \E v \in Modes : menu' = [menu EXCEPT !.asked.mode = v]
          <6>1. PICK v \in Modes : menu' = [menu EXCEPT !.asked.mode = v]
            BY <5>2
          <6>2. [menu.asked EXCEPT !.mode = v] \in Contents
            BY <1>t, ContentsChange
          <6> QED
            BY <6>1, <6>2
        <5>3. CASE UNCHANGED menu
          BY <1>t, <3>1, <5>3
        <5> QED
          BY <1>6, <5>1, <5>2, <5>3 DEF EditSetting
      <4> QED
        BY <1>e, <1>t, <1>6, <3>1, <3>3, <4>1 DEF EditSetting
    <3> QED
      BY <1>6, <3>2, <3>3 DEF EditSetting
  <2>2. Base' = Base /\ settings'.region = settings.region /\ settings'.mode = settings.mode
    BY <1>t, <2>1 DEF Base, Entered, Contents, Keys
  <2> QED
    BY <1>0, <2>1, <2>2 DEF SettingsInv, Agreed, SettingsTypeOK
<1>7. CASE ExitCutShort
  <2>1. Sound(nv')
    BY <1>0, <1>7, ExitWrites, RefusedIsSound DEF ExitCutShort, RefusedFlush
  <2>2. settings' \in Contents
    <3>1. Asked.region \in Options
      BY <1>0, MenuContents, ContentsChange DEF Keys
    <3> QED
      BY <1>t, <1>7, <3>1, ContentsChange DEF ExitCutShort, Keys
  <2> QED
    BY <1>0, <1>c, <1>e, <1>7, <2>1, <2>2 DEF ExitCutShort, SettingsInv, SettingsTypeOK, Agreed, Sound
<1>8. CASE ExitRestarts
  <2>1. PICK works \in BOOLEAN : Started(Flushed(AfterWrites).flash, works) /\ Meets(works)
    BY <1>8 DEF ExitRestarts
  <2>2. Flushed(AfterWrites).flash \in Contents
    BY <1>0, ExitWrites, FlushSaves DEF Sound, Storage
  <2>3. settingEvents' \in 0..MaxSettingEvents
    BY <1>e, <1>t, <2>1 DEF Meets
  <2> QED
    BY <2>1, <2>2, <2>3, StartedKeeps
<1>9. CASE ExitSettingsMenu
  <2> DEFINE saved == IF Changed("i2s") THEN Flushed(AfterWrites) ELSE AfterWrites
             taken == [settings EXCEPT !.region = Asked.region, !.i2s = Asked.i2s]
  <2>1. /\ power = "On" /\ menu.open /\ ~Changed("gpio")
        /\ \/ \E works \in BOOLEAN : SwitchRadioMode(saved, taken, Asked.mode, works)
           \/ /\ Asked.mode = settings.mode /\ nv' = saved /\ settings' = taken
              /\ UNCHANGED <<application, cut, settingEvents>>
        /\ driver' = [af |-> IF Changed("af") THEN settings.af ELSE driver.af,
                      region |-> IF Changed("region") THEN Asked.region ELSE driver.region,
                      i2s |-> IF Changed("i2s") THEN Asked.i2s ELSE driver.i2s]
        /\ listRegion' = IF Changed("region") THEN Asked.region ELSE listRegion
        /\ menu' = Closed /\ power' = power
    BY <1>9 DEF ExitSettingsMenu, RegionForDriver
  <2>2. /\ Asked \in Contents /\ Asked.af = settings.af /\ Asked.memory = settings.memory
        /\ Entered \in Contents /\ Entered.af = menu.before
        /\ \A k \in {"region", "mode", "gpio", "i2s"} : Entered[k] = settings[k]
    BY <1>0, MenuContents
  <2>3. /\ \A k \in Keys \ {"mode"} : Asked[k] \in Options
        /\ Asked.mode \in Modes
    BY <2>2, ContentsChange
  <2>4. Sound(saved) /\ saved.image = AfterWrites.image
    BY <1>0, ExitWrites, FlushSaves
  <2>5. taken \in Contents /\ [taken EXCEPT !.mode = Asked.mode] = Asked /\ taken.mode = settings.mode
    <3>1. [settings EXCEPT !.region = Asked.region] \in Contents
      BY <1>t, <2>3, ContentsChange DEF Keys
    <3>2. taken \in Contents
      BY <2>3, <3>1, ContentsChange DEF Keys
    <3>3. Asked.gpio = settings.gpio
      BY <2>1, <2>2 DEF Changed
    <3>4. /\ settings \in [Keys -> Options \cup Modes] /\ Asked \in [Keys -> Options \cup Modes]
      BY <1>t, <2>2 DEF Contents
    <3>5. [taken EXCEPT !.mode = Asked.mode] = Asked /\ taken.mode = settings.mode
      BY <2>2, <3>3, <3>4 DEF Keys
    <3> QED
      BY <3>2, <3>5
  <2> HIDE DEF saved, taken
  <2>6. /\ Sound(nv') /\ settings' \in Contents /\ application' \in Modes \cup {"None"}
        /\ cut' \in BOOLEAN /\ settingEvents' \in 0..MaxSettingEvents
        /\ ~cut' => ~cut
    <3>1. CASE \E works \in BOOLEAN : SwitchRadioMode(saved, taken, Asked.mode, works)
      BY <1>t, <2>3, <2>4, <2>5, <3>1, SwitchKeeps
    <3>2. CASE nv' = saved /\ settings' = taken /\ UNCHANGED <<application, cut, settingEvents>>
      BY <1>0, <1>t, <2>4, <2>5, <3>2 DEF SettingsTypeOK
    <3> QED
      BY <2>1, <3>1, <3>2
  <2>7. driver' \in [af : Options, region : Options, i2s : Options] /\ listRegion' \in Options
    BY <1>0, <1>t, <2>1, <2>3, ContentsChange DEF SettingsTypeOK, Keys
  <2>8. SettingsTypeOK'
    BY <1>0, <1>c, <2>1, <2>6, <2>7 DEF SettingsTypeOK, Sound
  <2>9. ASSUME ~cut', ~TuneAfterEdit
        PROVE  /\ settings' = nv'.image /\ driver' = InDriver(settings')
               /\ listRegion' = settings'.region /\ application' = settings'.mode
    <3>1. /\ Entered = nv.image /\ driver = InDriver(Entered)
          /\ listRegion = settings.region /\ application = settings.mode
      BY <1>0, <2>1, <2>6, <2>9 DEF Agreed, Base
    <3>2. saved.image = Asked
      BY <1>0, <2>4, <3>1, ExitWrites
    <3>3. settings' = Asked /\ nv'.image = Asked /\ application' = Asked.mode
      <4>1. CASE \E works \in BOOLEAN : SwitchRadioMode(saved, taken, Asked.mode, works)
        <5>1. [saved.image EXCEPT !.mode = Asked.mode] = Asked
          BY <2>2, <3>2 DEF Contents, Keys
        <5> QED
          BY <1>t, <2>3, <2>4, <2>5, <2>9, <3>2, <4>1, <5>1, SwitchKeeps
      <4>2. CASE /\ Asked.mode = settings.mode /\ nv' = saved /\ settings' = taken
                 /\ UNCHANGED <<application, cut, settingEvents>>
        <5>1. [taken EXCEPT !.mode = taken.mode] = taken
          BY <2>5 DEF Contents, Keys
        <5> QED
          BY <2>5, <3>1, <3>2, <4>2, <5>1
      <4> QED
        BY <2>1, <4>1, <4>2
    <3>4. driver' = InDriver(Asked) /\ listRegion' = Asked.region
      <4>1. /\ Changed("af") <=> Asked.af # Entered.af
            /\ Changed("region") <=> Asked.region # Entered.region
            /\ Changed("i2s") <=> Asked.i2s # Entered.i2s
        BY DEF Changed
      <4>2. /\ driver.af = Entered.af /\ driver.region = Entered.region /\ driver.i2s = Entered.i2s
        BY <3>1 DEF InDriver
      <4> QED
        BY <2>1, <2>2, <3>1, <4>1, <4>2 DEF InDriver
    <3> QED
      BY <3>3, <3>4
  <2> QED
    BY <1>c, <2>1, <2>6, <2>8, <2>9 DEF SettingsInv, Agreed, Base
<1>10. CASE TuneBySerial
  <2>1. /\ power = "On" /\ menu.open /\ menu' = Closed
        /\ settings.af = menu.before \/ TuneAfterEdit
        /\ UNCHANGED <<nv, settings, driver, application, listRegion, power, cut, settingEvents>>
    BY <1>10 DEF TuneBySerial
  <2>2. settings.af = menu.before => Base' = Base
    BY <1>t, <1>c, <2>1 DEF Base, Entered, Contents
  <2> QED
    BY <1>0, <1>c, <2>1, <2>2 DEF SettingsInv, Agreed, SettingsTypeOK
<1>11. CASE StoreMemory
  <2>1. /\ power = "On" /\ settingEvents' \in 0..MaxSettingEvents
        /\ UNCHANGED <<menu, driver, application, listRegion, power, cut>>
    BY <1>e, <1>11 DEF StoreMemory
  <2>2. PICK v \in Options : nv' = WithMemory(v) /\ Remember(v)
    BY <1>11 DEF StoreMemory
  <2>3. /\ settings' \in Contents /\ Sound(nv') /\ (Base = nv.image => Base' = nv'.image)
        /\ InDriver(Base') = InDriver(Base)
        /\ settings'.region = settings.region /\ settings'.mode = settings.mode
    BY <1>0, <2>1, <2>2, MemoryKeeps
  <2> QED
    BY <1>0, <2>1, <2>3 DEF SettingsInv, Agreed, SettingsTypeOK, Sound
<1>12. CASE LearnKeys
  <2>1. /\ power = "On" /\ settingEvents' \in 0..MaxSettingEvents
        /\ UNCHANGED <<menu, driver, application, listRegion, power, cut>>
    BY <1>e, <1>12 DEF LearnKeys
  <2>2. PICK v \in Options :
          nv' \in {Flushed(WithMemory(v))} \cup RefusedFlush(WithMemory(v)) /\ Remember(v)
    BY <1>12 DEF LearnKeys
  <2>3. /\ settings' \in Contents /\ Sound(WithMemory(v))
        /\ Base = nv.image => Base' = WithMemory(v).image
        /\ InDriver(Base') = InDriver(Base)
        /\ settings'.region = settings.region /\ settings'.mode = settings.mode
    BY <1>0, <2>1, <2>2, MemoryKeeps
  <2>4. Sound(nv') /\ nv'.image = WithMemory(v).image
    BY <2>2, <2>3, FlushSaves, RefusedIsSound DEF RefusedFlush
  <2> QED
    BY <1>0, <2>1, <2>3, <2>4 DEF SettingsInv, Agreed, SettingsTypeOK, Sound
<1>13. CASE CommitWhenDue
  <2>1. /\ power = "On" /\ settingEvents' \in 0..MaxSettingEvents
        /\ UNCHANGED <<settings, menu, driver, application, listRegion, power, cut>>
    BY <1>e, <1>t, <1>13 DEF CommitWhenDue
  <2>2. Sound(nv') /\ nv'.image = nv.image
    BY <1>0, <1>13, FlushSaves, RefusedIsSound DEF CommitWhenDue, RefusedFlush
  <2>3. Base' = Base
    BY <2>1 DEF Base, Entered
  <2> QED
    BY <1>0, <2>1, <2>2, <2>3 DEF SettingsInv, Agreed, SettingsTypeOK, Sound
<1>14. CASE Sleep
  <2>1. power = "On" /\ UNCHANGED <<menu, driver, application, listRegion, cut>>
    BY <1>14 DEF Sleep
  <2> DEFINE s(v) == IF nv.image.memory = v THEN nv ELSE WithMemory(v)
  <2>2. PICK v \in Options :
          /\ s(v) # nv => Remember(v)
          /\ s(v) = nv => UNCHANGED settings
          /\ \/ nv' = Flushed(s(v)) /\ power' = "Asleep" /\ UNCHANGED settingEvents
             \/ nv' \in RefusedFlush(s(v)) /\ UNCHANGED power /\ SettingEvent
    BY <1>14 DEF Sleep, AfterRefusal
  <2>3. /\ settings' \in Contents /\ Sound(s(v)) /\ (Base = nv.image => Base' = s(v).image)
        /\ InDriver(Base') = InDriver(Base)
        /\ settings'.region = settings.region /\ settings'.mode = settings.mode
    <3>1. CASE s(v) = nv
      BY <1>0, <1>t, <2>1, <2>2, <3>1 DEF Base, Entered
    <3>2. CASE s(v) # nv
      <4>1. Remember(v) /\ s(v) = WithMemory(v)
        BY <2>2, <3>2
      <4> QED
        BY <1>0, <2>1, <4>1, MemoryKeeps
    <3> QED
      BY <3>1, <3>2
  <2> HIDE DEF s
  <2>4. Sound(nv') /\ nv'.image = s(v).image /\ (power' = "Asleep" => Persisted(nv'))
    BY <2>1, <2>2, <2>3, FlushSaves, RefusedIsSound DEF RefusedFlush
  <2>5. settingEvents' \in 0..MaxSettingEvents /\ power' \in {"On", "Asleep"}
    BY <1>e, <1>t, <2>1, <2>2
  <2> QED
    BY <1>0, <2>1, <2>3, <2>4, <2>5 DEF SettingsInv, Agreed, SettingsTypeOK, Sound
<1>15. CASE Wake \/ UNCHANGED settingsVars
  <2>1. /\ UNCHANGED <<nv, settings, menu, driver, application, listRegion, cut, settingEvents>>
        /\ power' = power \/ (power = "Asleep" /\ power' = "On")
    BY <1>15 DEF Wake, settingsVars
  <2>2. Base' = Base
    BY <2>1 DEF Base, Entered
  <2> QED
    BY <1>0, <2>1, <2>2 DEF SettingsInv, Agreed, SettingsTypeOK
<1> QED
  BY <1>1, <1>2, <1>3, <1>4, <1>5, <1>6, <1>7, <1>8, <1>9, <1>10, <1>11, <1>12, <1>13, <1>14, <1>15
     DEF SettingsNext

LEMMA SettingsInvAlways == SettingsSpec => []SettingsInv
BY SettingsInvInit, SettingsInvStep, PTL DEF SettingsSpec

-----------------------------------------------------------------------------
(* What follows. *)

\* Every variable of the settings keeps its type.
THEOREM SettingsTypeCorrect == SettingsSpec => []SettingsTypeOK
<1>1. SettingsInv => SettingsTypeOK
  BY DEF SettingsInv
<1> QED
  BY <1>1, SettingsInvAlways, PTL

\* If no serial command tunes while the menu holds a change, the program, the image, the
\* driver, the station list and the tuner agree outside the menu on every setting, whatever was
\* edited, restarted, refused or lost on the way.
THEOREM RunsAsKeptAlways ==
  ASSUME ~TuneAfterEdit
  PROVE  SettingsSpec => []RunsAsKept
<1>1. SettingsInv => RunsAsKept
  BY DEF SettingsInv, Agreed, Base, RunsAsKept
<1> QED
  BY <1>1, SettingsInvAlways, PTL

\* No setting that the flash does not have is forgotten: it is in a record that is marked, and
\* the commit is due; and the device never sleeps on it.
THEOREM NothingForgotten ==
  SettingsSpec => [](/\ nv.flash # nv.image => nv.due
                     /\ power = "Asleep" => nv.flash = nv.image)
<1>1. SettingsInv => (nv.flash # nv.image => nv.due) /\ (power = "Asleep" => nv.flash = nv.image)
  <2> SUFFICES ASSUME SettingsInv, nv.flash # nv.image PROVE nv.due /\ power # "Asleep"
    OBVIOUS
  <2>1. nv.flash \in Contents /\ nv.image \in Contents
    BY DEF SettingsInv, SettingsTypeOK, Storage
  <2>2. PICK k \in Keys : nv.image[k] # nv.flash[k]
    BY <2>1 DEF Contents
  <2> QED
    BY <2>2 DEF SettingsInv, Sound, Unsaved, Persisted
<1> QED
  BY <1>1, SettingsInvAlways, PTL
=============================================================================
