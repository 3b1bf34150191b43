------------------------------- MODULE UaScan -------------------------------
(***************************************************************************)
(* The scan that finds the programme guide among the components of an      *)
(* ensemble: dab_spi::Scan, Selector and RefreshCycle of                   *)
(* src/src/dab_spi_discovery.h and the parts of class DAB                  *)
(* (src/src/si4684.cpp) that start, feed, invalidate and conclude it.      *)
(* One component is asked at a time; a new inventory, a new service, the   *)
(* rescan every 60 s and a change of frequency begin the scan anew, also   *)
(* while an answer is on its way.                                          *)
(*                                                                         *)
(* The broadcast is external: which components carry the guide changes     *)
(* only together with the version of the service list.  The structure of   *)
(* the list stays the same, which is the case a version is needed for.     *)
(*                                                                         *)
(* LeaveActive, SameTopology and AnyAnswer are faulty variants of the      *)
(* operator that follows them.                                             *)
(***************************************************************************)
EXTENDS Naturals, FiniteSets

CONSTANTS
  NumComponents,  \* components in the list; the service that is played owns OwnComponents
  OwnComponents,  \* positions of the components of the first of two services
  PadComponents,  \* positions that carry applications in the audio stream, not in packets
  MaxVersions,    \* bound: versions of the list
  MaxRestarts,    \* bound: selections of a service, and rescans
  MaxUaFaults     \* bound: answers that fail or are malformed

Positions == 1..NumComponents

ASSUME ScanAssumption ==
  /\ NumComponents \in Nat /\ OwnComponents \subseteq Positions /\ PadComponents \subseteq Positions
  /\ MaxVersions \in Nat \ {0} /\ MaxRestarts \in Nat /\ MaxUaFaults \in Nat

VARIABLES
  version,      \* external: version of the list that is broadcast
  carriers,     \* external: positions of the components that carry the guide
  listReady,    \* dabServiceListReady
  valid,        \* dabUaInventoryValid
  listVersion,  \* dabUaListVersion, 0 before the first list
  scan,         \* dabUaScan
  nextIndex,    \* dabUaScanIndex
  identity,     \* dabSpiIdentities
  query,        \* dabCommand, dabUaCommandIndex and dabUaCommandListGeneration
  dirty,        \* dabSpiDiscoveryDirty
  choice,       \* dabSpiDiscovery
  guidePresent, \* dabSpiPresent
  rescanArmed,  \* dabUaRefresh.armed
  firstPlays,   \* the audio service is the first of the two
  resting,      \* a service plays with the lock, and the switch is Ready or AudioOnly
  uaBounds      \* bound: [restarts, faults] so far

inventory == <<listReady, valid, listVersion>>
progress == <<scan, nextIndex, identity, dirty, choice, guidePresent, rescanArmed>>
uaVars == <<version, carriers, inventory, progress, query, firstPlays, resting, uaBounds>>

Identities == {"Unqueried", "NotSpi", "Spi", "Failed"}
Statuses == {"Pending", "NotSignalled", "PadOnly", "Selected", "Ambiguous", "Incomplete"}
Undecided == [status |-> "Pending", component |-> 0]
Found(status) == [status |-> status, component |-> 0]
NoQuery == [op |-> "None", index |-> 0, token |-> 0]

MaxScans == 2 * MaxVersions + MaxRestarts + MaxUaFaults

\* The counters of a scan agree with the answers it holds: no answer of a superseded scan
\* is counted, and none that is counted is missing.
AnswersCounted ==
  LET held == Cardinality({i \in Positions : identity[i] # "Unqueried"}) IN
  /\ scan.processed + scan.failed = held
  /\ scan.scheduled = held + (IF scan.active THEN 1 ELSE 0)

UaTypes ==
  /\ version \in 1..MaxVersions /\ carriers \subseteq Positions
  /\ listReady \in BOOLEAN /\ valid \in BOOLEAN /\ listVersion \in 0..MaxVersions
  /\ scan \in [ generation : 0..MaxScans, total : 0..NumComponents, scheduled : 0..NumComponents,
                processed : 0..NumComponents, failed : 0..NumComponents,
                active : BOOLEAN, enumerated : BOOLEAN ]
  /\ nextIndex \in 0..NumComponents
  /\ identity \in [Positions -> Identities]
  /\ query \in [op : {"None", "List", "OldList", "Component"}, index : 0..NumComponents,
                token : 0..MaxScans]
  /\ dirty \in BOOLEAN /\ guidePresent \in BOOLEAN /\ rescanArmed \in BOOLEAN
  /\ choice \in [status : Statuses, component : 0..NumComponents]
  /\ firstPlays \in BOOLEAN /\ resting \in BOOLEAN
  /\ uaBounds \in [restarts : 0..MaxRestarts, faults : 0..MaxUaFaults]

UaTypeOK == UaTypes /\ AnswersCounted

UaInit ==
  /\ version = 1 /\ carriers = {}
  /\ listReady = FALSE /\ valid = FALSE /\ listVersion = 0
  /\ scan = [ generation |-> 0, total |-> 0, scheduled |-> 0, processed |-> 0, failed |-> 0,
              active |-> FALSE, enumerated |-> FALSE ]
  /\ nextIndex = 0 /\ identity = [i \in Positions |-> "Unqueried"]
  /\ query = NoQuery /\ dirty = TRUE /\ choice = Undecided
  /\ guidePresent = FALSE /\ rescanArmed = FALSE
  /\ firstPlays = TRUE /\ resting = FALSE
  /\ uaBounds = [restarts |-> 0, faults |-> 0]

UaFault ==
  /\ uaBounds.faults < MaxUaFaults
  /\ uaBounds' = [uaBounds EXCEPT !.faults = @ + 1]
Restarts ==
  /\ uaBounds.restarts < MaxRestarts
  /\ uaBounds' = [uaBounds EXCEPT !.restarts = @ + 1]

-----------------------------------------------------------------------------
(* Beginning a scan, and one query. *)

\* Scan::begin within resetDabSpiDiscovery; isValid is the inventory it begins with.
Restart(preservePresence, count, isValid) ==
  /\ scan' = [ generation |-> scan.generation + 1, total |-> count, scheduled |-> 0,
               processed |-> 0, failed |-> 0, active |-> FALSE, enumerated |-> isValid ]
  /\ nextIndex' = 0 /\ identity' = [i \in Positions |-> "Unqueried"]
  /\ dirty' = TRUE /\ rescanArmed' = FALSE
  /\ choice' = IF preservePresence /\ ~isValid THEN Found("Incomplete") ELSE Undecided
  /\ guidePresent' = (preservePresence /\ guidePresent)

\* A failed query is counted, and stays the one that is active.
LeaveActive(success) ==
  IF success THEN [scan EXCEPT !.processed = @ + 1, !.active = FALSE]
  ELSE [scan EXCEPT !.failed = @ + 1]

\* Scan::commit with the token of this scan
Committed(success) ==
  IF success THEN [scan EXCEPT !.processed = @ + 1, !.active = FALSE]
  ELSE [scan EXCEPT !.failed = @ + 1, !.active = FALSE]

\* Scan::functionalComplete
ScanComplete ==
  /\ scan.enumerated /\ scan.scheduled = scan.total
  /\ scan.processed + scan.failed = scan.total
  /\ ~scan.active /\ query.op # "Component"

\* Selector: a component of the service that is played, or else the only one.
Selection(ids) ==
  LET packet == {i \in Positions : ids[i] = "Spi"} \ PadComponents
      own    == packet \cap (IF firstPlays THEN OwnComponents ELSE Positions \ OwnComponents)
      only   == IF Cardinality(own) = 1 THEN own ELSE packet
  IN IF \E i \in Positions : ids[i] = "Unqueried" THEN Undecided
     ELSE IF \E i \in Positions : ids[i] = "Failed" THEN Found("Incomplete")
     ELSE IF Cardinality(only) = 1 THEN [status |-> "Selected", component |-> CHOOSE i \in only : TRUE]
     ELSE IF packet # {} THEN Found("Ambiguous")
     ELSE IF \E i \in Positions : ids[i] = "Spi" THEN Found("PadOnly")
     ELSE Found("NotSignalled")

-----------------------------------------------------------------------------
(* The surroundings. *)

\* The broadcaster reconfigures the ensemble.
ReviseList ==
  /\ version < MaxVersions
  /\ version' = version + 1
  /\ carriers' \in SUBSET Positions
  /\ UNCHANGED <<inventory, progress, query, firstPlays, resting, uaBounds>>

\* DAB::setFreq (clearData), and the ensemble it leads to
LeaveEnsemble ==
  /\ version < MaxVersions
  /\ version' = version + 1 /\ carriers' \in SUBSET Positions
  /\ listReady' = FALSE /\ valid' = FALSE /\ listVersion' = 0
  /\ Restart(FALSE, 0, FALSE)
  /\ query' = IF query.op = "List" THEN [query EXCEPT !.op = "OldList"] ELSE query
  /\ resting' = FALSE
  /\ UNCHANGED <<firstPlays, uaBounds>>

\* DAB::setService
SelectService ==
  /\ listReady /\ Restarts
  /\ Restart(TRUE, scan.total, valid)
  /\ firstPlays' \in BOOLEAN /\ resting' = FALSE
  /\ UNCHANGED <<version, carriers, inventory, query>>

\* The requested service plays.
ComeToRest ==
  /\ listReady /\ ~resting
  /\ resting' = TRUE
  /\ UNCHANGED <<version, carriers, inventory, progress, query, firstPlays, uaBounds>>

-----------------------------------------------------------------------------
(* The service list. *)

AskList ==
  /\ query = NoQuery /\ listVersion # version
  /\ query' = [NoQuery EXCEPT !.op = "List"]
  /\ UNCHANGED <<version, carriers, inventory, progress, firstPlays, resting, uaBounds>>

\* The version is not looked at.
SameTopology == ~(listReady /\ scan.enumerated /\ valid)

\* uaChanged: the structure is the same, the version tells two lists apart.
InventoryChanged == ~(listReady /\ scan.enumerated /\ valid /\ listVersion = version)

\* parseDabServiceListReply
ParseList ==
  /\ query.op = "List" /\ query' = NoQuery
  /\ listReady' = TRUE /\ valid' = TRUE /\ listVersion' = version
  /\ IF InventoryChanged THEN Restart(FALSE, NumComponents, TRUE) ELSE UNCHANGED progress
  /\ UNCHANGED <<version, carriers, firstPlays, resting, uaBounds>>

\* invalidateDabInventory: the list is refused, does not arrive, or is malformed.
ListFails ==
  /\ query.op = "List" /\ query' = NoQuery /\ UaFault
  /\ valid' = FALSE
  /\ Restart(TRUE, scan.total, FALSE)
  /\ UNCHANGED <<version, carriers, listReady, listVersion, firstPlays, resting>>

DropOldList ==
  /\ query.op = "OldList" /\ query' = NoQuery
  /\ UNCHANGED <<version, carriers, inventory, progress, firstPlays, resting, uaBounds>>

-----------------------------------------------------------------------------
(* The components. *)

QueryDue == listReady /\ resting /\ scan.enumerated /\ nextIndex < scan.total

\* The index is used up also when Scan::issue says no.
AskComponent ==
  /\ query = NoQuery /\ QueryDue
  /\ nextIndex' = nextIndex + 1
  /\ IF scan.active \/ scan.scheduled >= scan.total THEN UNCHANGED <<scan, query>>
     ELSE /\ scan' = [scan EXCEPT !.scheduled = @ + 1, !.active = TRUE]
          /\ query' = [op |-> "Component", index |-> nextIndex + 1, token |-> scan.generation]
  /\ UNCHANGED <<version, carriers, inventory, identity, dirty, choice, guidePresent, rescanArmed,
                 firstPlays, resting, uaBounds>>

\* The transport does not take the query: the component counts as failed.
ComponentNotSent ==
  /\ query = NoQuery /\ QueryDue /\ UaFault
  /\ ~scan.active /\ scan.scheduled < scan.total
  /\ nextIndex' = nextIndex + 1
  /\ scan' = [scan EXCEPT !.scheduled = @ + 1, !.failed = @ + 1]
  /\ identity' = [identity EXCEPT ![nextIndex + 1] = "Failed"]
  /\ dirty' = TRUE
  /\ UNCHANGED <<version, carriers, inventory, choice, guidePresent, rescanArmed, query,
                 firstPlays, resting>>

\* Whatever scan the answer belongs to.
AnyAnswer == query.index \in 1..scan.total

\* An answer counts only in the scan that asked for it.
AnswerIsOurs == query.index \in 1..scan.total /\ query.token = scan.generation

Record(id, success) ==
  IF ~AnswerIsOurs THEN UNCHANGED progress
  ELSE /\ identity' = [identity EXCEPT ![query.index] = id]
       /\ scan' = IF query.token = scan.generation /\ scan.active THEN Committed(success) ELSE scan
       /\ dirty' = TRUE
       /\ UNCHANGED <<nextIndex, choice, guidePresent, rescanArmed>>

ComponentAnswers ==
  /\ query.op = "Component" /\ query' = NoQuery
  /\ Record(IF query.index \in carriers THEN "Spi" ELSE "NotSpi", TRUE)
  /\ UNCHANGED <<version, carriers, inventory, firstPlays, resting, uaBounds>>

\* Refused, not answered, or malformed: each component is asked once per scan.
ComponentFails ==
  /\ query.op = "Component" /\ query' = NoQuery /\ UaFault
  /\ Record("Failed", FALSE)
  /\ UNCHANGED <<version, carriers, inventory, firstPlays, resting>>

-----------------------------------------------------------------------------
(* Concluding. *)

\* refreshDabSpiDiscovery
Conclude ==
  /\ dirty
  /\ \/ ~valid /\ choice.status = "Incomplete"
     \/ listReady /\ resting
  /\ valid => ScanComplete
  /\ dirty' = FALSE
  /\ choice' = IF valid THEN Selection(identity) ELSE Found("Incomplete")
  /\ guidePresent' = IF valid THEN \E i \in Positions : identity[i] = "Spi" ELSE guidePresent
  /\ rescanArmed' = (valid \/ rescanArmed)
  /\ UNCHANGED <<version, carriers, inventory, scan, nextIndex, identity, query, firstPlays,
                 resting, uaBounds>>

\* The 60 s of RefreshCycle are over.
Rescan ==
  /\ rescanArmed /\ listReady /\ resting /\ Restarts
  /\ query = NoQuery
  /\ Restart(TRUE, scan.total, valid)
  /\ UNCHANGED <<version, carriers, inventory, query, firstPlays, resting>>

UaNext ==
  \/ ReviseList \/ LeaveEnsemble \/ SelectService \/ ComeToRest
  \/ AskList \/ ParseList \/ ListFails \/ DropOldList
  \/ AskComponent \/ ComponentNotSent \/ ComponentAnswers \/ ComponentFails
  \/ Conclude \/ Rescan

UaSpec == UaInit /\ [][UaNext]_uaVars

\* The scheduler and the main loop run for ever, and the tuner answers.
UaFairness ==
  /\ WF_uaVars(AskComponent) /\ WF_uaVars(AskList)
  /\ WF_uaVars(ParseList) /\ WF_uaVars(DropOldList) /\ WF_uaVars(ComponentAnswers)
  /\ WF_uaVars(Conclude)

UaFairSpec == UaSpec /\ UaFairness

-----------------------------------------------------------------------------
(* Properties. *)

\* The component that is selected is the only one that carries the guide, in the service
\* that is played or in the whole ensemble, once the list that is broadcast has been read:
\* an answer that failed, or was given before a reconfiguration, may hide another.
SelectedIsTheOnlyOne ==
  (choice.status = "Selected" /\ valid /\ listVersion = version) =>
    LET packet == carriers \ PadComponents
        own    == packet \cap (IF firstPlays THEN OwnComponents ELSE Positions \ OwnComponents)
    IN own = {choice.component} \/ packet = {choice.component}

\* With a service playing and a valid inventory every scan comes to a conclusion.
ScanConcludes == <>[](resting /\ valid) => []<>(choice.status # "Pending")
=============================================================================
