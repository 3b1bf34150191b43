---------------------------- MODULE MetadataQueue ----------------------------
(***************************************************************************)
(* The metadata commands of the DAB scheduler (src/src/si4684.cpp, tail of *)
(* DAB::scheduleNextDabCommand): what is due is kept in one flag per kind, *)
(* one kind is asked at a time, in a fixed order, and an answer may make   *)
(* other kinds due.  DsrvDrain shows when this queue is given a turn; the  *)
(* START of the packet component is in SpiProbe, the three GET_TIME        *)
(* commands that "Time" stands for are in ClockRefresh, the component      *)
(* queries in UaScan.                                                      *)
(*                                                                         *)
(* Time is abstracted: the retry delay of the audio information is a flag, *)
(* and a periodic kind comes due at most once between two moments at which *)
(* nothing is wanted (the shortest period is 10 s, a turn takes 100 ms).   *)
(*                                                                         *)
(* ForgetChange and RetryForEver are faulty variants of the operator that  *)
(* follows them.                                                           *)
(***************************************************************************)
EXTENDS Sequences, Naturals

CONSTANTS
  Kinds,         \* the kinds of metadata that are asked for
  MaxServices,   \* services a list may have
  Unanswered,    \* positions whose service type the tuner never gives
  FastRetries,   \* DAB_AUDIO_INFO_FAST_RETRIES
  Faulty,        \* kinds whose command may fail now and then
  MaxFailures,   \* bound: such failures
  MaxEvents      \* bound: changes of ensemble, lock, service and frequency

Order == << "Event", "List", "Type", "Ensemble", "Time", "Audio", "Service",
            "Subchannel", "Component" >>
AllKinds == {Order[i] : i \in DOMAIN Order}
Periodic == Kinds \cap {"Ensemble", "Time", "Audio", "Service", "Subchannel"}

ASSUME QueueAssumption ==
  /\ Kinds \subseteq AllKinds /\ Faulty \subseteq Kinds
  /\ MaxServices \in Nat /\ FastRetries \in Nat
  /\ Unanswered \subseteq Nat
  /\ MaxFailures \in Nat /\ MaxEvents \in Nat

VARIABLES
  due,           \* the ...RefreshPending flags, dabDeviceEventPending, dabUaScanIndex < count
  typeIndex,     \* dabServiceTypeScanIndex
  numServices,   \* numberofservices
  locked,        \* signallock
  playing,       \* dabActiveServiceValid
  audioRetries,  \* dabAudioInfoRetryCount
  audioWaits,    \* dabAudioInfoNotBeforeMs lies ahead
  asking,        \* the kind that is asked for, or "None"
  askedIndex,    \* dabCommandRequestId of a service type query
  superseded,    \* the query belongs to an earlier dabGeneration
  eventBit,      \* external: the device event bit of the status bytes
  reported,      \* the event status in flight reports a reconfiguration
  unlisted,      \* history: a reconfiguration the service list does not show yet
  round,         \* periodic kinds that came due since nothing was wanted
  queueBounds    \* bound: [failures, events] so far

audioInfo == <<audioRetries, audioWaits>>
question == <<asking, askedIndex, superseded, reported>>
queueVars == <<due, typeIndex, numServices, locked, playing, audioInfo, question,
               eventBit, unlisted, round, queueBounds>>

QueueTypeOK ==
  /\ due \subseteq Kinds \ {"Type"}
  /\ numServices \in 0..MaxServices /\ typeIndex \in 0..numServices
  /\ locked \in BOOLEAN /\ playing \in BOOLEAN
  /\ audioRetries \in 0..FastRetries /\ audioWaits \in BOOLEAN
  /\ asking \in Kinds \cup {"None"} /\ askedIndex \in 0..MaxServices
  /\ superseded \in BOOLEAN /\ eventBit \in BOOLEAN /\ reported \in BOOLEAN
  /\ unlisted \in {"No", "Asked", "Yes"}
  /\ round \subseteq Periodic
  /\ queueBounds \in [failures : 0..MaxFailures, events : 0..MaxEvents]

QueueInit ==
  /\ due = {} /\ typeIndex = 0 /\ numServices = 0
  /\ locked = FALSE /\ playing = FALSE
  /\ audioRetries = 0 /\ audioWaits = FALSE
  /\ asking = "None" /\ askedIndex = 0 /\ superseded = FALSE
  /\ eventBit = FALSE /\ reported = FALSE /\ unlisted = "No"
  /\ round = {} /\ queueBounds = [failures |-> 0, events |-> 0]

-----------------------------------------------------------------------------
(* What is wanted, and what comes first. *)

Wanted(kind) ==
  CASE kind = "Type" -> "Type" \in Kinds /\ typeIndex < numServices
    [] kind \in {"List", "Ensemble", "Time"} -> kind \in due /\ locked
    [] kind \in {"Audio", "Service", "Subchannel"} -> kind \in due /\ playing
    [] kind = "Component" -> kind \in due /\ playing /\ locked
    [] OTHER -> kind \in due

Idle == \A kind \in Kinds : ~Wanted(kind)

\* The first branch of the scheduler that is taken; one that is not ready ends the pass.
Chosen(kind) ==
  /\ Wanted(kind)
  /\ \A i \in DOMAIN Order : Order[i] = kind => \A j \in 1..(i - 1) : ~Wanted(Order[j])

Occurs ==
  /\ queueBounds.events < MaxEvents
  /\ queueBounds' = [queueBounds EXCEPT !.events = @ + 1]

Fails ==
  /\ queueBounds.failures < MaxFailures
  /\ queueBounds' = [queueBounds EXCEPT !.failures = @ + 1]

-----------------------------------------------------------------------------
(* Around the queue. *)

\* The ensemble announces a reconfiguration.
Reconfigure ==
  /\ Occurs
  /\ eventBit' = TRUE /\ unlisted' = "Yes"
  /\ UNCHANGED <<due, typeIndex, numServices, locked, playing, audioInfo, question, round>>

\* statusChanged looks at the level of the bit, whatever is in flight.
SeeEventBit ==
  /\ eventBit /\ "Event" \in Kinds
  /\ due' = due \cup {"Event"}
  /\ UNCHANGED <<typeIndex, numServices, locked, playing, audioInfo, question, eventBit,
                 unlisted, round, queueBounds>>

\* A completed SignalStatus or TuneStatus; with the lock the inventory is read again.
ChangeLock ==
  /\ Occurs
  /\ locked' = ~locked
  /\ due' = IF locked THEN due ELSE due \cup (Kinds \cap {"List", "Ensemble", "Time"})
  /\ UNCHANGED <<typeIndex, numServices, playing, audioInfo, question, eventBit, unlisted, round>>

\* A completed StartService (ServiceInfo, resetDabServiceDeadlines).
ServiceStarts ==
  /\ Occurs
  /\ playing' = TRUE
  /\ due' = due \cup (Kinds \cap {"Audio", "Service", "Subchannel"})
  /\ audioRetries' = 0 /\ audioWaits' = TRUE
  /\ UNCHANGED <<typeIndex, numServices, locked, question, eventBit, unlisted, round>>

ServiceStops ==
  /\ Occurs /\ playing
  /\ playing' = FALSE
  /\ UNCHANGED <<due, typeIndex, numServices, locked, audioInfo, question, eventBit, unlisted, round>>

\* DAB::setFreq; what the old ensemble announced is of no interest any more.
ChangeFrequency ==
  /\ Occurs
  /\ due' = {} /\ typeIndex' = 0 /\ numServices' = 0 /\ locked' = FALSE
  /\ superseded' = (asking # "None")
  /\ unlisted' = "No" /\ eventBit' = FALSE
  /\ UNCHANGED <<playing, audioInfo, asking, askedIndex, reported, round>>

\* updateDabPeriodicRequests
ComesDue ==
  /\ \E kind \in Periodic :
       /\ kind \notin due /\ (Idle \/ kind \notin round)
       /\ IF kind \in {"Ensemble", "Time"} THEN locked ELSE playing
       /\ due' = due \cup {kind}
       /\ round' = IF Idle THEN {kind} ELSE round \cup {kind}
  /\ UNCHANGED <<typeIndex, numServices, locked, playing, audioInfo, question, eventBit,
                 unlisted, queueBounds>>

AudioDelayOver ==
  /\ audioWaits
  /\ audioWaits' = FALSE
  /\ UNCHANGED <<due, typeIndex, numServices, locked, playing, audioRetries, question, eventBit,
                 unlisted, round, queueBounds>>

-----------------------------------------------------------------------------
(* One command. *)

\* The service type keeps its place until the answer is there.
Ask ==
  /\ asking = "None"
  /\ \E kind \in Kinds :
       /\ Chosen(kind) /\ ~(kind = "Audio" /\ audioWaits)
       /\ asking' = kind /\ due' = due \ {kind}
       /\ askedIndex' = IF kind = "Type" THEN typeIndex ELSE askedIndex
       /\ unlisted' = IF kind = "List" /\ unlisted = "Yes" THEN "Asked" ELSE unlisted
  /\ UNCHANGED <<typeIndex, numServices, locked, playing, audioInfo, superseded, reported,
                 eventBit, round, queueBounds>>

\* The transport does not take the command: the flag stays, but the position of a component
\* is used up, and a list that cannot be read invalidates the inventory.
AskInVain ==
  /\ asking = "None" /\ Fails
  /\ \E kind \in Faulty : Chosen(kind) /\ ~(kind = "Audio" /\ audioWaits)
       /\ due' = IF kind \in {"Component", "List"} THEN due \ {"Component"} ELSE due
  /\ UNCHANGED <<typeIndex, numServices, locked, playing, audioInfo, question, eventBit,
                 unlisted, round>>

\* The tuner executes DAB_GET_EVENT_STATUS, which acknowledges the bit.
ReportEvent ==
  /\ asking = "Event" /\ ~reported
  /\ reported' = TRUE /\ eventBit' = FALSE
  /\ UNCHANGED <<due, typeIndex, numServices, locked, playing, audioInfo, asking, askedIndex,
                 superseded, unlisted, round, queueBounds>>

AnswerTaken == asking' = "None" /\ superseded' = FALSE /\ reported' = FALSE /\ UNCHANGED askedIndex

\* The completion of a query of an earlier frequency.
StaleAnswer ==
  /\ asking # "None" /\ superseded /\ AnswerTaken
  /\ due' = due \ {"Event"}
  /\ UNCHANGED <<typeIndex, numServices, locked, playing, audioInfo, eventBit, unlisted,
                 round, queueBounds>>

Current == asking # "None" /\ ~superseded

\* The pending flag is dropped, and the new list is not asked for.
ForgetChange ==
  /\ Current /\ asking = "Event" /\ reported /\ AnswerTaken
  /\ due' = (due \ {"Event"}) \cup (Kinds \cap {"Ensemble"})
  /\ UNCHANGED <<typeIndex, numServices, locked, playing, audioInfo, eventBit, unlisted,
                 round, queueBounds>>

EventAnswer ==
  /\ Current /\ asking = "Event" /\ reported /\ AnswerTaken
  /\ due' = (due \ {"Event"}) \cup (Kinds \cap {"List", "Ensemble"})
  /\ UNCHANGED <<typeIndex, numServices, locked, playing, audioInfo, eventBit, unlisted,
                 round, queueBounds>>

\* parseDabServiceListReply and what follows it
ListAnswer ==
  /\ Current /\ asking = "List" /\ AnswerTaken
  /\ numServices' \in 0..MaxServices /\ typeIndex' = 0
  /\ due' = due \cup (Kinds \cap {"Ensemble", "Component"})
  /\ unlisted' = IF unlisted = "Asked" THEN "No" ELSE unlisted
  /\ UNCHANGED <<locked, playing, audioInfo, eventBit, round, queueBounds>>

\* A service type that is refused changes nothing: it is asked for again.
TypeAnswer ==
  /\ Current /\ asking = "Type" /\ AnswerTaken
  /\ typeIndex' = IF typeIndex = askedIndex /\ askedIndex \notin Unanswered
                  THEN typeIndex + 1 ELSE typeIndex
  /\ UNCHANGED <<due, numServices, locked, playing, audioInfo, eventBit, unlisted, round,
                 queueBounds>>

AudioAnswer ==
  /\ Current /\ asking = "Audio" /\ AnswerTaken
  /\ audioRetries' = 0 /\ audioWaits' = FALSE
  /\ UNCHANGED <<due, typeIndex, numServices, locked, playing, eventBit, unlisted, round,
                 queueBounds>>

OtherAnswer ==
  /\ Current /\ asking \in {"Ensemble", "Time", "Service", "Subchannel", "Component"} /\ AnswerTaken
  /\ UNCHANGED <<due, typeIndex, numServices, locked, playing, audioInfo, eventBit, unlisted,
                 round, queueBounds>>

\* Every refusal asks for another try.
RetryForEver ==
  /\ Current /\ asking = "Audio" /\ AnswerTaken
  /\ due' = due \cup {"Audio"} /\ audioWaits' = TRUE
  /\ UNCHANGED <<audioRetries, typeIndex, numServices, locked, playing, eventBit, unlisted, round,
                 queueBounds>>

\* NOT_AVAILABLE: a few fast retries, then not before the next period.
AudioNotAvailable ==
  /\ Current /\ asking = "Audio" /\ AnswerTaken
  /\ IF audioRetries < FastRetries
     THEN due' = due \cup {"Audio"} /\ audioRetries' = audioRetries + 1 /\ audioWaits' = TRUE
     ELSE due' = due /\ audioRetries' = 0 /\ audioWaits' = FALSE
  /\ UNCHANGED <<typeIndex, numServices, locked, playing, eventBit, unlisted, round, queueBounds>>

\* Any other failure is counted and forgotten; a failed list invalidates the inventory.
Failure ==
  /\ Current /\ asking \in Faulty /\ ~reported /\ Fails /\ AnswerTaken
  /\ due' = IF asking = "List" THEN due \ {"Component"} ELSE due
  /\ unlisted' = IF asking = "List" /\ unlisted = "Asked" THEN "Yes" ELSE unlisted
  /\ UNCHANGED <<typeIndex, numServices, locked, playing, audioInfo, eventBit, round>>

Answer ==
  \/ StaleAnswer \/ EventAnswer \/ ListAnswer \/ TypeAnswer \/ AudioAnswer \/ OtherAnswer
  \/ AudioNotAvailable

QueueNext ==
  \/ Reconfigure \/ SeeEventBit \/ ChangeLock \/ ServiceStarts \/ ServiceStops
  \/ ChangeFrequency \/ ComesDue \/ AudioDelayOver
  \/ Ask \/ AskInVain \/ ReportEvent \/ Answer \/ Failure

QueueSpec == QueueInit /\ [][QueueNext]_queueVars

\* The status bytes are polled and the scheduler is called for ever; the tuner answers.
QueueFairness ==
  /\ WF_queueVars(SeeEventBit)
  /\ WF_queueVars(AudioDelayOver)
  /\ WF_queueVars(Ask)
  /\ WF_queueVars(ReportEvent)
  /\ WF_queueVars(Answer)

QueueFairSpec == QueueSpec /\ QueueFairness

-----------------------------------------------------------------------------
(* Properties. *)

\* A reconfiguration is followed by a service list that shows it, also one that is announced
\* between the acknowledgement of an earlier one and the completion that clears the flag.
ListFollowsChange == []<>(unlisted = "No" \/ ~locked)

\* Again and again nothing is left to be asked for: whatever metadata is wanted has its turn
\* and the scan of the service types ends, although AudioInfo may be refused for ever and
\* holds back the kinds below it while it waits for its retry; and no change is missed.  A type
\* that is refused each time (Unanswered) is asked for ever and starves the kinds below it.
MetadataServed == []<>Idle /\ ListFollowsChange
=============================================================================
