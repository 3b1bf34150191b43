----------------------------- MODULE PartsProofs -----------------------------
(***************************************************************************)
(* What is proved of the parts that run beside the switch of services, for *)
(* every size of their queues, tables and buffers, any number of errors    *)
(* and any number of steps:                                                *)
(*                                                                         *)
(*   DsrvDrain       no interrupt of the data service queue is lost.  The  *)
(*     tracker can only forget a level that is high and that nothing asked *)
(*     about.  While the driver is at rest the level it remembers is the   *)
(*     tuner's (LevelIsTrue), so a read always finds a block; a read that  *)
(*     leaves blocks behind says so, and a block that comes after it       *)
(*     raises the interrupt unseen only if it took the last one, which is  *)
(*     what the verification read is for (ReadTellsAll).                   *)
(*   UaScan          the component that carries the guide is selected only *)
(*     when it is the one that does.  The components are asked in order,   *)
(*     one at a time, so that the answered ones come first                 *)
(*     (AnsweredFirst) and each answer is kept as it was given.            *)
(*   MetadataQueue   the positions of the queue stay inside their lists.   *)
(*   SlideCollector  an offered image is whole and in order, and is left   *)
(*     alone while it is decoded.  The segments lie in the buffer in the   *)
(*     order of their numbers, whatever order they came in (Arranged), so  *)
(*     that the object is in order when the last of it is there; only the  *)
(*     end of decoding and a change of the service take back the mark that *)
(*     closes the collector.                                               *)
(*   MCParts         side by side, each part keeps its types: a step is    *)
(*     one of the part that runs and leaves the others alone (OneRuns).    *)
(***************************************************************************)
EXTENDS MCParts, ClockProofs, StorageProofs, TLAPS,
        FiniteSetTheorems, SequenceTheorems, WellFoundedInduction

-----------------------------------------------------------------------------
(* DsrvDrain: what the tracker remembers of the interrupt is the truth.    *)

\* A read is in flight in the tracker exactly while the command is.
ReadInFlight == dsrv.inFlight <=> (command \in {"Read", "Answered"} /\ ~outdated)

\* The interrupt means blocks, and an answer counts blocks that are still there.
BlocksBehind ==
  /\ irqHeld # "Always" /\ irq => blocks > 0
  /\ answer.buffers <= blocks
  /\ command # "Answered" => answer = NoAnswer
  /\ outdated => command # "None"

\* The level the tracker remembers is the tuner's, but for the time between the answer to
\* a read and its completion.
LevelIsTrue ==
  (irqHeld # "Always" /\ ~outdated /\ dsrv.level /\ command # "Answered") => irq

\* An answer that is about to be completed under a high level is followed by another read
\* if the interrupt is raised.
ReadTellsAll ==
  (irqHeld # "Always" /\ ~outdated /\ dsrv.level /\ ~dsrv.fresh /\ command = "Answered") =>
    /\ answer.bytes \/ ~answer.valid
    /\ irq => (answer.valid /\ answer.buffers > 0) \/ ~dsrv.verification

\* A high level is being asked about, or will be.
LevelIsPursued == irqHeld # "Always" => dsrv.pending \/ dsrv.inFlight \/ ~dsrv.level

DrainInductive ==
  DrainTypeOK /\ ReadInFlight /\ BlocksBehind /\ LevelIsTrue /\ ReadTellsAll /\ LevelIsPursued

-----------------------------------------------------------------------------
(* The tracker keeps its type. *)

LEMMA StatusType ==
  ASSUME NEW d \in Tracker, NEW high \in BOOLEAN
  PROVE  /\ Status(d, high) \in Tracker
         /\ Status(d, high).level = high
         /\ Status(d, high).inFlight = d.inFlight
         /\ Status(d, high).pending <=> d.pending \/ (high /\ ~d.level)
         /\ Status(d, high).fresh <=> d.fresh \/ (high /\ ~d.level)
         /\ d.level \/ ~high => Status(d, high).verification = d.verification
  BY DEF Status, Tracker

LEMMA StartType ==
  ASSUME NEW d \in Tracker
  PROVE  StartRead(d) \in Tracker /\ StartRead(d).inFlight /\ StartRead(d).level = d.level
  BY DEF StartRead, Tracker

LEMMA FinishType ==
  ASSUME NEW d \in Tracker, NEW a \in Answers
  PROVE  /\ FinishRead(d, a) \in Tracker
         /\ ~FinishRead(d, a).inFlight
         /\ FinishRead(d, a).level = d.level
         /\ FinishRead(d, a).pending <=>
              \/ d.fresh \/ (a.valid /\ a.buffers > 0)
              \/ d.level /\ ~d.verification /\ (a.bytes \/ ~a.valid)
  BY DEF FinishRead, Tracker, Answers

LEMMA ResetType ==
  NoInterrupt \in Tracker /\ ~NoInterrupt.level /\ ~NoInterrupt.inFlight
  BY DEF NoInterrupt, Tracker

\* Every step keeps the types; the tracker is dealt with by the lemmas above.
LEMMA DrainTypeStep ==
  ASSUME DrainTypeOK, [DrainNext]_drainVars
  PROVE  DrainTypeOK'
<1>0. 0 \in 0..QueueSize /\ 0 \in 0..BurstLimit /\ 0 \in 0..(BurstLimit + 1)
  BY DrainAssumption DEF DrainAssumption
<1> USE DrainAssumption DEF DrainTypeOK
<1>1. CASE Receive
  BY <1>1 DEF Receive, turns
<1>2. CASE AnswerRead
  <2> DEFINE left == IF blocks > 0 THEN blocks - 1 ELSE 0
  <2>1. left \in 0..QueueSize /\ (blocks > 0) \in BOOLEAN
    OBVIOUS
  <2>2. answer' \in Answers
    BY <1>2, <2>1 DEF AnswerRead, Answers
  <2>3. blocks' \in 0..QueueSize /\ irq' \in BOOLEAN
    BY <1>2, <2>1 DEF AnswerRead
  <2> QED
    BY <1>2, <2>2, <2>3 DEF AnswerRead, turns
<1>3. CASE SpoilRead
  <2>1. drainBounds' \in [errors : 0..MaxErrors, tunes : 0..MaxTunes]
    BY <1>3 DEF SpoilRead
  <2>2. answer' \in Answers
    BY <1>3 DEF SpoilRead, Answers
  <2> QED
    BY <1>3, <2>1, <2>2 DEF SpoilRead, tuner, turns
<1>4. CASE PollStatus
  BY <1>4, StatusType DEF PollStatus, tuner, turns
<1>5. CASE CompleteRead
  <2>1. dsrv' \in Tracker
    BY <1>5, StatusType, FinishType, ResetType DEF CompleteRead
  <2>2. answer' \in Answers
    BY <1>0, <1>5 DEF CompleteRead, Answers, NoAnswer
  <2> QED
    BY <1>5, <2>1, <2>2 DEF CompleteRead, tuner, turns
<1>6. CASE CompleteOther
  BY <1>6, StatusType, ResetType DEF CompleteOther, tuner, turns
<1>7. CASE BackoffOver
  BY <1>7 DEF BackoffOver, tuner, turns, Tracker
<1>8. CASE ScheduleRead
  <2>1. burst' \in 0..BurstLimit
    BY <1>8 DEF ScheduleRead, NextBurst
  <2>2. sinceSignal' \in 0..(BurstLimit + 1)
    BY <1>8 DEF ScheduleRead, Counted
  <2> QED
    BY <1>8, <2>1, <2>2, StartType DEF ScheduleRead, tuner
<1>9. CASE ScheduleSignal
  BY <1>0, <1>9 DEF ScheduleSignal, tuner
<1>10. CASE ScheduleLow
  <2>1. sinceSignal' \in 0..(BurstLimit + 1)
    BY <1>10 DEF ScheduleLow, Counted
  <2> QED
    BY <1>0, <1>10, <2>1 DEF ScheduleLow, tuner
<1>11. CASE SignalComesDue
  BY <1>11 DEF SignalComesDue, tuner
<1>12. CASE LowComesDue
  BY <1>12 DEF LowComesDue, tuner
<1>13. CASE RequestTune
  <2>1. drainBounds' \in [errors : 0..MaxErrors, tunes : 0..MaxTunes]
    BY <1>13 DEF RequestTune
  <2> QED
    BY <1>13, <2>1, ResetType DEF RequestTune, tuner
<1>14. CASE CarryOutTune
  BY <1>0, <1>14, StatusType DEF CarryOutTune, turns, Held
<1>15. CASE UNCHANGED drainVars
  BY <1>15 DEF drainVars, tuner, turns
<1> QED
  BY <1>1, <1>2, <1>3, <1>4, <1>5, <1>6, <1>7, <1>8, <1>9, <1>10, <1>11, <1>12, <1>13, <1>14,
     <1>15 DEF DrainNext

-----------------------------------------------------------------------------
(* What the driver remembers stays true of the tuner. *)

LEMMA DrainInitial == DrainInit => DrainInductive
<1> SUFFICES ASSUME DrainInit PROVE DrainInductive
  OBVIOUS
<1>1. 0 \in 0..QueueSize /\ 0 \in 0..BurstLimit /\ 0 \in 0..(BurstLimit + 1)
  BY DrainAssumption DEF DrainAssumption
<1>2. NoAnswer \in Answers /\ NoAnswer.buffers = 0
  BY <1>1 DEF NoAnswer, Answers
<1>3. drainBounds \in [errors : 0..MaxErrors, tunes : 0..MaxTunes]
  BY DrainAssumption DEF DrainAssumption, DrainInit
<1>4. irq \in BOOLEAN /\ (irqHeld # "Always" => ~irq)
  BY DEF DrainInit
<1>5. DrainTypeOK
  BY <1>1, <1>2, <1>3, <1>4, ResetType DEF DrainInit, DrainTypeOK
<1>6. BlocksBehind
  BY <1>2, <1>4 DEF DrainInit, BlocksBehind
<1> QED
  BY <1>5, <1>6, ResetType
     DEF DrainInit, DrainInductive, ReadInFlight, LevelIsTrue, ReadTellsAll, LevelIsPursued

\* The tracker counts a read as in flight exactly while its command is.
LEMMA InFlightStep ==
  ASSUME DrainInductive, [DrainNext]_drainVars
  PROVE  ReadInFlight'
<1> USE DEF DrainInductive, DrainTypeOK, ReadInFlight, BlocksBehind
<1>1. CASE CompleteRead \/ CompleteOther
  <2>1. CASE CompleteRead
    BY <2>1, StatusType, FinishType, ResetType DEF CompleteRead
  <2>2. CASE CompleteOther
    BY <2>2, StatusType, ResetType DEF CompleteOther
  <2> QED
    BY <1>1, <2>1, <2>2
<1>2. CASE PollStatus \/ BackoffOver \/ CarryOutTune
  <2>1. dsrv'.inFlight = dsrv.inFlight
    BY <1>2, StatusType DEF PollStatus, BackoffOver, CarryOutTune, Tracker
  <2> QED
    BY <1>2, <2>1 DEF PollStatus, BackoffOver, CarryOutTune
<1>3. CASE ScheduleRead
  <2>1. dsrv'.inFlight
    BY <1>3 DEF ScheduleRead, StartRead, Tracker
  <2> QED
    BY <1>3, <2>1 DEF ScheduleRead, Free
<1>4. CASE RequestTune
  BY <1>4 DEF RequestTune, NoInterrupt
<1>5. CASE Receive \/ AnswerRead \/ SpoilRead \/ ScheduleSignal \/ ScheduleLow
           \/ SignalComesDue \/ LowComesDue \/ UNCHANGED drainVars
  BY <1>5 DEF Receive, AnswerRead, SpoilRead, ScheduleSignal, ScheduleLow, SignalComesDue,
              LowComesDue, Free, drainVars
<1> QED
  BY <1>1, <1>2, <1>3, <1>4, <1>5 DEF DrainNext

\* The interrupt and the answer stay within what is queued.
LEMMA BlocksStep ==
  ASSUME DrainInductive, [DrainNext]_drainVars
  PROVE  BlocksBehind'
<1> USE DrainAssumption DEF DrainInductive, DrainTypeOK, BlocksBehind, DrainAssumption, Answers
<1>1. CASE Receive
  BY <1>1 DEF Receive
<1>2. CASE AnswerRead
  <2>1. answer'.buffers = blocks' /\ blocks' \in Nat
    BY <1>2 DEF AnswerRead
  <2>2. irqHeld # "Always" /\ irq' => blocks' > 0
    BY <1>2, <2>1 DEF AnswerRead
  <2> QED
    BY <1>2, <2>1, <2>2 DEF AnswerRead
<1>3. CASE SpoilRead
  <2>1. answer'.buffers = answer.buffers
    BY <1>3 DEF SpoilRead
  <2> QED
    BY <1>3, <2>1 DEF SpoilRead, tuner
<1>4. CASE CompleteRead \/ CompleteOther
  BY <1>4 DEF CompleteRead, CompleteOther, tuner, NoAnswer
<1>5. CASE PollStatus \/ BackoffOver \/ ScheduleRead \/ ScheduleSignal \/ ScheduleLow
           \/ SignalComesDue \/ LowComesDue \/ RequestTune \/ UNCHANGED drainVars
  BY <1>5 DEF PollStatus, BackoffOver, ScheduleRead, ScheduleSignal, ScheduleLow,
              SignalComesDue, LowComesDue, RequestTune, Free, tuner, drainVars
<1>6. CASE CarryOutTune
  BY <1>6 DEF CarryOutTune, NoAnswer
<1> QED
  BY <1>1, <1>2, <1>3, <1>4, <1>5, <1>6 DEF DrainNext

LEMMA LevelStep ==
  ASSUME DrainInductive, [DrainNext]_drainVars
  PROVE  LevelIsTrue'
<1> USE DEF DrainInductive, DrainTypeOK, LevelIsTrue
<1>1. CASE PollStatus \/ CompleteOther \/ CarryOutTune
  <2>1. ASSUME NEW high \in BOOLEAN, dsrv' = Status(dsrv, high), dsrv'.level
        PROVE  high
    BY <2>1, StatusType
  <2>2. dsrv' = NoInterrupt => ~dsrv'.level
    BY ResetType
  <2>3. dsrv'.level => irq'
    BY <1>1, <2>1, <2>2 DEF PollStatus, CompleteOther, CarryOutTune, tuner
  <2> QED
    BY <2>3
<1>2. CASE CompleteRead
  <2>1. Status(dsrv, irq) \in Tracker /\ Status(dsrv, irq).level = irq
    BY StatusType
  <2>2. dsrv'.level => irq
    BY <1>2, <2>1, FinishType, ResetType DEF CompleteRead
  <2> QED
    BY <1>2, <2>2 DEF CompleteRead, tuner
<1>3. CASE RequestTune
  BY <1>3, ResetType DEF RequestTune, tuner
<1>4. CASE ScheduleRead
  BY <1>4, StartType DEF ScheduleRead, Free, tuner
<1>5. CASE BackoffOver
  <2>1. dsrv'.level = dsrv.level
    BY <1>5 DEF BackoffOver, Tracker
  <2> QED
    BY <1>5, <2>1 DEF BackoffOver, tuner
<1>6. CASE Receive \/ AnswerRead \/ SpoilRead
  BY <1>6 DEF Receive, AnswerRead, SpoilRead, tuner
<1>7. CASE ScheduleSignal \/ ScheduleLow \/ SignalComesDue \/ LowComesDue \/ UNCHANGED drainVars
  BY <1>7 DEF ScheduleSignal, ScheduleLow, SignalComesDue, LowComesDue, Free, tuner, drainVars
<1> QED
  BY <1>1, <1>2, <1>3, <1>4, <1>5, <1>6, <1>7 DEF DrainNext

\* Here the verification read matters, and that nothing disturbs it.
LEMMA AnswerStep ==
  ASSUME DrainInductive, QuietVerify, [DrainNext]_drainVars
  PROVE  ReadTellsAll'
<1> USE DEF DrainInductive, DrainTypeOK, ReadTellsAll
<1>1. CASE Receive
  <2>1. command = "Answered" /\ ~outdated => ~dsrv.verification
    BY <1>1 DEF Receive, Undisturbed, ReadInFlight
  <2> QED
    BY <1>1, <2>1 DEF Receive
<1>2. CASE AnswerRead
  <2>1. /\ answer'.bytes = (blocks > 0) /\ answer'.valid /\ answer'.buffers = blocks'
        /\ blocks' \in Nat
    BY <1>2 DEF AnswerRead
  <2>2. (irqHeld # "Always" /\ ~outdated /\ dsrv.level) => blocks > 0
    BY <1>2 DEF AnswerRead, LevelIsTrue, BlocksBehind
  <2>3. irqHeld # "Always" /\ irq' => blocks' > 0
    BY <1>2, <2>1 DEF AnswerRead
  <2> QED
    BY <1>2, <2>1, <2>2, <2>3 DEF AnswerRead
<1>3. CASE SpoilRead
  <2>1. ~answer'.valid
    BY <1>3 DEF SpoilRead, Answers
  <2>2. ~outdated => ~dsrv.verification
    BY <1>3 DEF SpoilRead, Undisturbed, ReadInFlight
  <2> QED
    BY <1>3, <2>1, <2>2 DEF SpoilRead, tuner
<1>4. CASE PollStatus
  <2>1. /\ dsrv'.level /\ ~dsrv'.fresh => dsrv.level /\ ~dsrv.fresh
        /\ dsrv'.level /\ ~dsrv'.fresh => dsrv'.verification = dsrv.verification
    BY <1>4, StatusType DEF PollStatus, tuner
  <2> QED
    BY <1>4, <2>1 DEF PollStatus, tuner
<1>5. CASE BackoffOver
  <2>1. /\ dsrv'.level = dsrv.level /\ dsrv'.fresh = dsrv.fresh
        /\ dsrv'.verification = dsrv.verification
    BY <1>5 DEF BackoffOver, Tracker
  <2> QED
    BY <1>5, <2>1 DEF BackoffOver, tuner
<1>6. CASE RequestTune
  BY <1>6, ResetType DEF RequestTune
<1>7. CASE CompleteRead \/ CompleteOther \/ ScheduleRead \/ ScheduleSignal \/ ScheduleLow
           \/ CarryOutTune
  BY <1>7 DEF CompleteRead, CompleteOther, ScheduleRead, ScheduleSignal, ScheduleLow, CarryOutTune
<1>8. CASE SignalComesDue \/ LowComesDue \/ UNCHANGED drainVars
  BY <1>8 DEF SignalComesDue, LowComesDue, tuner, drainVars
<1> QED
  BY <1>1, <1>2, <1>3, <1>4, <1>5, <1>6, <1>7, <1>8 DEF DrainNext

LEMMA PursuitStep ==
  ASSUME DrainInductive, [DrainNext]_drainVars
  PROVE  LevelIsPursued'
<1> USE DEF DrainInductive, DrainTypeOK, LevelIsPursued
<1>1. CASE CompleteRead
  <2>1. CASE outdated
    BY <1>1, <2>1, ResetType DEF CompleteRead
  <2>2. CASE ~outdated
    <3> DEFINE seen == Status(dsrv, irq)
    <3>1. /\ seen \in Tracker /\ seen.level = irq
          /\ irq => seen.fresh <=> dsrv.fresh \/ ~dsrv.level
          /\ irq /\ dsrv.level => seen.verification = dsrv.verification
      BY StatusType
    <3>2. irqHeld # "Always" /\ irq => FinishRead(seen, answer).pending
      BY <1>1, <2>2, <3>1, FinishType DEF CompleteRead, ReadTellsAll, Answers
    <3>3. FinishRead(seen, answer).level = irq
      BY <3>1, FinishType
    <3> QED
      BY <1>1, <2>2, <3>2, <3>3 DEF CompleteRead, tuner
  <2> QED
    BY <2>1, <2>2
<1>2. CASE PollStatus \/ CompleteOther \/ CarryOutTune
  <2>1. irqHeld' = irqHeld
    BY <1>2 DEF PollStatus, CompleteOther, CarryOutTune, tuner
  <2>2. ASSUME NEW high \in BOOLEAN, dsrv' = Status(dsrv, high), irqHeld # "Always"
        PROVE  dsrv'.pending \/ dsrv'.inFlight \/ ~dsrv'.level
    BY <2>2, StatusType
  <2>3. CASE dsrv' = NoInterrupt
    BY <2>3, ResetType
  <2> QED
    BY <1>2, <2>1, <2>2, <2>3 DEF PollStatus, CompleteOther, CarryOutTune
<1>3. CASE BackoffOver
  <2>1. /\ dsrv'.level = dsrv.level /\ dsrv'.pending = dsrv.pending
        /\ dsrv'.inFlight = dsrv.inFlight
    BY <1>3 DEF BackoffOver, Tracker
  <2> QED
    BY <1>3, <2>1 DEF BackoffOver, tuner
<1>4. CASE ScheduleRead
  BY <1>4, StartType DEF ScheduleRead
<1>5. CASE RequestTune
  BY <1>5, ResetType DEF RequestTune
<1>6. CASE Receive \/ AnswerRead \/ SpoilRead \/ ScheduleSignal \/ ScheduleLow
           \/ SignalComesDue \/ LowComesDue \/ UNCHANGED drainVars
  BY <1>6 DEF Receive, AnswerRead, SpoilRead, ScheduleSignal, ScheduleLow, SignalComesDue,
              LowComesDue, tuner, drainVars
<1> QED
  BY <1>1, <1>2, <1>3, <1>4, <1>5, <1>6 DEF DrainNext

-----------------------------------------------------------------------------
(* Theorems. *)

\* The tracker, the queue and the counters keep their types, whatever is received, refused
\* or tuned away.
THEOREM DrainTypeCorrect == DrainSpec => []DrainTypeOK
<1>1. DrainInit => DrainTypeOK
  BY DrainInitial DEF DrainInductive
<1>2. DrainTypeOK /\ [DrainNext]_drainVars => DrainTypeOK'
  BY DrainTypeStep
<1> QED
  BY <1>1, <1>2, PTL DEF DrainSpec

\* No interrupt over queued blocks is dropped by the tracker (Dsrv::finish), provided that
\* nothing goes wrong or arrives within a verification read.
THEOREM InterruptKept == QuietVerify => (DrainSpec => []InterruptNotLost)
<1> SUFFICES ASSUME QuietVerify PROVE DrainSpec => []InterruptNotLost
  OBVIOUS
<1>1. DrainInit => DrainInductive
  BY DrainInitial
<1>2. DrainInductive /\ [DrainNext]_drainVars => DrainInductive'
  BY DrainTypeStep, InFlightStep, BlocksStep, LevelStep, AnswerStep, PursuitStep
     DEF DrainInductive
<1>3. DrainInductive => InterruptNotLost
  BY DEF DrainInductive, LevelIsPursued, InterruptNotLost
<1> QED
  BY <1>1, <1>2, <1>3, PTL DEF DrainSpec

-----------------------------------------------------------------------------
(* UaScan: the components are asked in order, one at a time, so that those *)
(* that have answered come first.                                          *)

\* The components that have answered in this scan.
Answered == scan.processed + scan.failed

\* The query in flight is one of this scan exactly while the scan counts one as active.
OneAtATime ==
  /\ scan.active <=> (query.op = "Component" /\ query.token = scan.generation)
  /\ scan.active => query.index = nextIndex
  /\ query.token <= scan.generation
  /\ scan.scheduled = nextIndex /\ nextIndex <= scan.total
  /\ nextIndex = Answered + (IF scan.active THEN 1 ELSE 0)

\* What is known of the components is what was answered.
AnsweredFirst == \A i \in Positions : identity[i] # "Unqueried" <=> i <= Answered

\* A list is asked for and read only when it is new, so that every list begins one scan.
ScansAreBounded ==
  /\ listVersion <= version
  /\ query.op = "List" => listVersion < version
  /\ scan.generation + 1 <= version + uaBounds.restarts + uaBounds.faults
                            + (IF listVersion = version THEN version ELSE version - 1)

UaInductive == UaTypes /\ OneAtATime /\ AnsweredFirst /\ ScansAreBounded

\* An answer that is held is true of the list that is broadcast, if that is the list read.
AnswersTrue ==
  listVersion = version =>
    \A i \in Positions : /\ identity[i] = "Spi" => i \in carriers
                         /\ identity[i] = "NotSpi" => i \notin carriers

\* The counters agree with the answers because the answered components are 1..Answered.
LEMMA CountersFollow ==
  ASSUME UaTypes, OneAtATime, AnsweredFirst
  PROVE  AnswersCounted
<1>1. {i \in Positions : identity[i] # "Unqueried"} = 1..Answered
  BY ScanAssumption DEF UaTypes, OneAtATime, AnsweredFirst, Answered, Positions, ScanAssumption
<1>2. Answered \in Nat
  BY DEF UaTypes, Answered
<1>3. Cardinality(1..Answered) = Answered
  BY <1>2, FS_Interval
<1> QED
  BY <1>1, <1>2, <1>3 DEF AnswersCounted, UaTypes, OneAtATime, Answered

\* Scan::begin leaves a scan in which nothing has been asked.
LEMMA RestartFollows ==
  ASSUME UaInductive, NEW preserve \in BOOLEAN, NEW count \in 0..NumComponents,
         NEW isValid \in BOOLEAN, Restart(preserve, count, isValid),
         scan.generation + 1 \in 0..MaxScans,
         query'.token <= scan.generation, query' \in [op : {"None", "List", "OldList", "Component"},
           index : 0..NumComponents, token : 0..MaxScans]
  PROVE  /\ scan' \in [ generation : 0..MaxScans, total : 0..NumComponents,
                        scheduled : 0..NumComponents, processed : 0..NumComponents,
                        failed : 0..NumComponents, active : BOOLEAN, enumerated : BOOLEAN ]
         /\ nextIndex' \in 0..NumComponents /\ identity' \in [Positions -> Identities]
         /\ dirty' \in BOOLEAN /\ rescanArmed' \in BOOLEAN
         /\ choice' \in [status : Statuses, component : 0..NumComponents]
         /\ guidePresent' \in BOOLEAN
         /\ scan'.generation = scan.generation + 1
         /\ OneAtATime' /\ AnsweredFirst'
         /\ \A i \in Positions : identity'[i] = "Unqueried"
         /\ choice'.status # "Selected"
<1> USE ScanAssumption DEF ScanAssumption, UaInductive, UaTypes
<1>0. 0 \in 0..NumComponents
  OBVIOUS
<1>1. /\ scan' = [ generation |-> scan.generation + 1, total |-> count, scheduled |-> 0,
                   processed |-> 0, failed |-> 0, active |-> FALSE, enumerated |-> isValid ]
      /\ nextIndex' = 0 /\ identity' = [i \in Positions |-> "Unqueried"]
  BY DEF Restart
<1>2. scan' \in [ generation : 0..MaxScans, total : 0..NumComponents,
                  scheduled : 0..NumComponents, processed : 0..NumComponents,
                  failed : 0..NumComponents, active : BOOLEAN, enumerated : BOOLEAN ]
  BY <1>0, <1>1
<1>3. identity' \in [Positions -> Identities] /\ \A i \in Positions : identity'[i] = "Unqueried"
  BY <1>1 DEF Identities
<1>4. choice' \in [status : Statuses, component : 0..NumComponents] /\ choice'.status # "Selected"
  BY <1>0 DEF Restart, Found, Undecided, Statuses
<1>5. dirty' \in BOOLEAN /\ rescanArmed' \in BOOLEAN /\ guidePresent' \in BOOLEAN
  BY Zenon DEF Restart
<1>6. OneAtATime'
  BY <1>1 DEF OneAtATime, Answered
<1>7. AnsweredFirst'
  BY <1>1, <1>3 DEF AnsweredFirst, Answered, Positions
<1> QED
  BY <1>0, <1>1, <1>2, <1>3, <1>4, <1>5, <1>6, <1>7

-----------------------------------------------------------------------------
(* Every step keeps the invariant. *)

LEMMA UaInitial == UaInit => UaInductive /\ AnswersTrue
<1> SUFFICES ASSUME UaInit PROVE UaInductive /\ AnswersTrue
  OBVIOUS
<1> USE ScanAssumption DEF ScanAssumption
<1>1. 0 \in 0..NumComponents /\ 0 \in 0..MaxScans /\ 0 \in 0..MaxVersions /\ 1 \in 1..MaxVersions
      /\ 0 \in 0..MaxRestarts /\ 0 \in 0..MaxUaFaults
  BY DEF MaxScans
<1>2. scan \in [ generation : 0..MaxScans, total : 0..NumComponents, scheduled : 0..NumComponents,
                processed : 0..NumComponents, failed : 0..NumComponents,
                active : BOOLEAN, enumerated : BOOLEAN ]
  BY <1>1 DEF UaInit
<1>3. query \in [op : {"None", "List", "OldList", "Component"}, index : 0..NumComponents,
                token : 0..MaxScans]
  BY <1>1 DEF UaInit, NoQuery
<1>4. UaTypes
  BY <1>1, <1>2, <1>3 DEF UaInit, UaTypes, Identities, Undecided, Statuses
<1>5. OneAtATime /\ AnsweredFirst /\ ScansAreBounded
  BY DEF UaInit, OneAtATime, AnsweredFirst, ScansAreBounded, Answered, NoQuery, Positions
<1> QED
  BY <1>4, <1>5 DEF UaInductive, AnswersTrue, UaInit

\* The number of scans is within the bound.
LEMMA AnotherScan ==
  ASSUME UaInductive, uaBounds' \in [restarts : 0..MaxRestarts, faults : 0..MaxUaFaults],
         version' \in 1..MaxVersions,
         scan.generation + 2 <= version' + uaBounds'.restarts + uaBounds'.faults
                                 + (IF listVersion' = version' THEN version' ELSE version' - 1)
  PROVE  scan.generation + 1 \in 0..MaxScans
  BY ScanAssumption DEF ScanAssumption, UaInductive, UaTypes, MaxScans

\* A new ensemble, a new service, a failed list and a rescan begin a scan.
LEMMA RestartsKeep ==
  ASSUME UaInductive, LeaveEnsemble \/ SelectService \/ ListFails \/ Rescan \/ ParseList
  PROVE  /\ UaInductive' /\ choice'.status # "Selected"
         /\ \A i \in Positions : identity'[i] = "Unqueried"
<1> USE ScanAssumption DEF ScanAssumption
<1>1. /\ query' \in [op : {"None", "List", "OldList", "Component"}, index : 0..NumComponents,
                     token : 0..MaxScans]
      /\ query'.token <= scan.generation
      /\ query'.op = "List" => query.op = "List" /\ listVersion' = listVersion /\ version' = version
  <2>1. CASE LeaveEnsemble
    <3>1. query' = [query EXCEPT !.op = "OldList"] \/ (query.op # "List" /\ query' = query)
      BY <2>1, Zenon DEF LeaveEnsemble
    <3> QED
      BY <3>1 DEF UaInductive, UaTypes, OneAtATime
  <2>2. CASE SelectService \/ Rescan
    <3>1. UNCHANGED <<version, listVersion, query>>
      BY <2>2 DEF SelectService, Rescan, inventory
    <3> QED
      BY <3>1 DEF UaInductive, UaTypes, OneAtATime
  <2>3. CASE ListFails \/ ParseList
    <3>1. query' = NoQuery
      BY <2>3 DEF ListFails, ParseList
    <3> QED
      BY <3>1 DEF NoQuery, UaInductive, UaTypes, MaxScans
  <2> QED
    BY <2>1, <2>2, <2>3
<1>2. /\ version' \in 1..MaxVersions /\ carriers' \subseteq Positions
      /\ listVersion' \in 0..MaxVersions /\ listVersion' <= version'
      /\ uaBounds' \in [restarts : 0..MaxRestarts, faults : 0..MaxUaFaults]
      /\ scan.generation + 2 <= version' + uaBounds'.restarts + uaBounds'.faults
                                + (IF listVersion' = version' THEN version' ELSE version' - 1)
  <2> USE DEF UaInductive, UaTypes, ScansAreBounded
  <2>1. CASE LeaveEnsemble
    BY <2>1 DEF LeaveEnsemble
  <2>2. CASE SelectService \/ Rescan
    <3>1. /\ uaBounds' \in [restarts : 0..MaxRestarts, faults : 0..MaxUaFaults]
          /\ uaBounds'.restarts = uaBounds.restarts + 1 /\ uaBounds'.faults = uaBounds.faults
      <4>1. Restarts
        BY <2>2, Zenon DEF SelectService, Rescan
      <4> QED
        BY <4>1 DEF Restarts
    <3>2. UNCHANGED <<version, carriers, listVersion>>
      BY <2>2 DEF SelectService, Rescan, inventory
    <3> QED
      BY <3>1, <3>2
  <2>3. CASE ListFails
    <3>1. /\ uaBounds' \in [restarts : 0..MaxRestarts, faults : 0..MaxUaFaults]
          /\ uaBounds'.restarts = uaBounds.restarts /\ uaBounds'.faults = uaBounds.faults + 1
      BY <2>3 DEF ListFails, UaFault
    <3> QED
      BY <2>3, <3>1 DEF ListFails
  <2>4. CASE ParseList
    BY <2>4 DEF ParseList
  <2> QED
    BY <2>1, <2>2, <2>3, <2>4
<1>3. scan.generation + 1 \in 0..MaxScans
  BY <1>2, AnotherScan
<1>4. \E preserve \in BOOLEAN, count \in 0..NumComponents, isValid \in BOOLEAN :
        Restart(preserve, count, isValid)
  <2>1. CASE LeaveEnsemble
    <3>1. Restart(FALSE, 0, FALSE)
      BY <2>1, Zenon DEF LeaveEnsemble
    <3>2. 0 \in 0..NumComponents
      OBVIOUS
    <3> QED
      BY <3>1, <3>2, Zenon
  <2>2. CASE SelectService \/ Rescan
    <3>1. Restart(TRUE, scan.total, valid) /\ scan.total \in 0..NumComponents /\ valid \in BOOLEAN
      BY <2>2 DEF SelectService, Rescan, UaInductive, UaTypes
    <3> QED
      BY <3>1, Zenon
  <2>3. CASE ListFails
    <3>1. Restart(TRUE, scan.total, FALSE) /\ scan.total \in 0..NumComponents
      BY <2>3 DEF ListFails, UaInductive, UaTypes
    <3> QED
      BY <3>1, Zenon
  <2>4. CASE ParseList
    <3>1. listVersion' # listVersion
      BY <2>4 DEF ParseList, UaInductive, UaTypes, ScansAreBounded
    <3>2. InventoryChanged
      BY <2>4, <3>1 DEF ParseList, InventoryChanged
    <3>3. Restart(FALSE, NumComponents, TRUE)
      BY <2>4, <3>2, Zenon DEF ParseList
    <3>4. NumComponents \in 0..NumComponents
      OBVIOUS
    <3> QED
      BY <3>3, <3>4, Zenon
  <2> QED
    BY <2>1, <2>2, <2>3, <2>4
<1>5. PICK preserve \in BOOLEAN, count \in 0..NumComponents, isValid \in BOOLEAN :
        Restart(preserve, count, isValid)
  BY <1>4
<1>6. listReady' \in BOOLEAN /\ valid' \in BOOLEAN /\ firstPlays' \in BOOLEAN /\ resting' \in BOOLEAN
  BY Zenon DEF LeaveEnsemble, SelectService, ListFails, Rescan, ParseList, UaInductive, UaTypes,
               inventory
<1>7. scan'.generation = scan.generation + 1
  BY <1>1, <1>3, <1>5, RestartFollows
<1>8. UaTypes'
  BY <1>1, <1>2, <1>3, <1>5, <1>6, RestartFollows DEF UaTypes
<1>9. ScansAreBounded'
  BY <1>1, <1>2, <1>7 DEF ScansAreBounded, UaInductive, UaTypes
<1> QED
  BY <1>1, <1>3, <1>5, <1>8, <1>9, RestartFollows DEF UaInductive

\* A component is asked.
LEMMA AskKeeps ==
  ASSUME UaInductive, AskComponent \/ ComponentNotSent
  PROVE  UaInductive'
<1> USE ScanAssumption DEF ScanAssumption
<1>1. CASE AskComponent
  <2>1. /\ ~scan.active /\ scan.scheduled = nextIndex /\ nextIndex < scan.total
        /\ scan.total \in 0..NumComponents /\ nextIndex \in 0..NumComponents
    BY <1>1 DEF AskComponent, QueryDue, NoQuery, UaInductive, UaTypes, OneAtATime
  <2>2. /\ scan' = [scan EXCEPT !.scheduled = @ + 1, !.active = TRUE]
        /\ query' = [op |-> "Component", index |-> nextIndex + 1, token |-> scan.generation]
        /\ nextIndex' = nextIndex + 1
    BY <1>1, <2>1 DEF AskComponent, QueryDue, UaInductive, UaTypes, OneAtATime
  <2>3. UaTypes'
    <3>0. scan.scheduled + 1 \in 0..NumComponents
      BY <2>1
    <3>1. scan' \in [ generation : 0..MaxScans, total : 0..NumComponents,
                scheduled : 0..NumComponents, processed : 0..NumComponents,
                failed : 0..NumComponents, active : BOOLEAN, enumerated : BOOLEAN ]
      BY <2>2, <3>0 DEF UaInductive, UaTypes
    <3>2. query' \in [op : {"None", "List", "OldList", "Component"}, index : 0..NumComponents,
                token : 0..MaxScans] /\ nextIndex' \in 0..NumComponents
      BY <2>1, <2>2 DEF UaInductive, UaTypes
    <3> QED
      BY <1>1, <3>1, <3>2 DEF AskComponent, UaInductive, UaTypes, inventory
  <2>4. OneAtATime'
    BY <2>1, <2>2 DEF UaInductive, UaTypes, OneAtATime, Answered
  <2>5. AnsweredFirst' /\ ScansAreBounded'
    BY <1>1, <2>2 DEF AskComponent, UaInductive, UaTypes, AnsweredFirst, Answered, ScansAreBounded,
                      inventory
  <2> QED
    BY <2>3, <2>4, <2>5 DEF UaInductive
<1>2. CASE ComponentNotSent
  <2>1. /\ ~scan.active /\ scan.scheduled = nextIndex /\ nextIndex < scan.total
        /\ scan.total \in 0..NumComponents /\ nextIndex \in 0..NumComponents
        /\ Answered = nextIndex /\ nextIndex + 1 \in Positions /\ scan.failed < NumComponents
    BY <1>2 DEF ComponentNotSent, QueryDue, NoQuery, UaInductive, UaTypes, OneAtATime, Answered,
                Positions
  <2>2. /\ scan' = [scan EXCEPT !.scheduled = @ + 1, !.failed = @ + 1]
        /\ identity' = [identity EXCEPT ![nextIndex + 1] = "Failed"]
        /\ nextIndex' = nextIndex + 1 /\ query' = query
    BY <1>2 DEF ComponentNotSent
  <2>3. /\ uaBounds' \in [restarts : 0..MaxRestarts, faults : 0..MaxUaFaults]
        /\ uaBounds'.restarts = uaBounds.restarts /\ uaBounds'.faults = uaBounds.faults + 1
    BY <1>2 DEF ComponentNotSent, UaFault, UaInductive, UaTypes
  <2>4. UaTypes'
    <3>0. scan.scheduled + 1 \in 0..NumComponents /\ scan.failed + 1 \in 0..NumComponents
      BY <2>1 DEF UaInductive, UaTypes
    <3>1. scan' \in [ generation : 0..MaxScans, total : 0..NumComponents,
                scheduled : 0..NumComponents, processed : 0..NumComponents,
                failed : 0..NumComponents, active : BOOLEAN, enumerated : BOOLEAN ]
      BY <2>2, <3>0 DEF UaInductive, UaTypes
    <3>2. identity' \in [Positions -> Identities] /\ nextIndex' \in 0..NumComponents
      BY <2>1, <2>2 DEF UaInductive, UaTypes, Identities
    <3> QED
      BY <1>2, <2>3, <3>1, <3>2 DEF ComponentNotSent, UaInductive, UaTypes, inventory
  <2>5. OneAtATime'
    BY <1>2, <2>1, <2>2 DEF ComponentNotSent, NoQuery, UaInductive, UaTypes, OneAtATime, Answered
  <2>6. AnsweredFirst'
    <3>1. \A i \in Positions : identity'[i] # "Unqueried" <=> i <= nextIndex + 1
      BY <2>1, <2>2 DEF UaInductive, UaTypes, AnsweredFirst, Positions
    <3>2. Answered' = nextIndex + 1
      BY <2>1, <2>2 DEF UaInductive, UaTypes, Answered
    <3> QED
      BY <3>1, <3>2 DEF AnsweredFirst
  <2>7. ScansAreBounded'
    BY <1>2, <2>2, <2>3 DEF ComponentNotSent, UaInductive, UaTypes, ScansAreBounded, inventory
  <2> QED
    BY <2>4, <2>5, <2>6, <2>7 DEF UaInductive
<1> QED
  BY <1>1, <1>2

\* Whether an answer counts, and what it leaves behind.
LEMMA RecordFollows ==
  ASSUME UaInductive, query.op = "Component", query' = NoQuery,
         NEW id \in Identities \ {"Unqueried"}, NEW success \in BOOLEAN, Record(id, success)
  PROVE  /\ scan' \in [ generation : 0..MaxScans, total : 0..NumComponents,
                scheduled : 0..NumComponents, processed : 0..NumComponents,
                failed : 0..NumComponents, active : BOOLEAN, enumerated : BOOLEAN ]
         /\ scan'.generation = scan.generation
         /\ identity' \in [Positions -> Identities]
         /\ dirty' \in BOOLEAN /\ UNCHANGED <<nextIndex, choice, guidePresent, rescanArmed>>
         /\ OneAtATime' /\ AnsweredFirst'
         /\ \A i \in Positions : identity'[i] = identity[i] \/ (i = query.index /\ identity'[i] = id)
<1> USE ScanAssumption DEF ScanAssumption
<1>1. CASE ~AnswerIsOurs
  <2>1. ~scan.active
    BY <1>1 DEF AnswerIsOurs, UaInductive, UaTypes, OneAtATime, Answered
  <2>2. UNCHANGED progress
    BY <1>1 DEF Record
  <2> QED
    BY <2>1, <2>2 DEF progress, UaInductive, UaTypes, OneAtATime, AnsweredFirst, Answered, NoQuery
<1>2. CASE AnswerIsOurs
  <2>1. /\ scan.active /\ query.index = nextIndex /\ nextIndex = Answered + 1
        /\ nextIndex <= scan.total /\ nextIndex \in Positions
        /\ scan.processed < NumComponents /\ scan.failed < NumComponents
    BY <1>2 DEF AnswerIsOurs, UaInductive, UaTypes, OneAtATime, Answered, Positions
  <2>2. /\ identity' = [identity EXCEPT ![nextIndex] = id] /\ scan' = Committed(success)
        /\ UNCHANGED <<nextIndex, choice, guidePresent, rescanArmed>>
    BY <1>2, <2>1 DEF Record, UaInductive, OneAtATime
  <2>3. dirty' \in BOOLEAN
    BY <1>2 DEF Record
  <2>4. /\ scan' \in [ generation : 0..MaxScans, total : 0..NumComponents,
                scheduled : 0..NumComponents, processed : 0..NumComponents,
                failed : 0..NumComponents, active : BOOLEAN, enumerated : BOOLEAN ]
        /\ scan'.generation = scan.generation /\ ~scan'.active
        /\ scan'.total = scan.total /\ scan'.scheduled = scan.scheduled
        /\ scan'.processed + scan'.failed = scan.processed + scan.failed + 1
    <3>1. scan.processed + 1 \in 0..NumComponents /\ scan.failed + 1 \in 0..NumComponents
      BY <2>1 DEF UaInductive, UaTypes
    <3>2. CASE success
      <4>1. scan' = [scan EXCEPT !.processed = @ + 1, !.active = FALSE]
        BY <2>2, <3>2, Zenon DEF Committed
      <4>2. /\ scan' \in [ generation : 0..MaxScans, total : 0..NumComponents,
                scheduled : 0..NumComponents, processed : 0..NumComponents,
                failed : 0..NumComponents, active : BOOLEAN, enumerated : BOOLEAN ]
            /\ scan'.generation = scan.generation /\ ~scan'.active
            /\ scan'.total = scan.total /\ scan'.scheduled = scan.scheduled
            /\ scan'.processed = scan.processed + 1 /\ scan'.failed = scan.failed
        BY <3>1, <4>1 DEF UaInductive, UaTypes
      <4> QED
        BY <4>2 DEF UaInductive, UaTypes
    <3>3. CASE ~success
      <4>1. scan' = [scan EXCEPT !.failed = @ + 1, !.active = FALSE]
        BY <2>2, <3>3, Zenon DEF Committed
      <4>2. /\ scan' \in [ generation : 0..MaxScans, total : 0..NumComponents,
                scheduled : 0..NumComponents, processed : 0..NumComponents,
                failed : 0..NumComponents, active : BOOLEAN, enumerated : BOOLEAN ]
            /\ scan'.generation = scan.generation /\ ~scan'.active
            /\ scan'.total = scan.total /\ scan'.scheduled = scan.scheduled
            /\ scan'.failed = scan.failed + 1 /\ scan'.processed = scan.processed
        BY <3>1, <4>1 DEF UaInductive, UaTypes
      <4> QED
        BY <4>2 DEF UaInductive, UaTypes
    <3> QED
      BY <3>2, <3>3
  <2>5. identity' \in [Positions -> Identities]
    BY <2>1, <2>2 DEF UaInductive, UaTypes
  <2>6. OneAtATime'
    BY <2>1, <2>2, <2>4 DEF UaInductive, UaTypes, OneAtATime, Answered, NoQuery
  <2>7. AnsweredFirst'
    BY <2>1, <2>2, <2>4 DEF UaInductive, UaTypes, AnsweredFirst, Answered, Positions
  <2> QED
    BY <2>1, <2>2, <2>3, <2>4, <2>5, <2>6, <2>7 DEF UaInductive, UaTypes
<1> QED
  BY <1>1, <1>2

LEMMA AnswerKeeps ==
  ASSUME UaInductive, ComponentAnswers \/ ComponentFails
  PROVE  UaInductive'
<1> USE ScanAssumption DEF ScanAssumption
<1>1. \E id \in Identities \ {"Unqueried"}, success \in BOOLEAN : Record(id, success)
  <2>1. CASE ComponentAnswers
    <3>1. PICK id \in {"Spi", "NotSpi"} : Record(id, TRUE)
      BY <2>1, Zenon DEF ComponentAnswers
    <3> QED
      BY <3>1, Zenon DEF Identities
  <2>2. CASE ComponentFails
    <3>1. Record("Failed", FALSE)
      BY <2>2, Zenon DEF ComponentFails
    <3> QED
      BY <3>1, Zenon DEF Identities
  <2> QED
    BY <2>1, <2>2
<1>2. PICK id \in Identities \ {"Unqueried"}, success \in BOOLEAN : Record(id, success)
  BY <1>1, Zenon
<1>3. query.op = "Component" /\ query' = NoQuery
      /\ UNCHANGED <<version, carriers, inventory, firstPlays, resting>>
  BY Zenon DEF ComponentAnswers, ComponentFails
<1>4. /\ uaBounds' \in [restarts : 0..MaxRestarts, faults : 0..MaxUaFaults]
      /\ uaBounds'.restarts = uaBounds.restarts /\ uaBounds'.faults >= uaBounds.faults
  <2>1. UaFault \/ uaBounds' = uaBounds
    BY Zenon DEF ComponentAnswers, ComponentFails
  <2> QED
    BY <2>1 DEF UaFault, UaInductive, UaTypes
<1>5. NoQuery \in [op : {"None", "List", "OldList", "Component"}, index : 0..NumComponents,
                   token : 0..MaxScans]
  BY DEF NoQuery, UaInductive, UaTypes, MaxScans
<1>6. UaTypes'
  BY <1>2, <1>3, <1>4, <1>5, RecordFollows DEF UaInductive, UaTypes, inventory
<1>7. scan'.generation = scan.generation /\ OneAtATime' /\ AnsweredFirst'
  BY <1>2, <1>3, RecordFollows
<1>8. ScansAreBounded'
  BY <1>3, <1>4, <1>7 DEF NoQuery, UaInductive, UaTypes, ScansAreBounded, inventory
<1> QED
  BY <1>6, <1>7, <1>8 DEF UaInductive

\* Selector gives a status and a position of the list.
LEMMA SelectionType ==
  ASSUME NEW ids \in [Positions -> Identities]
  PROVE  /\ Selection(ids) \in [status : Statuses, component : 0..NumComponents]
         /\ Selection(ids).status = "Selected" =>
              LET packet == {i \in Positions : ids[i] = "Spi"} \ PadComponents
                  own    == packet \cap (IF firstPlays THEN OwnComponents
                                         ELSE Positions \ OwnComponents)
              IN /\ \A i \in Positions : ids[i] \notin {"Unqueried", "Failed"}
                 /\ own = {Selection(ids).component} \/ packet = {Selection(ids).component}
<1> DEFINE packet == {i \in Positions : ids[i] = "Spi"} \ PadComponents
           own    == packet \cap (IF firstPlays THEN OwnComponents ELSE Positions \ OwnComponents)
           only   == IF Cardinality(own) = 1 THEN own ELSE packet
<1>1. IsFiniteSet(packet) /\ IsFiniteSet(own)
  <2>1. IsFiniteSet(Positions)
    BY ScanAssumption, FS_Interval DEF ScanAssumption, Positions
  <2>2. packet \subseteq Positions /\ own \subseteq Positions
    OBVIOUS
  <2> QED
    BY <2>1, <2>2, FS_Subset
<1>2. Cardinality(only) = 1 => /\ \E c \in Positions : only = {c}
                               /\ only = own \/ only = packet
  BY <1>1, FS_Singleton
<1>3. Cardinality(only) = 1 => /\ (CHOOSE i \in only : TRUE) \in Positions
                               /\ only = {CHOOSE i \in only : TRUE}
  BY <1>2
<1>4. 0 \in 0..NumComponents /\ Positions \subseteq 0..NumComponents
  BY ScanAssumption DEF ScanAssumption, Positions
<1>5. CASE /\ \A i \in Positions : ids[i] \notin {"Unqueried", "Failed"}
           /\ Cardinality(only) = 1
  <2>1. Selection(ids) = [status |-> "Selected", component |-> CHOOSE i \in only : TRUE]
    BY <1>5 DEF Selection
  <2>2. Selection(ids).component = CHOOSE i \in only : TRUE
    BY <2>1
  <2> QED
    BY <1>2, <1>3, <1>4, <1>5, <2>1, <2>2 DEF Statuses
<1>6. CASE ~ (/\ \A i \in Positions : ids[i] \notin {"Unqueried", "Failed"}
              /\ Cardinality(only) = 1)
  <2>1. Selection(ids) \in {Undecided, Found("Incomplete"), Found("Ambiguous"), Found("PadOnly"),
                            Found("NotSignalled")}
    BY <1>6 DEF Selection
  <2> QED
    BY <1>4, <2>1 DEF Undecided, Found, Statuses
<1> QED
  BY <1>5, <1>6

\* The rest leaves the scan alone.
LEMMA OthersKeep ==
  ASSUME UaInductive,
         \/ ReviseList \/ ComeToRest \/ AskList \/ DropOldList \/ Conclude \/ UNCHANGED uaVars
  PROVE  UaInductive'
<1> USE ScanAssumption DEF ScanAssumption
<1>1. UNCHANGED <<scan, nextIndex, identity, listVersion>>
  BY DEF ReviseList, ComeToRest, AskList, DropOldList, Conclude, uaVars, inventory, progress
<1>2. AnsweredFirst'
  BY <1>1 DEF UaInductive, AnsweredFirst, Answered
<1>3. /\ UNCHANGED uaBounds /\ version' \in 1..MaxVersions /\ version' >= version
      /\ carriers' \subseteq Positions
  <2>1. /\ UNCHANGED uaBounds
        /\ \/ version < MaxVersions /\ version' = version + 1 /\ carriers' \in SUBSET Positions
           \/ UNCHANGED <<version, carriers>>
    BY Zenon DEF ReviseList, ComeToRest, AskList, DropOldList, Conclude, uaVars
  <2> QED
    BY <2>1 DEF UaInductive, UaTypes
<1>4. \/ query' = query
      \/ query.op = "OldList" /\ query' = NoQuery
      \/ /\ query = NoQuery /\ query' = [NoQuery EXCEPT !.op = "List"]
         /\ listVersion # version /\ version' = version
  BY Zenon DEF ReviseList, ComeToRest, AskList, DropOldList, Conclude, uaVars
<1>5. query' \in [op : {"None", "List", "OldList", "Component"}, index : 0..NumComponents,
                  token : 0..MaxScans] /\ OneAtATime'
  BY <1>1, <1>4 DEF NoQuery, UaInductive, UaTypes, OneAtATime, MaxScans, Answered
<1>6. ScansAreBounded'
  BY <1>1, <1>3, <1>4 DEF NoQuery, UaInductive, UaTypes, ScansAreBounded
<1>7. choice' \in [status : Statuses, component : 0..NumComponents]
  <2>1. CASE Conclude
    <3>1. choice' = Selection(identity) \/ choice' = Found("Incomplete")
      BY <2>1 DEF Conclude
    <3> QED
      BY <3>1, SelectionType DEF Found, Statuses, UaInductive, UaTypes
  <2>2. CASE ReviseList \/ ComeToRest \/ AskList \/ DropOldList \/ UNCHANGED uaVars
    BY <2>2 DEF ReviseList, ComeToRest, AskList, DropOldList, uaVars, progress, UaInductive, UaTypes
  <2> QED
    BY <2>1, <2>2
<1>8. /\ listReady' \in BOOLEAN /\ valid' \in BOOLEAN /\ dirty' \in BOOLEAN
      /\ guidePresent' \in BOOLEAN /\ rescanArmed' \in BOOLEAN
      /\ firstPlays' \in BOOLEAN /\ resting' \in BOOLEAN
  BY Zenon DEF ReviseList, ComeToRest, AskList, DropOldList, Conclude, uaVars, inventory, progress,
               UaInductive, UaTypes
<1>9. UaTypes'
  BY <1>1, <1>3, <1>5, <1>7, <1>8 DEF UaInductive, UaTypes
<1> QED
  BY <1>2, <1>5, <1>6, <1>9 DEF UaInductive

LEMMA UaStep ==
  ASSUME UaInductive, [UaNext]_uaVars
  PROVE  UaInductive'
  BY RestartsKeep, AskKeeps, AnswerKeeps, OthersKeep DEF UaNext

\* A list that is not the one read yet makes no promise; the one that is read begins a scan.
LEMMA TruthStep ==
  ASSUME UaInductive, AnswersTrue, [UaNext]_uaVars
  PROVE  AnswersTrue'
<1> USE DEF AnswersTrue
<1>1. CASE LeaveEnsemble \/ SelectService \/ ListFails \/ Rescan \/ ParseList
  BY <1>1, RestartsKeep
<1>2. CASE ReviseList
  BY <1>2 DEF ReviseList, inventory, UaInductive, UaTypes, ScansAreBounded
<1>3. CASE ComponentAnswers
  <2> DEFINE id == IF query.index \in carriers THEN "Spi" ELSE "NotSpi"
  <2>1. Record(id, TRUE) /\ query.op = "Component" /\ query' = NoQuery
        /\ UNCHANGED <<version, carriers, inventory>>
    BY <1>3, Zenon DEF ComponentAnswers
  <2>2. id \in Identities \ {"Unqueried"}
    BY DEF Identities
  <2>3. \A i \in Positions : identity'[i] = identity[i] \/ (i = query.index /\ identity'[i] = id)
    <3> HIDE DEF id
    <3> QED
      BY <2>1, <2>2, RecordFollows
  <2> QED
    BY <2>1, <2>3 DEF inventory
<1>4. CASE ComponentFails
  <2>1. Record("Failed", FALSE) /\ query.op = "Component" /\ query' = NoQuery
        /\ UNCHANGED <<version, carriers, inventory>>
    BY <1>4, Zenon DEF ComponentFails
  <2>2. "Failed" \in Identities \ {"Unqueried"}
    BY DEF Identities
  <2>3. \A i \in Positions : identity'[i] = identity[i] \/ (i = query.index /\ identity'[i] = "Failed")
    BY <2>1, <2>2, RecordFollows
  <2> QED
    BY <2>1, <2>3 DEF inventory
<1>5. CASE ComponentNotSent
  BY <1>5 DEF ComponentNotSent, inventory, UaInductive, UaTypes
<1>6. CASE AskComponent \/ ComeToRest \/ AskList \/ DropOldList \/ Conclude \/ UNCHANGED uaVars
  BY <1>6 DEF AskComponent, ComeToRest, AskList, DropOldList, Conclude, uaVars, inventory, progress
<1> QED
  BY <1>1, <1>2, <1>3, <1>4, <1>5, <1>6 DEF UaNext

LEMMA SelectedStep ==
  ASSUME UaInductive, AnswersTrue, SelectedIsTheOnlyOne, [UaNext]_uaVars
  PROVE  SelectedIsTheOnlyOne'
<1> USE DEF SelectedIsTheOnlyOne
<1>1. CASE LeaveEnsemble \/ SelectService \/ ListFails \/ Rescan \/ ParseList
  BY <1>1, RestartsKeep
<1>2. CASE ReviseList
  BY <1>2 DEF ReviseList, inventory, UaInductive, UaTypes, ScansAreBounded
<1>3. CASE Conclude
  <2>1. UNCHANGED <<version, carriers, valid, listVersion, firstPlays>>
    BY <1>3 DEF Conclude, inventory
  <2>2. CASE valid /\ Selection(identity).status = "Selected" /\ listVersion = version
    <3>1. choice' = Selection(identity)
      BY <1>3, <2>2 DEF Conclude
    <3>2. /\ \A i \in Positions : identity[i] \in {"Spi", "NotSpi"}
          /\ {i \in Positions : identity[i] = "Spi"} = carriers
      BY <2>2, SelectionType DEF AnswersTrue, UaInductive, UaTypes, Identities
    <3> QED
      BY <2>1, <2>2, <3>1, <3>2, SelectionType DEF UaInductive, UaTypes
  <2>3. CASE ~(valid /\ Selection(identity).status = "Selected" /\ listVersion = version)
    BY <1>3, <2>1, <2>3 DEF Conclude, Found
  <2> QED
    BY <2>2, <2>3
<1>4. CASE ComponentAnswers \/ ComponentFails
  <2>1. choice' = choice /\ UNCHANGED <<version, carriers, inventory, firstPlays>>
    <3>1. Record("Failed", FALSE) \/ Record(IF query.index \in carriers THEN "Spi" ELSE "NotSpi", TRUE)
      BY <1>4, Zenon DEF ComponentAnswers, ComponentFails
    <3>2. UNCHANGED choice
      BY <3>1 DEF Record, progress
    <3> QED
      BY <1>4, <3>2, Zenon DEF ComponentAnswers, ComponentFails
  <2> QED
    BY <2>1 DEF inventory
<1>5. CASE AskComponent \/ ComponentNotSent \/ ComeToRest \/ AskList \/ DropOldList \/ UNCHANGED uaVars
  <2>1. UNCHANGED <<version, carriers, valid, listVersion, choice, firstPlays>>
    BY <1>5, Zenon DEF AskComponent, ComponentNotSent, ComeToRest, AskList, DropOldList, uaVars,
                       inventory, progress
  <2> QED
    BY <2>1
<1> QED
  BY <1>1, <1>2, <1>3, <1>4, <1>5 DEF UaNext

\* The state of the discovery has its types, and the counters of a scan agree with the answers
\* that are held (Scan::issue, commit and begin), whatever restarts it at whatever moment.
THEOREM UaTypeCorrect == UaSpec => []UaTypeOK
<1>1. UaInit => UaInductive
  BY UaInitial
<1>2. UaInductive /\ [UaNext]_uaVars => UaInductive'
  BY UaStep
<1>3. UaInductive => UaTypeOK
  BY CountersFollow DEF UaInductive, UaTypeOK
<1> QED
  BY <1>1, <1>2, <1>3, PTL DEF UaSpec

\* The component that refreshDabSpiDiscovery selects is the only one that carries the guide.
THEOREM SelectionIsTrue == UaSpec => []SelectedIsTheOnlyOne
<1> DEFINE Inv == UaInductive /\ AnswersTrue /\ SelectedIsTheOnlyOne
<1>1. UaInit => Inv
  BY UaInitial DEF UaInit, SelectedIsTheOnlyOne, Undecided
<1>2. Inv /\ [UaNext]_uaVars => Inv'
  BY UaStep, TruthStep, SelectedStep
<1> QED
  BY <1>1, <1>2, PTL DEF UaSpec

-----------------------------------------------------------------------------
(* MetadataQueue: the position of the service types.                       *)

\* The answer that is awaited is about the position that is next.
TypeInTurn == asking = "Type" /\ ~superseded => askedIndex = typeIndex /\ typeIndex < numServices

QueueInductive == QueueTypeOK /\ TypeInTurn

LEMMA DueStep ==
  ASSUME QueueTypeOK, [QueueNext]_queueVars
  PROVE  due' \subseteq Kinds \ {"Type"} /\ round' \subseteq Periodic
<1> USE DEF QueueTypeOK
<1>1. CASE ComesDue
  <2>1. PICK kind \in Periodic : /\ due' = due \cup {kind}
                                 /\ round' = {kind} \/ round' = round \cup {kind}
    BY <1>1, Zenon DEF ComesDue
  <2> QED
    BY <2>1 DEF Periodic
<1>2. CASE Ask
  <2>1. UNCHANGED round /\ \E kind \in Kinds : due' = due \ {kind}
    BY <1>2, Zenon DEF Ask
  <2> QED
    BY <2>1
<1>3. CASE Reconfigure \/ SeeEventBit \/ ChangeLock \/ ServiceStarts \/ ServiceStops
           \/ ChangeFrequency \/ AudioDelayOver \/ AskInVain \/ ReportEvent \/ Failure
           \/ UNCHANGED queueVars
  <2>1. UNCHANGED round
    BY <1>3, Zenon DEF Reconfigure, SeeEventBit, ChangeLock, ServiceStarts, ServiceStops,
         ChangeFrequency, AudioDelayOver, AskInVain, ReportEvent, Failure, queueVars
  <2>2. \/ due' = {} \/ due' = due \/ due' = due \ {"Component"}
        \/ "Event" \in Kinds /\ due' = due \cup {"Event"}
        \/ due' = due \cup (Kinds \cap {"List", "Ensemble", "Time"})
        \/ due' = due \cup (Kinds \cap {"Audio", "Service", "Subchannel"})
    BY <1>3, Zenon DEF Reconfigure, SeeEventBit, ChangeLock, ServiceStarts, ServiceStops,
         ChangeFrequency, AudioDelayOver, AskInVain, ReportEvent, Failure, queueVars
  <2> QED
    BY <2>1, <2>2
<1>4. CASE Answer
  <2>1. UNCHANGED round
    BY <1>4, Zenon DEF Answer, StaleAnswer, EventAnswer, ListAnswer, TypeAnswer, AudioAnswer,
         OtherAnswer, AudioNotAvailable
  <2>2. \/ due' = due \/ due' = due \ {"Event"}
        \/ due' = (due \ {"Event"}) \cup (Kinds \cap {"List", "Ensemble"})
        \/ due' = due \cup (Kinds \cap {"Ensemble", "Component"})
        \/ "Audio" \in Kinds /\ due' = due \cup {"Audio"}
    BY <1>4 DEF Answer, StaleAnswer, EventAnswer, ListAnswer, TypeAnswer, AudioAnswer,
         OtherAnswer, AudioNotAvailable, Current
  <2> QED
    BY <2>1, <2>2
<1> QED
  BY <1>1, <1>2, <1>3, <1>4 DEF QueueNext

\* The flags.
LEMMA FlagStep ==
  ASSUME QueueTypeOK, [QueueNext]_queueVars
  PROVE  /\ locked' \in BOOLEAN /\ playing' \in BOOLEAN /\ audioWaits' \in BOOLEAN
         /\ superseded' \in BOOLEAN /\ eventBit' \in BOOLEAN /\ reported' \in BOOLEAN
         /\ asking' \in Kinds \cup {"None"} /\ unlisted' \in {"No", "Asked", "Yes"}
<1> USE DEF QueueTypeOK, audioInfo, question
<1>1. CASE Answer
  <2>1. /\ UNCHANGED <<locked, playing, eventBit>> /\ AnswerTaken
        /\ audioWaits' \in BOOLEAN /\ unlisted' \in {unlisted, "No"}
    BY <1>1, Zenon DEF Answer, StaleAnswer, EventAnswer, ListAnswer, TypeAnswer, AudioAnswer,
         OtherAnswer, AudioNotAvailable
  <2> QED
    BY <2>1, Zenon DEF AnswerTaken
<1>2. CASE Failure
  <2>1. UNCHANGED <<locked, playing, eventBit, audioWaits>> /\ AnswerTaken
        /\ unlisted' \in {unlisted, "Yes"}
    BY <1>2, Zenon DEF Failure
  <2> QED
    BY <2>1, Zenon DEF AnswerTaken
<1>3. CASE Reconfigure \/ SeeEventBit \/ ChangeLock \/ ServiceStarts \/ ServiceStops
           \/ ChangeFrequency \/ ComesDue \/ AudioDelayOver \/ AskInVain \/ ReportEvent
           \/ UNCHANGED queueVars
  BY <1>3, Zenon DEF Reconfigure, SeeEventBit, ChangeLock, ServiceStarts, ServiceStops,
         ChangeFrequency, ComesDue, AudioDelayOver, AskInVain, ReportEvent, queueVars
<1>4. CASE Ask
  BY <1>4, Zenon DEF Ask
<1> QED
  BY <1>1, <1>2, <1>3, <1>4 DEF QueueNext

\* The counters and the position.
LEMMA CounterStep ==
  ASSUME QueueInductive, [QueueNext]_queueVars
  PROVE  /\ numServices' \in 0..MaxServices /\ typeIndex' \in 0..numServices'
         /\ audioRetries' \in 0..FastRetries /\ askedIndex' \in 0..MaxServices
         /\ queueBounds' \in [failures : 0..MaxFailures, events : 0..MaxEvents]
         /\ TypeInTurn'
<1> USE QueueAssumption DEF QueueAssumption, QueueInductive, QueueTypeOK, TypeInTurn
<1>0. /\ 0 \in 0..MaxServices /\ 0 \in 0..FastRetries
      /\ Occurs => queueBounds' \in [failures : 0..MaxFailures, events : 0..MaxEvents]
      /\ Fails => queueBounds' \in [failures : 0..MaxFailures, events : 0..MaxEvents]
  BY DEF Occurs, Fails
<1>1. CASE Reconfigure \/ ChangeLock \/ ServiceStops
  <2>1. UNCHANGED <<numServices, typeIndex, audioRetries, asking, askedIndex, superseded>> /\ Occurs
    BY <1>1, Zenon DEF Reconfigure, ChangeLock, ServiceStops, audioInfo, question
  <2> QED
    BY <1>0, <2>1
<1>2. CASE ServiceStarts
  <2>1. UNCHANGED <<numServices, typeIndex, asking, askedIndex, superseded>> /\ Occurs /\ audioRetries' = 0
    BY <1>2, Zenon DEF ServiceStarts, question
  <2> QED
    BY <1>0, <2>1
<1>3. CASE ChangeFrequency
  <2>1. /\ UNCHANGED <<audioRetries, asking, askedIndex>> /\ Occurs /\ superseded' = (asking # "None")
        /\ numServices' = 0 /\ typeIndex' = 0
    BY <1>3, Zenon DEF ChangeFrequency, audioInfo
  <2>2. asking = "Type" => asking # "None"
    OBVIOUS
  <2>3. TypeInTurn'
    BY <2>1, <2>2, Zenon
  <2> QED
    BY <1>0, <2>1, <2>3
<1>4. CASE SeeEventBit \/ ComesDue \/ AudioDelayOver \/ ReportEvent \/ UNCHANGED queueVars
  <2>1. UNCHANGED <<numServices, typeIndex, audioRetries, asking, askedIndex, superseded, queueBounds>>
    BY <1>4, Zenon DEF SeeEventBit, ComesDue, AudioDelayOver, ReportEvent, queueVars, audioInfo,
                       question
  <2> QED
    BY <2>1
<1>5. CASE AskInVain
  <2>1. UNCHANGED <<numServices, typeIndex, audioRetries, asking, askedIndex, superseded>> /\ Fails
    BY <1>5, Zenon DEF AskInVain, audioInfo, question
  <2> QED
    BY <1>0, <2>1
<1>6. CASE Ask
  <2>1. PICK kind \in Kinds : /\ Chosen(kind) /\ asking' = kind
                              /\ askedIndex' = IF kind = "Type" THEN typeIndex ELSE askedIndex
    BY <1>6, Zenon DEF Ask
  <2>2. UNCHANGED <<numServices, typeIndex, audioRetries, superseded, queueBounds>>
    BY <1>6, Zenon DEF Ask, audioInfo
  <2>3. kind = "Type" => typeIndex < numServices
    BY <2>1, Zenon DEF Chosen, Wanted
  <2> QED
    BY <2>1, <2>2, <2>3
<1>7. CASE Failure
  <2>1. UNCHANGED <<numServices, typeIndex, audioRetries>> /\ AnswerTaken /\ Fails
    BY <1>7, Zenon DEF Failure, audioInfo
  <2> QED
    BY <1>0, <2>1 DEF AnswerTaken
<1>8. CASE ListAnswer
  <2>1. /\ UNCHANGED <<audioRetries, queueBounds>> /\ AnswerTaken
        /\ numServices' \in 0..MaxServices /\ typeIndex' = 0
    BY <1>8, Zenon DEF ListAnswer, audioInfo
  <2> QED
    BY <2>1 DEF AnswerTaken
<1>9. CASE TypeAnswer
  <2>1. /\ UNCHANGED <<numServices, audioRetries, queueBounds>> /\ AnswerTaken
        /\ asking = "Type" /\ ~superseded
        /\ typeIndex' \in {typeIndex, typeIndex + 1}
    BY <1>9 DEF TypeAnswer, audioInfo, Current
  <2> QED
    BY <2>1 DEF AnswerTaken
<1>10. CASE StaleAnswer \/ EventAnswer \/ OtherAnswer \/ AudioAnswer \/ AudioNotAvailable
  <2>1. UNCHANGED <<numServices, typeIndex, queueBounds>> /\ AnswerTaken
    BY <1>10, Zenon DEF StaleAnswer, EventAnswer, OtherAnswer, AudioAnswer, AudioNotAvailable
  <2>2. \/ UNCHANGED audioRetries \/ audioRetries' = 0
        \/ audioRetries < FastRetries /\ audioRetries' = audioRetries + 1
    BY <1>10, Zenon DEF StaleAnswer, EventAnswer, OtherAnswer, AudioAnswer, AudioNotAvailable, audioInfo
  <2> QED
    BY <1>0, <2>1, <2>2 DEF AnswerTaken
<1> QED
  BY <1>1, <1>2, <1>3, <1>4, <1>5, <1>6, <1>7, <1>8, <1>9, <1>10 DEF QueueNext, Answer

LEMMA QueueInitial == QueueInit => QueueInductive
<1> SUFFICES ASSUME QueueInit PROVE QueueInductive
  OBVIOUS
<1>1. /\ 0 \in 0..MaxServices /\ 0 \in 0..0 /\ 0 \in 0..FastRetries
      /\ queueBounds \in [failures : 0..MaxFailures, events : 0..MaxEvents]
  BY QueueAssumption DEF QueueAssumption, QueueInit
<1> QED
  BY <1>1 DEF QueueInit, QueueInductive, QueueTypeOK, TypeInTurn

LEMMA QueueStep == QueueInductive /\ [QueueNext]_queueVars => QueueInductive'
BY DueStep, FlagStep, CounterStep DEF QueueInductive, QueueTypeOK

\* The queue keeps its types; in particular the scan of the service types stays within the list
\* it began with, although lists and frequencies change while an answer is on its way.
THEOREM QueueTypeCorrect == QueueSpec => []QueueTypeOK
<1>1. QueueInductive => QueueTypeOK
  BY DEF QueueInductive
<1> QED
  BY <1>1, QueueInitial, QueueStep, PTL DEF QueueSpec

-----------------------------------------------------------------------------
(* SlideCollector: decoding begins with the mark that asks for drawing,    *)
(* and while the mark is there the collector drains every packet.          *)

\* The image that is decoded is still marked, so that ImageHeld closes the collector.
MarkedWhileDecoded ==
  view = "Decoding" => offer.available /\ offer.update /\ Image = shown

\* No packet is taken notice of while an image is held.
LEMMA DrainedWhileHeld ==
  ASSUME ReceivePacket
  PROVE  ~offer.update
<1>1. ASSUME NEW t, NEW s, ReceiveSegment(t, s) PROVE ~offer.update
  BY <1>1 DEF ReceiveSegment, OpenTo, ImageHeld
<1>2. ASSUME NEW t, NEW length, Header(t, length) PROVE ~offer.update
  BY <1>2 DEF Header, OpenTo, ImageHeld
<1> QED
  BY <1>1, <1>2 DEF ReceivePacket, ReceiveHeader, ReceiveDamagedHeader

\* Reception leaves the user interface where it is.
LEMMA ViewDuringReception ==
  ASSUME ReceivePacket
  PROVE  view' = view
<1>1. ASSUME NEW t, NEW s, ReceiveSegment(t, s) PROVE view' = view
  BY <1>1 DEF ReceiveSegment, user
<1>2. ASSUME NEW t, NEW length, Header(t, length) PROVE view' = view
  BY <1>2 DEF Header, user
<1> QED
  BY <1>1, <1>2 DEF ReceivePacket, ReceiveHeader, ReceiveDamagedHeader

LEMMA MarkStep ==
  ASSUME MarkedWhileDecoded, [SlideNext]_slideVars
  PROVE  MarkedWhileDecoded'
<1> USE DEF MarkedWhileDecoded
<1>1. CASE ReceivePacket
  BY <1>1, DrainedWhileHeld, ViewDuringReception
<1>2. CASE StartDecoding
  BY <1>2 DEF StartDecoding, Image
<1>3. CASE CollectionTimesOut \/ ServiceConfirmed \/ CarouselSettles \/ UNCHANGED slideVars
  BY <1>3 DEF CollectionTimesOut, ServiceConfirmed, CarouselSettles, Image, user, slideVars
<1>4. CASE ChangeService \/ CacheImage \/ OpenView \/ CloseView \/ EndDecoding
  <2>1. view' # "Decoding"
    BY <1>4 DEF ChangeService, CacheImage, OpenView, CloseView, EndDecoding, user
  <2> QED
    BY <2>1
<1> QED
  BY <1>1, <1>2, <1>3, <1>4 DEF SlideNext

\* The image does not change under the decoder, although decoding pumps the driver and packets
\* are received meanwhile.
THEOREM ImageUndisturbed == SlideSpec => []HeldWhileDecoded
<1>1. SlideInit => MarkedWhileDecoded
  BY DEF SlideInit, MarkedWhileDecoded
<1>2. MarkedWhileDecoded /\ [SlideNext]_slideVars => MarkedWhileDecoded'
  BY MarkStep
<1>3. MarkedWhileDecoded => HeldWhileDecoded
  BY DEF MarkedWhileDecoded, HeldWhileDecoded
<1> QED
  BY <1>1, <1>2, <1>3, PTL DEF SlideSpec

-----------------------------------------------------------------------------
(* SlideCollector: the segments lie in the buffer in the order of their    *)
(* numbers, whatever order they came in, so that an object is in order     *)
(* when the last of it is there.                                           *)

Pieces == Nat \X Nat \X Nat

\* Where a segment is, or belongs, among those that are held.
Below(have, s) == {x \in have : x < s}
Place(have, s) == Cardinality(Below(have, s)) + 1

\* The segments that are held lie in order, and are of the object and of the service.
Arranged(p, c, bytes) == \A s \in c.have : bytes[Place(c.have, s)] = <<p, c.tid, s>>

Collectors ==
  {c \in [tid : Tids \cup {NoTid}, have : SUBSET Nat, total : Nat, length : 0..BufferSize] :
     /\ c.tid = NoTid => c = NothingCollected
     /\ c.tid # NoTid => c.have \subseteq Segments(c.tid)}

Offers(most) ==
  [ size : 0..most, available : BOOLEAN, update : BOOLEAN, pending : BOOLEAN,
    done : Tids \cup {NoTid} ]

\* The collector keeps its types and works on a buffer that holds what it claims to hold.
CollectorSound ==
  /\ collector \in Collectors
  /\ buffer \in Seq(Pieces) /\ Len(buffer) <= BufferSize
  /\ Cardinality(collector.have) <= Len(buffer)
  /\ offer \in Offers(Len(buffer))
  /\ Arranged(programme, collector, buffer)
  /\ collector.have # {} => ~offer.available

\* What reception does not touch.
AroundSound ==
  /\ programme \in 1..(MaxSwitches + 1) /\ context \in BOOLEAN
  /\ settled \in Tids \cup {NoTid}
  /\ view \in {"Main", "View", "Decoding"}
  /\ slideBounds \in [damaged : 0..MaxDamaged, uses : 0..MaxUses]

SlideInductive == CollectorSound /\ AroundSound /\ OfferedIsWhole

\* What is held is a finite set of numbers.
LEMMA HeldIsFinite ==
  ASSUME NEW c \in Collectors
  PROVE  IsFiniteSet(c.have) /\ c.have \subseteq Nat /\ Cardinality(c.have) \in Nat
<1>1. CASE c.tid = NoTid
  <2>1. c.have = {}
    BY <1>1 DEF Collectors, NothingCollected
  <2> QED
    BY <2>1, FS_EmptySet
<1>2. CASE c.tid # NoTid
  <2>1. Size[c.tid] \in Nat /\ c.have \subseteq 0..(Size[c.tid] - 1)
    BY <1>2, SlideAssumption DEF SlideAssumption, Collectors, Segments
  <2>2. IsFiniteSet(0..(Size[c.tid] - 1))
    BY <2>1, FS_Interval
  <2>3. IsFiniteSet(c.have)
    BY <2>1, <2>2, FS_Subset
  <2> QED
    BY <2>1, <2>3, FS_CardinalityType
<1> QED
  BY <1>1, <1>2

\* A set of numbers has a least element.
LEMMA LeastElement ==
  ASSUME NEW S, S \subseteq Nat, S # {}
  PROVE  \E x \in S : \A y \in S : x <= y
<1>1. \E x \in S : \A y \in S : ~(<<y, x>> \in OpToRel(<, Nat))
  BY NatLessThanWellFounded, WFMin
<1>2. \A x, y \in Nat : y < x => <<y, x>> \in OpToRel(<, Nat)
  BY DEF OpToRel
<1>3. \E x \in S : \A y \in S : ~(y < x)
  BY <1>1, <1>2, Zenon
<1> QED
  BY <1>3

\* The highest segment that is held is held.
LEMMA HighestIsHeld ==
  ASSUME NEW c \in Collectors, c.have # {}
  PROVE  Highest(c) \in c.have /\ \A s \in c.have : s <= Highest(c)
<1>1. c.have \subseteq 0..(Size[c.tid] - 1) /\ Size[c.tid] \in Nat \ {0}
  <2>1. c.tid # NoTid
    BY DEF Collectors, NothingCollected
  <2> QED
    BY <2>1, SlideAssumption DEF SlideAssumption, Collectors, Segments
<1> DEFINE Bounds == {n \in Nat : \A s \in c.have : s <= n}
<1>2. Size[c.tid] \in Bounds
  BY <1>1
<1>3. PICK n \in Bounds : \A m \in Bounds : n <= m
  BY <1>2, LeastElement
<1>4. n \in c.have
  <2> SUFFICES ASSUME n \notin c.have PROVE FALSE
    OBVIOUS
  <2>1. \A s \in c.have : s \in Nat /\ s < n
    BY <1>1, <1>3
  <2>2. n - 1 \in Bounds
    BY <2>1, <1>3
  <2> QED
    BY <2>2, <1>3
<1>5. \E x \in c.have : \A y \in c.have : x >= y
  BY <1>1, <1>3, <1>4
<1>6. Highest(c) = CHOOSE x \in c.have : \A y \in c.have : x >= y
  BY DEF Highest, Max
<1>7. Highest(c) \in c.have /\ \A y \in c.have : Highest(c) >= y
  BY <1>5, <1>6, Zenon
<1> QED
  BY <1>1, <1>7

\* Segments below a segment: a smaller one has fewer of them.
LEMMA PlaceBounds ==
  ASSUME NEW H, IsFiniteSet(H), H \subseteq Nat, NEW s \in Nat
  PROVE  /\ Place(H, s) \in Nat \ {0} /\ Place(H, s) <= Cardinality(H) + 1
         /\ \A x \in H : x < s => Place(H, x) < Place(H, s)
         /\ \A x \in H : x >= s => Place(H, x) >= Place(H, s) /\ Place(H, x) <= Cardinality(H)
<1>1. ASSUME NEW x \in Nat
      PROVE  /\ IsFiniteSet(Below(H, x)) /\ Cardinality(Below(H, x)) \in Nat
             /\ Cardinality(Below(H, x)) <= Cardinality(H)
  <2>1. Below(H, x) \subseteq H
    BY DEF Below
  <2> QED
    BY <2>1, FS_Subset, FS_CardinalityType
<1>2. Cardinality(H) \in Nat
  BY FS_CardinalityType
<1>3. ASSUME NEW x \in H PROVE Place(H, x) <= Cardinality(H)
  <2>1. Below(H, x) \subseteq H /\ x \notin Below(H, x) /\ Below(H, x) \cup {x} \subseteq H
    BY DEF Below
  <2>2. Cardinality(Below(H, x) \cup {x}) = Cardinality(Below(H, x)) + 1
    BY <1>1, <2>1, FS_AddElement
  <2>3. Cardinality(Below(H, x) \cup {x}) <= Cardinality(H)
    BY <2>1, FS_Subset
  <2> QED
    BY <2>2, <2>3 DEF Place
<1>4. ASSUME NEW x \in H, x < s PROVE Place(H, x) < Place(H, s)
  <2>0. \A y \in H : y \in Nat /\ (y < x => y < s)
    BY <1>4
  <2>a. x \in Nat /\ x \notin Below(H, x) /\ x \in Below(H, s)
    BY <1>4 DEF Below
  <2>b. Below(H, x) \subseteq Below(H, s)
    BY <2>0 DEF Below
  <2>1. x \notin Below(H, x) /\ Below(H, x) \cup {x} \subseteq Below(H, s)
    BY <2>a, <2>b
  <2>2. Cardinality(Below(H, x) \cup {x}) = Cardinality(Below(H, x)) + 1
    BY <1>1, <2>1, FS_AddElement
  <2>3. Cardinality(Below(H, x) \cup {x}) <= Cardinality(Below(H, s))
    BY <1>1, <2>1, FS_Subset
  <2>4. Cardinality(Below(H, x)) \in Nat /\ Cardinality(Below(H, s)) \in Nat
    BY <1>1
  <2> QED
    BY <2>2, <2>3, <2>4 DEF Place
<1>5. ASSUME NEW x \in H, x >= s PROVE Place(H, x) >= Place(H, s)
  <2>0. \A y \in H : y \in Nat /\ (y < s => y < x)
    BY <1>5
  <2>1. Below(H, s) \subseteq Below(H, x)
    BY <1>5, <2>0 DEF Below
  <2>2. Cardinality(Below(H, s)) <= Cardinality(Below(H, x))
    BY <1>1, <2>1, FS_Subset
  <2>3. Cardinality(Below(H, x)) \in Nat /\ Cardinality(Below(H, s)) \in Nat
    BY <1>1
  <2> QED
    BY <2>2, <2>3 DEF Place
<1> QED
  BY <1>1, <1>2, <1>3, <1>4, <1>5 DEF Place

\* A new segment moves those above it up by one.
LEMMA PlaceAfter ==
  ASSUME NEW H, IsFiniteSet(H), H \subseteq Nat, NEW s \in Nat, s \notin H
  PROVE  /\ Place(H \cup {s}, s) = Place(H, s)
         /\ \A x \in H : Place(H \cup {s}, x) = IF x < s THEN Place(H, x) ELSE Place(H, x) + 1
<1>1. Below(H \cup {s}, s) = Below(H, s)
  BY DEF Below
<1>2. ASSUME NEW x \in H, x < s PROVE Below(H \cup {s}, x) = Below(H, x)
  BY <1>2 DEF Below
<1>3. ASSUME NEW x \in H, ~(x < s)
      PROVE  Cardinality(Below(H \cup {s}, x)) = Cardinality(Below(H, x)) + 1
  <2>1. Below(H \cup {s}, x) = Below(H, x) \cup {s} /\ s \notin Below(H, x)
    BY <1>3 DEF Below
  <2>2. IsFiniteSet(Below(H, x))
    BY FS_Subset DEF Below
  <2> QED
    BY <2>1, <2>2, FS_AddElement
<1> QED
  BY <1>1, <1>2, <1>3 DEF Place

\* A piece was put behind the first "below" of "count" pieces; those above it moved up.
SlidIn(next, bytes, count, below, piece) ==
  /\ next \in Seq(Pieces)
  /\ Len(next) = IF count < Len(bytes) THEN Len(bytes) ELSE count + 1
  /\ next[below + 1] = piece
  /\ \A i \in 1..below : next[i] = bytes[i]
  /\ \A i \in (below + 1)..count : next[i + 1] = bytes[i]

\* What Stored does to the bytes.
LEMMA InsertedBytes ==
  ASSUME NEW bytes \in Seq(Pieces), NEW count \in 0..Len(bytes), NEW below \in 0..count,
         NEW piece \in Pieces,
         NEW next, next = InsertAt(SubSeq(bytes, 1, count), below + 1, piece)
                            \o SubSeq(bytes, count + 2, Len(bytes))
  PROVE  SlidIn(next, bytes, count, below, piece)
<1> DEFINE front == SubSeq(bytes, 1, count)
           low   == SubSeq(front, 1, below)
           high  == SubSeq(front, below + 1, count)
           rest  == SubSeq(bytes, count + 2, Len(bytes))
           first == low \o <<piece>>
           held  == first \o high
           all   == held \o rest
<1>0. Len(bytes) \in Nat /\ count \in Nat /\ below \in Nat /\ \A i \in 1..Len(bytes) : bytes[i] \in Pieces
  BY LenProperties
<1>1. front \in Seq(Pieces) /\ Len(front) = count /\ \A i \in 1..count : front[i] = bytes[i]
  BY <1>0, SubSeqProperties
<1>2. low \in Seq(Pieces) /\ Len(low) = below /\ \A i \in 1..below : low[i] = bytes[i]
  BY <1>0, <1>1, SubSeqProperties
<1>3. /\ high \in Seq(Pieces) /\ Len(high) = count - below
      /\ \A i \in 1..(count - below) : high[i] = bytes[i + below]
  BY <1>0, <1>1, SubSeqProperties
<1>4. /\ rest \in Seq(Pieces)
      /\ Len(rest) = IF count < Len(bytes) THEN Len(bytes) - (count + 1) ELSE 0
  BY <1>0, SubSeqProperties
<1>5. <<piece>> \in Seq(Pieces) /\ Len(<<piece>>) = 1 /\ <<piece>>[1] = piece
  OBVIOUS
<1> HIDE DEF front, low, high, rest
<1>6. /\ first \in Seq(Pieces) /\ Len(first) = below + 1
      /\ \A i \in 1..(below + 1) : first[i] = IF i <= below THEN low[i] ELSE <<piece>>[i - below]
  BY <1>0, <1>2, <1>5, ConcatProperties
<1> HIDE DEF first
<1>7. /\ held \in Seq(Pieces) /\ Len(held) = count + 1
      /\ \A i \in 1..(count + 1) : held[i] = IF i <= below + 1 THEN first[i] ELSE high[i - (below + 1)]
  BY <1>0, <1>3, <1>6, ConcatProperties
<1> HIDE DEF held
<1>8. /\ all \in Seq(Pieces) /\ Len(all) = Len(held) + Len(rest)
      /\ \A i \in 1..(Len(held) + Len(rest)) :
           all[i] = IF i <= Len(held) THEN held[i] ELSE rest[i - Len(held)]
  BY <1>4, <1>7, ConcatProperties
<1> HIDE DEF all
<1>13. /\ Len(all) = IF count < Len(bytes) THEN Len(bytes) ELSE count + 1
      /\ \A i \in 1..(count + 1) : all[i] = held[i]
  <2>1. Len(held) = count + 1 /\ Len(rest) \in Nat
    BY <1>0, <1>4, <1>7
  <2>2. Len(all) = (count + 1) + Len(rest)
    BY <1>8, <2>1
  <2>3. Len(all) = IF count < Len(bytes) THEN Len(bytes) ELSE count + 1
    <3>1. CASE count < Len(bytes)
      BY <1>0, <1>4, <2>2, <3>1
    <3>2. CASE ~(count < Len(bytes))
      BY <1>0, <1>4, <2>2, <3>2
    <3> QED
      BY <3>1, <3>2
  <2>4. ASSUME NEW i \in 1..(count + 1) PROVE all[i] = held[i]
    <3>1. i \in 1..(Len(held) + Len(rest)) /\ i <= Len(held)
      BY <1>0, <2>1
    <3> QED
      BY <1>8, <3>1
  <2> QED
    BY <2>3, <2>4
<1>9. all[below + 1] = piece
  <2>1. below + 1 \in 1..(count + 1) /\ below + 1 \in 1..(below + 1) /\ (below + 1) - below = 1
        /\ ~(below + 1 <= below)
    BY <1>0
  <2>2. all[below + 1] = first[below + 1]
    BY <1>7, <1>13, <2>1
  <2> QED
    BY <1>5, <1>6, <2>1, <2>2
<1>10. ASSUME NEW i \in 1..below PROVE all[i] = bytes[i]
  <2>1. i \in Nat /\ i \in 1..(count + 1) /\ i \in 1..(below + 1) /\ i <= below /\ i <= below + 1
    BY <1>0
  <2>2. all[i] = held[i] /\ held[i] = first[i] /\ first[i] = low[i]
    BY <1>6, <1>7, <1>13, <2>1
  <2> QED
    BY <1>2, <2>2
<1>11. ASSUME NEW i \in (below + 1)..count PROVE all[i + 1] = bytes[i]
  <2>1. /\ i \in Nat /\ i + 1 \in 1..(count + 1) /\ ~(i + 1 <= below + 1)
        /\ (i + 1) - (below + 1) = i - below /\ i - below \in 1..(count - below)
        /\ (i - below) + below = i
    BY <1>0
  <2>2. all[i + 1] = held[i + 1] /\ held[i + 1] = high[i - below]
    BY <1>7, <1>13, <2>1
  <2>3. high[i - below] = bytes[(i - below) + below]
    BY <1>3, <2>1
  <2> QED
    BY <2>1, <2>2, <2>3
<1>12. next = all
  <2>1. next = InsertAt(front, below + 1, piece) \o rest
    BY DEF front, rest
  <2>2. InsertAt(front, below + 1, piece)
          = SubSeq(front, 1, (below + 1) - 1) \o <<piece>> \o SubSeq(front, below + 1, Len(front))
    BY Zenon DEF InsertAt
  <2>3. (below + 1) - 1 = below /\ Len(front) = count
    BY <1>0, <1>1
  <2> QED
    BY <2>1, <2>2, <2>3, Zenon DEF all, held, first, low, high
<1> QED
  BY <1>8, <1>13, <1>9, <1>10, <1>11, <1>12 DEF SlidIn

\* Storing a segment keeps the order.
LEMMA StoredIsArranged ==
  ASSUME NEW c \in Collectors, buffer \in Seq(Pieces), Cardinality(c.have) <= Len(buffer),
         NEW p \in Nat, Arranged(p, c, buffer), c.tid # NoTid, c.tid \in Nat,
         NEW s \in Nat, s \notin c.have,
         NEW next, next.tid = c.tid, next.have = c.have \cup {s}
  PROVE  LET bytes == Stored(c, <<p, c.tid, s>>)
         IN /\ bytes \in Seq(Pieces)
            /\ Len(bytes) = IF Cardinality(c.have) < Len(buffer) THEN Len(buffer)
                            ELSE Cardinality(c.have) + 1
            /\ Arranged(p, next, bytes)
<1> DEFINE piece == <<p, c.tid, s>>
           count == Cardinality(c.have)
           below == Cardinality(Below(c.have, s))
           bytes == Stored(c, piece)
<1>1. IsFiniteSet(c.have) /\ c.have \subseteq Nat /\ count \in Nat
  BY HeldIsFinite
<1>2. piece \in Pieces /\ piece[3] = s /\ Len(buffer) \in Nat
  BY LenProperties DEF Pieces
<1>3. Place(c.have, s) = below + 1 /\ Place(c.have, s) \in Nat \ {0}
      /\ Place(c.have, s) <= count + 1
  BY <1>1, PlaceBounds DEF Place
<1>4. count \in 0..Len(buffer)
  BY <1>1, <1>2
<1>5. below \in Nat
  BY <1>1, FS_Subset, FS_CardinalityType DEF Below
<1>6. below \in 0..count
  BY <1>1, <1>3, <1>5
<1>7. bytes = InsertAt(SubSeq(buffer, 1, count), below + 1, piece)
                \o SubSeq(buffer, count + 2, Len(buffer))
  BY <1>2, Zenon DEF Stored, Below
<1> HIDE DEF piece, bytes, count, below
<1>8. /\ bytes \in Seq(Pieces)
      /\ Len(bytes) = IF count < Len(buffer) THEN Len(buffer) ELSE count + 1
      /\ bytes[below + 1] = piece
      /\ \A i \in 1..below : bytes[i] = buffer[i]
      /\ \A i \in (below + 1)..count : bytes[i + 1] = buffer[i]
  <2>1. buffer \in Seq(Pieces)
    OBVIOUS
  <2>2. SlidIn(bytes, buffer, count, below, piece)
    BY <1>2, <1>4, <1>6, <1>7, <2>1, InsertedBytes, Zenon
  <2> QED
    BY <2>2 DEF SlidIn
<1>9. ASSUME NEW x \in next.have PROVE bytes[Place(next.have, x)] = <<p, next.tid, x>>
  <2>1. CASE x = s
    <3>1. Place(next.have, x) = below + 1
      BY <1>1, <1>3, <2>1, PlaceAfter
    <3> QED
      BY <1>8, <2>1, <3>1 DEF piece
  <2>2. CASE x # s /\ x < s
    <3>1. x \in c.have /\ x \in Nat
      BY <1>1, <1>9, <2>2
    <3>2. Place(next.have, x) = Place(c.have, x)
      BY <1>1, <2>2, <3>1, PlaceAfter
    <3>3. Place(c.have, x) \in Nat \ {0} /\ Place(c.have, x) < Place(c.have, s)
      BY <1>1, <2>2, <3>1, PlaceBounds
    <3>4. Place(c.have, x) \in 1..below
      BY <1>3, <1>5, <3>3
    <3>5. bytes[Place(next.have, x)] = buffer[Place(c.have, x)]
      BY <1>8, <3>2, <3>4
    <3> QED
      BY <3>1, <3>5 DEF Arranged
  <2>3. CASE x # s /\ ~(x < s)
    <3>1. x \in c.have /\ x \in Nat /\ x >= s
      BY <1>1, <1>9, <2>3
    <3>2. Place(next.have, x) = Place(c.have, x) + 1
      <4>1. Place(c.have \cup {s}, x) = IF x < s THEN Place(c.have, x) ELSE Place(c.have, x) + 1
        BY <1>1, <3>1, PlaceAfter
      <4> QED
        BY <2>3, <4>1
    <3>3. /\ Place(c.have, x) \in Nat \ {0} /\ Place(c.have, x) >= Place(c.have, s)
          /\ Place(c.have, x) <= count
      BY <1>1, <3>1, PlaceBounds DEF count
    <3>4. Place(c.have, x) \in (below + 1)..count
      BY <1>1, <1>3, <1>5, <3>3
    <3>5. bytes[Place(next.have, x)] = buffer[Place(c.have, x)]
      BY <1>8, <3>2, <3>4
    <3> QED
      BY <3>1, <3>5 DEF Arranged
  <2> QED
    BY <2>1, <2>2, <2>3
<1>10. Arranged(p, next, bytes)
  BY <1>9 DEF Arranged
<1> QED
  BY <1>8, <1>10 DEF bytes, piece, count

\* What is offered is the whole object (allSegmentsReceived, assembleSlideshow).
LEMMA AssembledIsWhole ==
  ASSUME NEW o, NEW c \in Collectors, c.have # {}, NEW bytes \in Seq(Pieces), NEW p \in Nat,
         AllReceived(c), Cardinality(c.have) <= Len(bytes), Arranged(p, c, bytes),
         Assembled(o, c, bytes) # o
  PROVE  /\ Assembled(o, c, bytes) = [size |-> Cardinality(c.have), available |-> TRUE,
                                      update |-> TRUE, pending |-> TRUE, done |-> c.tid]
         /\ SubSeq(bytes, 1, Cardinality(c.have)) = Whole(p, c.tid)
<1> DEFINE count == Cardinality(c.have)
           image == SubSeq(bytes, 1, count)
<1>1. IsFiniteSet(c.have) /\ c.have \subseteq Nat /\ count \in Nat /\ Len(bytes) \in Nat
      /\ \A i \in 1..Len(bytes) : bytes[i] \in Pieces
  BY HeldIsFinite, LenProperties
<1>2. c.have \subseteq 0..(Total(c) - 1) /\ LooksWhole(image)
      /\ Assembled(o, c, bytes) = [size |-> count, available |-> TRUE,
                                   update |-> TRUE, pending |-> TRUE, done |-> c.tid]
  BY Zenon DEF Assembled
<1>3. Total(c) \in Nat \ {0}
  BY HighestIsHeld, <1>1 DEF Total, Collectors
<1>4. c.have = 0..(Total(c) - 1)
  BY <1>2 DEF AllReceived
<1>5. count = Total(c)
  BY <1>3, <1>4, FS_Interval
<1>6. ASSUME NEW s \in c.have PROVE Place(c.have, s) = s + 1
  <2>1. s \in Nat /\ Below(c.have, s) = 0..(s - 1)
    BY <1>3, <1>4 DEF Below
  <2>2. Cardinality(0..(s - 1)) = s
    BY <2>1, FS_Interval
  <2> QED
    BY <2>1, <2>2 DEF Place
<1>7. ASSUME NEW i \in 1..count PROVE bytes[i] = <<p, c.tid, i - 1>>
  <2>1. i - 1 \in c.have /\ (i - 1) + 1 = i
    BY <1>3, <1>4, <1>5
  <2>2. Place(c.have, i - 1) = i
    BY <1>6, <2>1
  <2> QED
    BY <2>1, <2>2 DEF Arranged
<1>8. image \in Seq(Pieces) /\ Len(image) = count /\ \A i \in 1..count : image[i] = bytes[i]
  BY <1>1, SubSeqProperties
<1> HIDE DEF image
<1>9. count = Size[c.tid]
  <2>1. image[count][3] = Size[image[count][2]] - 1
    BY <1>2, <1>8, Zenon DEF LooksWhole, Last
  <2>2. image[count] = <<p, c.tid, count - 1>>
    BY <1>3, <1>5, <1>7, <1>8
  <2>3. c.tid \in Tids
    BY DEF Collectors, NothingCollected
  <2>4. image[count][3] = count - 1 /\ image[count][2] = c.tid
    BY <2>2
  <2>5. count - 1 = Size[c.tid] - 1
    BY <2>1, <2>4
  <2>6. Size[c.tid] \in Nat \ {0}
    BY ONLY <2>3, SlideAssumption, Zenon DEF SlideAssumption
  <2> QED
    BY ONLY <1>1, <2>5, <2>6
<1>10. image = Whole(p, c.tid)
  <2>1. image = [i \in 1..count |-> image[i]]
    BY <1>8, LenProperties
  <2> QED
    BY <1>7, <1>8, <1>9, <2>1 DEF Whole
<1> QED
  BY <1>2, <1>10 DEF image

-----------------------------------------------------------------------------
(* Every step of the slideshow keeps the invariant. *)

LEMMA NothingIsSound ==
  /\ NothingCollected \in Collectors /\ NothingCollected.have = {}
  /\ Cardinality(NothingCollected.have) = 0
  /\ \A p, bytes : Arranged(p, NothingCollected, bytes)
<1>1. NothingCollected.have = {} /\ 0 \in 0..BufferSize
  BY SlideAssumption DEF SlideAssumption, NothingCollected
<1>2. NothingCollected \in [tid : Tids \cup {NoTid}, have : SUBSET Nat, total : Nat, length : 0..BufferSize]
  BY <1>1 DEF NothingCollected
<1>3. NothingCollected.tid = NoTid
  BY DEF NothingCollected
<1> QED
  BY <1>1, <1>2, <1>3, FS_EmptySet DEF Collectors, Arranged

\* lockSlideshowTransport
LEMMA LockedIsSound ==
  ASSUME NEW t \in Tids
  PROVE  /\ Locked(t) \in Collectors /\ Locked(t).have = {} /\ Locked(t).tid = t
         /\ Cardinality(Locked(t).have) = 0 /\ Locked(t).length = 0
         /\ \A p, bytes : Arranged(p, Locked(t), bytes)
<1>1. /\ Locked(t) = [tid |-> t, have |-> {}, total |-> 0, length |-> 0]
      /\ 0 \in 0..BufferSize /\ t # NoTid
  BY SlideAssumption DEF SlideAssumption, Locked, NothingCollected, NoTid
<1>2. Locked(t) \in [tid : Tids \cup {NoTid}, have : SUBSET Nat, total : Nat, length : 0..BufferSize]
  BY <1>1
<1>3. Locked(t).have = {} /\ Locked(t).tid = t /\ Locked(t).length = 0
  BY <1>1
<1> QED
  BY <1>1, <1>2, <1>3, FS_EmptySet DEF Collectors, Arranged

\* An offer within the bytes, of one whole object.
WholeOffer(o, p, bytes) ==
  o \in Offers(Len(bytes)) /\ (o.available => SubSeq(bytes, 1, o.size) = Whole(p, o.done))

\* What is offered after an assembly is as sound as what was offered before it.
LEMMA AssemblyIsSound ==
  ASSUME NEW most \in Nat, NEW o \in Offers(most), NEW c \in Collectors, c.have # {},
         NEW bytes \in Seq(Pieces), most <= Len(bytes), NEW p \in Nat,
         AllReceived(c), Cardinality(c.have) <= Len(bytes), Arranged(p, c, bytes), ~o.available
  PROVE  WholeOffer(Assembled(o, c, bytes), p, bytes)
<1> DEFINE a == Assembled(o, c, bytes)
<1>1. Len(bytes) \in Nat /\ Cardinality(c.have) \in Nat
  BY HeldIsFinite, LenProperties
<1>2. CASE a = o
  BY <1>1, <1>2 DEF Offers, WholeOffer
<1>3. CASE a # o
  <2>1. /\ a = [size |-> Cardinality(c.have), available |-> TRUE,
                update |-> TRUE, pending |-> TRUE, done |-> c.tid]
        /\ SubSeq(bytes, 1, Cardinality(c.have)) = Whole(p, c.tid)
    BY <1>3, AssembledIsWhole
  <2>2. Cardinality(c.have) \in 0..Len(bytes) /\ c.tid \in Tids \cup {NoTid}
    BY <1>1 DEF Collectors
  <2> HIDE DEF a
  <2>3. a \in Offers(Len(bytes))
    BY <2>1, <2>2 DEF Offers
  <2>4. a.size = Cardinality(c.have) /\ a.done = c.tid
    BY <2>1
  <2> QED
    BY <2>1, <2>3, <2>4 DEF a, WholeOffer
<1> QED
  BY <1>2, <1>3

\* storeSlideshowSegment and what follows it
LEMMA StoreKeeps ==
  ASSUME SlideInductive, NEW c \in Collectors, c.tid # NoTid,
         NEW s \in Segments(c.tid), s \notin c.have,
         c = collector \/ c.have = {}, Cardinality(c.have) < BufferSize,
         NEW final \in BOOLEAN, StoreSegment(c, <<programme, c.tid, s>>, final),
         programme' = programme
  PROVE  CollectorSound' /\ OfferedIsWhole'
<1> USE SlideAssumption DEF SlideAssumption
<1> DEFINE o        == IF c.have = {} THEN Withdrawn(offer) ELSE offer
           bytes    == Stored(c, <<programme, c.tid, s>>)
           next     == [c EXCEPT !.have = @ \cup {s}, !.total = IF final THEN s + 1 ELSE @]
           complete == /\ AllReceived(next)
                       /\ IF c.length = 0 THEN next.total # 0
                          ELSE Cardinality(next.have) = c.length
<1>1. /\ buffer' = bytes
      /\ offer' = IF complete THEN Assembled(o, next, bytes) ELSE o
      /\ collector' \in {NothingCollected, next}
      /\ complete => collector' = NothingCollected
  <2>1. <<programme, c.tid, s>>[3] = s
    OBVIOUS
  <2> QED
    BY <2>1, Zenon DEF StoreSegment
<1>2. /\ programme \in Nat /\ c.tid \in Tids /\ c.tid \in Nat /\ s \in Nat
      /\ Len(buffer) \in Nat /\ BufferSize \in Nat /\ Len(buffer) <= BufferSize
      /\ buffer \in Seq(Pieces)
  <2>1. c.tid \in Tids /\ Size[c.tid] \in Nat
    BY DEF Collectors
  <2>2. c.tid \in Nat
    BY <2>1
  <2>5. s \in Nat
    <3>1. s \in 0..(Size[c.tid] - 1)
      BY DEF Segments
    <3> QED
      BY <2>1, <3>1
  <2>3. programme \in Nat
    BY DEF SlideInductive, AroundSound
  <2>4. buffer \in Seq(Pieces) /\ Len(buffer) <= BufferSize
    BY DEF SlideInductive, CollectorSound
  <2> QED
    BY <2>1, <2>2, <2>3, <2>4, <2>5, LenProperties
<1>3. Cardinality(c.have) <= Len(buffer) /\ Arranged(programme, c, buffer)
  <2>1. CASE c.have = {}
    BY <1>2, <2>1, FS_EmptySet DEF Arranged
  <2>2. CASE c = collector
    BY <2>2 DEF SlideInductive, CollectorSound
  <2> QED
    BY <2>1, <2>2
<1>4. o \in Offers(Len(buffer)) /\ ~o.available
  <2>1. offer \in Offers(Len(buffer)) /\ (collector.have # {} => ~offer.available)
    BY DEF SlideInductive, CollectorSound
  <2>2. 0 \in 0..Len(buffer)
    BY <1>2
  <2>3. Withdrawn(offer) \in Offers(Len(buffer))
    BY <2>1, <2>2 DEF Withdrawn, Offers
  <2>4. ~Withdrawn(offer).available
    BY <2>1 DEF Withdrawn, Offers
  <2> QED
    BY <2>1, <2>3, <2>4
<1>5. /\ next \in Collectors /\ next.tid = c.tid /\ next.have = c.have \cup {s}
      /\ next.have # {}
  <2>1. (IF final THEN s + 1 ELSE c.total) \in Nat
    BY <1>2 DEF Collectors
  <2>2. c.have \cup {s} \in SUBSET Nat /\ c.have \cup {s} \subseteq Segments(c.tid)
    BY <1>2 DEF Collectors
  <2>3. next = [c EXCEPT !.have = c.have \cup {s}, !.total = IF final THEN s + 1 ELSE c.total]
    OBVIOUS
  <2> HIDE DEF next
  <2> QED
    BY <2>1, <2>2, <2>3 DEF Collectors
<1> HIDE DEF next, bytes, o, complete
<1>6. /\ bytes \in Seq(Pieces)
      /\ Len(bytes) = IF Cardinality(c.have) < Len(buffer) THEN Len(buffer)
                      ELSE Cardinality(c.have) + 1
      /\ Arranged(programme, next, bytes)
  BY <1>2, <1>3, <1>5, StoredIsArranged DEF bytes
<1>7. Cardinality(next.have) = Cardinality(c.have) + 1 /\ Cardinality(c.have) \in Nat
  BY <1>5, HeldIsFinite, FS_AddElement
<1>8. /\ Len(bytes) \in Nat /\ Len(bytes) <= BufferSize /\ Len(buffer) <= Len(bytes)
      /\ Cardinality(next.have) <= Len(bytes)
  BY <1>2, <1>3, <1>6, <1>7
<1>9. /\ collector' \in Collectors /\ Cardinality(collector'.have) <= Len(buffer')
      /\ Arranged(programme', collector', buffer')
  <2>1. CASE collector' = NothingCollected
    BY <1>1, <1>8, <2>1, NothingIsSound
  <2>2. CASE collector' = next
    BY <1>1, <1>5, <1>6, <1>8, <2>2
  <2> QED
    BY <1>1, <2>1, <2>2
<1>10. CASE complete
  <2>1. WholeOffer(Assembled(o, next, bytes), programme, bytes)
    <3>1. AllReceived(next)
      BY <1>10 DEF complete
    <3> QED
      BY <1>2, <1>4, <1>5, <1>6, <1>8, <3>1, AssemblyIsSound, Zenon
  <2>2. collector'.have = {} /\ offer' = Assembled(o, next, bytes)
    BY <1>1, <1>10, NothingIsSound
  <2> QED
    BY <1>1, <1>6, <1>8, <1>9, <2>1, <2>2 DEF CollectorSound, OfferedIsWhole, Image, WholeOffer
<1>11. CASE ~complete
  <2>1. offer' = o /\ o \in Offers(Len(bytes))
    BY <1>1, <1>2, <1>4, <1>8, <1>11 DEF Offers
  <2> QED
    BY <1>1, <1>4, <1>6, <1>8, <1>9, <2>1 DEF CollectorSound, OfferedIsWhole
<1> QED
  BY <1>10, <1>11

LEMMA SegmentKeeps ==
  ASSUME SlideInductive, NEW t \in Tids, NEW s \in Segments(t), ReceiveSegment(t, s)
  PROVE  SlideInductive'
<1> DEFINE final == (s = Size[t] - 1)
           c == IF collector.tid = NoTid \/ (collector.tid # t /\ s = 0) THEN Locked(t) ELSE collector
<1>1. /\ context /\ UNCHANGED <<programme, context, settled, user, slideBounds>>
      /\ \/ UNCHANGED <<buffer, offer>> /\ collector' \in {collector, NothingCollected}
         \/ /\ c.tid = t /\ s \notin c.have /\ ~Contradicts(c, s, final)
            /\ StoreSegment(c, <<Source, t, s>>, final)
  BY Zenon DEF ReceiveSegment, OpenTo
<1>2. Source = programme
  BY <1>1 DEF Source
<1>3. c \in Collectors /\ (c = collector \/ c.have = {}) /\ t # NoTid
  BY LockedIsSound, SlideAssumption DEF SlideAssumption, NoTid, SlideInductive, CollectorSound
<1>4. AroundSound'
  <2>1. UNCHANGED <<programme, context, settled, view, slideBounds>>
    BY <1>1, Zenon DEF user
  <2> QED
    BY <2>1 DEF SlideInductive, AroundSound
<1>5. CASE UNCHANGED <<buffer, offer>> /\ collector' \in {collector, NothingCollected}
  <2>1. CollectorSound'
    <3>1. CASE collector' = collector
      BY <1>1, <1>5, <3>1 DEF SlideInductive, CollectorSound
    <3>2. CASE collector' = NothingCollected
      <4>1. buffer' \in Seq(Pieces) /\ Len(buffer') \in Nat /\ Len(buffer') <= BufferSize
            /\ offer' \in Offers(Len(buffer'))
        BY <1>5, LenProperties DEF SlideInductive, CollectorSound
      <4> QED
        BY <3>2, <4>1, NothingIsSound DEF CollectorSound
    <3> QED
      BY <1>5, <3>1, <3>2
  <2>2. OfferedIsWhole'
    BY <1>1, <1>5 DEF SlideInductive, OfferedIsWhole, Image
  <2> QED
    BY <1>4, <2>1, <2>2 DEF SlideInductive
<1>6. CASE /\ c.tid = t /\ s \notin c.have /\ ~Contradicts(c, s, final)
           /\ StoreSegment(c, <<Source, t, s>>, final)
  <2> HIDE DEF c
  <2>1. final \in BOOLEAN
    OBVIOUS
  <2> HIDE DEF final
  <2>2. Cardinality(c.have) < BufferSize
    BY <1>3, <1>6, HeldIsFinite, SlideAssumption DEF Contradicts, SlideAssumption
  <2>3. CollectorSound' /\ OfferedIsWhole'
    BY <1>1, <1>2, <1>3, <1>6, <2>1, <2>2, StoreKeeps, Zenon
  <2> QED
    BY <1>4, <2>3 DEF SlideInductive
<1> QED
  BY <1>1, <1>5, <1>6

LEMMA HeaderKeeps ==
  ASSUME SlideInductive, NEW t \in Tids, NEW length, Header(t, length)
  PROVE  /\ CollectorSound' /\ OfferedIsWhole'
         /\ UNCHANGED <<programme, context, settled, user>>
<1> DEFINE known == IF collector.tid = t THEN collector ELSE Locked(t)
           fresh == IF known.length \in {0, length} THEN known ELSE Locked(t)
           c     == [fresh EXCEPT !.length = length]
           complete == Cardinality(c.have) = length /\ AllReceived(c)
<1>1. /\ length \in 1..BufferSize /\ UNCHANGED <<programme, context, settled, buffer, user>>
      /\ offer' = IF complete THEN Assembled(offer, c, buffer) ELSE offer
      /\ collector' \in {NothingCollected, c}
      /\ complete => collector' = NothingCollected
  BY Zenon DEF Header
<1>2. /\ fresh \in Collectors /\ fresh.tid = t /\ t # NoTid
      /\ fresh = collector \/ fresh.have = {}
  BY LockedIsSound, SlideAssumption DEF SlideAssumption, NoTid, SlideInductive, CollectorSound
<1>3. /\ buffer \in Seq(Pieces) /\ Len(buffer) \in Nat /\ Len(buffer) <= BufferSize
      /\ offer \in Offers(Len(buffer)) /\ (collector.have # {} => ~offer.available)
      /\ programme \in Nat
  BY LenProperties DEF SlideInductive, CollectorSound, AroundSound
<1>4. Cardinality(fresh.have) <= Len(buffer) /\ Arranged(programme, fresh, buffer)
  <2>1. CASE fresh = collector
    BY <2>1 DEF SlideInductive, CollectorSound
  <2>2. CASE fresh.have = {}
    <3> HIDE DEF fresh
    <3> QED
      BY <1>3, <2>2, FS_EmptySet DEF Arranged
  <2> QED
    BY <1>2, <2>1, <2>2
<1> HIDE DEF fresh, complete
<1>5. c \in Collectors /\ c.have = fresh.have /\ c.tid = fresh.tid
  <2>1. length \in 0..BufferSize
    BY <1>1
  <2> QED
    BY <1>2, <2>1 DEF Collectors
<1> HIDE DEF c
<1>6. Cardinality(c.have) <= Len(buffer) /\ Arranged(programme, c, buffer)
  BY <1>4, <1>5 DEF Arranged
<1>7. /\ collector' \in Collectors /\ Cardinality(collector'.have) <= Len(buffer')
      /\ Arranged(programme', collector', buffer')
  <2>1. CASE collector' = NothingCollected
    BY <1>1, <1>3, <2>1, NothingIsSound
  <2>2. CASE collector' = c
    BY <1>1, <1>5, <1>6, <2>2
  <2> QED
    BY <1>1, <2>1, <2>2
<1>8. CASE complete
  <2>1. c.have # {} /\ AllReceived(c)
    BY <1>1, <1>8, FS_EmptySet DEF complete
  <2>2. ~offer.available
    BY <1>2, <1>3, <1>5, <2>1
  <2>3. WholeOffer(Assembled(offer, c, buffer), programme, buffer)
    <3>1. Len(buffer) <= Len(buffer)
      BY <1>3
    <3> QED
      BY <1>3, <1>5, <1>6, <2>1, <2>2, <3>1, AssemblyIsSound, Zenon
  <2>4. collector'.have = {} /\ offer' = Assembled(offer, c, buffer)
    BY <1>1, <1>8, NothingIsSound
  <2> QED
    BY <1>1, <1>3, <1>7, <2>3, <2>4 DEF CollectorSound, OfferedIsWhole, Image, WholeOffer
<1>9. CASE ~complete
  <2>1. offer' = offer /\ (collector'.have # {} => ~offer'.available)
    BY <1>1, <1>2, <1>3, <1>5, <1>9, NothingIsSound
  <2> QED
    BY <1>1, <1>3, <1>7, <2>1 DEF SlideInductive, CollectorSound, OfferedIsWhole, Image
<1> QED
  BY <1>1, <1>8, <1>9

LEMMA ReceptionKeeps ==
  ASSUME SlideInductive, ReceivePacket
  PROVE  SlideInductive'
<1>1. ASSUME NEW t \in Tids, ReceiveHeader(t) PROVE SlideInductive'
  <2>1. Header(t, Size[t]) /\ UNCHANGED slideBounds
    BY <1>1 DEF ReceiveHeader
  <2>2. CollectorSound' /\ OfferedIsWhole' /\ UNCHANGED <<programme, context, settled, user>>
    BY <2>1, HeaderKeeps
  <2> QED
    BY <2>1, <2>2 DEF SlideInductive, AroundSound, user
<1>2. ASSUME ReceiveDamagedHeader PROVE SlideInductive'
  <2>1. PICK t \in Tids, length \in 1..BufferSize : Header(t, length)
    BY <1>2, Zenon DEF ReceiveDamagedHeader
  <2>2. CollectorSound' /\ OfferedIsWhole' /\ UNCHANGED <<programme, context, settled, user>>
    BY <2>1, HeaderKeeps
  <2>3. slideBounds' \in [damaged : 0..MaxDamaged, uses : 0..MaxUses]
    <3>1. slideBounds.damaged < MaxDamaged /\ slideBounds' = [slideBounds EXCEPT !.damaged = @ + 1]
      BY <1>2, Zenon DEF ReceiveDamagedHeader
    <3> QED
      BY <3>1, SlideAssumption DEF SlideAssumption, SlideInductive, AroundSound
  <2> QED
    BY <2>2, <2>3 DEF SlideInductive, AroundSound, user
<1> QED
  BY <1>1, <1>2, SegmentKeeps DEF ReceivePacket

\* The offer loses a mark, or gets one back; the image stays.
LEMMA MarkKeeps ==
  ASSUME SlideInductive, UNCHANGED <<programme, collector, buffer>>,
         offer' \in Offers(Len(buffer)), offer'.available = offer.available,
         offer'.size = offer.size, offer'.done = offer.done
  PROVE  CollectorSound' /\ OfferedIsWhole'
<1>1. CollectorSound'
  BY DEF SlideInductive, CollectorSound
<1>2. OfferedIsWhole'
  BY DEF SlideInductive, OfferedIsWhole, Image
<1> QED
  BY <1>1, <1>2

\* The service and the user interface.
LEMMA SurroundingsKeep ==
  ASSUME SlideInductive,
         \/ CollectionTimesOut \/ ChangeService \/ ServiceConfirmed \/ CarouselSettles
         \/ CacheImage \/ OpenView \/ CloseView \/ StartDecoding \/ EndDecoding
         \/ UNCHANGED slideVars
  PROVE  SlideInductive'
<1> USE SlideAssumption DEF SlideAssumption
<1>0. /\ offer \in Offers(Len(buffer)) /\ Len(buffer) \in Nat
      /\ slideBounds \in [damaged : 0..MaxDamaged, uses : 0..MaxUses]
      /\ buffer \in Seq(Pieces) /\ Len(buffer) <= BufferSize
  BY LenProperties DEF SlideInductive, CollectorSound, AroundSound
<1>1. CASE CollectionTimesOut
  <2>1. /\ slideBounds' \in [damaged : 0..MaxDamaged, uses : 0..MaxUses]
    BY <1>0, <1>1 DEF CollectionTimesOut, Uses
  <2>2. AroundSound'
    BY <1>1, <2>1 DEF CollectionTimesOut, SlideInductive, AroundSound, user
  <2>3. CollectorSound'
    BY <1>0, <1>1, NothingIsSound DEF CollectionTimesOut, CollectorSound
  <2>4. OfferedIsWhole'
    BY <1>1 DEF CollectionTimesOut, SlideInductive, OfferedIsWhole, Image
  <2> QED
    BY <2>2, <2>3, <2>4 DEF SlideInductive
<1>2. CASE ChangeService
  <2>1. AroundSound'
    <3>1. /\ programme <= MaxSwitches /\ programme' = programme + 1 /\ context' = FALSE
          /\ UNCHANGED <<settled, view, slideBounds>>
      BY <1>2, Zenon DEF ChangeService, user
    <3>2. programme' \in 1..(MaxSwitches + 1)
      BY <3>1 DEF SlideInductive, AroundSound
    <3> QED
      BY <3>1, <3>2 DEF SlideInductive, AroundSound
  <2>2. NoOffer \in Offers(Len(buffer)) /\ ~NoOffer.available
    BY <1>0 DEF NoOffer, Offers
  <2>3. CollectorSound'
    BY <1>0, <1>2, <2>2, NothingIsSound DEF ChangeService, CollectorSound
  <2> QED
    BY <1>2, <2>1, <2>2, <2>3 DEF ChangeService, SlideInductive, OfferedIsWhole
<1>3. CASE ServiceConfirmed \/ CarouselSettles \/ CloseView \/ StartDecoding \/ UNCHANGED slideVars
  <2>1. UNCHANGED <<programme, collector, buffer, offer, slideBounds>>
    BY <1>3 DEF ServiceConfirmed, CarouselSettles, CloseView, StartDecoding, slideVars, user
  <2>2. AroundSound'
    BY <1>3 DEF ServiceConfirmed, CarouselSettles, CloseView, StartDecoding, slideVars, user,
                SlideInductive, AroundSound
  <2> QED
    BY <1>0, <2>1, <2>2, MarkKeeps DEF SlideInductive
<1>4. CASE CacheImage \/ EndDecoding
  <2>1. UNCHANGED <<programme, context, settled, collector, buffer, slideBounds>>
        /\ offer' = Acknowledged(offer)
    BY <1>4 DEF CacheImage, EndDecoding
  <2>2. AroundSound'
    BY <1>4, <2>1 DEF CacheImage, EndDecoding, user, SlideInductive, AroundSound
  <2>3. /\ offer' \in Offers(Len(buffer)) /\ offer'.available = offer.available
        /\ offer'.size = offer.size /\ offer'.done = offer.done
    BY <1>0, <2>1 DEF Acknowledged, Offers
  <2> QED
    BY <2>1, <2>2, <2>3, MarkKeeps DEF SlideInductive
<1>5. CASE OpenView
  <2>1. UNCHANGED <<programme, context, settled, collector, buffer>> /\ view' = "View"
    BY <1>5 DEF OpenView
  <2>2. slideBounds' \in [damaged : 0..MaxDamaged, uses : 0..MaxUses]
    BY <1>0, <1>5 DEF OpenView, Uses
  <2>3. AroundSound'
    BY <2>1, <2>2 DEF SlideInductive, AroundSound
  <2>4. /\ offer' \in Offers(Len(buffer)) /\ offer'.available = offer.available
        /\ offer'.size = offer.size /\ offer'.done = offer.done
    BY <1>0, <1>5 DEF OpenView, Offers
  <2> QED
    BY <2>1, <2>3, <2>4, MarkKeeps DEF SlideInductive
<1> QED
  BY <1>1, <1>2, <1>3, <1>4, <1>5

LEMMA SlideInitial == SlideInit => SlideInductive
<1> SUFFICES ASSUME SlideInit PROVE SlideInductive
  OBVIOUS
<1> USE SlideAssumption DEF SlideAssumption
<1>1. buffer \in Seq(Pieces) /\ Len(buffer) = 0
  BY DEF SlideInit
<1>2. NoOffer \in Offers(0) /\ ~NoOffer.available
  BY DEF NoOffer, Offers
<1>3. CollectorSound
  BY <1>1, <1>2, NothingIsSound DEF SlideInit, CollectorSound
<1>4. slideBounds \in [damaged : 0..MaxDamaged, uses : 0..MaxUses]
  BY DEF SlideInit
<1>5. AroundSound
  <2>1. 1 \in 1..(MaxSwitches + 1)
    OBVIOUS
  <2> QED
    BY <1>4, <2>1 DEF SlideInit, AroundSound
<1> QED
  BY <1>2, <1>3, <1>5 DEF SlideInit, SlideInductive, OfferedIsWhole

LEMMA SlideStep == SlideInductive /\ [SlideNext]_slideVars => SlideInductive'
BY ReceptionKeeps, SurroundingsKeep DEF SlideNext

LEMMA SlideInvariant == SlideSpec => []SlideInductive
BY SlideInitial, SlideStep, PTL DEF SlideSpec

LEMMA SlideTypes == SlideInductive => SlideTypeOK
<1> SUFFICES ASSUME SlideInductive PROVE SlideTypeOK
  OBVIOUS
<1>1. /\ collector.tid \in Tids \cup {NoTid}
      /\ collector.tid = NoTid => collector = NothingCollected
      /\ collector.tid # NoTid => collector.have \subseteq Segments(collector.tid)
      /\ collector.total \in Nat /\ collector.length \in 0..BufferSize
  BY DEF SlideInductive, CollectorSound, Collectors
<1> QED
  BY <1>1 DEF SlideInductive, CollectorSound, AroundSound, SlideTypeOK, Offers

\* The collector, the buffer and the offer keep their types and sizes: no segment is stored
\* beyond the buffer, and none is offered that is not in it.
THEOREM SlideTypeCorrect == SlideSpec => []SlideTypeOK
BY SlideTypes, SlideInvariant, PTL

\* What assembleSlideshow offers is one whole object of the service that is selected, in order,
\* through every order, repetition, damage and take-over of segments and headers.
THEOREM OfferIsWhole == SlideSpec => []OfferedIsWhole
<1>1. SlideInductive => OfferedIsWhole
  BY DEF SlideInductive
<1> QED
  BY <1>1, SlideInvariant, PTL

\* What an assembly makes of the offer: that of the object collected, or none.
LEMMA AssemblyOffers ==
  ASSUME NEW o, NEW c, NEW bytes
  PROVE  LET after == Assembled(o, c, bytes)
         IN after = o \/ (after.available = TRUE /\ after.done = c.tid)
  BY DEF Assembled

\* A packet withdraws the image of another object only, once the carousel has settled.
LEMMA SettledReception ==
  ASSUME SlideTypeOK, OnAir, ~Exhausted, ReceivePacket
  PROVE  ~Exhausted'
<1> USE DEF Exhausted
<1>1. ASSUME NEW t \in Tids, NEW s \in Segments(t), ReceiveSegment(t, s)
      PROVE  ~Exhausted'
  <2>1. /\ settled' = settled /\ settled = t /\ offer.done # settled
        /\ Withdrawn(offer).done = offer.done
    <3>1. settled # NoTid /\ settled = t /\ settled' = settled /\ offer.done # settled
      BY <1>1, SlideAssumption DEF ReceiveSegment, OnAir, NoTid, OpenTo, SlideAssumption
    <3> QED
      BY <3>1 DEF Withdrawn, SlideTypeOK
  <2>2. CASE offer' = offer
    BY <2>1, <2>2
  <2>3. ASSUME NEW c, NEW final, StoreSegment(c, <<Source, t, s>>, final)
        PROVE  ~Exhausted'
    <3>1. \E o, next, bytes :
            /\ o \in {offer, Withdrawn(offer)}
            /\ offer' = o \/ offer' = Assembled(o, next, bytes)
      BY <2>3 DEF StoreSegment
    <3>2. PICK o, next, bytes :
            /\ o \in {offer, Withdrawn(offer)}
            /\ offer' = o \/ offer' = Assembled(o, next, bytes)
      BY <3>1
    <3>3. offer' = o \/ offer'.available = TRUE
      BY <3>2, AssemblyOffers
    <3> QED
      BY <2>1, <3>2, <3>3
  <2> QED
    BY <1>1, <2>2, <2>3 DEF ReceiveSegment
<1>2. ASSUME NEW t, NEW length, Header(t, length)
      PROVE  ~Exhausted'
  <2>1. settled' = settled /\ (offer' = offer \/ offer'.available = TRUE)
    BY <1>2, AssemblyOffers DEF Header
  <2> QED
    BY <2>1
<1> QED
  BY <1>1, <1>2 DEF ReceivePacket, ReceiveHeader, ReceiveDamagedHeader

\* Once the carousel has settled, its object does not come to be exhausted: its own segments
\* are drained while it is on offer, and nothing else withdraws an image but a new service.
THEOREM OfferStaysUnexhausted == SlideSpec => StaysUnexhausted
<1>1. SlideTypeOK /\ [SlideNext]_slideVars => [OnAir /\ ~Exhausted => ~Exhausted']_slideVars
  <2> SUFFICES ASSUME SlideTypeOK, SlideNext, OnAir, ~Exhausted
               PROVE  ~Exhausted'
    OBVIOUS
  <2>1. CASE ReceivePacket
    BY <2>1, SettledReception
  <2>2. CASE CollectionTimesOut \/ ServiceConfirmed \/ CloseView \/ StartDecoding
    BY <2>2 DEF CollectionTimesOut, ServiceConfirmed, CloseView, StartDecoding, Exhausted
  <2>3. CASE ChangeService
    <3>1. settled' = settled /\ offer'.done = NoTid /\ settled # NoTid
      BY <2>3, SlideAssumption DEF ChangeService, NoOffer, OnAir, NoTid, SlideAssumption
    <3> QED
      BY <3>1 DEF Exhausted
  <2>4. CASE CarouselSettles
    BY <2>4, SlideAssumption DEF CarouselSettles, OnAir, NoTid, SlideAssumption
  <2>5. CASE CacheImage \/ OpenView \/ EndDecoding
    <3>1. /\ settled' = settled
          /\ offer' \in {offer, Acknowledged(offer), [offer EXCEPT !.update = TRUE]}
      BY <2>5 DEF CacheImage, OpenView, EndDecoding
    <3>2. offer'.done = offer.done /\ offer'.available = offer.available
      BY <3>1 DEF Acknowledged, SlideTypeOK
    <3> QED
      BY <3>1, <3>2 DEF Exhausted
  <2> QED
    BY <2>1, <2>2, <2>3, <2>4, <2>5 DEF SlideNext
<1> QED
  BY <1>1, SlideTypeCorrect, PTL DEF SlideSpec, StaysUnexhausted

-----------------------------------------------------------------------------
(* MCParts: in the run that checks the parts side by side each of them     *)
(* makes its own steps or none.                                            *)

PartsInductive ==
  /\ part \in Parts
  /\ DrainTypeOK /\ QueueInductive /\ ClockInductive /\ UaInductive /\ SlideInductive
  /\ DabScanTypeOK /\ FlashFits /\ SettingsInv

\* A step of the composition is a step of the part that runs, and of no other.
LEMMA OneRuns ==
  ASSUME [PartsNext]_partsVars
  PROVE  /\ part' = part
         /\ [DrainNext]_drainVars /\ [QueueNext]_queueVars /\ [ClockNext]_clockVars
         /\ [UaNext]_uaVars /\ [SlideNext]_slideVars /\ [DabScanNext]_dabScanVars
         /\ [SettingsNext]_settingsVars
BY DEF PartsNext, partsVars, OnlyDrain, OnlyQueue, OnlyClock, OnlyUa, OnlySlide, OnlyScan,
       OnlySettings

\* Side by side, too, every part keeps its types and counters, whichever of them runs.
THEOREM PartsTypeCorrect == PartsSpec => []PartsTypeOK
<1>1. PartsInit => PartsInductive
  BY DrainInitial, QueueInitial, ClockStart, UaInitial, SlideInitial, ScanInitial,
     SettingsInvInit DEF PartsInit, PartsInductive, DrainInductive, ScanInductive
<1>2. PartsInductive /\ [PartsNext]_partsVars => PartsInductive'
  <2> SUFFICES ASSUME PartsInductive, [PartsNext]_partsVars PROVE PartsInductive'
    OBVIOUS
  <2>1. DrainTypeOK' /\ QueueInductive'
    BY OneRuns, DrainTypeStep, QueueStep DEF PartsInductive
  <2>2. ClockInductive' /\ SettingsInv'
    BY OneRuns, ClockStep, SettingsInvStep DEF PartsInductive
  <2>3. UaInductive' /\ SlideInductive'
    BY OneRuns, UaStep, SlideStep DEF PartsInductive
  <2>4. DabScanTypeOK' /\ FlashFits'
    BY OneRuns, DabScanTypeStep DEF PartsInductive
  <2> QED
    BY OneRuns, <2>1, <2>2, <2>3, <2>4 DEF PartsInductive
<1>3. PartsInductive => PartsTypeOK
  <2> SUFFICES ASSUME PartsInductive PROVE PartsTypeOK
    OBVIOUS
  <2>1. QueueTypeOK /\ ClockTypeOK /\ SettingsTypeOK
    BY DEF PartsInductive, QueueInductive, ClockInductive, SettingsInv
  <2>2. UaTypeOK
    BY CountersFollow DEF PartsInductive, UaInductive, UaTypeOK
  <2>3. SlideTypeOK
    BY SlideTypes DEF PartsInductive
  <2> QED
    BY <2>1, <2>2, <2>3 DEF PartsInductive, PartsTypeOK
<1> QED
  BY <1>1, <1>2, <1>3, PTL DEF PartsSpec
=============================================================================
