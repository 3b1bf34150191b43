----------------------------- MODULE ClockProofs -----------------------------
(***************************************************************************)
(* That the broadcast clock is that of the ensemble which is received, for *)
(* any number of changes of the frequency, faults and repeated tunes.      *)
(*                                                                         *)
(* The argument: a cycle is accepted only while the transaction has the    *)
(* lock, which a pass of the scheduler takes away before it sends a tune   *)
(* (AcceptedAtRest, NoPairDuringTune).  A tune is sent again only if it    *)
(* may have been carried out, and then it leads to where the tuner already *)
(* is (WaitsForThisTune, SameAgain); a tune of an earlier generation finds *)
(* no clock any more (OldTuneFindsNone).                                   *)
(***************************************************************************)
EXTENDS ClockRefresh, TLAPS

\* The ensemble that is received or searched for
HeardEnsemble == IF onAir = 0 THEN aim ELSE onAir

CommandsAreKnown ==
  /\ sent.gen <= generation
  /\ waitingStc => ~tunePending /\ sent.op # "Tune"

\* After a tune that was accepted the tuner is where it was sent.
WaitsForThisTune ==
  waitingStc \/ (sent.op = "TuneStatus" /\ sent.gen = generation) => HeardEnsemble = generation

\* An answer to GET_TIME is accepted only if no tune waits.
AcceptedAtRest ==
  sent.op \in TimeOps /\ sent.gen = generation /\ refresh.locked => ~tunePending

\* The second and the third answer are waited for only with the lock.
PairsNeedLock == refresh.state \in {"AwaitUtc", "AwaitConfirm"} => refresh.locked

\* The pair that is being made is from here, and a tune ends it before it is sent.
PairIsFromHere == refresh.state = "AwaitConfirm" => refresh.candidate.from = HeardEnsemble
NoPairDuringTune == sent.op = "Tune" => refresh.state # "AwaitConfirm"

OldTuneFindsNone == sent.op = "Tune" /\ sent.gen # generation => ~published.valid

\* A tune that is repeated finds only a clock of the ensemble it leads to.
SameAgain ==
  published.valid /\ (tunePending \/ sent.op = "Tune") => published.sample.from = generation

ClockInductive ==
  /\ ClockTypeOK /\ CommandsAreKnown /\ WaitsForThisTune /\ AcceptedAtRest
  /\ PairsNeedLock /\ PairIsFromHere /\ NoPairDuringTune
  /\ OldTuneFindsNone /\ SameAgain /\ ClockOfThisEnsemble

-----------------------------------------------------------------------------
(* The transaction. *)

Waiting == {"AwaitLocal", "AwaitUtc", "AwaitConfirm"}

LEMMA SampleTypes == NoSample \in Samples /\ NoClock \in Clocks /\ ~NoClock.valid
<1>1. 0 \in 0..MaxGeneration
  BY ClockAssumption DEF ClockAssumption
<1> QED
  BY <1>1 DEF NoSample, Samples, NoClock, Clocks, Readings

LEMMA FreshTypes ==
  ASSUME NEW r \in Refresh
  PROVE  /\ Invalidated(r) \in Refresh
         /\ Invalidated(r).state = "Idle" /\ ~Invalidated(r).locked
<1>1. 0 \in 0..MaxGeneration
  BY ClockAssumption DEF ClockAssumption
<1>2. FreshRefresh \in Refresh /\ FreshRefresh.state = "Idle" /\ FreshRefresh.locked = FALSE
  BY <1>1, SampleTypes DEF FreshRefresh, Refresh, RefreshStates
<1>3. r.context \in 0..MaxGeneration
  BY DEF Refresh
<1> QED
  BY <1>2, <1>3 DEF Invalidated, Refresh

LEMMA FailedTypes ==
  ASSUME NEW r \in Refresh
  PROVE  /\ FailedCycle(r) \in Refresh
         /\ FailedCycle(r).state = "Failed" /\ FailedCycle(r).locked = r.locked
  BY SampleTypes DEF FailedCycle, Refresh, RefreshStates

\* What the lock makes of the transaction.
LEMMA LockTypes ==
  ASSUME NEW r \in Refresh, NEW hasLock \in BOOLEAN
  PROVE  /\ LockSeen(r, hasLock) \in Refresh
         /\ LockSeen(r, hasLock).locked = hasLock
         /\ LockSeen(r, hasLock).context = r.context
         /\ LockSeen(r, hasLock).state \in Waiting =>
              LockSeen(r, hasLock) = r /\ r.locked = hasLock
<1>1. CASE r.locked /\ ~hasLock
  BY <1>1, FailedTypes DEF LockSeen, FailedCycle, Refresh, RefreshStates, Waiting, Readings
<1>2. CASE ~r.locked /\ hasLock
  BY <1>2 DEF LockSeen, Refresh, RefreshStates, Waiting
<1>3. CASE r.locked = hasLock
  BY <1>3 DEF LockSeen, Refresh
<1> QED
  BY <1>1, <1>2, <1>3 DEF Refresh

\* A pass gives the transaction the lock that counts, and keeps a cycle or ends it.
LEMMA MaintainedTypes ==
  ASSUME ClockTypeOK
  PROVE  /\ Maintained.refresh \in Refresh
         /\ Maintained.refresh.locked = HasLock
         /\ Maintained.refresh.context = generation
         /\ Maintained.refresh.state \in Waiting =>
              Maintained.refresh = refresh /\ refresh.locked = HasLock
         /\ Maintained.wanted \subseteq TimeOps
         /\ Maintained.published \in {published, NoClock} /\ Maintained.published \in Clocks
<1> USE DEF ClockTypeOK
<1>1. HasLock \in BOOLEAN
  BY DEF HasLock
<1> DEFINE moved == IF refresh.context # generation
                    THEN [FreshRefresh EXCEPT !.context = generation, !.locked = refresh.locked]
                    ELSE refresh
<1>2. /\ moved \in Refresh /\ moved.context = generation
      /\ moved.state \in Waiting => moved = refresh
  <2>1. 0 \in 0..MaxGeneration /\ generation \in 0..MaxGeneration
    BY ClockAssumption DEF ClockAssumption, Generations
  <2> QED
    BY <2>1, SampleTypes DEF FreshRefresh, Refresh, RefreshStates, Waiting
<1>3. /\ Maintained.refresh = LockSeen(moved, HasLock)
      /\ Maintained.published \in {published, NoClock}
  BY DEF Maintained, Observed
<1>4. Maintained.wanted \subseteq TimeOps
  BY DEF Maintained, TimeOps
<1>5. /\ LockSeen(moved, HasLock) \in Refresh
      /\ LockSeen(moved, HasLock).locked = HasLock
      /\ LockSeen(moved, HasLock).context = moved.context
      /\ LockSeen(moved, HasLock).state \in Waiting =>
           LockSeen(moved, HasLock) = moved /\ moved.locked = HasLock
  <2> HIDE DEF moved
  <2> QED
    BY <1>1, <1>2, LockTypes
<1>6. moved.state \in Waiting => moved = refresh
  BY <1>2
<1>7. Maintained.published \in Clocks
  BY <1>3, SampleTypes
<1> HIDE DEF moved
<1> QED
  BY <1>2, <1>3, <1>4, <1>5, <1>6, <1>7

-----------------------------------------------------------------------------
(* Types. *)

\* A command is sent.
LEMMA PassTypes ==
  ASSUME ClockTypeOK, NEW op \in Commands, PassSends(op)
  PROVE  /\ sent' \in [op : Commands, gen : 0..MaxGeneration]
         /\ sent'.op = op /\ sent'.gen = generation /\ sent.op = "None"
         /\ refresh' \in Refresh /\ (Active(refresh') => refresh'.context = generation)
         /\ refresh'.locked = HasLock
         /\ refresh'.state \in {"AwaitUtc", "AwaitConfirm"} =>
              refresh' = refresh /\ refresh.locked = HasLock
         /\ wanted' \subseteq TimeOps
         /\ published' \in {published, NoClock} /\ published' \in Clocks
<1>1. generation \in 0..MaxGeneration
  BY ClockAssumption DEF ClockAssumption, ClockTypeOK, Generations
<1>2. /\ sent' \in [op : Commands, gen : 0..MaxGeneration]
      /\ sent'.op = op /\ sent'.gen = generation /\ sent.op = "None"
  BY <1>1 DEF PassSends, Command, Unsent
<1>3. wanted' \subseteq TimeOps /\ published' = Maintained.published
  BY MaintainedTypes DEF PassSends
<1>4. CASE op = "Local"
  <2>1. /\ NewCycle(Maintained.refresh) \in Refresh
        /\ NewCycle(Maintained.refresh).state = "AwaitLocal"
        /\ NewCycle(Maintained.refresh).context = generation
        /\ NewCycle(Maintained.refresh).locked = Maintained.refresh.locked
    BY <1>1, MaintainedTypes, SampleTypes DEF NewCycle, Refresh, RefreshStates
  <2> QED
    BY <1>2, <1>3, <1>4, <2>1, MaintainedTypes DEF PassSends
<1>5. CASE op # "Local"
  BY <1>2, <1>3, <1>5, MaintainedTypes DEF PassSends, Waiting
<1> QED
  BY <1>4, <1>5

LEMMA FaultCounted ==
  ASSUME clockFaults \in 0..MaxClockFaults
  PROVE  /\ Fault => clockFaults' \in 0..MaxClockFaults
         /\ \A ok : Whether(ok) => clockFaults' \in 0..MaxClockFaults
  BY ClockAssumption DEF Fault, Whether, ClockAssumption

\* An answer that the transaction expects, and one that it does not.
LEMMA AnswerTypes ==
  ASSUME ClockTypeOK, sent.op \in TimeOps, sent.gen = generation,
         AcceptLocal \/ AcceptUtc \/ AcceptConfirm
  PROVE  /\ refresh' \in Refresh /\ (Active(refresh') => refresh'.context = generation)
         /\ refresh'.locked = refresh.locked
         /\ wanted' \subseteq TimeOps
         /\ published' \in Clocks /\ heard' \subseteq Readings
         /\ clockFaults' \in 0..MaxClockFaults
         /\ refresh'.state \in {"AwaitUtc", "AwaitConfirm"} => refresh.locked
         /\ refresh'.state = "AwaitConfirm" => refresh'.candidate.from = onAir /\ onAir # 0
         /\ published' # published => refresh.locked /\ refresh.state = "AwaitConfirm"
                                        /\ published'.sample = refresh.candidate
<1> USE DEF ClockTypeOK
<1>0. FailedCycle(refresh) \in Refresh /\ FailedCycle(refresh).state = "Failed"
      /\ FailedCycle(refresh).locked = refresh.locked
  BY FailedTypes
<1>1. CASE AcceptLocal
  <2>1. PICK reading \in Readings : TimeAnswer(reading)
    BY <1>1 DEF AcceptLocal
  <2>2. clockFaults' \in 0..MaxClockFaults
    BY <2>1, FaultCounted DEF TimeAnswer
  <2>3. CASE Expected
    <3>1. refresh' = [refresh EXCEPT !.state = "AwaitUtc"]
      BY <1>1, <2>3 DEF AcceptLocal
    <3>2. refresh.locked /\ refresh.context = generation
      BY <2>3 DEF Expected
    <3>3. /\ refresh' \in Refresh /\ refresh'.state = "AwaitUtc"
          /\ refresh'.locked = refresh.locked /\ refresh'.context = generation
      BY <3>1, <3>2 DEF Refresh, RefreshStates
    <3> QED
      BY <1>1, <2>2, <3>2, <3>3 DEF AcceptLocal, TimeOps
  <2>4. CASE ~Expected
    BY <1>0, <1>1, <2>2, <2>4 DEF AcceptLocal, Active
  <2> QED
    BY <2>3, <2>4
<1>2. CASE AcceptUtc
  <2>1. PICK reading \in Readings :
          /\ TimeAnswer(reading)
          /\ refresh' = IF Expected
                        THEN [refresh EXCEPT !.state = "AwaitConfirm", !.late = FALSE,
                                             !.candidate = [from |-> onAir, reading |-> reading]]
                        ELSE FailedCycle(refresh)
    BY <1>2 DEF AcceptUtc
  <2>2. clockFaults' \in 0..MaxClockFaults /\ onAir # 0
    BY <2>1, FaultCounted DEF TimeAnswer
  <2>3. CASE Expected
    <3>1. refresh.locked /\ refresh.context = generation
      BY <2>3 DEF Expected
    <3>2. [from |-> onAir, reading |-> reading] \in Samples
      BY DEF Samples
    <3>3. /\ refresh' \in Refresh /\ refresh'.state = "AwaitConfirm"
          /\ refresh'.locked = refresh.locked /\ refresh'.context = generation
          /\ refresh'.candidate.from = onAir
      BY <2>1, <2>3, <3>1, <3>2 DEF Refresh, RefreshStates
    <3> QED
      BY <1>2, <2>2, <3>1, <3>3 DEF AcceptUtc, TimeOps
  <2>4. CASE ~Expected
    BY <1>0, <1>2, <2>1, <2>2, <2>4 DEF AcceptUtc, Active
  <2> QED
    BY <2>3, <2>4
<1>3. CASE AcceptConfirm
  <2>1. PICK reading \in Readings :
          /\ TimeAnswer(reading)
          /\ LET paired == Expected /\ ~refresh.late /\ reading = refresh.candidate.reading IN
             IF ~paired
                THEN refresh' = FailedCycle(refresh) /\ UNCHANGED <<published, heard>>
                ELSE IF Uncorroborated(reading)
                THEN /\ refresh' = [FailedCycle(refresh) EXCEPT !.jump = reading, !.jumpAge = "young"]
                     /\ heard' = heard \cup {reading} /\ UNCHANGED published
                ELSE /\ heard' = {}
                     /\ refresh' = [refresh EXCEPT !.state = "Idle", !.retryPending = FALSE,
                                                   !.jump = "none", !.jumpAge = "young",
                                                   !.candidate = NoSample]
                     /\ published' = [valid |-> TRUE, aged |-> FALSE, sample |-> refresh.candidate]
    BY <1>3 DEF AcceptConfirm
  <2>2. clockFaults' \in 0..MaxClockFaults /\ sent.op = "Confirm" /\ wanted' = wanted
    BY <1>3, <2>1, FaultCounted DEF TimeAnswer, AcceptConfirm
  <2>3. CASE refresh' = FailedCycle(refresh) /\ UNCHANGED <<published, heard>>
    BY <1>0, <2>2, <2>3 DEF Active
  <2>4. CASE /\ refresh' = [FailedCycle(refresh) EXCEPT !.jump = reading, !.jumpAge = "young"]
             /\ heard' = heard \cup {reading} /\ UNCHANGED published
    <3>1. refresh' \in Refresh /\ refresh'.state = "Failed" /\ refresh'.locked = refresh.locked
      BY <1>0, <2>4 DEF Refresh
    <3> QED
      BY <2>2, <2>4, <3>1 DEF Active
  <2>5. CASE /\ Expected /\ heard' = {}
             /\ refresh' = [refresh EXCEPT !.state = "Idle", !.retryPending = FALSE,
                                           !.jump = "none", !.jumpAge = "young",
                                           !.candidate = NoSample]
             /\ published' = [valid |-> TRUE, aged |-> FALSE, sample |-> refresh.candidate]
    <3>1. refresh.locked /\ refresh.state = "AwaitConfirm"
      BY <2>2, <2>5 DEF Expected, Awaits
    <3>2. refresh' \in Refresh /\ refresh'.state = "Idle" /\ refresh'.locked = refresh.locked
      BY <2>5, SampleTypes DEF Refresh, RefreshStates
    <3>3. published' \in Clocks /\ published'.sample = refresh.candidate
      BY <2>5 DEF Clocks, Refresh
    <3> QED
      BY <2>2, <2>5, <3>1, <3>2, <3>3 DEF Active
  <2> QED
    BY <2>1, <2>3, <2>4, <2>5
<1> QED
  BY <1>1, <1>2, <1>3

-----------------------------------------------------------------------------
(* Every step keeps the argument. *)

\* What a pass does to the transaction, whether or not it sends a command.
LEMMA PassKeeps ==
  ASSUME ClockInductive, Unsent, UNCHANGED <<generation, waitingStc, onAir, aim>>,
         /\ refresh'.locked = HasLock
         /\ refresh'.state \in {"AwaitUtc", "AwaitConfirm"} =>
              refresh' = refresh /\ refresh.locked = HasLock,
         published' \in {published, NoClock}
  PROVE  /\ PairsNeedLock' /\ PairIsFromHere' /\ ClockOfThisEnsemble'
         /\ refresh'.locked => ~tunePending
         /\ tunePending => refresh'.state # "AwaitConfirm"
         /\ published'.valid => published' = published
<1>1. HeardEnsemble' = HeardEnsemble
  BY DEF HeardEnsemble
<1>2. refresh'.locked => ~tunePending
  BY DEF HasLock
<1>3. PairsNeedLock' /\ (tunePending => refresh'.state # "AwaitConfirm")
  BY DEF PairsNeedLock, ClockInductive, HasLock
<1>4. PairIsFromHere'
  BY <1>1 DEF PairIsFromHere, ClockInductive
<1>5. published'.valid => published' = published
  BY SampleTypes
<1>6. ClockOfThisEnsemble'
  BY <1>5 DEF ClockOfThisEnsemble, ClockInductive
<1> QED
  BY <1>2, <1>3, <1>4, <1>5, <1>6

LEMMA SendKeeps ==
  ASSUME ClockInductive, NEW op \in Commands, PassSends(op),
         op = "Tune" => tunePending /\ tunePending' = FALSE,
         op # "Tune" => UNCHANGED tunePending,
         op = "TuneStatus" => waitingStc
  PROVE  ClockInductive'
<1>1. /\ sent' \in [op : Commands, gen : 0..MaxGeneration]
      /\ sent'.op = op /\ sent'.gen = generation /\ sent.op = "None"
      /\ refresh' \in Refresh /\ (Active(refresh') => refresh'.context = generation)
      /\ refresh'.locked = HasLock
      /\ refresh'.state \in {"AwaitUtc", "AwaitConfirm"} =>
           refresh' = refresh /\ refresh.locked = HasLock
      /\ wanted' \subseteq TimeOps
      /\ published' \in {published, NoClock} /\ published' \in Clocks
  BY PassTypes DEF ClockInductive
<1>2. UNCHANGED <<generation, waitingStc, lock, onAir, aim, heard, clockFaults>>
  BY DEF PassSends
<1>3. tunePending' \in BOOLEAN /\ (tunePending' => tunePending)
  <2>1. CASE op = "Tune"
    BY <2>1
  <2>2. CASE op # "Tune"
    BY <2>2 DEF ClockInductive, ClockTypeOK
  <2> QED
    BY <2>1, <2>2
<1>4. ClockTypeOK'
  BY <1>1, <1>2, <1>3 DEF ClockInductive, ClockTypeOK, Generations, Active
<1>5. /\ PairsNeedLock' /\ PairIsFromHere' /\ ClockOfThisEnsemble'
      /\ refresh'.locked => ~tunePending
      /\ tunePending => refresh'.state # "AwaitConfirm"
      /\ published'.valid => published' = published
  BY <1>1, <1>2, PassKeeps DEF Unsent
<1>6. CommandsAreKnown'
  BY <1>1, <1>2, <1>3 DEF CommandsAreKnown, ClockInductive, ClockTypeOK, Generations
<1>7. WaitsForThisTune'
  BY <1>1, <1>2 DEF WaitsForThisTune, ClockInductive, HeardEnsemble
<1>8. AcceptedAtRest' /\ NoPairDuringTune' /\ OldTuneFindsNone'
  BY <1>1, <1>2, <1>3, <1>5 DEF AcceptedAtRest, NoPairDuringTune, OldTuneFindsNone
<1>9. SameAgain'
  BY <1>1, <1>2, <1>3, <1>5 DEF SameAgain, ClockInductive
<1> QED
  BY <1>4, <1>5, <1>6, <1>7, <1>8, <1>9 DEF ClockInductive

\* A pass that sends nothing, or that ends a cycle which has timed out
LEMMA QuietPassKeeps ==
  ASSUME ClockInductive, IdlePass \/ CycleTimesOut
  PROVE  ClockInductive'
<1>1. /\ Maintained.refresh \in Refresh
      /\ Maintained.refresh.locked = HasLock
      /\ Maintained.refresh.context = generation
      /\ Maintained.refresh.state \in Waiting =>
           Maintained.refresh = refresh /\ refresh.locked = HasLock
      /\ Maintained.wanted \subseteq TimeOps
      /\ Maintained.published \in {published, NoClock} /\ Maintained.published \in Clocks
  BY MaintainedTypes DEF ClockInductive
<1>2. /\ refresh' \in Refresh /\ (Active(refresh') => refresh'.context = generation)
      /\ refresh'.locked = HasLock
      /\ refresh'.state \in {"AwaitUtc", "AwaitConfirm"} =>
           refresh' = refresh /\ refresh.locked = HasLock
  <2>1. CASE IdlePass
    <3>1. refresh' = Maintained.refresh
      BY <2>1 DEF IdlePass
    <3> QED
      BY <1>1, <3>1 DEF Waiting
  <2>2. CASE CycleTimesOut
    <3>1. refresh' = FailedCycle(Maintained.refresh)
      BY <2>2 DEF CycleTimesOut
    <3> QED
      BY <1>1, <3>1, FailedTypes DEF Active
  <2> QED
    BY <2>1, <2>2
<1>3. /\ Unsent /\ UNCHANGED <<tuning, heard>> /\ published' = Maintained.published
      /\ wanted' \subseteq Maintained.wanted /\ clockFaults' \in 0..MaxClockFaults
  BY FaultCounted DEF IdlePass, CycleTimesOut, ClockInductive, ClockTypeOK
<1>4. ClockTypeOK'
  BY <1>1, <1>2, <1>3 DEF ClockInductive, ClockTypeOK, tuning, Generations, Active
<1>5. /\ PairsNeedLock' /\ PairIsFromHere' /\ ClockOfThisEnsemble'
      /\ published'.valid => published' = published
  BY <1>1, <1>2, <1>3, PassKeeps DEF tuning
<1>6. CommandsAreKnown' /\ WaitsForThisTune'
  BY <1>3 DEF ClockInductive, CommandsAreKnown, WaitsForThisTune, HeardEnsemble, tuning
<1>7. AcceptedAtRest' /\ NoPairDuringTune' /\ OldTuneFindsNone'
  BY <1>3 DEF AcceptedAtRest, NoPairDuringTune, OldTuneFindsNone, Unsent, TimeOps, tuning
<1>8. SameAgain'
  BY <1>3, <1>5 DEF SameAgain, ClockInductive, tuning
<1> QED
  BY <1>4, <1>5, <1>6, <1>7, <1>8 DEF ClockInductive

\* The frequency is changed: nothing that was learned before is kept.
LEMMA SetFreqKeeps ==
  ASSUME ClockInductive, SetFreq
  PROVE  ClockInductive'
<1>1. /\ refresh' \in Refresh /\ refresh'.state = "Idle" /\ ~refresh'.locked
      /\ published' = NoClock /\ NoClock \in Clocks /\ ~NoClock.valid
  BY FreshTypes, SampleTypes DEF SetFreq, ClockInductive, ClockTypeOK
<1>2. /\ generation' = generation + 1 /\ generation' \in Generations
      /\ sent.gen \in Nat /\ sent.gen < generation'
  BY ClockAssumption DEF SetFreq, ClockInductive, ClockTypeOK, CommandsAreKnown,
                         Generations, ClockAssumption
<1>3. ClockTypeOK'
  BY <1>1, <1>2 DEF SetFreq, ClockInductive, ClockTypeOK, Active
<1>4. CommandsAreKnown' /\ WaitsForThisTune' /\ AcceptedAtRest'
  BY <1>1, <1>2 DEF SetFreq, CommandsAreKnown, WaitsForThisTune, AcceptedAtRest
<1>5. PairsNeedLock' /\ PairIsFromHere' /\ NoPairDuringTune'
  BY <1>1 DEF PairsNeedLock, PairIsFromHere, NoPairDuringTune
<1>6. OldTuneFindsNone' /\ SameAgain' /\ ClockOfThisEnsemble'
  BY <1>1 DEF OldTuneFindsNone, SameAgain, ClockOfThisEnsemble
<1> QED
  BY <1>3, <1>4, <1>5, <1>6 DEF ClockInductive

\* Time passes.
LEMMA AgeingKeeps ==
  ASSUME ClockInductive,
         TimeComesDue \/ RetryComesDue \/ PairGoesLate \/ JumpAges \/ ClockAges \/ Acquire
  PROVE  ClockInductive'
<1>1. /\ refresh' \in Refresh
      /\ \A f \in {"state", "context", "locked", "candidate"} : refresh'[f] = refresh[f]
  BY DEF TimeComesDue, RetryComesDue, PairGoesLate, JumpAges, ClockAges, Acquire,
         ClockInductive, ClockTypeOK, Refresh
<1>2. /\ refresh'.state = refresh.state /\ refresh'.context = refresh.context
      /\ refresh'.locked = refresh.locked /\ refresh'.candidate = refresh.candidate
  BY <1>1
<1>3. /\ published' \in Clocks /\ published'.valid = published.valid
      /\ published'.sample = published.sample
  BY DEF TimeComesDue, RetryComesDue, PairGoesLate, JumpAges, ClockAges, Acquire,
         ClockInductive, ClockTypeOK, Clocks
<1>4. HeardEnsemble' = HeardEnsemble /\ onAir' \in 0..MaxGeneration
  BY DEF TimeComesDue, RetryComesDue, PairGoesLate, JumpAges, ClockAges, Acquire,
         HeardEnsemble, tuning, ClockInductive, ClockTypeOK
<1>5. /\ UNCHANGED <<generation, tunePending, waitingStc, lock, sent, aim, heard>>
      /\ wanted' \subseteq TimeOps /\ clockFaults' \in 0..MaxClockFaults
  BY FaultCounted DEF TimeComesDue, RetryComesDue, PairGoesLate, JumpAges, ClockAges, Acquire,
                      tuning, ClockInductive, ClockTypeOK, TimeOps
<1>6. ClockTypeOK'
  BY <1>1, <1>2, <1>3, <1>4, <1>5 DEF ClockInductive, ClockTypeOK, Active, Generations
<1>7. CommandsAreKnown' /\ WaitsForThisTune' /\ AcceptedAtRest'
  BY <1>2, <1>4, <1>5 DEF ClockInductive, CommandsAreKnown, WaitsForThisTune, AcceptedAtRest
<1>8. PairsNeedLock' /\ PairIsFromHere' /\ NoPairDuringTune'
  BY <1>2, <1>4, <1>5 DEF ClockInductive, PairsNeedLock, PairIsFromHere, NoPairDuringTune
<1>9. OldTuneFindsNone' /\ SameAgain'
  BY <1>3, <1>5 DEF ClockInductive, OldTuneFindsNone, SameAgain
<1>10. ClockOfThisEnsemble'
  BY <1>3, <1>4 DEF ClockInductive, ClockOfThisEnsemble, HeardEnsemble
<1> QED
  BY <1>6, <1>7, <1>8, <1>9, <1>10 DEF ClockInductive

\* A command other than GET_TIME ends.
LEMMA CompletionKeeps ==
  ASSUME ClockInductive, CompleteTune \/ CompleteStatus \/ StatusFails \/ ForgetOther \/ StaleTime
  PROVE  ClockInductive'
<1> USE DEF ClockInductive
<1>1. sent' = Nothing /\ sent'.op = "None" /\ sent'.gen = 0 /\ 0 \in 0..MaxGeneration
  <2>1. 0 \in 0..MaxGeneration
    BY ClockAssumption DEF ClockAssumption
  <2>2. sent' = Nothing
    BY DEF CompleteTune, CompleteStatus, StatusFails, ForgetOther, StaleTime, Done
  <2> QED
    BY <2>1, <2>2 DEF Nothing
<1>2. generation' = generation /\ refresh' = refresh /\ published' = published
  BY DEF CompleteTune, CompleteStatus, StatusFails, ForgetOther, StaleTime
<1>3. sent' \in [op : Commands, gen : 0..MaxGeneration] /\ 0 <= generation
  BY <1>1 DEF Nothing, Commands, ClockTypeOK, Generations
<1>4. NoPairDuringTune' /\ OldTuneFindsNone' /\ AcceptedAtRest' /\ PairsNeedLock'
  BY <1>1, <1>2 DEF NoPairDuringTune, OldTuneFindsNone, AcceptedAtRest, PairsNeedLock, TimeOps
<1>5. CASE CompleteTune
  <2>1. PICK executed, ok, again \in BOOLEAN :
          /\ ok => executed /\ ~again
          /\ executed /\ ~ok => again
          /\ Whether(ok)
          /\ IF executed THEN onAir' = 0 /\ aim' = sent.gen ELSE UNCHANGED <<onAir, aim>>
          /\ waitingStc' = IF OfThisTune THEN ok ELSE waitingStc
          /\ tunePending' = IF OfThisTune THEN again ELSE tunePending
    BY <1>5 DEF CompleteTune
  <2>2. /\ sent.op = "Tune" /\ ~waitingStc /\ waitingStc \in BOOLEAN
        /\ UNCHANGED <<lock, wanted, heard>>
    BY <1>5 DEF CompleteTune, CommandsAreKnown, ClockTypeOK
  <2>3. clockFaults' \in 0..MaxClockFaults
    BY <2>1, FaultCounted DEF ClockTypeOK
  <2>4. /\ HeardEnsemble' = IF executed THEN sent.gen ELSE HeardEnsemble
        /\ onAir' \in 0..MaxGeneration /\ aim' \in 0..MaxGeneration
    BY <1>3, <2>1, <1>1 DEF HeardEnsemble, ClockTypeOK
  <2>5. waitingStc' \in BOOLEAN /\ tunePending' \in BOOLEAN
    BY <2>1, <2>2 DEF ClockTypeOK
  <2>6. ClockTypeOK'
    BY <1>2, <1>3, <2>2, <2>3, <2>4, <2>5 DEF ClockTypeOK, Generations, Active
  <2>7. waitingStc' => sent.gen = generation /\ executed /\ ~tunePending'
    BY <2>1, <2>2 DEF OfThisTune
  <2>8. CommandsAreKnown' /\ WaitsForThisTune'
    BY <1>1, <1>2, <1>3, <2>4, <2>7 DEF CommandsAreKnown, WaitsForThisTune
  <2>9. published.valid => sent.gen = generation /\ published.sample.from = generation
                           /\ published.sample.from = HeardEnsemble
    BY <2>2 DEF OldTuneFindsNone, SameAgain, ClockOfThisEnsemble, HeardEnsemble
  <2>10. PairIsFromHere'
    BY <1>2, <2>2 DEF NoPairDuringTune, PairIsFromHere
  <2>11. SameAgain'
    BY <1>2, <2>9 DEF SameAgain
  <2>12. ClockOfThisEnsemble'
    BY <1>2, <2>4, <2>9 DEF ClockOfThisEnsemble, HeardEnsemble
  <2> QED
    BY <1>4, <2>6, <2>8, <2>10, <2>11, <2>12
<1>6. CASE CompleteStatus \/ ForgetOther \/ StaleTime
  <2>1. /\ UNCHANGED <<onAir, aim, tunePending>>
        /\ waitingStc' \in BOOLEAN /\ (waitingStc' => waitingStc)
    <3>1. CASE CompleteStatus /\ OfThisTune
      <4>1. UNCHANGED <<onAir, aim, tunePending>>
        BY <3>1 DEF CompleteStatus
      <4>2. waitingStc' = (waitingStc /\ sent.op = "Signal")
        BY <3>1, Zenon DEF CompleteStatus
      <4>3. waitingStc' \in BOOLEAN /\ (waitingStc' => waitingStc)
        BY <4>2, Zenon
      <4> QED
        BY <4>1, <4>3
    <3>2. CASE ForgetOther \/ StaleTime \/ (CompleteStatus /\ ~OfThisTune)
      <4>1. UNCHANGED <<onAir, aim, tunePending, waitingStc>>
        BY <3>2 DEF CompleteStatus, ForgetOther, StaleTime
      <4> QED
        BY <4>1 DEF ClockTypeOK
    <3> QED
      BY <1>6, <3>1, <3>2
  <2>2. /\ lock' \in BOOLEAN /\ wanted' \subseteq TimeOps /\ heard' \subseteq Readings
        /\ clockFaults' \in 0..MaxClockFaults
    BY <1>6, FaultCounted DEF CompleteStatus, ForgetOther, StaleTime, ClockTypeOK, TimeOps
  <2>3. ClockTypeOK'
    BY <1>2, <1>3, <2>1, <2>2 DEF ClockTypeOK, Generations, Active
  <2>4. CommandsAreKnown' /\ WaitsForThisTune'
    BY <1>1, <1>2, <1>3, <2>1 DEF CommandsAreKnown, WaitsForThisTune, HeardEnsemble
  <2>5. PairIsFromHere' /\ SameAgain' /\ ClockOfThisEnsemble'
    BY <1>1, <1>2, <2>1 DEF PairIsFromHere, SameAgain, ClockOfThisEnsemble, HeardEnsemble
  <2> QED
    BY <1>4, <2>3, <2>4, <2>5
<1>7. CASE StatusFails
  <2>1. UNCHANGED <<onAir, aim, lock, wanted, heard>> /\ clockFaults' \in 0..MaxClockFaults
    BY <1>7, FaultCounted DEF StatusFails, ClockTypeOK
  <2>2. CASE OfThisTune /\ sent.op = "TuneStatus"
    <3>1. waitingStc' = FALSE /\ tunePending' \in BOOLEAN
      BY <1>7, <2>2 DEF StatusFails
    <3>2. HeardEnsemble = generation
      BY <2>2 DEF OfThisTune, WaitsForThisTune
    <3>3. ClockTypeOK'
      BY <1>2, <1>3, <2>1, <3>1 DEF ClockTypeOK, Generations, Active
    <3>4. CommandsAreKnown' /\ WaitsForThisTune'
      BY <1>1, <1>2, <1>3, <3>1 DEF CommandsAreKnown, WaitsForThisTune
    <3>5. PairIsFromHere' /\ SameAgain' /\ ClockOfThisEnsemble'
      BY <1>2, <2>1, <3>2 DEF PairIsFromHere, SameAgain, ClockOfThisEnsemble, HeardEnsemble
    <3> QED
      BY <1>4, <3>3, <3>4, <3>5
  <2>3. CASE ~(OfThisTune /\ sent.op = "TuneStatus")
    <3>1. UNCHANGED <<waitingStc, tunePending>>
      BY <1>7, <2>3 DEF StatusFails
    <3>2. ClockTypeOK'
      BY <1>2, <1>3, <2>1, <3>1 DEF ClockTypeOK, Generations, Active
    <3>3. CommandsAreKnown' /\ WaitsForThisTune'
      BY <1>1, <1>2, <1>3, <2>1, <3>1 DEF CommandsAreKnown, WaitsForThisTune, HeardEnsemble
    <3>4. PairIsFromHere' /\ SameAgain' /\ ClockOfThisEnsemble'
      BY <1>1, <1>2, <2>1, <3>1 DEF PairIsFromHere, SameAgain, ClockOfThisEnsemble, HeardEnsemble
    <3> QED
      BY <1>4, <3>2, <3>3, <3>4
  <2> QED
    BY <2>2, <2>3
<1> QED
  BY <1>5, <1>6, <1>7

\* An answer to GET_TIME, or none, for the ensemble that is tuned
LEMMA TimeKeeps ==
  ASSUME ClockInductive, TimeFails \/ AcceptLocal \/ AcceptUtc \/ AcceptConfirm
  PROVE  ClockInductive'
<1> USE DEF ClockInductive
<1>1. /\ sent' = Nothing /\ sent'.op = "None" /\ sent'.gen = 0 /\ 0 \in 0..MaxGeneration
      /\ sent.op \in TimeOps /\ sent.gen = generation
      /\ UNCHANGED <<generation, tunePending, waitingStc, lock, onAir, aim>>
  <2>1. 0 \in 0..MaxGeneration
    BY ClockAssumption DEF ClockAssumption
  <2>2. /\ sent' = Nothing /\ sent.op \in TimeOps /\ sent.gen = generation
        /\ UNCHANGED <<generation, tunePending, waitingStc, lock, onAir, aim>>
    BY DEF TimeFails, AcceptLocal, AcceptUtc, AcceptConfirm, TimeAnswer, Done, OfThisTune
  <2> QED
    BY <2>1, <2>2 DEF Nothing
<1>2. sent' \in [op : Commands, gen : 0..MaxGeneration] /\ 0 <= generation
  BY <1>1 DEF Nothing, Commands, ClockTypeOK, Generations
<1>3. /\ refresh' \in Refresh /\ (Active(refresh') => refresh'.context = generation)
      /\ refresh'.locked = refresh.locked
      /\ wanted' \subseteq TimeOps
      /\ published' \in Clocks /\ heard' \subseteq Readings
      /\ clockFaults' \in 0..MaxClockFaults
      /\ refresh'.state \in {"AwaitUtc", "AwaitConfirm"} => refresh.locked
      /\ refresh'.state = "AwaitConfirm" => refresh'.candidate.from = onAir /\ onAir # 0
      /\ published' # published => refresh.locked /\ refresh.state = "AwaitConfirm"
                                     /\ published'.sample = refresh.candidate
  <2>1. CASE TimeFails
    <3>1. refresh' = FailedCycle(refresh) /\ published' = published
      BY <2>1 DEF TimeFails
    <3>2. refresh' \in Refresh /\ refresh'.state = "Failed" /\ refresh'.locked = refresh.locked
      BY <3>1, FailedTypes DEF ClockTypeOK
    <3>3. /\ wanted' \subseteq TimeOps /\ heard' \subseteq Readings
          /\ clockFaults' \in 0..MaxClockFaults
      BY <2>1, FaultCounted DEF TimeFails, ClockTypeOK
    <3> QED
      BY <3>1, <3>2, <3>3 DEF Active, ClockTypeOK
  <2>2. CASE AcceptLocal \/ AcceptUtc \/ AcceptConfirm
    BY <1>1, <2>2, AnswerTypes
  <2> QED
    BY <2>1, <2>2
<1>4. ClockTypeOK'
  BY <1>1, <1>2, <1>3 DEF ClockTypeOK, Generations, Active
<1>5. CommandsAreKnown' /\ WaitsForThisTune'
  BY <1>1, <1>2 DEF CommandsAreKnown, WaitsForThisTune, HeardEnsemble
<1>6. AcceptedAtRest' /\ NoPairDuringTune' /\ OldTuneFindsNone'
  BY <1>1 DEF AcceptedAtRest, NoPairDuringTune, OldTuneFindsNone, TimeOps
<1>7. PairsNeedLock' /\ PairIsFromHere'
  BY <1>1, <1>3 DEF PairsNeedLock, PairIsFromHere, HeardEnsemble
<1>8. SameAgain' /\ ClockOfThisEnsemble'
  <2>1. CASE published' = published
    BY <1>1, <2>1 DEF SameAgain, ClockOfThisEnsemble, TimeOps
  <2>2. CASE published' # published
    <3>1. ~tunePending /\ published'.sample.from = HeardEnsemble
      BY <1>1, <1>3, <2>2 DEF AcceptedAtRest, PairIsFromHere
    <3> QED
      BY <1>1, <3>1 DEF SameAgain, ClockOfThisEnsemble, HeardEnsemble
  <2> QED
    BY <2>1, <2>2
<1> QED
  BY <1>4, <1>5, <1>6, <1>7, <1>8

LEMMA ClockStart == ClockInit => ClockInductive
<1> SUFFICES ASSUME ClockInit PROVE ClockInductive
  OBVIOUS
<1>1. /\ 0 \in 0..MaxGeneration /\ 0 \in 0..MaxClockFaults /\ 1 \in Generations
  BY ClockAssumption DEF ClockAssumption, Generations
<1>2. FreshRefresh \in Refresh /\ FreshRefresh.state = "Idle"
  BY <1>1, SampleTypes DEF FreshRefresh, Refresh, RefreshStates
<1>3. sent \in [op : Commands, gen : 0..MaxGeneration] /\ sent.op = "None" /\ sent.gen = 0
  BY <1>1 DEF ClockInit, Nothing, Commands
<1>4. ClockTypeOK
  BY <1>1, <1>2, <1>3, SampleTypes DEF ClockInit, ClockTypeOK, Active
<1>5. CommandsAreKnown /\ WaitsForThisTune /\ AcceptedAtRest
  BY <1>3 DEF ClockInit, CommandsAreKnown, WaitsForThisTune, AcceptedAtRest, TimeOps
<1>6. PairsNeedLock /\ PairIsFromHere /\ NoPairDuringTune
  BY <1>2 DEF ClockInit, PairsNeedLock, PairIsFromHere, NoPairDuringTune
<1>7. OldTuneFindsNone /\ SameAgain /\ ClockOfThisEnsemble
  BY SampleTypes DEF ClockInit, OldTuneFindsNone, SameAgain, ClockOfThisEnsemble
<1> QED
  BY <1>4, <1>5, <1>6, <1>7 DEF ClockInductive

LEMMA ClockStep == ClockInductive /\ [ClockNext]_clockVars => ClockInductive'
<1> SUFFICES ASSUME ClockInductive, [ClockNext]_clockVars PROVE ClockInductive'
  OBVIOUS
<1>1. CASE SendTune
  BY <1>1, SendKeeps DEF SendTune, Commands
<1>2. CASE SendTuneStatus
  BY <1>2, SendKeeps DEF SendTuneStatus, Commands
<1>3. CASE SendTime
  BY <1>3, SendKeeps DEF SendTime, Commands, TimeOps
<1>4. CASE SendOther
  BY <1>4, SendKeeps DEF SendOther, Commands
<1>5. CASE IdlePass \/ CycleTimesOut
  BY <1>5, QuietPassKeeps
<1>6. CASE SetFreq
  BY <1>6, SetFreqKeeps
<1>7. CASE TimeComesDue \/ RetryComesDue \/ PairGoesLate \/ JumpAges \/ ClockAges \/ Acquire
  BY <1>7, AgeingKeeps
<1>8. CASE CompleteTune \/ CompleteStatus \/ StatusFails \/ ForgetOther \/ StaleTime
  BY <1>8, CompletionKeeps
<1>9. CASE TimeFails \/ AcceptLocal \/ AcceptUtc \/ AcceptConfirm
  BY <1>9, TimeKeeps
<1>10. CASE UNCHANGED clockVars
  BY <1>10 DEF clockVars, tuning, ClockInductive, ClockTypeOK, CommandsAreKnown,
               WaitsForThisTune, AcceptedAtRest, PairsNeedLock, PairIsFromHere,
               NoPairDuringTune, OldTuneFindsNone, SameAgain, ClockOfThisEnsemble,
               HeardEnsemble, Active, Generations
<1> QED
  BY <1>1, <1>2, <1>3, <1>4, <1>5, <1>6, <1>7, <1>8, <1>9, <1>10 DEF ClockNext, CompleteTime

\* Every state of the clock and of the tuning around it has its type.
THEOREM ClockTypeCorrect == ClockSpec => []ClockTypeOK
<1>1. ClockInductive => ClockTypeOK
  BY DEF ClockInductive
<1> QED
  BY <1>1, ClockStart, ClockStep, PTL DEF ClockSpec

\* However the answers of a cycle interleave with changes of the frequency, polls and
\* faults, a clock that is valid is that of the ensemble which is received.
THEOREM ClockIsFromHere == ClockSpec => []ClockOfThisEnsemble
<1>1. ClockInductive => ClockOfThisEnsemble
  BY DEF ClockInductive
<1> QED
  BY <1>1, ClockStart, ClockStep, PTL DEF ClockSpec
-----------------------------------------------------------------------------
(* Jumps.  A jump that is remembered is one that was heard with this lock, *)
(* or the lock has just gone and the next pass will forget it.             *)

JumpIsHeard ==
  refresh.jump # "none" =>
    /\ refresh.locked
    /\ refresh.jump \in heard \/ (sent.op = "None" /\ ~lock)

\* What a pass, with or without a command, keeps of a jump.
LEMMA JumpInPass ==
  ASSUME ClockTypeOK, JumpIsHeard
  PROVE  LET r == Maintained.refresh IN
           r.jump # "none" => r.locked /\ r.jump \in heard
<1> USE DEF ClockTypeOK
<1> DEFINE moved == IF refresh.context # generation
                    THEN [FreshRefresh EXCEPT !.context = generation, !.locked = refresh.locked]
                    ELSE refresh
<1>1. Maintained.refresh = LockSeen(moved, HasLock)
  BY DEF Maintained, Observed
<1>2. moved.jump # "none" => moved = refresh
  BY DEF FreshRefresh
<1>3. moved \in Refresh
  <2>1. 0 \in 0..MaxGeneration /\ generation \in 0..MaxGeneration
    BY ClockAssumption DEF ClockAssumption, Generations
  <2> QED
    BY <2>1, SampleTypes DEF FreshRefresh, Refresh, RefreshStates
<1> HIDE DEF moved
<1>4. CASE moved.locked /\ ~HasLock
  <2>1. LockSeen(moved, HasLock).jump = "none"
    BY <1>3, <1>4, FailedTypes DEF LockSeen, Refresh
  <2> QED
    BY <1>1, <2>1
<1>5. CASE ~moved.locked
  <2>1. moved.jump = "none"
    BY <1>2, <1>5 DEF JumpIsHeard
  <2>2. LockSeen(moved, HasLock).jump = "none"
    BY <1>3, <1>5, <2>1 DEF LockSeen, Refresh
  <2> QED
    BY <1>1, <2>2
<1>6. CASE moved.locked /\ HasLock
  <2>1. LockSeen(moved, HasLock) = moved
    BY <1>6 DEF LockSeen
  <2> QED
    BY <1>1, <1>2, <1>6, <2>1 DEF JumpIsHeard, HasLock
<1> QED
  BY <1>4, <1>5, <1>6

\* A pass keeps of a jump what it may.
LEMMA PassKeepsJump ==
  ASSUME ClockTypeOK, JumpIsHeard, heard' = heard,
         \/ refresh' \in {Maintained.refresh, NewCycle(Maintained.refresh)}
         \/ refresh' = FailedCycle(Maintained.refresh)
  PROVE  JumpIsHeard'
<1> DEFINE r == Maintained.refresh
<1>1. r \in Refresh /\ (r.jump # "none" => r.locked /\ r.jump \in heard)
  BY MaintainedTypes, JumpInPass
<1> HIDE DEF r
<1>2. refresh'.jump = r.jump /\ refresh'.locked = r.locked
  BY <1>1 DEF NewCycle, FailedCycle, Refresh, r
<1> QED
  BY <1>1, <1>2 DEF JumpIsHeard

\* An answer remembers a jump with the reading of its cycle, or leaves it.
LEMMA AnswerKeepsJump ==
  ASSUME ClockTypeOK, JumpIsHeard, sent.op # "None",
         refresh'.jump # "none" => /\ refresh'.locked
                                   /\ refresh'.jump \in heard'
  PROVE  JumpIsHeard'
BY DEF JumpIsHeard

LEMMA JumpStep ==
  ASSUME ClockTypeOK, JumpIsHeard, [ClockNext]_clockVars
  PROVE  JumpIsHeard'
<1> USE DEF ClockTypeOK
<1>1. CASE SendTune \/ SendTuneStatus \/ SendTime \/ SendOther
  <2>1. PICK op : PassSends(op)
    BY <1>1 DEF SendTune, SendTuneStatus, SendTime, SendOther
  <2> QED
    BY <2>1, PassKeepsJump DEF PassSends
<1>2. CASE IdlePass
  BY <1>2, PassKeepsJump DEF IdlePass
<1>3. CASE CycleTimesOut
  BY <1>3, PassKeepsJump DEF CycleTimesOut
<1>4. CASE SetFreq
  BY <1>4 DEF SetFreq, Invalidated, FreshRefresh, Refresh, JumpIsHeard
<1>5. CASE RetryComesDue \/ PairGoesLate \/ JumpAges
  <2>1. refresh'.jump = refresh.jump /\ refresh'.locked = refresh.locked
    BY <1>5 DEF RetryComesDue, PairGoesLate, JumpAges, Refresh
  <2> QED
    BY <1>5, <2>1 DEF RetryComesDue, PairGoesLate, JumpAges, tuning, JumpIsHeard
<1>6. CASE TimeComesDue \/ ClockAges \/ Acquire \/ UNCHANGED clockVars
  BY <1>6 DEF TimeComesDue, ClockAges, Acquire, clockVars, tuning, JumpIsHeard
<1>7. CASE CompleteTune \/ StatusFails \/ ForgetOther \/ StaleTime
  <2>1. sent.op # "None" /\ UNCHANGED <<refresh, heard>>
    BY <1>7 DEF CompleteTune, StatusFails, ForgetOther, StaleTime, TimeOps
  <2> QED
    BY <2>1 DEF JumpIsHeard
<1>8. CASE CompleteStatus
  <2>1. sent.op # "None" /\ sent' = Nothing /\ UNCHANGED refresh
    BY <1>8 DEF CompleteStatus, Done
  <2>2. heard' = heard \/ ~lock'
    BY <1>8 DEF CompleteStatus
  <2> QED
    BY <2>1, <2>2 DEF JumpIsHeard, Nothing
<1>9. CASE TimeFails
  <2>1. sent.op # "None" /\ UNCHANGED heard
    BY <1>9 DEF TimeFails, TimeOps
  <2>2. refresh'.jump = refresh.jump /\ refresh'.locked = refresh.locked
    BY <1>9 DEF TimeFails, FailedCycle, Refresh
  <2> QED
    BY <2>1, <2>2, AnswerKeepsJump DEF JumpIsHeard
<1>10. CASE AcceptLocal \/ AcceptUtc
  <2>1. sent.op # "None" /\ UNCHANGED heard
    BY <1>10 DEF AcceptLocal, AcceptUtc
  <2>2. refresh'.jump = refresh.jump /\ refresh'.locked = refresh.locked
    BY <1>10 DEF AcceptLocal, AcceptUtc, FailedCycle, Refresh
  <2> QED
    BY <2>1, <2>2, AnswerKeepsJump DEF JumpIsHeard
<1>11. CASE AcceptConfirm
  <2>1. sent.op = "Confirm"
    BY <1>11 DEF AcceptConfirm
  <2>2. refresh.jump # "none" => refresh.locked /\ refresh.jump \in heard
    BY <2>1 DEF JumpIsHeard
  <2>3. CASE refresh' = FailedCycle(refresh) /\ UNCHANGED heard
    BY <2>1, <2>2, <2>3, AnswerKeepsJump DEF FailedCycle, Refresh
  <2>4. ASSUME NEW reading \in Readings, Expected, heard' = heard \cup {reading},
               refresh' = [FailedCycle(refresh) EXCEPT !.jump = reading, !.jumpAge = "young"]
        PROVE  JumpIsHeard'
    <3>1. refresh'.jump = reading /\ refresh'.locked = refresh.locked
      BY <2>4, FailedTypes DEF FailedCycle, Refresh
    <3>2. refresh.locked
      BY <2>4 DEF Expected
    <3>3. refresh'.locked
      BY <3>1, <3>2
    <3>4. refresh'.jump \in heard'
      BY <2>4, <3>1
    <3>5. sent.op # "None"
      BY <2>1
    <3> QED
      BY <3>3, <3>4, <3>5, AnswerKeepsJump
  <2>5. CASE refresh' = [refresh EXCEPT !.state = "Idle", !.retryPending = FALSE,
                                        !.jump = "none", !.jumpAge = "young",
                                        !.candidate = NoSample]
    BY <2>5 DEF Refresh, JumpIsHeard
  <2> QED
    BY <1>11, <2>3, <2>4, <2>5 DEF AcceptConfirm
<1> QED
  BY <1>1, <1>2, <1>3, <1>4, <1>5, <1>6, <1>7, <1>8, <1>9, <1>10, <1>11
     DEF ClockNext, CompleteTime

\* The clock is published at the end of a cycle only, with the reading of both its answers.
LEMMA PublishedByConfirm ==
  ASSUME ClockTypeOK, JumpIsHeard, ClockNext,
         published.valid, ~published.aged, published'.valid,
         published'.sample.reading # published.sample.reading
  PROVE  published'.sample.reading \in heard
<1> USE DEF ClockTypeOK
<1>1. published' # published /\ published' # NoClock
  BY SampleTypes
<1>2. AcceptConfirm
  <2>1. ~(SendTune \/ SendTuneStatus \/ SendTime \/ SendOther)
    <3>1. ASSUME NEW op, PassSends(op) PROVE FALSE
      BY <1>1, <3>1, MaintainedTypes DEF PassSends
    <3> QED
      BY <3>1 DEF SendTune, SendTuneStatus, SendTime, SendOther
  <2>2. ~(IdlePass \/ CycleTimesOut)
    BY <1>1, MaintainedTypes DEF IdlePass, CycleTimesOut
  <2>3. ~ClockAges
    BY DEF ClockAges, Clocks
  <2> QED
    BY <1>1, <2>1, <2>2, <2>3
       DEF ClockNext, CompleteTime, SetFreq, TimeComesDue, RetryComesDue, PairGoesLate, JumpAges,
           Acquire, CompleteTune, CompleteStatus, StatusFails, ForgetOther, StaleTime, TimeFails,
           AcceptLocal, AcceptUtc
<1>3. PICK reading \in Readings :
        /\ reading = refresh.candidate.reading /\ ~Uncorroborated(reading)
        /\ published' = [valid |-> TRUE, aged |-> FALSE, sample |-> refresh.candidate]
  BY <1>1, <1>2 DEF AcceptConfirm
<1>4. refresh.jump = reading
  BY <1>3 DEF Uncorroborated
<1>5. sent.op = "Confirm" /\ reading # "none"
  BY <1>2 DEF AcceptConfirm, Readings
<1> QED
  BY <1>3, <1>4, <1>5 DEF JumpIsHeard

\* A clock in use is moved by a second cycle only, heard with the lock of the first.
THEOREM JumpsAreCorroborated == ClockSpec => JumpCorroborated
<1>1. ClockInit => ClockTypeOK /\ JumpIsHeard
  BY ClockStart DEF ClockInductive, ClockInit, FreshRefresh, JumpIsHeard
<1>2. ClockInductive /\ JumpIsHeard /\ [ClockNext]_clockVars => JumpIsHeard'
  BY JumpStep DEF ClockInductive
<1>3. ClockInductive /\ JumpIsHeard /\ [ClockNext]_clockVars =>
        [published.valid /\ ~published.aged /\ published'.valid
           /\ published'.sample.reading # published.sample.reading
         => published'.sample.reading \in heard]_clockVars
  BY PublishedByConfirm DEF ClockInductive
<1> QED
  BY <1>1, <1>2, <1>3, ClockStart, ClockStep, PTL DEF ClockSpec, JumpCorroborated
=============================================================================
