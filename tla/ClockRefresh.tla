----------------------------- MODULE ClockRefresh -----------------------------
(***************************************************************************)
(* The broadcast clock of the programme guide: the transaction local ->    *)
(* UTC -> local of epg::ClockRefresh (src/src/dab_clock_refresh.h), the    *)
(* GET_TIME commands and completions of class DAB that drive it            *)
(* (src/src/si4684.cpp), and around it as much of tuning as decides which  *)
(* ensemble answers: a tune that waits, the lock, and an RF poll that may  *)
(* report the lock of the old ensemble while the tune still waits.         *)
(*                                                                         *)
(* The tuner is external.  An answer to GET_TIME is the ensemble it comes  *)
(* from and whether it is right or off; two answers of one cycle that      *)
(* disagree do not pair (pairedOffset), a candidate that disagrees with    *)
(* the published clock is a jump.  Every deadline is a flag.               *)
(*                                                                         *)
(* Ensembles are named by the dabGeneration whose tune selected them.      *)
(* SilentFailure, LockOnly and TakeJump are faulty variants of the         *)
(* operator that follows them.                                             *)
(***************************************************************************)
EXTENDS Naturals

CONSTANTS
  MaxGeneration,  \* bound: dabGeneration, one per change of the frequency
  MaxClockFaults  \* bound: answers that fail or are off, tunes that fail, losses of the lock

ASSUME ClockAssumption == MaxGeneration \in Nat \ {0} /\ MaxClockFaults \in Nat

VARIABLES
  generation,    \* dabGeneration
  tunePending,   \* dabTuneRequestPending
  waitingStc,    \* dabWaitingForStc
  lock,          \* signallock
  sent,          \* dabCommand and its generation
  onAir,         \* external: the ensemble that is received, 0 while the tuner searches
  aim,           \* external: the ensemble it searches for
  refresh,       \* dabClockRefresh
  wanted,        \* which of dabTimeRefresh-, dabUtcRefresh- and dabClockConfirmPending are set
  published,     \* dabEpgClock
  heard,         \* history: readings of whole cycles that were refused since the lock was gained
  clockFaults    \* bound: faults so far

tuning == <<generation, tunePending, waitingStc, lock, sent, onAir, aim>>
clockVars == <<tuning, refresh, wanted, published, heard, clockFaults>>

Generations == 1..MaxGeneration
Readings == {"right", "off"}
Samples == [from : 0..MaxGeneration, reading : Readings]
NoSample == [from |-> 0, reading |-> "right"]

TimeOps == {"Local", "Utc", "Confirm"}
Commands == TimeOps \cup {"None", "Tune", "TuneStatus", "Signal", "Other"}
Nothing == [op |-> "None", gen |-> 0]

\* ClockRefresh; late, retryAhead and jumpAge stand for its time stamps.
RefreshStates == {"Idle", "AwaitLocal", "AwaitUtc", "AwaitConfirm", "Failed"}
Refresh ==
  [ state : RefreshStates, context : 0..MaxGeneration, locked : BOOLEAN,
    retryPending : BOOLEAN, retryAhead : BOOLEAN,
    candidate : Samples, late : BOOLEAN,
    jump : Readings \cup {"none"}, jumpAge : {"young", "ripe", "old"} ]

FreshRefresh ==
  [ state |-> "Idle", context |-> 0, locked |-> FALSE,
    retryPending |-> FALSE, retryAhead |-> FALSE,
    candidate |-> NoSample, late |-> FALSE, jump |-> "none", jumpAge |-> "young" ]

\* BroadcastClockSample; aged: older than resolveTime accepts.
Clocks == [valid : BOOLEAN, aged : BOOLEAN, sample : Samples]
NoClock == [valid |-> FALSE, aged |-> FALSE, sample |-> NoSample]

Active(r) == r.state \in {"AwaitLocal", "AwaitUtc", "AwaitConfirm"}

ClockTypeOK ==
  /\ generation \in Generations /\ tunePending \in BOOLEAN /\ waitingStc \in BOOLEAN
  /\ lock \in BOOLEAN
  /\ sent \in [op : Commands, gen : 0..MaxGeneration]
  /\ onAir \in 0..MaxGeneration /\ aim \in 0..MaxGeneration
  /\ refresh \in Refresh /\ (Active(refresh) => refresh.context = generation)
  /\ wanted \subseteq TimeOps
  /\ published \in Clocks /\ heard \subseteq Readings
  /\ clockFaults \in 0..MaxClockFaults

ClockInit ==
  /\ generation = 1 /\ tunePending = TRUE /\ waitingStc = FALSE /\ lock = FALSE
  /\ sent = Nothing /\ onAir = 0 /\ aim = 0
  /\ refresh = FreshRefresh /\ wanted = {} /\ published = NoClock
  /\ heard = {} /\ clockFaults = 0

-----------------------------------------------------------------------------
(* The transaction, as operators on the record. *)

ReadyForCycle(r) == ~Active(r) /\ ~(r.retryPending /\ r.retryAhead)

\* The state is left as it is.
SilentFailure(r) ==
  [r EXCEPT !.retryPending = TRUE, !.retryAhead = TRUE, !.candidate = NoSample, !.late = FALSE]

\* ClockRefresh::fail
FailedCycle(r) ==
  [r EXCEPT !.state = "Failed", !.retryPending = TRUE, !.retryAhead = TRUE,
            !.candidate = NoSample, !.late = FALSE]

\* ClockRefresh::invalidate
Invalidated(r) == [FreshRefresh EXCEPT !.context = r.context]

\* ClockRefresh::begin
NewCycle(r) ==
  [r EXCEPT !.context = generation, !.state = "AwaitLocal", !.retryPending = FALSE,
            !.candidate = NoSample, !.late = FALSE]

\* The lock transitions of ClockRefresh::observe
LockSeen(r, hasLock) ==
  IF r.locked /\ ~hasLock THEN [FailedCycle(r) EXCEPT !.locked = FALSE, !.jump = "none", !.jumpAge = "young"]
  ELSE IF ~r.locked /\ hasLock
  THEN [r EXCEPT !.state = "Idle", !.retryPending = FALSE, !.locked = TRUE]
  ELSE r

\* ClockRefresh::observe without its time-out.  A new context cannot find a clock that
\* is still valid: setFreq has invalidated it.
Observed(r, hasLock) ==
  LET new == r.context # generation IN
  [ refresh |-> LockSeen(IF new THEN [FreshRefresh EXCEPT !.context = generation,
                                                          !.locked = r.locked]
                         ELSE r, hasLock),
    clock   |-> IF new THEN NoClock ELSE published,
    fresh   |-> hasLock /\ (new \/ ~r.locked) ]

\* The lock alone decides.
LockOnly == lock

\* The lock belongs to the old ensemble while a tune waits (maintainDabClock).
HasLock == lock /\ ~tunePending

-----------------------------------------------------------------------------
(* A pass of the scheduler: maintainDabClock, then at most one command. *)

Maintained ==
  LET seen == Observed(refresh, HasLock) IN
  [ refresh   |-> seen.refresh,
    published |-> seen.clock,
    wanted    |-> (IF Active(seen.refresh) THEN wanted ELSE wanted \ {"Utc", "Confirm"})
                  \cup (IF seen.fresh THEN {"Local"} ELSE {}) ]

Command(op) == [op |-> op, gen |-> generation]
Unsent == sent.op = "None"

\* GET_TIME comes in the order confirm, UTC, local.
TimeCommand(m) ==
  IF ~lock THEN "None"
  ELSE IF "Confirm" \in m.wanted THEN "Confirm"
  ELSE IF "Utc" \in m.wanted THEN "Utc"
  ELSE IF ReadyForCycle(m.refresh) /\ ("Local" \in m.wanted \/ m.refresh.retryPending) THEN "Local"
  ELSE "None"

PassSends(op) ==
  LET m == Maintained IN
  /\ Unsent
  /\ sent' = Command(op)
  /\ wanted' = m.wanted \ {op} /\ published' = m.published
  /\ refresh' = IF op = "Local" THEN NewCycle(m.refresh) ELSE m.refresh
  /\ UNCHANGED <<generation, waitingStc, lock, onAir, aim, heard, clockFaults>>

SendTune == tunePending /\ PassSends("Tune") /\ tunePending' = FALSE
SendTuneStatus == waitingStc /\ PassSends("TuneStatus") /\ UNCHANGED tunePending
SendTime ==
  /\ \E op \in TimeOps : op = TimeCommand(Maintained) /\ PassSends(op)
  /\ UNCHANGED tunePending

\* Services are stopped before a tune is sent: the RF poll and other commands come between.
SendOther == (\E op \in {"Signal", "Other"} : PassSends(op)) /\ UNCHANGED tunePending

IdlePass ==
  LET m == Maintained IN
  /\ Unsent
  /\ wanted' = m.wanted /\ published' = m.published /\ refresh' = m.refresh
  /\ UNCHANGED <<tuning, heard, clockFaults>>

-----------------------------------------------------------------------------
(* Requests, and the passing of time. *)

Fault == clockFaults < MaxClockFaults /\ clockFaults' = clockFaults + 1
Whether(ok) == IF ok THEN UNCHANGED clockFaults ELSE Fault

\* DAB::setFreq and the cold recovery
SetFreq ==
  /\ generation < MaxGeneration
  /\ generation' = generation + 1
  /\ tunePending' = TRUE /\ waitingStc' = FALSE /\ lock' = FALSE
  /\ refresh' = Invalidated(refresh) /\ wanted' = {}
  /\ published' = NoClock
  /\ heard' = {}
  /\ UNCHANGED <<sent, onAir, aim, clockFaults>>

\* updateDabPeriodicRequests, every 60 s with the lock
TimeComesDue ==
  /\ lock /\ "Local" \notin wanted
  /\ wanted' = wanted \cup {"Local"}
  /\ UNCHANGED <<tuning, refresh, published, heard, clockFaults>>

RetryComesDue ==
  /\ refresh.retryAhead
  /\ refresh' = [refresh EXCEPT !.retryAhead = FALSE]
  /\ UNCHANGED <<tuning, wanted, published, heard, clockFaults>>

\* Two seconds after the UTC answer the pair is too old.
PairGoesLate ==
  /\ refresh.state = "AwaitConfirm" /\ ~refresh.late /\ Fault
  /\ refresh' = [refresh EXCEPT !.late = TRUE]
  /\ UNCHANGED <<tuning, wanted, published, heard>>

\* Ten seconds after the first answer was asked for the cycle has timed out.
CycleTimesOut ==
  LET m == Maintained IN
  /\ Unsent /\ Active(m.refresh) /\ Fault
  /\ refresh' = FailedCycle(m.refresh) /\ published' = m.published
  /\ wanted' = m.wanted \ {"Utc", "Confirm"}
  /\ UNCHANGED <<tuning, heard>>

JumpAges ==
  /\ refresh.jump # "none" /\ refresh.jumpAge # "old"
  /\ refresh' = [refresh EXCEPT !.jumpAge = IF @ = "young" THEN "ripe" ELSE "old"]
  /\ UNCHANGED <<tuning, wanted, published, heard, clockFaults>>

ClockAges ==
  /\ published.valid /\ ~published.aged
  /\ published' = [published EXCEPT !.aged = TRUE]
  /\ UNCHANGED <<tuning, refresh, wanted, heard, clockFaults>>

\* The tuner has found the ensemble it searched for.
Acquire ==
  /\ onAir = 0 /\ aim # 0
  /\ onAir' = aim
  /\ UNCHANGED <<generation, tunePending, waitingStc, lock, sent, aim, refresh, wanted,
                 published, heard, clockFaults>>

-----------------------------------------------------------------------------
(* Completions. *)

Done == sent' = Nothing
OfThisTune == sent.gen = generation

\* The tuner starts to search, whether or not its answer arrives.  Without an answer the
\* tune waits again, a refused one may be given up, and one of an earlier request is only
\* forgotten.
CompleteTune ==
  /\ sent.op = "Tune" /\ Done
  /\ \E executed, ok, again \in BOOLEAN :
       /\ ok => executed /\ ~again
       /\ executed /\ ~ok => again
       /\ Whether(ok)
       /\ IF executed THEN onAir' = 0 /\ aim' = sent.gen ELSE UNCHANGED <<onAir, aim>>
       /\ waitingStc' = IF OfThisTune THEN ok ELSE waitingStc
       /\ tunePending' = IF OfThisTune THEN again ELSE tunePending
  /\ UNCHANGED <<generation, lock, refresh, wanted, published, heard>>

\* A TuneStatus that fails ends the wait; the tune is sent again or given up.
StatusFails ==
  /\ sent.op \in {"TuneStatus", "Signal"} /\ Done /\ Fault
  /\ IF OfThisTune /\ sent.op = "TuneStatus"
     THEN waitingStc' = FALSE /\ tunePending' \in BOOLEAN
     ELSE UNCHANGED <<waitingStc, tunePending>>
  /\ UNCHANGED <<generation, lock, onAir, aim, refresh, wanted, published, heard>>

\* TuneStatus and SignalStatus report the lock; to gain it asks for the time.
CompleteStatus ==
  /\ sent.op \in {"TuneStatus", "Signal"} /\ Done
  /\ IF OfThisTune
     THEN \E acquired \in {onAir # 0, FALSE} :
            /\ Whether(acquired = (onAir # 0))
            /\ lock' = acquired
            /\ waitingStc' = (waitingStc /\ sent.op = "Signal")
            /\ wanted' = IF acquired /\ (sent.op = "TuneStatus" \/ ~lock)
                         THEN wanted \cup {"Local"} ELSE wanted
            /\ heard' = IF acquired THEN heard ELSE {}
     ELSE UNCHANGED <<lock, waitingStc, wanted, heard, clockFaults>>
  /\ UNCHANGED <<generation, tunePending, onAir, aim, refresh, published>>

ForgetOther ==
  /\ sent.op = "Other" /\ Done
  /\ UNCHANGED <<generation, tunePending, waitingStc, lock, onAir, aim, refresh, wanted,
                 published, heard, clockFaults>>

\* A time that was asked for before the frequency was changed
StaleTime ==
  /\ sent.op \in TimeOps /\ ~OfThisTune /\ Done
  /\ UNCHANGED <<generation, tunePending, waitingStc, lock, onAir, aim, refresh, wanted,
                 published, heard, clockFaults>>

\* Refused (always so while the tuner searches), not answered, or not a date.
TimeFails ==
  /\ sent.op \in TimeOps /\ OfThisTune /\ Done
  /\ IF onAir = 0 THEN UNCHANGED clockFaults ELSE Fault
  /\ refresh' = FailedCycle(refresh) /\ wanted' = wanted \ {"Utc", "Confirm"}
  /\ UNCHANGED <<generation, tunePending, waitingStc, lock, onAir, aim, published, heard>>

TimeAnswer(reading) ==
  /\ sent.op \in TimeOps /\ OfThisTune /\ onAir # 0 /\ Done
  /\ Whether(reading = "right")
  /\ UNCHANGED <<generation, tunePending, waitingStc, lock, onAir, aim>>

\* acceptLocal and acceptUtc refuse an answer they do not wait for.
Awaits == [Local |-> "AwaitLocal", Utc |-> "AwaitUtc", Confirm |-> "AwaitConfirm"]
Expected == refresh.context = generation /\ refresh.locked /\ refresh.state = Awaits[sent.op]

AcceptLocal ==
  /\ sent.op = "Local"
  /\ \E reading \in Readings : TimeAnswer(reading)
  /\ refresh' = IF Expected THEN [refresh EXCEPT !.state = "AwaitUtc"] ELSE FailedCycle(refresh)
  /\ wanted' = IF Expected THEN wanted \cup {"Utc"} ELSE wanted \ {"Utc"}
  /\ UNCHANGED <<published, heard>>

AcceptUtc ==
  /\ sent.op = "Utc"
  /\ \E reading \in Readings :
       /\ TimeAnswer(reading)
       /\ refresh' = IF Expected
                     THEN [refresh EXCEPT !.state = "AwaitConfirm", !.late = FALSE,
                                          !.candidate = [from |-> onAir, reading |-> reading]]
                     ELSE FailedCycle(refresh)
  /\ wanted' = IF Expected THEN wanted \cup {"Confirm"} ELSE wanted \ {"Confirm"}
  /\ UNCHANGED <<published, heard>>

\* Any jump is taken over.
TakeJump(reading) == FALSE

\* The jump needs a second cycle that agrees with the first, 1 s to 120 s after it.
Uncorroborated(reading) ==
  /\ published.valid /\ ~published.aged /\ published.sample.reading # reading
  /\ ~(refresh.jump = reading /\ refresh.jumpAge = "ripe")

AcceptConfirm ==
  /\ sent.op = "Confirm"
  /\ \E reading \in Readings :
       /\ TimeAnswer(reading)
       /\ LET paired == Expected /\ ~refresh.late /\ reading = refresh.candidate.reading IN
          IF ~paired
             THEN refresh' = FailedCycle(refresh) /\ UNCHANGED <<published, heard>>
             ELSE IF Uncorroborated(reading)
             THEN /\ refresh' = [FailedCycle(refresh) EXCEPT !.jump = reading, !.jumpAge = "young"]
                  /\ heard' = heard \cup {reading} /\ UNCHANGED published
             ELSE /\ heard' = {}
                  /\ refresh' = [refresh EXCEPT !.state = "Idle", !.retryPending = FALSE,
                                                !.jump = "none", !.jumpAge = "young",
                                                !.candidate = NoSample]
                  /\ published' = [valid |-> TRUE, aged |-> FALSE, sample |-> refresh.candidate]
  /\ UNCHANGED wanted

CompleteTime == StaleTime \/ TimeFails \/ AcceptLocal \/ AcceptUtc \/ AcceptConfirm

ClockNext ==
  \/ SendTune \/ SendTuneStatus \/ SendTime \/ SendOther \/ IdlePass
  \/ SetFreq \/ TimeComesDue \/ RetryComesDue \/ PairGoesLate \/ CycleTimesOut
  \/ JumpAges \/ ClockAges \/ Acquire
  \/ CompleteTune \/ CompleteStatus \/ StatusFails \/ ForgetOther \/ CompleteTime

ClockSpec == ClockInit /\ [][ClockNext]_clockVars

\* The main loop runs the scheduler, metadata commands have their turn (DsrvDrain,
\* MetadataQueue), the transport ends every command, and deadlines pass.
ClockFairness ==
  /\ WF_clockVars(SendTune) /\ WF_clockVars(SendTuneStatus)
  /\ SF_clockVars(SendTime)
  /\ WF_clockVars(CompleteTune) /\ WF_clockVars(CompleteStatus) /\ WF_clockVars(ForgetOther)
  /\ WF_clockVars(CompleteTime)
  /\ WF_clockVars(TimeComesDue) /\ WF_clockVars(RetryComesDue) /\ WF_clockVars(Acquire)

ClockFairSpec == ClockSpec /\ ClockFairness

-----------------------------------------------------------------------------
(* Properties. *)

\* The clock that dates the programme guide comes from the ensemble that is received now
\* (or is searched for once more, after its tune was repeated), although the answers of one
\* cycle are spread over several passes, the generation changes before the tuner does, and
\* an RF poll may meanwhile report the lock of the old ensemble.
ClockOfThisEnsemble ==
  published.valid => published.sample.from = (IF onAir = 0 THEN aim ELSE onAir)

\* A clock that is in use moves only when a second whole cycle, without a loss of the lock
\* between the two, has said the same (dab_clock_refresh.h:78).
JumpCorroborated ==
  [][published.valid /\ ~published.aged /\ published'.valid
       /\ published'.sample.reading # published.sample.reading
     => published'.sample.reading \in heard]_clockVars

\* While the lock is kept the clock is published, and renewed before it is of no use.
ClockPublished == <>[]HasLock => []<>(published.valid /\ ~published.aged)
=============================================================================
