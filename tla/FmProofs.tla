------------------------------ MODULE FmProofs -------------------------------
(***************************************************************************)
(* That AF following is safe, for every set of frequencies, programmes and *)
(* announcements, right or wrong, and any number of requests of the user:  *)
(* types and alternatives without a condition, the rest in every behaviour *)
(* in which no request is refused (RequestRefused), in particular in all   *)
(* of them with ProbeRequests = FALSE.                                     *)
(*                                                                         *)
(* The argument: while nothing is tuned and nothing is probed, the tuner   *)
(* is where the driver says, on a station of the programme asked for       *)
(* (RestIsReceived).  A sweep remembers that frequency and its programme,  *)
(* keeps the headphones muted, and knows at each step where the tuner is   *)
(* or goes (SweepIsAccounted); it ends there, or on a frequency on which   *)
(* the same PI was read.                                                   *)
(*                                                                         *)
(* Over it, that the full scan is right: the list fits and survives        *)
(* without a condition, and what is listed was received where it is listed *)
(* as long as nobody tunes into the scan (FineTuneInScan = FALSE).  Every  *)
(* list of the next state is one of a few of this one (ListStep), and the  *)
(* tuner rests on the candidate during the dwell, because the scan keeps   *)
(* sweeps, seeks and the user away (ScanIsHeld, DwellIsAtRest).            *)
(***************************************************************************)
EXTENDS FmScan, TLAPS, FiniteSetTheorems

\* A sweep names the frequencies it needs.
SweepIsNamed ==
  Probing(af) => af.original \in Freqs /\ (af.state # "RestoreTune" => af.candidate \in Freqs)

\* Where the tuner is, or goes.
Target == IF to # 0 THEN to ELSE at

Good(f) == f = chosen \/ (Programme[f] = Programme[chosen] /\ Programme[f] # 0)

\* The driver waits for every tune.
TuneIsAwaited ==
  /\ to # 0 \/ busy => tunePending
  /\ seekPending => tunePending /\ ~Probing(af)

\* A tune that is no probe leads to the frequency asked for, and no RDS is known.
TuneIsAsked ==
  tunePending /\ ~Probing(af) =>
    /\ fmPi = 0
    /\ ~seekPending => Target = chosen

RestIsReceived ==
  ~tunePending /\ ~Probing(af) =>
    /\ fmFrequency = at /\ Good(at)
    /\ fmPi # 0 => fmPi = Programme[at]

SweepIsAccounted ==
  Probing(af) =>
    /\ muted
    /\ af.original = fmFrequency /\ Good(af.original)
    /\ fmPi # 0 /\ af.expected = fmPi /\ fmPi = Programme[af.original]
    /\ tunePending <=> af.state # "CandidatePi"
    /\ Target = (IF af.state = "RestoreTune" THEN af.original ELSE af.candidate)
    /\ af.pi # 0 => af.state = "CandidatePi" /\ af.pi = Programme[at]

\* The alternatives were announced by stations of the programme.
AfOfProgramme ==
  \A f \in fmAf : fmPi # 0 /\ \E g \in Freqs : Programme[g] = fmPi /\ f \in Announced[g]

\* The display follows the receiver.
ShownFollows == ~tuning /\ ~tunePending => fmfreq = fmFrequency

FmSound ==
  /\ TuneIsAwaited /\ TuneIsAsked /\ RestIsReceived /\ SweepIsAccounted
  /\ AfOfProgramme /\ ShownFollows

FmInductive == FmTypeOK /\ SweepIsNamed /\ FmSound

\* setFmFrequency while the tune of a sweep waits for CTS: the frequency is noted, and the tuner
\* goes where the sweep has sent it (si4684.cpp 2498).
RequestRefused == busy /\ \E f \in Freqs : SetFmFrequency(f)

-----------------------------------------------------------------------------
(* Types. *)

LEMMA StationTypes ==
  ASSUME NEW f \in Freqs
  PROVE  f # 0 /\ Programme[f] \in Programmes /\ Announced[f] \subseteq Freqs
  BY FmAssumption DEF FmAssumption, Programmes

LEMMA NoSweepIsQuiet ==
  /\ NoSweep \in Sweeps /\ ~Probing(NoSweep)
  /\ \A state \in AfStates : InState(state) \in Sweeps /\ InState(state).state = state
  BY DEF NoSweep, Sweeps, AfStates, Probing, InState

LEMMA RequestCounted ==
  ASSUME Asks, fmEvents \in 0..MaxFmEvents
  PROVE  fmEvents' \in 0..MaxFmEvents
  BY FmAssumption DEF Asks, FmAssumption

\* A pass leaves the sweep alone, or ends one that has accepted its candidate, or goes on
\* without a sweep.
LEMMA QuietSweep ==
  ASSUME af \in Sweeps, NEW a \in QuietSweeps
  PROVE  /\ a \in Sweeps
         /\ \/ a = af /\ ~Accepted(a)
            \/ ~Probing(a) /\ ~Probing(af) /\ ~Accepted(a)
            \/ ~Probing(a) /\ Accepted(a) /\ CandidateIsBetter /\ af.state = "CandidatePi"
<1> USE NoSweepIsQuiet DEF QuietSweeps, Probing, Accepted, AfStates, NoSweep
<1>1. CASE ~Usable
  BY <1>1
<1>2. CASE Usable /\ af.state \in {"Idle", "WeakHold"}
  BY <1>2
<1>3. CASE Usable /\ af.state = "Cooldown"
  BY <1>3
<1>4. CASE Usable /\ af.state = "CandidatePi"
  BY <1>4
<1>5. CASE Usable /\ af.state \in {"CandidateTune", "RestoreTune"}
  BY <1>5
<1> QED
  BY <1>1, <1>2, <1>3, <1>4, <1>5 DEF Sweeps

\* The samples of a candidate.
LEMMA SampledSweep ==
  ASSUME NEW a \in Sweeps, NEW s \in Sampled(a)
  PROVE  /\ s \in Sweeps
         /\ s.state = a.state /\ s.candidate = a.candidate /\ s.pi = a.pi
         /\ s.original = a.original /\ s.expected = a.expected
  BY DEF Sampled, Sweeps

\* A tune of the sweep.
LEMMA ProbeTune ==
  ASSUME NEW a \in Sweeps, NEW f \in Freqs, StartAfTune(f, a)
  PROVE  /\ to' = f /\ at' = at /\ busy' = TRUE /\ tunePending' = TRUE /\ seekPending' = FALSE
         /\ af' \in Sweeps /\ af'.state = a.state /\ af'.pi = 0
         /\ af'.original = a.original /\ af'.expected = a.expected /\ af'.candidate = a.candidate
<1>1. af' = [a EXCEPT !.pi = 0, !.samples = 0]
  BY DEF StartAfTune
<1>2. 0 \in Programmes \cup {0} /\ 0 \in 0..2
  OBVIOUS
<1>3. [a EXCEPT !.pi = 0, !.samples = 0] \in Sweeps
  BY <1>2 DEF Sweeps
<1> QED
  BY <1>1, <1>3 DEF StartAfTune, StartTune, Sweeps

\* Where it leads, whatever it follows.
LEMMA AfTuneTypes ==
  ASSUME NEW a \in Sweeps, a.original \in Freqs, Restore(a) \/ StartNextCandidate(a)
  PROVE  /\ to' \in Freqs /\ at' = at /\ busy' = TRUE /\ tunePending' = TRUE /\ seekPending' = FALSE
         /\ af' \in Sweeps /\ af'.state \in {"CandidateTune", "RestoreTune"}
         /\ af'.pi = 0 /\ af'.original = a.original /\ af'.expected = a.expected
         /\ to' = IF af'.state = "RestoreTune" THEN af'.original ELSE af'.candidate
<1>1. CASE Restore(a)
  <2> DEFINE b == [a EXCEPT !.state = "RestoreTune"]
  <2>1. b \in Sweeps /\ b.state = "RestoreTune" /\ b.original = a.original /\ b.expected = a.expected
    BY DEF Sweeps, AfStates
  <2>2. StartAfTune(a.original, b)
    BY <1>1 DEF Restore
  <2> HIDE DEF b
  <2> QED
    BY <2>1, <2>2, ProbeTune
<1>2. CASE StartNextCandidate(a) /\ ~Restore(a)
  <2>1. PICK f \in a.left \ {a.original} :
          StartAfTune(f, [a EXCEPT !.state = "CandidateTune", !.candidate = f, !.left = @ \ {f}])
    BY <1>2 DEF StartNextCandidate
  <2> DEFINE b == [a EXCEPT !.state = "CandidateTune", !.candidate = f, !.left = @ \ {f}]
  <2>2. f \in Freqs
    BY DEF Sweeps
  <2>3. /\ b \in Sweeps /\ b.state = "CandidateTune" /\ b.candidate = f
        /\ b.original = a.original /\ b.expected = a.expected
    BY <2>2 DEF Sweeps, AfStates
  <2>4. StartAfTune(f, b)
    BY <2>1
  <2> HIDE DEF b
  <2> QED
    BY <2>2, <2>3, <2>4, ProbeTune
<1> QED
  BY <1>1, <1>2

\* A sweep begins where the receiver is.
LEMMA NewSweepTypes ==
  ASSUME FmTypeOK
  PROVE  /\ NewSweep \in Sweeps /\ NewSweep.original = fmFrequency
         /\ NewSweep.expected = fmPi
  BY NoSweepIsQuiet DEF FmTypeOK, NewSweep, Sweeps, NoSweep, AfStates

LEMMA RefreshTypes ==
  ASSUME FmTypeOK, fmFrequency' \in Freqs, Refresh
  PROVE  /\ muted' \in BOOLEAN /\ fmfreq' \in Freqs
         /\ tuning' \in BOOLEAN /\ seek' \in BOOLEAN /\ started' \in BOOLEAN
         /\ allowed' \in BOOLEAN /\ fmEvents' \in 0..MaxFmEvents
  BY DEF FmTypeOK, Refresh, Probing

\* The tune that a pass sends for the sweep.
LEMMA AfTunesFacts ==
  ASSUME FmTypeOK, SweepIsNamed, AfTunes
  PROVE  /\ ~tunePending
         /\ to' \in Freqs /\ at' = at /\ busy' = TRUE /\ tunePending' = TRUE /\ seekPending' = FALSE
         /\ af' \in Sweeps /\ Probing(af') /\ af'.state # "CandidatePi" /\ af'.pi = 0
         /\ to' = IF af'.state = "RestoreTune" THEN af'.original ELSE af'.candidate
         /\ IF Probing(af) THEN af'.original = af.original /\ af'.expected = af.expected
            ELSE af'.original = fmFrequency /\ af'.expected = fmPi /\ fmPi # 0
<1> USE DEF FmTypeOK
<1>1. CASE Probing(af) /\ (Restore(af) \/ StartNextCandidate(af))
  <2>1. af.original \in Freqs
    BY <1>1 DEF SweepIsNamed
  <2> QED
    BY <1>1, <2>1, AfTuneTypes DEF Probing, AfTunes
<1>2. CASE ~Probing(af) /\ Usable /\ StartNextCandidate(NewSweep)
  BY <1>2, NewSweepTypes, AfTuneTypes DEF Probing, AfTunes, Usable
<1> QED
  BY <1>1, <1>2 DEF AfTunes, Probing

LEMMA PollTuneTypes ==
  ASSUME FmTypeOK, SweepIsNamed, NEW a \in QuietSweeps, PollTune(a)
  PROVE  /\ af' \in Sweeps /\ SweepIsNamed'
         /\ tunePending' \in BOOLEAN /\ seekPending' \in BOOLEAN
         /\ fmFrequency' \in Freqs /\ fmValid' \in BOOLEAN /\ chosen' \in Freqs
<1> USE DEF FmTypeOK
<1>1. a \in Sweeps /\ (Probing(a) => a = af)
  BY QuietSweep
<1>2. CASE a.state = "CandidateTune"
  <2>1. CASE TuneOver
    <3> DEFINE b == [a EXCEPT !.state = "CandidatePi"]
    <3>1. b \in Sweeps /\ b.state = "CandidatePi" /\ b.original = a.original /\ b.candidate = a.candidate
      BY <1>1 DEF Sweeps, AfStates
    <3>2. af' \in Sampled(b)
      BY <1>2, <2>1 DEF PollTune
    <3>3. af' \in Sweeps /\ af'.original = a.original /\ af'.candidate = a.candidate
      BY <3>1, <3>2, SampledSweep
    <3> HIDE DEF b
    <3> QED
      BY <1>1, <1>2, <2>1, <3>3 DEF PollTune, Probing, SweepIsNamed, TuneOver
  <2>2. CASE ~TuneOver
    BY <1>1, <1>2, <2>2 DEF PollTune, Probing, SweepIsNamed
  <2> QED
    BY <2>1, <2>2
<1>3. CASE a.state = "RestoreTune"
  BY <1>1, <1>3, NoSweepIsQuiet DEF PollTune, Probing, SweepIsNamed, TuneOver, AfStates
<1>4. CASE a.state \notin {"CandidateTune", "RestoreTune"}
  BY <1>1, <1>4 DEF PollTune, Probing, SweepIsNamed, TuneOver, Validity
<1> QED
  BY <1>2, <1>3, <1>4

LEMMA PollSignalTypes ==
  ASSUME FmTypeOK, SweepIsNamed, NEW a \in QuietSweeps, PollSignalQuality(a)
  PROVE  /\ af' \in Sweeps /\ SweepIsNamed'
         /\ fmFrequency' \in Freqs /\ fmValid' \in BOOLEAN
<1> USE DEF FmTypeOK
<1>1. a \in Sweeps /\ (Probing(a) => a = af)
  BY QuietSweep
<1>2. CASE a.state = "CandidatePi"
  BY <1>1, <1>2, SampledSweep DEF PollSignalQuality, Probing, SweepIsNamed
<1>3. CASE a.state # "CandidatePi"
  BY <1>1, <1>3 DEF PollSignalQuality, Probing, SweepIsNamed, Validity
<1> QED
  BY <1>2, <1>3

\* A candidate that is accepted is a frequency.
LEMMA AcceptedTypes ==
  ASSUME FmTypeOK, SweepIsNamed, NEW a \in QuietSweeps
  PROVE  FrequencyAfter(a) \in Freqs /\ ValidAfter(a) \in BOOLEAN
  BY QuietSweep DEF FmTypeOK, SweepIsNamed, Probing, FrequencyAfter, ValidAfter, Accepted

LEMMA ReadRdsTypes ==
  ASSUME FmTypeOK, SweepIsNamed, NEW a \in QuietSweeps, ReadRds(a)
  PROVE  /\ af' \in Sweeps /\ SweepIsNamed'
         /\ fmPi' \in Programmes \cup {0} /\ fmAf' \subseteq Freqs
<1> USE DEF FmTypeOK
<1>1. a \in Sweeps /\ (Probing(a) => a = af) /\ Programme[at] \in Programmes
  BY QuietSweep, StationTypes
<1>2. CASE a.state = "CandidatePi"
  <2>1. af' = [a EXCEPT !.pi = Programme[at]]
    BY <1>2 DEF ReadRds, RdsOfCandidate
  <2>2. af' \in Sweeps /\ af'.state = a.state /\ af'.original = a.original /\ af'.candidate = a.candidate
    BY <1>1, <2>1 DEF Sweeps
  <2> QED
    BY <1>1, <1>2, <2>2 DEF ReadRds, RdsOfCandidate, Probing, SweepIsNamed
<1>3. CASE a.state # "CandidatePi"
  <2>1. PICK received \in SUBSET Announced[at] :
          fmAf' = received \cup (IF fmPi = fmPi' THEN fmAf ELSE {})
    BY <1>3 DEF ReadRds, RdsOfCandidate
  <2>2. fmAf' \subseteq Freqs
    BY <2>1, StationTypes
  <2> QED
    BY <1>1, <1>3, <2>2 DEF ReadRds, RdsOfCandidate, Probing, SweepIsNamed
<1> QED
  BY <1>2, <1>3

LEMMA SetFrequencyTypes ==
  ASSUME FmTypeOK, NEW f \in Freqs, SetFmFrequency(f)
  PROVE  /\ at' \in Freqs /\ to' \in Freqs \cup {0}
         /\ busy' \in BOOLEAN /\ tunePending' \in BOOLEAN /\ seekPending' \in BOOLEAN
         /\ fmFrequency' \in Freqs /\ fmValid' \in BOOLEAN
         /\ fmPi' \in Programmes \cup {0} /\ fmAf' \subseteq Freqs
         /\ af' \in Sweeps /\ ~Probing(af') /\ chosen' \in Freqs
  BY NoSweepIsQuiet DEF FmTypeOK, SetFmFrequency, StartTune, ClearFmData

LEMMA StartSeekTypes ==
  ASSUME FmTypeOK, StartFmSeek
  PROVE  /\ at' \in Freqs /\ to' \in Freqs
         /\ busy' \in BOOLEAN /\ tunePending' \in BOOLEAN /\ seekPending' \in BOOLEAN
         /\ fmFrequency' \in Freqs /\ fmValid' \in BOOLEAN
         /\ fmPi' \in Programmes \cup {0} /\ fmAf' \subseteq Freqs
         /\ af' \in Sweeps /\ ~Probing(af')
<1>1. PICK f \in Freqs : StartTune(f)
  BY DEF StartFmSeek
<1> QED
  BY <1>1, NoSweepIsQuiet DEF FmTypeOK, StartFmSeek, StartTune, ClearFmData

LEMMA FmTypeInit ==
  ASSUME FmInit
  PROVE  FmTypeOK /\ SweepIsNamed
<1>1. af \in Sweeps /\ ~Probing(af)
  BY NoSweepIsQuiet DEF FmInit
<1>2. fmEvents \in 0..MaxFmEvents
  BY FmAssumption DEF FmInit, FmAssumption
<1>3. /\ at \in Freqs /\ to \in Freqs \cup {0} /\ fmFrequency \in Freqs
      /\ fmfreq \in Freqs /\ chosen \in Freqs
  BY DEF FmInit
<1>4. fmPi \in Programmes \cup {0} /\ fmAf \subseteq Freqs
  BY DEF FmInit
<1> QED
  BY <1>1, <1>2, <1>3, <1>4 DEF FmInit, FmTypeOK, SweepIsNamed

LEMMA FmTypeStep ==
  ASSUME FmTypeOK, SweepIsNamed, [FmNext]_fmVars
  PROVE  FmTypeOK' /\ SweepIsNamed'
<1>1. CASE Arrive
  BY <1>1 DEF Arrive, FmTypeOK, SweepIsNamed, reception, controls
<1>2. CASE TunePass
  <2>1. PICK a \in QuietSweeps : PollTune(a)
    BY <1>2 DEF TunePass
  <2>2. at' = at /\ to' = to /\ fmPi' = fmPi /\ fmAf' = fmAf
    BY <2>1 DEF PollTune
  <2> QED
    BY <1>2, <2>1, <2>2, PollTuneTypes, RefreshTypes DEF TunePass, FmTypeOK
<1>3. CASE SignalPass
  <2>1. PICK a \in QuietSweeps : PollSignalQuality(a)
    BY <1>3 DEF SignalPass
  <2>2. UNCHANGED <<at, to, tunePending, seekPending, fmPi, fmAf, chosen>>
    BY <2>1 DEF PollSignalQuality
  <2> QED
    BY <1>3, <2>1, <2>2, PollSignalTypes, RefreshTypes DEF SignalPass, FmTypeOK
<1>4. CASE RdsPass
  <2>1. PICK a \in QuietSweeps : ReadRds(a)
    BY <1>4 DEF RdsPass
  <2>2. /\ fmFrequency' \in Freqs /\ fmValid' \in BOOLEAN
        /\ UNCHANGED <<at, to, tunePending, seekPending, chosen>>
    BY <2>1, AcceptedTypes DEF ReadRds
  <2> QED
    BY <1>4, <2>1, <2>2, ReadRdsTypes, RefreshTypes DEF RdsPass, FmTypeOK
<1>5. CASE EmptyPass
  <2>1. PICK a \in QuietSweeps : NothingDue(a)
    BY <1>5 DEF EmptyPass
  <2>2. /\ fmFrequency' \in Freqs /\ fmValid' \in BOOLEAN /\ af' \in Sweeps /\ SweepIsNamed'
        /\ UNCHANGED <<at, to, tunePending, seekPending, fmPi, fmAf, chosen>>
    <3>1. fmFrequency' \in Freqs /\ fmValid' \in BOOLEAN
      BY <2>1, AcceptedTypes DEF NothingDue
    <3> QED
      BY <2>1, <3>1, QuietSweep DEF NothingDue, FmTypeOK, SweepIsNamed
  <2> QED
    BY <1>5, <2>2, RefreshTypes DEF EmptyPass, FmTypeOK
<1>6. CASE AfPass
  <2>1. UNCHANGED <<reception, chosen>>
    BY <1>6 DEF AfPass, AfTunes
  <2>2. af'.original \in Freqs
    BY <1>6, AfTunesFacts DEF AfPass, FmTypeOK, SweepIsNamed
  <2>3. SweepIsNamed'
    BY <1>6, <2>2, AfTunesFacts DEF AfPass, SweepIsNamed
  <2> QED
    BY <1>6, <2>1, <2>3, AfTunesFacts, RefreshTypes DEF AfPass, FmTypeOK, reception
<1>7. CASE BlockedPass
  BY <1>7, RefreshTypes DEF BlockedPass, FmTypeOK, SweepIsNamed, reception
<1>8. CASE BeginSeek
  BY <1>8, StartSeekTypes DEF BeginSeek, FmTypeOK, SweepIsNamed
<1>9. CASE EndSeek
  BY <1>9 DEF EndSeek, FmTypeOK, SweepIsNamed, tuner, reception
<1>10. CASE TuneByKnob
  BY <1>10, SetFrequencyTypes DEF TuneByKnob, FmTypeOK, SweepIsNamed
<1>11. CASE TurnKnob
  BY <1>11, RequestCounted DEF TurnKnob, FmTypeOK, SweepIsNamed, tuner, reception
<1>12. CASE SelectStation
  <2>1. PICK f \in Freqs : SetFmFrequency(f) /\ fmfreq' = f
    BY <1>12 DEF SelectStation
  <2>2. fmEvents' \in 0..MaxFmEvents /\ UNCHANGED <<muted, tuning, seek, started, allowed>>
    BY <1>12, RequestCounted DEF SelectStation, FmTypeOK
  <2> QED
    BY <2>1, <2>2, SetFrequencyTypes DEF FmTypeOK, SweepIsNamed
<1>13. CASE PressSeek
  BY <1>13, RequestCounted DEF PressSeek, FmTypeOK, SweepIsNamed, tuner, reception
<1>14. CASE LeaveSeek
  BY <1>14, RequestCounted DEF LeaveSeek, FmTypeOK, SweepIsNamed, tuner, reception
<1>15. CASE ChangeView
  BY <1>15, RequestCounted DEF ChangeView, FmTypeOK, SweepIsNamed, tuner, reception
<1>16. CASE UNCHANGED fmVars
  BY <1>16 DEF fmVars, tuner, reception, controls, FmTypeOK, SweepIsNamed
<1> QED
  BY <1>1, <1>2, <1>3, <1>4, <1>5, <1>6, <1>7, <1>8, <1>9, <1>10, <1>11, <1>12, <1>13, <1>14,
     <1>15, <1>16 DEF FmNext, ProcessDAB

\* What the driver, the sweep and the display hold keeps its type, whatever is refused.
THEOREM FmTypeCorrect == FmSpec => []FmTypeOK
<1>1. FmInit => FmTypeOK /\ SweepIsNamed
  BY FmTypeInit
<1>2. FmTypeOK /\ SweepIsNamed /\ [FmNext]_fmVars => (FmTypeOK /\ SweepIsNamed)'
  BY FmTypeStep
<1> QED
  BY <1>1, <1>2, PTL DEF FmSpec

-----------------------------------------------------------------------------
(* The sweep. *)

LEMMA FmSoundInit ==
  ASSUME FmInit
  PROVE  FmSound
<1>1. ~Probing(af) /\ tunePending /\ ~seekPending /\ fmPi = 0 /\ fmAf = {}
  BY NoSweepIsQuiet DEF FmInit
<1>2. Target = chosen
  BY StationTypes DEF FmInit, Target
<1> QED
  BY <1>1, <1>2 DEF FmSound, TuneIsAwaited, TuneIsAsked, RestIsReceived, SweepIsAccounted,
     AfOfProgramme, ShownFollows

\* Without a sweep, or at the end of one that has accepted its candidate, the tuner is on a
\* station of the programme.
LEMMA Landed ==
  ASSUME FmTypeOK, FmSound, ~tunePending, NEW a \in QuietSweeps, ~Probing(a)
  PROVE  /\ Good(at) /\ FrequencyAfter(a) = at
         /\ fmPi # 0 => fmPi = Programme[at]
<1> USE DEF FmTypeOK, FmSound, FrequencyAfter
<1>1. to = 0 /\ Target = at
  BY DEF TuneIsAwaited, Target
<1>2. CASE ~Probing(af) /\ ~Accepted(a)
  BY <1>2 DEF RestIsReceived
<1>3. CASE Accepted(a) /\ CandidateIsBetter /\ af.state = "CandidatePi"
  <2>1. Probing(af)
    BY <1>3 DEF Probing
  <2>2. af.candidate = at /\ af.pi = Programme[at] /\ af.pi = Programme[af.original] /\ fmPi = af.pi
    BY <1>1, <1>3, <2>1 DEF SweepIsAccounted, CandidateIsBetter, Heard
  <2>3. Good(af.original) /\ fmPi # 0
    BY <2>1 DEF SweepIsAccounted
  <2>4. Good(at)
    BY <2>2, <2>3 DEF Good
  <2> QED
    BY <1>3, <2>2, <2>4
<1> QED
  BY <1>2, <1>3, QuietSweep

LEMMA RequestKeepsSound ==
  ASSUME FmTypeOK, FmSound, ~RequestRefused, NEW f \in Freqs, SetFmFrequency(f)
  PROVE  /\ ~Probing(af') /\ tunePending'
         /\ (TuneIsAwaited /\ TuneIsAsked /\ RestIsReceived /\ SweepIsAccounted /\ AfOfProgramme)'
<1>1. /\ to' = f /\ busy' = TRUE /\ tunePending' = TRUE /\ seekPending' = FALSE /\ af' = NoSweep
      /\ fmPi' = 0 /\ fmAf' = {} /\ chosen' = f
  BY DEF SetFmFrequency, StartTune, ClearFmData, RequestRefused
<1>2. ~Probing(af')
  BY <1>1, NoSweepIsQuiet
<1>3. Target' = chosen'
  BY <1>1, StationTypes DEF Target
<1> QED
  BY <1>1, <1>2, <1>3 DEF TuneIsAwaited, TuneIsAsked, RestIsReceived, SweepIsAccounted, AfOfProgramme

LEMMA SeekKeepsSound ==
  ASSUME FmTypeOK, FmSound, StartFmSeek
  PROVE  /\ ~Probing(af') /\ tunePending'
         /\ (TuneIsAwaited /\ TuneIsAsked /\ RestIsReceived /\ SweepIsAccounted /\ AfOfProgramme)'
<1>1. PICK f \in Freqs : StartTune(f)
  BY DEF StartFmSeek
<1>2. /\ to' = f /\ busy' = TRUE /\ tunePending' = TRUE /\ seekPending' = TRUE /\ af' = NoSweep
      /\ fmPi' = 0 /\ fmAf' = {}
  BY <1>1 DEF StartFmSeek, StartTune, ClearFmData
<1>3. ~Probing(af')
  BY <1>2, NoSweepIsQuiet
<1> QED
  BY <1>2, <1>3 DEF TuneIsAwaited, TuneIsAsked, RestIsReceived, SweepIsAccounted, AfOfProgramme

\* What the end of a pass adds.
LEMMA RefreshKeepsShown ==
  ASSUME Refresh
  PROVE  ShownFollows' /\ muted' = Probing(af')
  BY DEF Refresh, ShownFollows

LEMMA ArriveKeepsSound ==
  ASSUME FmTypeOK, FmSound, Arrive
  PROVE  FmSound'
<1> USE DEF FmSound
<1>1. /\ tunePending /\ to # 0 /\ at' = to /\ to' = 0
      /\ UNCHANGED <<busy, tunePending, seekPending, fmFrequency, fmPi, fmAf, af, muted, fmfreq,
                     tuning, chosen>>
  BY DEF Arrive, TuneIsAwaited, reception, controls
<1>2. Target' = Target
  BY <1>1 DEF Target
<1>3. SweepIsAccounted'
  BY <1>1, <1>2 DEF SweepIsAccounted, Good
<1>4. (TuneIsAwaited /\ TuneIsAsked /\ RestIsReceived)'
  BY <1>1, <1>2 DEF TuneIsAwaited, TuneIsAsked, RestIsReceived
<1>5. (AfOfProgramme /\ ShownFollows)'
  BY <1>1 DEF AfOfProgramme, ShownFollows
<1> QED
  BY <1>3, <1>4, <1>5

LEMMA TunePassKeepsSound ==
  ASSUME FmTypeOK, FmSound, TunePass
  PROVE  FmSound'
<1> USE DEF FmTypeOK, FmSound
<1>1. PICK a \in QuietSweeps : PollTune(a)
  BY DEF TunePass
<1>2. /\ tunePending /\ tunePending' = ~TuneOver /\ seekPending' = (seekPending /\ ~TuneOver)
      /\ ~busy' /\ UNCHANGED <<at, to, fmPi, fmAf>>
  BY <1>1 DEF PollTune, TunePass
<1>3. ShownFollows' /\ muted' = Probing(af')
  BY RefreshKeepsShown DEF TunePass
<1>4. AfOfProgramme'
  BY <1>2 DEF AfOfProgramme
<1>5. (to # 0 \/ busy => tunePending)'
  BY <1>2 DEF TuneOver
<1>6. Target' = Target /\ (to = 0 => Target = at)
  BY <1>2 DEF Target
<1>7. CASE Probing(a)
  <2>1. /\ a = af /\ Probing(af) /\ af.state \in {"CandidateTune", "RestoreTune"} /\ af.pi = 0
        /\ ~seekPending /\ chosen' = chosen /\ fmFrequency' = fmFrequency
    <3>1. a = af
      BY <1>7, QuietSweep
    <3> QED
      BY <1>1, <1>2, <1>7, <3>1 DEF SweepIsAccounted, Probing, TuneIsAwaited, PollTune
  <2>2. CASE TuneOver /\ af.state = "CandidateTune"
    <3> DEFINE b == [af EXCEPT !.state = "CandidatePi"]
    <3>1. /\ b \in Sweeps /\ b.state = "CandidatePi" /\ b.original = af.original /\ b.pi = af.pi
          /\ b.candidate = af.candidate /\ b.expected = af.expected
      BY DEF Sweeps, AfStates
    <3>2. af' \in Sampled(b)
      BY <1>1, <2>1, <2>2 DEF PollTune
    <3>3. /\ af'.state = "CandidatePi" /\ af'.original = af.original /\ af'.pi = af.pi
          /\ af'.candidate = af.candidate /\ af'.expected = af.expected
      BY <3>1, <3>2, SampledSweep
    <3> HIDE DEF b
    <3>4. SweepIsAccounted'
      BY <1>2, <1>3, <1>6, <2>1, <2>2, <3>3 DEF SweepIsAccounted, Probing, Good
    <3> QED
      BY <1>2, <1>3, <1>4, <1>5, <2>1, <3>3, <3>4
         DEF Probing, TuneIsAwaited, TuneIsAsked, RestIsReceived
  <2>3. CASE TuneOver /\ af.state = "RestoreTune"
    <3>1. ~Probing(af')
      BY <1>1, <2>1, <2>3, NoSweepIsQuiet DEF PollTune, Probing, AfStates
    <3>2. fmFrequency = at /\ Good(at) /\ fmPi = Programme[at]
      BY <1>6, <2>1, <2>3 DEF SweepIsAccounted, TuneOver
    <3>3. RestIsReceived'
      BY <1>2, <2>1, <3>2 DEF RestIsReceived, Good
    <3> QED
      BY <1>2, <1>3, <1>4, <1>5, <2>1, <2>3, <3>1, <3>3
         DEF TuneIsAwaited, TuneIsAsked, SweepIsAccounted
  <2>4. CASE ~TuneOver
    <3>1. af' = af
      BY <1>1, <2>1, <2>4 DEF PollTune
    <3>2. SweepIsAccounted'
      BY <1>2, <1>3, <1>6, <2>1, <2>4, <3>1 DEF SweepIsAccounted, Good
    <3> QED
      BY <1>2, <1>3, <1>4, <1>5, <2>1, <2>4, <3>1, <3>2
         DEF TuneIsAwaited, TuneIsAsked, RestIsReceived
  <2> QED
    BY <2>1, <2>2, <2>3, <2>4
<1>8. CASE ~Probing(a)
  <2>1. ~Probing(af) /\ af' = a
    BY <1>1, <1>2, <1>8, QuietSweep DEF PollTune, Probing, SweepIsAccounted
  <2>2. fmPi = 0 /\ (~seekPending => Target = chosen)
    BY <1>2, <2>1 DEF TuneIsAsked
  <2>3. CASE TuneOver
    <3>1. fmFrequency' = at /\ chosen' = IF seekPending THEN at ELSE chosen
      BY <1>1, <1>8, <2>3 DEF PollTune, TuneOver, Probing
    <3>2. Good(at)'
      BY <1>2, <1>6, <2>2, <2>3, <3>1 DEF Good, TuneOver
    <3> QED
      BY <1>2, <1>3, <1>4, <1>5, <1>8, <2>1, <2>2, <2>3, <3>1, <3>2
         DEF TuneIsAwaited, TuneIsAsked, RestIsReceived, SweepIsAccounted
  <2>4. CASE ~TuneOver
    <3>1. chosen' = chosen
      BY <1>1, <2>4 DEF PollTune
    <3> QED
      BY <1>2, <1>3, <1>4, <1>5, <1>6, <1>8, <2>1, <2>2, <2>4, <3>1
         DEF TuneIsAwaited, TuneIsAsked, RestIsReceived, SweepIsAccounted
  <2> QED
    BY <2>3, <2>4
<1> QED
  BY <1>7, <1>8

\* A pass that tunes nothing, and goes on with the sweep or without one.
LEMMA QuietPassKeepsSound ==
  ASSUME FmTypeOK, FmSound, ~tunePending, Refresh, NEW a \in QuietSweeps,
         busy' = FALSE,
         UNCHANGED <<at, to, tunePending, seekPending, chosen>>,
         AfOfProgramme',
         IF Probing(a)
         THEN /\ af'.state = a.state /\ af'.candidate = a.candidate
              /\ af'.original = a.original /\ af'.expected = a.expected
              /\ af'.pi \in {a.pi, Programme[at]}
              /\ fmFrequency' = fmFrequency /\ fmPi' = fmPi
         ELSE af' = a /\ fmFrequency' = at /\ fmPi' \in {fmPi, Programme[at]}
  PROVE  FmSound'
<1> USE DEF FmTypeOK, FmSound
<1>1. to = 0 /\ ~seekPending
  BY DEF TuneIsAwaited
<1>2. ShownFollows' /\ muted' = Probing(af')
  BY RefreshKeepsShown
<1>3. TuneIsAwaited' /\ TuneIsAsked'
  BY <1>1 DEF TuneIsAwaited, TuneIsAsked
<1>4. Target' = Target
  BY DEF Target
<1>5. CASE Probing(a)
  <2>1. a = af /\ Probing(af) /\ af.state = "CandidatePi"
    BY <1>5, QuietSweep DEF SweepIsAccounted
  <2>2. Probing(af')
    BY <1>5 DEF Probing
  <2>3. SweepIsAccounted'
    BY <1>2, <1>4, <1>5, <2>1, <2>2 DEF SweepIsAccounted, Good
  <2> QED
    BY <1>2, <1>3, <2>2, <2>3 DEF RestIsReceived
<1>6. CASE ~Probing(a)
  <2>1. Good(at) /\ (fmPi # 0 => fmPi = Programme[at])
    BY <1>6, Landed
  <2>2. RestIsReceived'
    BY <1>6, <2>1 DEF RestIsReceived, Good
  <2> QED
    BY <1>2, <1>3, <1>6, <2>2 DEF SweepIsAccounted
<1> QED
  BY <1>5, <1>6

LEMMA SignalPassKeepsSound ==
  ASSUME FmTypeOK, FmSound, SignalPass
  PROVE  FmSound'
<1> USE DEF FmTypeOK, FmSound
<1>1. PICK a \in QuietSweeps : PollSignalQuality(a)
  BY DEF SignalPass
<1>2. /\ ~tunePending /\ busy' = FALSE /\ Refresh
      /\ UNCHANGED <<at, to, tunePending, seekPending, fmPi, fmAf, chosen>>
  BY <1>1 DEF PollSignalQuality, SignalPass
<1>3. AfOfProgramme'
  BY <1>2 DEF AfOfProgramme
<1>4. CASE Probing(a)
  <2>1. a \in Sweeps /\ a.state = "CandidatePi"
    BY <1>2, <1>4, QuietSweep DEF SweepIsAccounted
  <2> QED
    BY <1>1, <1>2, <1>3, <1>4, <2>1, SampledSweep, QuietPassKeepsSound DEF PollSignalQuality
<1>5. CASE ~Probing(a)
  BY <1>1, <1>2, <1>3, <1>5, QuietPassKeepsSound DEF PollSignalQuality, Probing
<1> QED
  BY <1>4, <1>5

LEMMA RdsPassKeepsSound ==
  ASSUME FmTypeOK, FmSound, RdsPass
  PROVE  FmSound'
<1> USE DEF FmTypeOK, FmSound
<1>1. PICK a \in QuietSweeps : ReadRds(a)
  BY DEF RdsPass
<1>2. /\ ~tunePending /\ busy' = FALSE /\ Refresh /\ Programme[at] # 0
      /\ UNCHANGED <<at, to, tunePending, seekPending, chosen>>
  BY <1>1 DEF ReadRds, RdsPass
<1>3. CASE Probing(a)
  <2>1. a \in Sweeps /\ a.state = "CandidatePi"
    BY <1>2, <1>3, QuietSweep DEF SweepIsAccounted
  <2>2. /\ af' = [a EXCEPT !.pi = Programme[at]] /\ UNCHANGED <<fmPi, fmAf>>
        /\ fmFrequency' = fmFrequency
    BY <1>1, <2>1 DEF ReadRds, RdsOfCandidate, FrequencyAfter, Accepted
  <2>3. /\ af'.state = a.state /\ af'.candidate = a.candidate /\ af'.pi = Programme[at]
        /\ af'.original = a.original /\ af'.expected = a.expected
    BY <2>1, <2>2 DEF Sweeps
  <2>4. AfOfProgramme'
    BY <2>2 DEF AfOfProgramme
  <2> QED
    BY <1>2, <1>3, <2>2, <2>3, <2>4, QuietPassKeepsSound
<1>4. CASE ~Probing(a)
  <2>1. /\ af' = a /\ fmPi' = Programme[at] /\ fmFrequency' = FrequencyAfter(a)
    BY <1>1, <1>4 DEF ReadRds, RdsOfCandidate, Probing
  <2>2. PICK received \in SUBSET Announced[at] :
          fmAf' = received \cup (IF fmPi = fmPi' THEN fmAf ELSE {})
    BY <1>1, <1>4 DEF ReadRds, RdsOfCandidate, Probing
  <2>3. AfOfProgramme'
    BY <1>2, <2>1, <2>2 DEF AfOfProgramme
  <2> QED
    BY <1>2, <1>4, <2>1, <2>3, Landed, QuietPassKeepsSound
<1> QED
  BY <1>3, <1>4

LEMMA EmptyPassKeepsSound ==
  ASSUME FmTypeOK, FmSound, EmptyPass
  PROVE  FmSound'
<1> USE DEF FmTypeOK, FmSound
<1>1. PICK a \in QuietSweeps : NothingDue(a)
  BY DEF EmptyPass
<1>2. /\ busy' = FALSE /\ Refresh /\ af' = a /\ fmFrequency' = FrequencyAfter(a)
      /\ UNCHANGED <<at, to, tunePending, seekPending, fmPi, fmAf, chosen>>
  BY <1>1 DEF NothingDue, EmptyPass
<1>3. AfOfProgramme'
  BY <1>2 DEF AfOfProgramme
<1>4. CASE ~tunePending
  BY <1>2, <1>3, <1>4, Landed, QuietSweep, QuietPassKeepsSound DEF FrequencyAfter, Probing, Accepted
<1>5. CASE tunePending
  <2>1. ~Accepted(a)
    BY <1>5 DEF Accepted, SweepIsAccounted, Probing
  <2>2. fmFrequency' = fmFrequency /\ (Probing(a) => a = af) /\ (Probing(af) => a = af)
    BY <1>2, <2>1, QuietSweep DEF FrequencyAfter
  <2>3. muted' = Probing(af') /\ ShownFollows'
    BY <1>2, RefreshKeepsShown
  <2>4. Target' = Target
    BY <1>2 DEF Target
  <2>5. SweepIsAccounted'
    BY <1>2, <2>2, <2>3, <2>4 DEF SweepIsAccounted, Good
  <2> QED
    BY <1>2, <1>3, <1>5, <2>2, <2>3, <2>4, <2>5 DEF TuneIsAwaited, TuneIsAsked, RestIsReceived
<1> QED
  BY <1>4, <1>5

LEMMA AfPassKeepsSound ==
  ASSUME FmTypeOK, SweepIsNamed, FmSound, AfPass
  PROVE  FmSound'
<1> USE DEF FmTypeOK, FmSound
<1>1. AfTunes /\ UNCHANGED <<fmFrequency, fmPi, fmAf, chosen>> /\ ShownFollows' /\ muted' = Probing(af')
  BY RefreshKeepsShown DEF AfPass, AfTunes, reception
<1>2. ~tunePending /\ tunePending' = TRUE /\ seekPending' = FALSE /\ Probing(af')
  BY <1>1, AfTunesFacts
<1>3. /\ af'.original = fmFrequency /\ Good(af'.original)
      /\ af'.expected = fmPi /\ fmPi # 0 /\ fmPi = Programme[af'.original]
  <2>1. CASE Probing(af)
    BY <1>1, <2>1, AfTunesFacts DEF SweepIsAccounted
  <2>2. CASE ~Probing(af)
    BY <1>1, <1>2, <2>2, AfTunesFacts DEF RestIsReceived
  <2> QED
    BY <2>1, <2>2
<1>4. Target' = IF af'.state = "RestoreTune" THEN af'.original ELSE af'.candidate
  <2>1. to' # 0
    BY <1>1, AfTunesFacts, StationTypes
  <2> QED
    BY <1>1, <2>1, AfTunesFacts DEF Target
<1>5. SweepIsAccounted'
  BY <1>1, <1>2, <1>3, <1>4, AfTunesFacts DEF SweepIsAccounted, Good
<1>6. AfOfProgramme'
  BY <1>1 DEF AfOfProgramme
<1> QED
  BY <1>1, <1>2, <1>5, <1>6 DEF TuneIsAwaited, TuneIsAsked, RestIsReceived

LEMMA BlockedPassKeepsSound ==
  ASSUME FmTypeOK, FmSound, BlockedPass
  PROVE  FmSound'
<1> USE DEF FmTypeOK, FmSound
<1>1. /\ UNCHANGED <<at, to, tunePending, seekPending, fmFrequency, fmPi, fmAf, af, chosen>>
      /\ ShownFollows' /\ muted' = Probing(af') /\ (busy' => busy)
  BY RefreshKeepsShown DEF BlockedPass, reception
<1>2. Target' = Target
  BY <1>1 DEF Target
<1>3. SweepIsAccounted'
  BY <1>1, <1>2 DEF SweepIsAccounted, Good
<1> QED
  BY <1>1, <1>2, <1>3 DEF TuneIsAwaited, TuneIsAsked, RestIsReceived, AfOfProgramme, Good

\* The user's part of the loop that leaves tuner and sweep alone.
LEMMA ControlKeepsSound ==
  ASSUME FmTypeOK, FmSound, ShownFollows',
         UNCHANGED <<tuner, reception, af, muted, chosen>>
  PROVE  FmSound'
<1> USE DEF FmTypeOK, FmSound
<1>1. UNCHANGED <<at, to, busy, tunePending, seekPending, fmFrequency, fmPi, fmAf, af, muted, chosen>>
  BY DEF tuner, reception
<1>2. Target' = Target
  BY <1>1 DEF Target
<1>3. SweepIsAccounted'
  BY <1>1, <1>2 DEF SweepIsAccounted, Good
<1> QED
  BY <1>1, <1>2, <1>3 DEF TuneIsAwaited, TuneIsAsked, RestIsReceived, AfOfProgramme, Good

LEMMA FmSoundStep ==
  ASSUME FmTypeOK, SweepIsNamed, FmSound, [FmNext]_fmVars, [~RequestRefused]_fmVars
  PROVE  FmSound'
<1> SUFFICES ASSUME ~UNCHANGED fmVars => ~RequestRefused
             PROVE  FmSound'
  OBVIOUS
<1>1. CASE Arrive \/ ProcessDAB
  BY <1>1, ArriveKeepsSound, TunePassKeepsSound, SignalPassKeepsSound, RdsPassKeepsSound,
     EmptyPassKeepsSound, AfPassKeepsSound, BlockedPassKeepsSound DEF ProcessDAB
<1>2. CASE BeginSeek
  BY <1>2, SeekKeepsSound DEF BeginSeek, FmSound, ShownFollows
<1>3. CASE TuneByKnob /\ ~UNCHANGED fmVars
  BY <1>3, RequestKeepsSound DEF TuneByKnob, FmSound, ShownFollows, FmTypeOK
<1>4. CASE SelectStation /\ ~UNCHANGED fmVars
  <2>1. PICK f \in Freqs : SetFmFrequency(f)
    BY <1>4 DEF SelectStation
  <2> QED
    BY <1>4, <2>1, RequestKeepsSound DEF FmSound, ShownFollows
<1>5. CASE EndSeek
  BY <1>5, ControlKeepsSound DEF EndSeek, ShownFollows, FmSound, reception
<1>6. CASE TurnKnob
  BY <1>6, ControlKeepsSound DEF TurnKnob, ShownFollows, FmSound
<1>7. CASE PressSeek
  BY <1>7, ControlKeepsSound DEF PressSeek, ShownFollows, FmSound, tuner, reception
<1>8. CASE LeaveSeek
  BY <1>8, ControlKeepsSound DEF LeaveSeek, ShownFollows, FmSound, tuner, reception
<1>9. CASE ChangeView
  BY <1>9, ControlKeepsSound DEF ChangeView, ShownFollows, FmSound, tuner, reception
<1>10. CASE UNCHANGED fmVars
  BY <1>10, ControlKeepsSound DEF fmVars, controls, ShownFollows, FmSound, tuner, reception
<1> QED
  BY <1>1, <1>2, <1>3, <1>4, <1>5, <1>6, <1>7, <1>8, <1>9, <1>10 DEF FmNext

-----------------------------------------------------------------------------
(* What follows. *)

\* With the constant of the run no request is refused.
LEMMA NoneRefused ==
  ASSUME ~ProbeRequests
  PROVE  [][~RequestRefused]_fmVars
<1>1. [~RequestRefused]_fmVars
  BY DEF RequestRefused, SetFmFrequency
<1> QED
  BY <1>1, PTL

LEMMA FmInvariant == FmSpec /\ [][~RequestRefused]_fmVars => []FmInductive
<1>1. FmInit => FmInductive
  BY FmTypeInit, FmSoundInit DEF FmInductive
<1>2. FmInductive /\ [FmNext]_fmVars /\ [~RequestRefused]_fmVars => FmInductive'
  BY FmTypeStep, FmSoundStep DEF FmInductive
<1> QED
  BY <1>1, <1>2, PTL DEF FmSpec

LEMMA SoundReception ==
  ASSUME FmInductive
  PROVE  OnlyVerifiedHeard /\ RdsOfThisStation /\ ShownIsReceived
<1>1. OnlyVerifiedHeard
  BY DEF FmInductive, FmSound, RestIsReceived, SweepIsAccounted, OnlyVerifiedHeard, Good
<1>2. RdsOfThisStation
  <2> SUFFICES ASSUME fmPi # 0, ~tunePending, to = 0
               PROVE  /\ fmPi = Programme[IF Probing(af) THEN af.original ELSE at]
                      /\ fmAf \subseteq UNION {Announced[f] : f \in {g \in Freqs : Programme[g] = fmPi}}
    BY DEF RdsOfThisStation
  <2>1. fmPi = Programme[IF Probing(af) THEN af.original ELSE at]
    BY DEF FmInductive, FmSound, RestIsReceived, SweepIsAccounted
  <2>2. \A f \in fmAf : \E g \in Freqs : Programme[g] = fmPi /\ f \in Announced[g]
    BY DEF FmInductive, FmSound, AfOfProgramme
  <2> QED
    BY <2>1, <2>2
<1>3. ShownIsReceived
  BY DEF FmInductive, FmSound, RestIsReceived, ShownFollows, ShownIsReceived, AtRest
<1> QED
  BY <1>1, <1>2, <1>3

\* Alternatives are added only to those of the same programme.
LEMMA AlternativesStep ==
  ASSUME FmTypeOK, AfOfProgramme, [FmNext]_fmVars
  PROVE  AfOfProgramme'
<1>1. ASSUME NEW a, ReadRds(a)
      PROVE  AfOfProgramme'
  <2>1. CASE RdsOfCandidate(a)
    BY <1>1, <2>1 DEF ReadRds, AfOfProgramme
  <2>2. CASE ~RdsOfCandidate(a)
    <3>1. PICK received \in SUBSET Announced[at] :
            fmAf' = received \cup (IF fmPi = fmPi' THEN fmAf ELSE {})
      BY <1>1, <2>2 DEF ReadRds
    <3>2. fmPi' = Programme[at] /\ fmPi' # 0 /\ at \in Freqs
      BY <1>1, <2>2 DEF ReadRds, FmTypeOK
    <3> QED
      BY <3>1, <3>2 DEF AfOfProgramme
  <2> QED
    BY <2>1, <2>2
<1>2. CASE UNCHANGED <<fmPi, fmAf>> \/ fmAf' = {}
  BY <1>2 DEF AfOfProgramme
<1>3. CASE ProcessDAB
  BY <1>1, <1>2, <1>3 DEF ProcessDAB, TunePass, SignalPass, RdsPass, EmptyPass, AfPass, BlockedPass,
     PollTune, PollSignalQuality, NothingDue, AfTunes, reception
<1>4. CASE Arrive \/ EndSeek \/ TurnKnob \/ PressSeek \/ LeaveSeek \/ ChangeView \/ UNCHANGED fmVars
  BY <1>2, <1>4 DEF Arrive, EndSeek, TurnKnob, PressSeek, LeaveSeek, ChangeView, fmVars, reception
<1>5. CASE BeginSeek \/ TuneByKnob \/ SelectStation
  BY <1>2, <1>5 DEF BeginSeek, StartFmSeek, TuneByKnob, SelectStation, SetFmFrequency, ClearFmData
<1> QED
  BY <1>3, <1>4, <1>5 DEF FmNext

\* What is heard was asked for or is of the same programme, whatever the stations announce,
\* unless a request is refused.
THEOREM VerifiedIsHeard == FmSpec /\ [][~RequestRefused]_fmVars => []OnlyVerifiedHeard
BY SoundReception, FmInvariant, PTL

\* PI and alternatives are those of the station received, or of the one to return to, unless a
\* request is refused: the sweep is forgotten then, and the PI read before the tuner arrives
\* stays beside the station it arrives at.
THEOREM RdsIsOfThisStation == FmSpec /\ [][~RequestRefused]_fmVars => []RdsOfThisStation
BY SoundReception, FmInvariant, PTL

\* At rest the frequency on show is the one received, unless a request is refused: the frequency
\* asked for is on show then, until the next poll of the signal.
THEOREM ShownIsReceivedAlways == FmSpec /\ [][~RequestRefused]_fmVars => []ShownIsReceived
BY SoundReception, FmInvariant, PTL

\* The alternatives are those of the programme on show, whatever is refused.
THEOREM AlternativesAreOfProgramme == FmSpec => []AfOfProgramme
<1>1. FmInit => AfOfProgramme
  BY DEF FmInit, AfOfProgramme
<1>2. FmTypeOK /\ AfOfProgramme /\ [FmNext]_fmVars => AfOfProgramme'
  BY AlternativesStep
<1> QED
  BY <1>1, <1>2, FmTypeCorrect, PTL DEF FmSpec

-----------------------------------------------------------------------------
(* FmScan: the receiver under the scan and what is around it. *)

\* What a step of the scan does to the receiver: one of its own steps, a request for a
\* frequency, a seek, or nothing but controls.
LEMMA ScanStepOfReceiver ==
  ASSUME [FmScanNext]_fmScanVars
  PROVE  \/ [FmNext]_fmVars
         \/ StartFmScan \/ ChangeRegion \/ PassStartSeek \/ LosePower
         \/ /\ UNCHANGED <<tuner, reception, af, muted, tuning, seek, started, chosen>>
            /\ fmfreq' \in {fmfreq, fmFrequency} /\ allowed' \in BOOLEAN
            /\ UNCHANGED fmEvents \/ Asks
<1>1. CASE Receive
  BY <1>1 DEF Receive, FmNext
<1>2. CASE RotaryOne \/ RotaryTwo
  BY <1>2 DEF RotaryOne, RotaryTwo, FmNext
<1>3. CASE PassBandStart
  BY <1>3 DEF PassBandStart
<1>4. ASSUME NEW held, FinishFmScan(held)
      PROVE  /\ UNCHANGED <<tuner, reception, af, muted, tuning, seek, started, chosen>>
             /\ fmfreq' \in {fmfreq, fmFrequency} /\ allowed' \in BOOLEAN
             /\ UNCHANGED fmEvents \/ Asks
  BY <1>4 DEF FinishFmScan
<1>5. CASE PassWaitSeek
  BY <1>4, <1>5 DEF PassWaitSeek
<1>6. CASE PassDwell
  BY <1>4, <1>6 DEF PassDwell
<1>7. CASE CancelByKey
  BY <1>7 DEF CancelByKey
<1>8. CASE UNCHANGED fmScanVars
  BY <1>8 DEF fmScanVars
<1> QED
  BY <1>1, <1>2, <1>3, <1>5, <1>6, <1>7, <1>8 DEF FmScanNext, FmScanPass

LEMMA ReceiverTypeStep ==
  ASSUME FmTypeOK, SweepIsNamed, [FmScanNext]_fmScanVars
  PROVE  FmTypeOK' /\ SweepIsNamed'
<1> USE FmScanAssumption DEF FmScanAssumption
<1>1. CASE [FmNext]_fmVars
  BY <1>1, FmTypeStep
<1>2. CASE StartFmScan
  <2>1. fmEvents' \in 0..MaxFmEvents
    BY <1>2, RequestCounted DEF StartFmScan, FmTypeOK
  <2> QED
    BY <1>2, <2>1, SetFrequencyTypes DEF StartFmScan, FmTypeOK, SweepIsNamed
<1>3. CASE ChangeRegion
  <2>1. fmEvents' \in 0..MaxFmEvents
    BY <1>3, RequestCounted DEF ChangeRegion, FmTypeOK
  <2> QED
    BY <1>3, <2>1, SetFrequencyTypes DEF ChangeRegion, FmTypeOK, SweepIsNamed
<1>4. CASE PassStartSeek
  BY <1>4, StartSeekTypes DEF PassStartSeek, controls, FmTypeOK, SweepIsNamed
<1>5. CASE LosePower
  <2>1. fmEvents' \in 0..MaxFmEvents
    BY <1>5, RequestCounted DEF LosePower, FmTypeOK
  <2>2. af' \in Sweeps /\ ~Probing(af')
    BY <1>5, NoSweepIsQuiet DEF LosePower
  <2>3. fmPi' \in Programmes \cup {0} /\ fmAf' \subseteq Freqs /\ fmfreq' \in Freqs
    BY <1>5 DEF LosePower
  <2> QED
    BY <1>5, <2>1, <2>2, <2>3 DEF LosePower, FmTypeOK, SweepIsNamed
<1>6. CASE /\ UNCHANGED <<tuner, reception, af, muted, tuning, seek, started, chosen>>
           /\ fmfreq' \in {fmfreq, fmFrequency} /\ allowed' \in BOOLEAN
           /\ UNCHANGED fmEvents \/ Asks
  <2>1. fmEvents' \in 0..MaxFmEvents
    BY <1>6, RequestCounted DEF FmTypeOK
  <2> QED
    BY <1>6, <2>1 DEF FmTypeOK, SweepIsNamed, tuner, reception
<1> QED
  BY <1>1, <1>2, <1>3, <1>4, <1>5, <1>6, ScanStepOfReceiver

\* What is known of tuner and sweep holds under the scan, too.
LEMMA ReceiverSoundStep ==
  ASSUME FmTypeOK, SweepIsNamed, FmSound, [FmScanNext]_fmScanVars, [~RequestRefused]_fmScanVars
  PROVE  FmSound'
<1> USE FmScanAssumption DEF FmScanAssumption
<1>1. CASE [FmNext]_fmVars
  BY <1>1, FmSoundStep DEF fmScanVars
<1>2. CASE StartFmScan /\ ~UNCHANGED fmScanVars
  BY <1>2, RequestKeepsSound DEF StartFmScan, FmSound, ShownFollows
<1>3. CASE ChangeRegion /\ ~UNCHANGED fmScanVars
  BY <1>3, RequestKeepsSound DEF ChangeRegion, FmSound, ShownFollows, FmTypeOK
<1>4. CASE PassStartSeek
  BY <1>4, SeekKeepsSound DEF PassStartSeek, FmSound, ShownFollows
<1>5. CASE LosePower
  <2>1. /\ ~Probing(af') /\ tunePending' = TRUE /\ seekPending' = FALSE
        /\ fmPi' = 0 /\ fmAf' = {} /\ to' = chosen'
    BY <1>5, NoSweepIsQuiet DEF LosePower
  <2>2. to' # 0
    BY <1>5, StationTypes DEF LosePower
  <2>3. Target' = chosen'
    BY <2>1, <2>2 DEF Target
  <2> QED
    BY <2>1, <2>3 DEF FmSound, TuneIsAwaited, TuneIsAsked, RestIsReceived, SweepIsAccounted,
                      AfOfProgramme, ShownFollows
<1>6. CASE /\ UNCHANGED <<tuner, reception, af, muted, tuning, seek, started, chosen>>
           /\ fmfreq' \in {fmfreq, fmFrequency} /\ allowed' \in BOOLEAN
           /\ UNCHANGED fmEvents \/ Asks
  <2>1. ShownFollows'
    BY <1>6 DEF FmSound, ShownFollows, tuner, reception
  <2> QED
    BY <1>6, <2>1, ControlKeepsSound
<1> QED
  BY <1>1, <1>2, <1>3, <1>4, <1>5, <1>6, ScanStepOfReceiver DEF fmScanVars

-----------------------------------------------------------------------------
(* FmScan: the list and its copy in the flash. *)

\* A list of stations that has room in the flash.
Fitted(list) == list \subseteq FmRecords /\ IsFiniteSet(list) /\ Cardinality(list) <= StationLimit

\* What a list may hold of a frequency.
Received(list) == \A r \in list : r.pi \in {0, Programme[r.freq]}

Contents == [list : SUBSET FmRecords, region : Regions \cup {0}, done : BOOLEAN]

ScanTypes ==
  /\ region \in Regions
  /\ fmScan \in [state : ScanStates, first : Freqs \cup {0}, candidate : Freqs \cup {0},
                 seeks : 0..MaxSeeks]
  /\ fmScan.state = "RdsDwell" => fmScan.candidate \in Freqs
  /\ fmCompleted \in BOOLEAN /\ fmNvs \in Contents
  /\ Fitted(fmStations) /\ Fitted(fmNvs.list)

ScanInductive == FmTypeOK /\ SweepIsNamed /\ ScanTypes

LEMMA EmptyIsFitted == Fitted({}) /\ Received({})
<1>1. 0 <= StationLimit
  BY FmScanAssumption DEF FmScanAssumption
<1> QED
  BY <1>1, FS_EmptySet DEF Fitted, Received

\* FmStationList::add replaces a record, or adds one if there is room.
LEMMA AddedIsFitted ==
  ASSUME NEW list, Fitted(list), NEW new \in FmRecords, NEW held \in Added(list, new)
  PROVE  Fitted(held)
<1>1. CASE \E old \in list : held = (list \ {old}) \cup {new}
  <2>1. PICK old \in list : held = (list \ {old}) \cup {new}
    BY <1>1
  <2>2. IsFiniteSet(list \ {old}) /\ Cardinality(list \ {old}) = Cardinality(list) - 1
    BY FS_RemoveElement DEF Fitted
  <2>3. /\ IsFiniteSet(held) /\ Cardinality(list) \in Nat
        /\ Cardinality(held) \in {Cardinality(list) - 1, Cardinality(list) - 1 + 1}
    BY <2>1, <2>2, FS_AddElement, FS_CardinalityType DEF Fitted
  <2>4. Cardinality(held) <= StationLimit
    BY <2>3, FmScanAssumption DEF FmScanAssumption, Fitted
  <2> QED
    BY <2>1, <2>3, <2>4 DEF Fitted
<1>2. CASE held = list \cup {new} /\ Fits(list)
  <2>1. /\ IsFiniteSet(held) /\ Cardinality(list) \in Nat
        /\ Cardinality(held) \in {Cardinality(list), Cardinality(list) + 1}
    BY <1>2, FS_AddElement, FS_CardinalityType DEF Fitted
  <2>2. Cardinality(held) <= StationLimit
    BY <1>2, <2>1, FmScanAssumption DEF FmScanAssumption, Fits
  <2> QED
    BY <1>2, <2>1, <2>2 DEF Fitted
<1>3. CASE held = list
  BY <1>3
<1> QED
  BY <1>1, <1>2, <1>3 DEF Added

LEMMA AddedIsReceived ==
  ASSUME NEW list, Received(list), NEW new, new.pi \in {0, Programme[new.freq]},
         NEW held \in Added(list, new)
  PROVE  Received(held)
  BY DEF Received, Added

\* A save, whole or cut short, leaves the old or the new list in the flash.
LEMMA WrittenContents ==
  ASSUME ScanTypes, NEW list, Fitted(list), NEW contents \in CutShort(list) \cup {Saved(list)}
  PROVE  contents \in Contents /\ contents.list \in {fmNvs.list, list}
<1>1. list \in SUBSET FmRecords /\ fmNvs \in Contents
  BY DEF Fitted, ScanTypes
<1>2. AfterList(list) \in Contents /\ AfterList(list).list = list
  BY <1>1 DEF AfterList, Contents
<1>3. AfterRegion(list) \in Contents /\ AfterRegion(list).list = list
  BY <1>2 DEF AfterRegion, Contents, ScanTypes
<1>4. Saved(list) \in Contents /\ Saved(list).list = list
  BY <1>3 DEF Saved, Contents
<1> QED
  BY <1>1, <1>2, <1>3, <1>4 DEF CutShort

\* A save that is whole is what a restart loads.
LEMMA SavedIsLoaded ==
  ASSUME ScanTypes, NEW list, Fitted(list)
  PROVE  Loaded(Saved(list), region) = list /\ Complete(Saved(list), region)
<1>1. fmNvs \in Contents /\ list \in SUBSET FmRecords
  BY DEF Fitted, ScanTypes
<1>2. Saved(list).list = list /\ Saved(list).region = region /\ Saved(list).done = TRUE
  BY <1>1 DEF Saved, AfterRegion, AfterList, Contents
<1> QED
  BY <1>2 DEF Loaded, Complete

LEMMA LoadedList ==
  ASSUME NEW contents, NEW r
  PROVE  Loaded(contents, r) \in {contents.list, {}}
  BY DEF Loaded

\* What is stored at the end of a dwell.
LEMMA CandidateType ==
  ASSUME FmTypeOK, ScanTypes, fmScan.state = "RdsDwell"
  PROVE  Candidate \in FmRecords
  BY DEF FmTypeOK, ScanTypes, Candidate, FmRecords

\* Where the lists of the next state come from.
Lists == {fmStations, fmNvs.list, {}}
            \cup IF fmScan.state = "RdsDwell" THEN Added(fmStations, Candidate) ELSE {}

LEMMA FinishedLists ==
  ASSUME ScanTypes, NEW list \in Lists, Fitted(list), FinishFmScan(list)
  PROVE  /\ fmNvs' \in Contents /\ fmNvs'.list \in Lists /\ fmStations' \in Lists
         /\ fmStations' = Loaded(fmNvs', region') /\ fmCompleted' = Complete(fmNvs', region')
         /\ fmScan' = NoFmScan /\ region' = region
<1>1. PICK contents \in CutShort(list) \cup {Saved(list)} :
        /\ fmNvs' = contents /\ fmStations' = ListAfterSave(list, contents)
        /\ fmCompleted' = Complete(contents, region)
  BY DEF FinishFmScan
<1>2. contents \in Contents /\ contents.list \in {fmNvs.list, list}
  BY WrittenContents
<1>3. fmStations' = Loaded(contents, region)
  BY <1>1, SavedIsLoaded DEF ListAfterSave
<1>4. fmStations' \in Lists
  BY <1>2, <1>3, LoadedList DEF Lists
<1> QED
  BY <1>1, <1>2, <1>3, <1>4 DEF FinishFmScan, Lists

LEMMA ListsAreFitted ==
  ASSUME FmTypeOK, ScanTypes, NEW list \in Lists
  PROVE  Fitted(list)
  BY CandidateType, EmptyIsFitted, AddedIsFitted DEF Lists, ScanTypes

\* Whatever a step does to the lists comes from what they held and from the dwell; and
\* outside a scan the list is the one a restart would load.
ListStep ==
  /\ region' \in Regions /\ fmNvs' \in Contents /\ fmCompleted' \in BOOLEAN
  /\ fmStations' \in Lists /\ fmNvs'.list \in Lists
  /\ \/ fmStations' = Loaded(fmNvs', region') /\ fmCompleted' = Complete(fmNvs', region')
        /\ fmScan' \in {NoFmScan, fmScan}
     \/ UNCHANGED <<region, fmScan, fmStations, fmCompleted, fmNvs>>
     \/ /\ UNCHANGED <<region, fmCompleted, fmNvs>> /\ fmScan'.state # "Idle"
        /\ fmScan' \in [state : ScanStates, first : Freqs \cup {0}, candidate : Freqs \cup {0},
                        seeks : 0..MaxSeeks]
        /\ fmScan'.state = "RdsDwell" => fmScan'.candidate \in Freqs

LEMMA NoFmScanType ==
  /\ NoFmScan \in [state : ScanStates, first : Freqs \cup {0}, candidate : Freqs \cup {0},
                   seeks : 0..MaxSeeks]
  /\ NoFmScan.state = "Idle"
<1>1. 0 \in 0..MaxSeeks
  BY FmScanAssumption DEF FmScanAssumption
<1> QED
  BY <1>1 DEF NoFmScan, ScanStates

LEMMA SeekCounted ==
  ASSUME NEW n \in 0..MaxSeeks
  PROVE  (IF n < MaxSeeks THEN n + 1 ELSE n) \in 0..MaxSeeks
  BY FmScanAssumption DEF FmScanAssumption

LEMMA CompleteType ==
  ASSUME NEW contents \in Contents, NEW r
  PROVE  Complete(contents, r) \in BOOLEAN
  BY DEF Contents, Complete

LEMMA CancelLists ==
  ASSUME ScanTypes, fmCompleted = Complete(fmNvs, region), CancelFmScan
  PROVE  ListStep
<1>1. fmStations' \in Lists
  BY LoadedList DEF CancelFmScan, ListAfterCancel, Lists
<1> QED
  BY <1>1 DEF CancelFmScan, ListAfterCancel, ListStep, ScanTypes, Lists

LEMMA FinishLists ==
  ASSUME FmTypeOK, ScanTypes, NEW list \in Lists, FinishFmScan(list)
  PROVE  ListStep
  BY ListsAreFitted, FinishedLists, CompleteType DEF ListStep, ScanTypes

\* The passes of ProcessFmFullScan.
LEMMA PassLists ==
  ASSUME FmTypeOK, ScanTypes, FmScanPass
  PROVE  ListStep
<1> USE DEF ScanTypes
<1> DEFINE Scans == [state : ScanStates, first : Freqs \cup {0}, candidate : Freqs \cup {0},
                     seeks : 0..MaxSeeks]
<1>1. CASE PassBandStart
  <2>1. fmScan' \in Scans /\ fmScan'.state = "StartSeek"
    BY <1>1 DEF PassBandStart, ScanStates
  <2> QED
    BY <1>1, <2>1 DEF PassBandStart, ListStep, Lists
<1>2. CASE PassStartSeek
  <2>1. (IF fmScan.seeks < MaxSeeks THEN fmScan.seeks + 1 ELSE fmScan.seeks) \in 0..MaxSeeks
    BY SeekCounted
  <2>2. fmScan' \in Scans /\ fmScan'.state = "WaitSeek"
    BY <1>2, <2>1 DEF PassStartSeek, ScanStates
  <2> QED
    BY <1>2, <2>2 DEF PassStartSeek, ListStep, Lists
<1>3. CASE PassWaitSeek
  <2>1. CASE BandDone
    <3>1. fmStations \in Lists
      BY DEF Lists
    <3> QED
      BY <1>3, <2>1, <3>1, FinishLists DEF PassWaitSeek
  <2>2. CASE ~BandDone
    <3>1. /\ fmScan' \in Scans /\ fmScan'.state = "RdsDwell" /\ fmScan'.candidate = fmFrequency
          /\ fmFrequency \in Freqs
      BY <1>3, <2>2 DEF PassWaitSeek, ScanStates, FmTypeOK
    <3> QED
      BY <1>3, <2>2, <3>1 DEF PassWaitSeek, ListStep, Lists
  <2> QED
    BY <2>1, <2>2
<1>4. CASE PassDwell
  <2>1. PICK held \in Added(fmStations, Candidate) :
          IF SeeksUsedUp(fmScan.seeks) THEN FinishFmScan(held)
          ELSE /\ fmStations' = held
               /\ fmScan' = [fmScan EXCEPT !.state = "StartSeek"]
               /\ UNCHANGED <<fmVars, region, fmCompleted, fmNvs>>
    BY <1>4 DEF PassDwell
  <2>2. held \in Lists
    BY <1>4 DEF PassDwell, Lists
  <2>3. CASE SeeksUsedUp(fmScan.seeks)
    BY <2>1, <2>2, <2>3, FinishLists
  <2>4. CASE ~SeeksUsedUp(fmScan.seeks)
    <3>1. fmScan' \in Scans /\ fmScan'.state = "StartSeek"
      BY <2>1, <2>4 DEF ScanStates
    <3> QED
      BY <2>1, <2>2, <2>4, <3>1 DEF ListStep, Lists
  <2> QED
    BY <2>3, <2>4
<1> QED
  BY <1>1, <1>2, <1>3, <1>4 DEF FmScanPass

\* The power fails while a list is being saved, or at another time.
LEMMA LostLists ==
  ASSUME FmTypeOK, ScanTypes, LosePower
  PROVE  ListStep
<1>1. fmNvs' \in Contents /\ fmNvs'.list \in Lists
  <2>1. CASE fmNvs' = fmNvs
    BY <2>1 DEF ScanTypes, Lists
  <2>2. ASSUME NEW held \in BeingSaved, fmNvs' \in CutShort(held) \cup {Saved(held)}
        PROVE  fmNvs' \in Contents /\ fmNvs'.list \in Lists
    <3>1. held \in Lists
      <4>1. held = fmStations \/ (fmScan.state = "RdsDwell" /\ held \in Added(fmStations, Candidate))
        BY DEF BeingSaved
      <4> QED
        BY <4>1 DEF Lists
    <3>2. fmNvs' \in Contents /\ fmNvs'.list \in {fmNvs.list, held}
      BY <2>2, <3>1, ListsAreFitted, WrittenContents
    <3> QED
      BY <3>1, <3>2 DEF Lists
  <2> QED
    BY <2>1, <2>2 DEF LosePower
<1>2. fmStations' \in Lists
  BY <1>1, LoadedList DEF LosePower, Lists
<1>3. fmCompleted' \in BOOLEAN
  BY <1>1, CompleteType DEF LosePower
<1> QED
  BY <1>1, <1>2, <1>3 DEF LosePower, ListStep, ScanTypes

LEMMA ScanListStep ==
  ASSUME FmTypeOK, ScanTypes, fmCompleted = Complete(fmNvs, region), [FmScanNext]_fmScanVars
  PROVE  ListStep
<1>1. CASE UNCHANGED lists
  BY <1>1 DEF lists, ListStep, ScanTypes, Lists
<1>2. CASE CancelFmScan
  BY <1>2, CancelLists
<1>3. CASE StartFmScan
  <2>1. /\ fmScan' \in [state : ScanStates, first : Freqs \cup {0}, candidate : Freqs \cup {0},
                        seeks : 0..MaxSeeks]
        /\ fmScan'.state = "WaitBandStart"
    BY <1>3, NoFmScanType DEF StartFmScan, ScanStates
  <2> QED
    BY <1>3, <2>1 DEF StartFmScan, ListStep, ScanTypes, Lists
<1>4. CASE ChangeRegion
  <2>1. fmStations' \in Lists
    BY <1>4, LoadedList DEF ChangeRegion, Lists
  <2>2. fmCompleted' \in BOOLEAN
    BY <1>4, CompleteType DEF ChangeRegion, ScanTypes
  <2>3. fmScan' = fmScan /\ fmNvs' = fmNvs /\ region' \in Regions
    BY <1>4 DEF ChangeRegion
  <2> QED
    BY <1>4, <2>1, <2>2, <2>3 DEF ChangeRegion, ListStep, ScanTypes, Lists
<1>5. CASE FmScanPass
  BY <1>5, PassLists
<1>6. CASE LosePower
  BY <1>6, LostLists
<1> QED
  BY <1>1, <1>2, <1>3, <1>4, <1>5, <1>6
     DEF FmScanNext, Receive, RotaryOne, RotaryTwo, CancelByKey, fmScanVars

LEMMA ScanTypeStep ==
  ASSUME FmTypeOK, ScanTypes, ListStep
  PROVE  ScanTypes'
<1>1. Fitted(fmStations') /\ Fitted(fmNvs'.list)
  BY ListsAreFitted DEF ListStep
<1>2. /\ fmScan' \in [state : ScanStates, first : Freqs \cup {0}, candidate : Freqs \cup {0},
                      seeks : 0..MaxSeeks]
      /\ fmScan'.state = "RdsDwell" => fmScan'.candidate \in Freqs
  BY NoFmScanType DEF ListStep, ScanTypes
<1> QED
  BY <1>1, <1>2 DEF ListStep, ScanTypes

\* The flag on offer is the one in the flash; without a scan so is the list.
FlagAndListKept == fmCompleted = Complete(fmNvs, region) /\ FmListSurvives

LEMMA ListKeptStep ==
  ASSUME ScanTypes, FlagAndListKept, ListStep
  PROVE  FlagAndListKept'
<1>1. CASE fmStations' = Loaded(fmNvs', region') /\ fmCompleted' = Complete(fmNvs', region')
  BY <1>1 DEF FlagAndListKept, FmListSurvives
<1>2. CASE UNCHANGED <<region, fmScan, fmStations, fmCompleted, fmNvs>>
  BY <1>2 DEF FlagAndListKept, FmListSurvives, Scanning
<1>3. CASE UNCHANGED <<region, fmCompleted, fmNvs>> /\ fmScan'.state # "Idle"
  BY <1>3 DEF FlagAndListKept, FmListSurvives, Scanning
<1> QED
  BY <1>1, <1>2, <1>3 DEF ListStep

LEMMA ScanInvariant == FmScanSpec => [](ScanInductive /\ FlagAndListKept)
<1>1. FmScanInit => ScanInductive /\ FlagAndListKept
  <2> SUFFICES ASSUME FmScanInit PROVE ScanInductive /\ FlagAndListKept
    OBVIOUS
  <2>1. FmTypeOK /\ SweepIsNamed
    BY FmTypeInit DEF FmScanInit
  <2>2. fmNvs \in Contents /\ fmNvs.list = {} /\ fmNvs.done = FALSE
    BY DEF FmScanInit, Contents
  <2>3. ScanTypes
    BY <2>2, NoFmScanType, EmptyIsFitted DEF FmScanInit, ScanTypes
  <2>4. FlagAndListKept
    BY <2>2 DEF FmScanInit, FlagAndListKept, FmListSurvives, Loaded, Complete
  <2> QED
    BY <2>1, <2>3, <2>4 DEF ScanInductive
<1>2. ScanInductive /\ FlagAndListKept /\ [FmScanNext]_fmScanVars
        => (ScanInductive /\ FlagAndListKept)'
  <2> SUFFICES ASSUME ScanInductive, FlagAndListKept, [FmScanNext]_fmScanVars
               PROVE  ScanInductive' /\ FlagAndListKept'
    OBVIOUS
  <2>1. ListStep
    BY ScanListStep DEF ScanInductive, FlagAndListKept
  <2> QED
    BY <2>1, ReceiverTypeStep, ScanTypeStep, ListKeptStep DEF ScanInductive
<1> QED
  BY <1>1, <1>2, PTL DEF FmScanSpec

\* Receiver, scan, list and flash keep their types; in particular the list never outgrows the
\* three records that keep it, and so never has more than FM_STATION_LIST_CAPACITY stations.
THEOREM FmScanTypeCorrect == FmScanSpec => [](FmScanTypeOK /\ Cardinality(fmNvs.list) <= StationLimit)
<1>1. ScanInductive => FmScanTypeOK /\ Cardinality(fmNvs.list) <= StationLimit
  BY DEF ScanInductive, ScanTypes, Fitted, FmScanTypeOK, Contents
<1> QED
  BY <1>1, ScanInvariant, PTL

\* Without a scan the list on offer and its flag are those in the flash, whatever was
\* cancelled, refused by the flash or cut short by a loss of power.
THEOREM FmListIsKept == FmScanSpec => []FmListSurvives
<1>1. FlagAndListKept => FmListSurvives
  BY DEF FlagAndListKept
<1> QED
  BY <1>1, ScanInvariant, PTL

-----------------------------------------------------------------------------
(* FmScan: what is listed.  A scan keeps user, seek and sweep away from    *)
(* the tuner, so that it rests on the candidate during the dwell, and RDS  *)
(* can only come from there.                                               *)

ScanIsHeld == Scanning => ~tuning /\ ~seek /\ ~allowed /\ ~Probing(af)

DwellIsAtRest == fmScan.state = "RdsDwell" => ~tunePending /\ fmScan.candidate = at

ListsReceived == Received(fmStations) /\ Received(fmNvs.list)

\* Without a menu closed or a sweep under way no sweep begins.
LEMMA NoSweepBegins ==
  ASSUME FmTypeOK, ~allowed, ~Probing(af), ProcessDAB
  PROVE  /\ ~Probing(af') /\ (~tunePending => ~tunePending')
         /\ UNCHANGED <<at, tuning, seek, allowed>>
<1> USE DEF FmTypeOK
<1>1. ~Usable
  BY DEF Usable
<1>2. ~AfTunes
  BY <1>1 DEF AfTunes, Probing
<1>3. \A a \in QuietSweeps : ~Probing(a)
  BY <1>1, NoSweepIsQuiet DEF QuietSweeps
<1>4. CASE TunePass
  <2>1. PICK a \in QuietSweeps : PollTune(a)
    BY <1>4 DEF TunePass
  <2> QED
    BY <1>3, <1>4, <2>1 DEF TunePass, PollTune, Probing, Refresh
<1>5. CASE SignalPass
  <2>1. PICK a \in QuietSweeps : PollSignalQuality(a)
    BY <1>5 DEF SignalPass
  <2> QED
    BY <1>3, <1>5, <2>1 DEF SignalPass, PollSignalQuality, Probing, Refresh
<1>6. CASE RdsPass
  <2>1. PICK a \in QuietSweeps : ReadRds(a)
    BY <1>6 DEF RdsPass
  <2> QED
    BY <1>3, <1>6, <2>1 DEF RdsPass, ReadRds, RdsOfCandidate, Probing, Refresh
<1>7. CASE EmptyPass
  <2>1. PICK a \in QuietSweeps : NothingDue(a)
    BY <1>7 DEF EmptyPass
  <2> QED
    BY <1>3, <1>7, <2>1 DEF EmptyPass, NothingDue, Refresh
<1>8. CASE BlockedPass
  BY <1>8 DEF BlockedPass, Refresh
<1> QED
  BY <1>2, <1>4, <1>5, <1>6, <1>7, <1>8 DEF ProcessDAB, AfPass

LEMMA HeldStep ==
  ASSUME FmTypeOK, FmSound, ScanTypes, ScanIsHeld, DwellIsAtRest, ~FineTuneInScan,
         [FmScanNext]_fmScanVars
  PROVE  ScanIsHeld' /\ DwellIsAtRest'
<1> USE DEF Scanning
<1>1. CASE ~Scanning /\ UNCHANGED fmScan
  BY <1>1 DEF ScanIsHeld, DwellIsAtRest
<1>2. CASE fmScan' = NoFmScan
  BY <1>2 DEF NoFmScan, ScanIsHeld, DwellIsAtRest
<1>3. CASE Scanning /\ Receive
  <2>1. fmScan' = fmScan /\ ~tuning /\ ~seek /\ ~allowed /\ ~Probing(af)
    BY <1>3 DEF Receive, lists, ScanIsHeld
  <2>2. CASE Arrive
    <3>1. tunePending
      BY <2>2 DEF Arrive, FmSound, TuneIsAwaited
    <3> QED
      BY <2>1, <2>2, <3>1 DEF Arrive, controls, ScanIsHeld, DwellIsAtRest
  <2>3. CASE ProcessDAB
    BY <2>1, <2>3, NoSweepBegins DEF ScanIsHeld, DwellIsAtRest
  <2> QED
    BY <1>3, <2>1, <2>2, <2>3 DEF Receive, BeginSeek, EndSeek, TuneByKnob
<1>4. CASE StartFmScan
  <2>1. fmScan'.state = "WaitBandStart" /\ ~tuning' /\ ~seek' /\ ~allowed' /\ af' = NoSweep
    BY <1>4 DEF StartFmScan, SetFmFrequency, NoFmScan
  <2> QED
    BY <2>1, NoSweepIsQuiet DEF ScanIsHeld, DwellIsAtRest
<1>5. CASE PassBandStart
  <2>1. fmScan'.state = "StartSeek" /\ Scanning /\ UNCHANGED <<tuning, seek, allowed, af>>
    BY <1>5 DEF PassBandStart, ScanTypes, fmVars, controls
  <2> QED
    BY <2>1 DEF ScanIsHeld, DwellIsAtRest
<1>6. CASE PassStartSeek
  <2>1. fmScan'.state = "WaitSeek" /\ Scanning /\ UNCHANGED <<tuning, seek, allowed>> /\ af' = NoSweep
    BY <1>6 DEF PassStartSeek, StartFmSeek, ScanTypes, controls
  <2> QED
    BY <2>1, NoSweepIsQuiet DEF ScanIsHeld, DwellIsAtRest
<1>7. CASE PassWaitSeek /\ fmScan' # NoFmScan
  <2>1. /\ fmScan'.state = "RdsDwell" /\ fmScan'.candidate = fmFrequency /\ Scanning /\ ~tunePending
        /\ UNCHANGED <<tuning, seek, allowed, af, tunePending, at>>
    BY <1>7 DEF PassWaitSeek, FinishFmScan, ScanTypes, fmVars, controls, tuner
  <2>2. fmFrequency = at
    BY <2>1 DEF ScanIsHeld, FmSound, RestIsReceived
  <2> QED
    BY <2>1, <2>2 DEF ScanIsHeld, DwellIsAtRest
<1>8. CASE PassDwell /\ fmScan' # NoFmScan
  <2>1. fmScan' = [fmScan EXCEPT !.state = "StartSeek"] /\ UNCHANGED fmVars
    BY <1>8 DEF PassDwell, FinishFmScan
  <2>2. fmScan'.state = "StartSeek" /\ Scanning /\ UNCHANGED <<tuning, seek, allowed, af>>
    BY <1>8, <2>1 DEF PassDwell, ScanTypes, fmVars, controls
  <2> QED
    BY <2>2 DEF ScanIsHeld, DwellIsAtRest
<1>9. CASE UNCHANGED fmScanVars
  BY <1>9 DEF fmScanVars, fmVars, lists, tuner, controls, ScanIsHeld, DwellIsAtRest
<1>10. CASE RotaryOne \/ RotaryTwo \/ CancelByKey \/ ChangeRegion \/ LosePower
  BY <1>1, <1>2, <1>10 DEF RotaryOne, RotaryTwo, CancelByKey, CancelFmScan, ChangeRegion,
                           LosePower, lists
<1>11. CASE ~Scanning /\ Receive
  BY <1>1, <1>11 DEF Receive, lists
<1> QED
  BY <1>2, <1>3, <1>4, <1>5, <1>6, <1>7, <1>8, <1>9, <1>10, <1>11 DEF FmScanNext, FmScanPass

\* What may be stored at the end of a dwell was received there.
LEMMA ListsStayReceived ==
  ASSUME FmTypeOK, FmSound, ScanIsHeld, DwellIsAtRest, ListsReceived, ListStep
  PROVE  ListsReceived'
<1>1. ASSUME fmScan.state = "RdsDwell"
      PROVE  Candidate.pi \in {0, Programme[Candidate.freq]}
  <2>1. ~tunePending /\ fmScan.candidate = at /\ ~Probing(af)
    BY <1>1 DEF DwellIsAtRest, ScanIsHeld, Scanning
  <2>2. fmPi # 0 => fmPi = Programme[at]
    BY <2>1 DEF FmSound, RestIsReceived
  <2> QED
    BY <2>1, <2>2 DEF Candidate
<1>2. \A list \in Lists : Received(list)
  BY <1>1, EmptyIsFitted, AddedIsReceived DEF Lists, ListsReceived
<1> QED
  BY <1>2 DEF ListStep, ListsReceived

LEMMA ScanSoundInvariant == FmScanSpec /\ [][~RequestRefused]_fmScanVars => []FmSound
<1>1. FmScanInit => FmSound
  BY FmSoundInit DEF FmScanInit
<1>2. ScanInductive /\ FmSound /\ [FmScanNext]_fmScanVars /\ [~RequestRefused]_fmScanVars
        => FmSound'
  BY ReceiverSoundStep DEF ScanInductive
<1> QED
  BY <1>1, <1>2, ScanInvariant, PTL DEF FmScanSpec

\* A scan, its cancellation and a new region leave the receiver as sound as the user does, unless
\* a request is refused.
THEOREM SoundDuringScans ==
  FmScanSpec /\ [][~RequestRefused]_fmScanVars
    => [](OnlyVerifiedHeard /\ RdsOfThisStation /\ ShownIsReceived)
<1>1. ScanInductive /\ FmSound => OnlyVerifiedHeard /\ RdsOfThisStation /\ ShownIsReceived
  BY SoundReception DEF ScanInductive, FmInductive
<1> QED
  BY <1>1, ScanInvariant, ScanSoundInvariant, PTL

LEMMA ListedInvariant ==
  ASSUME ~FineTuneInScan
  PROVE  FmScanSpec /\ [][~RequestRefused]_fmScanVars => []ListsReceived
<1> DEFINE Held == ScanIsHeld /\ DwellIsAtRest /\ ListsReceived
<1>1. FmScanInit => Held
  <2> SUFFICES ASSUME FmScanInit PROVE Held
    OBVIOUS
  <2>1. fmScan.state = "Idle" /\ fmStations = {} /\ fmNvs.list = {}
    BY DEF FmScanInit, NoFmScan
  <2> QED
    BY <2>1, EmptyIsFitted DEF ScanIsHeld, DwellIsAtRest, ListsReceived, Scanning
<1>2. ScanInductive /\ FlagAndListKept /\ FmSound /\ Held /\ [FmScanNext]_fmScanVars => Held'
  <2> SUFFICES ASSUME ScanInductive, FlagAndListKept, FmSound, Held, [FmScanNext]_fmScanVars
               PROVE  Held'
    OBVIOUS
  <2>1. FmTypeOK /\ ScanTypes
    BY DEF ScanInductive
  <2>2. ListStep
    BY <2>1, ScanListStep DEF FlagAndListKept
  <2>3. ScanIsHeld' /\ DwellIsAtRest'
    BY <2>1, HeldStep
  <2>4. ListsReceived'
    BY <2>1, <2>2, ListsStayReceived
  <2> QED
    BY <2>3, <2>4
<1> QED
  BY <1>1, <1>2, ScanInvariant, ScanSoundInvariant, PTL DEF FmScanSpec

\* The RDS of one station is never stored with the frequency of another: a record of the list,
\* or of the flash, has the PI of its own frequency or none, unless a request is refused or
\* rotary 2 tunes within the scan.
THEOREM ListedIsReceived ==
  ASSUME ~FineTuneInScan
  PROVE  FmScanSpec /\ [][~RequestRefused]_fmScanVars => []ListedAsReceived
<1>1. ListsReceived => ListedAsReceived
  BY DEF ListsReceived, Received, ListedAsReceived
<1> QED
  BY <1>1, ListedInvariant, PTL

=============================================================================
