----------------------------- MODULE FmReceiver ------------------------------
(***************************************************************************)
(* FM reception: the tuning, the seek, the alternative-frequency (AF)      *)
(* sweep and the use of RDS of class DAB (src/src/si4684.cpp,              *)
(* src/src/fm_af_policy.h), with the parts of the main loop that ask for a *)
(* frequency and show the one received (src/SI4684-DAB-Receiver.ino).      *)
(*                                                                         *)
(* The tuner is external.  A tune or a seek leads from the frequency at to *)
(* the frequency to, which is 0 once the tuner has settled; one that times *)
(* out ends like one that reports its end.  Stations of one programme may  *)
(* announce different alternatives.  Of a signal there is only whether it  *)
(* is valid: whether it is weak, or that of a candidate better, is left    *)
(* open, as are all deadlines.  RDS is the PI and the alternatives.        *)
(*                                                                         *)
(* A field of the sweep that is written before it is read again is reset.  *)
(* KeepRds, BetterSignal, WaitForValid and RdsIntoProgramme are faulty     *)
(* variants of the operator that follows them.                             *)
(***************************************************************************)
EXTENDS Naturals

CONSTANTS
  Freqs,         \* the raster of the region
  Programme,     \* external: the PI of the station on a frequency, 0 for none
  Announced,     \* external: the alternatives it announces
  ProbeRequests, \* may a frequency be asked for in the turn that sends a tune of a sweep?
  MaxFmEvents    \* bound: requests of the user

ASSUME FmAssumption ==
  /\ Freqs \subseteq Nat \ {0} /\ Freqs # {}
  /\ Programme \in [Freqs -> Nat] /\ Announced \in [Freqs -> SUBSET Freqs]
  /\ ProbeRequests \in BOOLEAN /\ MaxFmEvents \in Nat

VARIABLES
  at, to,        \* external: where the tuner is, and where its tune or seek leads
  busy,          \* chip.busy(): a tune or seek command waits for CTS
  tunePending, seekPending,
  fmFrequency,   \* fmFrequency10kHz
  fmValid,       \* fmValid and signallock
  fmPi, fmAf,    \* the PI and the alternatives received with it
  af,            \* fmAfState and the sweep
  muted,         \* fmAfProbeMuted
  fmfreq,        \* the frequency shown, and asked for by the user
  tuning,        \* the user turns the knob, Update(false)
  seek, started, \* seek and fmSeekStarted
  allowed,       \* no menu, list or scan is open and AF is enabled
  chosen,        \* history: the frequency last asked for, or where a seek ended
  fmEvents       \* bound: requests so far

tuner == <<at, to, busy, tunePending, seekPending>>
reception == <<fmFrequency, fmValid, fmPi, fmAf>>
controls == <<fmfreq, tuning, seek, started, allowed, chosen, fmEvents>>
fmVars == <<tuner, reception, af, muted, controls>>

Programmes == {Programme[f] : f \in Freqs}
AfStates == {"Idle", "WeakHold", "CandidateTune", "CandidatePi", "RestoreTune", "Cooldown"}
Sweeps ==
  [ state : AfStates, left : SUBSET Freqs, candidate : Freqs \cup {0}, pi : Programmes \cup {0},
    samples : 0..2, original : Freqs \cup {0}, expected : Programmes \cup {0} ]
NoSweep ==
  [ state |-> "Idle", left |-> {}, candidate |-> 0, pi |-> 0,
    samples |-> 0, original |-> 0, expected |-> 0 ]
InState(state) == [NoSweep EXCEPT !.state = state]

FmTypeOK ==
  /\ at \in Freqs /\ to \in Freqs \cup {0}
  /\ busy \in BOOLEAN /\ tunePending \in BOOLEAN /\ seekPending \in BOOLEAN
  /\ fmFrequency \in Freqs /\ fmValid \in BOOLEAN
  /\ fmPi \in Programmes \cup {0} /\ fmAf \subseteq Freqs
  /\ af \in Sweeps /\ muted \in BOOLEAN
  /\ fmfreq \in Freqs /\ tuning \in BOOLEAN /\ seek \in BOOLEAN /\ started \in BOOLEAN
  /\ allowed \in BOOLEAN /\ chosen \in Freqs /\ fmEvents \in 0..MaxFmEvents

\* After begin() and the first setFmFrequency
FmInit ==
  /\ at \in Freqs /\ fmfreq \in Freqs /\ to = fmfreq
  /\ busy = TRUE /\ tunePending = TRUE /\ seekPending = FALSE
  /\ fmFrequency = fmfreq /\ fmValid = FALSE /\ fmPi = 0 /\ fmAf = {}
  /\ af = NoSweep /\ muted = FALSE
  /\ tuning = FALSE /\ seek = FALSE /\ started = FALSE /\ allowed = TRUE
  /\ chosen = fmfreq /\ fmEvents = 0

Probing(a) == a.state \in {"CandidateTune", "CandidatePi", "RestoreTune"}

Asks == fmEvents < MaxFmEvents /\ fmEvents' = fmEvents + 1

-----------------------------------------------------------------------------
(* Tuning. *)

Arrive ==
  /\ to # 0
  /\ at' = to /\ to' = 0
  /\ UNCHANGED <<busy, tunePending, seekPending, reception, af, muted, controls>>

\* Only the signal is forgotten.
KeepRds == fmValid' = FALSE /\ UNCHANGED <<fmPi, fmAf>>

ClearFmData == fmValid' = FALSE /\ fmPi' = 0 /\ fmAf' = {}

StartTune(f) == to' = f /\ busy' = TRUE /\ tunePending' = TRUE /\ UNCHANGED at

\* setFmFrequency: the command is refused while another one waits for CTS; two requests of the
\* user are further apart than that.
SetFmFrequency(f) ==
  /\ busy => ProbeRequests /\ Probing(af)
  /\ af' = NoSweep /\ ClearFmData /\ fmFrequency' = f
  /\ seekPending' = FALSE
  /\ IF busy THEN tunePending' = FALSE /\ UNCHANGED <<at, to, busy>> ELSE StartTune(f)
  /\ chosen' = f

\* startFmSeek
StartFmSeek ==
  /\ ~tunePending /\ ~busy
  /\ af' = NoSweep /\ ClearFmData /\ UNCHANGED fmFrequency
  /\ seekPending' = TRUE
  /\ \E f \in Freqs : StartTune(f)

-----------------------------------------------------------------------------
(* The AF sweep. *)

Usable == allowed /\ ~seek /\ fmPi # 0 /\ fmAf # {}

\* startFmAfTune
StartAfTune(f, a) ==
  /\ StartTune(f) /\ seekPending' = FALSE
  /\ af' = [a EXCEPT !.pi = 0, !.samples = 0]

Restore(a) == StartAfTune(a.original, [a EXCEPT !.state = "RestoreTune"])

\* startNextCandidate; the order of the list is left open.
StartNextCandidate(a) ==
  \/ \E f \in a.left \ {a.original} :
       StartAfTune(f, [a EXCEPT !.state = "CandidateTune", !.candidate = f, !.left = @ \ {f}])
  \/ a.left \subseteq {a.original} /\ Restore(a)

NewSweep == [NoSweep EXCEPT !.left = fmAf, !.original = fmFrequency, !.expected = fmPi]

\* processFmAf returns true: it is not usable, the sweep is over its time, the candidate is
\* refused or shows no PI in time, or the signal was weak for long enough.
AfTunes ==
  /\ ~tunePending
  /\ \/ ~Usable /\ Probing(af) /\ af.state # "RestoreTune" /\ Restore(af)
     \/ Usable /\ af.state = "CandidatePi" /\ (Restore(af) \/ StartNextCandidate(af))
     \/ Usable /\ af.state = "WeakHold" /\ StartNextCandidate(NewSweep)
  /\ UNCHANGED <<reception, chosen>>

Heard == af.pi # 0 /\ af.samples = 2

\* The signal decides.
BetterSignal == Heard

CandidateIsBetter == Heard /\ af.expected # 0 /\ af.pi = af.expected

\* The sweeps that processFmAf may leave when it returns false
QuietSweeps ==
  IF ~Usable
  THEN IF ~Probing(af) THEN {NoSweep}
       ELSE {a \in {af} : tunePending \/ af.state = "RestoreTune"}
  ELSE CASE af.state \in {"Idle", "WeakHold"} -> {NoSweep, InState("WeakHold")}
         [] af.state = "Cooldown" -> {af, NoSweep}
         [] af.state = "CandidatePi" ->
              IF CandidateIsBetter THEN {InState("Cooldown")} ELSE {a \in {af} : ~Heard}
         [] OTHER -> {af}

Accepted(a) == af.state = "CandidatePi" /\ a.state = "Cooldown"

FrequencyAfter(a) == IF Accepted(a) THEN af.candidate ELSE fmFrequency

ValidAfter(a) == fmValid \/ Accepted(a)

-----------------------------------------------------------------------------
(* updateFm and the rest of ProcessDAB. *)

Validity == {valid \in BOOLEAN : valid => to = 0 /\ Programme[at] # 0}

Sampled(a) == {a, [a EXCEPT !.samples = IF @ < 2 THEN @ + 1 ELSE 2]}

\* A tune ends with a valid signal only.
WaitForValid == to = 0 /\ fmValid

TuneOver == to = 0

\* FM_RSQ_STATUS while a tune is pending
PollTune(a) ==
  /\ tunePending
  /\ tunePending' = ~TuneOver /\ seekPending' = (seekPending /\ ~TuneOver)
  /\ CASE a.state = "CandidateTune" ->
            IF TuneOver THEN af' \in Sampled([a EXCEPT !.state = "CandidatePi"]) ELSE af' = a
       [] a.state = "RestoreTune" -> af' = IF TuneOver THEN InState("Cooldown") ELSE a
       [] OTHER -> af' = a
  /\ IF a.state \in {"CandidateTune", "RestoreTune"} THEN UNCHANGED <<fmFrequency, fmValid>>
     ELSE fmFrequency' \in {at, to} \ {0} /\ fmValid' \in Validity
  /\ chosen' = IF TuneOver /\ seekPending THEN at ELSE chosen
  /\ UNCHANGED <<at, to, fmPi, fmAf>>

\* FM_RSQ_STATUS otherwise
PollSignalQuality(a) ==
  /\ ~tunePending
  /\ IF a.state = "CandidatePi"
     THEN af' \in Sampled(a) /\ UNCHANGED <<fmFrequency, fmValid>>
     ELSE af' = a /\ fmFrequency' = at /\ fmValid' \in Validity
  /\ UNCHANGED <<at, to, tunePending, seekPending, fmPi, fmAf, chosen>>

\* What is received while a candidate is tried is taken like any other.
RdsIntoProgramme(a) == FALSE

RdsOfCandidate(a) == a.state = "CandidatePi"

\* processFmRds with a station that is received
ReadRds(a) ==
  /\ ~tunePending /\ Programme[at] # 0
  /\ IF RdsOfCandidate(a)
     THEN af' = [a EXCEPT !.pi = Programme[at]] /\ UNCHANGED <<fmPi, fmAf>>
     ELSE /\ af' = a /\ fmPi' = Programme[at]
          /\ \E received \in SUBSET Announced[at] :
               fmAf' = received \cup (IF fmPi = fmPi' THEN fmAf ELSE {})
  /\ fmFrequency' = FrequencyAfter(a) /\ fmValid' = ValidAfter(a)
  /\ UNCHANGED <<at, to, tunePending, seekPending, chosen>>

NothingDue(a) ==
  /\ af' = a /\ fmFrequency' = FrequencyAfter(a) /\ fmValid' = ValidAfter(a)
  /\ UNCHANGED <<at, to, tunePending, seekPending, fmPi, fmAf, chosen>>

\* The headphones are muted for a probe, and the display follows the receiver.
Refresh ==
  /\ muted' = Probing(af')
  /\ fmfreq' = IF ~tuning /\ (seek \/ ~tunePending') THEN fmFrequency' ELSE fmfreq
  /\ UNCHANGED <<tuning, seek, started, allowed, fmEvents>>

\* Update(!tuning), with a command that completes or none
TunePass   == ~tuning /\ busy' = FALSE /\ (\E a \in QuietSweeps : PollTune(a)) /\ Refresh
SignalPass == ~tuning /\ busy' = FALSE /\ (\E a \in QuietSweeps : PollSignalQuality(a)) /\ Refresh
RdsPass    == ~tuning /\ busy' = FALSE /\ (\E a \in QuietSweeps : ReadRds(a)) /\ Refresh
EmptyPass  == ~tuning /\ busy' = FALSE /\ (\E a \in QuietSweeps : NothingDue(a)) /\ Refresh
AfPass     == ~tuning /\ AfTunes /\ Refresh

\* The command still waits, or the user is tuning and it is only served.
BlockedPass ==
  /\ (busy /\ busy' = TRUE) \/ (tuning /\ busy' = FALSE)
  /\ UNCHANGED <<at, to, tunePending, seekPending, reception, af, chosen>> /\ Refresh
ServedPass == tuning /\ busy' = FALSE /\ BlockedPass

ProcessDAB == TunePass \/ SignalPass \/ RdsPass \/ EmptyPass \/ AfPass \/ BlockedPass

-----------------------------------------------------------------------------
(* The main loop. *)

\* Seek: it starts when the tuner is free, and ends with its tune.
BeginSeek ==
  /\ seek /\ ~started
  /\ StartFmSeek /\ started' = TRUE
  /\ UNCHANGED <<muted, fmfreq, tuning, seek, allowed, chosen, fmEvents>>

EndSeek ==
  /\ seek /\ started /\ ~tunePending
  /\ seek' = FALSE /\ started' = FALSE /\ fmfreq' = fmFrequency
  /\ UNCHANGED <<tuner, reception, af, muted, tuning, allowed, chosen, fmEvents>>

\* The knob stays still for 250 ms.
TuneByKnob ==
  /\ tuning
  /\ SetFmFrequency(fmfreq) /\ tuning' = FALSE
  /\ UNCHANGED <<muted, fmfreq, seek, started, allowed, fmEvents>>

TurnKnob ==
  /\ ~seek /\ Asks
  /\ tuning' = TRUE /\ fmfreq' \in Freqs
  /\ UNCHANGED <<tuner, reception, af, muted, seek, started, allowed, chosen>>

\* ActivateCurrentService: a station of the list is tuned at once.
SelectStation ==
  /\ Asks
  /\ \E f \in Freqs : SetFmFrequency(f) /\ fmfreq' = f
  /\ UNCHANGED <<muted, tuning, seek, started, allowed>>

PressSeek ==
  /\ ~seek /\ Asks
  /\ seek' = TRUE
  /\ UNCHANGED <<tuner, reception, af, muted, fmfreq, tuning, started, allowed, chosen>>

\* CycleTuneMode, the standby key: the tuner finishes its seek.
LeaveSeek ==
  /\ seek /\ Asks
  /\ seek' = FALSE /\ started' = FALSE
  /\ UNCHANGED <<tuner, reception, af, muted, fmfreq, tuning, allowed, chosen>>

\* A menu or a list opens or closes, or AF is switched on or off.
ChangeView ==
  /\ Asks
  /\ allowed' = ~allowed
  /\ UNCHANGED <<tuner, reception, af, muted, fmfreq, tuning, seek, started, chosen>>

FmNext ==
  \/ Arrive \/ ProcessDAB
  \/ BeginSeek \/ EndSeek \/ TuneByKnob
  \/ TurnKnob \/ SelectStation \/ PressSeek \/ LeaveSeek \/ ChangeView

FmSpec == FmInit /\ [][FmNext]_fmVars

\* The tuner answers, and the loop does what is due: its polls, the next candidate, the seek.
FmFairness ==
  /\ WF_fmVars(Arrive) /\ WF_fmVars(TunePass) /\ WF_fmVars(SignalPass) /\ WF_fmVars(ServedPass)
  /\ WF_fmVars(AfPass)
  /\ WF_fmVars(BeginSeek) /\ WF_fmVars(EndSeek) /\ WF_fmVars(TuneByKnob)

FmFairSpec == FmSpec /\ FmFairness

-----------------------------------------------------------------------------
(* Properties. *)

AtRest == ~tuning /\ ~busy /\ ~tunePending /\ to = 0

\* What is heard from a tuner at rest is the station that was asked for or found, or another
\* one of its programme: AF switching has "mandatory PI verification" (README.md:77-78).
OnlyVerifiedHeard ==
  ~busy /\ ~tunePending /\ to = 0 /\ ~muted =>
    at = chosen \/ (Programme[at] = Programme[chosen] /\ Programme[at] # 0)

\* The PI and the alternatives on show are those of the station received, or, while others are
\* probed, of the one to return to.
RdsOfThisStation ==
  fmPi # 0 /\ ~tunePending /\ to = 0 =>
    /\ fmPi = Programme[IF Probing(af) THEN af.original ELSE at]
    /\ fmAf \subseteq UNION {Announced[f] : f \in {g \in Freqs : Programme[g] = fmPi}}

\* At rest the frequency on show, to which the knob adds its steps, is the one received.
ShownIsReceived == AtRest /\ ~Probing(af) => fmFrequency = at /\ fmfreq = at

\* A sweep ends, on the original or on a better frequency, however many alternatives there are,
\* and so does a seek, although a sweep may run when it is asked for.
SearchesEnd == []<>~Probing(af) /\ []<>~seek
=============================================================================
