--------------------------- MODULE SpiProbeProofs ---------------------------
(***************************************************************************)
(* Proofs about the EPG packet receiver beside the service switch, for     *)
(* every set of packet components, every number of attempts to STOP and    *)
(* any number of requests, commands and faults.                            *)
(*                                                                         *)
(* The argument: the probe and the command of the probe that is at the     *)
(* tuner belong to each other (ProbeFollowed), so that a START always      *)
(* finds a quiet tuner and the endpoint is known until its STOP has been   *)
(* confirmed (StreamQuarantined).  A tune is sent, and waited for, with    *)
(* the probe at rest (TuneAlone): when its end makes the driver forget the *)
(* probe there is nothing left to stop.  A suspension holds only while the *)
(* probe is idle, and a pending one only while a STOP is under way         *)
(* (SuspensionFollowed).                                                   *)
(***************************************************************************)
EXTENDS SpiProbe, TLAPS

\* What the scan has selected is a component.
Grounded == discovery.status = "Available" => discovery.spi # NoComponent

\* A stalled tuner has no command, and a command is of some tune up to now.
OneCommand ==
  /\ stalled => cmd = NoCmd
  /\ cmd.gen <= generation
  /\ cmd.op = "TuneStatus" /\ OfThisTune => tuning

\* The probe has the endpoint that it started, and follows the command it sent.
ProbeFollowed ==
  /\ probe.state = "Idle" => probe = NoProbe
  /\ probe.state # "Idle" => probe.spi # NoComponent
  /\ probe.state \in {"Baseline", "StartRequested"} => running = {}
  /\ cmd.op = "SpiStart" => probe.state = "Starting" /\ running = {}
  /\ cmd.op = "SpiStop" => probe.state = "Stopping"
  /\ probe.state = "Starting" => cmd.op = "SpiStart" \/ stalled
  /\ probe.state = "Stopping" => cmd.op = "SpiStop" \/ stalled

\* The tuner is tuned with the probe at rest; after that nothing is decoded.
TuneAlone ==
  /\ cmd.op = "Tune" \/ tuning => ~settled /\ ~Running(probe)
  /\ tuning => running = {}

\* The policy knows what the probe does.
SuspensionFollowed ==
  /\ Suspended(auto) => probe.state = "Idle"
  /\ auto.state = "StopPending" => probe.state \in {"StopRequested", "Stopping", "CleanupFailed"}
  /\ auto.state = "StopPending" => ~(cmd.op = "SpiStop" /\ ~OfThisTune)

ProbeInductive ==
  /\ TypeOK /\ Grounded /\ OneCommand
  /\ ProbeFollowed /\ StreamQuarantined
  /\ TuneAlone /\ CleanupBeforeSwitch
  /\ SuspensionFollowed

-----------------------------------------------------------------------------
(* The operators of EpgPolicy: types, and what they leave of a state. *)

\* A probe that is idle has forgotten everything, and any other has an endpoint.
Sound(p) ==
  /\ p \in Probes
  /\ p.state = "Idle" => p = NoProbe
  /\ p.state # "Idle" => p.spi # NoComponent

LEMMA NoProbeSound == Sound(NoProbe)
BY DEF Sound, NoProbe, Probes, ProbeState

\* Probe::request starts with the baseline of an endpoint that was found.
LEMMA BaselineSound ==
  ASSUME NEW c \in Components, NEW n \in Nat, NEW d \in BOOLEAN
  PROVE  /\ Sound(Baseline(c, n, d))
         /\ Baseline(c, n, d).state = "Baseline" /\ Baseline(c, n, d).spi = c
         /\ Baseline(c, n, d).request = n /\ Baseline(c, n, d).waiting
BY ProbeAssumption DEF Sound, Baseline, NoProbe, Probes, ProbeState

\* Probe::stop gives up what was not started, and never loses an endpoint that was.
LEMMA StopProbeSound ==
  ASSUME NEW p, Sound(p)
  PROVE  /\ Sound(StopProbe(p))
         /\ p.state \in {"Idle", "Baseline", "StartRequested"} => StopProbe(p) = NoProbe
         /\ p.state = "Observing" => StopProbe(p).state = "StopRequested"
         /\ p.state \notin {"Baseline", "StartRequested", "Observing"} =>
              StopProbe(p).state = p.state
         /\ p.state \notin {"Baseline", "StartRequested"} => StopProbe(p).spi = p.spi
<1>1. CASE p.state \in {"Baseline", "StartRequested"}
  BY <1>1, NoProbeSound DEF StopProbe
<1>2. CASE p.state \notin {"Baseline", "StartRequested"}
  BY <1>2 DEF Sound, StopProbe, StopRequested, Probes, ProbeState, NoProbe
<1> QED
  BY <1>1, <1>2

\* Probe::advance stops a probe out of its context, and otherwise ends an interval.
LEMMA AdvanceSound ==
  ASSUME NEW p, Sound(p), NEW same \in BOOLEAN
  PROVE  /\ Sound(Advance(p, same))
         /\ Advance(p, same).state \in {"Baseline", "StartRequested"} =>
              /\ p.state \in {"Baseline", "StartRequested"} /\ same
              /\ Advance(p, same).request = p.request
              /\ p.waiting => Advance(p, same).state = p.state
         /\ Advance(p, same).state = "Observing" => p.state = "Observing" /\ same
         /\ p.state = "Observing" => Advance(p, same).state \in {"Observing", "StopRequested"}
         /\ p.state \in {"StopRequested", "Starting", "Stopping", "CleanupFailed"} =>
              Advance(p, same).state = p.state
         /\ p.state = "Idle" => Advance(p, same) = NoProbe
         /\ p.state \in {"Baseline", "StartRequested"} =>
              \/ Advance(p, same) = NoProbe
              \/ Advance(p, same).state \in {"Baseline", "StartRequested"}
         /\ Advance(p, same) # NoProbe => Advance(p, same).spi = p.spi
<1> DEFINE q == IF ~same /\ Running(p) THEN StopProbe(p) ELSE p
<1>1. Sound(q) /\ q.state \in ProbeState /\ q.waiting \in BOOLEAN
  BY StopProbeSound DEF Sound, Probes
<1>2. Advance(p, same) =
        IF q.waiting THEN q
        ELSE IF q.state = "Baseline" THEN [q EXCEPT !.state = "StartRequested"]
        ELSE IF q.state = "Observing" THEN StopRequested(q, FALSE) ELSE q
  BY DEF Advance
<1>3. /\ p.state = "Idle" => q = NoProbe
      /\ same => q = p
      /\ ~same => q.state \notin {"Baseline", "StartRequested", "Observing"}
      /\ ~same /\ p.state = "Observing" => q.state = "StopRequested"
      /\ ~same /\ p.state \in {"Baseline", "StartRequested"} => q = NoProbe
      /\ p.state \in {"StopRequested", "Starting", "Stopping", "CleanupFailed"} => q.state = p.state
      /\ q # NoProbe => q.spi = p.spi
  <2>1. p.state \in ProbeState /\ NoProbe.state = "Idle" /\ (p.state = "Idle" => p = NoProbe)
    BY DEF Sound, Probes, NoProbe
  <2>2. CASE same \/ ~Running(p)
    BY <2>1, <2>2 DEF Running
  <2>3. CASE ~same /\ Running(p)
    BY <2>1, <2>3, StopProbeSound DEF Running, ProbeState
  <2> QED
    BY <2>2, <2>3
<1> HIDE DEF q
<1>4. Sound(Advance(p, same))
  BY <1>1, <1>2 DEF Sound, StopRequested, Probes, ProbeState
<1> QED
  BY <1>1, <1>2, <1>3, <1>4 DEF Sound, StopRequested, Probes, NoProbe

\* Probe::started keeps the endpoint unless the START was refused.
LEMMA ProbeStartedSound ==
  ASSUME NEW p, Sound(p), p.state = "Starting", NEW ok \in BOOLEAN, NEW uncertain \in BOOLEAN
  PROVE  /\ Sound(ProbeStarted(p, ok, uncertain))
         /\ ok \/ uncertain => /\ ProbeStarted(p, ok, uncertain).state \in {"Observing", "StopRequested"}
                               /\ ProbeStarted(p, ok, uncertain).spi = p.spi
         /\ ~ok /\ uncertain => ProbeStarted(p, ok, uncertain).state = "StopRequested"
         /\ ~ok /\ ~uncertain => ProbeStarted(p, ok, uncertain) = NoProbe
<1>1. CASE ok \/ uncertain
  BY <1>1 DEF Sound, ProbeStarted, StopRequested, Probes, ProbeState
<1>2. CASE ~ok /\ ~uncertain
  BY <1>2, NoProbeSound DEF ProbeStarted
<1> QED
  BY <1>1, <1>2

\* Probe::stopped forgets the endpoint only when the STOP was confirmed.
LEMMA ProbeStoppedSound ==
  ASSUME NEW p, Sound(p), p.state = "Stopping", NEW ok \in BOOLEAN
  PROVE  /\ Sound(ProbeStopped(p, ok))
         /\ ok => ProbeStopped(p, ok) = NoProbe
         /\ ~ok => /\ ProbeStopped(p, ok).state \in {"StopRequested", "CleanupFailed"}
                   /\ ProbeStopped(p, ok).spi = p.spi
<1>1. CASE ok
  BY <1>1, NoProbeSound DEF ProbeStopped
<1>2. CASE ~ok
  BY <1>2 DEF Sound, ProbeStopped, StopRequested, Probes, ProbeState
<1> QED
  BY <1>1, <1>2

\* Policy::reset and Policy::sync suspend nothing and ask for no STOP.
LEMMA SyncTypes ==
  ASSUME NEW p \in Policies, NEW c \in Contexts, NEW u \in BOOLEAN, NEW d \in BOOLEAN
  PROVE  /\ ResetPolicy(p) \in Policies
         /\ ResetPolicy(p).state \in {"Ineligible", "Disabled"}
         /\ Sync(p, c, u, d) \in Policies
         /\ Sync(p, c, u, d).state \in {p.state, "Disabled", "Ineligible", "Active"}
<1>1. /\ ResetPolicy(p) \in Policies
      /\ ResetPolicy(p).state \in {"Ineligible", "Disabled"}
  BY DEF Policies, PolicyState, ResetPolicy
<1>2. /\ Sync(p, c, u, d) \in Policies
      /\ Sync(p, c, u, d).state \in {p.state, "Disabled", "Ineligible", "Active"}
  BY DEF Policies, PolicyState, ResetPolicy, Sync
<1> QED
  BY <1>1, <1>2

\* Policy::directory, suspend and Policy::allowStart keep the type.
LEMMA PolicyTypes ==
  ASSUME NEW p \in Policies, NEW content \in BOOLEAN, NEW confirms \in BOOLEAN
  PROVE  /\ DirectoryRead(p, content, confirms) \in Policies
         /\ DirectoryRead(p, content, confirms).state \in {p.state, "Active"}
         /\ Suspend(p) \in Policies /\ Suspend(p).state = "StopPending"
         /\ Reopened(p) \in Policies
         /\ Reopened(p).state \in {p.state, "RecheckStart"}
         /\ AllowsStart(p) => ~Suspended(Reopened(p)) /\ Reopened(p).state # "StopPending"
<1>1. /\ DirectoryRead(p, content, confirms) \in Policies
      /\ DirectoryRead(p, content, confirms).state \in {p.state, "Active"}
  BY DEF Policies, PolicyState, DirectoryRead
<1>2. Suspend(p) \in Policies /\ Suspend(p).state = "StopPending"
  BY DEF Policies, PolicyState, Suspend
<1>3. /\ Reopened(p) \in Policies
      /\ Reopened(p).state \in {p.state, "RecheckStart"}
      /\ AllowsStart(p) => ~Suspended(Reopened(p)) /\ Reopened(p).state # "StopPending"
  BY DEF Policies, PolicyState, Reopened, AllowsStart, Suspended
<1> QED
  BY <1>1, <1>2, <1>3

\* Policy::started and Policy::stopped: what the end of a command makes of the policy.
LEMMA EndedTypes ==
  ASSUME NEW p \in Policies, NEW ok \in BOOLEAN, NEW uncertain \in BOOLEAN
  PROVE  /\ PolicyStarted(p, ok, uncertain) \in Policies
         /\ PolicyStarted(p, ok, uncertain).state \in
              {p.state, "RecheckActive"}
              \cup (IF ~ok /\ uncertain THEN {"StopPending"} ELSE {})
              \cup (IF ~ok /\ ~uncertain THEN {"Error"} ELSE {})
         /\ PolicyStopped(p, ok) \in Policies
         /\ PolicyStopped(p, ok).state =
              IF p.state = "StopPending" /\ ok THEN "Cooldown" ELSE p.state
<1>1. /\ PolicyStarted(p, ok, uncertain) \in Policies
      /\ PolicyStarted(p, ok, uncertain).state \in
           {p.state, "RecheckActive"}
           \cup (IF ~ok /\ uncertain THEN {"StopPending"} ELSE {})
           \cup (IF ~ok /\ ~uncertain THEN {"Error"} ELSE {})
  BY DEF Policies, PolicyState, PolicyStarted, Suspend
<1>2. /\ PolicyStopped(p, ok) \in Policies
      /\ PolicyStopped(p, ok).state =
           IF p.state = "StopPending" /\ ok THEN "Cooldown" ELSE p.state
  BY DEF Policies, PolicyState, PolicyStopped
<1> QED
  BY <1>1, <1>2

-----------------------------------------------------------------------------
(* The switch: each action of SwitchOutline keeps the types of its state. *)

\* The conditions of the outline are Boolean.
LEMMA RestTypes ==
  ASSUME OutlineTypes, sls' \in BOOLEAN, Rests
  PROVE  settled' \in BOOLEAN /\ (settled' => settled \/ (audio' /\ ~tuneReq' /\ ~serviceReq' /\ ~tuning'))
BY DEF OutlineTypes, Rests, MayRest

\* A request leaves the command at the tuner, and a tune request makes it stale.
LEMMA RequestsOutline ==
  ASSUME OutlineTypes, CommandTypes, OneCommand, SetFreq \/ SetService
  PROVE  /\ OutlineTypes' /\ CommandTypes' /\ OneCommand'
         /\ cmd' = cmd /\ stalled' = stalled /\ ~settled'
         /\ tuning' => tuning
         /\ SetFreq => ~OfThisTune'
         /\ SetService => generation' = generation
<1>1. /\ request \in Nat /\ request' = request + 1
      /\ SetFreq => generation' = generation + 1
      /\ SetService => generation' = generation
  BY DEF SetFreq, SetService, OutlineTypes
<1>2. cmd.gen \in Nat /\ generation \in Nat /\ cmd.gen <= generation
  BY DEF CommandTypes, OneCommand, OutlineTypes
<1>3. /\ cmd' = cmd /\ stalled' = stalled /\ ~settled' /\ settled' \in BOOLEAN
      /\ tuneReq' \in BOOLEAN /\ serviceReq' \in BOOLEAN /\ tuning' \in BOOLEAN
      /\ audio' \in BOOLEAN /\ sls' \in BOOLEAN /\ lock' \in BOOLEAN /\ stalled' \in BOOLEAN
      /\ SetFreq => ~tuning'
      /\ SetService => tuning' = tuning
  BY Zenon DEF SetFreq, SetService, owned, OutlineTypes
<1>4. OutlineTypes'
  BY <1>1, <1>2, <1>3 DEF OutlineTypes
<1>5. SetFreq => ~OfThisTune'
  BY <1>1, <1>2, <1>3 DEF OfThisTune
<1>6. CommandTypes' /\ OneCommand'
  BY <1>1, <1>2, <1>3, <1>5 DEF CommandTypes, OneCommand, OfThisTune, NoCmd
<1> QED
  BY <1>1, <1>3, <1>4, <1>5, <1>6

\* The recovery starts from a silent tuner.
LEMMA RecoverOutline ==
  ASSUME OutlineTypes, CommandTypes, OneCommand, Recover
  PROVE  /\ OutlineTypes' /\ CommandTypes' /\ OneCommand'
         /\ cmd' = NoCmd /\ ~stalled' /\ ~settled' /\ ~tuning'
<1>1. /\ cmd' = NoCmd /\ ~stalled' /\ ~settled' /\ ~tuning'
      /\ tuneReq' \in BOOLEAN /\ serviceReq' \in BOOLEAN /\ tuning' \in BOOLEAN
      /\ audio' \in BOOLEAN /\ sls' \in BOOLEAN /\ settled' \in BOOLEAN
      /\ lock' \in BOOLEAN /\ stalled' \in BOOLEAN
  BY Zenon DEF Recover
<1>2. request' \in Nat /\ generation' \in Nat
  BY DEF Recover, OutlineTypes
<1>3. CommandTypes' /\ OneCommand'
  BY <1>1, <1>2 DEF CommandTypes, OneCommand, OfThisTune, NoCmd
<1> QED
  BY <1>1, <1>2, <1>3 DEF OutlineTypes

\* A pass finds the tuner free; a command is issued for the tune in force.
LEMMA IssueOutline ==
  ASSUME OutlineTypes, CommandTypes, OneCommand, NEW op \in SwitchOps \cup OtherOps, Issue(op)
  PROVE  /\ OutlineTypes' /\ CommandTypes' /\ OneCommand'
         /\ cmd = NoCmd /\ cmd'.op = op /\ ~stalled /\ ~stalled'
         /\ tuning' = tuning /\ generation' = generation
         /\ op = "Tune" => ~settled'
         /\ tuning => (settled' => settled)
         /\ op \in {"StopData", "StopAudio", "StartAudio", "Tune"} => serviceReq \/ tuneReq
<1>1. /\ cmd = NoCmd /\ ~stalled /\ cmd' = Command(op) /\ Issuable(op)
      /\ tuneReq' = (tuneReq /\ op # "Tune")
      /\ UNCHANGED <<request, generation, serviceReq, tuning, audio, sls, lock, stalled>>
      /\ IF op \in SwitchOps \cup {"Tune"} THEN settled' = FALSE ELSE Rests
  BY DEF Issue, Free, owned
<1>2. settled' \in BOOLEAN /\ (op = "Tune" => ~settled') /\ (tuning => (settled' => settled))
  BY <1>1, RestTypes DEF OutlineTypes
<1>3. cmd'.op = op /\ cmd'.gen = generation /\ cmd' \in [op : SwitchOps \cup OtherOps, gen : Nat]
  BY <1>1 DEF Command, OutlineTypes
<1>4. tuneReq' \in BOOLEAN
  BY <1>1
<1>5. OutlineTypes'
  BY <1>1, <1>2, <1>4 DEF OutlineTypes
<1>6. op = "TuneStatus" => tuning
  BY <1>1 DEF Issuable
<1>7. op \in {"StopData", "StopAudio", "StartAudio", "Tune"} => serviceReq \/ tuneReq
  BY <1>1 DEF Issuable
<1>8. OneCommand' /\ CommandTypes'
  BY <1>1, <1>3, <1>6 DEF OneCommand, CommandTypes, OutlineTypes
<1> QED
  BY <1>1, <1>2, <1>3, <1>5, <1>7, <1>8

\* The commands of the probe are issued by the same rule.
LEMMA IssueProbeOutline ==
  ASSUME OutlineTypes, CommandTypes, OneCommand, NEW op \in ProbeOps, IssueProbe(op),
         settled' = settled \/ Rests
  PROVE  /\ OutlineTypes' /\ CommandTypes' /\ OneCommand'
         /\ cmd = NoCmd /\ cmd'.op = op /\ cmd'.gen = generation /\ ~stalled /\ ~stalled'
         /\ tuning' = tuning /\ generation' = generation
         /\ tuning => (settled' => settled)
<1>1. /\ cmd = NoCmd /\ ~stalled /\ cmd' = Command(op)
      /\ UNCHANGED <<request, generation, tuneReq, serviceReq, tuning, audio, sls, lock, stalled>>
  BY DEF IssueProbe, Free, owned
<1>2. settled' \in BOOLEAN /\ (tuning => (settled' => settled))
  BY <1>1, RestTypes DEF OutlineTypes
<1>3. cmd'.op = op /\ cmd'.gen = generation /\ cmd' \in [op : ProbeOps, gen : Nat]
  BY <1>1 DEF Command, OutlineTypes
<1>4. OutlineTypes'
  BY <1>1, <1>2 DEF OutlineTypes
<1>5. OneCommand' /\ CommandTypes'
  BY <1>1, <1>3 DEF OneCommand, CommandTypes, OutlineTypes, ProbeOps
<1> QED
  BY <1>1, <1>2, <1>3, <1>4, <1>5

\* A pass that issues nothing.
LEMMA MoveOutline ==
  ASSUME OutlineTypes, CommandTypes, OneCommand, Move
  PROVE  /\ OutlineTypes' /\ CommandTypes' /\ OneCommand'
         /\ cmd = NoCmd /\ cmd' = cmd /\ ~stalled /\ ~stalled'
         /\ tuning' = tuning /\ generation' = generation
         /\ tuning => (settled' => settled)
<1>1. /\ cmd = NoCmd /\ ~stalled /\ Rests
      /\ UNCHANGED <<request, generation, tuneReq, serviceReq, tuning, audio, sls, lock, stalled, cmd>>
  BY DEF Move, Free, owned
<1>2. settled' \in BOOLEAN /\ (tuning => (settled' => settled))
  BY <1>1, RestTypes DEF OutlineTypes
<1>3. OutlineTypes'
  BY <1>1, <1>2 DEF OutlineTypes
<1>4. CommandTypes' /\ OneCommand'
  BY <1>1 DEF OneCommand, CommandTypes, OfThisTune, NoCmd
<1> QED
  BY <1>1, <1>2, <1>3, <1>4

\* The end of a command leaves none; only a tune that was accepted is waited for.
LEMMA FinishOutline ==
  ASSUME OutlineTypes, CommandTypes, OneCommand, NEW ok \in BOOLEAN, Finish(ok)
  PROVE  /\ OutlineTypes' /\ CommandTypes' /\ OneCommand'
         /\ cmd # NoCmd /\ cmd' = NoCmd /\ ~stalled /\ ~stalled'
         /\ generation' = generation
         /\ tuning' => tuning \/ (cmd.op = "Tune" /\ ok)
         /\ tuning' => (settled' => settled)
         /\ cmd.op = "TuneStatus" /\ OfThisTune => ~tuning'
<1>1. /\ cmd # NoCmd /\ cmd' = NoCmd /\ Reconciles(ok)
      /\ UNCHANGED <<request, generation, stalled>>
  BY DEF Finish, FinishStale, FinishCurrent
<1>2. audio' \in BOOLEAN /\ sls' \in BOOLEAN
  BY <1>1 DEF Reconciles, Owns, OutlineTypes
<1>3. ~stalled
  BY <1>1 DEF OneCommand
<1>4. /\ tuneReq' \in BOOLEAN /\ serviceReq' \in BOOLEAN /\ lock' \in BOOLEAN
      /\ tuning' \in BOOLEAN
      /\ tuning' => tuning \/ (cmd.op = "Tune" /\ ok)
      /\ cmd.op = "TuneStatus" /\ OfThisTune => ~tuning'
  <2>1. CASE FinishStale(ok)
    BY <2>1 DEF FinishStale, OutlineTypes
  <2>2. CASE FinishCurrent(ok)
    BY <2>2 DEF FinishCurrent, TuningAfter, OutlineTypes
  <2> QED
    BY <2>1, <2>2 DEF Finish
<1>5. settled' \in BOOLEAN /\ (tuning' => (settled' => settled))
  <2>1. CASE FinishStale(ok)
    BY <2>1 DEF FinishStale, OutlineTypes
  <2>2. CASE FinishCurrent(ok)
    BY <2>2, <1>2, RestTypes DEF FinishCurrent
  <2> QED
    BY <2>1, <2>2 DEF Finish
<1>6. OutlineTypes'
  BY <1>1, <1>2, <1>4, <1>5 DEF OutlineTypes
<1>7. CommandTypes' /\ OneCommand'
  BY <1>1, <1>3 DEF OneCommand, CommandTypes, OutlineTypes, NoCmd, OfThisTune
<1> QED
  BY <1>1, <1>3, <1>4, <1>5, <1>6, <1>7

-----------------------------------------------------------------------------
(* What requests, commands and the passing of time do. *)

\* The context the policy is told of, and what it makes of it.
LEMMA ContextTypes ==
  ASSUME TypeOK
  PROVE  /\ Context \in Contexts /\ Synced \in Policies
         /\ Synced.state \in {auto.state, "Disabled", "Ineligible", "Active"}
<1>1. Context \in Contexts
  BY DEF TypeOK, OutlineTypes, Context, Contexts, Policies, Discovery
<1>2. (Usable /\ Available) \in BOOLEAN /\ (Usable /\ PendingDiscovery) \in BOOLEAN
  OBVIOUS
<1> QED
  BY <1>1, <1>2, SyncTypes DEF TypeOK, Synced

\* The histories are conjunctions.
LEMMA HistoryTypes ==
  ASSUME Forgets
  PROVE  recheck' \in BOOLEAN /\ byHand' \in BOOLEAN
BY DEF Forgets

\* Whatever stops the probe, or leaves it alone, between its own commands keeps the invariant.
LEMMA StoppingKeeps ==
  ASSUME ProbeInductive,
         probe' \in {probe, StopProbe(probe)},
         auto'.state \in {auto.state, "Disabled", "Ineligible", "Active"},
         UNCHANGED <<running, stalled>>,
         cmd' = cmd \/ (cmd' = NoCmd /\ cmd.op \notin ProbeOps),
         tuning' => tuning,
         settled' => settled \/ (~tuning' /\ cmd' = NoCmd),
         generation' = generation \/ auto'.state # "StopPending"
  PROVE  /\ probe' \in Probes
         /\ ProbeFollowed' /\ StreamQuarantined' /\ TuneAlone' /\ CleanupBeforeSwitch'
         /\ SuspensionFollowed'
<1> USE DEF ProbeInductive
<1>1. Sound(probe) /\ probe.state \in ProbeState
  BY DEF TypeOK, ProbeFollowed, Sound, Probes
<1>2. /\ Sound(probe')
      /\ \/ probe'.state = probe.state /\ probe'.spi = probe.spi
         \/ probe.state = "Observing" /\ probe'.state = "StopRequested" /\ probe'.spi = probe.spi
         \/ probe.state \in {"Baseline", "StartRequested"} /\ probe' = NoProbe
  BY <1>1, StopProbeSound DEF ProbeState, Sound
<1>3. NoProbe.state = "Idle" /\ NoProbe.spi = NoComponent
  BY DEF NoProbe
<1>4. ProbeFollowed' /\ StreamQuarantined'
  BY <1>1, <1>2, <1>3 DEF ProbeFollowed, ProbeOps, NoCmd, StreamQuarantined, Sound
<1>5. TuneAlone' /\ CleanupBeforeSwitch'
  BY <1>1, <1>2, <1>3 DEF TuneAlone, NoCmd, CleanupBeforeSwitch, ProbeFollowed, Running
<1>6. SuspensionFollowed'
  BY <1>1, <1>2, <1>3 DEF SuspensionFollowed, Suspended, OfThisTune, NoCmd
<1> QED
  BY <1>2, <1>4, <1>5, <1>6 DEF Sound

\* A tune or service request stops the probe as far as it can be stopped.
LEMMA RequestsPreserve ==
  ASSUME ProbeInductive, UserTunes \/ UserSelects
  PROVE  ProbeInductive'
<1> USE DEF ProbeInductive
<1>1. ResetPolicy(auto) \in Policies /\ ResetPolicy(auto).state \in {"Ineligible", "Disabled"}
  BY ContextTypes, SyncTypes DEF TypeOK
<1>2. SetFreq \/ SetService
  BY DEF UserTunes, UserSelects
<1>3. /\ OutlineTypes' /\ CommandTypes' /\ OneCommand'
      /\ cmd' = cmd /\ stalled' = stalled /\ ~settled' /\ (tuning' => tuning)
      /\ SetService => generation' = generation
  BY <1>2, RequestsOutline DEF TypeOK
<1>4. /\ probe' = StopProbe(probe) /\ running' = running
      /\ auto' \in {auto, ResetPolicy(auto)} /\ auto' \in Policies
      /\ UserTunes => auto' = ResetPolicy(auto)
      /\ Forgets
  BY <1>1 DEF UserTunes, UserSelects, TypeOK
<1>5. /\ probe' \in Probes
      /\ ProbeFollowed' /\ StreamQuarantined' /\ TuneAlone' /\ CleanupBeforeSwitch'
      /\ SuspensionFollowed'
  <2>1. generation' = generation \/ auto'.state # "StopPending"
    BY <1>1, <1>3, <1>4 DEF UserSelects
  <2> QED
    BY <1>1, <1>3, <1>4, <2>1, StoppingKeeps
<1>6. discovery' \in Discovery /\ Grounded'
  BY DEF TypeOK, Discovery, Statuses, Grounded, Found, UserTunes, UserSelects
<1>7. TypeOK'
  <2>1. /\ present' \in BOOLEAN /\ continuous' \in BOOLEAN /\ manual' \in BOOLEAN
        /\ paused' \in BOOLEAN /\ debug' \in BOOLEAN /\ mode' \in Modes
        /\ commands' \in Nat /\ faults' \in Nat
    BY DEF TypeOK, UserTunes, UserSelects, settings, bounds
  <2> QED
    BY <1>3, <1>4, <1>5, <1>6, <2>1, HistoryTypes DEF TypeOK
<1> QED
  BY <1>3, <1>5, <1>6, <1>7

\* The recovery forgets everything together.
LEMMA RecoveryPreserves ==
  ASSUME ProbeInductive, ColdRecovery
  PROVE  ProbeInductive'
<1> USE DEF ProbeInductive
<1>1. ResetPolicy(auto) \in Policies /\ ResetPolicy(auto).state \in {"Ineligible", "Disabled"}
  BY ContextTypes, SyncTypes DEF TypeOK
<1>2. /\ OutlineTypes' /\ CommandTypes' /\ OneCommand'
      /\ cmd' = NoCmd /\ ~stalled' /\ ~settled' /\ ~tuning'
  BY RecoverOutline DEF TypeOK, ColdRecovery
<1>3. /\ probe' = NoProbe /\ auto' = ResetPolicy(auto) /\ running' = {} /\ Forgets
      /\ discovery' = Found("Unlisted")
  BY DEF ColdRecovery
<1>4. TypeOK' /\ Grounded'
  <2>1. /\ present' \in BOOLEAN /\ continuous' \in BOOLEAN /\ manual' \in BOOLEAN
        /\ paused' \in BOOLEAN /\ debug' \in BOOLEAN /\ mode' \in Modes
        /\ commands' \in Nat /\ faults' \in Nat
    BY DEF TypeOK, ColdRecovery, bounds
  <2>2. discovery' \in Discovery /\ Grounded'
    BY <1>3 DEF Discovery, Statuses, Grounded, Found
  <2> QED
    BY <1>1, <1>2, <1>3, <2>1, <2>2, HistoryTypes, NoProbeSound DEF TypeOK, Sound
<1>5. ProbeFollowed' /\ StreamQuarantined' /\ TuneAlone' /\ CleanupBeforeSwitch'
  BY <1>2, <1>3 DEF ProbeFollowed, StreamQuarantined, TuneAlone, CleanupBeforeSwitch, NoProbe, NoCmd
<1>6. SuspensionFollowed'
  BY <1>1, <1>3 DEF SuspensionFollowed, Suspended
<1> QED
  BY <1>2, <1>4, <1>5, <1>6

\* DEBUG SPI takes an idle probe only at rest, or asks production reception to stop.
LEMMA DebugSpiPreserves ==
  ASSUME ProbeInductive, DebugSpi
  PROVE  ProbeInductive'
<1> USE DEF ProbeInductive
<1>1. /\ UNCHANGED <<request, generation, tuneReq, serviceReq, tuning, audio, sls, settled, lock,
                     stalled, cmd, discovery, present, running, faults>>
      /\ commands' = commands + 1 /\ debug' = TRUE
      /\ UNCHANGED <<continuous, paused, mode>>
      /\ auto' = ResetPolicy(auto)
  BY DEF DebugSpi, Operator, outline, owned
<1>2. ResetPolicy(auto) \in Policies /\ ResetPolicy(auto).state \in {"Ineligible", "Disabled"}
  BY ContextTypes, SyncTypes DEF TypeOK
<1>3. \/ probe' \in {probe, StopProbe(probe)}
      \/ /\ probe.state = "Idle" /\ MayRequest
         /\ probe' = Baseline(discovery.spi, request, sls)
  BY DEF DebugSpi
<1>4. /\ probe' \in Probes
      /\ ProbeFollowed' /\ StreamQuarantined' /\ TuneAlone' /\ CleanupBeforeSwitch'
      /\ SuspensionFollowed'
  <2>1. CASE probe' \in {probe, StopProbe(probe)}
    BY <1>1, <1>2, <2>1, StoppingKeeps
  <2>2. CASE /\ probe.state = "Idle" /\ MayRequest
             /\ probe' = Baseline(discovery.spi, request, sls)
    <3>1. settled /\ discovery.spi \in Components /\ running = {}
      BY <2>2 DEF MayRequest, Available, Grounded, TypeOK, Discovery, StreamQuarantined,
                  ProbeFollowed, NoProbe
    <3>2. /\ Sound(probe') /\ probe'.state = "Baseline"
      BY <2>2, <3>1, BaselineSound DEF TypeOK, OutlineTypes
    <3>3. ProbeFollowed' /\ StreamQuarantined'
      BY <1>1, <2>2, <3>1, <3>2 DEF ProbeFollowed, StreamQuarantined, Sound
    <3>4. TuneAlone' /\ CleanupBeforeSwitch'
      BY <1>1, <3>1, <3>2 DEF TuneAlone, CleanupBeforeSwitch
    <3>5. SuspensionFollowed'
      BY <1>1, <1>2 DEF SuspensionFollowed, Suspended
    <3> QED
      BY <3>2, <3>3, <3>4, <3>5 DEF Sound
  <2> QED
    BY <1>3, <2>1, <2>2
<1>5. Grounded' /\ OneCommand'
  BY <1>1 DEF Grounded, OneCommand, OfThisTune, NoCmd
<1>6. TypeOK'
  <2>1. manual' \in BOOLEAN /\ recheck' \in BOOLEAN /\ byHand' \in BOOLEAN
    BY DEF DebugSpi, TypeOK
  <2> QED
    BY <1>1, <1>2, <1>4, <2>1 DEF TypeOK, OutlineTypes, CommandTypes
<1> QED
  BY <1>4, <1>5, <1>6

\* The other commands of the operator only stop it.
LEMMA CommandsPreserve ==
  ASSUME ProbeInductive,
         \/ DebugSpiStop \/ ToggleDebug
         \/ (\E m \in Modes : SetMode(m)) \/ (\E on \in BOOLEAN : EnableAuto(on))
  PROVE  ProbeInductive'
<1> USE DEF ProbeInductive
<1>1. /\ UNCHANGED <<request, generation, tuneReq, serviceReq, tuning, audio, sls, settled, lock,
                     stalled, cmd, discovery, present, running, faults, continuous>>
      /\ commands' = commands + 1
      /\ probe' \in {probe, StopProbe(probe)}
  BY DEF DebugSpiStop, ToggleDebug, SetMode, EnableAuto, Operator, outline, owned, ownership,
         settings
<1>2. auto' \in Policies /\ auto'.state \in {auto.state, "Disabled", "Ineligible", "Active"}
  <2>1. CASE DebugSpiStop \/ ToggleDebug \/ (\E m \in Modes : SetMode(m))
    BY <2>1 DEF DebugSpiStop, ToggleDebug, SetMode, ownership, TypeOK
  <2>2. ASSUME NEW on \in BOOLEAN, EnableAuto(on)
        PROVE  auto' \in Policies /\ auto'.state \in {auto.state, "Disabled", "Ineligible", "Active"}
    <3> DEFINE q == [auto EXCEPT !.enabled = on]
               p == IF on = auto.enabled THEN auto ELSE ResetPolicy(q)
    <3>1. q \in Policies /\ q.state = auto.state
      BY DEF TypeOK, Policies
    <3>2. p \in Policies /\ p.state \in {auto.state, "Disabled", "Ineligible"}
      BY <3>1, ContextTypes, SyncTypes DEF TypeOK
    <3>3. /\ (Usable /\ Available) \in BOOLEAN /\ (Usable /\ PendingDiscovery) \in BOOLEAN
          /\ Context \in Contexts
      BY ContextTypes
    <3>4. auto' = Sync(p, Context, Usable /\ Available, Usable /\ PendingDiscovery)
      BY <2>2 DEF EnableAuto
    <3> HIDE DEF p
    <3> QED
      BY <3>2, <3>3, <3>4, SyncTypes
  <2> QED
    BY <2>1, <2>2
<1>3. /\ probe' \in Probes
      /\ ProbeFollowed' /\ StreamQuarantined' /\ TuneAlone' /\ CleanupBeforeSwitch'
      /\ SuspensionFollowed'
  BY <1>1, <1>2, StoppingKeeps
<1>4. Grounded' /\ OneCommand'
  BY <1>1 DEF Grounded, OneCommand, OfThisTune, NoCmd
<1>5. TypeOK'
  <2>1. /\ manual' \in BOOLEAN /\ paused' \in BOOLEAN /\ debug' \in BOOLEAN
        /\ mode' \in Modes
    BY DEF DebugSpiStop, ToggleDebug, SetMode, EnableAuto, settings, ownership, TypeOK
  <2>2. recheck' \in BOOLEAN /\ byHand' \in BOOLEAN
    BY HistoryTypes DEF DebugSpiStop, ToggleDebug, SetMode, EnableAuto, history, TypeOK
  <2> QED
    BY <1>1, <1>2, <1>3, <2>1, <2>2 DEF TypeOK, OutlineTypes, CommandTypes
<1> QED
  BY <1>3, <1>4, <1>5

\* The scan that selects a component, and the intervals of the probe and of the policy.
LEMMA TimePreserves ==
  ASSUME ProbeInductive,
         \/ (\E result \in Outcomes : Discovered(result)) \/ RoutineScan
         \/ ProbeElapse \/ AutoElapse
  PROVE  ProbeInductive'
<1> USE DEF ProbeInductive
<1>1. /\ UNCHANGED <<request, generation, tuneReq, serviceReq, tuning, audio, sls, settled, lock,
                     stalled, cmd, running, continuous, manual, paused, debug, mode,
                     commands, faults>>
  BY DEF Discovered, RoutineScan, Scanning, ProbeElapse, AutoElapse, outline, owned, ownership,
         settings, bounds
<1>2. discovery' \in Discovery /\ Grounded' /\ present' \in BOOLEAN
  <2>1. ASSUME NEW result \in Outcomes, Discovered(result)
        PROVE  discovery' \in Discovery /\ Grounded' /\ present' \in BOOLEAN
    <3>1. result \in Discovery /\ (result.status = "Available" => result.spi # NoComponent)
      BY ProbeAssumption DEF Outcomes, Found, Discovery, Statuses
    <3>2. discovery' = result /\ present' \in BOOLEAN
      BY <2>1 DEF Discovered
    <3> QED
      BY <3>1, <3>2 DEF Grounded
  <2>2. CASE RoutineScan
    BY <2>2 DEF RoutineScan, Found, Discovery, Statuses, Grounded, TypeOK
  <2>3. CASE ProbeElapse \/ AutoElapse
    BY <2>3 DEF ProbeElapse, AutoElapse, Grounded, TypeOK
  <2> QED
    BY <2>1, <2>2, <2>3
<1>3. auto' \in Policies /\ auto'.state = auto.state
  <2>1. CASE AutoElapse
    BY <2>1 DEF AutoElapse, TypeOK, Policies
  <2> QED
    BY <2>1 DEF Discovered, RoutineScan, Scanning, ProbeElapse, ownership, TypeOK
<1>4. /\ probe' \in Probes
      /\ ProbeFollowed' /\ StreamQuarantined' /\ TuneAlone' /\ CleanupBeforeSwitch'
      /\ SuspensionFollowed'
  <2>1. CASE ProbeElapse
    <3>1. probe' = [probe EXCEPT !.waiting = FALSE] /\ probe.waiting /\ auto' = auto
      BY <2>1 DEF ProbeElapse
    <3>2. /\ probe' \in Probes /\ probe'.state = probe.state /\ probe'.spi = probe.spi
      BY <3>1 DEF TypeOK, Probes
    <3>3. probe.state # "Idle"
      BY <3>1 DEF ProbeFollowed, NoProbe
    <3> QED
      BY <1>1, <3>1, <3>2, <3>3
      DEF ProbeFollowed, StreamQuarantined, TuneAlone, Running, CleanupBeforeSwitch,
          SuspensionFollowed, Suspended, OfThisTune
  <2>2. CASE ~ProbeElapse
    <3>1. probe' = probe
      BY <2>2 DEF Discovered, RoutineScan, Scanning, AutoElapse, ownership
    <3> QED
      BY <1>1, <1>3, <3>1, StoppingKeeps
  <2> QED
    BY <2>1, <2>2
<1>5. OneCommand'
  BY <1>1 DEF OneCommand, OfThisTune, NoCmd
<1>6. TypeOK'
  <2>1. recheck' \in BOOLEAN /\ byHand' \in BOOLEAN
    BY HistoryTypes
    DEF Discovered, RoutineScan, Scanning, ProbeElapse, AutoElapse, history, TypeOK
  <2> QED
    BY <1>1, <1>2, <1>3, <1>4, <2>1 DEF TypeOK, OutlineTypes, CommandTypes
<1> QED
  BY <1>2, <1>4, <1>5, <1>6

-----------------------------------------------------------------------------
(* A pass of scheduleNextDabCommand. *)

\* An idle probe is taken at rest only, with the policy neither suspended nor waiting for a STOP.
LEMMA ArmingKeeps ==
  ASSUME ProbeInductive, Free
  PROVE  /\ Sound(ArmedProbe) /\ probe.state \notin {"Starting", "Stopping"}
         /\ ~Armed => ArmedProbe = probe
         /\ Armed => /\ probe.state = "Idle" /\ Undisturbed /\ settled
                     /\ ArmedProbe.state = "Baseline" /\ ArmedProbe.waiting
         /\ running \subseteq (IF ArmedProbe.spi = NoComponent THEN {} ELSE {ArmedProbe.spi})
         /\ ArmedProbe.state \in {"Baseline", "StartRequested"} => running = {}
         /\ ArmedAuto \in Policies
         /\ Suspended(ArmedAuto) => ~Armed /\ ArmedProbe.state = "Idle"
         /\ ArmedAuto.state = "StopPending" => ArmedProbe.state \in {"StopRequested", "CleanupFailed"}
         /\ probe.state # "Idle" => ArmedAuto.state \in {auto.state, "Disabled", "Ineligible", "Active"}
<1> USE DEF ProbeInductive
<1>1. Sound(probe) /\ probe.state \in ProbeState /\ probe.state \notin {"Starting", "Stopping"}
  BY DEF TypeOK, ProbeFollowed, Sound, Probes, Free, NoCmd
<1>2. Armed => /\ probe.state = "Idle" /\ Undisturbed /\ settled /\ discovery.spi \in Components
               /\ running = {}
  BY DEF Armed, ByOperator, ByProduction, MayRequest, Available, Grounded, TypeOK, Discovery,
         StreamQuarantined, ProbeFollowed, NoProbe
<1>3. Armed => Sound(ArmedProbe) /\ ArmedProbe.state = "Baseline" /\ ArmedProbe.waiting
  BY <1>2, BaselineSound DEF ArmedProbe, TypeOK, OutlineTypes
<1>4. ~Armed => ArmedProbe = probe
  BY DEF ArmedProbe
<1>5. /\ running \subseteq (IF ArmedProbe.spi = NoComponent THEN {} ELSE {ArmedProbe.spi})
      /\ ArmedProbe.state \in {"Baseline", "StartRequested"} => running = {}
  BY <1>2, <1>4 DEF StreamQuarantined, ProbeFollowed
<1>6. Synced \in Policies /\ Synced.state \in {auto.state, "Disabled", "Ineligible", "Active"}
  BY ContextTypes
<1>7. /\ ArmedAuto \in Policies
      /\ ByOperator \/ ByProduction =>
           ~Suspended(ArmedAuto) /\ ArmedAuto.state # "StopPending"
      /\ ~(ByOperator \/ ByProduction) => ArmedAuto = Synced
  <2>1. CASE ByOperator
    BY <1>6, <2>1, ContextTypes, SyncTypes DEF ArmedAuto, Suspended
  <2>2. CASE ~ByOperator /\ ByProduction
    BY <1>6, <2>2, PolicyTypes DEF ArmedAuto, ByProduction
  <2>3. CASE ~ByOperator /\ ~ByProduction
    BY <1>6, <2>3 DEF ArmedAuto
  <2> QED
    BY <2>1, <2>2, <2>3
<1>8. Suspended(ArmedAuto) => ~Armed /\ ArmedProbe.state = "Idle"
  BY <1>4, <1>6, <1>7 DEF Armed, SuspensionFollowed, Suspended
<1>9. ArmedAuto.state = "StopPending" => ArmedProbe.state \in {"StopRequested", "CleanupFailed"}
  BY <1>1, <1>4, <1>6, <1>7 DEF Armed, SuspensionFollowed
<1>10. probe.state # "Idle" => ArmedAuto.state \in {auto.state, "Disabled", "Ineligible", "Active"}
  BY <1>6, <1>7 DEF ByOperator, ByProduction
<1> QED
  BY <1>1, <1>2, <1>3, <1>4, <1>5, <1>7, <1>8, <1>9, <1>10

\* The probe a pass leaves has the endpoint it had, or none once nothing was started; out
\* of its context it is at rest or about to be stopped.
LEMMA AdvancingKeeps ==
  ASSUME ProbeInductive, Free
  PROVE  /\ Sound(AdvancedProbe) /\ AdvancedProbe.state \notin {"Starting", "Stopping"}
         /\ running \subseteq (IF AdvancedProbe.spi = NoComponent THEN {} ELSE {AdvancedProbe.spi})
         /\ AdvancedProbe.state \in {"Baseline", "StartRequested"} =>
              running = {} /\ SameContext /\ AdvancedProbe.request = request
         /\ AdvancedProbe.state = "StartRequested" =>
              ~Armed /\ probe.state \in {"Baseline", "StartRequested"} /\ ~Suspends
         /\ AdvancedProbe.state = "Observing" => SameContext
         /\ ~settled /\ ~Running(probe) => ~Running(AdvancedProbe)
         /\ ArmedProbe.state = "Idle" => AdvancedProbe.state = "Idle"
         /\ Suspends => AdvancedProbe.state = "StopRequested"
         /\ ArmedProbe.state \in {"StopRequested", "CleanupFailed"} =>
              AdvancedProbe.state = ArmedProbe.state
<1> DEFINE p == IF Suspends THEN StopProbe(ArmedProbe) ELSE ArmedProbe
<1>1. /\ Sound(ArmedProbe) /\ probe.state \notin {"Starting", "Stopping"}
      /\ ~Armed => ArmedProbe = probe
      /\ Armed => /\ probe.state = "Idle" /\ Undisturbed /\ settled
                  /\ ArmedProbe.state = "Baseline" /\ ArmedProbe.waiting
      /\ running \subseteq (IF ArmedProbe.spi = NoComponent THEN {} ELSE {ArmedProbe.spi})
      /\ ArmedProbe.state \in {"Baseline", "StartRequested"} => running = {}
  BY ArmingKeeps
<1>2. Suspends => ArmedProbe.state = "Observing" /\ SameContext
  BY DEF Suspends, StopDue
<1>3. /\ Sound(p) /\ p.spi = ArmedProbe.spi
      /\ Suspends => p.state = "StopRequested"
      /\ ~Suspends => p = ArmedProbe
  BY <1>1, <1>2, StopProbeSound
<1>4. AdvancedProbe = IF IsContinuous /\ SameContext /\ p.state = "Observing" THEN p
                      ELSE Advance(p, SameContext)
  BY DEF AdvancedProbe
<1>5. SameContext \in BOOLEAN /\ (SameContext => Undisturbed /\ ArmedProbe.request = request)
  BY DEF SameContext
<1>6. p.state \in ProbeState /\ ArmedProbe.state \in ProbeState
  BY <1>1, <1>3 DEF Sound, Probes
<1>7. NoProbe.state = "Idle" /\ NoProbe.spi = NoComponent /\ (p.state = "Idle" => p = NoProbe)
  BY <1>3 DEF NoProbe, Sound
<1> HIDE DEF p
<1>8. /\ Sound(AdvancedProbe)
      /\ p.state \in {"StopRequested", "Starting", "Stopping", "CleanupFailed"} =>
           AdvancedProbe.state = p.state
      /\ p.state = "Idle" => AdvancedProbe = NoProbe
      /\ AdvancedProbe # NoProbe => AdvancedProbe.spi = p.spi
      /\ p.state \in {"Baseline", "StartRequested"} =>
           \/ AdvancedProbe = NoProbe
           \/ /\ AdvancedProbe.state \in {"Baseline", "StartRequested"} /\ SameContext
              /\ AdvancedProbe.request = p.request
              /\ p.waiting => AdvancedProbe.state = p.state
      /\ p.state = "Observing" =>
           \/ AdvancedProbe.state = "StopRequested"
           \/ AdvancedProbe.state = "Observing" /\ SameContext
  <2>1. CASE IsContinuous /\ SameContext /\ p.state = "Observing"
    BY <1>3, <1>4, <1>7, <2>1
  <2>2. CASE ~(IsContinuous /\ SameContext /\ p.state = "Observing")
    <3>1. AdvancedProbe = Advance(p, SameContext)
      BY <1>4, <2>2
    <3> QED
      BY <1>3, <1>5, <3>1, AdvanceSound
  <2> QED
    BY <2>1, <2>2
<1>9. AdvancedProbe.state \notin {"Starting", "Stopping"}
  BY <1>1, <1>3, <1>6, <1>7, <1>8 DEF ProbeState
<1>10. running \subseteq (IF AdvancedProbe.spi = NoComponent THEN {} ELSE {AdvancedProbe.spi})
  <2>1. CASE AdvancedProbe = NoProbe
    <3>1. p.state \in {"Idle", "Baseline", "StartRequested"}
      BY <1>6, <1>7, <1>8, <2>1 DEF ProbeState
    <3>2. running = {}
      BY <1>1, <1>3, <1>7, <3>1
    <3> QED
      BY <3>2
  <2>2. CASE AdvancedProbe # NoProbe
    BY <1>1, <1>3, <1>8, <2>2
  <2> QED
    BY <2>1, <2>2
<1>11. AdvancedProbe.state \in {"Baseline", "StartRequested"} =>
         /\ p.state \in {"Baseline", "StartRequested"}
         /\ running = {} /\ SameContext /\ AdvancedProbe.request = request
         /\ p.waiting => AdvancedProbe.state = p.state
  BY <1>1, <1>3, <1>5, <1>6, <1>7, <1>8 DEF ProbeState
<1>12. AdvancedProbe.state = "StartRequested" =>
         ~Armed /\ probe.state \in {"Baseline", "StartRequested"} /\ ~Suspends
  BY <1>1, <1>3, <1>11
<1>13. AdvancedProbe.state = "Observing" => SameContext
  BY <1>6, <1>7, <1>8 DEF ProbeState
<1>14. ~settled /\ ~Running(probe) => ~Running(AdvancedProbe)
  BY <1>1, <1>2, <1>3, <1>7, <1>8 DEF Running
<1>15. ArmedProbe.state = "Idle" => AdvancedProbe.state = "Idle"
  BY <1>2, <1>3, <1>7, <1>8
<1>16. Suspends => AdvancedProbe.state = "StopRequested"
  BY <1>3, <1>8
<1>17. ArmedProbe.state \in {"StopRequested", "CleanupFailed"} => AdvancedProbe.state = ArmedProbe.state
  BY <1>2, <1>3, <1>8
<1> QED
  BY <1>8, <1>9, <1>10, <1>11, <1>12, <1>13, <1>14, <1>15, <1>16, <1>17

\* What every pass leaves in the policy and in the rest of the receiver.
LEMMA PreparesTypes ==
  ASSUME ProbeInductive, Free, Prepares
  PROVE  /\ auto' \in Policies
         /\ Suspended(auto') => AdvancedProbe.state = "Idle"
         /\ auto'.state = "StopPending" => AdvancedProbe.state \in {"StopRequested", "CleanupFailed"}
         /\ UNCHANGED <<discovery, present, paused, debug, mode, running, commands, faults>>
         /\ continuous' \in BOOLEAN /\ manual' \in BOOLEAN
         /\ recheck' \in BOOLEAN /\ byHand' \in BOOLEAN
<1>1. /\ auto' = IF Suspends THEN Suspend(ArmedAuto) ELSE ArmedAuto
      /\ UNCHANGED <<discovery, present, paused, debug, mode, running, commands, faults>>
  BY DEF Prepares, settings, bounds
<1>2. /\ ArmedAuto \in Policies
      /\ Suspended(ArmedAuto) => ArmedProbe.state = "Idle"
      /\ ArmedAuto.state = "StopPending" => ArmedProbe.state \in {"StopRequested", "CleanupFailed"}
  BY ArmingKeeps
<1>3. /\ ArmedProbe.state = "Idle" => AdvancedProbe.state = "Idle"
      /\ Suspends => AdvancedProbe.state = "StopRequested"
      /\ ArmedProbe.state \in {"StopRequested", "CleanupFailed"} =>
           AdvancedProbe.state = ArmedProbe.state
  BY AdvancingKeeps
<1>4. Suspend(ArmedAuto) \in Policies /\ Suspend(ArmedAuto).state = "StopPending"
  BY <1>2, PolicyTypes
<1>5. /\ auto' \in Policies
      /\ Suspended(auto') => AdvancedProbe.state = "Idle"
      /\ auto'.state = "StopPending" => AdvancedProbe.state \in {"StopRequested", "CleanupFailed"}
  BY <1>1, <1>2, <1>3, <1>4 DEF Suspended
<1>6. /\ continuous' \in BOOLEAN /\ manual' \in BOOLEAN
      /\ recheck' \in BOOLEAN /\ byHand' \in BOOLEAN
  BY DEF Prepares, IsContinuous, ProbeInductive, TypeOK
<1> QED
  BY <1>1, <1>5, <1>6

\* A pass preserves the invariant: the probe's STOP comes first, and a command of the switch
\* that tears something down finds the probe at rest.
LEMMA PassPreserves ==
  ASSUME ProbeInductive, Pass
  PROVE  ProbeInductive'
<1> USE DEF ProbeInductive
<1>1. Free /\ Prepares
  BY DEF Pass, PassProbeStop, PassProbeStart, PassNothing, PassOther, IssueProbe, Issue, Move
<1>2. /\ cmd = NoCmd /\ cmd.op = "None" /\ ~stalled
      /\ OutlineTypes /\ CommandTypes /\ OneCommand
  BY <1>1 DEF Free, NoCmd, TypeOK
<1>3. /\ auto' \in Policies
      /\ Suspended(auto') => AdvancedProbe.state = "Idle"
      /\ auto'.state = "StopPending" => AdvancedProbe.state \in {"StopRequested", "CleanupFailed"}
      /\ UNCHANGED <<discovery, present, paused, debug, mode, running, commands, faults>>
      /\ continuous' \in BOOLEAN /\ manual' \in BOOLEAN
      /\ recheck' \in BOOLEAN /\ byHand' \in BOOLEAN
  BY <1>1, PreparesTypes
<1>4. /\ Sound(AdvancedProbe) /\ AdvancedProbe.state \notin {"Starting", "Stopping"}
      /\ running \subseteq (IF AdvancedProbe.spi = NoComponent THEN {} ELSE {AdvancedProbe.spi})
      /\ AdvancedProbe.state \in {"Baseline", "StartRequested"} => running = {} /\ SameContext
      /\ AdvancedProbe.state = "Observing" => SameContext
      /\ ~settled /\ ~Running(probe) => ~Running(AdvancedProbe)
  BY <1>1, AdvancingKeeps
<1>5. Grounded'
  BY <1>3 DEF Grounded
<1>6. NoProbe.state = "Idle" /\ NoProbe.spi = NoComponent
  BY DEF NoProbe
<1>7. ASSUME OutlineTypes', CommandTypes', OneCommand', probe' \in Probes
      PROVE  TypeOK'
  BY <1>3, <1>7 DEF TypeOK
<1>8. CASE PassProbeStop
  <2>1. /\ IssueProbe("SpiStop") /\ settled' = settled
        /\ AdvancedProbe.state = "StopRequested"
        /\ probe' = [AdvancedProbe EXCEPT !.state = "Stopping",
                                          !.attempts = AdvancedProbe.attempts + 1]
    BY <1>8 DEF PassProbeStop, CleanupPending
  <2>2. /\ OutlineTypes' /\ CommandTypes' /\ OneCommand'
        /\ cmd'.op = "SpiStop" /\ cmd'.gen = generation /\ generation' = generation
        /\ tuning' = tuning
    BY <1>2, <2>1, IssueProbeOutline DEF ProbeOps
  <2>3. /\ probe' \in Probes /\ probe'.state = "Stopping" /\ probe'.spi = AdvancedProbe.spi
        /\ AdvancedProbe.spi # NoComponent
    <3>1. AdvancedProbe \in Probes /\ AdvancedProbe.attempts + 1 \in Nat
      BY <1>4 DEF Sound, Probes
    <3> QED
      BY <1>4, <2>1, <3>1 DEF Sound, Probes, ProbeState
  <2>4. ~tuning
    BY <1>4, <2>1 DEF TuneAlone, Running
  <2>5. ProbeFollowed' /\ StreamQuarantined'
    BY <1>3, <1>4, <2>2, <2>3 DEF ProbeFollowed, StreamQuarantined
  <2>6. TuneAlone' /\ CleanupBeforeSwitch'
    BY <2>2, <2>4 DEF TuneAlone, CleanupBeforeSwitch
  <2>7. SuspensionFollowed'
    BY <1>3, <2>1, <2>2, <2>3 DEF SuspensionFollowed, OfThisTune
  <2> QED
    BY <1>5, <1>7, <2>2, <2>3, <2>5, <2>6, <2>7
<1>9. CASE PassProbeStart
  <2>1. /\ IssueProbe("SpiStart") /\ Rests
        /\ AdvancedProbe.state = "StartRequested"
        /\ probe' = [AdvancedProbe EXCEPT !.state = "Starting"]
    BY <1>9 DEF PassProbeStart
  <2>2. /\ OutlineTypes' /\ CommandTypes' /\ OneCommand'
        /\ cmd'.op = "SpiStart" /\ generation' = generation
        /\ tuning' = tuning
    BY <1>2, <2>1, IssueProbeOutline DEF ProbeOps
  <2>3. /\ probe' \in Probes /\ probe'.state = "Starting" /\ probe'.spi = AdvancedProbe.spi
        /\ AdvancedProbe.spi # NoComponent
    BY <1>4, <2>1 DEF Sound, Probes, ProbeState
  <2>4. ~tuning /\ running = {}
    BY <1>4, <2>1 DEF TuneAlone, Running
  <2>5. ProbeFollowed' /\ StreamQuarantined'
    BY <1>3, <2>2, <2>3, <2>4 DEF ProbeFollowed, StreamQuarantined
  <2>6. TuneAlone' /\ CleanupBeforeSwitch'
    BY <2>2, <2>4 DEF TuneAlone, CleanupBeforeSwitch
  <2>7. SuspensionFollowed'
    BY <1>3, <2>1, <2>2, <2>3 DEF SuspensionFollowed
  <2> QED
    BY <1>5, <1>7, <2>2, <2>3, <2>5, <2>6, <2>7
<1>10. ASSUME NEW op \in SwitchOps \cup OtherOps, PassOther(op)
       PROVE  ProbeInductive'
  <2>1. /\ Issue(op) /\ probe' = AdvancedProbe
        /\ AdvancedProbe.state = "StopRequested" => op \in {"TuneStatus", "Background"}
    BY <1>10 DEF PassOther, CleanupPending
  <2>2. /\ OutlineTypes' /\ CommandTypes' /\ OneCommand'
        /\ cmd'.op = op /\ ~stalled' /\ tuning' = tuning
        /\ op = "Tune" => ~settled'
        /\ tuning => (settled' => settled)
        /\ op \in {"StopData", "StopAudio", "StartAudio", "Tune"} => serviceReq \/ tuneReq
    BY <1>2, <2>1, IssueOutline
  <2>3. op \notin ProbeOps
    BY DEF ProbeOps, SwitchOps, OtherOps
  <2>4. op \in {"StopData", "StopAudio", "StartAudio", "Tune"} =>
          AdvancedProbe.state \in {"Idle", "CleanupFailed"}
    BY <1>4, <2>1, <2>2 DEF SameContext, Undisturbed, Sound, Probes, ProbeState
  <2>5. ProbeFollowed' /\ StreamQuarantined'
    BY <1>3, <1>4, <2>1, <2>2, <2>3 DEF ProbeFollowed, StreamQuarantined, Sound, ProbeOps
  <2>6. TuneAlone'
    BY <1>3, <1>4, <2>1, <2>2, <2>4 DEF TuneAlone, Running
  <2>7. CleanupBeforeSwitch'
    BY <1>3, <1>4, <1>6, <2>1, <2>2, <2>4 DEF CleanupBeforeSwitch, Sound
  <2>8. SuspensionFollowed'
    BY <1>3, <2>1, <2>2, <2>3 DEF SuspensionFollowed, ProbeOps
  <2> QED
    BY <1>4, <1>5, <1>7, <2>1, <2>2, <2>5, <2>6, <2>7, <2>8 DEF Sound
<1>11. CASE PassNothing
  <2>1. Move /\ probe' = AdvancedProbe
    BY <1>11 DEF PassNothing
  <2>2. /\ OutlineTypes' /\ CommandTypes' /\ OneCommand'
        /\ cmd'.op = "None" /\ ~stalled' /\ tuning' = tuning
        /\ tuning => (settled' => settled)
    BY <1>2, <2>1, MoveOutline
  <2>3. ProbeFollowed' /\ StreamQuarantined'
    BY <1>3, <1>4, <2>1, <2>2 DEF ProbeFollowed, StreamQuarantined, Sound
  <2>4. TuneAlone' /\ CleanupBeforeSwitch'
    BY <1>3, <1>4, <2>1, <2>2 DEF TuneAlone, Running, CleanupBeforeSwitch
  <2>5. SuspensionFollowed'
    BY <1>3, <2>1, <2>2 DEF SuspensionFollowed
  <2> QED
    BY <1>4, <1>5, <1>7, <2>1, <2>2, <2>3, <2>4, <2>5 DEF Sound
<1> QED
  BY <1>8, <1>9, <1>10, <1>11 DEF Pass

-----------------------------------------------------------------------------
(* The ends of commands. *)

\* What the tuner decodes after a command: at most the endpoint of the probe.
LEMMA TunerObeys ==
  ASSUME NEW r \in Results \cup {"Absent"}, Tunes(r)
  PROVE  /\ running' \in {running, CarriedOut}
         /\ r = "Ok" => running' = CarriedOut
         /\ r \in {"Error", "Absent"} => running' = running
BY DEF Tunes, Results

\* What it carries out, by the command.
LEMMA CarriedOutIs ==
  /\ cmd.op = "SpiStart" => CarriedOut = running \cup {probe.spi}
  /\ cmd.op = "SpiStop" => CarriedOut = running \ {probe.spi}
  /\ cmd.op = "Tune" => CarriedOut = {}
  /\ cmd.op \notin {"SpiStart", "SpiStop", "Tune"} => CarriedOut = running
BY DEF CarriedOut

\* It decodes components only, and never more than the endpoint of the probe.
LEMMA TunerTypes ==
  ASSUME ProbeInductive, running' \in {running, CarriedOut}
  PROVE  /\ running' \subseteq Components
         /\ running' \subseteq (IF probe.spi = NoComponent THEN {} ELSE {probe.spi})
         /\ cmd.op # "SpiStart" => running' \subseteq running
<1> USE DEF ProbeInductive
<1>1. running \subseteq (IF probe.spi = NoComponent THEN {} ELSE {probe.spi})
  BY DEF StreamQuarantined
<1>2. cmd.op = "SpiStart" => probe.spi # NoComponent
  BY DEF ProbeFollowed
<1>3. running \subseteq Components /\ probe.spi \in Components \cup {NoComponent}
  BY DEF TypeOK, Probes
<1> QED
  BY <1>1, <1>2, <1>3, CarriedOutIs

\* A stalled transport: the probe waits for the recovery, with the endpoint it has.
LEMMA StallPreserves ==
  ASSUME ProbeInductive, CompleteStalled
  PROVE  ProbeInductive'
<1> USE DEF ProbeInductive
<1>1. /\ cmd' = NoCmd /\ stalled' = TRUE /\ cmd'.op = "None"
      /\ UNCHANGED <<request, generation, tuneReq, serviceReq, tuning, audio, sls, settled, lock>>
      /\ UNCHANGED <<discovery, present, probe, auto, continuous, manual, paused, debug, mode,
                     recheck, byHand, commands>>
      /\ faults' = faults + 1 /\ Tunes("Timeout")
  BY DEF CompleteStalled, FinishStalled, Spend, owned, ownership, settings, history, NoCmd
<1>2. running' \in {running, CarriedOut}
  BY <1>1, TunerObeys DEF Results
<1>3. /\ running' \subseteq Components
      /\ running' \subseteq (IF probe.spi = NoComponent THEN {} ELSE {probe.spi})
      /\ cmd.op # "SpiStart" => running' \subseteq running
  BY <1>2, TunerTypes
<1>4. TypeOK' /\ OneCommand' /\ Grounded'
  BY <1>1, <1>3 DEF TypeOK, OutlineTypes, CommandTypes, OneCommand, Grounded, NoCmd, OfThisTune
<1>5. ProbeFollowed' /\ StreamQuarantined' /\ CleanupBeforeSwitch'
  BY <1>1, <1>3 DEF ProbeFollowed, StreamQuarantined, CleanupBeforeSwitch
<1>6. TuneAlone'
  BY <1>1, <1>3 DEF TuneAlone, ProbeFollowed, Running
<1>7. SuspensionFollowed'
  BY <1>1 DEF SuspensionFollowed
<1> QED
  BY <1>4, <1>5, <1>6, <1>7

\* The end of any other command leaves the probe alone, but the end of the tune in force makes
\* the driver forget it, which then has nothing left to stop.
LEMMA CompletePreserves ==
  ASSUME ProbeInductive, NEW r \in Results, Complete(r)
  PROVE  ProbeInductive'
<1> USE DEF ProbeInductive
<1>1. /\ cmd.op \notin ProbeOps /\ Finish(r = "Ok") /\ Tunes(r) /\ Forgets
      /\ UNCHANGED <<debug, mode, discovery, present, commands, faults>>
      /\ \/ /\ ForgetsProbe(r) /\ probe' = NoProbe /\ auto' = ResetPolicy(auto)
            /\ continuous' = FALSE /\ manual' = FALSE /\ paused' = FALSE
         \/ UNCHANGED <<probe, auto, continuous, manual, paused>>
  BY DEF Complete, ownership, bounds
<1>2. /\ OutlineTypes' /\ CommandTypes' /\ OneCommand'
      /\ cmd # NoCmd /\ cmd' = NoCmd /\ cmd'.op = "None" /\ ~stalled /\ ~stalled'
      /\ generation' = generation
      /\ tuning' => tuning \/ (cmd.op = "Tune" /\ r = "Ok")
      /\ tuning' => (settled' => settled)
  <2> DEFINE ok == r = "Ok"
  <2>1. ok \in BOOLEAN /\ Finish(ok)
    BY <1>1
  <2> HIDE DEF ok
  <2>2. /\ OutlineTypes' /\ CommandTypes' /\ OneCommand'
        /\ cmd # NoCmd /\ cmd' = NoCmd /\ ~stalled /\ ~stalled'
        /\ generation' = generation
        /\ tuning' => tuning \/ (cmd.op = "Tune" /\ ok)
        /\ tuning' => (settled' => settled)
    BY <2>1, FinishOutline DEF TypeOK
  <2> QED
    BY <2>2 DEF NoCmd, ok
<1>3. /\ running' \in {running, CarriedOut}
      /\ r = "Ok" => running' = CarriedOut
  BY <1>1, TunerObeys
<1>4. /\ running' \subseteq Components
      /\ running' \subseteq (IF probe.spi = NoComponent THEN {} ELSE {probe.spi})
      /\ running' \subseteq running
  BY <1>1, <1>3, TunerTypes DEF ProbeOps
<1>5. ResetPolicy(auto) \in Policies /\ ResetPolicy(auto).state \in {"Ineligible", "Disabled"}
  BY ContextTypes, SyncTypes DEF TypeOK
<1>6. tuning' => running' = {}
  BY <1>2, <1>3, <1>4, CarriedOutIs DEF TuneAlone
<1>7. tuning' => ~settled' /\ ~Running(probe)
  BY <1>2 DEF TuneAlone
<1>8. ForgetsProbe(r) => running' = {}
  BY <1>4 DEF ForgetsProbe, OneCommand, TuneAlone
<1>9. probe.state \notin {"Starting", "Stopping"}
  BY <1>1, <1>2 DEF ProbeFollowed, ProbeOps
<1>10. TypeOK' /\ Grounded'
  <2>1. probe' \in Probes /\ auto' \in Policies
    BY <1>1, <1>5, NoProbeSound DEF TypeOK, Sound
  <2>2. continuous' \in BOOLEAN /\ manual' \in BOOLEAN /\ paused' \in BOOLEAN
    BY <1>1 DEF TypeOK
  <2> QED
    BY <1>1, <1>2, <1>4, <2>1, <2>2, HistoryTypes DEF TypeOK, Grounded
<1>11. ProbeFollowed' /\ StreamQuarantined'
  BY <1>1, <1>2, <1>4, <1>8, <1>9 DEF ProbeFollowed, StreamQuarantined, NoProbe
<1>12. TuneAlone' /\ CleanupBeforeSwitch'
  BY <1>1, <1>2, <1>6, <1>7 DEF TuneAlone, CleanupBeforeSwitch, Running, NoProbe
<1>13. SuspensionFollowed'
  BY <1>1, <1>2, <1>5 DEF SuspensionFollowed, Suspended
<1> QED
  BY <1>2, <1>10, <1>11, <1>12, <1>13

\* A service list ends the probe or leaves it; a directory tells the policy what it holds.
LEMMA GuideReadPreserves ==
  ASSUME ProbeInductive,
         \/ \E valid \in BOOLEAN : InventoryRead(valid)
         \/ \E content, confirms \in BOOLEAN : GuideReceived(content, confirms)
  PROVE  ProbeInductive'
<1> USE DEF ProbeInductive
<1>1. /\ cmd.op = "Background" /\ Finish(TRUE)
      /\ UNCHANGED <<continuous, manual, paused, debug, mode, running, commands, faults>>
  BY DEF InventoryRead, GuideReceived, settings, bounds
<1>2. /\ OutlineTypes' /\ CommandTypes' /\ OneCommand'
      /\ cmd' = NoCmd /\ cmd'.op = "None" /\ ~stalled /\ ~stalled'
      /\ generation' = generation
      /\ tuning' => tuning /\ (settled' => settled)
  <2>1. /\ OutlineTypes' /\ CommandTypes' /\ OneCommand'
        /\ cmd # NoCmd /\ cmd' = NoCmd /\ ~stalled /\ ~stalled'
        /\ generation' = generation
        /\ tuning' => tuning \/ (cmd.op = "Tune" /\ TRUE)
        /\ tuning' => (settled' => settled)
    BY <1>1, FinishOutline DEF TypeOK
  <2> QED
    BY <1>1, <2>1 DEF NoCmd
<1>3. /\ probe' \in {probe, StopProbe(probe)}
      /\ auto' \in Policies /\ auto'.state \in {auto.state, "Disabled", "Ineligible", "Active"}
      /\ discovery' \in Discovery /\ Grounded' /\ present' \in BOOLEAN
      /\ recheck' \in BOOLEAN /\ byHand' \in BOOLEAN
  <2>1. CASE \E valid \in BOOLEAN : InventoryRead(valid)
    <3>1. PICK valid \in BOOLEAN : InventoryRead(valid)
      BY <2>1
    <3>2. /\ probe' \in {probe, StopProbe(probe)} /\ auto' = auto /\ Forgets
          /\ discovery' = Found(IF valid THEN "Pending" ELSE "Unlisted")
          /\ present' = (present /\ ~valid)
      BY <3>1 DEF InventoryRead
    <3>3. discovery' \in Discovery /\ Grounded'
      BY <3>2 DEF Found, Discovery, Statuses, Grounded
    <3> QED
      BY <3>2, <3>3, HistoryTypes DEF TypeOK
  <2>2. CASE \E content, confirms \in BOOLEAN : GuideReceived(content, confirms)
    <3>1. PICK content, confirms \in BOOLEAN : GuideReceived(content, confirms)
      BY <2>2
    <3>2. /\ UNCHANGED <<discovery, present, probe, byHand>>
          /\ auto' = DirectoryRead(Synced, content, confirms)
          /\ recheck' = (recheck /\ ~content /\ Rechecks')
      BY <3>1 DEF GuideReceived
    <3>3. auto' \in Policies /\ auto'.state \in {auto.state, "Disabled", "Ineligible", "Active"}
      BY <3>2, ContextTypes, PolicyTypes
    <3>4. recheck' \in BOOLEAN
      BY <3>2
    <3> QED
      BY <3>2, <3>3, <3>4 DEF TypeOK, Grounded
  <2> QED
    BY <2>1, <2>2
<1>4. /\ probe' \in Probes
      /\ ProbeFollowed' /\ StreamQuarantined' /\ TuneAlone' /\ CleanupBeforeSwitch'
      /\ SuspensionFollowed'
  <2>1. stalled' = stalled
    BY <1>2 DEF TypeOK, OutlineTypes
  <2>2. settled' => settled \/ (~tuning' /\ cmd' = NoCmd)
    BY <1>2
  <2> QED
    BY <1>1, <1>2, <1>3, <2>1, <2>2, StoppingKeeps DEF ProbeOps
<1> QED
  BY <1>1, <1>2, <1>3, <1>4 DEF TypeOK

\* The end of a START: the endpoint is kept unless the tuner has refused it.
LEMMA StartPreserves ==
  ASSUME ProbeInductive, NEW r \in Results, CompleteStart(r)
  PROVE  ProbeInductive'
<1> USE DEF ProbeInductive
<1>1. /\ cmd.op = "SpiStart" /\ cmd' = NoCmd /\ cmd'.op = "None" /\ cmd # NoCmd
      /\ UNCHANGED <<request, generation, tuneReq, serviceReq, tuning, audio, sls, settled, lock,
                     stalled, discovery, present, continuous, manual, paused, debug, mode, commands>>
      /\ faults' \in {faults, faults + 1} /\ Tunes(r)
      /\ auto' = IF OfThisTune THEN PolicyStarted(Synced, r = "Ok", r = "Timeout") ELSE Synced
      /\ probe' = ProbeStarted(probe, r = "Ok", r = "Timeout")
      /\ Forgets
  BY DEF CompleteStart, CompleteProbe, Spend, owned, settings, NoCmd, TypeOK
<1>2. Sound(probe) /\ probe.state = "Starting" /\ running = {} /\ probe.spi # NoComponent
  BY <1>1 DEF ProbeFollowed, TypeOK, Sound
<1>3. /\ running' \in {running, CarriedOut}
      /\ r = "Error" => running' = {}
  BY <1>1, <1>2, TunerObeys
<1>4. /\ running' \subseteq Components
      /\ running' \subseteq {probe.spi}
  BY <1>2, <1>3, TunerTypes
<1>5. /\ Sound(probe')
      /\ r # "Error" => probe'.state \in {"Observing", "StopRequested"} /\ probe'.spi = probe.spi
      /\ r = "Timeout" => probe'.state = "StopRequested"
      /\ r = "Error" => probe' = NoProbe
  <2>1. (r = "Ok") \in BOOLEAN /\ (r = "Timeout") \in BOOLEAN
    OBVIOUS
  <2> QED
    BY <1>1, <1>2, <2>1, ProbeStartedSound DEF Results
<1>6. /\ auto' \in Policies
      /\ auto'.state \in {auto.state, "Disabled", "Ineligible", "Active", "RecheckActive"}
                        \cup (IF r = "Timeout" THEN {"StopPending"} ELSE {})
                        \cup (IF r = "Error" THEN {"Error"} ELSE {})
  <2>1. (r = "Ok") \in BOOLEAN /\ (r = "Timeout") \in BOOLEAN
    OBVIOUS
  <2> QED
    BY <1>1, <2>1, ContextTypes, EndedTypes DEF Results
<1>7. NoProbe.state = "Idle" /\ NoProbe.spi = NoComponent
  BY DEF NoProbe
<1>8. ~tuning
  BY <1>2 DEF TuneAlone, Running
<1>9. TypeOK' /\ OneCommand' /\ Grounded'
  BY <1>1, <1>4, <1>5, <1>6, HistoryTypes
  DEF TypeOK, OutlineTypes, CommandTypes, OneCommand, Grounded, NoCmd, OfThisTune, Sound
<1>10. ProbeFollowed' /\ StreamQuarantined'
  BY <1>1, <1>3, <1>4, <1>5, <1>7 DEF ProbeFollowed, StreamQuarantined, Sound
<1>11. TuneAlone' /\ CleanupBeforeSwitch'
  BY <1>1, <1>8 DEF TuneAlone, CleanupBeforeSwitch
<1>12. SuspensionFollowed'
  BY <1>1, <1>2, <1>5, <1>6, <1>7 DEF SuspensionFollowed, Suspended, Results
<1> QED
  BY <1>9, <1>10, <1>11, <1>12

\* The end of a STOP: the endpoint is forgotten only when nothing is decoded any more.
LEMMA StopPreserves ==
  ASSUME ProbeInductive, NEW r \in Results \cup {"Absent"}, CompleteStop(r)
  PROVE  ProbeInductive'
<1> USE DEF ProbeInductive
<1>1. /\ cmd.op = "SpiStop" /\ cmd' = NoCmd /\ cmd'.op = "None" /\ cmd # NoCmd
      /\ UNCHANGED <<request, generation, tuneReq, serviceReq, tuning, audio, sls, settled, lock,
                     stalled, discovery, present, continuous, manual, paused, debug, mode, commands>>
      /\ faults' \in {faults, faults + 1} /\ Tunes(r)
      /\ r = "Absent" => probe.spi \notin running
      /\ auto' = IF OfThisTune THEN PolicyStopped(Synced, Stopped(r)) ELSE Synced
      /\ probe' = ProbeStopped(probe, Stopped(r))
      /\ Forgets
  BY DEF CompleteStop, CompleteProbe, Spend, owned, settings, NoCmd, TypeOK
<1>2. Sound(probe) /\ probe.state = "Stopping" /\ probe.spi # NoComponent
  BY <1>1 DEF ProbeFollowed, TypeOK, Sound
<1>3. /\ running' \in {running, CarriedOut}
      /\ r = "Ok" => running' = running \ {probe.spi}
      /\ r = "Absent" => running' = running
  BY <1>1, TunerObeys, CarriedOutIs
<1>4. /\ running' \subseteq Components
      /\ running' \subseteq {probe.spi}
      /\ Stopped(r) => running' = {}
  BY <1>1, <1>2, <1>3, TunerTypes DEF Stopped
<1>5. /\ Sound(probe')
      /\ Stopped(r) => probe' = NoProbe
      /\ ~Stopped(r) => probe'.state \in {"StopRequested", "CleanupFailed"} /\ probe'.spi = probe.spi
  <2>1. Stopped(r) \in BOOLEAN
    BY DEF Stopped
  <2> QED
    BY <1>1, <1>2, <2>1, ProbeStoppedSound
<1>6. /\ auto' \in Policies
      /\ auto'.state \in {auto.state, "Disabled", "Ineligible", "Active"}
                        \cup (IF Stopped(r) THEN {"Cooldown"} ELSE {})
      /\ Stopped(r) => auto'.state # "StopPending"
  <2>1. Stopped(r) \in BOOLEAN
    BY DEF Stopped
  <2>2. OfThisTune \/ auto.state # "StopPending"
    BY <1>1 DEF SuspensionFollowed
  <2> QED
    BY <1>1, <2>1, <2>2, ContextTypes, EndedTypes
<1>7. NoProbe.state = "Idle" /\ NoProbe.spi = NoComponent
  BY DEF NoProbe
<1>8. ~tuning
  BY <1>2 DEF TuneAlone, Running
<1>9. TypeOK' /\ OneCommand' /\ Grounded'
  BY <1>1, <1>4, <1>5, <1>6, HistoryTypes
  DEF TypeOK, OutlineTypes, CommandTypes, OneCommand, Grounded, NoCmd, OfThisTune, Sound
<1>10. ProbeFollowed' /\ StreamQuarantined'
  BY <1>1, <1>4, <1>5, <1>7 DEF ProbeFollowed, StreamQuarantined, Sound
<1>11. TuneAlone' /\ CleanupBeforeSwitch'
  BY <1>1, <1>8 DEF TuneAlone, CleanupBeforeSwitch
<1>12. SuspensionFollowed'
  BY <1>1, <1>2, <1>5, <1>6, <1>7 DEF SuspensionFollowed, Suspended
<1> QED
  BY <1>9, <1>10, <1>11, <1>12

-----------------------------------------------------------------------------
(* The invariant, and what follows from it. *)

LEMMA ProbeInvInit == Init => ProbeInductive
<1> SUFFICES ASSUME Init PROVE ProbeInductive
  OBVIOUS
<1>1. OutlineTypes /\ CommandTypes /\ OneCommand
  <2>1. /\ request = 2 /\ generation = 1 /\ ~stalled /\ cmd = NoCmd
    BY DEF Init, OutlineInit
  <2>2. /\ tuneReq \in BOOLEAN /\ serviceReq \in BOOLEAN /\ tuning \in BOOLEAN
        /\ audio \in BOOLEAN /\ sls \in BOOLEAN /\ settled \in BOOLEAN
        /\ lock \in BOOLEAN /\ stalled \in BOOLEAN
    BY Zenon DEF Init, OutlineInit
  <2> QED
    BY <2>1, <2>2 DEF OutlineTypes, CommandTypes, OneCommand, NoCmd, OfThisTune
<1>2. NoContext \in Contexts
  BY DEF NoContext, Contexts, Modes
<1>3. auto \in Policies /\ auto.state = "Ineligible"
  BY <1>2 DEF Init, Policies, PolicyState
<1>4. discovery \in Discovery /\ Grounded
  BY DEF Init, Found, Discovery, Statuses, Grounded
<1>5. probe = NoProbe /\ probe \in Probes /\ probe.state = "Idle" /\ running = {}
  BY NoProbeSound DEF Init, Sound, NoProbe
<1>6. TypeOK
  BY <1>1, <1>3, <1>4, <1>5 DEF Init, TypeOK, Modes
<1>7. ProbeFollowed /\ StreamQuarantined /\ TuneAlone /\ CleanupBeforeSwitch
  BY <1>5 DEF Init, OutlineInit, NoCmd, ProbeFollowed, StreamQuarantined, TuneAlone, Running,
              CleanupBeforeSwitch
<1>8. SuspensionFollowed
  BY <1>3 DEF SuspensionFollowed, Suspended
<1> QED
  BY <1>1, <1>4, <1>6, <1>7, <1>8 DEF ProbeInductive

LEMMA ProbeInvStep == ProbeInductive /\ [Next]_vars => ProbeInductive'
<1> SUFFICES ASSUME ProbeInductive, [Next]_vars PROVE ProbeInductive'
  OBVIOUS
<1>1. CASE UserTunes \/ UserSelects
  BY <1>1, RequestsPreserve
<1>2. CASE OperatorCommands
  BY <1>2, DebugSpiPreserves, CommandsPreserve DEF OperatorCommands
<1>3. CASE ColdRecovery
  BY <1>3, RecoveryPreserves
<1>4. CASE \/ (\E result \in Outcomes : Discovered(result)) \/ RoutineScan
           \/ ProbeElapse \/ AutoElapse
  BY <1>4, TimePreserves
<1>5. CASE Pass
  BY <1>5, PassPreserves
<1>6. CASE Completes
  BY <1>6, StallPreserves, CompletePreserves, StartPreserves, StopPreserves, GuideReadPreserves
  DEF Completes
<1>7. CASE UNCHANGED vars
  <2>1. /\ UNCHANGED <<request, generation, tuneReq, serviceReq, tuning, audio, sls, settled, lock,
                       stalled, cmd, discovery, present, probe, auto, continuous, manual, paused,
                       debug, mode, running, commands, faults, recheck, byHand>>
    BY <1>7 DEF vars, outline, owned, ownership, settings, bounds, history
  <2>2. TypeOK'
    BY <2>1 DEF ProbeInductive, TypeOK, OutlineTypes, CommandTypes
  <2> QED
    BY <2>1, <2>2
    DEF ProbeInductive, Grounded, OneCommand, OfThisTune, ProbeFollowed, StreamQuarantined,
        TuneAlone, CleanupBeforeSwitch, SuspensionFollowed
<1> QED
  BY <1>1, <1>2, <1>3, <1>4, <1>5, <1>6, <1>7 DEF Next

LEMMA ProbeInvAlways == Spec => []ProbeInductive
BY ProbeInvInit, ProbeInvStep, PTL DEF Spec

\* Every variable of the packet receiver stays in its range.
THEOREM ProbeTypeCorrect == Spec => []TypeOK
<1>1. ProbeInductive => TypeOK
  BY DEF ProbeInductive
<1> QED
  BY <1>1, ProbeInvAlways, PTL

\* The tuner never decodes a packet component that the driver does not know of.
THEOREM StreamIsQuarantined == Spec => []StreamQuarantined
<1>1. ProbeInductive => StreamQuarantined
  BY DEF ProbeInductive
<1> QED
  BY <1>1, ProbeInvAlways, PTL

\* No service is stopped or started and no tune is sent over a packet component that is still
\* decoded, unless its cleanup was given up.
THEOREM CleanupComesFirst == Spec => []CleanupBeforeSwitch
<1>1. ProbeInductive => CleanupBeforeSwitch
  BY DEF ProbeInductive
<1> QED
  BY <1>1, ProbeInvAlways, PTL

\* A suspension receives nothing, and a pending one has a STOP that settles it.
THEOREM SuspensionIsSound == Spec => []AutoSuspensionSound
<1>1. ASSUME ProbeInductive PROVE CooldownIsSilent
  BY <1>1 DEF ProbeInductive, SuspensionFollowed, StreamQuarantined, ProbeFollowed, NoProbe,
              CooldownIsSilent
<1>2. ASSUME ProbeInductive PROVE AutoNotStuck
  <2>1. Synced.state \in {auto.state, "Disabled", "Ineligible", "Active"}
    BY <1>2, ContextTypes DEF ProbeInductive
  <2> QED
    BY <1>2, <2>1 DEF ProbeInductive, SuspensionFollowed, AutoNotStuck
<1>3. ProbeInductive => AutoSuspensionSound
  BY <1>1, <1>2 DEF AutoSuspensionSound
<1> QED
  BY <1>3, ProbeInvAlways, PTL

\* A START is the last step of a probe that is in its context; a suspended policy has an idle
\* probe, and one that waits for a STOP has a probe that is being stopped.
LEMMA StartsInContext ==
  ASSUME ProbeInductive, Next, cmd.op # "SpiStart", cmd'.op = "SpiStart"
  PROVE  /\ Undisturbed /\ probe'.request = request
         /\ auto'.state \notin {"Cooldown", "Error", "StopPending"}
<1> USE DEF ProbeInductive
<1>1. CASE PassProbeStart
  <2>1. /\ Free /\ Prepares /\ AdvancedProbe.state = "StartRequested"
        /\ probe' = [AdvancedProbe EXCEPT !.state = "Starting"]
    BY <1>1 DEF PassProbeStart, IssueProbe
  <2>2. /\ Sound(AdvancedProbe) /\ SameContext /\ AdvancedProbe.request = request
    BY <2>1, AdvancingKeeps
  <2>3. probe'.request = request
    BY <2>1, <2>2 DEF Sound, Probes
  <2>4. auto'.state \notin {"Cooldown", "Error", "StopPending"}
    BY <2>1, PreparesTypes DEF Suspended
  <2> QED
    BY <2>2, <2>3, <2>4 DEF SameContext
<1>2. CASE ~PassProbeStart
  <2>1. cmd'.op \in {cmd.op, "None", "SpiStop"} \cup SwitchOps \cup OtherOps
    <3>1. CASE UserTunes \/ UserSelects \/ ColdRecovery
      BY <3>1 DEF UserTunes, UserSelects, ColdRecovery, SetFreq, SetService, Recover, NoCmd
    <3>2. CASE OperatorCommands
      BY <3>2 DEF OperatorCommands, DebugSpi, DebugSpiStop, ToggleDebug, SetMode, EnableAuto,
                  Operator, outline
    <3>3. CASE \/ (\E result \in Outcomes : Discovered(result)) \/ RoutineScan
               \/ ProbeElapse \/ AutoElapse
      BY <3>3 DEF Discovered, RoutineScan, Scanning, ProbeElapse, AutoElapse, outline
    <3>4. CASE Pass
      <4>1. CASE PassProbeStop
        BY <4>1 DEF PassProbeStop, IssueProbe, Command
      <4>2. ASSUME NEW op \in SwitchOps \cup OtherOps, PassOther(op)
            PROVE  cmd'.op \in SwitchOps \cup OtherOps
        BY <4>2 DEF PassOther, Issue, Command
      <4>3. CASE PassNothing
        BY <4>3 DEF PassNothing, Move
      <4> QED
        BY <1>2, <3>4, <4>1, <4>2, <4>3 DEF Pass
    <3>5. CASE Completes
      <4>1. cmd' = NoCmd
        BY <3>5 DEF Completes, CompleteStalled, FinishStalled, Complete, CompleteStart,
                    CompleteStop, CompleteProbe, InventoryRead, GuideReceived, Finish,
                    FinishStale, FinishCurrent
      <4> QED
        BY <4>1 DEF NoCmd
    <3> QED
      BY <3>1, <3>2, <3>3, <3>4, <3>5 DEF Next
  <2> QED
    BY <2>1 DEF SwitchOps, OtherOps
<1> QED
  BY <1>1, <1>2

\* A START of the packet component is sent only for the request it was asked for, on a locked
\* tuner with the audio service playing, and never against a suspension.
THEOREM StartsOnlyInContext == Spec => StartInContext
<1>1. ProbeInductive /\ [Next]_vars =>
        [cmd.op # "SpiStart" /\ cmd'.op = "SpiStart" =>
           /\ Undisturbed /\ probe'.request = request
           /\ auto'.state \notin {"Cooldown", "Error", "StopPending"}]_vars
  BY StartsInContext
<1> QED
  BY <1>1, ProbeInvAlways, PTL DEF Spec, StartInContext
=============================================================================
