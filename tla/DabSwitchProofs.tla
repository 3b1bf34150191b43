--------------------------- MODULE DabSwitchProofs ---------------------------
(***************************************************************************)
(* Proofs about DabSwitch for every set of services and channels, every    *)
(* retry bound and any number of requests and faults.                      *)
(***************************************************************************)
EXTENDS DabSwitch, TLAPS

-----------------------------------------------------------------------------
(* The controller's member functions: types and what they leave alone. *)

\* A request and a reset give a controller.
LEMMA RequestTypes ==
  ASSUME NEW c \in Controller
  PROVE  RequestSwitch(c) \in Controller /\ ResetController(c) \in Controller
BY DEF Controller, State, Resume, RequestSwitch, ResetController, Fresh

\* So do a move and a settle interval.
LEMMA MoveTypes ==
  ASSUME NEW c \in Controller, NEW s \in State
  PROVE  [c EXCEPT !.state = s] \in Controller /\ Settle(c, s) \in Controller
BY DEF Controller, Settle

\* So do the functions without an argument and the end of a slideshow START.
LEMMA DataTypes ==
  ASSUME NEW c \in Controller
  PROVE  /\ BindCommand(c) \in Controller /\ ServiceBackoff(c) \in Controller
         /\ DeferData(c) \in Controller /\ RequestDataEvaluation(c) \in Controller
         /\ [c EXCEPT !.dataRetries = 0, !.dataEvaluationRequested = FALSE,
                      !.slsContextValid = TRUE, !.state = "Ready"] \in Controller
<1>1. BindCommand(c) \in Controller /\ RequestDataEvaluation(c) \in Controller
  BY DEF Controller, State, BindCommand, RequestDataEvaluation
<1>2. DeferData(c) \in Controller
  BY DEF Controller, State, DeferData
<1>3. ServiceBackoff(c) \in Controller
  BY DEF Controller, State, Resume, ServiceBackoff
<1>4. [c EXCEPT !.dataRetries = 0, !.dataEvaluationRequested = FALSE,
                !.slsContextValid = TRUE, !.state = "Ready"] \in Controller
  BY DEF Controller, State
<1> QED
  BY <1>1, <1>2, <1>3, <1>4

\* And every backoff, from whichever counter.
LEMMA BackoffTypes ==
  ASSUME NEW c \in Controller, NEW r \in Resume
  PROVE  /\ BackoffTo(c, r) \in Controller /\ BackoffStop(c, r) \in Controller
         /\ BackoffAudio(c) \in Controller /\ BackoffData(c) \in Controller
<1>1. BackoffTo(c, r) \in Controller
  BY DEF Controller, State, BackoffTo
<1>2. BackoffStop(c, r) \in Controller
  BY <1>1 DEF Controller, BackoffStop
<1>3. BackoffTo(c, "StartAudio") \in Controller /\ BackoffTo(c, "ResolveData") \in Controller
  BY DEF Controller, State, Resume, BackoffTo
<1>4. BackoffAudio(c) \in Controller /\ BackoffData(c) \in Controller
  BY <1>3 DEF Controller, BackoffAudio, BackoffData
<1> QED
  BY <1>1, <1>2, <1>4

\* dispatchRequest names a state in which the STOP it asks for can be issued.
LEMMA DispatchTypes ==
  ASSUME NEW d \in BOOLEAN, NEW a \in BOOLEAN, NEW t \in BOOLEAN, NEW q \in BOOLEAN
  PROVE  /\ DispatchRequest(d, a, t, q) \in {"StopData", "StopAudio", "Idle", "StartAudio"}
         /\ DispatchRequest(d, a, t, q) = "StopAudio" => ~d
         /\ DispatchRequest(d, a, t, q) \in {"Idle", "StartAudio"} => ~d /\ ~a
BY DEF DispatchRequest

\* The tests before the switch statement only end a backoff or go back to
\* ResolveData from the two states in which the audio service plays.
LEMMA WokenFacts ==
  ASSUME TypeOK
  PROVE  /\ Woken \in Controller
         /\ Woken.requestId = sw.requestId /\ Woken.commandRequestId = sw.commandRequestId
         /\ \/ Woken.state = Phase
            \/ Woken.state \in {"Backoff", "Failed"}
            \/ Woken.state = "ResolveData" /\ AudioContextUsable(Phase)
         /\ Woken.state = "Backoff" => Woken = sw
<1>1. sw \in Controller
  BY DEF TypeOK, ControlTypes
<1>2. ServiceBackoff(sw) \in Controller
  BY <1>1, DataTypes
<1> QED
  BY <1>1, <1>2
  DEF Woken, ServiceBackoff, Phase, PhaseOf, AudioContextUsable, Controller, State, Resume

\* No busy answer has been counted yet.
LEMMA NoBusyYet == 0 \in 0..MaxBusyRetries
BY SwitchAssumption

-----------------------------------------------------------------------------
(* Requests. *)

\* A tune request preserves the invariant: it forgets the ensemble, keeps the
\* owners and leaves a service command in flight superseded.
LEMMA SetFreqPreserves ==
  ASSUME NEW f \in Freqs, Inductive, SetFreq(f)
  PROVE  Inductive'
<1> USE DEF Inductive, TypeOK, SetFreq, ForgetEnsemble, ForgetWork, chipVars
<1>1. TypeOK'
  <2>1. Counters'
    BY NoBusyYet DEF Counters
  <2>2. ControlTypes'
    BY RequestTypes DEF ControlTypes
  <2>3. OwnerTypes' /\ ListTypes' /\ ChipTypes'
    BY DEF OwnerTypes, ListTypes, ChipTypes
  <2> QED
    BY <2>1, <2>2, <2>3
<1>2. CommandAccounted'
  BY DEF Counters, ControlTypes, Controller, Commands, CommandAccounted, CommandIsCurrent,
         RequestSwitch, Fresh
<1>3. CommandSafe'
  BY DEF ControlTypes, Controller, CommandSafe, CommandAccounted, CommandIsCurrent, Quietened,
         RequestSwitch, Fresh
<1>4. PhaseSafe'
  BY DEF RequestSwitch, Fresh, PhaseSafe, SafeIn, Phase, PhaseOf, AudioContextUsable
<1>5. TunePendingOnce'
  BY DEF Counters, ControlTypes, Commands, CommandAccounted, TunePendingOnce, OfThisTune
<1>6. PlayingAsRequested' /\ OwnershipReconciled'
  BY DEF PlayingAsRequested, OwnershipReconciled
<1> QED
  BY <1>1, <1>2, <1>3, <1>4, <1>5, <1>6

\* A service request preserves the invariant: a service command in flight is
\* superseded and ServiceStart is withdrawn.
LEMMA SetServicePreserves ==
  ASSUME NEW s \in Services, Inductive, SetService(s)
  PROVE  Inductive'
<1> USE DEF Inductive, TypeOK, SetService, healthVars, listVars, chipVars
<1>1. TypeOK'
  <2>1. Counters'
    BY DEF Counters
  <2>2. ControlTypes'
    BY RequestTypes DEF ControlTypes
  <2>3. OwnerTypes' /\ ListTypes' /\ ChipTypes'
    BY DEF OwnerTypes, ListTypes, ChipTypes
  <2> QED
    BY <2>1, <2>2, <2>3
<1>2. CommandAccounted'
  BY DEF Counters, ControlTypes, Controller, Commands, CommandAccounted, CommandIsCurrent,
         RequestSwitch, Fresh
<1>3. CommandSafe'
  BY DEF ControlTypes, Controller, CommandSafe, CommandAccounted, CommandIsCurrent, Quietened,
         RequestSwitch, Fresh, OfThisTune
<1>4. PhaseSafe'
  BY DEF RequestSwitch, Fresh, PhaseSafe, SafeIn, Phase, PhaseOf, AudioContextUsable
<1>5. TunePendingOnce' /\ PlayingAsRequested' /\ OwnershipReconciled'
  BY DEF TunePendingOnce, OfThisTune, PlayingAsRequested, OwnershipReconciled
<1> QED
  BY <1>1, <1>2, <1>3, <1>4, <1>5

\* The cold recovery preserves the invariant: nothing runs and nothing is owned.
LEMMA RecoverPreserves ==
  ASSUME Inductive, Recover
  PROVE  Inductive'
<1> USE DEF Inductive, TypeOK, Recover, ForgetEnsemble, ForgetWork, NoCmd
<1>1. TypeOK'
  <2>1. Counters'
    BY NoBusyYet DEF Counters
  <2>2. sw' \in Controller
    <3>1. ResetController(sw) \in Controller
      BY RequestTypes DEF ControlTypes
    <3> QED
      BY <3>1, RequestTypes
  <2>3. ControlTypes'
    BY <2>2 DEF ControlTypes, Commands
  <2>4. OwnerTypes' /\ ListTypes' /\ ChipTypes'
    BY DEF OwnerTypes, ListTypes, ChipTypes, Tuner
  <2> QED
    BY <2>1, <2>3, <2>4
<1>2. CommandAccounted'
  BY DEF Counters, ControlTypes, Controller, CommandAccounted, RequestSwitch,
         ResetController, Fresh, ServiceOps
<1>3. CommandSafe' /\ TunePendingOnce' /\ PlayingAsRequested'
  BY DEF CommandSafe, TunePendingOnce, PlayingAsRequested, ServiceOps, TuneOps
<1>4. PhaseSafe'
  BY DEF RequestSwitch, Fresh, PhaseSafe, SafeIn, Phase, PhaseOf, AudioContextUsable
<1>5. OwnershipReconciled'
  BY SwitchAssumption DEF OwnershipReconciled, Streams
<1> QED
  BY <1>1, <1>2, <1>3, <1>4, <1>5

-----------------------------------------------------------------------------
(* Time and the tuner. *)

\* The end of a settle or retry interval touches only the flag "waiting".
LEMMA ElapsePreserves ==
  ASSUME Inductive, Elapse
  PROVE  Inductive'
<1> USE DEF Inductive, TypeOK, Elapse, requestVars, ownerVars, healthVars, listVars, chipVars
<1>1. /\ sw' \in Controller
      /\ sw'.state = sw.state /\ sw'.resume = sw.resume
      /\ sw'.requestId = sw.requestId /\ sw'.commandRequestId = sw.commandRequestId
  BY DEF ControlTypes, Controller
<1>2. TypeOK'
  BY <1>1 DEF Counters, ControlTypes, OwnerTypes, ListTypes, ChipTypes
<1>3. CommandAccounted' /\ CommandSafe' /\ TunePendingOnce'
  BY <1>1 DEF CommandAccounted, CommandSafe, TunePendingOnce, CommandIsCurrent, OfThisTune,
              Quietened
<1>4. PhaseSafe'
  BY <1>1 DEF PhaseSafe, SafeIn, Phase, PhaseOf, Quietened
<1>5. PlayingAsRequested' /\ OwnershipReconciled'
  BY DEF PlayingAsRequested, OwnershipReconciled
<1> QED
  BY <1>2, <1>3, <1>4, <1>5

\* The other timers and the tuner's own progress touch none of the records the
\* invariant relates.
LEMMA EnvironmentPreserves ==
  ASSUME Inductive, TuneRetryElapse \/ SignalDue \/ TunerSettles \/ PollStatus
  PROVE  Inductive'
<1> USE DEF Inductive, TypeOK, TuneRetryElapse, SignalDue, TunerSettles, PollStatus,
            requestVars, ownerVars, healthVars, listVars, chipVars
<1>1. tuner' \in Tuner /\ tuner'.running = tuner.running
  BY DEF ChipTypes, Tuner
<1>2. TypeOK'
  <2>1. Counters' /\ OwnerTypes' /\ ListTypes'
    BY DEF Counters, OwnerTypes, ListTypes
  <2>2. ControlTypes' /\ ChipTypes'
    BY <1>1 DEF ControlTypes, ChipTypes
  <2> QED
    BY <2>1, <2>2
<1>3. CommandAccounted' /\ CommandSafe' /\ TunePendingOnce'
  BY DEF CommandAccounted, CommandSafe, TunePendingOnce, CommandIsCurrent, OfThisTune,
         Quietened
<1>4. PhaseSafe'
  BY DEF PhaseSafe, SafeIn, Phase, PhaseOf, Quietened
<1>5. PlayingAsRequested' /\ OwnershipReconciled'
  BY <1>1 DEF PlayingAsRequested, OwnershipReconciled
<1> QED
  BY <1>2, <1>3, <1>4, <1>5

-----------------------------------------------------------------------------
(* One foreground pass. *)

\* A pass that issues service command op does so from the state of that name,
\* and the command is the one the controller then waits for.
LEMMA IssueFacts ==
  ASSUME Inductive, NEW op \in ServiceOps, NEW target \in Services \cup {None},
         IssueService(op, target, WaitOf(op))
  PROVE  /\ TypeOK'
         /\ Phase = op /\ Phase' = WaitOf(op)
         /\ CommandAccounted' /\ TunePendingOnce'
         /\ PlayingAsRequested' /\ OwnershipReconciled'
         /\ target \in Services
         /\ cmd'.op = op /\ cmd'.target = target /\ OfThisTune'
<1> USE DEF Inductive, TypeOK, IssueService, requestVars, ownerVars, healthVars, listVars,
            chipVars
<1>1. WaitOf(op) \in State /\ WaitOf(op) # "Backoff"
  BY DEF ServiceOps, WaitOf, State
<1>2. BindCommand(Woken) \in Controller
  BY WokenFacts, DataTypes
<1>3. sw' \in Controller
  BY <1>1, <1>2, MoveTypes
<1>4. /\ sw'.state = WaitOf(op)
      /\ sw'.requestId = sw.requestId /\ sw'.commandRequestId = sw.requestId
  BY WokenFacts, <1>2 DEF Controller, BindCommand
<1>5. cmd' = [op |-> op, target |-> target, gen |-> generation] /\ cmd' \in Commands
  BY DEF Command, Commands, Counters
<1>6. Counters' /\ OwnerTypes' /\ ListTypes' /\ ChipTypes'
  BY DEF Counters, OwnerTypes, ListTypes, ChipTypes
<1>7. ControlTypes'
  BY <1>3, <1>5 DEF ControlTypes
<1>8. Phase = op /\ Phase' = WaitOf(op)
  BY <1>1, <1>4, WokenFacts DEF ServiceOps, Phase, PhaseOf
<1>9. CommandAccounted'
  BY <1>3, <1>4, <1>5 DEF CommandAccounted, CommandIsCurrent, OfThisTune, Controller, Counters
<1>10. TunePendingOnce'
  BY <1>5 DEF TunePendingOnce, ServiceOps, TuneOps
<1>11. PlayingAsRequested' /\ OwnershipReconciled' /\ OfThisTune'
  BY <1>5 DEF PlayingAsRequested, OwnershipReconciled, OfThisTune
<1> QED
  BY <1>5, <1>6, <1>7, <1>8, <1>9, <1>10, <1>11

\* A pass that issues a service command preserves the invariant.
LEMMA ServicePassPreserves ==
  ASSUME Inductive, PassStopData \/ PassStopAudio \/ PassStartAudio \/ PassStartData
  PROVE  Inductive'
<1> USE DEF Inductive, TypeOK
<1>1. CASE PassStopData
  <2>1. IssueService("StopData", data, WaitOf("StopData")) /\ data \in Services \cup {None}
    BY <1>1 DEF PassStopData, WaitOf, OwnerTypes
  <2>2. UNCHANGED <<active, data, requested, serviceReq, tuneReq>>
    BY <2>1 DEF IssueService, ownerVars, requestVars
  <2>3. CommandSafe'
    BY <2>1, <2>2, IssueFacts DEF ServiceOps, CommandSafe
  <2>4. PhaseSafe'
    BY <2>1, <2>2, IssueFacts DEF ServiceOps, PhaseSafe, SafeIn, Phase, WaitOf, AudioContextUsable
  <2> QED
    BY <2>1, <2>3, <2>4, IssueFacts DEF ServiceOps
<1>2. CASE PassStopAudio
  <2>1. IssueService("StopAudio", active, WaitOf("StopAudio")) /\ active \in Services \cup {None}
    BY <1>2 DEF PassStopAudio, WaitOf, OwnerTypes
  <2>2. UNCHANGED <<active, data, requested, serviceReq, tuneReq>>
    BY <2>1 DEF IssueService, ownerVars, requestVars
  <2>3. Phase = "StopAudio" /\ data = None
    BY <2>1, IssueFacts DEF ServiceOps, PhaseSafe, SafeIn, Phase
  <2>4. CommandSafe'
    BY <2>1, <2>2, <2>3, IssueFacts DEF ServiceOps, CommandSafe
  <2>5. PhaseSafe'
    BY <2>1, <2>2, <2>3, IssueFacts
    DEF ServiceOps, PhaseSafe, SafeIn, Phase, WaitOf, AudioContextUsable
  <2> QED
    BY <2>1, <2>4, <2>5, IssueFacts DEF ServiceOps
<1>3. CASE PassStartAudio
  <2>1. /\ IssueService("StartAudio", requested, WaitOf("StartAudio"))
        /\ requested \in Services \cup {None}
    BY <1>3 DEF PassStartAudio, WaitOf, ControlTypes
  <2>2. UNCHANGED <<active, data, requested, serviceReq, tuneReq>>
    BY <2>1 DEF IssueService, ownerVars, requestVars
  <2>3. Phase = "StartAudio" /\ Quietened /\ tuneReq = FALSE
    BY <2>1, IssueFacts DEF ServiceOps, PhaseSafe, SafeIn, Phase
  <2>4. CommandSafe'
    BY <2>1, <2>2, <2>3, IssueFacts DEF ServiceOps, CommandSafe, Quietened
  <2>5. PhaseSafe'
    BY <2>1, <2>2, <2>3, IssueFacts
    DEF ServiceOps, PhaseSafe, SafeIn, Phase, WaitOf, AudioContextUsable, Quietened
  <2> QED
    BY <2>1, <2>4, <2>5, IssueFacts DEF ServiceOps
<1>4. CASE PassStartData
  <2>1. /\ IssueService("StartData", dataTarget, WaitOf("StartData"))
        /\ dataTarget \in Services \cup {None}
    BY <1>4 DEF PassStartData, WaitOf, OwnerTypes
  <2>2. UNCHANGED <<active, data, dataTarget, requested, serviceReq, tuneReq>>
    BY <2>1 DEF IssueService, ownerVars, requestVars
  <2>3. Phase = "StartData" /\ data = None /\ dataTarget = active
    BY <2>1, IssueFacts DEF ServiceOps, PhaseSafe, SafeIn, Phase
  <2>4. CommandSafe'
    BY <2>1, <2>2, <2>3, IssueFacts DEF ServiceOps, CommandSafe
  <2>5. PhaseSafe'
    BY <2>1, <2>2, <2>3, IssueFacts
    DEF ServiceOps, PhaseSafe, SafeIn, Phase, WaitOf, AudioContextUsable
  <2> QED
    BY <2>1, <2>4, <2>5, IssueFacts DEF ServiceOps
<1> QED
  BY <1>1, <1>2, <1>3, <1>4

\* The switch statement gives a controller that serves the same request, in a
\* state whose assumptions hold.
LEMMA MovedFacts ==
  ASSUME Inductive, NEW found \in BOOLEAN, Quiet(found)
  PROVE  /\ Moved(found) \in Controller
         /\ Moved(found).requestId = sw.requestId
         /\ Moved(found).commandRequestId = sw.commandRequestId
         /\ SafeIn(Moved(found), dataTarget')
<1> USE DEF Inductive, TypeOK
<1> DEFINE w == Woken
           m == Moved(found)
<1>1. /\ w \in Controller /\ w.requestId = sw.requestId
      /\ w.commandRequestId = sw.commandRequestId
      /\ \/ w.state = Phase
         \/ w.state = "Backoff" /\ w = sw
         \/ w.state = "Failed"
         \/ w.state = "ResolveData" /\ AudioContextUsable(Phase)
  BY WokenFacts
<1>2. /\ QuietPass
      /\ dataTarget' = IF w.state = "ResolveData" /\ m.state = "StartData"
                       THEN active ELSE dataTarget
  BY DEF Quiet
<1>3. CASE w.state = "RequestSwitch"
  <2>1. PICK s \in State : s = DispatchRequest(data # None, active # None, tuneReq, serviceReq)
    BY DEF DispatchRequest, State
  <2>2. m = [w EXCEPT !.state = s]
    BY <1>3, <2>1 DEF Moved
  <2>3. SafeIn(m, dataTarget')
    BY <1>1, <1>2, <1>3, <2>1, <2>2
    DEF SafeIn, PhaseOf, DispatchRequest, Quietened, AudioContextUsable, Controller, State
  <2> QED
    BY <1>1, <2>2, <2>3 DEF Controller
<1>4. CASE w.state = "StopData" \/ w.state = "StopAudio" \/ w.state = "StartAudio"
  <2>1. /\ Phase = w.state
        /\ w.state = "StopData" => data = None
        /\ w.state = "StopAudio" => Quietened
        /\ w.state = "StartAudio" => Quietened
    BY <1>1, <1>2, <1>4 DEF QuietPass, PhaseSafe, SafeIn, Phase, Quietened
  <2>2. m = IF w.state = "StopData" THEN [w EXCEPT !.state = "StopAudio"]
            ELSE IF w.state = "StopAudio" THEN Settle(w, "ServiceSettle")
            ELSE [w EXCEPT !.state = "Idle"]
    BY <1>4 DEF Moved
  <2>3. /\ m \in Controller /\ m.requestId = sw.requestId
        /\ m.commandRequestId = sw.commandRequestId
        /\ m.state = IF w.state = "StopData" THEN "StopAudio"
                     ELSE IF w.state = "StopAudio" THEN "ServiceSettle" ELSE "Idle"
    BY <1>1, <2>2 DEF Controller, State, Settle
  <2>4. SafeIn(m, dataTarget')
    BY <1>4, <2>1, <2>3 DEF SafeIn, PhaseOf, AudioContextUsable, Quietened
  <2> QED
    BY <2>3, <2>4
<1>5. CASE w.state = "ServiceSettle" /\ ~w.waiting
  <2>1. Phase = "ServiceSettle" /\ Quietened
    BY <1>1, <1>5 DEF PhaseSafe, SafeIn, Phase
  <2>2. m = [w EXCEPT !.state = IF serviceReq /\ ~tuneReq THEN "StartAudio" ELSE "Idle"]
    BY <1>5 DEF Moved
  <2>3. /\ m \in Controller /\ m.requestId = sw.requestId
        /\ m.commandRequestId = sw.commandRequestId
        /\ m.state = IF serviceReq /\ ~tuneReq THEN "StartAudio" ELSE "Idle"
    BY <1>1, <2>2 DEF Controller, State
  <2>4. SafeIn(m, dataTarget')
    BY <2>1, <2>3 DEF SafeIn, PhaseOf, AudioContextUsable
  <2> QED
    BY <2>3, <2>4
<1>6. CASE w.state = "AudioSettle" /\ ~w.waiting
  <2>1. m = [w EXCEPT !.state = "ResolveData"]
    BY <1>6 DEF Moved
  <2>2. /\ m \in Controller /\ m.requestId = sw.requestId
        /\ m.commandRequestId = sw.commandRequestId /\ m.state = "ResolveData"
    BY <1>1, <2>1 DEF Controller, State
  <2>3. SafeIn(m, dataTarget')
    BY <1>1, <1>6, <2>2 DEF PhaseSafe, SafeIn, Phase, PhaseOf, AudioContextUsable
  <2> QED
    BY <2>2, <2>3
<1>7. CASE w.state = "ResolveData"
  <2>1. AudioContextUsable(Phase) /\ active # None
    BY <1>1, <1>7 DEF PhaseSafe, SafeIn, Phase, AudioContextUsable
  <2>2. m = Resolved(w, found)
    BY <1>7 DEF Moved
  <2>3. /\ m \in Controller /\ m.requestId = sw.requestId
        /\ m.commandRequestId = sw.commandRequestId
        /\ m.state \in {"ResolveData", "Ready", "StartData"}
        /\ m.state = "StartData" => data = None
    <3>1. CASE untyped # {}
      BY <1>1, <1>7, <2>1, <2>2, <3>1 DEF Resolved
    <3>2. CASE untyped = {} /\ data = None /\ found
      <4>1. m = [w EXCEPT !.state = "StartData"]
        BY <2>1, <2>2, <3>2 DEF Resolved
      <4> QED
        BY <1>1, <3>2, <4>1 DEF Controller, State
    <3>3. CASE untyped = {} /\ ~(data = None /\ found)
      <4>1. \/ m = [w EXCEPT !.state = "Ready", !.slsContextValid = TRUE]
            \/ m = [w EXCEPT !.state = "Ready", !.slsContextValid = TRUE,
                            !.dataEvaluationRequested = FALSE]
        BY <2>1, <2>2, <3>3 DEF Resolved
      <4> QED
        BY <1>1, <4>1 DEF Controller, State
    <3> QED
      BY <3>1, <3>2, <3>3
  <2>4. SafeIn(m, dataTarget')
    BY <1>2, <1>7, <2>1, <2>3 DEF PhaseSafe, SafeIn, Phase, PhaseOf, AudioContextUsable
  <2> QED
    BY <2>3, <2>4
<1>8. CASE /\ w.state \notin {"RequestSwitch", "StopData", "StopAudio", "StartAudio", "ResolveData"}
           /\ ~(w.state \in {"ServiceSettle", "AudioSettle"} /\ ~w.waiting)
  <2>1. m = w
    BY <1>8 DEF Moved
  <2>2. dataTarget' = dataTarget
    BY <1>2, <1>8
  <2>3. PhaseOf(w) \in {Phase, "Failed"}
    BY <1>1, <1>8 DEF ControlTypes, Controller, Resume, Phase, PhaseOf
  <2>4. SafeIn(w, dataTarget)
    BY <2>3 DEF PhaseSafe, SafeIn, Phase, AudioContextUsable
  <2> QED
    BY <1>1, <2>1, <2>2, <2>4
<1> QED
  BY <1>3, <1>4, <1>5, <1>6, <1>7, <1>8

\* A pass that issues no service command preserves the invariant.
LEMMA QuietPassPreserves ==
  ASSUME Inductive, NEW found \in BOOLEAN,
         \/ PassTune
         \/ PassTuneStatus(found) \/ PassSignal(found) \/ PassServiceList(found)
         \/ PassServiceType(found) \/ PassMetadata(found) \/ PassNothing(found)
  PROVE  Inductive'
<1> USE DEF Inductive, TypeOK, healthVars, chipVars
<1> DEFINE Common(f) ==
      /\ Quiet(f) /\ cmd = NoCmd
      /\ UNCHANGED <<reqFreq, tuneWait, busyRetries, serviceReq, requested, generation,
                     active, data, serviceStart, waitingStc, healthVars, chipVars>>
      /\ UNCHANGED <<lock, listReady, list, untyped>>
      /\ signalDue' \in BOOLEAN /\ listDue' \in BOOLEAN /\ stcPending' \in BOOLEAN
<1>1. ASSUME NEW f \in BOOLEAN, Common(f), ControlTypes', CommandAccounted', CommandSafe',
             PhaseSafe', TunePendingOnce'
      PROVE  Inductive'
  <2>1. Counters' /\ ChipTypes' /\ ListTypes'
    BY <1>1 DEF Counters, ChipTypes, ListTypes
  <2>2. dataTarget' \in Services \cup {None}
    BY <1>1 DEF Quiet, OwnerTypes
  <2>3. OwnerTypes'
    BY <1>1, <2>2 DEF OwnerTypes
  <2>4. PlayingAsRequested' /\ OwnershipReconciled'
    BY <1>1 DEF PlayingAsRequested, OwnershipReconciled
  <2> QED
    BY <1>1, <2>1, <2>3, <2>4
<1>2. CASE PassTune
  <2>1. Common(FALSE)
    BY <1>2 DEF PassTune, Quiet, QuietPass, Free, OwnerTypes, ListTypes, listVars
  <2>2. /\ Moved(FALSE) \in Controller /\ Moved(FALSE).requestId = sw.requestId
        /\ Moved(FALSE).commandRequestId = sw.commandRequestId
        /\ SafeIn(Moved(FALSE), dataTarget')
    BY <2>1, MovedFacts
  <2>3. Quietened
    BY <1>2, <2>2 DEF PassTune, TuneComesFirst, SafeIn, PhaseOf
  <2>4. /\ sw' \in Controller /\ sw'.state = "WaitTune"
        /\ sw'.requestId = sw.requestId /\ sw'.commandRequestId = sw.commandRequestId
    BY <1>2, <2>2 DEF PassTune, Controller, State
  <2>5. cmd' = [op |-> "Tune", target |-> reqFreq, gen |-> generation] /\ cmd' \in Commands
    BY <1>2 DEF PassTune, Command, Commands, Counters, ControlTypes, TuneOps
  <2>6. ControlTypes'
    BY <1>2, <2>1, <2>4, <2>5 DEF PassTune, ControlTypes
  <2>7. CommandAccounted'
    BY <2>1, <2>4, <2>5 DEF CommandAccounted, Counters, ServiceOps
  <2>8. CommandSafe'
    BY <2>1, <2>3, <2>5 DEF CommandSafe, ServiceOps, Quietened, ControlTypes
  <2>9. PhaseSafe' /\ TunePendingOnce'
    BY <1>2, <2>1, <2>4 DEF PassTune, PhaseSafe, SafeIn, PhaseOf, AudioContextUsable,
                            TunePendingOnce
  <2> QED
    BY <1>1, <2>1, <2>6, <2>7, <2>8, <2>9
<1>3. ASSUME Common(found), sw' = Moved(found), tuneReq' = tuneReq,
             \/ UNCHANGED cmd
             \/ \E op \in Background : cmd' = Command(op, None)
             \/ cmd' = Command("TuneStatus", None) /\ waitingStc
      PROVE  Inductive'
  <2>1. /\ sw' \in Controller /\ sw'.requestId = sw.requestId
        /\ sw'.commandRequestId = sw.commandRequestId
        /\ SafeIn(sw', dataTarget')
    BY <1>3, MovedFacts
  <2>2. /\ cmd' \in Commands /\ cmd'.op \notin ServiceOps \cup {"Tune"}
        /\ cmd'.gen <= generation'
        /\ cmd'.op \in TuneOps => ~tuneReq
    BY <1>3 DEF NoCmd, Command, Commands, Background, ServiceOps, TuneOps, Counters,
                CommandAccounted, TunePendingOnce
  <2>3. ControlTypes'
    BY <1>3, <2>1, <2>2 DEF ControlTypes
  <2>4. CommandAccounted' /\ CommandSafe'
    BY <1>3, <2>1, <2>2 DEF CommandAccounted, CommandSafe, ServiceOps
  <2>5. PhaseSafe' /\ TunePendingOnce'
    BY <1>3, <2>1, <2>2 DEF PhaseSafe, SafeIn, Quietened, TunePendingOnce
  <2> QED
    BY <1>1, <1>3, <2>3, <2>4, <2>5
<1>4. CASE PassTuneStatus(found)
  <2>1. Common(found)
    BY <1>4 DEF PassTuneStatus, Quiet, QuietPass, Free, ListTypes, listVars
  <2> QED
    BY <1>3, <1>4, <2>1 DEF PassTuneStatus
<1>5. CASE PassSignal(found) \/ PassServiceList(found) \/ PassServiceType(found)
           \/ PassMetadata(found)
  <2>1. PICK op \in Background : InBackground(found, op)
    BY <1>5 DEF PassSignal, PassServiceList, PassServiceType, PassMetadata, Background
  <2>2. signalDue' \in BOOLEAN /\ listDue' \in BOOLEAN
    BY <1>5 DEF PassSignal, PassServiceList, PassServiceType, PassMetadata, ListTypes
  <2>3. Common(found)
    BY <2>1, <2>2 DEF InBackground, Quiet, QuietPass, Free, OwnerTypes
  <2> QED
    BY <1>3, <2>1, <2>3 DEF InBackground
<1>6. CASE PassNothing(found)
  <2>1. Common(found)
    BY <1>6 DEF PassNothing, Quiet, QuietPass, Free, ListTypes, listVars, OwnerTypes
  <2> QED
    BY <1>3, <1>6, <2>1 DEF PassNothing
<1> QED
  BY <1>2, <1>4, <1>5, <1>6

-----------------------------------------------------------------------------
(* The end of a command. *)

\* A command that succeeds has been carried out, and in any case nothing but
\* the command in flight happens to the tuner.
LEMMA TunerObeys ==
  ASSUME NEW r \in Results, TunerAnswers(r)
  PROVE  /\ tuner' \in {tuner, CarriedOut} /\ (r = "Ok" => tuner' = CarriedOut)
         /\ cmd.op \in ServiceOps =>
              lost' = IF r \in Timeouts THEN lost \cup {Stream(cmd)}
                      ELSE IF r \in {"Ok", "NotAvailable"} THEN lost \ {Stream(cmd)}
                      ELSE lost
<1>1. tuner' \in {tuner, CarriedOut} /\ (r = "Ok" => tuner' = CarriedOut)
  BY DEF TunerAnswers, Results, Errors, Timeouts
<1>2. ASSUME cmd.op \in ServiceOps
      PROVE  lost' = IF r \in Timeouts THEN lost \cup {Stream(cmd)}
                     ELSE IF r \in {"Ok", "NotAvailable"} THEN lost \ {Stream(cmd)}
                     ELSE lost
  BY <1>2 DEF TunerAnswers, Timeouts, ServiceOps
<1> QED
  BY <1>1, <1>2

\* What the answer to a service command says about the stream it names: an Ok or
\* a NotAvailable settles it, a timeout leaves it open, and no other stream is
\* touched.
LEMMA StreamAfterAnswer ==
  ASSUME Inductive, NEW r \in Results, TunerAnswers(r), cmd.op \in ServiceOps
  PROVE  /\ Stream(cmd) \in Streams /\ tuner' \in Tuner
         /\ r = "Ok" =>
              /\ lost' = lost \ {Stream(cmd)}
              /\ tuner'.running = IF cmd.op \in {"StartAudio", "StartData"}
                                  THEN tuner.running \cup {Stream(cmd)}
                                  ELSE tuner.running \ {Stream(cmd)}
         /\ r = "NotAvailable" =>
              /\ lost' = lost \ {Stream(cmd)}
              /\ cmd.op \in {"StopAudio", "StopData"}
              /\ tuner'.running = tuner.running /\ Stream(cmd) \notin tuner.running
         /\ r \in {"TuneBusy", "DeviceError"} =>
              lost' = lost /\ tuner'.running = tuner.running
         /\ r \in Timeouts =>
              /\ lost' = lost \cup {Stream(cmd)}
              /\ \A st \in Streams \ {Stream(cmd)} :
                   st \in tuner'.running <=> st \in tuner.running
<1> USE DEF Inductive, TypeOK, ChipTypes
<1>1. cmd.target \in Services /\ Stream(cmd) \in Streams
  BY DEF CommandSafe, Stream, Streams, Kinds
<1>2. CarriedOut = IF cmd.op \in {"StartAudio", "StartData"}
                   THEN [tuner EXCEPT !.running = @ \cup {Stream(cmd)}]
                   ELSE [tuner EXCEPT !.running = @ \ {Stream(cmd)}]
  BY DEF CarriedOut, ServiceOps
<1>3. /\ CarriedOut \in Tuner
      /\ CarriedOut.running = IF cmd.op \in {"StartAudio", "StartData"}
                              THEN tuner.running \cup {Stream(cmd)}
                              ELSE tuner.running \ {Stream(cmd)}
  BY <1>1, <1>2 DEF Tuner
<1>4. CASE r = "Ok"
  <2>1. tuner' = CarriedOut
    BY <1>4, TunerObeys
  <2>2. lost' = lost \ {Stream(cmd)}
    BY <1>4, TunerObeys DEF Timeouts
  <2> QED
    BY <1>1, <1>3, <1>4, <2>1, <2>2 DEF Timeouts
<1>5. CASE r = "NotAvailable"
  BY <1>1, <1>5 DEF TunerAnswers, Answerable, Timeouts, Errors
<1>6. CASE r \in {"TuneBusy", "DeviceError"}
  BY <1>1, <1>6 DEF TunerAnswers, Timeouts, Errors
<1>7. CASE r \in Timeouts
  <2>1. tuner' \in {tuner, CarriedOut} /\ lost' = lost \cup {Stream(cmd)}
    BY <1>7, TunerObeys
  <2>2. CASE tuner' = tuner
    BY <1>1, <1>7, <2>1, <2>2 DEF Timeouts
  <2>3. CASE tuner' = CarriedOut
    BY <1>1, <1>3, <1>7, <2>1, <2>3 DEF Timeouts
  <2> QED
    BY <2>1, <2>2, <2>3
<1> QED
  BY <1>4, <1>5, <1>6, <1>7 DEF Results, Errors

\* A tune that is carried out silences the tuner, and no other command of the
\* scheduler starts or stops a service.
LEMMA TunerAfterOther ==
  ASSUME Inductive, NEW r \in Results, TunerAnswers(r), cmd.op \notin ServiceOps
  PROVE  /\ tuner' \in Tuner /\ lost' \in {lost, {}}
         /\ cmd.op # "Tune" => lost' = lost /\ tuner'.running = tuner.running
         /\ tuner'.running \in {tuner.running, {}}
         /\ lost' = lost \/ tuner'.running = {}
<1> USE DEF Inductive, TypeOK, ChipTypes
<1>1. /\ CarriedOut \in Tuner
      /\ CarriedOut.running = IF cmd.op = "Tune" THEN {} ELSE tuner.running
  <2>1. CASE cmd.op = "Tune"
    <3>1. cmd.target \in Freqs
      BY <2>1 DEF CommandSafe
    <3>2. CarriedOut = [freq |-> cmd.target, phase |-> "tuning", running |-> {}]
      BY <2>1 DEF CarriedOut
    <3> QED
      BY <2>1, <3>1, <3>2 DEF Tuner
  <2>2. CASE cmd.op = "TuneStatus"
    <3>1. CarriedOut = [tuner EXCEPT !.phase = IF @ = "done" THEN "idle" ELSE @]
      BY <2>2 DEF CarriedOut
    <3> QED
      BY <2>2, <3>1 DEF Tuner
  <2>3. CASE cmd.op \notin {"Tune", "TuneStatus"}
    <3>1. CarriedOut = tuner
      BY <2>3 DEF CarriedOut, ServiceOps
    <3> QED
      BY <2>3, <3>1
  <2> QED
    BY <2>1, <2>2, <2>3
<1>2. tuner' \in {tuner, CarriedOut} /\ (r = "Ok" => tuner' = CarriedOut)
  BY TunerObeys
<1>3. lost' = IF cmd.op = "Tune" /\ r = "Ok" THEN {} ELSE lost
  BY DEF TunerAnswers
<1> QED
  BY <1>1, <1>2, <1>3

\* The owner of a stream after an answer: the rule every completion follows,
\* whether its tune is current or superseded.
Owned(owner, start, stop, r) ==
  CASE cmd.op = start /\ r = "Ok" -> cmd.target
    [] cmd.op = stop /\ r \in {"Ok", "NotAvailable"} -> None
    [] OTHER -> owner

\* A completion that follows the rule keeps the driver's records in step with
\* the tuner.
LEMMA OwnershipAfter ==
  ASSUME Inductive, NEW r \in Results, TunerAnswers(r),
         active' = Owned(active, "StartAudio", "StopAudio", r),
         data' = Owned(data, "StartData", "StopData", r)
  PROVE  OwnershipReconciled'
<1> USE DEF Inductive, TypeOK
<1>1. SUFFICES ASSUME NEW k \in Kinds, NEW s \in Services, <<k, s>> \notin lost'
               PROVE  <<k, s>> \in tuner'.running <=> IF k = "audio" THEN s = active' ELSE s = data'
  BY DEF OwnershipReconciled, Streams
<1>2. /\ s # None
      /\ <<k, s>> \notin lost =>
           (<<k, s>> \in tuner.running <=> IF k = "audio" THEN s = active ELSE s = data)
  BY SwitchAssumption DEF OwnershipReconciled, Streams
<1>3. CASE cmd.op \notin ServiceOps
  <2>1. active' = active /\ data' = data
    BY <1>3 DEF Owned, ServiceOps
  <2>2. CASE cmd.op = "Tune"
    <3>1. Quietened
      BY <2>2 DEF CommandSafe
    <3> QED
      BY <1>1, <1>2, <1>3, <2>1, <3>1, TunerAfterOther DEF Quietened
  <2>3. CASE cmd.op # "Tune"
    BY <1>1, <1>2, <1>3, <2>1, <2>3, TunerAfterOther
  <2> QED
    BY <2>2, <2>3
<1>4. CASE cmd.op \in ServiceOps
  <2>1. cmd.target \in Services
    BY <1>4 DEF CommandSafe
  <2>2. Stream(cmd) = IF cmd.op \in {"StopData", "StartData"} THEN <<"data", cmd.target>>
                      ELSE <<"audio", cmd.target>>
    BY DEF Stream
  <2>3. CASE r \in {"TuneBusy", "DeviceError"}
    BY <1>1, <1>2, <1>4, <2>3, StreamAfterAnswer DEF Owned
  <2>4. CASE r \in Timeouts
    <3>1. active' = active /\ data' = data
      BY <2>4 DEF Owned, Timeouts
    <3>2. <<k, s>> \in Streams \ {Stream(cmd)} /\ <<k, s>> \notin lost
      BY <1>1, <1>4, <2>4, StreamAfterAnswer DEF Streams
    <3> QED
      BY <1>2, <1>4, <2>4, <3>1, <3>2, StreamAfterAnswer
  <2>5. CASE r = "Ok" \/ r = "NotAvailable"
    <3>1. lost' = lost \ {Stream(cmd)}
      BY <1>4, <2>5, StreamAfterAnswer
    <3>2. CASE cmd.op = "StartAudio"
      <4>1. r = "Ok" /\ Quietened /\ tuner'.running = tuner.running \cup {<<"audio", cmd.target>>}
        BY <1>4, <2>2, <2>5, <3>2, StreamAfterAnswer DEF CommandSafe
      <4>2. active' = cmd.target /\ data' = None
        BY <3>2, <4>1 DEF Owned, Quietened
      <4> QED
        BY <1>1, <1>2, <2>2, <3>1, <3>2, <4>1, <4>2 DEF Quietened, Kinds
    <3>3. CASE cmd.op = "StartData"
      <4>1. /\ r = "Ok" /\ data = None
            /\ tuner'.running = tuner.running \cup {<<"data", cmd.target>>}
        BY <1>4, <2>2, <2>5, <3>3, StreamAfterAnswer DEF CommandSafe
      <4>2. active' = active /\ data' = cmd.target
        BY <3>3, <4>1 DEF Owned
      <4> QED
        BY <1>1, <1>2, <2>2, <3>1, <3>3, <4>1, <4>2 DEF Kinds
    <3>4. CASE cmd.op = "StopAudio"
      <4>1. active = cmd.target /\ active' = None /\ data' = data
        BY <2>5, <3>4 DEF CommandSafe, Owned
      <4>2. /\ <<"audio", cmd.target>> \notin tuner'.running
            /\ <<k, s>> # <<"audio", cmd.target>> =>
                 (<<k, s>> \in tuner'.running <=> <<k, s>> \in tuner.running)
        BY <1>4, <2>2, <2>5, <3>4, StreamAfterAnswer
      <4> QED
        BY <1>1, <1>2, <2>2, <3>1, <3>4, <4>1, <4>2 DEF Kinds
    <3>5. CASE cmd.op = "StopData"
      <4>1. data = cmd.target /\ data' = None /\ active' = active
        BY <2>5, <3>5 DEF CommandSafe, Owned
      <4>2. /\ <<"data", cmd.target>> \notin tuner'.running
            /\ <<k, s>> # <<"data", cmd.target>> =>
                 (<<k, s>> \in tuner'.running <=> <<k, s>> \in tuner.running)
        BY <1>4, <2>2, <2>5, <3>5, StreamAfterAnswer
      <4> QED
        BY <1>1, <1>2, <2>2, <3>1, <3>5, <4>1, <4>2 DEF Kinds
    <3> QED
      BY <1>4, <3>2, <3>3, <3>4, <3>5 DEF ServiceOps
  <2> QED
    BY <2>3, <2>4, <2>5 DEF Results, Errors
<1> QED
  BY <1>3, <1>4

\* What is left to show of a completion.
LEMMA FinishFrame ==
  ASSUME Inductive, NEW r \in Results, Terminal(r),
         generation' = generation, busyRetries' \in 0..MaxBusyRetries,
         ControlTypes', OwnerTypes', ListTypes',
         sw'.commandRequestId = sw.commandRequestId, sw'.requestId = sw.requestId,
         waitingStc' => ~tuneReq',
         active' = Owned(active, "StartAudio", "StopAudio", r),
         data' = Owned(data, "StartData", "StopData", r),
         PhaseSafe', PlayingAsRequested'
  PROVE  Inductive'
<1> USE DEF Inductive, TypeOK
<1>1. Counters'
  BY DEF Counters, Terminal, TunerAnswers, FailuresAfter, GenuineAfter
<1>2. tuner' \in Tuner /\ lost' \subseteq Streams
  <2>1. CASE cmd.op \in ServiceOps
    <3>1. r \in Timeouts \/ r \in {"Ok", "NotAvailable", "TuneBusy", "DeviceError"}
      BY DEF Results, Errors
    <3> QED
      BY <2>1, <3>1, StreamAfterAnswer DEF Terminal, ChipTypes
  <2>2. CASE cmd.op \notin ServiceOps
    BY <2>2, TunerAfterOther DEF Terminal, ChipTypes
  <2> QED
    BY <2>1, <2>2
<1>3. ChipTypes'
  BY <1>2 DEF ChipTypes
<1>4. CommandAccounted' /\ CommandSafe' /\ TunePendingOnce'
  BY DEF Terminal, NoCmd, CommandAccounted, CommandSafe, TunePendingOnce, ServiceOps, TuneOps,
         Counters
<1>5. OwnershipReconciled'
  BY OwnershipAfter DEF Terminal
<1> QED
  BY <1>1, <1>3, <1>4, <1>5

\* A completion that stalls the transport leaves every record as it was.
LEMMA FinishStalledPreserves ==
  ASSUME Inductive, NEW r \in Results, FinishStalled(r)
  PROVE  Inductive'
<1> USE DEF Inductive, TypeOK, FinishStalled, requestVars, ownerVars, listVars
<1>1. r \in Timeouts
  BY SwitchAssumption DEF Stalls, GenuineAfter, Timeouts
<1>2. /\ active' = Owned(active, "StartAudio", "StopAudio", r)
      /\ data' = Owned(data, "StartData", "StopData", r)
  BY <1>1 DEF Owned, Timeouts
<1>3. ControlTypes' /\ ListTypes'
  BY DEF Terminal, NoCmd, ControlTypes, Commands, ListTypes
<1>4. OwnerTypes'
  BY DEF OwnerTypes, Latched
<1>5. PhaseSafe' /\ PlayingAsRequested' /\ busyRetries' \in 0..MaxBusyRetries
  BY DEF PhaseSafe, SafeIn, PhaseOf, Quietened, PlayingAsRequested, Counters
<1> QED
  BY <1>2, <1>3, <1>4, <1>5, FinishFrame DEF TunePendingOnce

\* A completion of a superseded tune reconciles the owners; ServiceStart was
\* withdrawn when the tune was superseded.
LEMMA FinishStalePreserves ==
  ASSUME Inductive, NEW r \in Results, FinishStale(r)
  PROVE  Inductive'
<1> USE DEF Inductive, TypeOK, FinishStale, requestVars, ownerVars, listVars
<1>1. /\ active' = Owned(active, "StartAudio", "StopAudio", r)
      /\ data' = Owned(data, "StartData", "StopData", r)
  BY DEF CommandSafe, Reconciled, Owned
<1>2. cmd.op \in ServiceOps => cmd.target \in Services /\ ~serviceStart /\ sw.state = "RequestSwitch"
  BY DEF CommandAccounted, CommandSafe
<1>3. active' \in Services \cup {None} /\ data' \in Services \cup {None}
  BY <1>1, <1>2 DEF Owned, OwnerTypes, ServiceOps
<1>4. ControlTypes' /\ ListTypes'
  BY DEF Terminal, NoCmd, ControlTypes, Commands, ListTypes
<1>5. OwnerTypes'
  BY <1>3 DEF OwnerTypes
<1>6. cmd.op \notin ServiceOps => active' = active /\ data' = data
  BY <1>1 DEF Owned, ServiceOps
<1>7. PhaseSafe'
  BY <1>2, <1>6 DEF PhaseSafe, SafeIn, PhaseOf, Quietened, AudioContextUsable
<1>8. PlayingAsRequested' /\ busyRetries' \in 0..MaxBusyRetries
  BY <1>2, <1>6 DEF PlayingAsRequested, Counters
<1> QED
  BY <1>1, <1>4, <1>5, <1>7, <1>8, FinishFrame DEF TunePendingOnce

\* A STOP that failed keeps the request and the phase, or ends in Failed.
LEMMA StopFailedFacts ==
  ASSUME TypeOK, NEW r \in Results, NEW resume \in Resume, StopFailed(r, resume)
  PROVE  /\ sw' \in Controller /\ stalled' \in BOOLEAN
         /\ sw'.requestId = sw.requestId /\ sw'.commandRequestId = sw.commandRequestId
         /\ \/ sw' = sw
            \/ PhaseOf(sw') \in {resume, "Failed"} /\ CommandIsCurrent(sw)
<1>1. sw \in Controller /\ stalled \in BOOLEAN
  BY DEF TypeOK, ControlTypes, OwnerTypes
<1>2. \/ sw' = sw /\ stalled' \in {stalled, TRUE}
      \/ sw' = BackoffStop(sw, resume) /\ CommandIsCurrent(sw) /\ stalled' = stalled
      \/ sw' = [sw EXCEPT !.state = "Failed"] /\ CommandIsCurrent(sw) /\ stalled' = stalled
  BY DEF StopFailed
<1>3. CASE sw' = sw /\ stalled' \in {stalled, TRUE}
  BY <1>1, <1>3
<1>4. CASE sw' = BackoffStop(sw, resume) /\ CommandIsCurrent(sw) /\ stalled' = stalled
  <2>1. sw' \in Controller
    BY <1>1, <1>4, BackoffTypes
  <2> QED
    BY <1>1, <1>4, <2>1 DEF BackoffStop, BackoffTo, Controller, PhaseOf, Resume
<1>5. CASE sw' = [sw EXCEPT !.state = "Failed"] /\ CommandIsCurrent(sw) /\ stalled' = stalled
  <2>1. sw' \in Controller /\ sw'.state = "Failed"
    BY <1>1, <1>5 DEF Controller, State
  <2> QED
    BY <1>1, <1>5, <2>1 DEF Controller, PhaseOf
<1> QED
  BY <1>2, <1>3, <1>4, <1>5

\* The slideshow STOP.
LEMMA FinishStopDataPreserves ==
  ASSUME Inductive, NEW r \in Results, FinishStopData(r)
  PROVE  Inductive'
<1> USE DEF Inductive, TypeOK, FinishStopData, Finish, requestVars, listVars
<1>1. /\ data = cmd.target /\ cmd.op = "StopData"
      /\ \/ CommandIsCurrent(sw) /\ sw.state = "WaitDataStop"
         \/ ~CommandIsCurrent(sw) /\ sw.state = "RequestSwitch"
  BY DEF CommandSafe, CommandAccounted, ServiceOps, WaitOf
<1>2. /\ active' = Owned(active, "StartAudio", "StopAudio", r)
      /\ data' = Owned(data, "StartData", "StopData", r)
  BY <1>1 DEF Owned
<1>3. /\ sw' \in Controller /\ stalled' \in BOOLEAN
      /\ sw'.requestId = sw.requestId /\ sw'.commandRequestId = sw.commandRequestId
      /\ \/ PhaseOf(sw') \in {"RequestSwitch", "WaitDataStop", "StopData", "Failed"}
         \/ PhaseOf(sw') = "StopAudio" /\ data' = None
  <2>1. CASE r \in {"Ok", "NotAvailable"}
    <3>1. CASE CommandIsCurrent(sw)
      <4>1. sw' = [sw EXCEPT !.stopRetries = 0, !.state = "StopAudio"] /\ data' = None
        BY <1>1, <2>1, <3>1 DEF IfCurrent
      <4>2. sw' \in Controller /\ sw'.state = "StopAudio"
        BY <4>1 DEF ControlTypes, Controller, State
      <4> QED
        BY <2>1, <4>1, <4>2 DEF ControlTypes, OwnerTypes, Controller, PhaseOf
    <3>2. CASE ~CommandIsCurrent(sw)
      BY <1>1, <2>1, <3>2 DEF IfCurrent, ControlTypes, OwnerTypes, PhaseOf
    <3> QED
      BY <3>1, <3>2
  <2>2. CASE r \notin {"Ok", "NotAvailable"}
    BY <1>1, <2>2, StopFailedFacts DEF Resume, PhaseOf
  <2> QED
    BY <2>1, <2>2
<1>4. ControlTypes' /\ ListTypes'
  BY <1>3 DEF Terminal, NoCmd, ControlTypes, Commands, ListTypes
<1>5. OwnerTypes'
  BY <1>2, <1>3 DEF OwnerTypes, Latched, Owned
<1>6. PhaseSafe'
  BY <1>3 DEF PhaseSafe, SafeIn, AudioContextUsable
<1>7. PlayingAsRequested' /\ busyRetries' \in 0..MaxBusyRetries
  BY DEF PlayingAsRequested, Counters
<1> QED
  BY <1>2, <1>3, <1>4, <1>5, <1>6, <1>7, FinishFrame DEF TunePendingOnce

\* The audio STOP.
LEMMA FinishStopAudioPreserves ==
  ASSUME Inductive, NEW r \in Results, FinishStopAudio(r)
  PROVE  Inductive'
<1> USE DEF Inductive, TypeOK, FinishStopAudio, Finish, requestVars, listVars
<1>1. /\ active = cmd.target /\ data = None /\ cmd.op = "StopAudio"
      /\ \/ CommandIsCurrent(sw) /\ sw.state = "WaitAudioStop"
         \/ ~CommandIsCurrent(sw) /\ sw.state = "RequestSwitch"
  BY DEF CommandSafe, CommandAccounted, ServiceOps, WaitOf
<1>2. /\ active' = Owned(active, "StartAudio", "StopAudio", r)
      /\ data' = Owned(data, "StartData", "StopData", r)
  BY <1>1 DEF Owned
<1>3. /\ sw' \in Controller /\ stalled' \in BOOLEAN
      /\ sw'.requestId = sw.requestId /\ sw'.commandRequestId = sw.commandRequestId
      /\ \/ PhaseOf(sw') \in {"RequestSwitch", "WaitAudioStop", "StopAudio", "Failed"}
         \/ PhaseOf(sw') = "ServiceSettle" /\ active' = None
  <2>1. CASE r \in {"Ok", "NotAvailable"}
    <3>1. CASE CommandIsCurrent(sw)
      <4>1. sw' = Settle([sw EXCEPT !.stopRetries = 0], "ServiceSettle") /\ active' = None
        BY <1>1, <2>1, <3>1 DEF IfCurrent
      <4>2. sw' \in Controller /\ sw'.state = "ServiceSettle"
        BY <4>1 DEF ControlTypes, Controller, State, Settle
      <4> QED
        BY <2>1, <4>1, <4>2 DEF Settle, ControlTypes, OwnerTypes, Controller, PhaseOf
    <3>2. CASE ~CommandIsCurrent(sw)
      BY <1>1, <2>1, <3>2 DEF IfCurrent, ControlTypes, OwnerTypes, PhaseOf
    <3> QED
      BY <3>1, <3>2
  <2>2. CASE r \notin {"Ok", "NotAvailable"}
    BY <1>1, <2>2, StopFailedFacts DEF Resume, PhaseOf
  <2> QED
    BY <2>1, <2>2
<1>4. ControlTypes' /\ ListTypes'
  BY <1>3 DEF Terminal, NoCmd, ControlTypes, Commands, ListTypes
<1>5. OwnerTypes'
  BY <1>1, <1>2, <1>3 DEF OwnerTypes, Latched, Owned
<1>6. PhaseSafe'
  BY <1>1, <1>3 DEF PhaseSafe, SafeIn, AudioContextUsable, Quietened
<1>7. PlayingAsRequested' /\ busyRetries' \in 0..MaxBusyRetries
  BY <1>1 DEF PlayingAsRequested, Counters, OwnerTypes
<1> QED
  BY <1>2, <1>3, <1>4, <1>5, <1>6, <1>7, FinishFrame DEF TunePendingOnce

\* The audio START: one that serves the request opens the audio context, one
\* that does not answers a superseded request, and a failure keeps trying.
LEMMA FinishStartAudioPreserves ==
  ASSUME Inductive, NEW r \in Results, FinishStartAudio(r)
  PROVE  Inductive'
<1> USE DEF Inductive, TypeOK, FinishStartAudio, Finish
<1>1. /\ Quietened /\ cmd.target \in Services /\ cmd.op = "StartAudio"
      /\ \/ /\ CommandIsCurrent(sw) /\ sw.state = "WaitAudioStart"
            /\ cmd.target = requested /\ ~tuneReq
         \/ ~CommandIsCurrent(sw) /\ sw.state = "RequestSwitch"
  BY DEF CommandSafe, CommandAccounted, ServiceOps, WaitOf, PhaseSafe, SafeIn, PhaseOf
<1>2. /\ active' = Owned(active, "StartAudio", "StopAudio", r)
      /\ data' = Owned(data, "StartData", "StopData", r)
  BY <1>1 DEF Owned
<1>3. ~serviceStart
  BY <1>1 DEF PlayingAsRequested, Quietened
<1>4. /\ sw' \in Controller
      /\ sw'.requestId = sw.requestId /\ sw'.commandRequestId = sw.commandRequestId
      /\ PhaseOf(sw') = IF ~CommandIsCurrent(sw) THEN "RequestSwitch"
                        ELSE IF r = "Ok" THEN "AudioSettle" ELSE "StartAudio"
      /\ PhaseOf(sw') = "StartAudio" => ~tuneReq
      /\ listDue' \in BOOLEAN
  <2>1. sw \in Controller /\ listDue \in BOOLEAN /\ lock \in BOOLEAN
    BY DEF ControlTypes, ListTypes
  <2>2. CASE ~CommandIsCurrent(sw)
    <3>1. sw' = sw /\ listDue' = listDue
      BY <2>2 DEF Serves, StartAudioFailed
    <3> QED
      BY <1>1, <2>1, <2>2, <3>1 DEF PhaseOf
  <2>3. CASE CommandIsCurrent(sw) /\ r = "Ok"
    <3>1. sw' = Settle([sw EXCEPT !.audioRetries = 0], "AudioSettle") /\ listDue' = listDue
      BY <1>1, <2>3 DEF Serves
    <3>2. sw' \in Controller /\ sw'.state = "AudioSettle"
      BY <2>1, <3>1 DEF Controller, State, Settle
    <3> QED
      BY <2>1, <2>3, <3>1, <3>2 DEF Controller, Settle, PhaseOf
  <2>4. CASE CommandIsCurrent(sw) /\ r # "Ok"
    <3>1. \/ sw' = BackoffAudio(sw) /\ listDue' = listDue
          \/ sw' = BackoffTo([sw EXCEPT !.audioRetries = 0], "StartAudio") /\ listDue' = lock
      BY <2>4 DEF StartAudioFailed
    <3>2. CASE sw' = BackoffAudio(sw) /\ listDue' = listDue
      <4>1. sw' \in Controller
        BY <2>1, <3>2, BackoffTypes DEF Resume
      <4> QED
        BY <1>1, <2>1, <2>4, <3>2, <4>1 DEF BackoffAudio, BackoffTo, Controller, PhaseOf
    <3>3. CASE sw' = BackoffTo([sw EXCEPT !.audioRetries = 0], "StartAudio") /\ listDue' = lock
      <4>1. [sw EXCEPT !.audioRetries = 0] \in Controller
        BY <2>1 DEF Controller
      <4>2. sw' \in Controller
        BY <3>3, <4>1, BackoffTypes DEF Resume
      <4> QED
        BY <1>1, <2>1, <2>4, <3>3, <4>2 DEF BackoffTo, Controller, PhaseOf
    <3> QED
      BY <3>1, <3>2, <3>3
  <2> QED
    BY <2>2, <2>3, <2>4
<1>5. ListTypes' /\ serviceReq' \in BOOLEAN /\ serviceStart' \in BOOLEAN
  BY <1>4 DEF ControlTypes, OwnerTypes, ListTypes
<1>6. ControlTypes'
  BY <1>4, <1>5 DEF Terminal, NoCmd, ControlTypes, Commands
<1>7. active' \in Services \cup {None} /\ stcPending' \in BOOLEAN
  BY <1>1, <1>2 DEF OwnerTypes, Owned, Latched
<1>8. OwnerTypes'
  BY <1>5, <1>7 DEF OwnerTypes
<1>9. CASE r = "Ok" /\ CommandIsCurrent(sw)
  <2>1. /\ active' = requested /\ active' # None /\ data' = None
        /\ ~serviceReq' /\ requested' = requested /\ tuneReq' = tuneReq
    BY <1>1, <1>9, SwitchAssumption DEF Serves, Quietened
  <2>2. PhaseSafe'
    BY <1>1, <1>4, <1>9, <2>1 DEF PhaseSafe, SafeIn, AudioContextUsable
  <2>3. PlayingAsRequested' /\ busyRetries' \in 0..MaxBusyRetries
    BY <2>1 DEF PlayingAsRequested, Counters
  <2> QED
    BY <1>2, <1>4, <1>5, <1>6, <1>8, <2>2, <2>3, FinishFrame DEF TunePendingOnce
<1>10. CASE ~(r = "Ok" /\ CommandIsCurrent(sw))
  <2>1. ~serviceStart' /\ serviceReq' = serviceReq
    BY <1>3, <1>10 DEF Serves, ControlTypes
  <2>2. PhaseOf(sw') = "StartAudio" => Quietened'
    BY <1>1, <1>4, <1>10 DEF Quietened, PhaseOf
  <2>3. PhaseSafe'
    BY <1>4, <1>10, <2>1, <2>2 DEF PhaseSafe, SafeIn, AudioContextUsable
  <2>4. PlayingAsRequested' /\ busyRetries' \in 0..MaxBusyRetries
    BY <2>1 DEF PlayingAsRequested, Counters
  <2> QED
    BY <1>2, <1>4, <1>5, <1>6, <1>8, <2>3, <2>4, FinishFrame DEF TunePendingOnce
<1> QED
  BY <1>9, <1>10

\* The slideshow START.
LEMMA FinishStartDataPreserves ==
  ASSUME Inductive, NEW r \in Results, FinishStartData(r)
  PROVE  Inductive'
<1> USE DEF Inductive, TypeOK, FinishStartData, Finish, requestVars, listVars
<1>1. /\ active = cmd.target /\ data = None /\ cmd.target \in Services /\ cmd.op = "StartData"
      /\ \/ /\ CommandIsCurrent(sw) /\ sw.state = "WaitDataStart" /\ dataTarget = active
            /\ AudioContextUsable(PhaseOf(sw))
         \/ ~CommandIsCurrent(sw) /\ sw.state = "RequestSwitch"
  BY DEF CommandSafe, CommandAccounted, ServiceOps, WaitOf, PhaseSafe, SafeIn, PhaseOf,
         AudioContextUsable
<1>2. /\ active' = Owned(active, "StartAudio", "StopAudio", r)
      /\ data' = Owned(data, "StartData", "StopData", r)
  BY <1>1 DEF Owned
<1>3. /\ sw' \in Controller
      /\ sw'.requestId = sw.requestId /\ sw'.commandRequestId = sw.commandRequestId
      /\ \/ PhaseOf(sw') \in {"Ready", "ResolveData", "AudioOnly"} /\ CommandIsCurrent(sw)
         \/ PhaseOf(sw') = "RequestSwitch"
  <2>1. sw \in Controller
    BY DEF ControlTypes
  <2>2. CASE ~CommandIsCurrent(sw)
    BY <1>1, <2>1, <2>2 DEF PhaseOf
  <2>3. CASE CommandIsCurrent(sw) /\ r = "Ok"
    <3>1. sw' = [sw EXCEPT !.dataRetries = 0, !.dataEvaluationRequested = FALSE,
                           !.slsContextValid = TRUE, !.state = "Ready"]
      BY <1>1, <2>3
    <3>2. sw' \in Controller
      BY <2>1, <3>1, DataTypes
    <3> QED
      BY <2>1, <2>3, <3>1, <3>2 DEF Controller, PhaseOf
  <2>4. CASE CommandIsCurrent(sw) /\ r # "Ok"
    <3>2. CASE sw' = BackoffData(sw)
      <4>1. sw' \in Controller
        BY <2>1, <3>2, BackoffTypes DEF Resume
      <4> QED
        BY <2>1, <2>4, <3>2, <4>1 DEF BackoffData, BackoffTo, Controller, PhaseOf
    <3>3. CASE sw' = DeferData(sw)
      <4>1. sw' \in Controller
        BY <2>1, <3>3, DataTypes
      <4> QED
        BY <2>1, <2>4, <3>3, <4>1 DEF DeferData, Controller, PhaseOf
    <3> QED
      BY <2>4, <3>2, <3>3
  <2> QED
    BY <2>2, <2>3, <2>4
<1>4. ControlTypes' /\ ListTypes'
  BY <1>3 DEF Terminal, NoCmd, ControlTypes, Commands, ListTypes
<1>5. data' \in {None, active} /\ stcPending' \in BOOLEAN
  BY <1>1 DEF OwnerTypes, Latched
<1>6. OwnerTypes'
  BY <1>1, <1>5 DEF OwnerTypes
<1>7. PhaseSafe'
  BY <1>1, <1>3, <1>5 DEF PhaseSafe, SafeIn, AudioContextUsable
<1>8. PlayingAsRequested' /\ busyRetries' \in 0..MaxBusyRetries
  BY DEF PlayingAsRequested, Counters
<1> QED
  BY <1>2, <1>3, <1>4, <1>6, <1>7, <1>8, FinishFrame DEF TunePendingOnce

\* A command that is not a service command never changes the owners.
LEMMA OtherFinishFrame ==
  ASSUME Inductive, NEW r \in Results, Terminal(r), cmd.op \notin ServiceOps,
         generation' = generation, busyRetries' \in 0..MaxBusyRetries,
         UNCHANGED <<reqFreq, serviceReq, requested, ownerVars, stalled>>,
         tuneReq' \in BOOLEAN, tuneWait' \in BOOLEAN, waitingStc' \in BOOLEAN,
         stcPending' = Latched(tuner'.phase),
         sw' \in Controller, sw'.requestId = sw.requestId,
         sw'.commandRequestId = sw.commandRequestId,
         ListTypes', waitingStc' => ~tuneReq', SafeIn(sw, dataTarget)', PhaseSafe
  PROVE  Inductive'
<1> USE DEF Inductive, TypeOK, ownerVars
<1>1. /\ active' = Owned(active, "StartAudio", "StopAudio", r)
      /\ data' = Owned(data, "StartData", "StopData", r)
  BY DEF Owned, ServiceOps
<1>2. ControlTypes'
  BY DEF Terminal, NoCmd, ControlTypes, Commands
<1>3. OwnerTypes'
  BY DEF OwnerTypes, Latched
<1>4. PhaseSafe' /\ PlayingAsRequested'
  BY DEF PhaseSafe, PlayingAsRequested
<1> QED
  BY <1>1, <1>2, <1>3, <1>4, FinishFrame

\* A tune that failed is issued again from RequestSwitch or ends in Failed, two
\* states that take nothing for granted.
LEMMA TuneFailedFacts ==
  ASSUME Inductive, NEW r \in Results, TuneFailed(r)
  PROVE  /\ sw' \in Controller /\ sw'.requestId = sw.requestId
         /\ sw'.commandRequestId = sw.commandRequestId
         /\ tuneReq' \in BOOLEAN /\ waitingStc' = FALSE
         /\ SafeIn(sw, dataTarget)'
<1>1. /\ sw \in Controller
      /\ \/ sw' = [sw EXCEPT !.state = "RequestSwitch"]
         \/ sw' = [sw EXCEPT !.state = "Failed"]
  BY DEF Inductive, TypeOK, ControlTypes, TuneFailed
<1>2. /\ sw' \in Controller /\ sw'.requestId = sw.requestId
      /\ sw'.commandRequestId = sw.commandRequestId
      /\ sw'.state \in {"RequestSwitch", "Failed"}
  BY <1>1 DEF Controller, State
<1>3. SafeIn(sw, dataTarget)'
  BY <1>2 DEF SafeIn, PhaseOf, AudioContextUsable
<1>4. tuneReq' \in BOOLEAN /\ waitingStc' = FALSE
  BY DEF TuneFailed, Timeouts
<1> QED
  BY <1>2, <1>3, <1>4

\* The tune.
LEMMA FinishTunePreserves ==
  ASSUME Inductive, NEW r \in Results, FinishTune(r)
  PROVE  Inductive'
<1> USE DEF FinishTune, Finish, CanRetryTune, RetryTune
<1>0. /\ Terminal(r) /\ generation' = generation /\ stcPending' = Latched(tuner'.phase)
      /\ UNCHANGED <<reqFreq, serviceReq, requested, ownerVars, stalled>>
  OBVIOUS
<1>1. /\ cmd.op = "Tune" /\ cmd.op \notin ServiceOps /\ Quietened /\ tuneReq = FALSE
      /\ PhaseSafe /\ sw \in Controller /\ TypeOK
  BY DEF Inductive, TypeOK, ControlTypes, ServiceOps, TuneOps, CommandSafe, TunePendingOnce
<1>2. ListTypes'
  BY <1>1 DEF TypeOK, ListTypes, listVars
<1>3. CASE r = "Ok"
  <2>1. UNCHANGED <<sw, tuneReq, active, data, dataTarget, requested, serviceReq>>
    BY <1>3 DEF ownerVars, TuneFailed, Timeouts
  <2>2. SafeIn(sw, dataTarget)'
    BY <1>1, <2>1 DEF PhaseSafe, SafeIn, PhaseOf, Quietened
  <2>3. waitingStc' = TRUE /\ busyRetries' \in 0..MaxBusyRetries /\ tuneWait' = FALSE
    BY <1>3, NoBusyYet
  <2> QED
    BY <1>0, <1>1, <1>2, <2>1, <2>2, <2>3, OtherFinishFrame
<1>4. CASE CanRetryTune(r)
  <2>1. sw' = [sw EXCEPT !.state = "Idle"]
    BY <1>4
  <2>2. /\ sw' \in Controller /\ sw'.requestId = sw.requestId
        /\ sw'.commandRequestId = sw.commandRequestId /\ sw'.state = "Idle"
    BY <1>1, <2>1 DEF Controller, State
  <2>3. SafeIn(sw, dataTarget)'
    BY <1>1, <2>2 DEF SafeIn, PhaseOf, AudioContextUsable, Quietened, ownerVars
  <2>4. /\ busyRetries' = busyRetries + 1 /\ tuneWait' = TRUE
        /\ tuneReq' = TRUE /\ waitingStc' = FALSE
    BY <1>4
  <2>5. busyRetries' \in 0..MaxBusyRetries
    BY <1>1, <1>4, <2>4, SwitchAssumption DEF TypeOK, Counters
  <2> QED
    BY <1>0, <1>1, <1>2, <2>2, <2>3, <2>4, <2>5, OtherFinishFrame
<1>5. CASE r # "Ok" /\ ~CanRetryTune(r)
  <2>1. TuneFailed(r) /\ UNCHANGED <<busyRetries, tuneWait>>
    BY <1>5
  <2>2. busyRetries' \in 0..MaxBusyRetries /\ tuneWait' \in BOOLEAN
    BY <1>1, <2>1 DEF TypeOK, Counters, ControlTypes
  <2> QED
    BY <1>0, <1>1, <1>2, <2>1, <2>2, TuneFailedFacts, OtherFinishFrame
<1> QED
  BY <1>3, <1>4, <1>5

\* The reading that concludes a tune.
LEMMA FinishTuneStatusPreserves ==
  ASSUME Inductive, NEW r \in Results, FinishTuneStatus(r)
  PROVE  Inductive'
<1> USE DEF FinishTuneStatus, Finish
<1>0. /\ Terminal(r) /\ generation' = generation /\ stcPending' = Latched(tuner'.phase)
      /\ UNCHANGED <<reqFreq, serviceReq, requested, ownerVars, stalled>>
  OBVIOUS
<1>1. /\ cmd.op = "TuneStatus" /\ cmd.op \notin ServiceOps /\ tuneReq = FALSE
      /\ PhaseSafe /\ sw \in Controller /\ TypeOK
  BY DEF Inductive, TypeOK, ControlTypes, ServiceOps, TuneOps, TunePendingOnce
<1>2. /\ lock' \in BOOLEAN /\ listDue' \in BOOLEAN
      /\ busyRetries' \in 0..MaxBusyRetries /\ tuneWait' \in BOOLEAN
  BY <1>1 DEF TypeOK, ListTypes, LockAfter, Counters, ControlTypes
<1>3. ListTypes'
  BY <1>1, <1>2 DEF TypeOK, ListTypes
<1>4. CASE r = "Ok"
  <2>1. sw' = [sw EXCEPT !.state = "Idle"] /\ tuneReq' = tuneReq /\ waitingStc' = FALSE
    BY <1>4
  <2>2. /\ sw' \in Controller /\ sw'.requestId = sw.requestId
        /\ sw'.commandRequestId = sw.commandRequestId /\ sw'.state = "Idle"
    BY <1>1, <2>1 DEF Controller, State
  <2>3. SafeIn(sw, dataTarget)'
    BY <1>1, <2>1, <2>2 DEF SafeIn, PhaseOf, AudioContextUsable
  <2> QED
    BY <1>0, <1>1, <1>2, <1>3, <2>1, <2>2, <2>3, OtherFinishFrame
<1>5. CASE r # "Ok"
  <2>1. TuneFailed(r)
    BY <1>5
  <2> QED
    BY <1>0, <1>1, <1>2, <1>3, <2>1, TuneFailedFacts, OtherFinishFrame
<1> QED
  BY <1>4, <1>5

\* The background readings; a new list or type may send the controller back from
\* Ready to ResolveData, within the audio context.
LEMMA FinishBackgroundPreserves ==
  ASSUME Inductive, NEW r \in Results,
         \/ FinishSignal(r) \/ FinishServiceList(r)
         \/ FinishServiceType(r) \/ FinishMetadata(r)
  PROVE  Inductive'
<1>1. PhaseSafe /\ sw \in Controller /\ TypeOK /\ (waitingStc => ~tuneReq)
  BY DEF Inductive, TypeOK, ControlTypes, TunePendingOnce
<1>2. /\ Finish(r, Background) /\ cmd.op \notin ServiceOps
      /\ UNCHANGED <<requestVars, ownerVars, waitingStc, stalled, signalDue>>
      /\ sw' \in {sw, RequestDataEvaluation(sw)}
  BY DEF FinishSignal, FinishServiceList, FinishServiceType, FinishMetadata, Finish,
         Background, ServiceOps
<1>3. ListTypes'
  <2>1. CASE FinishSignal(r)
    BY <1>1, <2>1 DEF FinishSignal, LockAfter, TypeOK, ListTypes
  <2>2. CASE FinishServiceList(r)
    BY <1>1, <2>2 DEF FinishServiceList, OnAir, TypeOK, ListTypes
  <2>3. CASE FinishServiceType(r)
    BY <1>1, <2>3 DEF FinishServiceType, TypeOK, ListTypes
  <2>4. CASE FinishMetadata(r)
    BY <1>1, <2>4 DEF FinishMetadata, TypeOK, ListTypes
  <2> QED
    BY <2>1, <2>2, <2>3, <2>4
<1>4. /\ sw' \in Controller /\ sw'.requestId = sw.requestId
      /\ sw'.commandRequestId = sw.commandRequestId
      /\ \/ PhaseOf(sw') = PhaseOf(sw)
         \/ sw.state = "Ready" /\ sw'.state = "ResolveData"
  <2>1. CASE sw' = sw
    BY <1>1, <2>1
  <2>2. CASE sw' = RequestDataEvaluation(sw)
    BY <1>1, <2>2 DEF RequestDataEvaluation, Controller, State, PhaseOf
  <2> QED
    BY <1>2, <2>1, <2>2
<1>5. SafeIn(sw, dataTarget)'
  BY <1>1, <1>2, <1>4
  DEF PhaseSafe, SafeIn, PhaseOf, AudioContextUsable, Quietened, requestVars, ownerVars
<1>6. /\ tuneReq' \in BOOLEAN /\ tuneWait' \in BOOLEAN /\ waitingStc' \in BOOLEAN
      /\ busyRetries' \in 0..MaxBusyRetries
  BY <1>1, <1>2 DEF TypeOK, ControlTypes, OwnerTypes, Counters, requestVars
<1> QED
  BY <1>1, <1>2, <1>3, <1>4, <1>5, <1>6, OtherFinishFrame DEF Finish, requestVars

-----------------------------------------------------------------------------
(* The theorems. *)

\* The inductive invariant holds in every reachable state.
THEOREM InductiveInvariant == Spec => []Inductive
<1>1. Init => Inductive
  <2> SUFFICES ASSUME Init PROVE Inductive
    OBVIOUS
  <2> USE DEF Init, NoCmd
  <2>1. Fresh("Idle", 1, 0) \in Controller
    BY DEF Fresh, Controller, State, Resume
  <2>2. Counters
    BY NoBusyYet DEF Counters
  <2>3. ControlTypes
    BY <2>1, RequestTypes DEF ControlTypes, Commands
  <2>4. OwnerTypes /\ ListTypes /\ ChipTypes
    BY DEF OwnerTypes, ListTypes, ChipTypes, Tuner
  <2>5. CommandAccounted /\ CommandSafe /\ TunePendingOnce
    BY DEF CommandAccounted, CommandSafe, TunePendingOnce, ServiceOps, TuneOps, RequestSwitch,
           Fresh
  <2>6. PhaseSafe /\ PlayingAsRequested
    BY DEF PhaseSafe, SafeIn, PhaseOf, AudioContextUsable, RequestSwitch, Fresh,
           PlayingAsRequested
  <2>7. OwnershipReconciled
    BY SwitchAssumption DEF OwnershipReconciled, Streams
  <2> QED
    BY <2>2, <2>3, <2>4, <2>5, <2>6, <2>7 DEF Inductive, TypeOK
<1>2. Inductive /\ [Next]_vars => Inductive'
  <2> SUFFICES ASSUME Inductive, [Next]_vars PROVE Inductive'
    OBVIOUS
  <2>1. CASE Request
    BY <2>1, SetFreqPreserves, SetServicePreserves DEF Request
  <2>2. CASE Recover
    BY <2>2, RecoverPreserves
  <2>3. CASE Elapse
    BY <2>3, ElapsePreserves
  <2>4. CASE TuneRetryElapse \/ SignalDue \/ TunerSettles \/ PollStatus
    BY <2>4, EnvironmentPreserves
  <2>5. CASE Pass
    BY <2>5, ServicePassPreserves, QuietPassPreserves DEF Pass
  <2>6. CASE Finished
    <3>1. PICK r \in Results : FinishOne(r)
      BY <2>6 DEF Finished
    <3> QED
      BY <3>1, FinishStalledPreserves, FinishStalePreserves, FinishStopDataPreserves,
         FinishStopAudioPreserves, FinishStartAudioPreserves, FinishStartDataPreserves,
         FinishTunePreserves, FinishTuneStatusPreserves, FinishBackgroundPreserves
      DEF FinishOne
  <2>7. CASE UNCHANGED vars
    <3> USE <2>7 DEF vars, requestVars, ownerVars, healthVars, listVars, chipVars, Inductive,
                     TypeOK
    <3>1. Counters' /\ OwnerTypes' /\ ListTypes' /\ ChipTypes'
      BY DEF Counters, OwnerTypes, ListTypes, ChipTypes
    <3>2. ControlTypes'
      BY DEF ControlTypes
    <3>3. CommandAccounted' /\ CommandSafe' /\ TunePendingOnce'
      BY DEF CommandAccounted, CommandSafe, TunePendingOnce, CommandIsCurrent, OfThisTune,
             Quietened
    <3>4. PhaseSafe' /\ PlayingAsRequested' /\ OwnershipReconciled'
      BY DEF PhaseSafe, SafeIn, PhaseOf, Quietened, PlayingAsRequested, OwnershipReconciled
    <3> QED
      BY <3>1, <3>2, <3>3, <3>4
  <2> QED
    BY <2>1, <2>2, <2>3, <2>4, <2>5, <2>6, <2>7 DEF Next
<1> QED
  BY <1>1, <1>2, PTL DEF Spec

\* Type correctness.
THEOREM TypeCorrect == Spec => []TypeOK
<1>1. Inductive => TypeOK
  BY DEF Inductive
<1> QED
  BY <1>1, InductiveInvariant, PTL

\* No tune and no audio START is ever at the tuner while the driver owns a
\* running service, whatever was requested and whatever failed.
THEOREM TeardownComesFirst == Spec => []TeardownFirst
<1>1. Inductive => TeardownFirst
  BY DEF Inductive, CommandSafe, TeardownFirst, Quietened
<1> QED
  BY <1>1, InductiveInvariant, PTL

\* The driver's records agree with the tuner on every stream that was answered.
THEOREM OwnershipIsReconciled == Spec => []OwnershipReconciled
<1>1. Inductive => OwnershipReconciled
  BY DEF Inductive
<1> QED
  BY <1>1, InductiveInvariant, PTL

\* ServiceStart is only ever set for the requested service, playing.
THEOREM PlaysAsRequested == Spec => []PlayingAsRequested
<1>1. Inductive => PlayingAsRequested
  BY DEF Inductive
<1> QED
  BY <1>1, InductiveInvariant, PTL

\* The audio context is entered only with the requested service playing.
THEOREM ContextIsUsable == Spec => []UsableContext
<1>1. Inductive => UsableContext
  BY DEF Inductive, PhaseSafe, SafeIn, PhaseOf, UsableContext, AudioContextUsable
<1> QED
  BY <1>1, InductiveInvariant, PTL
-----------------------------------------------------------------------------
(* The slideshow context: SwitchInvariant.                                   *)

\* The tests before the switch statement leave the slideshow context alone.
LEMMA WokenKeepsContext ==
  ASSUME TypeOK
  PROVE  Woken.slsContextValid = sw.slsContextValid
<1>1. sw \in Controller
  BY DEF TypeOK, ControlTypes
<1> QED
  BY <1>1 DEF Woken, ServiceBackoff, Controller

\* A step after which no audio context is left needs only its account of the
\* tune and a cause for what it tears down.
LEMMA LeavesContext ==
  ASSUME TuneTracked', TornDownForCause', ~sw'.slsContextValid, ~AudioContextUsable(Phase)'
  PROVE  ContextInvariant'
BY DEF ContextInvariant, TuneEndsFirst, ContextKept, AudioContextUsable

\* A request and a cold recovery give the context up.
LEMMA RequestLeavesContext ==
  ASSUME SwitchInvariant, Request \/ Recover
  PROVE  ContextInvariant'
<1>1. ~sw'.slsContextValid /\ sw'.state = "RequestSwitch"
  BY DEF Request, SetFreq, SetService, Recover, RequestSwitch, Fresh
<1>2. ~AudioContextUsable(Phase)'
  BY <1>1 DEF Phase, PhaseOf, AudioContextUsable
<1>3. TuneTracked'
  <2>1. CASE Recover
    BY <2>1 DEF Recover, ForgetEnsemble, ForgetWork, TuneTracked, NoCmd
  <2>2. ASSUME NEW f \in Freqs, SetFreq(f)
        PROVE  TuneTracked'
    <3>1. /\ generation \in Nat /\ generation' = generation + 1
          /\ cmd.gen \in Nat /\ cmd.gen <= generation
          /\ cmd' = cmd /\ stalled' = stalled /\ waitingStc' = FALSE
      BY <2>2 DEF SetFreq, ForgetEnsemble, ForgetWork, SwitchInvariant, ContextInvariant,
                  Inductive, TypeOK, Counters, ControlTypes, Commands, CommandAccounted
    <3>2. ~OfThisTune'
      BY <3>1 DEF OfThisTune
    <3> QED
      BY <3>1, <3>2 DEF SwitchInvariant, ContextInvariant, TuneTracked
  <2>3. ASSUME NEW s \in Services, SetService(s)
        PROVE  TuneTracked'
    BY <2>3 DEF SetService, healthVars, chipVars, SwitchInvariant, ContextInvariant, TuneTracked,
                OfThisTune
  <2> QED
    BY <2>1, <2>2, <2>3 DEF Request
<1>4. TornDownForCause'
  BY DEF Request, SetFreq, SetService, Recover, ForgetEnsemble, ForgetWork, TornDownForCause
<1> QED
  BY <1>1, <1>2, <1>3, <1>4, LeavesContext

\* So do the timers, the tuner and the poll: none of them moves the controller,
\* and the end of a tune is only ever latched by them.
LEMMA EnvironmentKeepsContext ==
  ASSUME SwitchInvariant,
         \/ Elapse \/ TuneRetryElapse \/ SignalDue \/ TunerSettles \/ PollStatus
         \/ UNCHANGED vars
  PROVE  ContextInvariant'
<1> USE DEF SwitchInvariant, ContextInvariant, Elapse, TuneRetryElapse, SignalDue,
            TunerSettles, PollStatus, vars, requestVars, ownerVars, healthVars, listVars, chipVars
<1>1. /\ sw'.state = sw.state /\ sw'.resume = sw.resume
      /\ sw'.slsContextValid = sw.slsContextValid
  BY DEF Inductive, TypeOK, ControlTypes, Controller
<1>2. tuner'.phase = tuner.phase \/ tuner'.phase = "done"
  BY DEF Inductive, TypeOK, ChipTypes, Tuner
<1>3. /\ UNCHANGED <<cmd, stalled, waitingStc, data, generation, tuneReq, serviceReq>>
      /\ stcPending => stcPending'
  OBVIOUS
<1>4. Phase' = Phase
  BY <1>1 DEF Phase, PhaseOf
<1>5. TuneTracked'
  BY <1>2, <1>3 DEF TuneTracked, OfThisTune
<1>6. TuneEndsFirst' /\ ContextKept' /\ TornDownForCause'
  BY <1>1, <1>3, <1>4 DEF TuneEndsFirst, ContextKept, TornDownForCause
<1> QED
  BY <1>5, <1>6

\* A service command is issued outside the context, but for the slideshow START,
\* which is not issued while a tune waits for its end.
LEMMA ServicePassKeepsContext ==
  ASSUME SwitchInvariant, PassStopData \/ PassStopAudio \/ PassStartAudio \/ PassStartData
  PROVE  ContextInvariant'
<1> USE DEF SwitchInvariant, ContextInvariant
<1>1. PICK op \in ServiceOps, target \in Services \cup {None} :
        IssueService(op, target, WaitOf(op))
  BY DEF PassStopData, PassStopAudio, PassStartAudio, PassStartData, WaitOf, ServiceOps,
         Inductive, TypeOK, OwnerTypes, ControlTypes
<1>2. /\ Phase = op /\ Phase' = WaitOf(op)
      /\ cmd'.op = op /\ OfThisTune'
  BY <1>1, IssueFacts
<1>3. sw'.slsContextValid = sw.slsContextValid
  <2>1. Woken \in Controller /\ Woken.slsContextValid = sw.slsContextValid
    BY WokenFacts, WokenKeepsContext DEF Inductive
  <2>2. sw' = [BindCommand(Woken) EXCEPT !.state = WaitOf(op)]
    BY <1>1 DEF IssueService
  <2> QED
    BY <2>1, <2>2 DEF BindCommand, Controller
<1>4. /\ cmd = NoCmd /\ ~stalled
      /\ UNCHANGED <<stalled, waitingStc, data, stcPending, tuner, tuneReq, serviceReq>>
  BY <1>1 DEF IssueService, Free, requestVars, ownerVars, healthVars, chipVars
<1>5. TuneTracked'
  BY <1>2, <1>4 DEF TuneTracked, NoCmd, ServiceOps
<1>6. TornDownForCause'
  BY <1>2, <1>4 DEF TornDownForCause, Teardown, WaitOf, ServiceOps
<1>7. CASE op = "StartData"
  BY <1>2, <1>3, <1>4, <1>5, <1>7, <1>6
  DEF TuneEndsFirst, ContextKept, AudioContextUsable, WaitOf
<1>8. CASE op # "StartData"
  BY <1>2, <1>3, <1>5, <1>6, <1>8, LeavesContext
  DEF ContextKept, AudioContextUsable, WaitOf, ServiceOps
<1> QED
  BY <1>7, <1>8

\* What the switch statement does to the context: the slideshow is reached
\* through the audio context, and not before the tune has ended.
LEMMA MovedKeepsContext ==
  ASSUME SwitchInvariant, NEW found \in BOOLEAN, Quiet(found)
  PROVE  LET m == Moved(found) IN
         /\ m.slsContextValid => AudioContextUsable(PhaseOf(m)) /\ ~waitingStc
         /\ PhaseOf(m) = "Ready" => m.slsContextValid
         /\ PhaseOf(m) = "AudioOnly" => data = None
         /\ waitingStc /\ AudioContextUsable(PhaseOf(m)) =>
              stcPending /\ PhaseOf(m) \in {"AudioSettle", "ResolveData"}
         /\ PhaseOf(m) \in Teardown => serviceReq \/ tuneReq
<1> DEFINE w == Woken
           m == Moved(found)
           Kept(c) ==
             /\ c.slsContextValid => AudioContextUsable(PhaseOf(c)) /\ ~waitingStc
             /\ PhaseOf(c) = "Ready" => c.slsContextValid
             /\ PhaseOf(c) = "AudioOnly" => data = None
             /\ waitingStc /\ AudioContextUsable(PhaseOf(c)) =>
                  stcPending /\ PhaseOf(c) \in {"AudioSettle", "ResolveData"}
             /\ PhaseOf(c) \in Teardown => serviceReq \/ tuneReq
<1> USE DEF SwitchInvariant, ContextInvariant
<1>1. /\ w \in Controller /\ w.slsContextValid = sw.slsContextValid
      /\ w.state = "Backoff" => w = sw
      /\ \/ w.state = Phase
         \/ w.state = "Backoff"
         \/ w.state = "Failed"
         \/ w.state = "ResolveData" /\ AudioContextUsable(Phase)
  BY WokenFacts, WokenKeepsContext DEF Inductive
<1>2. QuietPass /\ cmd = NoCmd /\ ~stalled
  BY DEF Quiet, QuietPass, Free
<1>3. waitingStc /\ AudioContextUsable(Phase) => Phase = "AudioSettle" /\ stcPending
  BY <1>2 DEF TuneEndsFirst, NoCmd
<1>4. sw.slsContextValid => AudioContextUsable(Phase) /\ ~waitingStc
  BY DEF ContextKept
<1>5. sw.slsContextValid => AudioContextUsable(w.state) \/ w = sw
  <2>1. sw \in Controller /\ PhaseSafe
    BY DEF Inductive, TypeOK, ControlTypes
  <2> QED
    BY <1>4, <2>1
    DEF Woken, ServiceBackoff, Phase, PhaseOf, AudioContextUsable, Controller, Resume, State
<1>6. w.state = "ResolveData" => Phase \in {"ResolveData", "Ready", "AudioOnly"}
  <2>1. sw \in Controller
    BY DEF Inductive, TypeOK, ControlTypes
  <2> QED
    BY <2>1 DEF Woken, ServiceBackoff, Phase, PhaseOf, Controller, Resume, State
<1>7. CASE w.state \in {"RequestSwitch", "StopData", "StopAudio", "StartAudio"}
           \/ (w.state = "ServiceSettle" /\ ~w.waiting)
  <2>1. ~sw.slsContextValid
    <3>1. w.state # "Backoff" /\ ~AudioContextUsable(w.state)
      BY <1>7 DEF AudioContextUsable
    <3>2. w = sw => ~AudioContextUsable(Phase)
      BY <3>1 DEF Phase, PhaseOf
    <3> QED
      BY <3>1, <3>2, <1>4, <1>5
  <2>2. PICK s \in {"StopData", "StopAudio", "Idle", "StartAudio", "ServiceSettle"} :
          /\ m \in {[w EXCEPT !.state = s], Settle(w, s)}
          /\ w.state = "StartAudio" => s = "Idle"
    <3>1. DispatchRequest(data # None, active # None, tuneReq, serviceReq)
            \in {"StopData", "StopAudio", "Idle", "StartAudio"}
      BY DEF DispatchRequest
    <3>2. CASE w.state = "RequestSwitch"
      BY <3>1, <3>2 DEF Moved
    <3>3. CASE w.state # "RequestSwitch"
      BY <1>7, <3>3 DEF Moved
    <3> QED
      BY <3>2, <3>3
  <2>3. m.state = s /\ m.slsContextValid = w.slsContextValid
    BY <1>1, <2>2 DEF Settle, Controller
  <2>4. w.state # "StartAudio" => serviceReq \/ tuneReq
    BY <1>1, <1>7 DEF TornDownForCause, Teardown
  <2> QED
    BY <1>1, <2>1, <2>2, <2>3, <2>4 DEF PhaseOf, AudioContextUsable, Teardown
<1>8. CASE w.state = "AudioSettle" /\ ~w.waiting
  <2>1. m = [w EXCEPT !.state = "ResolveData"]
    BY <1>8 DEF Moved
  <2>2. m.state = "ResolveData" /\ m.slsContextValid = w.slsContextValid
    BY <1>1, <2>1 DEF Controller
  <2>3. Phase = "AudioSettle"
    BY <1>1, <1>8
  <2> QED
    BY <1>1, <1>3, <1>4, <2>2, <2>3 DEF PhaseOf, AudioContextUsable, Teardown
<1>9. CASE w.state = "ResolveData"
  <2>1. active # None /\ ~waitingStc
    BY <1>3, <1>6, <1>9 DEF Inductive, PhaseSafe, SafeIn, Phase, AudioContextUsable
  <2>2. m = Resolved(w, found)
    BY <1>9 DEF Moved
  <2>3. \/ m = w
        \/ m = [w EXCEPT !.state = "StartData"]
        \/ m = [w EXCEPT !.state = "Ready", !.slsContextValid = TRUE]
        \/ m = [w EXCEPT !.state = "Ready", !.slsContextValid = TRUE,
                         !.dataEvaluationRequested = FALSE]
    BY <2>1, <2>2 DEF Resolved
  <2>4. /\ m.state \in {"ResolveData", "StartData", "Ready"}
        /\ m.state = "Ready" => m.slsContextValid
    BY <1>1, <1>9, <2>3 DEF Controller
  <2> QED
    BY <2>1, <2>4 DEF PhaseOf, AudioContextUsable, Teardown
<1>10. CASE /\ w.state \notin {"RequestSwitch", "StopData", "StopAudio", "StartAudio", "ResolveData"}
            /\ ~(w.state \in {"ServiceSettle", "AudioSettle"} /\ ~w.waiting)
  <2>1. m = w
    BY <1>10 DEF Moved
  <2>2. PhaseOf(w) \in {Phase, "Failed"}
    BY <1>1, <1>10 DEF Inductive, TypeOK, ControlTypes, Controller, Resume, Phase, PhaseOf
  <2>3. PhaseOf(w) = "Failed" => ~sw.slsContextValid
    <3>1. CASE w = sw
      BY <3>1, <1>4 DEF Phase, AudioContextUsable
    <3>2. CASE w # sw
      <4>1. PhaseOf(w) = w.state
        BY <1>1, <3>2 DEF PhaseOf
      <4> QED
        BY <1>5, <3>2, <4>1 DEF AudioContextUsable
    <3> QED
      BY <3>1, <3>2
  <2>4. PhaseOf(w) = Phase => Kept(w)
    BY <1>1, <1>3, <1>4 DEF ContextKept, TornDownForCause
  <2> QED
    BY <1>1, <2>1, <2>2, <2>3, <2>4 DEF AudioContextUsable, Teardown
<1> QED
  BY <1>7, <1>8, <1>9, <1>10

\* A quiet pass keeps the context; if a tune still waits for its end, the pass
\* that leaves the settle time is the one that reads its status.
LEMMA QuietPassKeepsContext ==
  ASSUME SwitchInvariant, NEW found \in BOOLEAN,
         \/ PassTune
         \/ PassTuneStatus(found) \/ PassSignal(found) \/ PassServiceList(found)
         \/ PassServiceType(found) \/ PassMetadata(found) \/ PassNothing(found)
  PROVE  ContextInvariant'
<1> USE DEF SwitchInvariant, ContextInvariant
<1> DEFINE Calm(f) == /\ Quiet(f) /\ cmd = NoCmd /\ ~stalled
                      /\ UNCHANGED <<data, waitingStc, stalled, generation, tuner, serviceReq>>
<1>1. ASSUME NEW f \in BOOLEAN, Quiet(f)
      PROVE  Calm(f)
  BY <1>1 DEF Quiet, QuietPass, Free, healthVars, chipVars
<1>2. CASE PassTune
  <2>1. Calm(FALSE) /\ tuneReq /\ Moved(FALSE).state = "Idle"
    BY <1>1, <1>2 DEF PassTune, TuneComesFirst
  <2>2. ~waitingStc /\ cmd'.op = "Tune"
    BY <1>2, <2>1 DEF PassTune, Command, Inductive, TunePendingOnce
  <2>3. ~Moved(FALSE).slsContextValid
    BY <2>1, MovedKeepsContext DEF PhaseOf, AudioContextUsable
  <2>4. ~sw'.slsContextValid /\ sw'.state = "WaitTune"
    <3>1. Moved(FALSE) \in Controller
      BY <2>1, MovedFacts
    <3> QED
      BY <1>2, <2>3, <3>1 DEF PassTune, Controller
  <2>5. TuneTracked'
    BY <2>1, <2>2 DEF TuneTracked
  <2> QED
    BY <2>4, <2>5, LeavesContext DEF Phase, PhaseOf, AudioContextUsable, TornDownForCause, Teardown
<1>3. CASE PassTuneStatus(found)
  <2>1. /\ Calm(found) /\ sw' = Moved(found) /\ waitingStc /\ UNCHANGED tuneReq
        /\ cmd' = Command("TuneStatus", None)
    BY <1>1, <1>3 DEF PassTuneStatus
  <2>2. cmd'.op = "TuneStatus" /\ OfThisTune'
    BY <2>1 DEF Command, OfThisTune
  <2>3. TuneTracked'
    BY <2>1, <2>2 DEF TuneTracked
  <2>4. TuneEndsFirst' /\ ContextKept' /\ TornDownForCause'
    BY <2>1, <2>2, MovedKeepsContext DEF TuneEndsFirst, ContextKept, TornDownForCause, Phase
  <2> QED
    BY <2>3, <2>4
<1>4. CASE PassSignal(found) \/ PassServiceList(found) \/ PassServiceType(found)
           \/ PassMetadata(found) \/ PassNothing(found)
  <2>1. /\ Quiet(found) /\ sw' = Moved(found) /\ UNCHANGED tuneReq
        /\ ~(waitingStc /\ stcPending) \/ TuneComesFirst(found)
        /\ cmd' = cmd \/ \E op \in Background : cmd' = Command(op, None)
    BY <1>4 DEF PassSignal, PassServiceList, PassServiceType, PassMetadata, PassNothing,
                InBackground, Background
  <2>2. Calm(found)
    BY <1>1, <2>1
  <2>3. cmd' = NoCmd \/ (cmd'.op \in Background /\ OfThisTune')
    BY <2>1, <2>2 DEF Command, OfThisTune
  <2>4. TuneTracked'
    BY <2>2, <2>3 DEF TuneTracked, NoCmd, Background
  <2>5. ~(waitingStc /\ AudioContextUsable(PhaseOf(sw')))
    BY <2>1, MovedKeepsContext DEF TuneComesFirst, PhaseOf, AudioContextUsable
  <2>6. TuneEndsFirst' /\ ContextKept' /\ TornDownForCause'
    BY <2>1, <2>2, <2>5, MovedKeepsContext DEF TuneEndsFirst, ContextKept, TornDownForCause, Phase
  <2> QED
    BY <2>4, <2>6
<1> QED
  BY <1>2, <1>3, <1>4

\* What a completion does to the account of the tune: only the reading that
\* concludes a tune takes its completion away.
LEMMA PhaseAfterAnswer ==
  ASSUME TypeOK, NEW r \in Results, TunerAnswers(r)
  PROVE  /\ cmd.op \notin TuneOps => tuner'.phase = tuner.phase
         /\ cmd.op = "Tune" /\ r = "Ok" => tuner'.phase = "tuning"
         /\ r = "Ok" /\ cmd.op \in {"StartAudio", "StartData"} => tuner.phase # "tuning"
<1>1. tuner' \in {tuner, CarriedOut} /\ (r = "Ok" => tuner' = CarriedOut)
  BY TunerObeys
<1>2. tuner \in Tuner
  BY DEF TypeOK, ChipTypes
<1>3. cmd.op \notin TuneOps => CarriedOut.phase = tuner.phase
  BY <1>2 DEF CarriedOut, TuneOps, Tuner
<1>4. cmd.op = "Tune" => CarriedOut.phase = "tuning"
  BY DEF CarriedOut
<1>5. r = "Ok" /\ cmd.op \in {"StartAudio", "StartData"} => tuner.phase # "tuning"
  BY DEF TunerAnswers, Answerable
<1> QED
  BY <1>1, <1>3, <1>4, <1>5

\* A completion that neither stalls the transport nor belongs to a tune leaves
\* the account of the tune as it was.
LEMMA TunePassesBy ==
  ASSUME SwitchInvariant, NEW r \in Results, Terminal(r), cmd.op \notin TuneOps,
         UNCHANGED <<waitingStc, generation>>
  PROVE  TuneTracked'
<1>1. cmd # NoCmd /\ cmd' = NoCmd /\ TunerAnswers(r)
  BY DEF Terminal
<1>2. tuner'.phase = tuner.phase
  BY <1>1, PhaseAfterAnswer DEF SwitchInvariant, ContextInvariant, Inductive
<1>3. ~(waitingStc /\ tuner.phase = "idle")
  BY <1>1 DEF SwitchInvariant, ContextInvariant, TuneTracked, TuneOps
<1> QED
  BY <1>1, <1>2, <1>3 DEF TuneTracked, NoCmd

\* A transport that is given up moves nothing.
LEMMA StalledKeepsContext ==
  ASSUME SwitchInvariant, NEW r \in Results, FinishStalled(r)
  PROVE  ContextInvariant'
<1>1. /\ stalled' = TRUE /\ cmd' = NoCmd
      /\ UNCHANGED <<sw, waitingStc, data, generation, tuneReq, serviceReq>>
  BY DEF FinishStalled, Terminal, requestVars, ownerVars
<1>2. TuneTracked'
  BY <1>1 DEF TuneTracked, NoCmd
<1>3. TuneEndsFirst' /\ ContextKept' /\ TornDownForCause'
  BY <1>1
  DEF SwitchInvariant, ContextInvariant, TuneEndsFirst, ContextKept, TornDownForCause, Phase
<1> QED
  BY <1>2, <1>3 DEF ContextInvariant

\* An answer to a command of a superseded tune finds no tune waiting, and a
\* service command among them finds the controller in RequestSwitch.
LEMMA StaleKeepsContext ==
  ASSUME SwitchInvariant, NEW r \in Results, FinishStale(r)
  PROVE  ContextInvariant'
<1> USE DEF SwitchInvariant, ContextInvariant, FinishStale
<1>1. /\ cmd # NoCmd /\ cmd' = NoCmd /\ ~OfThisTune
      /\ UNCHANGED <<sw, waitingStc, stalled, generation, tuneReq, serviceReq>>
  BY DEF Terminal, requestVars
<1>2. ~waitingStc /\ ~stalled
  BY <1>1 DEF TuneTracked
<1>3. TuneTracked' /\ TuneEndsFirst'
  BY <1>1, <1>2 DEF TuneTracked, TuneEndsFirst, NoCmd
<1>4. Phase' = "AudioOnly" => data' = None
  <2>1. CASE cmd.op \in ServiceOps
    <3>1. sw.state = "RequestSwitch"
      BY <1>1, <2>1 DEF Inductive, CommandAccounted
    <3> QED
      BY <1>1, <3>1 DEF Phase, PhaseOf
  <2>2. CASE cmd.op \notin ServiceOps
    BY <1>1, <2>2 DEF ContextKept, Phase, Reconciled, ServiceOps
  <2> QED
    BY <2>1, <2>2
<1>5. ContextKept' /\ TornDownForCause'
  BY <1>1, <1>4 DEF ContextKept, TornDownForCause, Phase
<1> QED
  BY <1>3, <1>5

\* The end of a STOP leaves the controller outside the context, where it was.
LEMMA StopLeavesContext ==
  ASSUME SwitchInvariant, NEW r \in Results, FinishStopData(r) \/ FinishStopAudio(r)
  PROVE  ContextInvariant'
<1> USE DEF SwitchInvariant, ContextInvariant, FinishStopData, FinishStopAudio, Finish
<1>1. /\ sw \in Controller /\ cmd.op \in {"StopData", "StopAudio"} /\ Terminal(r)
      /\ UNCHANGED <<waitingStc, generation, tuneReq, serviceReq>>
      /\ sw.state \in {"WaitDataStop", "WaitAudioStop", "RequestSwitch"}
  BY DEF Inductive, TypeOK, ControlTypes, CommandAccounted, WaitOf, ServiceOps, requestVars
<1>2. ~sw.slsContextValid
  BY <1>1 DEF ContextKept, Phase, PhaseOf, AudioContextUsable
<1>3. \/ sw' = sw
      \/ sw' = [sw EXCEPT !.stopRetries = 0, !.state = "StopAudio"]
      \/ sw' = Settle([sw EXCEPT !.stopRetries = 0], "ServiceSettle")
      \/ sw' = BackoffStop(sw, "StopData") \/ sw' = BackoffStop(sw, "StopAudio")
      \/ sw' = [sw EXCEPT !.state = "Failed"]
  BY DEF StopFailed, IfCurrent
<1>4. /\ ~sw'.slsContextValid
      /\ PhaseOf(sw') \in {sw.state, "StopData", "StopAudio", "ServiceSettle", "Failed"}
  <2>1. CASE sw' = sw
    BY <1>1, <1>2, <2>1 DEF PhaseOf
  <2>2. CASE sw' = [sw EXCEPT !.stopRetries = 0, !.state = "StopAudio"]
    BY <1>1, <1>2, <2>2 DEF PhaseOf, Controller
  <2>3. CASE sw' = Settle([sw EXCEPT !.stopRetries = 0], "ServiceSettle")
    BY <1>1, <1>2, <2>3 DEF PhaseOf, Controller, Settle
  <2>4. CASE sw' = BackoffStop(sw, "StopData") \/ sw' = BackoffStop(sw, "StopAudio")
    BY <1>1, <1>2, <2>4 DEF PhaseOf, Controller, BackoffStop, BackoffTo
  <2>5. CASE sw' = [sw EXCEPT !.state = "Failed"]
    BY <1>1, <1>2, <2>5 DEF PhaseOf, Controller
  <2> QED
    BY <1>3, <2>1, <2>2, <2>3, <2>4, <2>5
<1>5. TuneTracked'
  BY <1>1, TunePassesBy DEF TuneOps
<1>6. TornDownForCause'
  BY <1>1 DEF TornDownForCause, Teardown, Phase, PhaseOf
<1> QED
  BY <1>1, <1>4, <1>5, <1>6, LeavesContext DEF Phase, AudioContextUsable

\* The end of an audio START: a service that starts while a tune waits shows
\* that the tune is complete, and the answer has latched that.
LEMMA StartAudioKeepsContext ==
  ASSUME SwitchInvariant, NEW r \in Results, FinishStartAudio(r)
  PROVE  ContextInvariant'
<1> USE DEF SwitchInvariant, ContextInvariant, FinishStartAudio, Finish
<1>1. /\ sw \in Controller /\ cmd.op = "StartAudio" /\ Terminal(r) /\ cmd # NoCmd
      /\ UNCHANGED <<waitingStc, generation, stalled>>
      /\ stcPending' = Latched(tuner'.phase)
      /\ \/ sw.state = "WaitAudioStart"
         \/ sw.state = "RequestSwitch" /\ ~CommandIsCurrent(sw)
  BY DEF Inductive, TypeOK, ControlTypes, CommandAccounted, WaitOf, ServiceOps, Terminal
<1>2. ~sw.slsContextValid
  BY <1>1 DEF ContextKept, Phase, PhaseOf, AudioContextUsable
<1>3. \/ sw' = sw
      \/ r = "Ok" /\ sw' = Settle([sw EXCEPT !.audioRetries = 0], "AudioSettle")
      \/ sw' = BackoffAudio(sw)
      \/ sw' = BackoffTo([sw EXCEPT !.audioRetries = 0], "StartAudio")
  BY DEF StartAudioFailed, Serves
<1>4. /\ ~sw'.slsContextValid
      /\ \/ PhaseOf(sw') \in {sw.state, "StartAudio"}
         \/ r = "Ok" /\ PhaseOf(sw') = "AudioSettle"
  <2>1. CASE sw' = sw
    BY <1>1, <1>2, <2>1 DEF PhaseOf
  <2>2. CASE r = "Ok" /\ sw' = Settle([sw EXCEPT !.audioRetries = 0], "AudioSettle")
    BY <1>1, <1>2, <2>2 DEF PhaseOf, Controller, Settle
  <2>3. CASE sw' = BackoffAudio(sw)
    BY <1>1, <1>2, <2>3 DEF PhaseOf, Controller, BackoffAudio, BackoffTo
  <2>4. CASE sw' = BackoffTo([sw EXCEPT !.audioRetries = 0], "StartAudio")
    BY <1>1, <1>2, <2>4 DEF PhaseOf, Controller, BackoffTo
  <2> QED
    BY <1>3, <2>1, <2>2, <2>3, <2>4
<1>5. TuneTracked'
  BY <1>1, TunePassesBy DEF TuneOps
<1>6. TornDownForCause'
  <2>1. CASE sw.state = "WaitAudioStart"
    BY <1>4, <2>1 DEF TornDownForCause, Teardown, Phase
  <2>2. CASE sw.state = "RequestSwitch" /\ ~CommandIsCurrent(sw)
    <3>1. UNCHANGED tuneReq /\ ~Serves(r)
      BY <2>2 DEF Serves
    <3>2. serviceReq => serviceReq'
      BY <3>1
    <3> QED
      BY <2>2, <3>1, <3>2 DEF TornDownForCause, Teardown, Phase, PhaseOf
  <2> QED
    BY <1>1, <2>1, <2>2
<1>7. CASE r = "Ok" /\ PhaseOf(sw') = "AudioSettle"
  <2>1. TunerAnswers(r) /\ TypeOK /\ tuner.phase \in {"idle", "tuning", "done"}
    BY <1>1 DEF Terminal, Inductive, TypeOK, ChipTypes, Tuner
  <2>2. tuner'.phase = tuner.phase /\ tuner.phase # "tuning"
    BY <1>1, <1>7, <2>1, PhaseAfterAnswer DEF TuneOps
  <2>3. waitingStc => tuner.phase = "done"
    BY <1>1, <2>1, <2>2 DEF TuneTracked
  <2>4. tuner'.phase = "done" => stcPending'
    BY <1>1, Zenon DEF Latched
  <2>5. waitingStc' => stcPending'
    BY <1>1, <2>2, <2>3, <2>4
  <2> QED
    BY <1>4, <1>5, <1>7, <1>6, <2>5 DEF TuneEndsFirst, ContextKept, Phase
<1>8. CASE PhaseOf(sw') \in {sw.state, "StartAudio"}
  BY <1>1, <1>4, <1>5, <1>8, <1>6, LeavesContext DEF Phase, AudioContextUsable
<1> QED
  BY <1>4, <1>7, <1>8

\* The end of a slideshow START happens within the context or was superseded.
LEMMA StartDataKeepsContext ==
  ASSUME SwitchInvariant, NEW r \in Results, FinishStartData(r)
  PROVE  ContextInvariant'
<1> USE DEF SwitchInvariant, ContextInvariant, FinishStartData, Finish
<1>1. /\ sw \in Controller /\ cmd.op = "StartData" /\ Terminal(r) /\ cmd # NoCmd
      /\ UNCHANGED <<waitingStc, generation, stalled, tuneReq, serviceReq>> /\ data = None
      /\ \/ CommandIsCurrent(sw) /\ sw.state = "WaitDataStart"
         \/ ~CommandIsCurrent(sw) /\ sw.state = "RequestSwitch"
  BY DEF Inductive, TypeOK, ControlTypes, CommandAccounted, CommandSafe, WaitOf, ServiceOps,
         Terminal, requestVars
<1>2. TuneTracked'
  BY <1>1, TunePassesBy DEF TuneOps
<1>3. CASE ~CommandIsCurrent(sw)
  <2>1. sw' = sw /\ sw.state = "RequestSwitch"
    BY <1>1, <1>3
  <2>2. ~sw.slsContextValid /\ ~AudioContextUsable(Phase)
    BY <2>1 DEF ContextKept, Phase, PhaseOf, AudioContextUsable
  <2> QED
    BY <1>1, <1>2, <2>1, <2>2, LeavesContext DEF Phase, TornDownForCause
<1>4. CASE CommandIsCurrent(sw)
  <2>1. ~waitingStc /\ sw.state = "WaitDataStart" /\ dataTarget = active
    BY <1>1, <1>4 DEF TuneEndsFirst, Inductive, PhaseSafe, SafeIn, Phase, PhaseOf,
                      AudioContextUsable
  <2>2. cmd.target = dataTarget
    BY <1>1, <2>1 DEF Inductive, CommandSafe
  <2>3. CASE r = "Ok"
    <3>1. sw' = [sw EXCEPT !.dataRetries = 0, !.dataEvaluationRequested = FALSE,
                           !.slsContextValid = TRUE, !.state = "Ready"]
      BY <1>4, <2>2, <2>3
    <3>2. sw'.slsContextValid /\ sw'.state = "Ready"
      BY <1>1, <3>1 DEF Controller
    <3> QED
      BY <1>1, <1>2, <2>1, <3>2
      DEF TuneEndsFirst, ContextKept, TornDownForCause, Teardown, Phase, PhaseOf, AudioContextUsable
  <2>4. CASE r # "Ok"
    <3>1. data' = None /\ (sw' = BackoffData(sw) \/ sw' = DeferData(sw))
      BY <1>1, <1>4, <2>4
    <3>2. PhaseOf(sw') \in {"ResolveData", "AudioOnly"}
      BY <1>1, <3>1 DEF Controller, PhaseOf, BackoffData, BackoffTo, DeferData
    <3> QED
      BY <1>1, <1>2, <2>1, <3>1, <3>2
      DEF TuneEndsFirst, ContextKept, TornDownForCause, Teardown, Phase, AudioContextUsable
  <2> QED
    BY <2>3, <2>4
<1> QED
  BY <1>3, <1>4

\* A tune ends outside the context: it was issued with nothing running, and its
\* conclusion was waited for.
LEMMA TuneLeavesContext ==
  ASSUME SwitchInvariant, NEW r \in Results, FinishTune(r) \/ FinishTuneStatus(r)
  PROVE  ContextInvariant'
<1> USE DEF SwitchInvariant, ContextInvariant, FinishTune, FinishTuneStatus, Finish
<1>1. /\ sw \in Controller /\ Terminal(r) /\ cmd # NoCmd /\ cmd' = NoCmd /\ OfThisTune
      /\ UNCHANGED <<stalled, generation>> /\ TypeOK /\ TunerAnswers(r)
  BY DEF Inductive, TypeOK, ControlTypes, Terminal
<1>2. ~sw.slsContextValid
  <2>1. cmd.op = "Tune" => active = None
    BY DEF Inductive, CommandSafe, Quietened
  <2>2. cmd.op = "TuneStatus" => waitingStc
    BY <1>1 DEF TuneTracked
  <2> QED
    BY <2>1, <2>2 DEF ContextKept, Inductive, PhaseSafe, SafeIn, Phase
<1>3. \/ /\ cmd.op = "Tune" /\ r = "Ok" /\ waitingStc' = TRUE
         /\ UNCHANGED <<sw, tuneReq, serviceReq>>
      \/ /\ waitingStc' = FALSE
         /\ \E s \in {"Idle", "RequestSwitch", "Failed"} :
              sw' = [sw EXCEPT !.state = s] /\ (s = "RequestSwitch" => tuneReq')
  BY DEF RetryTune, TuneFailed, CanRetryTune
<1>4. CASE /\ cmd.op = "Tune" /\ r = "Ok" /\ waitingStc' = TRUE
           /\ UNCHANGED <<sw, tuneReq, serviceReq>>
  <2>1. tuner'.phase = "tuning"
    BY <1>1, <1>4, PhaseAfterAnswer
  <2>2. TuneTracked'
    BY <1>1, <1>4, <2>1 DEF TuneTracked, NoCmd
  <2>3. ~AudioContextUsable(Phase)
    BY <1>4 DEF Inductive, CommandSafe, Quietened, PhaseSafe, SafeIn, Phase
  <2> QED
    BY <1>2, <1>4, <2>2, <2>3, LeavesContext DEF Phase, TornDownForCause
<1>5. CASE /\ waitingStc' = FALSE
           /\ \E s \in {"Idle", "RequestSwitch", "Failed"} :
                sw' = [sw EXCEPT !.state = s] /\ (s = "RequestSwitch" => tuneReq')
  <2>1. /\ sw'.state \in {"Idle", "RequestSwitch", "Failed"} /\ ~sw'.slsContextValid
        /\ sw'.state = "RequestSwitch" => tuneReq'
    BY <1>1, <1>2, <1>5 DEF Controller
  <2>2. TuneTracked'
    BY <1>1, <1>5 DEF TuneTracked, NoCmd
  <2> QED
    BY <2>1, <2>2, LeavesContext DEF Phase, PhaseOf, AudioContextUsable, TornDownForCause, Teardown
<1> QED
  BY <1>3, <1>4, <1>5

\* A background answer moves the controller only from a Ready that has no
\* context, and there is none.
LEMMA BackgroundKeepsContext ==
  ASSUME SwitchInvariant, NEW r \in Results,
         \/ FinishSignal(r) \/ FinishServiceList(r)
         \/ FinishServiceType(r) \/ FinishMetadata(r)
  PROVE  ContextInvariant'
<1> USE DEF SwitchInvariant, ContextInvariant
<1>1. /\ Finish(r, Background)
      /\ UNCHANGED <<waitingStc, data, stalled, tuneReq, serviceReq>>
      /\ sw' \in {sw, RequestDataEvaluation(sw)}
  BY DEF FinishSignal, FinishServiceList, FinishServiceType, FinishMetadata, Finish,
         Background, requestVars, ownerVars
<1>2. /\ cmd.op \in Background /\ Terminal(r) /\ cmd # NoCmd /\ ~stalled
      /\ UNCHANGED generation /\ (stcPending => stcPending')
  <2>1. cmd.op \in Background /\ Terminal(r) /\ cmd # NoCmd /\ UNCHANGED generation
    BY <1>1 DEF Finish, Terminal
  <2>2. ~stalled
    BY <2>1 DEF TuneTracked
  <2>3. stcPending => stcPending'
    BY <1>1, Zenon DEF Finish, Latched
  <2> QED
    BY <2>1, <2>2, <2>3
<1>3. TuneTracked'
  BY <1>1, <1>2, TunePassesBy DEF Background, TuneOps
<1>4. Phase' = Phase /\ sw'.slsContextValid = sw.slsContextValid
  <2>1. sw \in Controller /\ (sw.state = "Ready" => sw.slsContextValid)
    BY DEF Inductive, TypeOK, ControlTypes, ContextKept, Phase, PhaseOf
  <2> QED
    BY <1>1, <2>1 DEF RequestDataEvaluation, Controller, Phase, PhaseOf
<1>5. TuneEndsFirst' /\ ContextKept' /\ TornDownForCause'
  BY <1>1, <1>2, <1>4 DEF TuneEndsFirst, ContextKept, TornDownForCause, Background
<1> QED
  BY <1>3, <1>5

\* The invariant with the slideshow context holds in every reachable state.
THEOREM SwitchInvariantHolds == Spec => []SwitchInvariant
<1>1. Init => ContextInvariant
  BY DEF Init, NoCmd, RequestSwitch, Fresh, ContextInvariant, TuneTracked, TuneEndsFirst,
         ContextKept, TornDownForCause, Phase, PhaseOf, AudioContextUsable
<1>2. SwitchInvariant /\ [Next]_vars => ContextInvariant'
  <2> SUFFICES ASSUME SwitchInvariant, [Next]_vars
               PROVE  ContextInvariant'
    OBVIOUS
  <2>1. CASE Request \/ Recover
    BY <2>1, RequestLeavesContext
  <2>2. CASE \/ Elapse \/ TuneRetryElapse \/ SignalDue \/ TunerSettles \/ PollStatus
             \/ UNCHANGED vars
    BY <2>2, EnvironmentKeepsContext
  <2>3. CASE Pass
    BY <2>3, ServicePassKeepsContext, QuietPassKeepsContext DEF Pass
  <2>4. CASE Finished
    <3>1. PICK r \in Results : FinishOne(r)
      BY <2>4 DEF Finished
    <3> QED
      BY <3>1, StalledKeepsContext, StaleKeepsContext, StopLeavesContext, StartAudioKeepsContext,
         StartDataKeepsContext, TuneLeavesContext, BackgroundKeepsContext
      DEF FinishOne
  <2> QED
    BY <2>1, <2>2, <2>3, <2>4 DEF Next
<1> QED
  BY <1>1, <1>2, InductiveInvariant, PTL DEF Spec, SwitchInvariant

\* Slideshow data is accepted only in the context of the service the user asked
\* for last: whatever started, failed, was superseded or was retuned, a valid
\* slideshow context has that service playing and nothing newer pending.
THEOREM SlsContextIsSound == Spec => []SlsContextSound
<1>1. SwitchInvariant => SlsContextSound
  BY DEF SwitchInvariant, ContextInvariant, ContextKept, Inductive, PhaseSafe, SafeIn, Phase,
         SlsContextSound
<1> QED
  BY <1>1, SwitchInvariantHolds, PTL
=============================================================================
