--------------------------- MODULE DabSwitchRefines ---------------------------
(***************************************************************************)
(* DabSwitch implements the two abstract views of the service switch:      *)
(*   - ServiceNesting: whatever is requested, answered or lost, the        *)
(*     services the driver owns change one level at a time;                *)
(*   - SwitchOutline: what the rest of class DAB can see of the switch,    *)
(*     the specification the EPG packet receiver is composed with.         *)
(***************************************************************************)
EXTENDS DabSwitchProofs, DabSwitchOutlined

-----------------------------------------------------------------------------
(* The nested protocol. *)

\* Every completion follows the rule Owned.
LEMMA OwnersAfter ==
  ASSUME Inductive, NEW r \in Results, FinishOne(r)
  PROVE  /\ Terminal(r)
         /\ active' = Owned(active, "StartAudio", "StopAudio", r)
         /\ data' = Owned(data, "StartData", "StopData", r)
<1> USE DEF Inductive, TypeOK
<1>1. CASE FinishStalled(r)
  <2>1. r \in Timeouts
    BY <1>1, SwitchAssumption DEF FinishStalled, Stalls, GenuineAfter, Timeouts
  <2> QED
    BY <1>1, <2>1 DEF FinishStalled, ownerVars, Owned, Timeouts
<1>2. CASE FinishStale(r)
  BY <1>2 DEF FinishStale, CommandSafe, Reconciled, Owned
<1>3. CASE FinishStopData(r)
  BY <1>3 DEF FinishStopData, Finish, CommandSafe, Owned
<1>4. CASE FinishStopAudio(r)
  BY <1>4 DEF FinishStopAudio, Finish, CommandSafe, Owned
<1>5. CASE FinishStartAudio(r)
  BY <1>5 DEF FinishStartAudio, Finish, Owned
<1>6. CASE FinishStartData(r)
  BY <1>6 DEF FinishStartData, Finish, Owned
<1>7. CASE FinishTune(r) \/ FinishTuneStatus(r) \/ FinishSignal(r) \/ FinishServiceList(r)
           \/ FinishServiceType(r) \/ FinishMetadata(r)
  <2>1. /\ Terminal(r) /\ cmd.op \notin ServiceOps /\ UNCHANGED ownerVars
    BY <1>7 DEF FinishTune, RetryTune, FinishTuneStatus, FinishSignal, FinishServiceList,
                FinishServiceType, FinishMetadata, Finish, ServiceOps
  <2> QED
    BY <2>1 DEF Owned, ServiceOps, ownerVars
<1> QED
  BY <1>1, <1>2, <1>3, <1>4, <1>5, <1>6, <1>7 DEF FinishOne

\* Only a tune moves the tuner to another channel, the one it asks for.
LEMMA ChannelAfter ==
  ASSUME Inductive, NEW r \in Results, TunerAnswers(r)
  PROVE  tuner'.freq = tuner.freq \/ (cmd.op = "Tune" /\ tuner'.freq = cmd.target)
<1>1. tuner \in Tuner /\ tuner' \in {tuner, CarriedOut}
  BY TunerObeys DEF Inductive, TypeOK, ChipTypes
<1>2. CarriedOut.freq = IF cmd.op = "Tune" THEN cmd.target ELSE tuner.freq
  BY <1>1 DEF CarriedOut, Tuner
<1> QED
  BY <1>1, <1>2

\* Every step of the switch is a step of the nested protocol, or none at all.
LEMMA StepNests ==
  ASSUME Inductive, [Next]_vars
  PROVE  [Nesting!NestingNext]_(Nesting!nesting)
<1> USE DEF Inductive, TypeOK
<1>1. CASE Finished
  <2>1. PICK r \in Results : FinishOne(r)
    BY <1>1 DEF Finished
  <2>2. /\ TunerAnswers(r)
        /\ active' = Owned(active, "StartAudio", "StopAudio", r)
        /\ data' = Owned(data, "StartData", "StopData", r)
        /\ tuner'.freq = tuner.freq \/ (cmd.op = "Tune" /\ tuner'.freq = cmd.target)
    BY <2>1, OwnersAfter, ChannelAfter DEF Terminal
  <2>3. CASE cmd.op = "Tune"
    <3>1. /\ active = None /\ data = None /\ cmd.target \in Freqs
          /\ active' = active /\ data' = data
      BY <2>2, <2>3 DEF CommandSafe, Quietened, Owned
    <3> QED
      BY <2>2, <3>1 DEF Nesting!NestingNext, Nesting!Retune, Nesting!nesting
  <2>4. CASE cmd.op = "StartAudio"
    <3>1. active = None /\ data = None /\ cmd.target \in Services /\ data' = data
      BY <2>2, <2>4 DEF CommandSafe, Quietened, ServiceOps, Owned
    <3>2. (active' = cmd.target \/ active' = active) /\ tuner'.freq = tuner.freq
      BY <2>2, <2>4 DEF Owned
    <3> QED
      BY <3>1, <3>2 DEF Nesting!NestingNext, Nesting!StartAudio, Nesting!nesting
  <2>5. CASE cmd.op = "StartData"
    <3>1. active \in Services /\ active # None /\ data = None /\ active' = active
      BY <2>2, <2>5, SwitchAssumption DEF CommandSafe, ServiceOps, Owned
    <3>2. (data' = active \/ data' = data) /\ tuner'.freq = tuner.freq
      BY <2>2, <2>5 DEF CommandSafe, Owned
    <3> QED
      BY <3>1, <3>2 DEF Nesting!NestingNext, Nesting!StartSlideshow, Nesting!nesting
  <2>6. CASE cmd.op = "StopAudio"
    <3>1. active \in Services /\ active # None /\ data = None /\ data' = data
      BY <2>2, <2>6, SwitchAssumption DEF CommandSafe, ServiceOps, Owned
    <3>2. (active' = None \/ active' = active) /\ tuner'.freq = tuner.freq
      BY <2>2, <2>6 DEF Owned
    <3> QED
      BY <3>1, <3>2 DEF Nesting!NestingNext, Nesting!StopAudio, Nesting!nesting
  <2>7. CASE cmd.op = "StopData"
    <3>1. data \in Services /\ data # None /\ active' = active
      BY <2>2, <2>7, SwitchAssumption DEF CommandSafe, ServiceOps, Owned
    <3>2. (data' = None \/ data' = data) /\ tuner'.freq = tuner.freq
      BY <2>2, <2>7 DEF Owned
    <3> QED
      BY <3>1, <3>2 DEF Nesting!NestingNext, Nesting!StopSlideshow, Nesting!nesting
  <2>8. CASE cmd.op \notin ServiceOps \cup {"Tune"}
    BY <2>2, <2>8 DEF Owned, ServiceOps, Nesting!nesting
  <2> QED
    BY <2>3, <2>4, <2>5, <2>6, <2>7, <2>8 DEF ServiceOps
<1>2. CASE Recover
  BY <1>2 DEF Recover, Nesting!NestingNext, Nesting!Reset
<1>3. CASE Request \/ Elapse \/ TuneRetryElapse \/ SignalDue \/ PollStatus \/ UNCHANGED vars
  BY <1>3 DEF Request, SetFreq, SetService, Elapse, TuneRetryElapse, SignalDue, PollStatus,
              ownerVars, chipVars, vars, Nesting!nesting
<1>4. CASE TunerSettles
  BY <1>4 DEF TunerSettles, ChipTypes, Tuner, ownerVars, Nesting!nesting
<1>5. CASE Pass
  <2>1. UNCHANGED <<tuner, active, data>>
    BY <1>5 DEF Pass, PassStopData, PassStopAudio, PassStartAudio, PassStartData, IssueService,
                PassTune, PassTuneStatus, PassSignal, PassServiceList, PassServiceType,
                PassMetadata, PassNothing, InBackground, Quiet, ownerVars, chipVars
  <2> QED
    BY <2>1 DEF Nesting!nesting
<1> QED
  BY <1>1, <1>2, <1>3, <1>4, <1>5 DEF Next

\* The driver implements the nested protocol of ServiceNesting.
THEOREM SwitchNestsServices == Spec => ServicesNest
<1>1. Init => Nesting!Silent
  BY DEF Init, Nesting!Silent
<1>2. Inductive /\ [Next]_vars => [Nesting!NestingNext]_(Nesting!nesting)
  BY StepNests
<1> QED
  BY <1>1, <1>2, InductiveInvariant, PTL DEF Spec, ServicesNest, Nesting!NestingSpec

-----------------------------------------------------------------------------
(* The outline.  An action of the switch is named by the outline's action of *)
(* the same purpose; the rest is what the outline can see of it.             *)

\* What the outline calls a switch at rest.
Settled == sw.state \in {"Ready", "AudioOnly"}

\* The switch comes to rest only with the requested service playing, and a step
\* that leaves it at rest whenever it may stay there is one the outline allows.
LEMMA RestsAfter ==
  ASSUME SwitchInvariant', Settled /\ data' # None => Settled'
  PROVE  Seen!Rests
<1>1. Settled' => Seen!MayRest'
  BY DEF SwitchInvariant, ContextInvariant, TuneEndsFirst, Inductive, PhaseSafe, SafeIn, Phase,
         PhaseOf, AudioContextUsable, Settled, Seen!MayRest
<1>2. Settled \in BOOLEAN /\ Settled' \in BOOLEAN /\ Seen!MayRest' \in BOOLEAN
  BY DEF Settled, Seen!MayRest
<1> QED
  BY <1>1, <1>2 DEF Seen!Rests, Settled, Seen!MayRest

\* The switch is free when the outline is.
LEMMA FreeOutlined ==
  ASSUME Free
  PROVE  Seen!Free
BY DEF Free, Seen!Free, NoCmd, Seen!NoCmd, Outlined, Background

\* Requests and the cold recovery.
LEMMA RequestOutlined ==
  ASSUME SwitchInvariant, Request \/ Recover
  PROVE  Seen!OutlineNext
<1>1. sw \in Controller /\ sw.requestId \in Nat
  BY DEF SwitchInvariant, Inductive, TypeOK, ControlTypes, Controller
<1>2. ASSUME NEW f \in Freqs, SetFreq(f)
      PROVE  Seen!SetFreq
  BY <1>1, <1>2 DEF SetFreq, ForgetEnsemble, ForgetWork, RequestSwitch, Fresh, Seen!SetFreq,
                    Seen!owned
<1>3. ASSUME NEW s \in Services, SetService(s)
      PROVE  Seen!SetService
  BY <1>1, <1>3 DEF SetService, RequestSwitch, Fresh, listVars, healthVars, Seen!SetService,
                    Seen!owned
<1>4. CASE Recover
  <2>1. sw'.requestId = sw.requestId + 1 /\ sw'.state = "RequestSwitch"
    BY <1>4 DEF Recover, RequestSwitch, ResetController, Fresh
  <2>2. Seen!Recover
    BY <1>4, <2>1 DEF Recover, ForgetEnsemble, ForgetWork, Seen!Recover, NoCmd, Seen!NoCmd,
                      Outlined, Background
  <2> QED
    BY <2>2 DEF Seen!OutlineNext
<1> QED
  BY <1>2, <1>3, <1>4 DEF Request, Seen!OutlineNext

\* The timers, the tuner and the poll are not seen.
LEMMA EnvironmentUnseen ==
  ASSUME SwitchInvariant,
         \/ Elapse \/ TuneRetryElapse \/ SignalDue \/ TunerSettles \/ PollStatus
         \/ UNCHANGED vars
  PROVE  UNCHANGED Seen!outline
<1> USE DEF Elapse, TuneRetryElapse, SignalDue, TunerSettles, PollStatus,
            vars, requestVars, ownerVars, healthVars, listVars
<1>1. sw'.state = sw.state /\ sw'.requestId = sw.requestId
  BY DEF SwitchInvariant, Inductive, TypeOK, ControlTypes, Controller
<1>2. UNCHANGED <<generation, tuneReq, serviceReq, waitingStc, active, data, lock, stalled, cmd>>
  OBVIOUS
<1> QED
  BY <1>1, <1>2 DEF Seen!outline, Seen!owned

\* A pass that issues a service command.
LEMMA ServicePassOutlined ==
  ASSUME SwitchInvariant, SwitchInvariant',
         PassStopData \/ PassStopAudio \/ PassStartAudio \/ PassStartData
  PROVE  Seen!OutlineNext
<1>1. PICK op \in ServiceOps, target \in Services \cup {None} :
        /\ IssueService(op, target, WaitOf(op))
        /\ op = "StopData" => target = data
        /\ op = "StopAudio" => target = active
        /\ op = "StartAudio" => serviceReq
  BY DEF PassStopData, PassStopAudio, PassStartAudio, PassStartData, WaitOf, ServiceOps,
         SwitchInvariant, Inductive, TypeOK, OwnerTypes, ControlTypes
<1>2. Phase = op /\ target \in Services /\ target # None
  BY <1>1, IssueFacts, SwitchAssumption DEF SwitchInvariant
<1>3. sw'.requestId = sw.requestId /\ sw'.state = WaitOf(op)
  <2>1. Woken \in Controller /\ Woken.requestId = sw.requestId
    BY WokenFacts DEF SwitchInvariant, Inductive
  <2>2. sw' = [BindCommand(Woken) EXCEPT !.state = WaitOf(op)]
    BY <1>1 DEF IssueService
  <2> QED
    BY <2>1, <2>2 DEF BindCommand, Controller
<1>4. /\ Free /\ cmd' = Command(op, target)
      /\ UNCHANGED <<generation, tuneReq, serviceReq, waitingStc, active, data, lock, stalled>>
  BY <1>1 DEF IssueService, requestVars, ownerVars, healthVars, listVars
<1>5. Seen!Issuable(op)
  <2>1. /\ op \in {"StopData", "StopAudio"} => serviceReq \/ tuneReq
        /\ op = "StopAudio" => data = None
        /\ op = "StartAudio" => Quietened /\ ~tuneReq
        /\ op = "StartData" => active # None /\ data = None /\ ~serviceReq /\ ~tuneReq
    BY <1>2 DEF SwitchInvariant, ContextInvariant, TornDownForCause, Teardown, Inductive,
                PhaseSafe, SafeIn, Phase, AudioContextUsable
  <2> QED
    BY <1>1, <1>2, <2>1 DEF Seen!Issuable, ServiceOps, Quietened
<1>6. tuneReq \in BOOLEAN /\ tuneReq' \in BOOLEAN
  BY DEF SwitchInvariant, Inductive, TypeOK, ControlTypes
<1>7. Seen!Issue(op)
  <2>1. [op |-> Outlined(cmd'.op), gen |-> cmd'.gen] = Seen!Command(op)
    BY <1>4 DEF Command, Seen!Command, Outlined, Background, ServiceOps
  <2>2. ~Settled' /\ op \in Seen!SwitchOps
    BY <1>3 DEF Settled, WaitOf, ServiceOps, Seen!SwitchOps
  <2>3. tuneReq' = (tuneReq /\ op # "Tune")
    BY <1>4, <1>6 DEF ServiceOps
  <2> QED
    BY <1>3, <1>4, <1>5, <2>1, <2>2, <2>3, FreeOutlined DEF Seen!Issue, Seen!owned, Settled
<1> QED
  BY <1>7 DEF Seen!OutlineNext, Seen!SwitchOps, ServiceOps

\* At rest with the slideshow owned, the switch statement changes nothing.
LEMMA RestsThroughPass ==
  ASSUME SwitchInvariant, Settled, data # None, NEW found \in BOOLEAN
  PROVE  Moved(found) = sw /\ sw.state = "Ready"
<1>1. sw.state = "Ready"
  BY DEF Settled, SwitchInvariant, ContextInvariant, ContextKept, Phase, PhaseOf
<1>2. Woken = sw
  BY <1>1 DEF Woken, ServiceBackoff
<1> QED
  BY <1>1, <1>2 DEF Moved

\* A pass that issues a tune, or no service command at all.
LEMMA QuietPassOutlined ==
  ASSUME SwitchInvariant, SwitchInvariant', NEW found \in BOOLEAN,
         \/ PassTune
         \/ PassTuneStatus(found) \/ PassSignal(found) \/ PassServiceList(found)
         \/ PassServiceType(found) \/ PassMetadata(found) \/ PassNothing(found)
  PROVE  Seen!OutlineNext
<1> DEFINE Unmoved == UNCHANGED <<generation, serviceReq, waitingStc, active, data, lock, stalled>>
<1>1. ASSUME NEW f \in BOOLEAN, Quiet(f)
      PROVE  /\ Free /\ UNCHANGED <<generation, serviceReq, waitingStc, active, data, stalled>>
             /\ Moved(f) \in Controller /\ Moved(f).requestId = sw.requestId
  BY <1>1, MovedFacts DEF SwitchInvariant, Quiet, QuietPass, healthVars
<1>2. tuneReq \in BOOLEAN
  BY DEF SwitchInvariant, Inductive, TypeOK, ControlTypes
<1>3. CASE PassTune
  <2>1. Quiet(FALSE) /\ tuneReq /\ cmd' = Command("Tune", reqFreq) /\ UNCHANGED lock
    BY <1>3 DEF PassTune, TuneComesFirst, listVars
  <2>2. Free /\ Unmoved
    BY <1>1, <2>1
  <2>3. sw'.requestId = sw.requestId /\ sw'.state = "WaitTune"
    <3>1. sw' = [Moved(FALSE) EXCEPT !.state = "WaitTune"]
      BY <1>3 DEF PassTune
    <3> QED
      BY <1>1, <2>1, <3>1 DEF Controller
  <2>4. Quietened
    BY <2>1, <2>2 DEF SwitchInvariant, Inductive, CommandSafe, Quietened, Command
  <2>5. tuneReq' = (tuneReq /\ "Tune" # "Tune")
    BY <1>3 DEF PassTune
  <2>6. [op |-> Outlined(cmd'.op), gen |-> cmd'.gen] = Seen!Command("Tune")
    BY <2>1 DEF Command, Seen!Command, Outlined, Background
  <2>7. Seen!Issuable("Tune")
    BY <2>1, <2>4 DEF Seen!Issuable, Quietened
  <2>8. Seen!Issue("Tune")
    BY <2>2, <2>3, <2>5, <2>6, <2>7, FreeOutlined DEF Seen!Issue, Seen!owned
  <2> QED
    BY <2>8 DEF Seen!OutlineNext, Seen!OtherOps
<1>4. ASSUME Quiet(found), sw' = Moved(found), UNCHANGED <<tuneReq, lock>>
      PROVE  Free /\ Unmoved /\ sw'.requestId = sw.requestId /\ Seen!Rests
  <2>1. Settled /\ data' # None => Settled'
    BY <1>1, <1>4, RestsThroughPass DEF Settled
  <2> QED
    BY <1>1, <1>4, <2>1, RestsAfter
<1>5. ASSUME Quiet(found), sw' = Moved(found), UNCHANGED <<tuneReq, lock>>,
             NEW op \in TuneOps \cup Background, op # "Tune", cmd' = Command(op, None),
             op = "TuneStatus" => waitingStc
      PROVE  Seen!Issue(Outlined(op))
  <2>1. Free /\ Unmoved /\ sw'.requestId = sw.requestId /\ Seen!Rests
    BY <1>4, <1>5
  <2>2. [op |-> Outlined(cmd'.op), gen |-> cmd'.gen] = Seen!Command(Outlined(op))
    BY <1>5 DEF Command, Seen!Command
  <2>3. Outlined(op) \in {"TuneStatus", "Background"} /\ Seen!Issuable(Outlined(op))
    BY <1>5 DEF Outlined, TuneOps, Background, Seen!Issuable
  <2>4. tuneReq' = (tuneReq /\ Outlined(op) # "Tune")
    BY <1>2, <1>5, <2>3
  <2> QED
    BY <2>1, <2>2, <2>3, <2>4, FreeOutlined DEF Seen!Issue, Seen!owned, Seen!SwitchOps
<1>6. CASE PassTuneStatus(found)
  <2>1. Seen!Issue(Outlined("TuneStatus"))
    BY <1>5, <1>6 DEF PassTuneStatus, TuneOps, listVars
  <2> QED
    BY <2>1 DEF Outlined, Background, Seen!OutlineNext, Seen!OtherOps
<1>7. CASE PassSignal(found) \/ PassServiceList(found) \/ PassServiceType(found)
           \/ PassMetadata(found)
  <2>1. PICK op \in Background : InBackground(found, op)
    BY <1>7 DEF PassSignal, PassServiceList, PassServiceType, PassMetadata, Background
  <2>2. Seen!Issue(Outlined(op))
    BY <1>5, <2>1 DEF InBackground, TuneOps, Background
  <2> QED
    BY <2>2 DEF Outlined, Seen!OutlineNext, Seen!OtherOps
<1>8. CASE PassNothing(found)
  <2>1. Quiet(found) /\ sw' = Moved(found) /\ UNCHANGED <<tuneReq, cmd, lock>>
    BY <1>8 DEF PassNothing, listVars
  <2>2. Seen!Move
    BY <1>4, <2>1, FreeOutlined DEF Seen!Move, Seen!owned
  <2> QED
    BY <2>2 DEF Seen!OutlineNext
<1> QED
  BY <1>3, <1>6, <1>7, <1>8

\* No completion changes the number of the request that is served.
LEMMA FinishKeepsRequest ==
  ASSUME SwitchInvariant, NEW r \in Results, FinishOne(r)
  PROVE  sw'.requestId = sw.requestId
<1>1. sw \in Controller
  BY DEF SwitchInvariant, Inductive, TypeOK, ControlTypes
<1>2. ASSUME NEW resume \in Resume
      PROVE  /\ BackoffTo(sw, resume).requestId = sw.requestId
             /\ BackoffStop(sw, resume).requestId = sw.requestId
  BY <1>1 DEF BackoffStop, BackoffTo, Controller
<1>3. CASE FinishStalled(r) \/ FinishStale(r) \/ FinishSignal(r) \/ FinishMetadata(r)
  BY <1>3 DEF FinishStalled, FinishStale, FinishSignal, FinishMetadata
<1>4. CASE FinishStopData(r)
  BY <1>1, <1>2, <1>4 DEF FinishStopData, StopFailed, IfCurrent, Controller, Resume
<1>5. CASE FinishStopAudio(r)
  BY <1>1, <1>2, <1>5 DEF FinishStopAudio, StopFailed, IfCurrent, Settle, Controller, Resume
<1>6. CASE FinishStartAudio(r)
  BY <1>1, <1>6 DEF FinishStartAudio, StartAudioFailed, BackoffAudio, BackoffTo, Settle, Controller
<1>7. CASE FinishStartData(r)
  BY <1>1, <1>7 DEF FinishStartData, BackoffData, BackoffTo, DeferData, Controller
<1>8. CASE FinishTune(r) \/ FinishTuneStatus(r)
  BY <1>1, <1>8 DEF FinishTune, FinishTuneStatus, RetryTune, TuneFailed, Controller
<1>9. CASE FinishServiceList(r) \/ FinishServiceType(r)
  BY <1>1, <1>9 DEF FinishServiceList, FinishServiceType, RequestDataEvaluation, Controller
<1> QED
  BY <1>3, <1>4, <1>5, <1>6, <1>7, <1>8, <1>9 DEF FinishOne

\* What the driver owns afterwards is what the outline says it owns.
LEMMA OwnersOutlined ==
  ASSUME SwitchInvariant, NEW r \in Results, FinishOne(r)
  PROVE  /\ cmd # NoCmd /\ cmd' = NoCmd
         /\ [op |-> Outlined(cmd.op), gen |-> cmd.gen] # Seen!NoCmd
         /\ [op |-> Outlined(cmd'.op), gen |-> cmd'.gen] = Seen!NoCmd
         /\ Seen!Reconciles(r \in {"Ok", "NotAvailable"})
<1>1. /\ Terminal(r)
      /\ active' = Owned(active, "StartAudio", "StopAudio", r)
      /\ data' = Owned(data, "StartData", "StopData", r)
  BY OwnersAfter DEF SwitchInvariant
<1>2. cmd # NoCmd /\ cmd' = NoCmd /\ cmd.op # "None"
  BY <1>1 DEF Terminal, SwitchInvariant, ContextInvariant, TuneTracked
<1>3. /\ [op |-> Outlined(cmd.op), gen |-> cmd.gen] # Seen!NoCmd
      /\ [op |-> Outlined(cmd'.op), gen |-> cmd'.gen] = Seen!NoCmd
  BY <1>2 DEF Seen!NoCmd, NoCmd, Outlined, Background
<1>4. cmd.op \in ServiceOps => cmd.target # None
  BY SwitchAssumption DEF SwitchInvariant, Inductive, CommandSafe
<1>5. r = "NotAvailable" => cmd.op \in {"StopAudio", "StopData"}
  BY <1>1 DEF Terminal, TunerAnswers, Answerable
<1>6. (active' # None) = Seen!Owns(active # None, "StartAudio", "StopAudio",
                                  r \in {"Ok", "NotAvailable"})
  BY <1>1, <1>4, <1>5 DEF Owned, Seen!Owns, Outlined, Background, ServiceOps
<1>7. (data' # None) = Seen!Owns(data # None, "StartData", "StopData",
                                r \in {"Ok", "NotAvailable"})
  BY <1>1, <1>4, <1>5 DEF Owned, Seen!Owns, Outlined, Background, ServiceOps
<1> QED
  BY <1>2, <1>3, <1>6, <1>7 DEF Seen!Reconciles

\* A command that ends while the switch is at rest is a background reading, and
\* leaves it there as long as the slideshow is owned.
LEMMA RestsThroughFinish ==
  ASSUME SwitchInvariant, NEW r \in Results, FinishOne(r), OfThisTune, cmd # NoCmd,
         Settled, data' # None
  PROVE  Settled'
<1> USE DEF SwitchInvariant, ContextInvariant
<1>1. sw \in Controller /\ ~waitingStc /\ active # None
  BY DEF Settled, Inductive, TypeOK, ControlTypes, TuneEndsFirst, PhaseSafe, SafeIn, Phase, PhaseOf,
         AudioContextUsable
<1>2. cmd.op \notin ServiceOps
  BY DEF Settled, Inductive, CommandAccounted, WaitOf, ServiceOps
<1>3. cmd.op \notin TuneOps
  BY <1>1 DEF Inductive, CommandSafe, Quietened, TuneTracked, TuneOps
<1>4. data' = data /\ (sw' = sw \/ sw' = RequestDataEvaluation(sw))
  BY <1>2, <1>3 DEF FinishOne, FinishStalled, FinishStale, FinishStopData, FinishStopAudio,
    FinishStartAudio, FinishStartData, FinishTune, FinishTuneStatus, FinishSignal,
    FinishServiceList, FinishServiceType, FinishMetadata, Finish, ServiceOps, TuneOps, ownerVars
<1>5. sw.state = "Ready" /\ sw.slsContextValid
  BY <1>4 DEF Settled, ContextKept, Phase, PhaseOf
<1> QED
  BY <1>1, <1>4, <1>5 DEF RequestDataEvaluation, Controller, Settled

\* What a completion of the tune in force does to the requests and to the lock.
LEMMA RequestsOutlined ==
  ASSUME SwitchInvariant, SwitchInvariant', NEW r \in Results, FinishOne(r), OfThisTune,
         ~FinishStalled(r), NEW ok \in BOOLEAN, ok = (r \in {"Ok", "NotAvailable"})
  PROVE  /\ serviceReq' \in IF ok /\ Outlined(cmd.op) = "StartAudio" THEN {serviceReq, FALSE}
                            ELSE {serviceReq}
         /\ tuneReq' \in IF ~ok /\ Outlined(cmd.op) \in {"Tune", "TuneStatus"}
                         THEN {tuneReq, TRUE} ELSE {tuneReq}
         /\ waitingStc' = Seen!TuningAfter(ok)
         /\ lock' \in IF ok /\ Outlined(cmd.op) \in {"TuneStatus", "Background"} THEN BOOLEAN
                      ELSE {lock}
         /\ generation' = generation
<1> USE DEF requestVars, listVars, Outlined, Seen!TuningAfter
<1>1. /\ serviceReq \in BOOLEAN /\ tuneReq \in BOOLEAN /\ lock' \in BOOLEAN
      /\ tuneReq' \in BOOLEAN
      /\ cmd.op \in TuneOps => tuneReq = FALSE
  BY DEF SwitchInvariant, Inductive, TypeOK, ControlTypes, ListTypes, TunePendingOnce
<1>2. CASE FinishStopData(r) \/ FinishStopAudio(r) \/ FinishStartData(r)
  <2>1. /\ cmd.op \in {"StopData", "StopAudio", "StartData"}
        /\ UNCHANGED <<serviceReq, tuneReq, waitingStc, lock, generation>>
    BY <1>2 DEF FinishStopData, FinishStopAudio, FinishStartData, Finish
  <2> QED
    BY <2>1 DEF Background
<1>3. CASE FinishStartAudio(r)
  <2>1. /\ cmd.op = "StartAudio" /\ UNCHANGED <<tuneReq, waitingStc, lock, generation>>
        /\ serviceReq' = (serviceReq /\ ~Serves(r))
    BY <1>3 DEF FinishStartAudio, Finish
  <2>2. serviceReq' \in IF ok THEN {serviceReq, FALSE} ELSE {serviceReq}
    <3>1. Serves(r) => ok
      BY DEF Serves
    <3> QED
      BY <1>1, <2>1, <3>1
  <2> QED
    BY <2>1, <2>2 DEF Background
<1>4. CASE FinishTune(r)
  <2>1. cmd.op = "Tune" /\ UNCHANGED <<serviceReq, lock, generation>> /\ tuneReq = FALSE
    BY <1>1, <1>4 DEF FinishTune, Finish, TuneOps
  <2>2. r # "NotAvailable"
    BY <1>4, <2>1 DEF FinishTune, Finish, Terminal, TunerAnswers, Answerable
  <2>3. waitingStc' = ok /\ tuneReq' \in IF ok THEN {tuneReq} ELSE {tuneReq, TRUE}
    <3>1. CASE r = "Ok"
      BY <1>4, <3>1 DEF FinishTune, CanRetryTune
    <3>2. CASE r # "Ok"
      <4>1. waitingStc' = FALSE
        BY <1>4, <3>2, Zenon DEF FinishTune, RetryTune, TuneFailed
      <4> QED
        BY <1>1, <2>1, <2>2, <3>2, <4>1
    <3> QED
      BY <3>1, <3>2
  <2> QED
    BY <2>1, <2>3 DEF Background
<1>5. CASE FinishTuneStatus(r)
  <2>1. cmd.op = "TuneStatus" /\ UNCHANGED <<serviceReq, generation>> /\ tuneReq = FALSE
    BY <1>1, <1>5 DEF FinishTuneStatus, Finish, TuneOps
  <2>2. r # "NotAvailable"
    BY <1>5, <2>1 DEF FinishTuneStatus, Finish, Terminal, TunerAnswers, Answerable
  <2>3. CASE r = "Ok"
    BY <1>1, <1>5, <2>1, <2>3 DEF FinishTuneStatus, Background
  <2>4. CASE r # "Ok"
    <3>1. waitingStc' = FALSE /\ lock' = lock
      BY <1>5, <2>4, Zenon DEF FinishTuneStatus, TuneFailed
    <3> QED
      BY <1>1, <2>1, <2>2, <2>4, <3>1 DEF Background
  <2> QED
    BY <2>3, <2>4
<1>6. CASE FinishSignal(r) \/ FinishServiceList(r) \/ FinishServiceType(r) \/ FinishMetadata(r)
  <2>1. /\ cmd.op \in Background
        /\ UNCHANGED <<serviceReq, tuneReq, waitingStc, generation>>
        /\ lock' = lock \/ r = "Ok"
    BY <1>6 DEF FinishSignal, FinishServiceList, FinishServiceType, FinishMetadata, Finish,
                Background
  <2> QED
    BY <1>1, <2>1 DEF Background
<1>7. ~FinishStale(r)
  BY DEF FinishStale
<1> QED
  BY <1>2, <1>3, <1>4, <1>5, <1>6, <1>7 DEF FinishOne

\* Only a lost CTS at the end of a STOP asks for the recovery without a stall of
\* the watchdog; then nothing else is changed.
LEMMA StopGivesUp ==
  ASSUME SwitchInvariant, NEW r \in Results, FinishOne(r), ~FinishStalled(r)
  PROVE  \/ stalled' = stalled
         \/ /\ stalled' = TRUE
            /\ UNCHANGED <<sw, generation, tuneReq, serviceReq, waitingStc, active, data, lock>>
BY DEF FinishOne, FinishStale, FinishStopData, FinishStopAudio, StopFailed, FinishStartAudio,
       FinishStartData, FinishTune, FinishTuneStatus, FinishSignal, FinishServiceList,
       FinishServiceType, FinishMetadata, Finish, requestVars, listVars

\* The end of a command.
LEMMA FinishOutlined ==
  ASSUME SwitchInvariant, SwitchInvariant', NEW r \in Results, FinishOne(r)
  PROVE  Seen!OutlineNext
<1> DEFINE ok == r \in {"Ok", "NotAvailable"}
<1>1. /\ cmd # NoCmd /\ cmd' = NoCmd
      /\ [op |-> Outlined(cmd.op), gen |-> cmd.gen] # Seen!NoCmd
      /\ [op |-> Outlined(cmd'.op), gen |-> cmd'.gen] = Seen!NoCmd
      /\ Seen!Reconciles(ok)
  BY OwnersOutlined
<1>2. sw'.requestId = sw.requestId
  BY FinishKeepsRequest
<1>3. PICK done \in BOOLEAN : done = ok
  <2>1. ok => TRUE = ok
    OBVIOUS
  <2>2. ~ok => FALSE = ok
    OBVIOUS
  <2> HIDE DEF ok
  <2> QED
    BY <2>1, <2>2
<1> HIDE DEF ok
<1>4. CASE /\ stalled' = TRUE
           /\ UNCHANGED <<sw, generation, tuneReq, serviceReq, waitingStc, active, data, lock>>
  BY <1>1, <1>4 DEF Seen!FinishStalled, Seen!owned, Seen!OutlineNext
<1>5. CASE FinishStalled(r)
  BY <1>4, <1>5 DEF FinishStalled, requestVars, ownerVars, listVars
<1>6. CASE FinishStale(r)
  <2>1. /\ ~OfThisTune
        /\ UNCHANGED <<sw, generation, tuneReq, serviceReq, waitingStc, lock, stalled>>
    BY <1>6 DEF FinishStale, requestVars, listVars
  <2>2. Seen!FinishStale(done)
    BY <1>1, <1>3, <2>1 DEF Seen!FinishStale, Seen!OfThisTune, OfThisTune
  <2> QED
    BY <2>2 DEF Seen!Finish, Seen!OutlineNext
<1>7. CASE ~FinishStalled(r) /\ ~FinishStale(r) /\ stalled' = stalled
  <2>1. OfThisTune
    BY <1>7 DEF FinishOne, FinishStopData, FinishStopAudio, FinishStartAudio, FinishStartData,
                FinishTune, FinishTuneStatus, FinishSignal, FinishServiceList, FinishServiceType,
                FinishMetadata, Finish
  <2>2. Seen!Rests
    BY <1>1, <2>1, RestsThroughFinish, RestsAfter
  <2>3. /\ serviceReq' \in IF done /\ Outlined(cmd.op) = "StartAudio"
                           THEN {serviceReq, FALSE} ELSE {serviceReq}
        /\ tuneReq' \in IF ~done /\ Outlined(cmd.op) \in {"Tune", "TuneStatus"}
                        THEN {tuneReq, TRUE} ELSE {tuneReq}
        /\ waitingStc' = Seen!TuningAfter(done)
        /\ lock' \in IF done /\ Outlined(cmd.op) \in {"TuneStatus", "Background"} THEN BOOLEAN
                     ELSE {lock}
        /\ generation' = generation
    BY <1>7, <1>3, <2>1, RequestsOutlined DEF ok
  <2>4. Seen!FinishCurrent(done)
    BY <1>1, <1>2, <1>7, <1>3, <2>1, <2>2, <2>3
    DEF Seen!FinishCurrent, Seen!OfThisTune, OfThisTune
  <2> QED
    BY <2>4 DEF Seen!Finish, Seen!OutlineNext
<1> QED
  BY <1>4, <1>5, <1>6, <1>7, StopGivesUp

\* The driver implements the outline: every step of the detailed switch is a
\* step of what SpiProbe is composed with, or is not seen.
THEOREM SwitchImplementsOutline == Spec => SwitchIsOutlined
<1>1. Init => Seen!OutlineInit
  BY DEF Init, RequestSwitch, Fresh, NoCmd, Seen!OutlineInit, Seen!NoCmd, Outlined, Background
<1>2. SwitchInvariant /\ SwitchInvariant' /\ [Next]_vars => [Seen!OutlineNext]_(Seen!outline)
  <2> SUFFICES ASSUME SwitchInvariant, SwitchInvariant', [Next]_vars
               PROVE  Seen!OutlineNext \/ UNCHANGED Seen!outline
    OBVIOUS
  <2>1. CASE Request \/ Recover
    BY <2>1, RequestOutlined
  <2>2. CASE \/ Elapse \/ TuneRetryElapse \/ SignalDue \/ TunerSettles \/ PollStatus
             \/ UNCHANGED vars
    BY <2>2, EnvironmentUnseen
  <2>3. CASE Pass
    BY <2>3, ServicePassOutlined, QuietPassOutlined DEF Pass
  <2>4. CASE Finished
    <3>1. PICK r \in Results : FinishOne(r)
      BY <2>4 DEF Finished
    <3> QED
      BY <3>1, FinishOutlined
  <2> QED
    BY <2>1, <2>2, <2>3, <2>4 DEF Next
<1> QED
  BY <1>1, <1>2, SwitchInvariantHolds, PTL DEF Spec, SwitchIsOutlined, Seen!OutlineSpec
=============================================================================
