------------------------------ MODULE DsrvDrain ------------------------------
(***************************************************************************)
(* Draining the data service queue of the tuner (slideshow and programme   *)
(* guide packets): the interrupt tracker dab_health::Dsrv of               *)
(* src/src/dab_receive_health.h, the status callback of src/src/si4684.cpp *)
(* that feeds it, and the part of the scheduler that shares the one        *)
(* command at a time between draining, the RF status and the metadata.     *)
(*                                                                         *)
(* The tuner is external: a queue of blocks and an interrupt bit, which a  *)
(* read acknowledges.  The counters sequence/atStart of the tracker are    *)
(* modelled by what is asked of them, "did an edge come since the read     *)
(* started" (fresh); epoch/requestEpoch by a read that is no longer in     *)
(* flight.  dabDsrvPending equals pending of the tracker at every line     *)
(* that reads it.                                                          *)
(*                                                                         *)
(* ForgetBacklog, AlwaysVerify and GreedyWork are faulty variants of the   *)
(* operator that follows them.                                             *)
(***************************************************************************)
EXTENDS Naturals

CONSTANTS
  QueueSize,      \* blocks the tuner holds
  BurstLimit,     \* DAB_MAX_DSRV_BURST
  MaxErrors,      \* bound: reads that are refused, lost or damaged
  MaxTunes,       \* bound: changes of the frequency
  QuietVerify     \* TRUE: nothing goes wrong, and no block arrives, within a verification read

ASSUME DrainAssumption ==
  /\ QueueSize \in Nat \ {0} /\ BurstLimit \in Nat \ {0}
  /\ MaxErrors \in Nat /\ MaxTunes \in Nat
  /\ QuietVerify \in BOOLEAN

VARIABLES
  blocks,       \* external: blocks queued in the tuner
  irq,          \* external: the DSRV interrupt bit of the status bytes
  irqHeld,      \* external: what keeps the bit set after it was acknowledged
  dsrv,         \* dabDsrvEvents
  command,      \* dabCommand, as far as draining tells commands apart
  answer,       \* what the tuner answered to the read in flight
  outdated,     \* the command in flight belongs to an earlier dabGeneration
  burst,        \* dabDsrvBurstCount
  signalDue,    \* dabSignalRefreshPending
  lowDue,       \* lowPriorityPending: some metadata command may be sent
  tuneWanted,   \* dabTuneRequestPending
  sinceSignal,  \* commands since the last RF status, up to BurstLimit + 1
  drainBounds   \* bound: [errors, tunes] so far

tuner == <<blocks, irq, irqHeld>>
turns == <<burst, signalDue, lowDue, sinceSignal>>
drainVars == <<tuner, dsrv, command, answer, outdated, turns, tuneWanted, drainBounds>>

Tracker ==
  [ level : BOOLEAN, pending : BOOLEAN, inFlight : BOOLEAN,
    verification : BOOLEAN, delayed : BOOLEAN, fresh : BOOLEAN ]

\* Dsrv::reset
NoInterrupt ==
  [ level |-> FALSE, pending |-> FALSE, inFlight |-> FALSE,
    verification |-> FALSE, delayed |-> FALSE, fresh |-> FALSE ]

Held == {"Never", "WhileQueued", "Always"}
Answers == [bytes : BOOLEAN, buffers : 0..QueueSize, valid : BOOLEAN]
NoAnswer == [bytes |-> FALSE, buffers |-> 0, valid |-> FALSE]

DrainTypeOK ==
  /\ blocks \in 0..QueueSize /\ irq \in BOOLEAN /\ irqHeld \in Held
  /\ dsrv \in Tracker
  /\ command \in {"None", "Read", "Answered", "Other"}
  /\ answer \in Answers
  /\ outdated \in BOOLEAN
  /\ burst \in 0..BurstLimit
  /\ signalDue \in BOOLEAN /\ lowDue \in BOOLEAN
  /\ tuneWanted \in BOOLEAN
  /\ sinceSignal \in 0..(BurstLimit + 1)
  /\ drainBounds \in [errors : 0..MaxErrors, tunes : 0..MaxTunes]

DrainInit ==
  /\ blocks = 0 /\ irqHeld \in Held /\ irq = (irqHeld = "Always")
  /\ dsrv = NoInterrupt
  /\ command = "None" /\ answer = NoAnswer /\ outdated = FALSE
  /\ burst = 0 /\ signalDue = FALSE /\ lowDue = FALSE
  /\ tuneWanted = FALSE /\ sinceSignal = 0
  /\ drainBounds = [errors |-> 0, tunes |-> 0]

-----------------------------------------------------------------------------
(* The tracker. *)

\* Dsrv::status
Status(d, high) ==
  IF high /\ ~d.level
  THEN [d EXCEPT !.level = TRUE, !.pending = TRUE, !.verification = FALSE, !.fresh = TRUE]
  ELSE [d EXCEPT !.level = high]

\* Dsrv::start
StartRead(d) == [d EXCEPT !.inFlight = TRUE, !.pending = FALSE, !.fresh = FALSE]

\* The blocks that remain are left to the next interrupt.
ForgetBacklog(d, a) ==
  LET again  == d.fresh
      verify == ~again /\ d.level /\ ~d.verification /\ (a.bytes \/ ~a.valid)
  IN [d EXCEPT !.inFlight = FALSE, !.pending = again \/ verify,
               !.verification = IF again THEN FALSE ELSE d.verification \/ verify,
               !.delayed = ~a.valid]

\* A level that stays high is verified over and over.
AlwaysVerify(d, a) ==
  LET again  == d.fresh \/ (a.valid /\ a.buffers > 0)
      verify == ~again /\ d.level
  IN [d EXCEPT !.inFlight = FALSE, !.pending = again \/ verify,
               !.verification = IF again THEN FALSE ELSE d.verification \/ verify,
               !.delayed = ~a.valid]

\* Dsrv::finish of the read in flight
FinishRead(d, a) ==
  LET again  == d.fresh \/ (a.valid /\ a.buffers > 0)
      verify == ~again /\ d.level /\ ~d.verification /\ (a.bytes \/ ~a.valid)
  IN [d EXCEPT !.inFlight = FALSE, !.pending = again \/ verify,
               !.verification = IF again THEN FALSE ELSE d.verification \/ verify,
               !.delayed = ~a.valid]

\* Dsrv::ready
ReadyToRead == dsrv.pending /\ ~dsrv.delayed

-----------------------------------------------------------------------------
(* The tuner. *)

\* A verification read is on its way and nothing may disturb it.
Undisturbed == QuietVerify /\ dsrv.inFlight /\ dsrv.verification

\* A block is received; a full queue loses it.
Receive ==
  /\ ~(Undisturbed /\ command = "Answered")
  /\ blocks' = IF blocks < QueueSize THEN blocks + 1 ELSE blocks
  /\ irq' = TRUE
  /\ UNCHANGED <<irqHeld, dsrv, command, answer, outdated, turns, tuneWanted, drainBounds>>

\* The read is executed: the oldest block leaves and the interrupt is acknowledged.
AnswerRead ==
  /\ command = "Read"
  /\ command' = "Answered"
  /\ LET left == IF blocks > 0 THEN blocks - 1 ELSE 0 IN
       /\ blocks' = left
       /\ irq' = (irqHeld = "Always" \/ (irqHeld = "WhileQueued" /\ left > 0))
       /\ answer' = [bytes |-> blocks > 0, buffers |-> left, valid |-> TRUE]
  /\ UNCHANGED <<irqHeld, dsrv, outdated, turns, tuneWanted, drainBounds>>

\* The read is refused, or its answer is damaged or does not come.
SpoilRead ==
  /\ drainBounds.errors < MaxErrors /\ ~Undisturbed
  /\ \/ command = "Read"
     \/ command = "Answered" /\ answer.valid
  /\ drainBounds' = [drainBounds EXCEPT !.errors = @ + 1]
  /\ command' = "Answered" /\ answer' = [answer EXCEPT !.valid = FALSE]
  /\ UNCHANGED <<tuner, dsrv, outdated, turns, tuneWanted>>

-----------------------------------------------------------------------------
(* The driver. *)

\* statusChanged, for status bytes read outside a completion
PollStatus ==
  /\ dsrv' = Status(dsrv, irq)
  /\ UNCHANGED <<tuner, command, answer, outdated, turns, tuneWanted, drainBounds>>

\* The read completes: the status bytes of its own reply are seen first.
\* A completion of an earlier generation resets the tracker instead.
CompleteRead ==
  /\ command = "Answered"
  /\ dsrv' = IF outdated THEN NoInterrupt ELSE FinishRead(Status(dsrv, irq), answer)
  /\ command' = "None" /\ answer' = NoAnswer /\ outdated' = FALSE
  /\ UNCHANGED <<tuner, turns, tuneWanted, drainBounds>>

CompleteOther ==
  /\ command = "Other"
  /\ dsrv' = IF outdated THEN NoInterrupt ELSE Status(dsrv, irq)
  /\ command' = "None" /\ outdated' = FALSE
  /\ UNCHANGED <<tuner, answer, turns, tuneWanted, drainBounds>>

\* The 20 ms after a failed read are over.
BackoffOver ==
  /\ dsrv.delayed
  /\ dsrv' = [dsrv EXCEPT !.delayed = FALSE]
  /\ UNCHANGED <<tuner, command, answer, outdated, turns, tuneWanted, drainBounds>>

\* A burst that is not counted.
GreedyWork ==
  CASE ReadyToRead -> "Dsrv"
    [] ~ReadyToRead /\ signalDue -> "Signal"
    [] ~ReadyToRead /\ ~signalDue /\ lowDue -> "Low"
    [] OTHER -> "None"

\* chooseBackgroundWork
BackgroundWork ==
  IF ReadyToRead /\ burst < BurstLimit THEN "Dsrv"
  ELSE IF signalDue THEN "Signal"
  ELSE IF lowDue THEN "Low"
  ELSE IF ReadyToRead THEN "Dsrv"
  ELSE "None"

NextBurst == IF burst >= BurstLimit THEN 1 ELSE burst + 1

Free == command = "None" /\ ~tuneWanted

Counted == sinceSignal' = IF sinceSignal <= BurstLimit THEN sinceSignal + 1 ELSE sinceSignal

ScheduleRead ==
  /\ Free /\ BackgroundWork = "Dsrv"
  /\ burst' = NextBurst
  /\ dsrv' = StartRead(dsrv)
  /\ command' = "Read" /\ Counted
  /\ UNCHANGED <<tuner, answer, outdated, signalDue, lowDue, tuneWanted, drainBounds>>

ScheduleSignal ==
  /\ Free /\ BackgroundWork = "Signal"
  /\ burst' = 0 /\ signalDue' = FALSE /\ sinceSignal' = 0
  /\ command' = "Other"
  /\ UNCHANGED <<tuner, dsrv, answer, outdated, lowDue, tuneWanted, drainBounds>>

ScheduleLow ==
  /\ Free /\ BackgroundWork = "Low"
  /\ burst' = 0 /\ lowDue' = FALSE /\ Counted
  /\ command' = "Other"
  /\ UNCHANGED <<tuner, dsrv, answer, outdated, signalDue, tuneWanted, drainBounds>>

\* The RF status is due again; its period is longer than a burst and one more command.
SignalComesDue ==
  /\ ~signalDue
  /\ sinceSignal > BurstLimit \/ BackgroundWork = "None"
  /\ signalDue' = TRUE
  /\ UNCHANGED <<tuner, dsrv, command, answer, outdated, burst, lowDue, sinceSignal,
                 tuneWanted, drainBounds>>

LowComesDue ==
  /\ ~lowDue
  /\ lowDue' = TRUE
  /\ UNCHANGED <<tuner, dsrv, command, answer, outdated, burst, signalDue, sinceSignal,
                 tuneWanted, drainBounds>>

\* DAB::setFreq, as far as draining sees it
RequestTune ==
  /\ drainBounds.tunes < MaxTunes
  /\ drainBounds' = [drainBounds EXCEPT !.tunes = @ + 1]
  /\ tuneWanted' = TRUE
  /\ dsrv' = NoInterrupt
  /\ signalDue' = FALSE /\ lowDue' = FALSE
  /\ outdated' = (command # "None")
  /\ UNCHANGED <<tuner, command, answer, burst, sinceSignal>>

\* The tune is carried out: the tuner forgets the old ensemble's blocks,
\* and the status bytes of the reply show it.
CarryOutTune ==
  /\ tuneWanted /\ command = "None"
  /\ tuneWanted' = FALSE
  /\ blocks' = 0 /\ irq' = (irqHeld = "Always")
  /\ dsrv' = Status(dsrv, irqHeld = "Always")
  /\ UNCHANGED <<irqHeld, command, answer, outdated, turns, drainBounds>>

DrainNext ==
  \/ Receive \/ AnswerRead \/ SpoilRead
  \/ PollStatus \/ CompleteRead \/ CompleteOther \/ BackoffOver
  \/ ScheduleRead \/ ScheduleSignal \/ ScheduleLow
  \/ SignalComesDue \/ LowComesDue
  \/ RequestTune \/ CarryOutTune

DrainSpec == DrainInit /\ [][DrainNext]_drainVars

\* The main loop polls the status bytes and runs the scheduler for ever, and the
\* transport ends every command (an answer or its own time-out).
DrainFairness ==
  /\ WF_drainVars(PollStatus)
  /\ WF_drainVars(AnswerRead)
  /\ WF_drainVars(CompleteRead)
  /\ WF_drainVars(CompleteOther)
  /\ WF_drainVars(BackoffOver)
  /\ WF_drainVars(ScheduleRead \/ ScheduleSignal \/ ScheduleLow \/ CarryOutTune)

DrainFairSpec == DrainSpec /\ DrainFairness

-----------------------------------------------------------------------------
(* Properties. *)

\* While the tuner raises its interrupt over queued blocks, a read is wanted or on its
\* way, or the rising edge that asks for one is still to be seen: Dsrv::finish drops
\* pending only when nothing can be left behind, as long as nothing arrives or fails
\* within a verification read (QuietVerify).
InterruptNotLost ==
  (irqHeld # "Always" /\ irq /\ blocks > 0) => dsrv.pending \/ dsrv.inFlight \/ ~dsrv.level

\* Continuous data starves neither the RF status nor the metadata, and draining comes to rest
\* when nothing more is received, even when the interrupt bit never falls: the verification
\* read is bounded.
TurnsTaken ==
  /\ []<>~signalDue /\ []<>~lowDue
  /\ <>[](blocks = 0) => <>[](command \notin {"Read", "Answered"})
=============================================================================
