------------------------------ MODULE EpgPolicy ------------------------------
(***************************************************************************)
(* The pure part of the EPG packet receiver: epg_auto::Policy of           *)
(* src/src/epg_auto_suspend.h, which decides when an empty EPG carousel is *)
(* stopped and looked at again, and dab_probe::Probe of                    *)
(* src/src/dab_spi_probe.h, which owns the START and STOP of the packet    *)
(* component.  Operators from a record to a record; SpiProbe drives them.  *)
(*                                                                         *)
(* Time is abstracted to one flag per record: "waiting" says that the next *)
(* deadline lies in the future.  Fields that no later step reads are put   *)
(* back to their initial value, so that they tell no states apart.         *)
(*                                                                         *)
(* SwappedBaseline, StopUncertainIdle and CoolAnyway are faulty variants   *)
(* of the operator that follows them.                                      *)
(***************************************************************************)
EXTENDS Naturals

CONSTANTS
  NoComponent,     \* Endpoint::valid is false
  MaxStopAttempts  \* the three STOPs of Probe::stopped

ASSUME AttemptAssumption == MaxStopAttempts \in Nat \ {0}

-----------------------------------------------------------------------------
(* Probe. *)

ProbeState ==
  { "Idle", "Baseline", "StartRequested", "Starting", "Observing",
    "StopRequested", "Stopping", "CleanupFailed" }

NoProbe ==
  [ state |-> "Idle", spi |-> NoComponent, request |-> 0, sls |-> FALSE,
    attempts |-> 0, cancel |-> FALSE, waiting |-> FALSE ]

Running(p) == p.state \notin {"Idle", "CleanupFailed"}

\* Two arguments in each other's place.
SwappedBaseline(spi, request, sls) ==
  [NoProbe EXCEPT !.state = "Baseline", !.spi = request, !.request = spi, !.sls = sls,
                  !.waiting = TRUE]

\* Probe::request; the caller has found an endpoint distinct from audio and sls.
Baseline(spi, request, sls) ==
  [NoProbe EXCEPT !.state = "Baseline", !.spi = spi, !.request = request, !.sls = sls,
                  !.waiting = TRUE]

StopRequested(p, later) ==
  [p EXCEPT !.state = "StopRequested", !.cancel = FALSE, !.waiting = later]

\* Probe::stop.  While START is at the tuner it can only be remembered.
StopProbe(p) ==
  CASE p.state \in {"Baseline", "StartRequested"} -> NoProbe
    [] p.state = "Observing" -> StopRequested(p, FALSE)
    [] p.state = "Starting" -> [p EXCEPT !.cancel = TRUE]
    [] OTHER -> p

\* Probe::advance
Advance(p, sameContext) ==
  LET q == IF ~sameContext /\ Running(p) THEN StopProbe(p) ELSE p IN
  IF q.waiting THEN q
  ELSE CASE q.state = "Baseline"  -> [q EXCEPT !.state = "StartRequested"]
         [] q.state = "Observing" -> StopRequested(q, FALSE)
         [] OTHER -> q

\* An uncertain START that is simply forgotten.
StopUncertainIdle(p, ok, uncertain) ==
  IF ok /\ ~p.cancel THEN [p EXCEPT !.state = "Observing", !.waiting = TRUE]
  ELSE IF ok THEN StopRequested(p, FALSE) ELSE NoProbe

\* Probe::started
ProbeStarted(p, ok, uncertain) ==
  IF ok /\ ~p.cancel THEN [p EXCEPT !.state = "Observing", !.waiting = TRUE]
  ELSE IF ok \/ uncertain THEN StopRequested(p, FALSE)
  ELSE NoProbe

\* Probe::stopped; the endpoint is kept when the cleanup has failed.
ProbeStopped(p, ok) ==
  IF ok THEN NoProbe
  ELSE IF p.attempts >= MaxStopAttempts
       THEN [p EXCEPT !.state = "CleanupFailed", !.waiting = FALSE]
  ELSE StopRequested(p, TRUE)

-----------------------------------------------------------------------------
(* Policy. *)

PolicyState ==
  { "Disabled", "Ineligible", "Active", "StopPending", "Cooldown", "RecheckStart",
    "RecheckActive", "Error" }

Suspended(p) == p.state \in {"Cooldown", "Error"}
Receiving(p) == p.state \in {"Active", "RecheckActive"}

\* Policy::reset; the context is kept for the next sync.
ResetPolicy(p) ==
  [p EXCEPT !.state = IF p.enabled THEN "Ineligible" ELSE "Disabled",
            !.eligible = FALSE, !.empty = FALSE, !.waiting = FALSE]

\* Policy::sync.  A suspension outlives a scan that withdraws the endpoint.
Sync(p, context, usable, pendingDiscovery) ==
  IF p.enabled /\ p.context = context /\ Suspended(p) /\ (usable \/ pendingDiscovery)
  THEN [p EXCEPT !.eligible = usable]
  ELSE IF p.context # context \/ p.eligible # (p.enabled /\ usable)
  THEN [ResetPolicy(p) EXCEPT
          !.context = context, !.eligible = p.enabled /\ usable,
          !.state = IF ~p.enabled THEN "Disabled"
                    ELSE IF usable THEN "Active" ELSE "Ineligible"]
  ELSE p

\* Policy::directory: content resumes reception; an empty directory counts, and
\* "confirms" when it is the last of the repetitions within the window.
DirectoryRead(p, content, confirms) ==
  IF ~(p.eligible /\ Receiving(p)) THEN p
  ELSE IF content THEN [p EXCEPT !.state = "Active", !.empty = FALSE, !.waiting = FALSE]
  ELSE [p EXCEPT !.empty = confirms]

\* Policy::stopDue: the directory is known to be empty, or a recheck is over.
StopDue(p, observing) ==
  /\ p.eligible /\ observing /\ Receiving(p)
  /\ p.empty \/ (p.state = "RecheckActive" /\ ~p.waiting)

Suspend(p) == [p EXCEPT !.state = "StopPending", !.empty = FALSE, !.waiting = FALSE]

\* Policy::allowStart and what it does to the policy.
AllowsStart(p) ==
  /\ p.state # "StopPending"
  /\ Suspended(p) => p.eligible /\ ~p.waiting

Reopened(p) ==
  IF Suspended(p) /\ AllowsStart(p) THEN [p EXCEPT !.state = "RecheckStart"] ELSE p

\* Policy::started
PolicyStarted(p, ok, uncertain) ==
  IF ~p.eligible THEN p
  ELSE IF ok THEN IF p.state = "RecheckStart"
                  THEN [p EXCEPT !.state = "RecheckActive", !.waiting = TRUE] ELSE p
  ELSE IF uncertain THEN Suspend(p)
  ELSE [p EXCEPT !.state = "Error", !.waiting = TRUE]

\* A STOP that was not confirmed is taken for one that was.
CoolAnyway(p, ok) ==
  IF p.state = "StopPending" THEN [p EXCEPT !.state = "Cooldown", !.waiting = TRUE] ELSE p

\* Policy::stopped
PolicyStopped(p, ok) ==
  IF p.state = "StopPending" /\ ok
  THEN [p EXCEPT !.state = "Cooldown", !.waiting = TRUE] ELSE p
=============================================================================
