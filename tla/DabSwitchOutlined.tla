-------------------------- MODULE DabSwitchOutlined --------------------------
(***************************************************************************)
(* DabSwitch implements SwitchOutline, the view of the switch that the EPG *)
(* packet receiver is composed with.                                       *)
(***************************************************************************)
EXTENDS MCDabSwitch

Outlined(op) == IF op \in Background THEN "Background" ELSE op

Seen == INSTANCE SwitchOutline WITH
  MaxRequests <- MaxRequests,
  request <- sw.requestId,
  generation <- generation,
  tuneReq <- tuneReq,
  serviceReq <- serviceReq,
  tuning <- waitingStc,
  audio <- active # None,
  sls <- data # None,
  settled <- sw.state \in {"Ready", "AudioOnly"},
  lock <- lock,
  stalled <- stalled,
  cmd <- [op |-> Outlined(cmd.op), gen |-> cmd.gen]

\* Every step of the detailed switch is a step of the outline.
SwitchIsOutlined == Seen!OutlineSpec
=============================================================================
