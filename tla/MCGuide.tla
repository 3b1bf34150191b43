------------------------------ MODULE MCGuide ------------------------------
(***************************************************************************)
(* The two halves of the programme guide, which share nothing but their    *)
(* turn: the packet probe (SpiProbe) and the store (EpgStore).  In each    *)
(* behaviour one of them runs and the other stays as it was at first.      *)
(*                                                                         *)
(* The store receives programme information of two stations for two days,  *)
(* one object of which replaces a programme of another, and service        *)
(* information that never becomes complete; in the second carousel one     *)
(* station has two names and the other an object that cannot be decoded.   *)
(***************************************************************************)
EXTENDS MCSpiProbe, EpgStore

Of(b, i, d, v) == [bearer |-> b, id |-> i, day |-> d, version |-> v]
Named(b, n) == [bearer |-> b, name |-> n]
PI(b, d, n, holds) ==
  [kind |-> "PI", bearer |-> b, day |-> d, segments |-> n, valid |-> TRUE, holds |-> holds]
SI(n, holds) ==
  [kind |-> "SI", bearer |-> 0, day |-> 0, segments |-> n, valid |-> TRUE, holds |-> holds]

MCObject ==
  [t \in Objects |->
     CASE t = 11 -> PI(1, 1, 2, <<Of(1, 1, 1, 1), Of(1, 2, 1, 1)>>)
       [] t = 12 -> PI(1, 0, 1, <<Of(1, 1, 1, 2), Of(1, 1, 2, 1)>>)
       [] t = 13 -> PI(2, 1, 1, <<Of(2, 1, 1, 1)>>)
       [] t \in {14, 15} -> SI(2, <<Named(1, "x")>>)
       [] t = 16 -> SI(1, <<Named(1, "x"), Named(1, "y")>>)
       [] t = 17 -> [PI(2, 1, 1, <<>>) EXCEPT !.valid = FALSE]]
MCCarousels == <<{11, 12, 13, 14, 15}, {12, 13, 16, 17}>>
\* Fewer objects for the run with fairness.
MCFewCarousels == <<{11, 12, 14, 15}, {12, 14}>>
MCWithheld == {<<14, 1>>, <<15, 1>>}

VARIABLE half

GuideInit == half \in {"Probe", "Store"} /\ Init /\ EpgInit

OnlyProbe == half = "Probe" /\ UNCHANGED <<half, epgVars>>
OnlyStore == half = "Store" /\ UNCHANGED <<half, vars>>

GuideNext ==
  \/ OnlyProbe /\ Next
  \/ OnlyStore /\ EpgNext

guideVars == <<half, vars, epgVars>>
GuideSpec == GuideInit /\ [][GuideNext]_guideVars

\* The fairness of SpiProbe and of EpgStore: one half runs, so that the conjunction of
\* WF(A) for both halves is WF of the disjunction.
GuideFairSpec ==
  /\ GuideSpec
  /\ WF_guideVars((OnlyProbe /\ Pass) \/ (OnlyStore /\ EpgPoll))
  /\ WF_guideVars((OnlyProbe /\ Completes) \/ (OnlyStore /\ ReceivePI))
  /\ WF_guideVars((OnlyProbe /\ ProbeElapse) \/ (OnlyStore /\ ExpireSlot(1)))
  /\ WF_guideVars((OnlyProbe /\ AutoElapse) \/ (OnlyStore /\ ExpireSlot(2)))
  /\ WF_guideVars(OnlyProbe /\ ColdRecovery)
  /\ WF_guideVars(OnlyProbe /\ \E result \in Outcomes : Discovered(result))
  /\ SF_guideVars(OnlyProbe /\ PassProbeStart)

\* Each half keeps its types.
GuideTypeOK == half \in {"Probe", "Store"} /\ TypeOK /\ EpgTypeOK
=============================================================================
