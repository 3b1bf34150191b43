----------------------------- MODULE MCDabSwitch -----------------------------
(* Small instances of DabSwitch: two services on one channel, and in most    *)
(* runs a third one on another channel.                                      *)
EXTENDS DabSwitch, TLC

CONSTANTS s1, s2, s3, f1, f2

MCEnsemble == [s \in Services |-> IF s = s3 THEN f2 ELSE f1]

\* Every command may fail, or every command but those of a tune.
AllOps == ServiceOps \cup TuneOps \cup Background
AllButTunes == AllOps \ TuneOps

\* s1 and s2 are carried by the same channel and nothing tells them apart.
MCSymmetry == Permutations({s1, s2})
=============================================================================
