----------------------------- MODULE MCSpiProbe -----------------------------
(***************************************************************************)
(* Small instances of SpiProbe: one or two packet components, which        *)
(* nothing in the module tells apart.                                      *)
(***************************************************************************)
EXTENDS SpiProbe, TLC
CONSTANTS p1, p2
MCSymmetry == Permutations(Components)
=============================================================================
