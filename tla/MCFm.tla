-------------------------------- MODULE MCFm ---------------------------------
(* A small instance of FmScan and, with it, of FmReceiver. *)
EXTENDS FmScan

\* Two stations of one programme and one of another
MCProgramme == [f \in Freqs |-> IF f = 3 THEN 9 ELSE 8]

\* The first announces the other two, rightly and wrongly; those announce none.
MCAnnounced == [f \in Freqs |-> IF f = 1 THEN {2, 3} ELSE {}]
=============================================================================
