--------------------------- MODULE MCRtcProtocol ---------------------------
(* Small instances of RtcProtocol for TLC.  The .cfg files choose the     *)
(* ring size, the data and probe suffix ranges and the limits; this       *)
(* module gives the sets that a .cfg cannot write: one path label, and    *)
(* the window sizes a rate or BDP estimate may yield.                     *)
EXTENDS RtcProtocol

CONSTANT p1

MCPaths == {p1}

\* one estimate: the window never has to shrink below the current one
MCWinSizes == {2}

\* a small and a large estimate: maxCWin_ may fall below currentCWin_
MCWinSizesWide == {1, 3}

=============================================================================
