--------------------------- MODULE MCHistoryRing ---------------------------
(* HistoryRing with three slots: it fills, wraps and is cleared at every   *)
(* position of head.                                                       *)
EXTENDS HistoryRing
=============================================================================
