---------------------------- MODULE MCDedupChannel ----------------------------
(* The channel on a circle of few numbers, so that the wrap is near.       *)
EXTENDS DedupChannel

(* The restarts the deduplicator notices: the receiver is so far along the *)
(* circle that the first number it hears of the new run, one of the first  *)
(* MaxGap, lies a window or more behind even the copies still in flight.   *)
FarRestart == {s \in SeqNum : s >= Window + MaxGap + Lag - 2}
==============================================================================
