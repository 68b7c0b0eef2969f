---------------------------- MODULE MCSyscheckd -----------------------------
(* Two files; the second may be missing at first.                          *)
EXTENDS Syscheckd

MCFiles  == {"f", "g"}
MCSums   == {"s", "t"}
MCMaxEdits == [x \in MCFiles |-> IF x = "f" THEN 4 ELSE 0]
MCStarts == {[x \in MCFiles |-> "s"], [x \in MCFiles |-> IF x = "f" THEN "s" ELSE Deleted]}
=============================================================================
