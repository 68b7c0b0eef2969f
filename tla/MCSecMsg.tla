------------------------------ MODULE MCSecMsg ------------------------------
(* SecMsg for TLC: two peers, one of an older release, counters that wrap  *)
(* after two messages and a receiver that stores every second one.         *)
EXTENDS SecMsg

MCAgents == {"current", "older"}
MCLegacy == {"older"}
=============================================================================
