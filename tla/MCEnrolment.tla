---------------------------- MODULE MCEnrolment -----------------------------
(* Enrolment for TLC: nothing tells one host, tool or client from another.  *)
EXTENDS Enrolment, TLC

HostsAreAlike == Permutations(Hosts) \cup Permutations(Tools) \cup Permutations(Clients)
=============================================================================
