--------------------------- MODULE OrderedChannel ---------------------------
(***************************************************************************)
(* What the counters of the secure protocol promise a receiving daemon:    *)
(* in one session (from a start of the daemon, or a reload of its keys, to *)
(* the next) each peer's messages are delivered in the order they were     *)
(* created and none is delivered twice.  Messages may be lost.             *)
(*                                                                         *)
(* This is the specification SecMsg implements; it says nothing of         *)
(* counters, files or the network.                                         *)
(***************************************************************************)
EXTENDS Naturals

CONSTANT Agents

VARIABLES
  sent,  \* sent[a]: how many messages a has created
  last   \* last[a]: the last of them delivered in this session, 0 if none

vars == <<sent, last>>

Init ==
  /\ sent = [a \in Agents |-> 0]
  /\ last = [a \in Agents |-> 0]

Create(a) ==
  /\ sent' = [sent EXCEPT ![a] = @ + 1]
  /\ UNCHANGED last

Deliver(a) ==
  /\ \E n \in last[a] + 1 .. sent[a] : last' = [last EXCEPT ![a] = n]
  /\ UNCHANGED sent

NewSession ==
  /\ last' = [a \in Agents |-> 0]
  /\ UNCHANGED sent

Next ==
  \/ \E a \in Agents : Create(a) \/ Deliver(a)
  \/ NewSession

Spec == Init /\ [][Next]_vars
=============================================================================
