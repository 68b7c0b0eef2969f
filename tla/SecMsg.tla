------------------------------- MODULE SecMsg -------------------------------
(***************************************************************************)
(* The counters of the secure protocol (os_crypto/shared/msgs.c).  Every   *)
(* message carries the sender's counter, a pair global:local; the receiver *)
(* keeps the last counter accepted from each key and accepts only a larger *)
(* one.  Both ends write their counters to files under queue/rids, through *)
(* stdio streams nobody flushes, and read them back when they start        *)
(* (OS_StartCounter).  The network is UDP: a datagram may be lost,         *)
(* duplicated, delayed and reordered.                                      *)
(*                                                                         *)
(* Agents are the sending peers and the receiver is the manager, but both  *)
(* ends run this code: the other direction is the instance with one peer,  *)
(* where the messages the manager sends to other agents count as lost.     *)
(***************************************************************************)
EXTENDS Naturals

CONSTANTS
  Agents,      \* peers that hold a key
  Legacy,      \* the peers among them that still send the old format
  MaxLocal,    \* largest local counter (9997 in the code)
  RecvFlush,   \* remoted.recv_counter_flush
  MaxSent      \* bound on the messages a peer creates

ASSUME LegacyAssumption == Legacy \subseteq Agents
ASSUME MaxLocalAssumption == MaxLocal \in Nat \ {0}
ASSUME RecvFlushAssumption == RecvFlush \in Nat \ {0}
ASSUME MaxSentAssumption == MaxSent \in Nat

VARIABLES
  scount,     \* scount[a]: global_count and local_count of a
  sfile,      \* sfile[a]: a's rids/sender_counter
  sent,       \* sent[a]: messages created by a (history)
  wire,       \* datagrams ever sent; any of them may arrive, at any time
  saved,      \* saved[a]: keyentries[a]->global and ->local at the receiver
  rfile,      \* rfile[a]: the receiver's rids/<id of a>
  rcv_count,  \* accepted messages since the last StoreCounter, all peers
  last        \* last[a]: message of a accepted last in this session (history)

sender   == <<scount, sfile, sent, wire>>
receiver == <<saved, rfile, rcv_count, last>>
vars     == <<scount, sfile, sent, wire, saved, rfile, rcv_count, last>>

-----------------------------------------------------------------------------
(* Counters, compared global first as ReadSecMSG does.                     *)

Counter == [global : Nat, local : 0 .. MaxLocal]
Zero    == [global |-> 0, local |-> 0]

(* Faults of this code that the runs must notice are written before the    *)
(* definition they alter.  Here: >= in place of > in ReadSecMSG.           *)
LessOrEqual(c, d) == \/ c.global < d.global
                     \/ c.global = d.global /\ c.local <= d.local

Less(c, d) == \/ c.global < d.global
              \/ c.global = d.global /\ c.local < d.local
Leq(c, d)  == c = d \/ Less(c, d)

(* "Increase local and global counters" of CreateSecMSG.                   *)
Succ(c) == IF c.local >= MaxLocal
             THEN [global |-> c.global + 1, local |-> 1]
             ELSE [global |-> c.global, local |-> c.local + 1]

Message == [from : Agents, id : Nat, count : Counter]

-----------------------------------------------------------------------------
(* A counter file and the stream open on it: `disk' is what the file holds *)
(* and `buf' what it will hold once the stream is flushed.  Storing a      *)
(* counter is fseek, which flushes the previous one, then fprintf, which   *)
(* only fills the buffer: the file is one store behind.                    *)

Stream == [disk : Counter, buf : Counter]

(* Fault: the counter is stored without the fseek that flushes the stream. *)
StoredUnflushed(f, c) == [disk |-> f.disk, buf |-> c]

Stored(f, c) == [disk |-> f.buf, buf |-> c]
Closed(f)    == [disk |-> f.buf, buf |-> f.buf]
Dropped(f)   == [disk |-> f.disk, buf |-> f.disk]

-----------------------------------------------------------------------------
Init ==
  /\ scount = [a \in Agents |-> Zero]
  /\ sfile = [a \in Agents |-> [disk |-> Zero, buf |-> Zero]]
  /\ sent = [a \in Agents |-> 0]
  /\ wire = {}
  /\ saved = [a \in Agents |-> Zero]
  /\ rfile = [a \in Agents |-> [disk |-> Zero, buf |-> Zero]]
  /\ rcv_count = 0
  /\ last = [a \in Agents |-> 0]

Send(a, c) ==
  /\ sent[a] < MaxSent
  /\ scount' = [scount EXCEPT ![a] = c]
  /\ sent' = [sent EXCEPT ![a] = @ + 1]
  /\ wire' = wire \cup {[from |-> a, id |-> sent[a] + 1, count |-> c]}
  /\ UNCHANGED receiver

(* A peer of this release encrypts a message and sends it.                 *)
CreateSecMSG(a) ==
  LET c == Succ(scount[a]) IN
  /\ a \notin Legacy
  /\ Send(a, c)
  /\ sfile' = [sfile EXCEPT ![a] = Stored(@, c)]

(* A peer of an older release: its counter is the time of day and a count, *)
(* so it needs no file to keep it growing.                                 *)
LegacySend(a) ==
  LET c == [global |-> scount[a].global + 1, local |-> 1] IN
  /\ a \in Legacy
  /\ Send(a, c)
  /\ sfile' = [sfile EXCEPT ![a] = [disk |-> c, buf |-> c]]

(* ReadSecMSG accepts a datagram: its counter is newer than the saved one. *)
(* For a message of the current format the counter is stored on disk once  *)
(* every RecvFlush accepted messages, whoever sent them; for one of the    *)
(* old format, never.  A datagram that is not newer changes nothing.       *)
ReadSecMSG(m) ==
  LET a     == m.from
      flush == rcv_count >= RecvFlush
  IN
  /\ Less(saved[a], m.count)
  /\ saved' = [saved EXCEPT ![a] = m.count]
  /\ IF a \in Legacy
       THEN UNCHANGED <<rfile, rcv_count>>
       ELSE /\ rfile' = IF flush THEN [rfile EXCEPT ![a] = Stored(@, m.count)]
                                 ELSE rfile
            /\ rcv_count' = IF flush THEN 1 ELSE rcv_count + 1
  /\ last' = [last EXCEPT ![a] = m.id]
  /\ UNCHANGED sender

-----------------------------------------------------------------------------
(* Starts, stops and crashes.  A signal handler leaves through exit(),     *)
(* which flushes the streams; a kill -9 or a fault loses their buffers.    *)

(* The peer starts again on file f: OS_StartCounter reads its counter back. *)
StartSender(a, f) ==
  /\ a \notin Legacy
  /\ sfile' = [sfile EXCEPT ![a] = f]
  /\ scount' = [scount EXCEPT ![a] = f.disk]
  /\ UNCHANGED <<sent, wire>>
  /\ UNCHANGED receiver

SenderExit(a)  == StartSender(a, Closed(sfile[a]))
SenderCrash(a) == StartSender(a, Dropped(sfile[a]))

(* Fault: the counter files are opened with "w" and not with "r+".         *)
StartCounterTruncating(files) ==
  /\ rfile' = [a \in Agents |-> [disk |-> Zero, buf |-> Zero]]
  /\ saved' = [a \in Agents |-> Zero]
  /\ last' = [a \in Agents |-> 0]
  /\ UNCHANGED sender

(* A new session of the receiver: counters come back from the files.       *)
OS_StartCounter(files) ==
  /\ rfile' = files
  /\ saved' = [a \in Agents |-> files[a].disk]
  /\ last' = [a \in Agents |-> 0]
  /\ UNCHANGED sender

(* client.keys changed: OS_FreeKeys closes the streams, OS_ReadKeys and    *)
(* OS_StartCounter start over.  rcv_count is static and survives.          *)
OS_UpdateKeys ==
  /\ OS_StartCounter([a \in Agents |-> Closed(rfile[a])])
  /\ UNCHANGED rcv_count

ReceiverExit ==
  /\ OS_StartCounter([a \in Agents |-> Closed(rfile[a])])
  /\ rcv_count' = 0

ReceiverCrash ==
  /\ OS_StartCounter([a \in Agents |-> Dropped(rfile[a])])
  /\ rcv_count' = 0

Next ==
  \/ \E a \in Agents : \/ CreateSecMSG(a)
                       \/ LegacySend(a)
                       \/ SenderExit(a)
                       \/ SenderCrash(a)
  \/ \E m \in wire : ReadSecMSG(m)
  \/ OS_UpdateKeys
  \/ ReceiverExit
  \/ ReceiverCrash

Spec == Init /\ [][Next]_vars

-----------------------------------------------------------------------------
TypeOK ==
  /\ scount \in [Agents -> Counter]
  /\ sfile \in [Agents -> Stream]
  /\ sent \in [Agents -> Nat]
  /\ wire \in SUBSET Message
  /\ saved \in [Agents -> Counter]
  /\ rfile \in [Agents -> Stream]
  /\ rcv_count \in 0 .. RecvFlush
  /\ last \in [Agents -> Nat]

(* A peer that crashed and came back is at most one message behind what    *)
(* the receiver has accepted from it: its second message from then on is   *)
(* newer than the saved counter.  This rests on fseek flushing the stream. *)
SenderNotBehind ==
  \A a \in Agents : Leq(saved[a], Succ(scount[a]))

(* The counters are counters, also where they wrap, and that.              *)
CountersInv == TypeOK /\ SenderNotBehind

(* What reached the receiver's file stays a barrier through every reload,  *)
(* exit and crash: it never decreases, and nothing at or below it is       *)
(* accepted again.                                                         *)
StoredIsBarrier ==
  [][\A a \in Agents : /\ Leq(rfile[a].disk, rfile'[a].disk)
                       /\ Leq(rfile[a].disk, saved'[a])]_vars

(* Within a session, messages are delivered in the order of creation and   *)
(* at most once, whatever the network and crashes of the peers do.         *)
Channel == INSTANCE OrderedChannel
             WITH Agents <- Agents, sent <- sent, last <- last
InOrderOnce == Channel!Spec
=============================================================================
