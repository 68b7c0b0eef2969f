---------------------------- MODULE SharedFiles ----------------------------
(***************************************************************************)
(* How the shared configuration reaches an agent.  The agent's keep-alive  *)
(* carries the checksum of its merged.mg; the manager compares it with the *)
(* one of the merged file it built from its shared directory, and on a     *)
(* difference sends the file: a header with the sum, the contents in       *)
(* pieces, a close message (remoted/manager.c).  The agent writes the      *)
(* pieces to merged.mg and, on close, compares the sums and unpacks the    *)
(* file or deletes it (client-agent/receiver.c).                           *)
(*                                                                         *)
(* Within a session of the agent messages get lost but, by the counters    *)
(* of msgs.c (SecMsg), arrive in order and at most once.  An agent that    *)
(* starts again takes its counter from a file written now and then, so     *)
(* that messages it had before may reach it once more.                     *)
(*                                                                         *)
(* A version stands for the contents of the shared directory.              *)
(***************************************************************************)
EXTENDS Naturals, Sequences

CONSTANTS
  Pieces,      \* messages the contents of a merged file take
  MaxVersion,  \* bound on the edits of the shared directory
  MaxFaults,   \* bound on losses, failed sends and restarts of the agent
  Capacity,    \* bound on the messages in flight
  Window       \* bound on the messages since the agent stored its counter

ASSUME PiecesAssumption == Pieces \in Nat \ {0}
ASSUME BoundsAssumption ==
  MaxVersion \in Nat /\ MaxFaults \in Nat /\ Capacity \in Nat /\ Window \in Nat

VARIABLES
  shared,     \* version in the manager's shared directory
  f_sum,      \* version of the manager's merged.mg, the sum in f_sum[0]
  notice,     \* sum in the control message saved for this agent, or none
  job,        \* send_file_toagent: what it sends next
  net,        \* messages above the agent's stored counter, in their order
  passed,     \* how many of them are not above the counter in its memory
  fp,         \* the agent's stream on merged.mg is open
  file,       \* the agent's `file' names a transfer
  file_sum,   \* the agent's `file_sum'
  merged,     \* the pieces in the agent's merged.mg, none if it is missing
  installed,  \* the pieces UnmergeFiles unpacked last
  faults,     \* faults so far (bound)
  stranded,   \* history: versions an agent left behind whole and not unpacked
  fresh,      \* history: the agent unpacked `installed' in this session
  again       \* history: versions whose headers a restart let through again

channel == <<net, passed>>
recorded == <<stranded, fresh, again>>
manager == <<shared, f_sum, notice, job>>
agent   == <<fp, file, file_sum, merged, installed>>
vars    == <<shared, f_sum, notice, job, net, passed, fp, file, file_sum,
             merged, installed, faults, stranded, fresh, again>>

Versions == 0 .. MaxVersion
Whole(v) == [k \in 1 .. Pieces |-> <<v, k>>]
Other    == MaxVersion + 1   \* the checksum of anything but a whole file
NoNotice == MaxVersion + 2

(* OS_MD5_File on the agent's merged.mg.  While the stream is open the     *)
(* last bytes written are still in its buffer.                             *)
Sum == IF \E v \in Versions : merged = Whole(v)
         THEN CHOOSE v \in Versions : merged = Whole(v)
         ELSE Other

NoJob  == [at |-> "none"]

Init ==
  /\ shared = 0
  /\ f_sum = 0
  /\ notice = NoNotice
  /\ job = NoJob
  /\ net = <<>>
  /\ passed = 0
  /\ fp = FALSE
  /\ file = FALSE
  /\ file_sum = Other
  /\ merged = Whole(0)
  /\ installed = Whole(0)
  /\ faults = 0
  /\ stranded = {}
  /\ fresh = FALSE
  /\ again = {}

Fault == faults < MaxFaults /\ faults' = faults + 1

-----------------------------------------------------------------------------
(* The manager.                                                            *)

(* The administrator edits a shared file.                                  *)
Edit ==
  /\ shared < MaxVersion
  /\ shared' = shared + 1
  /\ UNCHANGED <<f_sum, notice, job, channel, agent, faults, recorded>>

(* The loop of wait_for_msgs rebuilds merged.mg and its sum (f_files,      *)
(* c_files) every NOTIFY_TIME * 30 seconds, between two answers.           *)
c_files ==
  /\ job = NoJob
  /\ f_sum' = shared
  /\ UNCHANGED <<shared, notice, job, channel, agent, faults, recorded>>

(* Fault: the file is sent to an agent that already has it, never to one   *)
(* that has another.                                                       *)
ReadControlMsgInverted ==
  /\ notice # NoNotice
  /\ job = NoJob
  /\ notice' = NoNotice
  /\ job' = IF notice = f_sum THEN [at |-> "header", next |-> 1] ELSE NoJob
  /\ UNCHANGED <<shared, f_sum, channel, agent, faults, recorded>>

read_controlmsg ==
  /\ notice # NoNotice
  /\ job = NoJob
  /\ notice' = NoNotice
  /\ job' = IF notice # f_sum THEN [at |-> "header", next |-> 1] ELSE NoJob
  /\ UNCHANGED <<shared, f_sum, channel, agent, faults, recorded>>

Send(m) ==
  /\ Len(net) - passed < Capacity
  /\ net' = Append(net, m)
  /\ UNCHANGED <<shared, f_sum, notice, passed, agent, faults, recorded>>

SendHeader ==
  /\ job.at = "header"
  /\ Send([kind |-> "update", sum |-> f_sum])
  /\ job' = [at |-> "data", next |-> 1]

SendPiece ==
  /\ job.at = "data" /\ job.next <= Pieces
  /\ Send([kind |-> "data", piece |-> <<f_sum, job.next>>])
  /\ job' = [job EXCEPT !.next = @ + 1]

SendClose ==
  /\ job.at = "data" /\ job.next > Pieces
  /\ Send([kind |-> "close"])
  /\ job' = NoJob

send_file_toagent == SendHeader \/ SendPiece \/ SendClose

(* send_msg refuses: the agent has been silent for twice NOTIFY_TIME.      *)
SendRefused ==
  /\ job # NoJob
  /\ Fault
  /\ job' = NoJob
  /\ UNCHANGED <<shared, f_sum, notice, channel, agent, recorded>>

(* The agent gets past the next message.  Only the last Window of those it *)
(* is past can come again.                                                 *)
Pass ==
  /\ passed < Len(net)
  /\ IF passed < Window THEN passed' = passed + 1 /\ net' = net
                        ELSE passed' = passed /\ net' = Tail(net)

(* The message is lost, or late, and refused when it comes after later ones. *)
Lose ==
  /\ Pass
  /\ Fault
  /\ UNCHANGED <<manager, agent, recorded>>

-----------------------------------------------------------------------------
(* The agent.                                                              *)

(* run_notify sends the keep-alive; save_controlmsg replaces the message   *)
(* saved before.                                                           *)
run_notify ==
  /\ notice' = IF fp THEN Other ELSE Sum
  /\ UNCHANGED <<shared, f_sum, job, channel, agent, faults, recorded>>

(* Fault: messages are accepted in any order.                              *)
ArrivesInAnyOrder(m) ==
  \E k \in passed + 1 .. Len(net) :
    /\ m = net[k]
    /\ net' = SubSeq(net, 1, k - 1) \o SubSeq(net, k + 1, Len(net))
    /\ UNCHANGED passed

(* ReadSecMSG accepts a message above the counter, which it raises to it.  *)
Arrives(m) == Pass /\ m = net[passed + 1]

InFlight == {net[k] : k \in passed + 1 .. Len(net)}

(* fopen(file, "w") empties the file.                                      *)
ReceiveUpdate(m) ==
  /\ m.kind = "update"
  /\ Arrives(m)
  /\ fp' = TRUE
  /\ file' = TRUE
  /\ file_sum' = m.sum
  /\ merged' = <<>>
  /\ UNCHANGED <<manager, installed, faults, recorded>>

(* A message without a control header is a piece, if a stream is open.     *)
ReceiveData(m) ==
  /\ m.kind = "data"
  /\ Arrives(m)
  /\ merged' = IF fp THEN Append(merged, m.piece) ELSE merged
  /\ UNCHANGED <<manager, fp, file, file_sum, installed, faults, recorded>>

(* Fault: the sums are not compared.                                       *)
Unchecked == file

(* The sum of what was written is the one the header announced.            *)
Complete == file /\ Sum = file_sum

ReceiveClose(m) ==
  /\ m.kind = "close"
  /\ Arrives(m)
  /\ fp' = FALSE
  /\ file' = FALSE
  /\ installed' = IF Complete THEN merged ELSE installed
  /\ merged' = IF file /\ ~ Complete THEN <<>> ELSE merged
  /\ fresh' = (Complete \/ fresh)
  /\ UNCHANGED <<manager, file_sum, faults, stranded, again>>

receive_msg ==
  \E m \in InFlight : ReceiveUpdate(m) \/ ReceiveData(m) \/ ReceiveClose(m)

(* The agent stops and starts again.  exit() flushes the stream, so that a *)
(* whole file may be left that no close message unpacks any more; a crash  *)
(* loses what is in its buffer, of a file that holds a piece the last part *)
(* of it at least.  The counter falls back to the one stored                *)
(* (OS_StartCounter), so that copies of messages the agent is past are     *)
(* accepted again, from some message on and unless they get lost.          *)
Headers(from, to) ==
  {net[k].sum : k \in {i \in from .. to : net[i].kind = "update"}}

Restart ==
  /\ Fault
  /\ passed' \in 0 .. passed
  /\ again' = (IF fresh THEN {} ELSE again) \cup Headers(passed' + 1, passed)
  /\ fresh' = FALSE
  /\ \/ UNCHANGED merged
     \/ fp /\ \E k \in 0 .. Len(merged) - 1 : merged' = SubSeq(merged, 1, k)
  /\ stranded' = stranded \cup {v \in Versions : merged' = Whole(v) /\ installed # Whole(v)}
  /\ fp' = FALSE
  /\ file' = FALSE
  /\ file_sum' = Other
  /\ UNCHANGED <<manager, net, installed>>

-----------------------------------------------------------------------------
Next ==
  \/ Edit \/ c_files \/ read_controlmsg \/ send_file_toagent \/ SendRefused
  \/ Lose
  \/ run_notify \/ receive_msg \/ Restart

Spec == Init /\ [][Next]_vars

(* Both processes run; keep-alives recur; the loop of wait_for_msgs, woken *)
(* by each of them, finds the refresh interval elapsed again and again.    *)
FairSpec ==
  /\ Spec
  /\ WF_vars(run_notify) /\ WF_vars(receive_msg)
  /\ WF_vars(send_file_toagent) /\ WF_vars(read_controlmsg)
  /\ SF_vars(c_files)

-----------------------------------------------------------------------------
Piece == Versions \X (1 .. Pieces)

TypeOK ==
  /\ shared \in Versions /\ f_sum \in Versions
  /\ notice \in 0 .. NoNotice
  /\ job = NoJob \/ job \in [at : {"header", "data"}, next : 1 .. Pieces + 1]
  /\ passed \in 0 .. Window /\ passed <= Len(net)
  /\ fp \in BOOLEAN /\ file \in BOOLEAN
  /\ file_sum \in Versions \cup {Other}
  /\ merged \in Seq(Piece)
  /\ installed \in Seq(Piece)
  /\ faults \in 0 .. MaxFaults
  /\ stranded \subseteq Versions /\ again \subseteq Versions /\ fresh \in BOOLEAN

(* What the agent unpacks is one whole version, whatever was lost: never a *)
(* prefix, a file with a hole, or two transfers run together.              *)
InstalledIsWhole == \E v \in Versions : installed = Whole(v)

(* The types, and what is unpacked.                                        *)
TransferInv == TypeOK /\ InstalledIsWhole

(* The version the agent unpacked last.                                    *)
Version == installed[1][1]

(* Within a session the agent never goes back to an older version, however *)
(* many transfers are in flight.  It does only if it was stopped since it  *)
(* unpacked the newer one, and only to a version whose header, of those it *)
(* was past, the restart let through again.                                *)
NeverRollsBack == [][Version' < Version => ~ fresh /\ Version' \in again]_vars

(* "Every NOTIFY * 30 minutes, re-read the files.  If something changed,   *)
(* notify all agents" (wait_for_msgs): once the edits and the faults are   *)
(* over, the agent ends up on the current version, also one that went      *)
(* back.  The exception: an agent stopped between the last piece and the   *)
(* close message has a merged.mg whose sum tells the manager that nothing  *)
(* is to be sent, although it was never unpacked.                          *)
Converges == <>[](installed = Whole(shared) \/ shared \in stranded)
=============================================================================
