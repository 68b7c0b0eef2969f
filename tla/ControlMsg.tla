----------------------------- MODULE ControlMsg -----------------------------
(***************************************************************************)
(* The two threads of remoted that handle agents' control messages         *)
(* (remoted/manager.c).  The receiving thread saves each message           *)
(* (save_controlmsg) and wakes the other, which scans the agents for       *)
(* changed ones and answers each with the shared files it lacks            *)
(* (wait_for_msgs, read_controlmsg).                                       *)
(*                                                                         *)
(* A critical section under lastmsg_mutex is one step.  What the threads   *)
(* do between their critical sections is a step of its own.                *)
(***************************************************************************)
EXTENDS Integers

CONSTANTS
  KeySize,    \* keys.keysize: the agents are 0 .. KeySize - 1
  Messages,   \* contents of a control message: uname and checksums
  None        \* no message

ASSUME KeySizeAssumption == KeySize \in Nat \ {0}
ASSUME NoneAssumption == None \notin Messages

Agents == 0 .. KeySize - 1

VARIABLES
  msg,         \* _msg
  keep_alive,  \* keep_alive[i]: the agent file of i is written
  changed,     \* _changed
  modified,    \* modified_agentid
  rcv,         \* the receiving thread: where it is, and with whose message
  wait,        \* the waiting thread: where it is, the agent its scan is at
  newest,      \* the agent announced last, -1 before any (history)
  unread       \* unread[i]: i was announced and not read since (history)

history == <<newest, unread>>
controlVars == <<msg, keep_alive, changed, modified, rcv, wait, newest, unread>>

Idle == [at |-> "idle"]

ControlInit ==
  /\ msg = [i \in Agents |-> None]
  /\ keep_alive = [i \in Agents |-> FALSE]
  /\ changed = [i \in Agents |-> 0]
  /\ modified = -1
  /\ rcv = Idle
  /\ wait = [at |-> "top"]
  /\ newest = -1
  /\ unread = [i \in Agents |-> FALSE]

-----------------------------------------------------------------------------
(* The receiving thread.                                                   *)

(* HC_STARTUP only gets the acknowledgement and changes nothing here.      *)

(* The message is the one already saved: only the file's time changes.     *)
SaveSame(i) ==
  /\ rcv = Idle
  /\ keep_alive[i] /\ msg[i] # None
  /\ rcv' = [at |-> "notify", agent |-> i]
  /\ UNCHANGED <<msg, keep_alive, changed, modified, wait, history>>

(* A new message: the first critical section stores it.                    *)
SaveNew(i, m) ==
  /\ rcv = Idle
  /\ ~ (keep_alive[i] /\ msg[i] = m)
  /\ msg' = [msg EXCEPT ![i] = m]
  /\ rcv' = [at |-> "file", agent |-> i]
  /\ UNCHANGED <<keep_alive, changed, modified, wait, history>>

(* Its first line, the uname, goes to the agent's file.                    *)
WriteAgentFile ==
  /\ rcv.at = "file"
  /\ keep_alive' = [keep_alive EXCEPT ![rcv.agent] = TRUE]
  /\ rcv' = [at |-> "notify", agent |-> rcv.agent]
  /\ UNCHANGED <<msg, changed, modified, wait, history>>

(* ... or it has no line at all, and is dropped after having been stored.  *)
InvalidUname ==
  /\ rcv.at = "file"
  /\ rcv' = Idle
  /\ UNCHANGED <<msg, keep_alive, changed, modified, wait, history>>

Woken == IF wait.at = "asleep" THEN [at |-> "scan", i |-> 0] ELSE wait

(* The second critical section announces the change and signals.           *)
Notify ==
  /\ rcv.at = "notify"
  /\ changed' = [changed EXCEPT ![rcv.agent] = 1]
  /\ modified' = rcv.agent
  /\ wait' = Woken
  /\ rcv' = Idle
  /\ newest' = rcv.agent
  /\ unread' = [unread EXCEPT ![rcv.agent] = TRUE]
  /\ UNCHANGED <<msg, keep_alive>>

-----------------------------------------------------------------------------
(* The waiting thread.                                                     *)

(* The head of the loop refreshes the checksums and waits if no agent is   *)
(* announced; the test and pthread_cond_wait are one critical section.     *)
AwaitChange ==
  /\ wait.at = "top"
  /\ wait' = IF modified = -1 THEN [at |-> "asleep"] ELSE [at |-> "scan", i |-> 0]
  /\ UNCHANGED <<msg, keep_alive, changed, modified, rcv, history>>

(* pthread_cond_wait may return without a signal, and is not in a loop.    *)
SpuriousWakeup ==
  /\ wait.at = "asleep"
  /\ wait' = [at |-> "scan", i |-> 0]
  /\ UNCHANGED <<msg, keep_alive, changed, modified, rcv, history>>

(* Fault: the scan ends one agent early.                                   *)
NextAgentShort(i) == IF i + 2 < KeySize THEN [at |-> "scan", i |-> i + 1]
                                        ELSE [at |-> "top"]

NextAgent(i) == IF i + 1 < KeySize THEN [at |-> "scan", i |-> i + 1]
                                   ELSE [at |-> "top"]

SkipAgent ==
  /\ wait.at = "scan"
  /\ changed[wait.i] # 1 \/ msg[wait.i] = None
  /\ wait' = NextAgent(wait.i)
  /\ UNCHANGED <<msg, keep_alive, changed, modified, rcv, history>>

(* The critical section of the scan copies the message, clears the change, *)
(* and forgets the announcement if it was this agent or a later one.       *)
Take(forget) ==
  /\ wait.at = "scan"
  /\ changed[wait.i] = 1 /\ msg[wait.i] # None
  /\ changed' = [changed EXCEPT ![wait.i] = 0]
  /\ modified' = IF forget THEN -1 ELSE modified
  /\ wait' = [at |-> "read", i |-> wait.i, msg |-> msg[wait.i]]
  /\ unread' = [unread EXCEPT ![wait.i] = FALSE]
  /\ UNCHANGED <<msg, keep_alive, rcv, newest>>

(* Fault: the announcement is forgotten whichever agent it was.            *)
TakeForgetting == Take(TRUE)

TakeMessage == Take(modified >= wait.i)

(* Fault: the change is cleared when the answer is sent.                   *)
ReadThenClear ==
  /\ wait.at = "read"
  /\ wait' = NextAgent(wait.i)
  /\ changed' = [changed EXCEPT ![wait.i] = 0]
  /\ UNCHANGED <<msg, keep_alive, modified, rcv, history>>

(* read_controlmsg answers the copy, outside the lock; it may send a file. *)
AnswerMessage ==
  /\ wait.at = "read"
  /\ wait' = NextAgent(wait.i)
  /\ UNCHANGED <<msg, keep_alive, changed, modified, rcv, history>>

-----------------------------------------------------------------------------
KeepAlive(i)  == SaveSame(i) \/ \E m \in Messages : SaveNew(i, m)
WriteFileOf(i) == rcv.at = "file" /\ rcv.agent = i /\ WriteAgentFile

Receive == \/ \E i \in Agents : KeepAlive(i)
           \/ WriteAgentFile
           \/ InvalidUname
           \/ Notify

wait_for_msgs == AwaitChange \/ SkipAgent \/ TakeMessage \/ AnswerMessage

ControlNext == Receive \/ wait_for_msgs \/ SpuriousWakeup

ControlSpec == ControlInit /\ [][ControlNext]_controlVars

(* Both threads are scheduled.  Every agent goes on sending keep-alives,   *)
(* which carry a uname, and the network does not lose them all.            *)
FairControlSpec ==
  /\ ControlSpec
  /\ WF_controlVars(wait_for_msgs)
  /\ WF_controlVars(Notify)
  /\ \A i \in Agents : SF_controlVars(KeepAlive(i)) /\ SF_controlVars(WriteFileOf(i))

-----------------------------------------------------------------------------
ControlTypeOK ==
  /\ msg \in [Agents -> Messages \cup {None}]
  /\ keep_alive \in [Agents -> BOOLEAN]
  /\ changed \in [Agents -> {0, 1}]
  /\ modified \in Agents \cup {-1}
  /\ \/ rcv = Idle
     \/ rcv \in [at : {"file", "notify"}, agent : Agents]
  /\ \/ wait \in [at : {"top", "asleep"}]
     \/ wait \in [at : {"scan"}, i : Agents]
     \/ wait \in [at : {"read"}, i : Agents, msg : Messages]
  /\ newest \in Agents \cup {-1}
  /\ unread \in [Agents -> BOOLEAN]

(* The waiting thread never sleeps on an announcement: the test of         *)
(* modified_agentid and the wait are one critical section, and so are the  *)
(* announcement and the signal.                                            *)
AsleepOnlyIfIdle == wait.at = "asleep" => modified = -1

(* A change that the waiting thread sleeps on was overtaken: an agent with *)
(* a larger index was announced after it, during the same scan.  So the    *)
(* agent announced last, or the only one, is never the one overlooked.     *)
OverlookedOnlyIfOvertaken ==
  wait.at = "asleep" => \A i \in Agents : changed[i] = 1 => i < newest

(* An announced agent stays marked until its message is copied for an      *)
(* answer: no announcement slips in between the copy and the clearing.     *)
NothingUnread == \A i \in Agents : unread[i] => changed[i] = 1

(* The types, and the two threads' view of the announcements.              *)
ThreadsInv == ControlTypeOK /\ NothingUnread /\ AsleepOnlyIfIdle

(* "read_controlmsg (other thread) is going to deal with it": every        *)
(* announced message, or one that replaces it, is read.                    *)
EveryChangeIsRead ==
  \A i \in Agents : changed[i] = 1 ~> changed[i] = 0
=============================================================================
