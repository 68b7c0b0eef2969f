----------------------------- MODULE AgentConn ------------------------------
(***************************************************************************)
(* agentd (src/src/client-agent): the handshake with one of its servers,   *)
(* the loop that receives from the server and forwards what the collectors *)
(* of the host put into the local queue, and the wait file that holds the  *)
(* collectors back while there is no server.                               *)
(*                                                                         *)
(* agentd is one thread: start_agent runs inside run_notify, which runs at *)
(* the top of the loop and also after each event inside EventForward.  The *)
(* clock is abstracted to the two ages the code computes: of the last      *)
(* message of the server (time(0) - available_server) and of the last      *)
(* keep-alive (time(0) - g_saved_time).  Time passes where agentd sleeps   *)
(* or waits, and while it forwards.  Names of servers always resolve.      *)
(*                                                                         *)
(* A message of the server counts if receive_msg sets available_server for *)
(* it.  One that ReadSecMSG refuses (spoilt, or twice or late on the way), *)
(* or a piece of a file that is not open, does not count.                  *)
(***************************************************************************)
EXTENDS Naturals, Sequences, FiniteSets

CONSTANTS
    NumServers,    \* agt->rip[0 .. NumServers - 1], here 1 .. NumServers
    RECONNECT,     \* agt->max_time_reconnect_try
    NOTIFY,        \* agt->notify_time
    ATTEMPTS,      \* 5: receptions that may fail, less one, before the next server
    RESEND,        \* 3: failures after which the start-up message is sent again
    TRIES,         \* 5: attempts of SendMSG on a full queue
    QueueLen,      \* messages the local queue holds
    InboxLen,      \* messages the socket of the agent holds
    MaxOrders,     \* bound: active responses the server sends
    MaxFaults,     \* bound: times a server stops or starts, requests or answers lost,
                   \* messages that do not count
    MaxStarts      \* bound: starts of agentd

ASSUME AgentAssumption ==
    /\ NumServers \in Nat \ {0} /\ QueueLen \in Nat \ {0} /\ InboxLen \in Nat \ {0}
    /\ RECONNECT \in Nat /\ NOTIFY \in 1 .. RECONNECT
    /\ ATTEMPTS \in Nat /\ RESEND \in Nat /\ TRIES \in Nat \ {0}
    /\ MaxOrders \in Nat /\ MaxFaults \in Nat /\ MaxStarts \in Nat \ {0}

Servers  == 1 .. NumServers
Orders   == 1 .. MaxOrders
Ack      == 0          \* HC_ACK; a positive number is an active response
Refused  == MaxOrders + 1        \* a message that does not count
Messages == {Ack, Refused} \cup Orders

VARIABLES
    pc,        \* where agentd is: down, starting, handshake, closing, loop, select,
               \* receive, forward
    back,      \* where start_agent returns to: loop, select or forward
    due,       \* run_notify has a keep-alive to send once start_agent returns
    attempts,  \* of start_agent
    rip,       \* agt->rip_id: the server in use
    silence,   \* time(0) - available_server, up to RECONNECT + 1
    since,     \* time(0) - g_saved_time, up to NOTIFY
    fwd,       \* while it receives: FD_ISSET(agt->m_queue), as select left it
    inbox,     \* what the socket to the server holds
    queue,     \* number of events in the local queue
    waitFile,  \* the wait file exists
    starts,    \* starts of agentd; each makes the local queue anew
    col,       \* a collector in SendMSG: idle, waiting, sending, refused, exited
    conn,      \* the start of agentd whose queue the collector is connected to
    tries,     \* its attempts on the full queue
    up,        \* servers that run
    asked,     \* the server has a message of this socket to answer
    known,     \* the server knows the address of this socket
    ordered,   \* active responses sent by the server
    faults,    \* servers stopped or started, requests or answers lost
    heard,     \* history: time since a message that counts reached the socket
    staleLost, \* history: events the collector lost on the queue of an agentd gone
    slipped    \* history: events queued since os_setwait, during the handshake

net   == <<up, asked, known, ordered, faults>>
coll  == <<col, conn, tries, staleLost>>
agentVars ==
    <<pc, back, due, attempts, rip, silence, since, fwd, inbox, queue, waitFile, starts,
      col, conn, tries, up, asked, known, ordered, faults, heard, staleLost, slipped>>

----------------------------------------------------------------------------
Least(a, b) == IF a < b THEN a ELSE b

\* One unit of time.
Time == /\ silence' = Least(silence + 1, RECONNECT + 1)
        /\ since' = Least(since + 1, NOTIFY)
        /\ heard' = Least(heard + 1, RECONNECT + 1)

\* send_msg: the datagram arrives if the server runs.
Arrives(s) == s \in up

\* agentd has bound its queue for the first time; an earlier agentd of the host
\* may have left the wait file.
AgentInit ==
    /\ pc = "starting" /\ back = "loop" /\ due = FALSE /\ attempts = 0 /\ rip = 1
    /\ silence = 0 /\ since = NOTIFY /\ fwd = FALSE /\ inbox = <<>> /\ queue = 0
    /\ waitFile \in BOOLEAN /\ starts = 1
    /\ col = "idle" /\ conn = 1 /\ tries = 0
    /\ up \in SUBSET Servers /\ asked = FALSE /\ known = FALSE
    /\ ordered = 0 /\ faults = 0
    /\ heard = 0 /\ staleLost = 0 /\ slipped = 0

----------------------------------------------------------------------------
(* run_notify and start_agent                                              *)
----------------------------------------------------------------------------

\* run_notify: a server that has been silent for too long is started anew, and
\* a keep-alive sent when it is time for one.  The time is taken before
\* start_agent and g_saved_time set to it after.
run_notify(next) ==
    /\ since' = IF since >= NOTIFY THEN 0 ELSE since
    /\ IF silence > RECONNECT
       THEN /\ waitFile' = TRUE
            /\ pc' = "handshake" /\ back' = next /\ attempts' = 0 /\ slipped' = 0
            /\ due' = (since >= NOTIFY)
            /\ asked' = (asked \/ Arrives(rip))
       ELSE /\ pc' = next
            /\ asked' = (asked \/ (since >= NOTIFY /\ Arrives(rip)))
            /\ UNCHANGED <<back, due, attempts, waitFile, slipped>>

\* A message is read in the handshake.  It is decrypted, which spends its
\* counter; unless it is the acknowledgement it is dropped.
HandshakeReads ==
    /\ pc = "handshake" /\ inbox # <<>>
    /\ inbox' = Tail(inbox)
    /\ IF Head(inbox) = Ack
       THEN /\ silence' = 0 /\ waitFile' = FALSE
            /\ pc' = back /\ back' = "loop" /\ due' = FALSE /\ attempts' = 0 /\ slipped' = 0
            /\ asked' = (asked \/ (due /\ Arrives(rip)))
       ELSE UNCHANGED <<pc, back, due, attempts, silence, waitFile, asked, slipped>>
    /\ UNCHANGED <<rip, since, fwd, queue, starts, coll, up, known, ordered, faults, heard>>

\* Nothing has come: sleep, and later ask again.
HandshakeWaits ==
    /\ pc = "handshake" /\ inbox = <<>> /\ attempts <= ATTEMPTS
    /\ attempts' = attempts + 1
    /\ asked' = (asked \/ (attempts + 1 >= RESEND /\ Arrives(rip)))
    /\ Time
    /\ UNCHANGED <<pc, back, due, rip, fwd, inbox, queue, waitFile, starts, coll, up, known,
                   ordered, faults, slipped>>

HandshakeGivesUp ==
    /\ pc = "handshake" /\ inbox = <<>> /\ attempts > ATTEMPTS
    /\ pc' = "closing" /\ Time
    /\ UNCHANGED <<back, due, attempts, rip, fwd, inbox, queue, waitFile, starts, coll, net,
                   slipped>>

\* Fault: after the last server, the last server again.
connect_server_last ==
    /\ pc = "closing" /\ pc' = "handshake"
    /\ rip' = Least(rip + 1, NumServers) /\ attempts' = 0 /\ inbox' = <<>>
    /\ asked' = Arrives(rip') /\ known' = FALSE
    /\ UNCHANGED <<back, due, silence, since, heard, fwd, queue, waitFile, starts, coll, up,
                   ordered, faults, slipped>>

\* connect_server(rip_id + 1): after a second of sleep the socket is closed,
\* with what has come meanwhile, and one to the next server opened (the first
\* after the last); the start-up message is sent on it.
connect_server ==
    /\ pc = "closing" /\ pc' = "handshake"
    /\ rip' = (rip % NumServers) + 1 /\ attempts' = 0 /\ inbox' = <<>>
    /\ asked' = Arrives(rip') /\ known' = FALSE
    /\ UNCHANGED <<back, due, silence, since, heard, fwd, queue, waitFile, starts, coll, up,
                   ordered, faults, slipped>>

----------------------------------------------------------------------------
(* The loop of AgentdStart                                                 *)
----------------------------------------------------------------------------
LoopTop ==
    /\ pc = "loop"
    /\ run_notify("select")
    /\ UNCHANGED <<rip, silence, fwd, inbox, queue, starts, coll, up, known, ordered,
                   faults, heard>>

Select ==
    /\ pc = "select" /\ (inbox # <<>> \/ queue > 0)
    /\ pc' = IF inbox # <<>> THEN "receive" ELSE "forward"
    /\ fwd' = (inbox # <<>> /\ queue > 0)
    /\ UNCHANGED <<back, due, attempts, rip, silence, since, inbox, queue, waitFile, starts,
                   coll, net, heard, slipped>>

SelectTimeout ==
    /\ pc = "select" /\ inbox = <<>> /\ queue = 0
    /\ pc' = "loop" /\ Time
    /\ UNCHANGED <<back, due, attempts, rip, fwd, inbox, queue, waitFile, starts, coll, net,
                   slipped>>

\* Fault: a message of the server that is no command does not count.
receive_msg_commands ==
    /\ pc = "receive"
    /\ IF inbox = <<>>
       THEN pc' = (IF fwd THEN "forward" ELSE "loop") /\ fwd' = FALSE /\ UNCHANGED <<inbox, silence>>
       ELSE /\ inbox' = Tail(inbox)
            /\ silence' = IF Head(inbox) \in Orders THEN 0 ELSE silence
            /\ UNCHANGED <<pc, fwd>>
    /\ UNCHANGED <<back, due, attempts, rip, since, queue, waitFile, starts, coll, net,
                   heard, slipped>>

\* receive_msg, a message at a time until there is none; only one that counts
\* sets available_server.
receive_msg ==
    /\ pc = "receive"
    /\ IF inbox = <<>>
       THEN pc' = (IF fwd THEN "forward" ELSE "loop") /\ fwd' = FALSE /\ UNCHANGED <<inbox, silence>>
       ELSE /\ inbox' = Tail(inbox)
            /\ silence' = IF Head(inbox) = Refused THEN silence ELSE 0
            /\ UNCHANGED <<pc, fwd>>
    /\ UNCHANGED <<back, due, attempts, rip, since, queue, waitFile, starts, coll, net,
                   heard, slipped>>

\* Fault: EventForward does not call run_notify.
EventForwardAlone ==
    /\ pc = "forward"
    /\ IF queue = 0 THEN pc' = "loop" /\ UNCHANGED queue
       ELSE queue' = queue - 1 /\ UNCHANGED pc
    /\ UNCHANGED <<back, due, attempts, rip, silence, since, fwd, inbox, waitFile, starts, coll,
                   net, heard, slipped>>

\* EventForward: an event at a time until there is none, and run_notify after
\* each; what the server sends stays in the socket meanwhile.
EventForward ==
    /\ pc = "forward"
    /\ IF queue = 0
       THEN pc' = "loop" /\ UNCHANGED <<back, due, attempts, waitFile, since, asked, queue, slipped>>
       ELSE queue' = queue - 1 /\ run_notify("forward")
    /\ UNCHANGED <<rip, silence, fwd, inbox, starts, coll, up, known, ordered, faults, heard>>

ForwardTakesTime ==
    /\ pc = "forward" /\ Time
    /\ UNCHANGED <<pc, back, due, attempts, rip, fwd, inbox, queue, waitFile, starts, coll, net,
                   slipped>>

\* agentd ends, and what its sockets and its memory hold is gone; the wait file
\* stays.
Crash ==
    /\ pc # "down" /\ pc' = "down" /\ inbox' = <<>> /\ queue' = 0
    /\ back' = "loop" /\ due' = FALSE /\ attempts' = 0 /\ rip' = 1 /\ fwd' = FALSE
    /\ silence' = 0 /\ since' = NOTIFY /\ heard' = 0 /\ slipped' = 0
    /\ asked' = FALSE /\ known' = FALSE
    /\ UNCHANGED <<waitFile, starts, coll, up, ordered, faults>>

\* AgentdStart up to the queue it binds.  Collectors can connect to it from here
\* on, nobody reads it, and the wait file is as the last agentd left it.
BindQueue ==
    /\ pc = "down" /\ starts < MaxStarts
    /\ starts' = starts + 1 /\ pc' = "starting"
    /\ UNCHANGED <<back, due, attempts, rip, silence, since, fwd, inbox, queue, waitFile, coll,
                   net, heard, slipped>>

\* AgentdStart after its keys and connect_server(0): os_setwait, and the start-up
\* message of start_agent(1).
AgentdStart ==
    /\ pc = "starting"
    /\ pc' = "handshake" /\ waitFile' = TRUE /\ slipped' = 0
    /\ asked' = Arrives(rip)
    /\ UNCHANGED <<back, due, attempts, rip, silence, since, fwd, inbox, queue, starts, coll,
                   up, known, ordered, faults, heard>>

Agentd == AgentdStart \/ HandshakeReads \/ HandshakeWaits \/ HandshakeGivesUp \/ connect_server
          \/ LoopTop \/ Select \/ SelectTimeout \/ receive_msg \/ EventForward

----------------------------------------------------------------------------
(* A collector: SendMSG, and StartMQ when it fails.                        *)
----------------------------------------------------------------------------
\* os_wait, at the top of SendMSG and while the wait file is there.
ColStart ==
    /\ col = "idle"
    /\ col' = IF waitFile THEN "waiting" ELSE "sending"
    /\ UNCHANGED <<conn, tries, staleLost>>

ColWake ==
    /\ col = "waiting" /\ ~waitFile
    /\ col' = "sending"
    /\ UNCHANGED <<conn, tries, staleLost>>

Connected == pc # "down" /\ conn = starts

\* The socket of an agentd that is gone: the event is lost.
ColStale ==
    /\ col = "sending" /\ ~Connected
    /\ col' = "refused" /\ tries' = 0 /\ staleLost' = staleLost + 1
    /\ UNCHANGED conn

\* A full queue is tried TRIES times, then the event is lost.
ColFull ==
    /\ col = "sending" /\ Connected /\ queue = QueueLen
    /\ IF tries + 1 < TRIES THEN tries' = tries + 1 /\ UNCHANGED col
       ELSE tries' = 0 /\ col' = "refused"
    /\ UNCHANGED <<conn, staleLost>>

\* Fault: the collector does not connect anew.
ColReconnectOld ==
    /\ col = "refused" /\ pc # "down"
    /\ col' = "idle"
    /\ UNCHANGED <<conn, tries, staleLost>>

\* StartMQ: connected anew, or no agentd within three seconds and an end.
ColReconnect ==
    /\ col = "refused" /\ pc # "down"
    /\ col' = "idle" /\ conn' = starts
    /\ UNCHANGED <<tries, staleLost>>

ColExit ==
    /\ col = "refused" /\ pc = "down"
    /\ col' = "exited"
    /\ UNCHANGED <<conn, tries, staleLost>>

Away == pc \in {"handshake", "closing"}

ColSend ==
    /\ col = "sending" /\ Connected /\ queue < QueueLen
    /\ col' = "idle" /\ tries' = 0 /\ queue' = queue + 1
    /\ slipped' = IF Away THEN slipped + 1 ELSE slipped
    /\ UNCHANGED <<conn, staleLost>>

NotAgentd == UNCHANGED <<pc, back, due, attempts, rip, silence, since, fwd, inbox, waitFile,
                         starts, net, heard>>

Collector ==
    /\ \/ ColSend
       \/ UNCHANGED <<queue, slipped>> /\ (ColStart \/ ColWake \/ ColStale \/ ColFull
                                           \/ ColReconnect \/ ColExit)
    /\ NotAgentd

----------------------------------------------------------------------------
(* The servers and the network                                             *)
----------------------------------------------------------------------------
Delivered(m) ==
    IF Len(inbox) < InboxLen THEN inbox' = Append(inbox, m) /\ heard' = 0
    ELSE UNCHANGED <<inbox, heard>>

\* save_controlmsg of remoted answers every control message.
Reply ==
    /\ asked /\ asked' = FALSE /\ known' = TRUE
    /\ Delivered(Ack)
    /\ UNCHANGED <<up, ordered, faults>>

Lose ==
    /\ asked /\ faults < MaxFaults
    /\ asked' = FALSE /\ faults' = faults + 1
    /\ UNCHANGED <<inbox, heard, up, known, ordered>>

\* AR_Forward of remoted, to the address the last message came from.
Order ==
    /\ rip \in up /\ (asked \/ known) /\ ordered < MaxOrders
    /\ ordered' = ordered + 1 /\ known' = TRUE
    /\ Delivered(ordered + 1)
    /\ UNCHANGED <<up, asked, faults>>

Flip ==
    /\ faults < MaxFaults /\ faults' = faults + 1
    /\ \E s \in Servers :
        /\ up' = IF s \in up THEN up \ {s} ELSE up \cup {s}
        /\ asked' = (asked /\ s # rip) /\ known' = (known /\ s # rip)
    /\ UNCHANGED <<inbox, heard, ordered>>

\* A message that does not count; it needs a socket to come to.
Stray ==
    /\ pc # "starting" /\ faults < MaxFaults /\ faults' = faults + 1
    /\ inbox' = IF Len(inbox) < InboxLen THEN Append(inbox, Refused) ELSE inbox
    /\ UNCHANGED <<heard, up, asked, known, ordered>>

NotNetwork == UNCHANGED <<pc, back, due, attempts, rip, silence, since, fwd, queue, waitFile,
                         starts, coll, slipped>>

Answer  == pc # "down" /\ Reply /\ NotNetwork
Network == pc # "down" /\ (Lose \/ Order \/ Flip \/ Stray) /\ NotNetwork

----------------------------------------------------------------------------
AgentNext == Agentd \/ ForwardTakesTime \/ Crash \/ BindQueue \/ Collector \/ Answer \/ Network

AgentSpec == AgentInit /\ [][AgentNext]_agentVars

(***************************************************************************)
(* agentd and the collectors run; the clock does not stop while agentd     *)
(* forwards.  A server that is asked again and again answers in time at    *)
(* some point: the wait for it (of 21 seconds and more) is long against a  *)
(* reply.                                                                  *)
(***************************************************************************)
FairAgentSpec ==
    /\ AgentSpec
    /\ WF_agentVars(Agentd) /\ WF_agentVars(ForwardTakesTime)
    /\ WF_agentVars(Collector /\ col # "idle")
    /\ SF_agentVars(Answer /\ pc = "handshake")
----------------------------------------------------------------------------
(* Type invariant                                                          *)
----------------------------------------------------------------------------
\* Every variable keeps its type: the ages within their caps, the queues within
\* their sizes, the attempts one above ATTEMPTS at most.
AgentTypeOK ==
    /\ pc \in {"down", "starting", "handshake", "closing", "loop", "select", "receive",
              "forward"}
    /\ back \in {"loop", "select", "forward"} /\ due \in BOOLEAN /\ attempts \in 0 .. ATTEMPTS + 1
    /\ rip \in Servers /\ silence \in 0 .. RECONNECT + 1 /\ since \in 0 .. NOTIFY
    /\ fwd \in BOOLEAN /\ inbox \in Seq(Messages) /\ Len(inbox) <= InboxLen
    /\ queue \in 0 .. QueueLen /\ waitFile \in BOOLEAN /\ starts \in 1 .. MaxStarts
    /\ col \in {"idle", "waiting", "sending", "refused", "exited"}
    /\ conn \in 1 .. starts /\ tries \in 0 .. TRIES - 1
    /\ up \subseteq Servers /\ asked \in BOOLEAN /\ known \in BOOLEAN
    /\ ordered \in 0 .. MaxOrders /\ faults \in 0 .. MaxFaults
    /\ heard \in 0 .. RECONNECT + 1
    /\ staleLost \in Nat /\ slipped \in Nat

----------------------------------------------------------------------------
(* Safety                                                                  *)
----------------------------------------------------------------------------
\* Something that counts lies unread.
Unread == \E i \in DOMAIN inbox : inbox[i] # Refused

\* agentd takes its server for gone only when nothing that counts has come from
\* it for longer than max_time_reconnect_try, or when something that counts lies
\* unread because agentd was forwarding events all that time.
MissesOnlySilentOrUnread ==
    [][Away' /\ pc \in {"loop", "forward"} => heard > RECONNECT \/ Unread]_agentVars

\* From os_setwait to os_delwait, however long agentd looks for a server, a
\* collector queues one event at most, the one for which it had looked at the wait
\* file before.  This says nothing of the time between the queue and os_setwait.
HeldBackWhileAway == Away => slipped <= 1

\* A collector loses at most one event for each agentd that ends.
OneLossPerRestart == staleLost <= IF pc = "down" THEN starts ELSE starts - 1

\* The types, and what a collector may queue or lose.
ConnInv == AgentTypeOK /\ HeldBackWhileAway /\ OneLossPerRestart

----------------------------------------------------------------------------
(* Liveness                                                                *)
----------------------------------------------------------------------------
Serving == <>[](pc # "down" /\ up # {})

\* The collectors are not held back for ever: as long as agentd and some server
\* run, whichever of its servers that is, the wait file goes away again.
CollectorsReleased == Serving => []<>(~waitFile)

\* Nothing the server sends lies in the socket for ever, however busy the
\* collectors keep agentd: in the end the handshake reads it (and drops it).
InboxIsRead == \A o \in Orders : (\E i \in DOMAIN inbox : inbox[i] = o)
                                   ~> ~(\E i \in DOMAIN inbox : inbox[i] = o)

=============================================================================
