----------------------------- MODULE AlertQueue -----------------------------
(***************************************************************************)
(* The log of alerts: analysisd writes it, a file for each day             *)
(* (getloglocation.c, alerts/log.c), and maild, csyslogd and dbd follow it *)
(* (file-queue.c, read-alert.c).  Nothing but the file passes between      *)
(* them: the reader has its own clock and its own idea of the day.         *)
(*                                                                         *)
(* A file is the sequence of its alerts.  Positions count half alerts:     *)
(* alert k lies between 2k - 2 and 2k.  An alert longer than the buffer of *)
(* the stream reaches the file in more than one write, here two.           *)
(***************************************************************************)
EXTENDS Naturals, Sequences, FiniteSets

CONSTANTS
    Kinds,       \* what an alert may be: [mail |-> BOOLEAN, to |-> recipients it matches]
    MaxAlerts,   \* bound: alerts written
    Scripts,     \* sequences of kinds the alerts may come in
    MaxDay       \* bound: days

ASSUME AlertQueueAssumption ==
    /\ MaxAlerts \in Nat \ {0} /\ MaxDay \in Nat \ {0}
    /\ \A k \in Kinds : k.mail \in BOOLEAN
    /\ \A s \in Scripts : s \in [1 .. MaxAlerts -> Kinds]

Days   == 1 .. MaxDay
Alerts == 1 .. MaxAlerts
None   == 0           \* NULL for an alert_data

VARIABLES
    day,     \* the clock: day
    kind,    \* kind[a]: what alert a is; alerts are numbered as they are written
    written, \* alerts written
    wday,    \* analysisd: __crt_day, the day of the file it has open
    wpc,     \* analysisd: idle, event (its time is taken), half (an alert is half written)
    made,    \* days whose file exists
    files,   \* files[d]: alerts in the file of day d
    rday,    \* fileq->day
    ropen,   \* fileq->fp is not NULL
    rpos,    \* its position
    rpc,     \* Read_FileMon: idle, poll (in its loop), done
    al,      \* what it returns
    excused  \* history: alerts the reader need not see

writer == <<kind, written, wday, wpc, made, files>>
reader == <<rday, ropen, rpos, rpc, al>>

QueueInit ==
    /\ day = 1 /\ kind \in Scripts /\ written = 0 /\ wday = 1 /\ wpc = "idle" /\ made = {1}
    /\ files = [d \in Days |-> <<>>]
    /\ rday = 1 /\ ropen = TRUE /\ rpos = 0 /\ rpc = "idle" /\ al = None
    /\ excused = {}

QueueTypeOK ==
    /\ day \in Days /\ kind \in [Alerts -> Kinds] /\ written \in 0 .. MaxAlerts
    /\ wday \in Days /\ wpc \in {"idle", "event", "half"} /\ made \subseteq Days
    /\ \A d \in Days : files[d] \in Seq(1 .. written)
    /\ rday \in Days /\ ropen \in BOOLEAN /\ rpos \in 0 .. 2 * MaxAlerts
    /\ rpc \in {"idle", "poll", "done"} /\ al \in {None} \cup 1 .. written
    /\ excused \subseteq 1 .. written

----------------------------------------------------------------------------
(* analysisd                                                               *)
----------------------------------------------------------------------------
Size(d) == 2 * Len(files[d]) - (IF wpc = "half" /\ d = wday THEN 1 ELSE 0)

\* An event: its time is taken, and the files of a new day are opened; an empty
\* file of the day before is removed.
OS_GetLogLocation ==
    /\ wpc = "idle" /\ wpc' = "event"
    /\ wday' = day
    /\ made' = (IF day # wday /\ files[wday] = <<>> THEN made \ {wday} ELSE made) \cup {day}
    /\ UNCHANGED <<kind, written, files, excused>>

\* An alert for that event, or none; one of the writer's day that the reader has
\* left is one it may not see.
OS_Log ==
    /\ wpc = "event"
    /\ \/ wpc' = "idle" /\ UNCHANGED <<written, files, excused>>
       \/ /\ written < MaxAlerts
          /\ written' = written + 1 /\ wpc' \in {"idle", "half"}
          /\ files' = [files EXCEPT ![wday] = Append(@, written')]
          /\ excused' = IF wday < rday THEN excused \cup {written'} ELSE excused
    /\ UNCHANGED <<kind, wday, made>>

OS_LogRest ==
    /\ wpc = "half" /\ wpc' = "idle"
    /\ UNCHANGED <<kind, written, wday, made, files, excused>>

----------------------------------------------------------------------------
(* The reader                                                              *)
----------------------------------------------------------------------------
Whole(d, k) == 2 * k <= Size(d)
First(S) == CHOOSE k \in S : \A j \in S : k <= j

\* GetAlertData with CRALERT_MAIL_SET: the next whole alert that is to be mailed,
\* or the end of the file.  What it has read of a half alert is forgotten.
GetAlertData(d, pos) ==
    LET next == {k \in DOMAIN files[d] : /\ pos <= 2 * k - 2 /\ Whole(d, k)
                                         /\ kind[files[d][k]].mail}
    IN  IF next = {} THEN [alert |-> None, pos |-> Size(d)]
        ELSE [alert |-> files[d][First(next)], pos |-> 2 * First(next)]

\* Handle_Queue with no flags: the file is opened at its end.
Handle_Queue(d) == [open |-> d \in made, pos |-> IF d \in made THEN Size(d) ELSE 0]

\* Alerts the reader need not see: those in a file when it is opened or passed
\* over, and one that is half written when the reader comes to it.
Opened(d)    == {files[d][k] : k \in DOMAIN files[d]}
Torn(d, end) == {files[d][k] : k \in {j \in DOMAIN files[d] : end = 2 * j - 1}}

\* The file of the reader's day: as it is, or opened now.
Now == IF ropen THEN [open |-> TRUE, pos |-> rpos, excused |-> {}]
       ELSE [open |-> Handle_Queue(rday).open, pos |-> Handle_Queue(rday).pos,
             excused |-> IF rday \in made THEN Opened(rday) ELSE {}]

Wait   == rpc' = "poll" /\ UNCHANGED al
Return(a) == rpc' = "done" /\ al' = a

\* The day changes: its file is opened, if there is one.  Files of days in between,
\* which passed while the reader had more to read or did not run, are not read.
NewDay(d, seen) ==
    /\ rday' = d /\ ropen' = (d \in made) /\ rpos' = Handle_Queue(d).pos
    /\ excused' = excused \cup seen \cup (IF d \in made THEN Opened(d) ELSE {})
                           \cup UNION {Opened(e) : e \in rday + 1 .. d - 1}
    /\ IF d \in made THEN Wait ELSE Return(None)

\* Fault: what is left in the file of the day before is not read.
Read_FileMonNewDay(d) ==
    /\ rpc = "idle"
    /\ IF ~Now.open THEN Return(None) /\ UNCHANGED <<rday, ropen, rpos, excused>>
       ELSE IF d # rday THEN NewDay(d, Now.excused)
       ELSE /\ ropen' = TRUE /\ rpos' = Now.pos /\ excused' = excused \cup Now.excused
            /\ Wait /\ UNCHANGED rday

\* Read_FileMon up to its loop; d is the day of the time it is given.
Read_FileMon(d) ==
    LET g == GetAlertData(rday, Now.pos)
    IN  /\ rpc = "idle"
        /\ IF ~Now.open THEN Return(None) /\ UNCHANGED <<rday, ropen, rpos, excused>>
           ELSE IF d # rday /\ g.alert = None
           THEN NewDay(d, Now.excused \cup Torn(rday, g.pos))
           ELSE /\ ropen' = TRUE /\ excused' = excused \cup Now.excused /\ UNCHANGED rday
                /\ IF d = rday THEN rpos' = Now.pos /\ Wait
                   ELSE rpos' = g.pos /\ Return(g.alert)

\* A round of the loop of Read_FileMon: an alert, or a sleep, or the time is up.
PollRound ==
    LET g == GetAlertData(rday, rpos)
    IN  /\ rpc = "poll"
        /\ rpos' = g.pos
        /\ excused' = excused \cup (IF g.alert = None THEN Torn(rday, g.pos) ELSE {})
        /\ IF g.alert = None THEN Wait \/ Return(None) ELSE Return(g.alert)
        /\ UNCHANGED <<rday, ropen>>
=============================================================================
