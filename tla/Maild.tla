------------------------------- MODULE Maild --------------------------------
(***************************************************************************)
(* maild (src/src/os_maild): alerts from the log are kept in a list and    *)
(* sent, several in one mail, by child processes, a limited number of      *)
(* mails in an hour.  Composed with the log of alerts it reads.            *)
(*                                                                         *)
(* A recipient of <email_alerts> has a format: full, now (do_not_delay),   *)
(* alone (do_not_group) or sms; gran_set says which recipients the next    *)
(* mail goes to.  The recipients of <global> get every mail.  Grouping is  *)
(* on, as internal_options has it.                                         *)
(***************************************************************************)
EXTENDS AlertQueue, Integers

CONSTANTS
    Formats,      \* Mail->gran_format: the sequence of the formats of the recipients
    MAILLIST,     \* MAIL_LIST_SIZE
    MAXCHILD,     \* MAXCHILDPROCESS
    MAXPERHOUR,   \* mail->maxperhour
    ERRS          \* 6: children that may be killed before maild ends

ASSUME MaildAssumption ==
    /\ Formats \in Seq({"full", "now", "alone", "sms"})
    /\ \A k \in Kinds : k.to \subseteq DOMAIN Formats
    /\ MAILLIST \in Nat \ {0} /\ MAXCHILD \in Nat \ {0} /\ MAXPERHOUR \in Nat \ {0}
    /\ ERRS \in Nat

Recipients == DOMAIN Formats

VARIABLES
    tick,       \* the clock: the hour has changed since maild took the time
    pc,         \* maild: top, saved, read, reap, gone
    today,      \* p->tm_mday, of the time taken at the top of the loop
    newhour,    \* p->tm_hour # thishour
    timeout,    \* mail_timeout: default or next
    mailtosend, \* capped at MAXPERHOUR
    list,       \* the mails kept, the oldest first
    used,       \* _memoryused
    smsg,       \* s_msg
    granset,    \* mail->gran_set: none, full, alone or sms for each recipient
    children,   \* sending processes: [mails, to, end], end = none, exited or killed
    errs,       \* n_errs
    batches,    \* history: mails handed to children
    ended       \* history: alerts whose child has ended, sent or not, and those evicted

maild == <<pc, today, newhour, timeout, mailtosend, list, used, smsg, granset, children,
           errs, batches, ended>>
vars  == <<day, tick, writer, reader, excused, maild>>

maildRest == <<pc, timeout, mailtosend, list, used, smsg, granset, children, errs, batches,
               ended>>

Init ==
    /\ QueueInit
    /\ tick = FALSE /\ pc = "top" /\ today = 1 /\ newhour = FALSE /\ timeout = "default"
    /\ mailtosend = 0 /\ list = <<>> /\ used = 0 /\ smsg = None
    /\ granset = [i \in Recipients |-> "none"] /\ children = {} /\ errs = 0
    /\ batches = 0 /\ ended = {}

----------------------------------------------------------------------------
(* The list of mails                                                       *)
----------------------------------------------------------------------------

\* OS_AddMailtoList: the first mail of a list is not counted; when the count is
\* over the size the oldest mail goes.
Added(m) ==
    LET n == IF list = <<>> THEN used ELSE used + 1
    IN  IF n > MAILLIST THEN [list |-> Append(Tail(list), m), used |-> n - 1, gone |-> {Head(list)}]
        ELSE [list |-> Append(list, m), used |-> n, gone |-> {}]

OS_AddMailtoList(m) ==
    /\ list' = Added(m).list /\ used' = Added(m).used
    /\ ended' = ended \cup Added(m).gone

Counted == IF mailtosend < MAXPERHOUR THEN mailtosend + 1 ELSE mailtosend

----------------------------------------------------------------------------
(* The loop of OS_Run                                                      *)
----------------------------------------------------------------------------
\* The time is taken, and is of another hour than thishour.
HourNew == newhour \/ tick

\* Whether the mails kept are to be sent.
Due ==
    /\ ~(timeout = "next" /\ ~HourNew)
    /\ \/ mailtosend < MAXPERHOUR /\ mailtosend # 0
       \/ HourNew /\ Cardinality(children) < MAXCHILD

TakeTime == tick' = FALSE /\ today' = day

\* snd_check_hour
HourChecked ==
    /\ newhour' = FALSE
    /\ mailtosend' = IF HourNew THEN 0 ELSE mailtosend

\* Fault: the log is read whether a mail is saved or not.
NextStepReads == pc' = "read"

\* After the sending: a saved mail is put into the list and the loop begins
\* anew, or the log is read.
NextStep == pc' = (IF smsg = None THEN "read" ELSE "saved")

SendNothing ==
    /\ pc = "top" /\ (Due => list = <<>>)
    /\ TakeTime /\ NextStep
    /\ IF Due THEN HourChecked ELSE newhour' = HourNew /\ UNCHANGED mailtosend
    /\ UNCHANGED <<timeout, list, used, smsg, granset, children, errs, batches, ended>>

\* fork fails: after a while the loop begins anew.
ForkFails ==
    /\ pc = "top" /\ Due /\ list # <<>>
    /\ TakeTime /\ newhour' = HourNew
    /\ UNCHANGED maildRest

MailsOf(s) == {s[i] : i \in DOMAIN s}

\* The child, which has the list and gran_set as they are now: OS_Sendmail sends to
\* the recipients with full format.
Child(set) == [mails |-> MailsOf(list), to |-> {i \in Recipients : set[i] = "full"}, end |-> "none"]

\* Fault: gran_set is started anew before the child has it.
ForkReset ==
    /\ pc = "top" /\ Due /\ list # <<>>
    /\ list' = <<>> /\ used' = used - Len(list)
    /\ granset' = [i \in Recipients |-> "none"] /\ children' = children \cup {Child(granset')}
    /\ TakeTime /\ HourChecked /\ NextStep /\ batches' = batches + 1
    /\ UNCHANGED <<timeout, smsg, errs, ended>>

\* The child has the list as it is now; the parent removes all of it and starts
\* gran_set anew.
Fork ==
    /\ pc = "top" /\ Due /\ list # <<>>
    /\ children' = children \cup {Child(granset)}
    /\ list' = <<>> /\ used' = used - Len(list)
    /\ granset' = [i \in Recipients |->
                      IF smsg # None /\ granset[i] = "alone" THEN "full" ELSE "none"]
    /\ TakeTime /\ HourChecked /\ NextStep /\ batches' = batches + 1
    /\ UNCHANGED <<timeout, smsg, errs, ended>>

\* The saved mail of do_not_group.
AddSaved ==
    /\ pc = "saved" /\ pc' = "top"
    /\ granset' = [i \in Recipients |-> IF granset[i] = "alone" THEN "full" ELSE granset[i]]
    /\ OS_AddMailtoList(smsg) /\ smsg' = None
    /\ mailtosend' = Counted
    /\ UNCHANGED <<tick, today, newhour, timeout, children, errs, batches>>

\* The priority of an alert: that of the last recipient which matches and has one.
Priority(a) ==
    LET set == {i \in kind[a].to : Formats[i] \in {"now", "alone"}}
    IN  IF set = {} THEN "none" ELSE Formats[CHOOSE i \in set : \A j \in set : j <= i]

Marked(a) == [i \in Recipients |->
                 IF i \notin kind[a].to THEN granset[i]
                 ELSE IF Formats[i] = "now" THEN "full" ELSE Formats[i]]

\* Fault: a mail of do_not_group is put into the list as the others are.
ReceiveGrouped ==
    /\ pc = "read" /\ rpc = "done" /\ al # None
    /\ pc' = "reap" /\ rpc' = "idle" /\ al' = None
    /\ granset' = Marked(al)
    /\ OS_AddMailtoList(al)
    /\ timeout' = IF Priority(al) = "none" THEN "next" ELSE "default"
    /\ mailtosend' = IF Priority(al) = "none" THEN mailtosend ELSE Counted
    /\ UNCHANGED <<tick, today, newhour, smsg, children, errs, batches, rday, ropen, rpos>>

\* An alert: saved if it is not to be grouped, and else put into the list, to be
\* sent now or when no other has come for a while.
Receive ==
    /\ pc = "read" /\ rpc = "done" /\ al # None
    /\ pc' = "reap" /\ rpc' = "idle" /\ al' = None
    /\ granset' = Marked(al)
    /\ IF Priority(al) = "alone" THEN smsg' = al /\ UNCHANGED <<list, used, ended>>
       ELSE OS_AddMailtoList(al) /\ UNCHANGED smsg
    /\ timeout' = IF Priority(al) = "none" THEN "next" ELSE "default"
    /\ mailtosend' = IF Priority(al) = "now" THEN Counted ELSE mailtosend
    /\ UNCHANGED <<tick, today, newhour, children, errs, batches, rday, ropen, rpos>>

\* None: what is grouped is complete.
ReceiveNothing ==
    /\ pc = "read" /\ rpc = "done" /\ al = None
    /\ pc' = "reap" /\ rpc' = "idle" /\ timeout' = "default"
    /\ mailtosend' = IF timeout = "next" THEN Counted ELSE mailtosend
    /\ UNCHANGED <<tick, today, newhour, list, used, smsg, granset, children, errs, batches,
                   ended, rday, ropen, rpos, al>>

\* The children that have ended; too many that were killed end maild.
Reap ==
    /\ pc = "reap"
    /\ LET killed == {c \in children : c.end = "killed"}
       IN  /\ errs' = errs + Cardinality(killed)
           /\ pc' = IF errs' > ERRS THEN "gone" ELSE "top"
    /\ children' = {c \in children : c.end = "none"}
    /\ UNCHANGED <<tick, today, newhour, timeout, mailtosend, list, used, smsg, granset, batches,
                   ended>>

\* A child exits with 0 whether OS_Sendmail did its work or not; it is killed by a
\* signal, as by SIGPIPE when the server has closed the connection.
ChildEnds ==
    /\ \E c \in children, e \in {"exited", "killed"} :
        /\ c.end = "none"
        /\ children' = (children \ {c}) \cup {[c EXCEPT !.end = e]}
        /\ ended' = ended \cup c.mails
    /\ UNCHANGED <<pc, tick, today, newhour, timeout, mailtosend, list, used, smsg, granset, errs,
                   batches>>

\* An hour passes, or the day with it.  A round of the loop is much shorter: maild
\* sees every hour.
Tick ==
    /\ pc # "gone" /\ ~tick
    /\ tick' = TRUE /\ day' \in {day, day + 1} \cap Days

----------------------------------------------------------------------------
Maild ==
    \/ (SendNothing \/ Fork \/ ForkFails \/ AddSaved \/ Reap) /\ UNCHANGED <<reader, excused>>
    \/ pc = "read" /\ (Read_FileMon(today) \/ PollRound) /\ UNCHANGED <<tick, maild>>
    \/ (Receive \/ ReceiveNothing) /\ UNCHANGED excused

Analysisd == OS_GetLogLocation \/ OS_Log \/ OS_LogRest

Next ==
    \/ Maild /\ UNCHANGED <<day, writer>>
    \/ ChildEnds /\ UNCHANGED <<day, writer, reader, excused>>
    \/ Analysisd /\ UNCHANGED <<day, tick, reader, maild>>
    \/ Tick /\ UNCHANGED <<writer, reader, excused, maild>>

Spec == Init /\ [][Next]_vars

(***************************************************************************)
(* maild and its children run, time passes, and fork does not fail for     *)
(* ever.                                                                   *)
(***************************************************************************)
FairSpec ==
    /\ Spec
    /\ WF_vars(Maild /\ UNCHANGED <<day, writer>>)
    /\ WF_vars(Fork /\ UNCHANGED <<day, writer, reader, excused>>)
    /\ WF_vars(ChildEnds /\ UNCHANGED <<day, writer, reader, excused>>)
    /\ WF_vars(Tick /\ UNCHANGED <<writer, reader, excused, maild>>)

----------------------------------------------------------------------------
(* Invariants                                                              *)
----------------------------------------------------------------------------
TypeOK ==
    /\ QueueTypeOK
    /\ tick \in BOOLEAN /\ pc \in {"top", "saved", "read", "reap", "gone"}
    /\ today \in Days /\ newhour \in BOOLEAN
    /\ timeout \in {"default", "next"} /\ mailtosend \in 0 .. MAXPERHOUR
    /\ list \in Seq(Alerts) /\ used \in Int /\ smsg \in {None} \cup Alerts
    /\ granset \in [Recipients -> {"none", "full", "alone", "sms"}]
    /\ children \subseteq [mails : SUBSET Alerts, to : SUBSET Recipients,
                            end : {"none", "exited", "killed"}]
    /\ errs \in Nat /\ batches \in Nat
    /\ ended \subseteq Alerts

\* _memoryused falls behind the length of the list: by one, because the first
\* mail is not counted, and by one more with each list that was sent, because it
\* was taken off all the same.
UsedFallsBehind == used = Len(list) - batches - (IF list = <<>> THEN 0 ELSE 1)

\* The types, and the bound of the list: MAIL_LIST_SIZE (mail_list.c), one more,
\* and one more for each list that was sent.
ListInv == TypeOK /\ UsedFallsBehind /\ Len(list) <= MAILLIST + 1 + batches

----------------------------------------------------------------------------
(* Safety                                                                  *)
----------------------------------------------------------------------------
\* An alert the reader has still before it.
Unread(a) ==
    \E d \in Days, k \in Alerts :
        /\ k \in DOMAIN files[d] /\ files[d][k] = a
        /\ d > rday \/ (d = rday /\ (ropen => rpos <= 2 * k - 2))

\* Every alert to be mailed is in one place and in one only: unread in the log,
\* in one of maild's three places, with one child, or its child has ended, or it is
\* evicted.  What the reader never hands over was in a file when it was
\* opened, half written when the reader came to it, written to the file of a day
\* the reader had left, or in the file of a day it passed over.
EveryAlertAccounted ==
    \A a \in 1 .. written : kind[a].mail =>
        LET places == {p \in {"log", "excused", "read", "saved", "list", "child", "end"} :
                          \/ p = "log" /\ Unread(a)
                          \/ p = "excused" /\ a \in excused
                          \/ p = "read" /\ a = al
                          \/ p = "saved" /\ a = smsg
                          \/ p = "list" /\ a \in MailsOf(list)
                          \/ p = "child" /\ \E c \in children : c.end = "none" /\ a \in c.mails
                          \/ p = "end" /\ a \in ended}
        IN  Cardinality(places) = 1

\* The types, the bound of the list, and the place of every alert.
MailInv == ListInv /\ EveryAlertAccounted

\* The recipients an alert matches are among those of the mail it is in, those of
\* sms apart, unless it also matches a recipient of do_not_group.
MatchedAreServed ==
    \A c \in children : \A a \in c.mails :
        (\A i \in kind[a].to : Formats[i] # "alone") =>
            \A i \in kind[a].to : i \in c.to \/ Formats[i] = "sms"

\* A mail of do_not_group has others with it only if it was the first thing to be
\* sent in its hour, or the mails of its hour were used up.
AloneUnlessFirstOrLast ==
    [][\A c \in children' \ children :
          c.end = "none" /\ (\E a \in c.mails : Priority(a) = "alone") /\ Cardinality(c.mails) > 1
          => mailtosend = 1 \/ mailtosend = MAXPERHOUR]_vars

----------------------------------------------------------------------------
(* Liveness                                                                *)
----------------------------------------------------------------------------
\* No mail waits for ever: maild comes to having none to send again and again,
\* unless it has ended over children that were killed.
NoMailWaitsForEver == []<>((list = <<>> /\ smsg = None) \/ pc = "gone")
=============================================================================
