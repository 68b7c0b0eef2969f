---------------------------- MODULE LogCollector ----------------------------
(***************************************************************************)
(* logcollector (src/src/logcollector/logcollector.c) on one log file.     *)
(*                                                                         *)
(* Each round of LogCollectorStart reads what has come into the file; each *)
(* round after VCHECK_FILES others it also checks whether the name of the  *)
(* file leads elsewhere (rotation, a name made from the date), whether the *)
(* file is shorter than it was, and whether it is to be given up.  In      *)
(* between, the program that writes the log and the tool that rotates it   *)
(* do as they like: the file may be renamed, replaced, put back or cut.    *)
(***************************************************************************)
EXTENDS LogReaders, FiniteSets

CONSTANTS
    Formats,        \* the log formats to be checked
    VCHECK_FILES,   \* rounds without a check
    OPEN_ATTEMPTS,  \* open_file_attempts of the internal options
    Inodes,         \* files there ever are, in the order they are made: 1 .. n
    MaxLines,       \* bound: lines ever written
    Split,          \* bound: the lines that may be written in two pieces
    Wide,           \* bound: the lines that have no room in a buffer if they continue an event
    MaxCuts,        \* bound: times the file is truncated
    MaxRefused,     \* bound: messages that SendMSG refuses
    None            \* no file

ASSUME CollectorAssumption ==
    /\ VCHECK_FILES \in Nat /\ OPEN_ATTEMPTS \in Nat
    /\ MaxLines \in Nat /\ MaxCuts \in Nat /\ MaxRefused \in Nat /\ Split \subseteq 1 .. MaxLines
    /\ Formats \subseteq KnownFormats
    /\ IsFiniteSet(Inodes) /\ Inodes = 1 .. Cardinality(Inodes) /\ 1 \in Inodes
    /\ None \notin Inodes

Days == {1, 2}
MaxSize == MaxLines + Cardinality(Split)

VARIABLES
    disk,     \* what each inode holds: a sequence of pieces
    dir,      \* the inode under the name of each day; day 1 alone if not dated
    today,    \* what strftime makes of ffile
    wfd,      \* the inode the writing program has open
    made,     \* files made: the inodes 1 .. made
    written,  \* lines begun (the line in hand, if its last piece is not "nl")
    format,   \* logff[i].logformat
    dated,    \* logff[i].ffile # NULL
    log,      \* logff[i]: day (of .file), fp (an inode), fd, pos, size, ign
    f_check,  \* rounds since the last check
    pc,       \* "read" or "check": where LogCollectorStart is; "ended" after ErrorExit
    cuts,     \* times the file was truncated
    sent,     \* history: the messages given to SendMSG, each once
    resent,   \* history: messages given to SendMSG again
    refused,  \* history: those that SendMSG refused each time
    tails,    \* history: messages with the stale piece that went behind them
    fresh,    \* history: pieces written and not read yet
    excused,  \* history: pieces that logcollector could not have sent
    opened,   \* history: inodes logcollector has had open
    cut       \* history: the open file was truncated, and it has not noticed

world == <<disk, dir, today, wfd, made, written, cuts>>
queue == <<sent, resent, refused, tails>>
agent == <<log, f_check, pc, queue>>
collectorVars ==
    <<disk, dir, today, wfd, made, written, format, dated, log, f_check, pc, cuts,
      sent, resent, refused, tails, fresh, excused, opened, cut>>

----------------------------------------------------------------------------
(* The writer of the log and the tool that rotates it.                     *)
----------------------------------------------------------------------------
Pending(i) == disk[i] # <<>> /\ Last(disk[i]).brk # "nl"
PiecesOn(i) == {disk[i][k] : k \in DOMAIN disk[i]}

\* What no one could have read in time: a piece for a file that logcollector
\* has closed, or has not noticed to be cut.
Unreadable == cut \/ (wfd \in opened /\ wfd # log.fp)

Put1(p) ==
    /\ disk' = [disk EXCEPT ![wfd] = Append(@, p)]
    /\ fresh' = fresh \cup {p}
    /\ excused' = IF Unreadable THEN excused \cup {p} ELSE excused
    /\ UNCHANGED <<dir, today, wfd, made, cuts, format, dated, agent, opened, cut>>

\* The lines a program of that format may write next; each file begins an event.
Follows == [new |-> {"more", "last"}, more |-> {"last"}, last |-> {"new"}]

Kinds ==
    LET s == disk[wfd]
    IN  IF s = <<>> \/ format \in {"syslog", "multiline"} THEN {"new"}
        ELSE IF format = "snort-full" THEN Follows[Last(s).kind]
        ELSE IF format \in {"postgresql_log", "multi-line_indented"} /\ written + 1 \in Wide
             THEN {"new", "wide"}
        ELSE {"new", "more"}

WriteLine ==
    \E kind \in Kinds, brk \in {"nl", "full", "none"} :
        /\ written < MaxLines /\ ~Pending(wfd)
        /\ brk # "nl" => written + 1 \in Split
        /\ Put1([line |-> written + 1, part |-> 1, kind |-> kind, brk |-> brk])
        /\ written' = written + 1

WriteRest ==
    /\ Pending(wfd)
    /\ Put1([Last(disk[wfd]) EXCEPT !.part = 2, !.brk = "nl"])
    /\ UNCHANGED written

Unwatched == UNCHANGED <<written, format, dated, agent, fresh, opened>>

\* mv log log.1, and mv log.1 log; a log whose name has the date is not rotated
Rename ==
    /\ ~dated /\ dir[today] # None
    /\ dir' = [dir EXCEPT ![today] = None]
    /\ UNCHANGED <<disk, today, wfd, made, cuts, excused, cut>> /\ Unwatched

Restore ==
    /\ ~dated /\ dir[today] = None
    /\ dir' = [dir EXCEPT ![today] = wfd]
    /\ UNCHANGED <<disk, today, wfd, made, cuts, excused, cut>> /\ Unwatched

\* The program opens its log anew, and makes the file.
Reopen ==
    /\ ~Pending(wfd)
    /\ dir[today] = None /\ made + 1 \in Inodes
    /\ made' = made + 1 /\ wfd' = made + 1 /\ dir' = [dir EXCEPT ![today] = made + 1]
    /\ UNCHANGED <<disk, today, cuts, excused, cut>> /\ Unwatched

NewDay ==
    /\ dated /\ today = 1
    /\ today' = 2
    /\ UNCHANGED <<disk, dir, wfd, made, cuts, excused, cut>> /\ Unwatched

Truncate ==
    /\ ~dated /\ cuts < MaxCuts /\ dir[today] # None /\ disk[dir[today]] # <<>>
    /\ ~Pending(dir[today])
    /\ cuts' = cuts + 1
    /\ disk' = [disk EXCEPT ![dir[today]] = <<>>]
    /\ excused' = excused \cup PiecesOn(dir[today])
    /\ cut' = (cut \/ dir[today] = log.fp)
    /\ UNCHANGED <<dir, today, wfd, made>> /\ Unwatched

World == WriteLine \/ WriteRest \/ Rename \/ Restore \/ Reopen \/ NewDay \/ Truncate

----------------------------------------------------------------------------
(* logcollector                                                            *)
----------------------------------------------------------------------------
Size(i) == Len(disk[i])

\* Fault: the file is opened where it begins whatever the caller asks.
handle_file_start(l, end) ==
    LET i == dir[l.day]
    IN  IF i = None THEN [l EXCEPT !.fp = None]
        ELSE [l EXCEPT !.fp = i, !.fd = i, !.pos = 0, !.size = Size(i), !.ign = 0]

\* Fault: the file is opened at its end whatever the caller asks.
handle_file_end(l, end) ==
    LET i == dir[l.day]
    IN  IF i = None THEN [l EXCEPT !.fp = None]
        ELSE [l EXCEPT !.fp = i, !.fd = i, !.pos = Size(i), !.size = Size(i), !.ign = 0]

\* handle_file: end is do_fseek
handle_file(l, end) ==
    LET i == dir[l.day]
    IN  IF i = None THEN [l EXCEPT !.fp = None]
        ELSE [l EXCEPT !.fp = i, !.fd = i, !.pos = IF end THEN Size(i) ELSE 0,
                       !.size = Size(i), !.ign = 0]

\* What the file holds that is open, and what a change of it means for the
\* history.
AtEnd(l) == IF l.fp = None THEN {} ELSE PiecesOn(l.fp)

Remember(l, skipped) ==
    /\ opened' = IF l.fp = None THEN opened ELSE opened \cup {l.fp}
    /\ excused' = excused \cup (IF l.fp # log.fp THEN fresh \cap AtEnd(log) ELSE {}) \cup skipped
    /\ cut' = (cut /\ l.fp = log.fp)
    /\ UNCHANGED fresh

\* The first opening of the file; nothing is known of a file yet.
NoFile == [day |-> 1, fp |-> None, fd |-> None, pos |-> 0, size |-> 0, ign |-> 0]

CollectorInit ==
    /\ disk = [i \in Inodes |-> <<>>] /\ today = 1 /\ wfd = 1 /\ made = 1 /\ written = 0
    /\ dir \in {[d \in Days |-> IF d = 1 THEN i ELSE None] : i \in {1, None}}
    /\ format \in Formats /\ dated \in BOOLEAN /\ cuts = 0
    /\ log = handle_file(NoFile, TRUE)
    /\ f_check = 0 /\ pc = "read"
    /\ sent = <<>> /\ resent = {} /\ refused = {} /\ tails = {}
    /\ fresh = {} /\ excused = {} /\ cut = FALSE
    /\ opened = IF dir[1] = None THEN {} ELSE {1}

(***************************************************************************)
(* One round: what is in the file after the position goes to the reader    *)
(* of its format, whose errors are counted.  A message that SendMSG does   *)
(* not get rid of is lost: the reader opens the queue anew and goes on, or *)
(* the program ends when that fails too.                                   *)
(***************************************************************************)
\* What SendMSG has been given after the messages of new, each once.
Given(new) ==
    LET given[k \in 0 .. Len(new)] ==
            IF k = 0 THEN sent
            ELSE IF new[k] \in ToSet(sent) THEN given[k - 1] ELSE Append(given[k - 1], new[k])
    IN  given[Len(new)]

\* SendMSG is given the messages of new, and refuses those of lost.
SendMSG(new, lost) ==
    /\ sent' = Given(new)
    /\ resent' = resent \cup (ToSet(new) \cap ToSet(sent))
    /\ refused' = (refused \ (ToSet(new) \ lost)) \cup (lost \ ToSet(sent))
    /\ Cardinality(refused') <= MaxRefused
    /\ \E t \in SUBSET (IF format = "syslog" THEN Stale(sent, new) ELSE {}) :
            /\ \A a, b \in t : a.of = b.of => a = b
            /\ tails' = tails \cup t

HasMore == log.fp # None /\ log.pos < Size(log.fp)
ReadLog == Read(format, disk[log.fp], log.pos)

\* What one call of the reader leaves unread, for it may end before the file.
Ahead(pos) == {disk[log.fp][k] : k \in (pos + 1) .. Size(log.fp)}

Poll ==
    /\ pc = "read"
    /\ f_check' = f_check + 1
    /\ pc' = IF f_check + 1 <= VCHECK_FILES THEN "read" ELSE "check"
    /\ IF HasMore
       THEN LET r == ReadLog
            IN  /\ \E lost \in SUBSET ToSet(r.sent) : SendMSG(r.sent, lost)
                /\ log' = [log EXCEPT !.pos = r.pos, !.ign = @ + r.rc]
                /\ fresh' = Ahead(r.pos)
       ELSE /\ UNCHANGED <<log, queue>>
            /\ fresh' = {}
    /\ UNCHANGED <<world, format, dated, excused, opened, cut>>

\* StartMQ fails after a message that SendMSG refused: ErrorExit.
QueueFatal ==
    /\ pc = "read" /\ HasMore
    /\ LET new == ReadLog.sent
       IN  \E k \in DOMAIN new : \E lost \in SUBSET ToSet(SubSeq(new, 1, k)) :
               new[k] \in lost /\ SendMSG(SubSeq(new, 1, k), lost)
    /\ pc' = "ended"
    /\ UNCHANGED <<world, format, dated, log, f_check, fresh, excused, opened, cut>>

\* The count of errors of a file that is never looked at again.
NeverAgain == 999

\* Too many errors: the file is closed.
GiveUp(l) == [l EXCEPT !.fp = None, !.ign = NeverAgain]

Settle(l, size) == IF l.ign > OPEN_ATTEMPTS THEN GiveUp(l) ELSE [l EXCEPT !.size = size]

\* The date has given the file another name.
CheckDay ==
    /\ dated /\ log.day # today
    /\ LET l == handle_file([log EXCEPT !.day = today], FALSE)
       IN  log' = l /\ Remember(l, {})

\* The file of a dated name was not there, and is tried again.
CheckAwaited ==
    /\ dated /\ log.day = today /\ log.fp = None
    /\ LET l == handle_file(log, FALSE) IN log' = l /\ Remember(l, {})

Watched == ~(dated /\ log.day # today) /\ log.fp # None

\* The name leads nowhere: tmp_stat is that of another file, or nothing.
CheckGone ==
    /\ Watched /\ dir[log.day] = None
    /\ \E size \in {0, MaxSize} :
            LET l == Settle(log, size) IN log' = l /\ Remember(l, {})

\* Fault: another file is noticed only if it is shorter.
CheckRotatedShorter ==
    /\ Watched /\ dir[log.day] \notin {None, log.fd}
    /\ LET l == IF Size(dir[log.day]) < log.size THEN handle_file(log, FALSE) ELSE log
       IN  log' = l /\ Remember(l, {})

CheckRotated ==
    /\ Watched /\ dir[log.day] \notin {None, log.fd}
    /\ LET l == handle_file(log, FALSE) IN log' = l /\ Remember(l, {})

\* The file is shorter than at the last check: it is opened anew, at its end.
CheckReduced ==
    /\ Watched /\ dir[log.day] = log.fd /\ log.size > Size(log.fd)
    /\ LET l == Settle(handle_file(log, TRUE), Size(log.fd))
       IN  /\ log' = l
           /\ opened' = opened /\ excused' = excused \cup (fresh \cap AtEnd(log))
           /\ cut' = FALSE /\ UNCHANGED fresh

CheckSame ==
    /\ Watched /\ dir[log.day] = log.fd /\ log.size <= Size(log.fd)
    /\ LET l == Settle(log, Size(log.fd)) IN log' = l /\ Remember(l, {})

\* The file is not open: it is tried until there are too many errors.
CheckClosed ==
    /\ ~dated /\ log.fp = None
    /\ LET l == IF log.ign > OPEN_ATTEMPTS THEN [log EXCEPT !.ign = NeverAgain]
                ELSE IF dir[log.day] = None THEN [log EXCEPT !.ign = @ + 1]
                ELSE handle_file(log, TRUE)
       IN  log' = l /\ Remember(l, AtEnd(l))

Check ==
    /\ pc = "check"
    /\ pc' = "read" /\ f_check' = 0
    /\ \/ CheckDay \/ CheckAwaited \/ CheckGone \/ CheckRotated
       \/ CheckReduced \/ CheckSame \/ CheckClosed
    /\ UNCHANGED <<world, format, dated, queue>>

LogCollectorStart == Poll \/ QueueFatal \/ Check

CollectorNext == World \/ LogCollectorStart

CollectorSpec == CollectorInit /\ [][CollectorNext]_collectorVars

\* The loop of LogCollectorStart goes on whatever the files do, until the program
\* ends: its steps are the ones that count a round.
CountsRound == pc # "ended" /\ f_check' = IF pc = "check" THEN 0 ELSE f_check + 1

FairCollectorSpec == CollectorSpec /\ WF_f_check(CountsRound)

----------------------------------------------------------------------------
(* Type invariant                                                          *)
----------------------------------------------------------------------------
Pieces == [line : 1 .. MaxLines, part : {1, 2}, kind : {"new", "more", "wide", "last"},
           brk : {"nl", "full", "none"}]

\* Every variable keeps its type; in particular the position and the size kept
\* for a file never exceed what was ever written to it.
CollectorTypeOK ==
    /\ \A i \in Inodes : disk[i] \in Seq(Pieces) /\ Len(disk[i]) <= MaxSize
    /\ dir \in [Days -> Inodes \cup {None}] /\ today \in Days
    /\ made \in Inodes /\ wfd \in 1 .. made
    /\ written \in 0 .. MaxLines /\ format \in Formats /\ dated \in BOOLEAN
    /\ log.day \in Days /\ log.fp \in Inodes \cup {None} /\ log.fd \in Inodes \cup {None}
    /\ log.pos \in 0 .. MaxSize /\ log.size \in 0 .. MaxSize
    /\ log.ign \in Nat /\ (log.fp # None => log.fp = log.fd)
    /\ f_check \in 0 .. VCHECK_FILES + 1 /\ pc \in {"read", "check", "ended"} /\ cuts \in 0 .. MaxCuts
    /\ \A m \in ToSet(sent) : m # <<>> /\ ToSet(m) \subseteq Pieces
    /\ resent \subseteq ToSet(sent) /\ refused \subseteq ToSet(sent)
    /\ tails \subseteq [of : ToSet(sent), tail : Pieces]
    /\ fresh \subseteq Pieces /\ excused \subseteq Pieces /\ opened \subseteq Inodes
    /\ cut \in BOOLEAN

----------------------------------------------------------------------------
(* Safety                                                                  *)
----------------------------------------------------------------------------
Texts(ms) == UNION {ToSet(m) : m \in ms}
Delivered == Texts(ToSet(sent) \ refused)

\* Among the pieces on a file, a line that is cut: too long for the buffer of fgets,
\* or not finished.
IsCut(on, p) == \E q \in on : q.line = p.line /\ q.brk # "nl"

\* A line that continues an event of which read_audit has a cache full before it.
BeyondCache(on, p) ==
    \E q \in on :
        /\ q.line + MAX_CACHE <= p.line
        /\ \A x \in on : q.line < x.line /\ x.line <= p.line => x.kind # "new"

\* What a reader may pass over: the rest of a line its call did not begin with,
\* what continues an event whose beginning it does not hold or whose buffer has no
\* room for it, in an audit log a line that is cut and the lines beyond the cache.
\* The readers that count lines give up what is incomplete.
MayPassOver(i, p) ==
    \/ format \in {"multiline", "snort-full"}
    \/ format \in {"mysql_log", "postgresql_log"} /\ p.part = 2
    \/ format \in {"mysql_log", "postgresql_log"} /\ p.kind \in {"more", "wide"}
    \/ format = "multi-line_indented" /\ (p.kind = "wide" \/ (p.kind = "more" /\ p.brk = "full"))
    \/ format = "audit" /\ (IsCut(PiecesOn(i), p) \/ BeyondCache(PiecesOn(i), p))

\* Every line of a file that logcollector opened is sent, still ahead of it in
\* that file, or lost for a reason: in a message that SendMSG refused, written
\* after the last reading before the file was replaced or closed, or cut away, or
\* there before the first opening.  Renaming, replacing, putting back, a new day
\* and a queue that is opened anew lose nothing else.
EveryLineAccounted ==
    \A i \in opened : \A k \in DOMAIN disk[i] :
        LET p == disk[i][k]
        IN  \/ p \in Delivered \cup Texts(refused) \cup excused
            \/ i = log.fp /\ k > log.pos
            \/ MayPassOver(i, p)

\* read_multiline, read_audit and read_snortfull never send the beginning of a
\* line that was being written without its end: the file is put back, or the
\* event is given up.  The other readers send it as if it were whole.
HoldsBackHalfLines ==
    format \in {"multiline", "audit", "snort-full"} =>
        \A m \in ToSet(sent) : \A p \in ToSet(m) :
            p.brk = "none" => [p EXCEPT !.part = 2, !.brk = "nl"] \in ToSet(m)

Before(p, q) == p.line < q.line \/ (p.line = q.line /\ p.part < q.part)

InOrder(m) ==
    \A j, k \in DOMAIN m : \A a \in DOMAIN m[j], b \in DOMAIN m[k] :
        j < k \/ (j = k /\ a < b) => Before(m[j][a], m[k][b])

\* read_syslog sends stale text only behind a string without its newline, and it
\* is text that was given to SendMSG before.
StaleIsOld(t) ==
    /\ format = "syslog" /\ Last(t.of).brk # "nl"
    /\ \A k \in DOMAIN t.of : Before(t.tail, t.of[k])

\* What a reader sends, it sends once and in the order it was written, across
\* rotations, new days and truncations.  Three exceptions: read_audit sends
\* events again while a line is unfinished, a dated file that was given up
\* is opened again at its beginning, and read_syslog lets stale text follow.
SentOnceInOrder ==
    /\ format # "audit" /\ ~(dated /\ format = "snort-full") => resent = {} /\ InOrder(sent)
    /\ \A t \in tails : StaleIsOld(t)

\* A file that was opened once is not given up for being away: only a reader
\* that reports bad syntax makes logcollector stop looking at it.
GivenUpForErrorsOnly == log.ign = NeverAgain => format = "snort-full" \/ opened = {}

\* The types, and what becomes of every line.
ReaderInv ==
  /\ CollectorTypeOK
  /\ EveryLineAccounted
  /\ HoldsBackHalfLines
  /\ GivenUpForErrorsOnly

----------------------------------------------------------------------------
(* Liveness                                                                *)
----------------------------------------------------------------------------
\* In the end nothing is left unread in the open file, save the line that its
\* program never finishes and, for a multi-line file, what is gathered with it.
\* (A dated file that was given up is read from its beginning again and again;
\* a program that found no queue has ended.)
ReadsToTheEnd ==
    (dated /\ format = "snort-full") \/
    <>[](pc = "ended" \/ log.fp = None \/ log.pos >= Size(log.fp)
         \/ (Pending(log.fp) /\ format \in {"multiline", "audit"}))

\* A file put in the place of the log, on rotation or on a new day, is opened,
\* or the one that replaces it in turn, unless the log has been given up or the
\* program has ended.
ReplacementIsOpened ==
    dir[today] \notin opened \cup {None}
        ~> dir[today] \in opened \cup {None} \/ log.ign = NeverAgain \/ pc = "ended"
=============================================================================
