----------------------------- MODULE LogReaders -----------------------------
(***************************************************************************)
(* The readers of logcollector (src/src/logcollector/read_*.c): what one   *)
(* call of logff[i].read sends of the strings that fgets finds from the    *)
(* position of the file on, and where it leaves that position.             *)
(*                                                                         *)
(* A file is a sequence of pieces.  A piece is what one write added: a     *)
(* line, or the first or second part of one.  Its field brk says how it    *)
(* ends: "nl" with the newline, "full" where the buffer of fgets is full   *)
(* (the rest of the line follows as a piece of its own), "none" where the  *)
(* program has not written more yet.  The text is abstracted to its kind:  *)
(* "new" starts an event (the time stamp of a database log, the first line *)
(* of a snort alert, an audit id that differs from the one before), "more" *)
(* continues one, "wide" continues one and is longer than the room that is *)
(* left in the buffer of the message, "last" is the third line of a snort  *)
(* alert.                                                                  *)
(***************************************************************************)
EXTENDS Naturals, Sequences, SequencesExt

CONSTANTS
    LineCount,    \* atoi(logformat) of a multi-line file
    MAX_CACHE     \* lines of an event that read_audit keeps (16)

ASSUME LineCountAssumption == LineCount \in Nat \ {0}
ASSUME MaxCacheAssumption == MAX_CACHE \in Nat \ {0}

(***************************************************************************)
(* fgets, from the position from on: a string ends with a newline, a full  *)
(* buffer or the file.  A piece that ends in none of them runs on into the *)
(* next one.  "to" is the position after the string.                       *)
(***************************************************************************)
Ends(s, k) == s[k].brk # "none" \/ k = Len(s)

fgets(s, from, k) ==
    LET b == IF k - 1 > from /\ s[k - 1].brk = "none" THEN k - 1 ELSE k
    IN  [pieces |-> [j \in 1 .. (k - b) + 1 |-> s[(b + j) - 1]],
         kind |-> s[b].kind, part |-> s[b].part, brk |-> s[k].brk, to |-> k]

\* What a reader keeps while it works: the messages sent, the string it is
\* putting together, the position, and the flags of the loop.
Start(from) ==
    [sent |-> <<>>, buf |-> <<>>, pos |-> from, mark |-> from, got |-> 0,
     ms |-> FALSE, clear |-> FALSE, stop |-> FALSE, rc |-> 0]

Put(st, m) == [st EXCEPT !.sent = Append(@, m)]
Flush(st) == IF st.buf = <<>> THEN st ELSE [Put(st, st.buf) EXCEPT !.buf = <<>>]
Keep(st, g) == [st EXCEPT !.buf = @ \o g.pieces]
StartsEvent(g) == g.kind = "new" /\ g.part = 1

(***************************************************************************)
(* read_syslog: strchr(str, '\0') is never NULL, so that the branches for  *)
(* a long and for an unfinished line are never taken: every string is sent *)
(* as a message.  What is sent of a string without its newline is not only *)
(* the string: its NUL is overwritten, and what str held behind it follows *)
(* (Stale).                                                                *)
(***************************************************************************)
Syslog(st, g) == Put(st, g.pieces)

\* The tails that the messages of new may carry behind them, earlier being the
\* messages before: str is not set to zero, and still holds the end of a longer
\* string, of this call or of an earlier one whose stack it lies on.
Stale(earlier, new) ==
    UNION {[of : {new[k]}, tail : UNION {ToSet(m) : m \in ToSet(earlier \o SubSeq(new, 1, k - 1))}] :
               k \in {j \in DOMAIN new : Last(new[j]).brk # "nl"}}

(***************************************************************************)
(* read_multiline: an unfinished line puts the file back to where it was   *)
(* after the last message.  linesgot is not set back after a message: the  *)
(* lines that follow the first group of a call are sent one by one.  __ms  *)
(* is looked at only after a message: what is thrown away then is the rest *)
(* of the line in hand, which is the wrong one if a long line came first.  *)
(***************************************************************************)
Multiline(st, g) ==
    LET s == [Keep(st, g) EXCEPT !.got = @ + 1, !.ms = @ \/ g.brk = "full"]
    IN  IF st.clear THEN [st EXCEPT !.clear = g.brk # "nl", !.mark = g.to]
        ELSE IF g.brk = "none" THEN [st EXCEPT !.stop = TRUE, !.pos = st.mark, !.buf = <<>>]
        ELSE IF s.got < LineCount THEN s
        ELSE [Flush(s) EXCEPT !.mark = g.to, !.clear = s.ms, !.ms = FALSE]

(***************************************************************************)
(* read_audit: lines of one audit id are one message, as many as the cache *)
(* has room for (got counts them).  A long line is thrown away to its end  *)
(* and ends the call; an unfinished one puts the file back to where the    *)
(* call began, although the events before it are sent.  The rest of a line *)
(* is bad syntax, which ends the call too.                                 *)
(***************************************************************************)
Cache(st, g) ==
    IF g.kind = "new" \/ st.buf = <<>> THEN [Keep(Flush(st), g) EXCEPT !.got = 1]
    ELSE IF st.got = MAX_CACHE THEN st
    ELSE [Keep(st, g) EXCEPT !.got = @ + 1]

\* Fault: a long line puts the file back.
AuditStaysAtLong(st, g) ==
    IF g.brk # "nl" THEN [st EXCEPT !.stop = TRUE, !.pos = st.mark]
    ELSE IF g.part = 2 THEN [st EXCEPT !.stop = TRUE]
    ELSE Cache(st, g)

Audit(st, g) ==
    IF st.clear THEN [st EXCEPT !.stop = g.brk = "nl"]
    ELSE IF g.brk = "full" THEN [st EXCEPT !.clear = TRUE]
    ELSE IF g.brk = "none" THEN [st EXCEPT !.stop = TRUE, !.pos = st.mark]
    ELSE IF g.part = 2 THEN [st EXCEPT !.stop = TRUE]
    ELSE Cache(st, g)

(***************************************************************************)
(* read_snortfull: three lines are an alert, the second may be missing.    *)
(* Anything else within an alert, and a line without its newline, is an    *)
(* error that ends the call and gives up what was gathered.                *)
(***************************************************************************)
BadFormat(st) == [st EXCEPT !.stop = TRUE, !.rc = 1, !.buf = <<>>]

Snortfull(st, g) ==
    CASE g.brk # "nl" -> BadFormat(st)
      [] g.brk = "nl" /\ st.buf = <<>> -> IF StartsEvent(g) THEN Keep(st, g) ELSE st
      [] g.brk = "nl" /\ st.buf # <<>> /\ g.kind = "last" -> Flush(Keep(st, g))
      [] g.brk = "nl" /\ st.got = 0 /\ st.buf # <<>> /\ g.kind = "more" ->
            [Keep(st, g) EXCEPT !.got = 1]
      [] OTHER -> BadFormat(st)

SnortLine(st, g) == LET s == Snortfull(st, g) IN IF s.buf = <<>> THEN [s EXCEPT !.got = 0] ELSE s

(***************************************************************************)
(* The database and multilog readers: a string without its newline is used *)
(* as it is, and the rest of its line, if the same call reads it, is       *)
(* thrown away.                                                            *)
(***************************************************************************)
Clears(st, g) == g.brk = "nl" /\ st.clear

\* read_mysql_log and read_djbmultilog: a line with a header is a message
\* ("more" is a line with neither a header nor the tabs of the same second).
Mysql(st, g) == IF StartsEvent(g) THEN Put(st, g.pieces) ELSE st

\* A line that continues the message in the buffer, and one that has room there
\* (one as long as the buffer of fgets never has, nor any behind such a line).
Continues(st, g) == st.buf # <<>> /\ g.kind \in {"more", "wide"}
HasRoom(g) == g.kind = "more" /\ g.brk # "full"
HoldsLong(st) == \E p \in ToSet(st.buf) : p.brk = "full"

\* read_postgresql_log and read_mssql_log: a header ends the message before.
Database(st, g) ==
    IF StartsEvent(g) THEN Keep(Flush(st), g)
    ELSE IF Continues(st, g) /\ HasRoom(g) /\ ~HoldsLong(st) THEN Keep(st, g)
    ELSE st

\* read_multiline_indented (no empty lines here): a line that is not indented, the rest of a cut
\* line included, ends the message before.
Indented(st, g) ==
    IF ~(Continues(st, g) /\ g.part = 1) THEN Keep(Flush(st), g)
    ELSE IF HasRoom(g) THEN Keep(st, g)
    ELSE st

----------------------------------------------------------------------------
MysqlLine(st, g) ==
    IF Clears(st, g) THEN [st EXCEPT !.clear = FALSE]
    ELSE Mysql([st EXCEPT !.clear = g.brk # "nl"], g)

DatabaseLine(st, g) ==
    IF Clears(st, g) THEN [st EXCEPT !.clear = FALSE]
    ELSE Database([st EXCEPT !.clear = g.brk # "nl"], g)

KnownFormats == {"syslog", "multiline", "audit", "snort-full", "mysql_log",
                 "postgresql_log", "multi-line_indented"}

\* One round of the loop of a reader.
Line(format, st, g) ==
    CASE format = "syslog"     -> Syslog(st, g)
      [] format = "multiline"  -> Multiline(st, g)
      [] format = "audit"      -> Audit(st, g)
      [] format = "snort-full" -> SnortLine(st, g)
      [] format = "mysql_log"  -> MysqlLine(st, g)
      [] format = "postgresql_log" -> DatabaseLine(st, g)
      [] format = "multi-line_indented" -> Indented(st, g)

\* The position is after the string, unless the reader puts it elsewhere.
Round(format, st, g) ==
    IF st.stop THEN st ELSE Line(format, [st EXCEPT !.pos = g.to], g)

\* What is gathered when the file ends is sent by some and dropped by others.
SendsRest == {"audit", "postgresql_log", "multi-line_indented"}

\* A call of logff[i].read, for a file that holds s: after each piece what the
\* reader keeps, and in the end what it has sent and where it leaves the file.
Rounds(format, s, from) ==
    LET after[k \in from .. Len(s)] ==
            IF k = from THEN Start(from)
            ELSE IF Ends(s, k) THEN Round(format, after[k - 1], fgets(s, from, k))
            ELSE after[k - 1]
    IN  after

Read(format, s, from) ==
    LET r == Rounds(format, s, from)[Len(s)]
    IN  IF format \in SendsRest THEN Flush(r) ELSE r
=============================================================================
