----------------------------- MODULE SyscheckDB -----------------------------
(***************************************************************************)
(* The integrity database of analysisd (decoders/syscheck.c), for the      *)
(* files of one agent.  Each agent has one text file, searched from its    *)
(* beginning for each report.  A line holds three marks that count the     *)
(* changes of a file, its checksum and its name; a change puts a # over    *)
(* the line and appends a new one, in two writes.                          *)
(*                                                                         *)
(* Commented lines are left out of db: nothing reads them.  What is kept   *)
(* of a checksum is whether it is that of another.                         *)
(***************************************************************************)
EXTENDS Naturals, Sequences, SequencesExt, FiniteSets

CONSTANTS
    Files,       \* names of files
    Sums,        \* checksums
    AutoIgnore,  \* Config.syscheck_auto_ignore
    WireLen      \* bound: reports on their way

ASSUME SyscheckDBAssumption ==
    AutoIgnore \in BOOLEAN /\ WireLen \in Nat \ {0} /\ Sums \cap {"-1", "none"} = {}

Deleted == "-1"    \* the checksum of a file that is not there
None    == "none"
Reports == [name : Files, sum : Sums \cup {Deleted}]
Marks   == 0 .. 4  \* +++, !++, !!+, !!! and !!?

VARIABLES
    wire,    \* reports on their way from syscheckd, the oldest first
    db,      \* the lines of the database that are not commented: [marks, sum, name]
    adding,  \* DB_Search between its writes: <<line>>, or <<>>
    saved,   \* history: saved[f], the checksum last saved for f
    alerts,  \* history: alerts[f], alerts since f was last reported as new
    cut      \* history: files whose entry was lost in a crash

database == <<db, adding, saved, alerts, cut>>

DBInit ==
    /\ wire = <<>> /\ db = <<>> /\ adding = <<>>
    /\ saved = [f \in Files |-> None] /\ alerts = [f \in Files |-> 0] /\ cut = {}

DBTypeOK ==
    /\ wire \in Seq(Reports) /\ Len(wire) <= WireLen
    /\ \A i \in DOMAIN db : db[i] \in [marks : Marks, sum : Sums \cup {Deleted}, name : Files]
    /\ Len(adding) <= 1
    /\ saved \in [Files -> Sums \cup {Deleted, None}] /\ alerts \in [Files -> Nat]
    /\ cut \subseteq Files

----------------------------------------------------------------------------
Entries(f) == {i \in DOMAIN db : db[i].name = f}
Ignored(e) == AutoIgnore /\ e.marks >= 3

\* The marks of the new line of a file whose line had m.
NextMarks(m) == IF m <= 2 THEN m + 1 ELSE 4

\* Fault: the line is left as it is.
CommentNot(i) == db

\* The # over line i.
Comment(i) == RemoveAt(db, i)

\* A file that has no line: it is saved as a new one, without an alert.
\* (syscheck_alert_new is off, its default.)
SaveNew(r) ==
    /\ db' = Append(db, [marks |-> 0, sum |-> r.sum, name |-> r.name])
    /\ saved' = [saved EXCEPT ![r.name] = r.sum]
    /\ alerts' = [alerts EXCEPT ![r.name] = 0] /\ cut' = cut \ {r.name}
    /\ UNCHANGED adding

\* Fault: the checksum of a file that is ignored is saved.
StoredIgnored(i, r) ==
    IF Ignored(db[i])
    THEN /\ db' = [db EXCEPT ![i].sum = r.sum]
         /\ saved' = [saved EXCEPT ![r.name] = r.sum] /\ UNCHANGED <<adding, alerts, cut>>
    ELSE /\ db' = Comment(i)
         /\ adding' = <<[marks |-> NextMarks(db[i].marks), sum |-> r.sum, name |-> r.name]>>
         /\ UNCHANGED <<saved, alerts, cut>>

\* A file whose checksum is not that of its line: the first of the two writes,
\* unless the file has changed so often that it is ignored.
Changed(i, r) ==
    IF Ignored(db[i]) THEN UNCHANGED database
    ELSE /\ db' = Comment(i)
         /\ adding' = <<[marks |-> NextMarks(db[i].marks), sum |-> r.sum, name |-> r.name]>>
         /\ UNCHANGED <<saved, alerts, cut>>

\* DecodeSyscheck and DB_Search, for the oldest report: the first line of its
\* file decides.
DB_Search ==
    /\ adding = <<>> /\ wire # <<>> /\ wire' = Tail(wire)
    /\ LET r == Head(wire)
           i == CHOOSE j \in Entries(r.name) : \A k \in Entries(r.name) : j <= k
       IN  IF Entries(r.name) = {} THEN SaveNew(r)
           ELSE IF db[i].sum = r.sum THEN UNCHANGED database
           ELSE Changed(i, r)

\* The second write and the alert.
DB_Append ==
    /\ adding # <<>> /\ adding' = <<>>
    /\ LET e == adding[1]
       IN  /\ db' = Append(db, e)
           /\ saved' = [saved EXCEPT ![e.name] = e.sum]
           /\ alerts' = [alerts EXCEPT ![e.name] = @ + 1]
    /\ UNCHANGED <<wire, cut>>

\* analysisd is killed and starts again: what is in its queue is lost, and the
\* line it was about to write.
DB_Crash ==
    /\ wire' = <<>> /\ adding' = <<>>
    /\ cut' = cut \cup {adding[i].name : i \in DOMAIN adding}
    /\ UNCHANGED <<db, saved, alerts>>

----------------------------------------------------------------------------
\* The marks of a line are the alerts its file has raised (of the default rules,
\* a file is heard of three times), and a file that was saved has one line,
\* unless a crash or DB_Search is between the two writes.
EntryIsAccount ==
    \A f \in Files :
        LET n == Cardinality(Entries(f)) IN
        /\ n = (IF saved[f] = None \/ f \in cut \/ (adding # <<>> /\ adding[1].name = f) THEN 0 ELSE 1)
        /\ \A i \in Entries(f) : db[i].sum = saved[f] /\ db[i].marks = (IF alerts[f] < 4 THEN alerts[f] ELSE 4)
        /\ AutoIgnore => alerts[f] <= 3
=============================================================================
