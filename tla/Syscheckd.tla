----------------------------- MODULE Syscheckd ------------------------------
(***************************************************************************)
(* The integrity checker of the agent (src/src/syscheckd), composed with   *)
(* the database of analysisd it reports to.                                *)
(*                                                                         *)
(* syscheckd is one thread: it scans the directories now and then, and     *)
(* between scans looks at the files inotify names.  Its hash table keeps   *)
(* the checksum each file had when it was first seen, and a scan reports   *)
(* every file that has another one.  The files change under it at any      *)
(* step.  Reports pass through agentd and remoted and may be lost.         *)
(***************************************************************************)
EXTENDS SyscheckDB

CONSTANTS
    Starts,     \* what the disk may hold at first: functions from Files
    MaxEdits,   \* bound: MaxEdits[f], changes made to f
    MaxMishaps  \* bound: lost reports and crashes of analysisd, restarts of syscheckd

ASSUME SyscheckdAssumption ==
    MaxEdits \in [Files -> Nat] /\ MaxMishaps \in Nat /\ Starts \subseteq [Files -> Sums \cup {Deleted}]

VARIABLES
    file,     \* what is on the disk: a checksum, or Deleted
    hash,     \* syscheck.fp: the checksum of a file when it was first seen, or None
    watched,  \* inotify watches the directory
    events,   \* files with a notification not yet read; the order is left out
    pc,       \* idle, scan, listed (readdir gave a name), hashed (it is in the hash)
    todo,     \* names readdir has yet to come to
    cur,      \* file_name
    edits,    \* counter: edits[f], changes of f
    mishaps,  \* counter
    first,    \* history: the checksum each file was first seen with by this syscheckd
    reported  \* history: files reported after that

checker == <<hash, watched, pc, todo, cur>>
vars == <<wire, database, file, events, checker, edits, mishaps, first, reported>>

NoFile == "none"

ASSUME NoFileAssumption == NoFile \notin Files

Init ==
    /\ DBInit
    /\ file \in Starts
    /\ hash = [f \in Files |-> None] /\ watched = FALSE /\ events = {}
    /\ pc = "idle" /\ todo = {} /\ cur = NoFile
    /\ edits = [f \in Files |-> 0] /\ mishaps = 0 /\ first = hash /\ reported = {}

----------------------------------------------------------------------------
(* The host                                                                *)
----------------------------------------------------------------------------
\* A file is written, made or removed.
Edit(f) ==
    /\ edits[f] < MaxEdits[f] /\ edits' = [edits EXCEPT ![f] = @ + 1]
    /\ \E s \in (Sums \cup {Deleted}) \ {file[f]} : file' = [file EXCEPT ![f] = s]
    /\ events' = IF watched THEN events \cup {f} ELSE events
    /\ UNCHANGED <<wire, database, checker, mishaps, first, reported>>

----------------------------------------------------------------------------
(* The checker                                                             *)
----------------------------------------------------------------------------
\* send_syscheck_msg: it waits while the queue is full.
Send(f, s) ==
    /\ Len(wire) < WireLen
    /\ wire' = Append(wire, [name |-> f, sum |-> s])

\* Fault: the hash follows the reports.
ReportedOnce(f) ==
    /\ IF file[f] = hash[f] THEN UNCHANGED <<wire, hash>>
       ELSE Send(f, file[f]) /\ hash' = [hash EXCEPT ![f] = file[f]]
    /\ reported' = IF file[f] = hash[f] THEN reported ELSE reported \cup {f}
    /\ UNCHANGED first

\* c_read_file and what follows it for a file of the hash: it is gone, or its
\* checksum is not the first one, or there is nothing to tell.
Compare(f) ==
    /\ IF file[f] = hash[f] THEN UNCHANGED wire ELSE Send(f, file[f])
    /\ reported' = IF file[f] = hash[f] THEN reported ELSE reported \cup {f}
    /\ UNCHANGED <<hash, first>>

\* read_file for a file that is not in the hash.
AddFile(f) ==
    /\ hash' = [hash EXCEPT ![f] = file[f]]
    /\ first' = [first EXCEPT ![f] = file[f]]
    /\ Send(f, file[f])
    /\ UNCHANGED reported

\* The time for a scan: create_db, run_dbcheck; the directory is watched from here.
StartScan ==
    /\ pc = "idle"
    /\ pc' = "scan" /\ todo' = Files /\ watched' = TRUE
    /\ UNCHANGED <<wire, database, file, hash, events, cur, edits, mishaps, first, reported>>

\* readdir gives the name of a file that is there.
Readdir(f) ==
    /\ pc = "scan" /\ f \in todo /\ todo' = todo \ {f}
    /\ IF file[f] = Deleted THEN UNCHANGED <<pc, cur>> ELSE pc' = "listed" /\ cur' = f
    /\ UNCHANGED <<wire, database, file, hash, watched, events, edits, mishaps, first, reported>>

\* The lstat of read_file says that a directory of the path is none any more.
NotDir(f) ==
    /\ Send(f, Deleted)
    /\ reported' = IF hash[f] = None THEN reported ELSE reported \cup {f}
    /\ UNCHANGED <<hash, first>>

\* read_file: nothing is said of a file that its lstat does not find, unless its
\* directory has become a file.
Read_file ==
    /\ pc = "listed"
    /\ \/ /\ file[cur] = Deleted /\ pc' = "scan" /\ cur' = NoFile
          /\ NotDir(cur) \/ UNCHANGED <<wire, hash, first, reported>>
       \/ file[cur] # Deleted /\ hash[cur] = None /\ AddFile(cur) /\ pc' = "scan" /\ cur' = NoFile
       \/ file[cur] # Deleted /\ hash[cur] # None /\ pc' = "hashed" /\ UNCHANGED <<cur, wire, hash, first, reported>>
    /\ UNCHANGED <<database, file, watched, events, todo, edits, mishaps>>

C_read_file ==
    /\ pc = "hashed" /\ Compare(cur) /\ pc' = "scan" /\ cur' = NoFile
    /\ UNCHANGED <<database, file, watched, events, todo, edits, mishaps>>

EndScan ==
    /\ pc = "scan" /\ todo = {} /\ pc' = "idle"
    /\ UNCHANGED <<wire, database, file, hash, watched, events, todo, cur, edits, mishaps, first, reported>>

\* realtime_process and realtime_checksumfile: a new file is read as in a scan.
Realtime(f) ==
    /\ pc = "idle" /\ f \in events /\ events' = events \ {f}
    /\ \/ hash[f] # None /\ Compare(f)
       \/ hash[f] = None /\ file[f] # Deleted /\ AddFile(f)
       \/ hash[f] = None /\ file[f] = Deleted /\ UNCHANGED <<wire, hash, first, reported>>
    /\ UNCHANGED <<database, file, watched, pc, todo, cur, edits, mishaps>>

----------------------------------------------------------------------------
(* Mishaps                                                                 *)
----------------------------------------------------------------------------
Mishap == mishaps < MaxMishaps /\ mishaps' = mishaps + 1

\* A report is lost on its way.
Lose ==
    /\ Mishap /\ wire # <<>> /\ wire' = Tail(wire)
    /\ UNCHANGED <<database, file, events, checker, edits, first, reported>>

Crash ==
    /\ Mishap /\ DB_Crash
    /\ UNCHANGED <<file, events, checker, edits, first, reported>>

\* syscheckd starts again: the hash is made anew.
Restart ==
    /\ Mishap
    /\ hash' = [f \in Files |-> None] /\ watched' = FALSE /\ events' = {}
    /\ pc' = "idle" /\ todo' = {} /\ cur' = NoFile
    /\ first' = hash' /\ reported' = {}
    /\ UNCHANGED <<wire, database, file, edits>>

----------------------------------------------------------------------------
Checker == \/ StartScan \/ Read_file \/ C_read_file \/ EndScan
           \/ \E f \in Files : Readdir(f) \/ Realtime(f)

Decode == /\ DB_Search \/ DB_Append
          /\ UNCHANGED <<file, events, checker, edits, mishaps, first, reported>>

Next == Checker \/ Decode \/ (\E f \in Files : Edit(f)) \/ Lose \/ Crash \/ Restart

Spec == Init /\ [][Next]_vars

\* syscheckd keeps scanning and comes to every name of a directory; analysisd
\* reads its queue.
FairSpec == Spec /\ WF_vars(Checker) /\ WF_vars(Decode)

----------------------------------------------------------------------------
TypeOK ==
    /\ DBTypeOK
    /\ file \in [Files -> Sums \cup {Deleted}] /\ hash \in [Files -> Sums \cup {None}]
    /\ watched \in BOOLEAN /\ events \subseteq Files
    /\ pc \in {"idle", "scan", "listed", "hashed"} /\ todo \subseteq Files
    /\ cur \in Files \cup {NoFile} /\ (cur \in Files <=> pc \in {"listed", "hashed"})
    /\ edits \in [Files -> Nat] /\ (\A f \in Files : edits[f] <= MaxEdits[f])
    /\ mishaps \in 0 .. MaxMishaps /\ reported \subseteq Files
    /\ first \in [Files -> Sums \cup {None}]

\* The types, and the account the marks of the database keep of the alerts.
DatabaseInv == TypeOK /\ EntryIsAccount

\* A checksum takes the place of another in the database only with an alert,
\* unless analysisd was killed between the two writes of an earlier change: the
\* file then looks like a new one, and the change that is reported again is lost
\* without a word.
SilentOnlyIfCut ==
    [][\A f \in Files : saved[f] # None /\ saved'[f] # saved[f]
                        => alerts'[f] = alerts[f] + 1 \/ f \in cut]_vars

\* When the files change no more, the database comes to have the checksum of every
\* file there is, whatever reports were lost, but for a file that is ignored after
\* three alerts, and for one that again has the checksum it was first seen with:
\* that is reported only when syscheckd starts again, so after another report of the
\* file, or after a loss of the first one, the database stays wrong.
Agrees(f) ==
    \/ file[f] = Deleted
    \/ \E i \in Entries(f) : db[i].sum = file[f] \/ Ignored(db[i])
    \/ first[f] = file[f] /\ (f \in reported \/ mishaps > 0)

DatabaseSettles == <>[](\A f \in Files : Agrees(f))
=============================================================================
