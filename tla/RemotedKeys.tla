---------------------------- MODULE RemotedKeys ----------------------------
(***************************************************************************)
(* The keys in remoted's memory and what its three threads do with them:   *)
(* the receiving thread looks up the sender of each message and re-reads   *)
(* client.keys when it is unknown (HandleSecure, check_keyupdate,          *)
(* OS_UpdateKeys); the active-response thread sends to agents by name, by  *)
(* id or to all (AR_Forward); the waiting thread sends files to an agent   *)
(* it knows by index only (wait_for_msgs).  All send through send_msg.     *)
(*                                                                         *)
(* A reload takes both mutexes, hides the keys, sleeps, frees them, and    *)
(* reads the file.  Indices start from 1 here.                             *)
(***************************************************************************)
EXTENDS ClientKeys

CONSTANTS
  Static,      \* hosts found by their fixed address and not by their id
  None,        \* no host
  Old,         \* an announcement that is older than the last reload
  EmptyPiece   \* TRUE if a shared file has a 900-byte piece starting with NUL

ASSUME StaticAssumption == Static \subseteq Hosts
ASSUME NoneAssumption == None \notin Hosts /\ Old \notin Hosts \cup {None}
ASSUME KindsAssumption == /\ \A h \in Hosts : h \notin Ids
                          /\ None \notin Ids /\ None \notin {"main", "ar", "wait"}
ASSUME EmptyPieceAssumption == EmptyPiece \in BOOLEAN

Slots == 1 .. MaxLines

VARIABLES
  stamp,        \* the date of change of the file, counted in seconds with edits
  fresh,        \* the current second is the one of that date
  dates,        \* dates[l]: the date of change that line l left (history)
  up,           \* FALSE once remoted left: no key in the file, or a fault
  keyentries,   \* the entries: line (the key), rcvd (heard of, and its peer
                \* address known: agents send often enough to stay so)
  file_change,  \* keys.file_change
  keyupdate,    \* who holds keyupdate_mutex
  sendmsg,      \* who holds sendmsg_mutex
  main,         \* the receiving thread
  ar,           \* the active-response thread
  wait,         \* the waiting thread
  changed,      \* _changed[i]: the host announced (history), None, or Old
  keep_alive    \* _keep_alive[i]: the agent whose file it names

fileVars == <<file, stamp, fresh, dates>>
keyVars == <<keyentries, file_change>>
locks   == <<keyupdate, sendmsg>>
saved   == <<changed, keep_alive>>
remVars == <<up, keyentries, file_change, keyupdate, sendmsg, main, ar, wait,
             changed, keep_alive>>
vars    == <<fileVars, remVars>>

Idle == [at |-> "idle"]

Entry(l) == [line |-> l, rcvd |-> FALSE]

Ordered(S) == [i \in 1 .. Cardinality(S) |->
                 CHOOSE l \in S : Cardinality({k \in S : k <= l}) = i]

(* Faults: the last line is left out, or put first.                        *)
LinesButLast  == Ordered(LiveLines \ {Len(file)})
LinesLastFirst == IF Cardinality(LiveLines) = 2 THEN <<2, 1>>
                                                ELSE Ordered(LiveLines)

(* The lines of agents that are not removed, in the order of the file.     *)
LinesToRead == Ordered(LiveLines)

Init ==
  /\ InitFile
  /\ stamp = 0 /\ fresh = FALSE /\ dates = <<0>>
  /\ up = TRUE
  /\ keyentries = [i \in DOMAIN LinesToRead |-> Entry(LinesToRead[i])]
  /\ file_change = stamp
  /\ keyupdate = None /\ sendmsg = None
  /\ main = Idle /\ ar = Idle /\ wait = Idle
  /\ changed = [i \in Slots |-> None]
  /\ keep_alive = [i \in Slots |-> None]

-----------------------------------------------------------------------------
(* manage_agents: its dialogues change nothing before they are confirmed,  *)
(* and with one administrator nothing changes under them.                  *)

(* The date has seconds: an edit may leave the date of the edit before it. *)
Touched == /\ stamp' \in {stamp + 1} \cup (IF fresh THEN {stamp} ELSE {})
           /\ fresh' = TRUE

(* A new second.                                                           *)
Second == fresh /\ fresh' = FALSE /\ UNCHANGED <<file, stamp, dates>>

add_agent(h) ==
  /\ Len(file) < MaxLines /\ ~ NameExist(h)
  /\ AppendLine(h, DefaultId)
  /\ Touched /\ dates' = Append(dates, stamp')

remove_agent(id) ==
  /\ getFullnameById(id) # {}
  /\ OverwriteLine(Place(id), id)
  /\ Touched /\ UNCHANGED dates

EditFile == \/ Second
            \/ \E h \in Hosts : add_agent(h)
            \/ \E id \in Ids : remove_agent(id)

-----------------------------------------------------------------------------
(* The store.                                                              *)

Hidden == main.at \in {"hidden", "freed", "dated"}
Freed  == main.at \in {"freed", "dated"}
KeySize == IF Hidden THEN 0 ELSE Len(keyentries)

Name(i) == file[keyentries[i].line].name
Id(i)   == file[keyentries[i].line].id

(* The hashes keep the first entry of an id and of an address; a name is   *)
(* searched from the first entry on.                                       *)
First(S) == {i \in S : \A k \in S : i <= k}
OS_IsAllowedID(id, entries) ==
  First({i \in DOMAIN entries : file[entries[i].line].id = id})
OS_IsAllowedIP(h, entries) ==
  First({i \in DOMAIN entries : file[entries[i].line].name = h})

OS_IsAllowedName(h) == First({i \in 1 .. KeySize : Name(i) = h})

(* The sender of a message of h, sealed with the key of line l.            *)
Lookup(h, l, entries) == IF h \in Static THEN OS_IsAllowedIP(h, entries)
                         ELSE OS_IsAllowedID(file[l].id, entries)

Addressee(who) == IF who \in Hosts THEN OS_IsAllowedName(who)
                  ELSE OS_IsAllowedID(who, keyentries)

-----------------------------------------------------------------------------
(* send_msg, in the three threads.  pc is the thread's variable, with the  *)
(* index in pc.i; it reads the age of the agent before it takes a lock.    *)

Recent(i) == i \in DOMAIN keyentries /\ keyentries[i].rcvd

(* Entries freed or out of range: the read may find anything, or fault.    *)
Wild(i) == Freed \/ i > Len(keyentries) + 1

(* Outcome of the test, as a set.                                          *)
Passes(i) == IF Wild(i) THEN BOOLEAN ELSE {Recent(i)}

(* CreateSecMSG and sendto, under sendmsg_mutex: one step, when the mutex  *)
(* is free.  Sent under the key of the entry at that index, to the address *)
(* it has then; no thread waits for what comes of it.                      *)
Sends(i) == sendmsg = None /\ i \in DOMAIN keyentries

-----------------------------------------------------------------------------
(* The receiving thread.                                                   *)

(* A control message of host h, sealed with key l: the entry found must    *)
(* have that key.  Its address and its time are left in the entry.         *)
Accept(h, l, entries, E) ==
  IF \E i \in E : entries[i].line = l
  THEN LET i == CHOOSE k \in E : TRUE
       IN /\ keyentries' = [entries EXCEPT ![i].rcvd = TRUE]
          /\ main' = [at |-> "ack", from |-> h, i |-> i]
  ELSE /\ keyentries' = entries
       /\ main' = Idle

(* HandleSecure; check_keyupdate compares the date without a lock.         *)
Receive(h) ==
  /\ main = Idle
  /\ \E l \in Held(h) :
       LET E == Lookup(h, l, keyentries)
       IN IF E # {} THEN Accept(h, l, keyentries, E)
          ELSE /\ main' = IF file_change = stamp THEN Idle
                          ELSE [at |-> "update", from |-> h, key |-> l]
               /\ UNCHANGED keyentries
  /\ UNCHANGED <<file_change, locks, ar, wait, saved, up>>

(* key_lock, then sendmsg_mutex.                                           *)
LockKeys ==
  /\ main.at = "update" /\ keyupdate = None
  /\ keyupdate' = "main"
  /\ main' = [main EXCEPT !.at = "locked"]
  /\ UNCHANGED <<keyVars, sendmsg, ar, wait, saved, up>>

LockSends ==
  /\ main.at = "locked" /\ sendmsg = None
  /\ sendmsg' = "main"
  /\ main' = [main EXCEPT !.at = "hidden"]
  /\ UNCHANGED <<keyVars, keyupdate, ar, wait, saved, up>>

(* OS_FreeKeys set keysize to 0, slept a second, and frees the entries.    *)
OS_FreeKeys ==
  /\ main.at = "hidden"
  /\ keyentries' = <<>>
  /\ main' = [main EXCEPT !.at = "freed"]
  /\ UNCHANGED <<file_change, locks, ar, wait, saved, up>>

(* OS_ReadKeys: the date first ...                                         *)
ReadDate ==
  /\ main.at = "freed"
  /\ file_change' = stamp
  /\ main' = [main EXCEPT !.at = "dated"]
  /\ UNCHANGED <<keyentries, locks, ar, wait, saved, up>>

(* ... then the lines, without the removed ones.  With none, remoted ends. *)
(* Otherwise the message is looked up once more.  The tables by index know *)
(* nothing of the reload.                                                  *)
OS_ReadKeys ==
  /\ main.at = "dated"
  /\ LET entries == [i \in DOMAIN LinesToRead |-> Entry(LinesToRead[i])]
     IN IF entries = <<>>
        THEN up' = FALSE /\ UNCHANGED <<keyentries, main, locks>>
        ELSE /\ Accept(main.from, main.key, entries,
                       Lookup(main.from, main.key, entries))
             /\ keyupdate' = None /\ sendmsg' = None
             /\ UNCHANGED up
  /\ changed' = [i \in Slots |-> IF changed[i] = None THEN None ELSE Old]
  /\ wait' = IF wait = Idle THEN Idle ELSE [wait EXCEPT !.for = Old]
  /\ UNCHANGED <<file_change, ar, keep_alive>>

(* save_controlmsg: the acknowledgement is sent, then, unless it was the   *)
(* startup message, the agent's file is written and the waiting thread     *)
(* told.  The file keeps its first name.                                   *)
save_controlmsg ==
  /\ main.at = "ack"
  /\ Recent(main.i) => Sends(main.i)
  /\ main' = Idle
  /\ \/ UNCHANGED saved
     \/ /\ keep_alive' = [keep_alive EXCEPT ![main.i] =
                            IF @ = None THEN Name(main.i) ELSE @]
        /\ changed' = [changed EXCEPT ![main.i] = main.from]
  /\ UNCHANGED <<keyVars, locks, ar, wait, up>>

-----------------------------------------------------------------------------
(* The active-response thread.                                             *)

SendingTo(i, who, all) == [at |-> "send", i |-> i, for |-> who, all |-> all]
Chosen(E, who) == {SendingTo(i, who, FALSE) : i \in E}

(* Fault: the keys are not locked.                                         *)
Unlocked(who) ==
  /\ ar = Idle
  /\ ar' \in Chosen(Addressee(who), who)
  /\ UNCHANGED <<keyVars, locks, main, wait, saved, up>>

(* A response for the agent of an event (by name) or a given agent (by     *)
(* id).  key_lock, and the lookup.                                         *)
ForOne(who) ==
  /\ ar = Idle /\ keyupdate = None
  /\ IF Addressee(who) = {}
     THEN UNCHANGED <<ar, keyupdate>>
     ELSE ar' \in Chosen(Addressee(who), who) /\ keyupdate' = "ar"
  /\ UNCHANGED <<keyVars, sendmsg, main, wait, saved, up>>

(* A response for all agents.                                              *)
ForAll ==
  /\ ar = Idle /\ keyupdate = None
  /\ KeySize > 0
  /\ ar' = SendingTo(1, None, TRUE) /\ keyupdate' = "ar"
  /\ UNCHANGED <<keyVars, sendmsg, main, wait, saved, up>>

(* send_msg; key_unlock after the last one.                                *)
ArSend ==
  /\ ar.at = "send"
  /\ \E ok \in Passes(ar.i) : ok => Sends(ar.i)
  /\ IF ar.all /\ ar.i < KeySize
     THEN ar' = [ar EXCEPT !.i = @ + 1] /\ UNCHANGED keyupdate
     ELSE ar' = Idle /\ keyupdate' = IF keyupdate = "ar" THEN None ELSE keyupdate
  /\ UNCHANGED <<keyVars, sendmsg, main, wait, saved, up>>

-----------------------------------------------------------------------------
(* The waiting thread.  It takes no lock on the keys.                      *)

Take(i) ==
  /\ wait = Idle
  /\ i <= KeySize /\ changed[i] # None
  /\ wait' = [at |-> "check", i |-> i, for |-> changed[i]]
  /\ changed' = [changed EXCEPT ![i] = None]
  /\ UNCHANGED <<keyVars, locks, main, ar, keep_alive, up>>

(* Each message of a transfer tests the age again; a failure ends it.      *)
WaitCheck ==
  /\ wait.at = "check"
  /\ \E ok \in Passes(wait.i) :
       wait' = IF ok THEN [wait EXCEPT !.at = "send"] ELSE Idle
  /\ UNCHANGED <<keyVars, locks, main, ar, saved, up>>

(* More pieces to come, or the last one.                                   *)
WaitSend ==
  /\ wait.at = "send"
  /\ Sends(wait.i)
  /\ wait' \in {[wait EXCEPT !.at = "check"], Idle}
  /\ UNCHANGED <<keyVars, locks, main, ar, saved, up>>

(* An empty message: CreateSecMSG returns 0 and send_msg returns at once,  *)
(* with the mutex.                                                         *)
SendEmpty ==
  /\ EmptyPiece
  /\ wait.at = "send" /\ sendmsg = None
  /\ sendmsg' = "wait"
  /\ wait' = Idle
  /\ UNCHANGED <<keyVars, keyupdate, main, ar, saved, up>>

(* The index no longer names an entry once the lock is there.              *)
OutOfRange ==
  /\ wait.at = "send" /\ sendmsg = None
  /\ wait.i \notin DOMAIN keyentries
  /\ UNCHANGED <<keyVars, locks, main, ar, saved>>
  /\ \/ up' = FALSE /\ UNCHANGED wait
     \/ wait' = Idle /\ UNCHANGED up

-----------------------------------------------------------------------------
check_keyupdate == LockKeys \/ LockSends \/ OS_FreeKeys \/ ReadDate
                   \/ OS_ReadKeys
MainStep == check_keyupdate \/ save_controlmsg
AR_Forward == \/ \E who \in Hosts \cup Ids : ForOne(who)
              \/ ForAll
WaitStep == WaitCheck \/ WaitSend \/ SendEmpty \/ OutOfRange
wait_for_msgs == (\E i \in Slots : Take(i)) \/ WaitStep

Remoted == /\ up
           /\ \/ \E h \in Hosts : Receive(h)
              \/ MainStep
              \/ AR_Forward
              \/ ArSend
              \/ wait_for_msgs
           /\ UNCHANGED fileVars

Next == (EditFile /\ UNCHANGED remVars) \/ Remoted

Spec == Init /\ [][Next]_vars

(* The threads are scheduled and every host goes on sending.  A mutex that *)
(* is released again and again is obtained in the end (strong fairness):   *)
(* between two of its sections the active-response thread waits for a      *)
(* message, and the other two read a file or the network.                  *)
FairSpec ==
  /\ Spec
  /\ \A h \in Hosts : SF_vars(Receive(h) /\ up /\ UNCHANGED fileVars)
  /\ SF_vars(MainStep /\ up /\ UNCHANGED fileVars)
  /\ SF_vars(ArSend /\ up /\ UNCHANGED fileVars)
  /\ SF_vars(WaitStep /\ up /\ UNCHANGED fileVars)

-----------------------------------------------------------------------------
TypeOK ==
  /\ FileTypeOK
  /\ stamp \in Nat /\ fresh \in BOOLEAN /\ dates \in Seq(0 .. stamp)
  /\ up \in BOOLEAN
  /\ keyentries \in Seq([line : Lines, rcvd : BOOLEAN])
  /\ file_change \in 0 .. stamp
  /\ keyupdate \in {None, "main", "ar"}
  /\ sendmsg \in {None, "main", "wait"}
  /\ ar = Idle \/ ar.i \in Slots
  /\ wait = Idle \/ wait.i \in Slots
  /\ changed \in [Slots -> Hosts \cup {None, Old}]
  /\ keep_alive \in [Slots -> Hosts \cup {None}]

(* What is sent is sealed with the key and goes to the address of the      *)
(* agent it is for: an active response for a name or an id never reaches   *)
(* another agent, however the keys are reloaded around it, and an          *)
(* acknowledgement goes to the host whose message it answers.              *)
SentToAddressee ==
  /\ ar.at = "send" /\ ar.i \in DOMAIN keyentries =>
       /\ ar.for \in Hosts => Name(ar.i) = ar.for
       /\ ar.for \in Ids => Id(ar.i) = ar.for
  /\ main.at = "ack" => Name(main.i) = main.from

(* The waiting thread knows its agent by index only: what it sends may go  *)
(* to another agent, but only when the keys were reloaded since that agent *)
(* was announced.                                                          *)
MissentOnlyAcrossReload ==
  wait.at = "send" /\ sendmsg = None /\ wait.for # Old => Name(wait.i) = wait.for

(* Entries that are being freed, or indices of entries no longer there,    *)
(* are only ever used by the waiting thread, the one that does not take    *)
(* keyupdate_mutex.                                                        *)
FreedUsedByWaitOnly ==
  up => /\ ar # Idle => ~ Wild(ar.i)
        /\ main.at = "ack" => ~ Wild(main.i)

(* While no reload is under way, every live line written before the second *)
(* of file_change is in memory: the date is taken before the lines are     *)
(* read, so an edit in between makes the next lookup reload again.  Only   *)
(* an edit in the very second of the date can stay unseen.                 *)
DateCoversKeys ==
  up /\ ~ Hidden =>
    \A l \in LiveLines :
      dates[l] < file_change => \E i \in DOMAIN keyentries :
                                       keyentries[i].line = l

(* The types, and what holds of the keys and the sends whatever the        *)
(* administrator does.                                                     *)
KeysInv ==
  /\ TypeOK
  /\ SentToAddressee
  /\ MissentOnlyAcrossReload
  /\ FreedUsedByWaitOnly
  /\ DateCoversKeys

(* The tables by index survive a reload.  Adding agents never gives an     *)
(* index to another agent; only the removal of an earlier one does, and    *)
(* from then on its file is written with the messages of another agent.    *)
FileMovedOnlyByRemoval ==
  main.at = "ack" /\ keep_alive[main.i] \notin {None, main.from} =>
    \E l \in Lines : file[l].removed /\ l < keyentries[main.i].line

(* A host whose line shares its id and name with no other, and is newer    *)
(* than the keys in memory, is heard in the end, without a restart; or the *)
(* line is removed.  The exception: the keys are read again only when a    *)
(* lookup fails, and the lookup of a host with a fixed address finds its   *)
(* old entry, whose key is not its key any more.                           *)
Sole(h, l) == /\ l \in Held(h) /\ ~ file[l].removed
              /\ \A k \in Lines \ {l} : file[k].id # file[l].id
              /\ \A k \in LiveLines \ {l} : file[k].name # h

Shadowed(h) == h \in Static /\ \E i \in DOMAIN keyentries :
                 Name(i) = h /\ keyentries[i].line \notin Held(h)

NewAgentIsHeard ==
  \A h \in Hosts :
    (\E l \in Lines : Sole(h, l) /\ dates[l] > file_change) ~>
      \/ \E i \in DOMAIN keyentries : Name(i) = h /\ keyentries[i].rcvd
      \/ ~ \E l \in Lines : Sole(h, l)
      \/ Shadowed(h)
      \/ ~ up \/ sendmsg = "wait"
=============================================================================
