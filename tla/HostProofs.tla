----------------------------- MODULE HostProofs -----------------------------
(***************************************************************************)
(* Proofs about two programs of a monitored host.                          *)
(*                                                                         *)
(* I.  Execd, for any requests, timeouts and bounds: the list of timeouts  *)
(* is the account of what is in force, whatever the scripts, the signals   *)
(* and the clock do, a target reported again is never blocked for a        *)
(* shorter time, and a shutdown leaves no block but those two orders of a  *)
(* script and its record explain.                                          *)
(*                                                                         *)
(* II.  LogCollector, for any log, however it is written, renamed,         *)
(* replaced and cut: every line of a file that was opened is sent, still   *)
(* ahead of the reader or lost for one of the reasons the model names, and *)
(* what is sent is sent once and in the order it was written.              *)
(***************************************************************************)
EXTENDS Execd, LogCollector, FiniteSetTheorems, SequenceTheorems,
        WellFoundedInduction, TLAPS

-----------------------------------------------------------------------------
(* I.  Active responses on a host: Execd.                                  *)
-----------------------------------------------------------------------------
(* A sequence without its element at n: what a node deleted leaves of the  *)
(* list (OSList_DeleteCurrentlyNode), and a script ended of the children.  *)
Without(s, n) == SubSeq(s, 1, n - 1) \o SubSeq(s, n + 1, Len(s))

LEMMA WithoutProperties ==
  ASSUME NEW S, NEW s \in Seq(S), NEW n \in 1 .. Len(s)
  PROVE  /\ Without(s, n) \in Seq(S)
         /\ Len(Without(s, n)) = Len(s) - 1
         /\ \A i \in 1 .. Len(s) - 1 :
              Without(s, n)[i] = IF i < n THEN s[i] ELSE s[i + 1]
<1> DEFINE a == SubSeq(s, 1, n - 1)
           b == SubSeq(s, n + 1, Len(s))
<1>1. a \in Seq(S) /\ Len(a) = n - 1 /\ \A i \in 1 .. n - 1 : a[i] = s[i]
  OBVIOUS
<1>2. b \in Seq(S) /\ Len(b) = Len(s) - n /\ \A i \in 1 .. Len(s) - n : b[i] = s[n + i]
  OBVIOUS
<1> HIDE DEF a, b
<1>3. Without(s, n) = a \o b
  BY DEF a, b, Without
<1>4. /\ a \o b \in Seq(S)
      /\ Len(a \o b) = Len(a) + Len(b)
      /\ \A i \in 1 .. Len(a) + Len(b) :
           (a \o b)[i] = IF i <= Len(a) THEN a[i] ELSE b[i - Len(a)]
  BY <1>1, <1>2, ConcatProperties
<1>5. Len(a) + Len(b) = Len(s) - 1
  BY <1>1, <1>2
<1>6. ASSUME NEW i \in 1 .. Len(s) - 1
      PROVE  (a \o b)[i] = IF i < n THEN s[i] ELSE s[i + 1]
  <2>1. CASE i < n
    BY <2>1, <1>1, <1>4, <1>5
  <2>2. CASE i >= n
    <3>1. (a \o b)[i] = b[i - (n - 1)]
      BY <2>2, <1>1, <1>4, <1>5
    <3>2. i - (n - 1) \in 1 .. Len(s) - n
      BY <2>2
    <3>3. b[i - (n - 1)] = s[n + (i - (n - 1))]
      BY <3>2, <1>2
    <3>4. n + (i - (n - 1)) = i + 1
      OBVIOUS
    <3>5. QED
      BY <3>1, <3>3, <3>4, <2>2
  <2>3. i < n \/ i >= n
    OBVIOUS
  <2>4. QED
    BY <2>1, <2>2, <2>3, Zenon
<1>7. QED
  BY <1>3, <1>4, <1>5, <1>6

-----------------------------------------------------------------------------
Entries == [req : Requests, time_of_addition : 0 .. MaxTime, time_to_block : Blocks]
Scripts == [action : {"add", "delete"}, req : Requests]

(* TypeOK in two parts: the lists, and the rest.                           *)
Lists == timeout_list \in Seq(Entries) /\ children \in Seq(Scripts)

Rest ==
  /\ now \in 0 .. MaxTime
  /\ repeated \in [Keys -> -1 .. Len(Repeated)]
  /\ at \in {"select", "expire", "expired", "added", "off"}
  /\ node \in Nat \ {0}
  /\ at # "off" => node <= Len(timeout_list) + 1
  /\ request \in Requests /\ served \in Nat
  /\ host \in [Requests -> Nat]
  /\ execs \in [Requests -> Int]
  /\ term \in [Keys -> Blocks \cup {0}]
  /\ stray \subseteq Requests

LEMMA ListTypes == ASSUME TypeOK PROVE Lists /\ Rest
  BY DEF TypeOK, Lists, Rest, Entries, Scripts

LEMMA Parts == ASSUME Lists', Rest' PROVE TypeOK'
  BY DEF TypeOK, Lists, Rest, Entries, Scripts

LEMMA EntryType ==
  ASSUME TypeOK, NEW k \in 1 .. Len(timeout_list)
  PROVE  /\ timeout_list[k] \in Entries
         /\ timeout_list[k].req \in Requests
         /\ timeout_list[k].time_to_block \in Blocks
<1>1. timeout_list[k] \in Entries
  BY ListTypes DEF Lists
<1>2. QED
  BY <1>1 DEF Entries

Has(r) == \E k \in 1 .. Len(timeout_list) : timeout_list[k].req = r

(* Where the loop is in the middle of something.                           *)
Place ==
  /\ at = "expired" => node <= Len(timeout_list)
  /\ at = "added" => ~ Listed(request)

(* What has been started and not undone, while the loop runs: the entries, *)
(* but for the one whose "delete" has just been started, and the request   *)
(* whose "add" has.                                                        *)
Undone(r) == IF at = "expired" THEN timeout_list[node].req = r ELSE FALSE
Started(r) == at = "added" /\ request = r

Account ==
  at # "off" =>
    \A r \in Requests :
      Timeout[r.cmd] # 0 =>
        execs[r] = IF Started(r) \/ (Has(r) /\ ~ Undone(r)) THEN 1 ELSE 0

IInv == TypeOK /\ OneEntryPerTarget /\ Place /\ Account

(* With one entry for a target, the entries of a request are one or none.  *)
LEMMA EntriesCount ==
  ASSUME TypeOK, OneEntryPerTarget, NEW r \in Requests
  PROVE  Count(EntriesOf(r)) = IF Has(r) THEN 1 ELSE 0
<1>1. CASE ~ Has(r)
  <2>1. EntriesOf(r) = {}
    BY <1>1 DEF EntriesOf, Has
  <2>2. QED
    BY <1>1, <2>1, FS_EmptySet DEF Count
<1>2. CASE Has(r)
  <2>1. PICK k \in 1 .. Len(timeout_list) : timeout_list[k].req = r
    BY <1>2 DEF Has
  <2>2. EntriesOf(r) = {k}
    BY <2>1 DEF EntriesOf, OneEntryPerTarget
  <2>3. QED
    BY <1>2, <2>2, FS_Singleton DEF Count
<1>3. QED
  BY <1>1, <1>2

-----------------------------------------------------------------------------
(* The types.                                                              *)

(* The timeout of a repeated offender is one of the configured ones, and   *)
(* its count stays within them.                                            *)
LEMMA OffenderTypes ==
  ASSUME Repeated # <<>>, NEW n \in 0 .. Len(Repeated)
  PROVE  /\ OffenderTimeout(n) \in Blocks
         /\ OffenderCount(n) \in 0 .. Len(Repeated)
<1>1. Len(Repeated) \in 1 .. Len(Repeated)
  BY RepeatedAssumption
<1>2. QED
  BY <1>1, RepeatedAssumption DEF OffenderTimeout, OffenderCount, Blocks

LEMMA InitTypes == ASSUME Init PROVE TypeOK
  BY RepeatedAssumption, TimeoutAssumption, BoundsAssumption DEF Init, TypeOK

(* The entry a request refreshes: the only one for its target.             *)
Refreshed(r) == CHOOSE j \in 1 .. Len(timeout_list) :
                  /\ Same(timeout_list[j], r)
                  /\ \A i \in 1 .. j - 1 : ~ Same(timeout_list[i], r)

LEMMA RefreshedIsListed ==
  ASSUME TypeOK, OneEntryPerTarget, NEW r \in Requests, Listed(r)
  PROVE  /\ Refreshed(r) \in 1 .. Len(timeout_list)
         /\ Same(timeout_list[Refreshed(r)], r)
<1>1. PICK j \in 1 .. Len(timeout_list) : Same(timeout_list[j], r)
  BY DEF Listed
<1>2. ASSUME NEW i \in 1 .. j - 1
      PROVE  ~ Same(timeout_list[i], r)
  <2>1. i \in 1 .. Len(timeout_list) /\ i # j
    BY DEF TypeOK
  <2>2. QED
    BY <1>1, <2>1 DEF OneEntryPerTarget, Same, Key
<1>3. QED
  BY <1>1, <1>2 DEF Refreshed

(* What a request gives a target that is in the list.                      *)
NewBlock(r) == IF Repeated # <<>> /\ r.ip # NoIP /\ repeated[Key(r)] # -1
               THEN OffenderTimeout(repeated[Key(r)])
               ELSE timeout_list[Refreshed(r)].time_to_block

(* ... and one that is added to it.                                        *)
FirstBlock(r) == IF Repeated # <<>> /\ repeated[Key(r)] # -1
                 THEN OffenderTimeout(repeated[Key(r)])
                 ELSE Timeout[r.cmd]

LEMMA KeyType == ASSUME NEW r \in Requests PROVE Key(r) \in Keys /\ r.cmd \in Commands
  BY DEF Key, Keys, Commands

LEMMA BlockTypes ==
  ASSUME TypeOK, OneEntryPerTarget, NEW r \in Requests
  PROVE  /\ Listed(r) => NewBlock(r) \in Blocks
         /\ FirstBlock(r) \in Blocks
<1>1. Key(r) \in Keys /\ Timeout[r.cmd] \in Blocks
  BY KeyType DEF Blocks
<1>2. repeated[Key(r)] # -1 => repeated[Key(r)] \in 0 .. Len(Repeated)
  BY <1>1, RepeatedAssumption DEF TypeOK
<1>3. Repeated # <<>> /\ repeated[Key(r)] # -1 => OffenderTimeout(repeated[Key(r)]) \in Blocks
  BY <1>2, OffenderTypes
<1>4. Listed(r) => timeout_list[Refreshed(r)].time_to_block \in Blocks
  BY RefreshedIsListed, EntryType
<1>5. QED
  BY <1>1, <1>3, <1>4 DEF NewBlock, FirstBlock

(* A script started is one more child and one more, or one less, block.    *)
LEMMA ExecTypes ==
  ASSUME TypeOK, NEW r \in Requests, NEW a \in {"add", "delete"}, ExecCmd(a, r)
  PROVE  /\ children' \in Seq([action : {"add", "delete"}, req : Requests])
         /\ execs' \in [Requests -> Int]
<1>1. [action |-> a, req |-> r] \in [action : {"add", "delete"}, req : Requests]
  OBVIOUS
<1>2. QED
  BY <1>1 DEF TypeOK, ExecCmd

LEMMA RefreshTypes ==
  ASSUME TypeOK, OneEntryPerTarget, NEW r \in Requests, RefreshEntry(r)
  PROVE  TypeOK'
<1> DEFINE k == Refreshed(r)
           b == NewBlock(r)
<1>1. Listed(r) /\ k \in 1 .. Len(timeout_list) /\ b \in Blocks
  BY RefreshedIsListed, BlockTypes DEF RefreshEntry
<1>2. timeout_list' = [timeout_list EXCEPT ![k].time_of_addition = now, ![k].time_to_block = b]
  BY DEF RefreshEntry, Refreshed, NewBlock
<1>3. term' = [term EXCEPT ![Key(r)] = b]
  BY DEF RefreshEntry, Refreshed, NewBlock
<1>4. \/ repeated' = repeated
      \/ /\ Repeated # <<>> /\ repeated[Key(r)] # -1
         /\ repeated' = [repeated EXCEPT ![Key(r)] = OffenderCount(repeated[Key(r)])]
  BY DEF RefreshEntry
<1> HIDE DEF k, b
<1>5. timeout_list' \in Seq(Entries) /\ Len(timeout_list') = Len(timeout_list)
  <2>1. timeout_list \in Seq(Entries) /\ timeout_list[k] \in Entries
    BY <1>1, ListTypes, EntryType DEF Lists
  <2>2. now \in 0 .. MaxTime
    BY DEF TypeOK
  <2> DEFINE e == [timeout_list[k] EXCEPT !.time_of_addition = now, !.time_to_block = b]
  <2>3. e \in Entries
    BY <1>1, <2>1, <2>2 DEF Entries
  <2>4. timeout_list' = [timeout_list EXCEPT ![k] = e]
    BY <1>1, <1>2, <2>1
  <2> HIDE DEF e
  <2>5. QED
    BY <1>1, <2>1, <2>3, <2>4
<1>6. repeated' \in [Keys -> -1 .. Len(Repeated)]
  <2>1. repeated[Key(r)] # -1 => repeated[Key(r)] \in 0 .. Len(Repeated)
    BY KeyType, RepeatedAssumption DEF TypeOK
  <2>2. Repeated # <<>> /\ repeated[Key(r)] # -1 =>
          OffenderCount(repeated[Key(r)]) \in -1 .. Len(Repeated)
    BY <2>1, OffenderTypes
  <2>3. QED
    BY <1>4, <2>2, KeyType DEF TypeOK
<1>7. term' \in [Keys -> Blocks \cup {0}]
  BY <1>1, <1>3, KeyType DEF TypeOK
<1>8. UNCHANGED <<now, children, host, execs, stray>> /\ request' = r /\ at' = "expire"
      /\ node' = 1 /\ served' = served + 1
  BY DEF RefreshEntry, Arrives
<1>9. QED
  <2>1. Lists'
    BY <1>5, <1>6, <1>7, <1>8, ListTypes DEF Lists
  <2>2. Rest'
    BY <1>5, <1>6, <1>7, <1>8, ListTypes, SMTT(30) DEF Lists, Rest
  <2>3. QED
    BY <2>1, <2>2, Parts

LEMMA AddTypes ==
  ASSUME TypeOK, OneEntryPerTarget, AddEntry
  PROVE  TypeOK'
<1> DEFINE r == request
           e == [req |-> r, time_of_addition |-> now, time_to_block |-> FirstBlock(r)]
<1>1. r \in Requests /\ FirstBlock(r) \in Blocks /\ e \in Entries /\ Key(r) \in Keys
  BY BlockTypes, KeyType DEF TypeOK, Entries
<1>2. UNCHANGED <<now, request, served, children, host, execs, stray>> /\ at' = "expire" /\ node' = 1
  BY DEF AddEntry
<1>3. CASE Timeout[r.cmd] = 0
  BY <1>2, <1>3 DEF AddEntry, TypeOK
<1>4. CASE Timeout[r.cmd] # 0
  <2>1. timeout_list' = Append(timeout_list, e) /\ term' = [term EXCEPT ![Key(r)] = FirstBlock(r)]
    BY <1>4 DEF AddEntry, FirstBlock
  <2>2. \/ repeated' = repeated
        \/ /\ Repeated # <<>>
           /\ repeated' = [repeated EXCEPT ![Key(r)] =
                            IF repeated[Key(r)] = -1 THEN 0 ELSE OffenderCount(repeated[Key(r)])]
    BY <1>4 DEF AddEntry
  <2>3. repeated[Key(r)] # -1 => repeated[Key(r)] \in 0 .. Len(Repeated)
    BY <1>1, RepeatedAssumption DEF TypeOK
  <2>4. Repeated # <<>> => (IF repeated[Key(r)] = -1 THEN 0 ELSE OffenderCount(repeated[Key(r)]))
                             \in -1 .. Len(Repeated)
    BY <2>3, OffenderTypes, RepeatedAssumption
  <2>5. repeated' \in [Keys -> -1 .. Len(Repeated)]
    BY <1>1, <2>2, <2>4 DEF TypeOK
  <2> HIDE DEF e
  <2>6. timeout_list' \in Seq(Entries) /\ Len(timeout_list') = Len(timeout_list) + 1
    BY <1>1, <2>1, ListTypes DEF Lists
  <2>7. term' \in [Keys -> Blocks \cup {0}]
    BY <1>1, <2>1 DEF TypeOK
  <2>8. QED
    <3>1. Lists'
      BY <1>2, <2>5, <2>6, <2>7, ListTypes DEF Lists
    <3>2. Rest'
      BY <1>2, <2>5, <2>6, <2>7, ListTypes DEF Lists, Rest
    <3>3. QED
      BY <3>1, <3>2, Parts
<1>5. QED
  BY <1>3, <1>4

LEMMA ShutdownTypes ==
  ASSUME TypeOK, OneEntryPerTarget, execd_shutdown
  PROVE  TypeOK'
<1> DEFINE d == [k \in 1 .. Len(timeout_list) |->
                   [action |-> "delete", req |-> timeout_list[k].req]]
<1>1. d \in Seq(Scripts)
  <2>1. Len(timeout_list) \in Nat
    BY DEF TypeOK
  <2>2. \A k \in 1 .. Len(timeout_list) : d[k] \in Scripts
    BY EntryType DEF Scripts
  <2>3. d = [k \in 1 .. Len(timeout_list) |-> d[k]]
    OBVIOUS
  <2> HIDE DEF d
  <2>4. d \in [1 .. Len(timeout_list) -> Scripts]
    BY <2>2, <2>3
  <2>5. QED
    BY <2>1, <2>4, SeqDef
<1>2. children' = children \o d
  BY DEF execd_shutdown
<1> HIDE DEF d
<1>3. children' \in Seq(Scripts)
  BY <1>1, <1>2, ListTypes DEF Lists
<1>4. execs' \in [Requests -> Int]
  <2>1. \A q \in Requests : Count(EntriesOf(q)) \in Int
    BY EntriesCount
  <2>2. execs' = [q \in Requests |-> execs[q] - Count(EntriesOf(q))]
    BY DEF execd_shutdown
  <2>3. QED
    BY <2>1, <2>2 DEF TypeOK
<1>5. /\ UNCHANGED <<now, repeated, node, request, served, host, term>>
      /\ at' = "off" /\ timeout_list' = <<>>
      /\ stray' \in {stray, stray \cup {request}}
  BY DEF execd_shutdown
<1>6. QED
  <2>1. Lists'
    BY <1>3, <1>4, <1>5, ListTypes DEF Lists
  <2>2. Rest'
    BY <1>3, <1>4, <1>5, ListTypes DEF Lists, Rest
  <2>3. QED
    BY <2>1, <2>2, Parts

LEMMA ScriptTypes == ASSUME TypeOK, ScriptEnds PROVE TypeOK'
<1>1. PICK k \in 1 .. Len(children) :
        /\ host' = [host EXCEPT ![children[k].req] =
                      IF children[k].action = "add" THEN @ + 1 ELSE IF @ > 0 THEN @ - 1 ELSE 0]
        /\ children' = Without(children, k)
        /\ stray' \in {stray, stray \cup {children[k].req}}
        /\ UNCHANGED <<now, timeout_list, repeated, at, node, request, served, execs, term>>
  BY DEF ScriptEnds, Without
<1>2. children' \in Seq(Scripts)
  BY <1>1, WithoutProperties, ListTypes DEF Lists
<1>3. children[k] \in Scripts
  BY ListTypes DEF Lists
<1>4. children[k].req \in Requests
  BY <1>3 DEF Scripts
<1>5. host' \in [Requests -> Nat]
  <2>1. host \in [Requests -> Nat]
    BY DEF TypeOK
  <2>2. PICK n \in Nat : host' = [host EXCEPT ![children[k].req] = n]
    <3>1. host[children[k].req] \in Nat
      BY <1>4, <2>1
    <3>2. CASE children[k].action = "add"
      <4>1. host' = [host EXCEPT ![children[k].req] = host[children[k].req] + 1]
        BY <1>1, <3>2
      <4>2. host[children[k].req] + 1 \in Nat
        BY <3>1
      <4>3. QED
        BY <4>1, <4>2
    <3>3. CASE children[k].action # "add"
      <4>1. (IF host[children[k].req] > 0 THEN host[children[k].req] - 1 ELSE 0) \in Nat
        BY <3>1
      <4>2. QED
        BY <1>1, <3>3, <4>1
    <3>4. QED
      BY <3>2, <3>3
  <2>3. QED
    BY <2>1, <2>2
<1>6. stray' \subseteq Requests
  BY <1>1, <1>4 DEF TypeOK
<1>7. QED
  <2>1. Lists'
    BY <1>1, <1>2, <1>5, <1>6, ListTypes DEF Lists
  <2>2. Rest'
    BY <1>1, <1>2, <1>5, <1>6, ListTypes DEF Lists, Rest
  <2>3. QED
    BY <2>1, <2>2, Parts

LEMMA DeleteTypes ==
  ASSUME TypeOK, Place, DeleteEntry
  PROVE  TypeOK'
<1>1. node \in 1 .. Len(timeout_list)
  BY DEF TypeOK, Place, DeleteEntry
<1>2. timeout_list' = Without(timeout_list, node)
  BY DEF DeleteEntry, Without
<1>3. /\ timeout_list' \in Seq(Entries)
      /\ Len(timeout_list') = Len(timeout_list) - 1
  BY <1>1, <1>2, WithoutProperties, ListTypes DEF Lists
<1>4. at' = "expire" /\ UNCHANGED <<now, repeated, node, request, served, children, host,
                                    execs, term, stray>>
  BY DEF DeleteEntry
<1>5. QED
  <2>1. Lists'
    BY <1>1, <1>3, <1>4, ListTypes DEF Lists
  <2>2. Rest'
    BY <1>1, <1>3, <1>4, ListTypes DEF Lists, Rest
  <2>3. QED
    BY <2>1, <2>2, Parts

(* Every step keeps the types.                                             *)
LEMMA TypesStep ==
  ASSUME TypeOK, OneEntryPerTarget, Place, [Next]_vars
  PROVE  TypeOK'
<1>1. CASE SelectTimeout \/ WalkDone \/ KeepEntry \/ Tick
  <2>1. UNCHANGED <<timeout_list, repeated, request, served, children, host, execs, term, stray>>
    BY <1>1 DEF SelectTimeout, WalkDone, KeepEntry, Tick
  <2>2. now' \in 0 .. MaxTime
    BY <1>1, BoundsAssumption, ListTypes DEF SelectTimeout, WalkDone, KeepEntry, Tick, Rest
  <2>3. /\ at' \in {"select", "expire", "off"} /\ node' \in Nat \ {0}
        /\ at' # "off" => node' <= Len(timeout_list) + 1
    <3>1. Len(timeout_list) \in Nat /\ node \in Nat \ {0}
          /\ (at # "off" => node <= Len(timeout_list) + 1)
      BY DEF TypeOK
    <3>2. QED
      BY <1>1, <3>1 DEF SelectTimeout, WalkDone, KeepEntry, Tick
  <2>4. QED
    <3>1. Lists'
      BY <2>1, <2>2, <2>3, ListTypes DEF Lists
    <3>2. Rest'
      BY <2>1, <2>2, <2>3, ListTypes DEF Lists, Rest
    <3>3. QED
      BY <3>1, <3>2, Parts
<1>2. CASE ExpireEntry
  <2>1. timeout_list[node].req \in Requests
    <3>1. node \in 1 .. Len(timeout_list)
      BY <1>2, ListTypes DEF ExpireEntry, TypeOK, Lists
    <3>2. QED
      BY <3>1, EntryType
  <2>2. /\ children' \in Seq(Scripts) /\ execs' \in [Requests -> Int]
    BY <1>2, <2>1, ExecTypes DEF ExpireEntry, Scripts
  <2>3. at = "expire" /\ at' = "expired"
        /\ UNCHANGED <<now, timeout_list, repeated, node, request, served, host, term, stray>>
    BY <1>2 DEF ExpireEntry
  <2>4. QED
    <3>1. Lists'
      BY <2>2, <2>3, ListTypes DEF Lists
    <3>2. Rest'
      BY <2>2, <2>3, ListTypes DEF Lists, Rest
    <3>3. QED
      BY <3>1, <3>2, Parts
<1>3. CASE DeleteEntry
  BY <1>3, DeleteTypes
<1>4. CASE ScriptEnds
  BY <1>4, ScriptTypes
<1>5. CASE execd_shutdown
  BY <1>5, ShutdownTypes
<1>6. CASE AddEntry
  BY <1>6, AddTypes
<1>7. ASSUME NEW r \in Requests, RefreshEntry(r)
      PROVE  TypeOK'
  BY <1>7, RefreshTypes
<1>8. ASSUME NEW r \in Requests, Execute(r)
      PROVE  TypeOK'
  <2>1. /\ children' \in Seq(Scripts) /\ execs' \in [Requests -> Int]
    BY <1>8, ExecTypes DEF Execute, Scripts
  <2>2. at = "select" /\ at' = "added" /\ request' = r /\ served' = served + 1
        /\ UNCHANGED <<now, timeout_list, repeated, node, host, term, stray>>
    BY <1>8 DEF Execute, Arrives
  <2>3. QED
    <3>1. Lists'
      BY <2>1, <2>2, ListTypes DEF Lists
    <3>2. Rest'
      BY <2>1, <2>2, ListTypes, SMTT(30) DEF Lists, Rest
    <3>3. QED
      BY <3>1, <3>2, Parts
<1>9. CASE UNCHANGED vars
  BY <1>9 DEF vars, TypeOK
<1>10. QED
  BY <1>1, <1>2, <1>3, <1>4, <1>5, <1>6, <1>7, <1>8, <1>9 DEF Next, Expire, Handle

-----------------------------------------------------------------------------
(* What the actions do to the list.                                        *)

LEMMA RefreshList ==
  ASSUME TypeOK, OneEntryPerTarget, NEW r \in Requests, RefreshEntry(r)
  PROVE  /\ Len(timeout_list') = Len(timeout_list)
         /\ \A i \in 1 .. Len(timeout_list) :
              /\ timeout_list'[i].req = timeout_list[i].req
              /\ timeout_list'[i].time_to_block =
                   IF i = Refreshed(r) THEN NewBlock(r) ELSE timeout_list[i].time_to_block
<1> DEFINE k == Refreshed(r)
           b == NewBlock(r)
<1>1. k \in 1 .. Len(timeout_list)
  BY RefreshedIsListed DEF RefreshEntry
<1>2. timeout_list' = [timeout_list EXCEPT ![k].time_of_addition = now, ![k].time_to_block = b]
  BY DEF RefreshEntry, Refreshed, NewBlock
<1> HIDE DEF k, b
<1>3. timeout_list \in Seq(Entries)
  BY ListTypes DEF Lists
<1> DEFINE e == [timeout_list[k] EXCEPT !.time_of_addition = now, !.time_to_block = b]
<1>4. timeout_list' = [timeout_list EXCEPT ![k] = e]
  BY <1>1, <1>2, <1>3
<1>5. e.req = timeout_list[k].req /\ e.time_to_block = b
  BY <1>1, EntryType DEF Entries
<1> HIDE DEF e
<1>6. Len(timeout_list') = Len(timeout_list)
  BY <1>1, <1>3, <1>4
<1>7. ASSUME NEW i \in 1 .. Len(timeout_list)
      PROVE  /\ timeout_list'[i].req = timeout_list[i].req
             /\ timeout_list'[i].time_to_block = IF i = k THEN b ELSE timeout_list[i].time_to_block
  <2>1. timeout_list'[i] = IF i = k THEN e ELSE timeout_list[i]
    BY <1>1, <1>3, <1>4
  <2>2. QED
    BY <2>1, <1>5
<1>8. QED
  BY <1>6, <1>7 DEF k, b

LEMMA AddList ==
  ASSUME TypeOK, AddEntry, Timeout[request.cmd] # 0
  PROVE  /\ Len(timeout_list') = Len(timeout_list) + 1
         /\ \A i \in 1 .. Len(timeout_list) : timeout_list'[i] = timeout_list[i]
         /\ timeout_list'[Len(timeout_list) + 1].req = request
         /\ timeout_list'[Len(timeout_list) + 1].time_to_block = FirstBlock(request)
<1> DEFINE e == [req |-> request, time_of_addition |-> now, time_to_block |-> FirstBlock(request)]
<1>1. timeout_list' = Append(timeout_list, e)
  BY DEF AddEntry, FirstBlock
<1>2. e.req = request /\ e.time_to_block = FirstBlock(request)
  OBVIOUS
<1>3. timeout_list \in Seq(Entries)
  BY ListTypes DEF Lists
<1> HIDE DEF e
<1>4. QED
  BY <1>1, <1>2, <1>3

LEMMA DeleteList ==
  ASSUME TypeOK, Place, DeleteEntry
  PROVE  /\ node \in 1 .. Len(timeout_list)
         /\ Len(timeout_list') = Len(timeout_list) - 1
         /\ \A i \in 1 .. Len(timeout_list) - 1 :
              timeout_list'[i] = IF i < node THEN timeout_list[i] ELSE timeout_list[i + 1]
<1>1. timeout_list \in Seq(Entries) /\ node \in 1 .. Len(timeout_list)
  BY ListTypes DEF Place, DeleteEntry, Lists, Rest
<1>2. timeout_list' = Without(timeout_list, node)
  BY DEF DeleteEntry, Without
<1>3. QED
  BY <1>1, <1>2, WithoutProperties

(* The other actions do not touch it, or empty it.                         *)
LEMMA OtherList ==
  ASSUME \/ SelectTimeout \/ WalkDone \/ KeepEntry \/ Tick \/ ExpireEntry \/ ScriptEnds
         \/ execd_shutdown \/ (\E r \in Requests : Execute(r)) \/ UNCHANGED vars
         \/ AddEntry /\ Timeout[request.cmd] = 0
  PROVE  timeout_list' = timeout_list \/ timeout_list' = <<>>
BY DEF SelectTimeout, WalkDone, KeepEntry, Tick, ExpireEntry, ScriptEnds, execd_shutdown,
       Execute, AddEntry, vars

-----------------------------------------------------------------------------
(* One entry for a target: a request for a listed target refreshes, and    *)
(* between the look and the entry nothing else is added.                   *)
LEMMA OneEntryStep ==
  ASSUME TypeOK, OneEntryPerTarget, Place, [Next]_vars
  PROVE  OneEntryPerTarget'
<1> DEFINE n == Len(timeout_list)
<1>0. n \in Nat
  BY ListTypes DEF Lists
<1>1. CASE timeout_list' = timeout_list \/ timeout_list' = <<>>
  BY <1>1 DEF OneEntryPerTarget
<1>2. ASSUME NEW r \in Requests, RefreshEntry(r)
      PROVE  OneEntryPerTarget'
  BY <1>2, RefreshList DEF OneEntryPerTarget
<1>3. CASE AddEntry /\ Timeout[request.cmd] # 0
  <2>1. /\ Len(timeout_list') = n + 1
        /\ \A i \in 1 .. n : timeout_list'[i] = timeout_list[i]
        /\ timeout_list'[n + 1].req = request
    BY <1>3, AddList
  <2>2. \A i \in 1 .. n : Key(timeout_list[i].req) # Key(request)
    BY <1>3 DEF Place, AddEntry, Listed, Same, Key
  <2>3. \A i \in 1 .. n + 1 : i \in 1 .. n \/ i = n + 1
    BY <1>0
  <2>4. QED
    BY <2>1, <2>2, <2>3 DEF OneEntryPerTarget
<1>4. CASE DeleteEntry
  <2>1. /\ node \in 1 .. n
        /\ Len(timeout_list') = n - 1
        /\ \A i \in 1 .. n - 1 :
             timeout_list'[i] = IF i < node THEN timeout_list[i] ELSE timeout_list[i + 1]
    BY <1>4, DeleteList
  <2> DEFINE old(i) == IF i < node THEN i ELSE i + 1
  <2>2. ASSUME NEW i \in 1 .. n - 1
        PROVE  old(i) \in 1 .. n /\ timeout_list'[i] = timeout_list[old(i)]
    BY <1>0, <2>1
  <2>3. ASSUME NEW j \in 1 .. n - 1, NEW k \in 1 .. n - 1, old(j) = old(k)
        PROVE  j = k
    BY <1>0, <2>1, <2>3
  <2> HIDE DEF old
  <2>4. QED
    BY <2>1, <2>2, <2>3, SMTT(30) DEF OneEntryPerTarget
<1>5. QED
  BY <1>1, <1>2, <1>3, <1>4, OtherList DEF Next, Expire, Handle

(* The place the loop is at.                                               *)
LEMMA PlaceStep ==
  ASSUME TypeOK, Place, [Next]_vars
  PROVE  Place'
<1>1. CASE ExpireEntry
  BY <1>1 DEF ExpireEntry, Place
<1>2. ASSUME NEW r \in Requests, Execute(r)
      PROVE  Place'
  BY <1>2 DEF Execute, Arrives, Place, Listed
<1>3. CASE ScriptEnds \/ UNCHANGED vars
  BY <1>3 DEF ScriptEnds, vars, Place, Listed
<1>4. CASE \/ SelectTimeout \/ WalkDone \/ KeepEntry \/ DeleteEntry \/ AddEntry \/ Tick
           \/ execd_shutdown \/ \E r \in Requests : RefreshEntry(r)
  <2>1. at' \in {"select", "expire", "off"}
    BY <1>4 DEF SelectTimeout, WalkDone, KeepEntry, DeleteEntry, AddEntry, Tick,
                execd_shutdown, RefreshEntry
  <2>2. QED
    BY <2>1 DEF Place
<1>5. QED
  BY <1>1, <1>2, <1>3, <1>4 DEF Next, Expire, Handle

-----------------------------------------------------------------------------
(* The account.                                                            *)

(* A script started changes the count of its request by one.               *)
LEMMA ExecAccount ==
  ASSUME TypeOK, NEW q \in Requests, NEW a \in {"add", "delete"}, ExecCmd(a, q)
  PROVE  \A r \in Requests :
           execs'[r] = IF r # q THEN execs[r] ELSE IF a = "add" THEN execs[q] + 1 ELSE execs[q] - 1
BY ListTypes DEF Rest, ExecCmd

LEMMA AccountStep ==
  ASSUME IInv, [Next]_vars
  PROVE  Account'
<1> USE DEF IInv
<1> DEFINE n == Len(timeout_list)
<1>0. n \in Nat /\ node \in Nat \ {0} /\ request \in Requests
  BY ListTypes DEF Lists, Rest
<1>1. CASE SelectTimeout \/ WalkDone \/ KeepEntry \/ Tick
  <2>1. /\ UNCHANGED <<timeout_list, execs>>
        /\ at \in {"select", "expire", "off"} /\ at' \in {"select", "expire", "off"}
        /\ at = "off" => at' = "off"
    BY <1>1 DEF SelectTimeout, WalkDone, KeepEntry, Tick
  <2>2. QED
    BY <2>1 DEF Account, Started, Undone, Has
<1>2. CASE ScriptEnds \/ UNCHANGED vars
  <2>1. UNCHANGED <<timeout_list, node, request, execs, at>>
    BY <1>2 DEF ScriptEnds, vars
  <2>2. QED
    BY <2>1 DEF Account, Started, Undone, Has
<1>3. CASE ExpireEntry
  <2> DEFINE q == timeout_list[node].req
  <2>1. /\ node \in 1 .. n /\ at = "expire" /\ at' = "expired"
        /\ UNCHANGED <<timeout_list, node>> /\ ExecCmd("delete", q)
    BY <1>0, <1>3 DEF ExpireEntry
  <2>2. q \in Requests
    BY <2>1, EntryType
  <2>3. \A r \in Requests : execs'[r] = IF r = q THEN execs[r] - 1 ELSE execs[r]
    BY <2>1, <2>2, ExecAccount
  <2>4. ASSUME NEW r \in Requests
        PROVE  /\ ~ Started(r) /\ ~ Undone(r) /\ ~ Started(r)' /\ Has(r)' = Has(r)
               /\ Undone(r)' <=> r = q
    BY <2>1 DEF Started, Undone, Has
  <2>5. Has(q)
    BY <2>1 DEF Has
  <2>6. ASSUME NEW r \in Requests, Timeout[r.cmd] # 0
        PROVE  execs'[r] = IF Started(r)' \/ (Has(r)' /\ ~ Undone(r)') THEN 1 ELSE 0
    <3>1. execs[r] = IF Has(r) THEN 1 ELSE 0
      BY <2>1, <2>4, <2>6 DEF Account
    <3>2. QED
      BY <2>3, <2>4, <2>5, <3>1
  <2>7. QED
    BY <2>6 DEF Account
<1>4. CASE DeleteEntry
  <2>1. /\ node \in 1 .. n
        /\ Len(timeout_list') = n - 1
        /\ \A i \in 1 .. n - 1 :
             timeout_list'[i] = IF i < node THEN timeout_list[i] ELSE timeout_list[i + 1]
    BY <1>4, DeleteList
  <2>2. at = "expired" /\ at' = "expire" /\ UNCHANGED execs
    BY <1>4 DEF DeleteEntry
  <2>3. ASSUME NEW r \in Requests
        PROVE  Has(r)' <=> Has(r) /\ timeout_list[node].req # r
    <3>1. ASSUME Has(r)'
          PROVE  Has(r) /\ timeout_list[node].req # r
      <4>1. PICK i \in 1 .. n - 1 : timeout_list'[i].req = r
        BY <3>1, <2>1 DEF Has
      <4>2. PICK k \in 1 .. n : k # node /\ timeout_list[k].req = r
        <5>1. CASE i < node
          BY <1>0, <2>1, <4>1, <5>1, SMTT(30)
        <5>2. CASE ~ (i < node)
          <6>1. i + 1 \in 1 .. n /\ i + 1 # node
            BY <1>0, <2>1, <5>2
          <6>2. QED
            BY <2>1, <4>1, <5>2, <6>1
        <5>3. QED
          BY <5>1, <5>2
      <4>3. QED
        BY <4>2, <2>1 DEF Has, OneEntryPerTarget
    <3>2. ASSUME Has(r), timeout_list[node].req # r
          PROVE  Has(r)'
      <4>1. PICK k \in 1 .. n : timeout_list[k].req = r
        BY <3>2 DEF Has
      <4>2. k # node
        BY <3>2, <4>1
      <4>3. CASE k < node
        <5>1. k \in 1 .. n - 1
          BY <1>0, <2>1, <4>3
        <5>2. QED
          BY <2>1, <4>1, <4>3, <5>1 DEF Has
      <4>4. CASE k > node
        <5>1. k - 1 \in 1 .. n - 1 /\ ~ (k - 1 < node) /\ (k - 1) + 1 = k
          BY <1>0, <2>1, <4>4
        <5>2. timeout_list'[k - 1].req = r
          BY <2>1, <4>1, <5>1
        <5>3. QED
          BY <2>1, <5>1, <5>2 DEF Has
      <4>5. QED
        BY <4>2, <4>3, <4>4, <2>1
    <3>3. QED
      BY <3>1, <3>2
  <2>4. ASSUME NEW r \in Requests
        PROVE  /\ ~ Started(r) /\ ~ Started(r)' /\ ~ Undone(r)'
               /\ Undone(r) <=> timeout_list[node].req = r
    BY <2>2 DEF Started, Undone
  <2>5. QED
    BY <2>2, <2>3, <2>4 DEF Account
<1>5. CASE execd_shutdown
  BY <1>5 DEF execd_shutdown, Account
<1>6. CASE AddEntry
  <2>1. at = "added" /\ at' = "expire" /\ UNCHANGED execs
    BY <1>6 DEF AddEntry
  <2>2. ASSUME NEW r \in Requests, Timeout[r.cmd] # 0
        PROVE  Has(r)' <=> Has(r) \/ r = request
    <3>1. CASE Timeout[request.cmd] = 0
      <4>1. timeout_list' = timeout_list /\ r # request
        BY <1>6, <2>2, <3>1 DEF AddEntry
      <4>2. QED
        BY <4>1 DEF Has
    <3>2. CASE Timeout[request.cmd] # 0
      <4>1. /\ Len(timeout_list') = n + 1
            /\ \A i \in 1 .. n : timeout_list'[i] = timeout_list[i]
            /\ timeout_list'[n + 1].req = request
        BY <1>6, <3>2, AddList
      <4>2. n + 1 \in 1 .. n + 1 /\ \A i \in 1 .. n + 1 : i \in 1 .. n \/ i = n + 1
        BY <1>0
      <4>3. \A i \in 1 .. n : i \in 1 .. n + 1
        BY <1>0
      <4>4. QED
        BY <4>1, <4>2, <4>3 DEF Has
    <3>3. QED
      BY <3>1, <3>2
  <2>3. ASSUME NEW r \in Requests
        PROVE  /\ ~ Undone(r) /\ ~ Undone(r)' /\ ~ Started(r)'
               /\ Started(r) <=> r = request
    BY <2>1 DEF Started, Undone
  <2>4. QED
    BY <2>1, <2>2, <2>3 DEF Account
<1>7. ASSUME NEW q \in Requests, RefreshEntry(q)
      PROVE  Account'
  <2>1. at = "select" /\ at' = "expire" /\ UNCHANGED execs
    BY <1>7 DEF RefreshEntry
  <2>2. ASSUME NEW r \in Requests
        PROVE  /\ ~ Undone(r) /\ ~ Undone(r)' /\ ~ Started(r) /\ ~ Started(r)'
               /\ Has(r)' <=> Has(r)
    BY <2>1, <1>7, RefreshList DEF Has, Started, Undone
  <2>3. QED
    BY <2>1, <2>2 DEF Account
<1>8. ASSUME NEW q \in Requests, Execute(q)
      PROVE  Account'
  <2>1. /\ at = "select" /\ at' = "added" /\ request' = q
        /\ UNCHANGED timeout_list /\ ExecCmd("add", q) /\ ~ Listed(q)
    BY <1>8 DEF Execute, Arrives
  <2>2. \A r \in Requests : execs'[r] = IF r = q THEN execs[r] + 1 ELSE execs[r]
    BY <2>1, ExecAccount
  <2>3. ~ Has(q)
    BY <2>1 DEF Has, Listed, Same
  <2>4. ASSUME NEW r \in Requests
        PROVE  /\ ~ Undone(r) /\ ~ Undone(r)' /\ ~ Started(r)
               /\ Started(r)' <=> r = q
               /\ Has(r)' <=> Has(r)
    BY <2>1 DEF Has, Started, Undone
  <2>5. QED
    BY <2>1, <2>2, <2>3, <2>4 DEF Account
<1>9. QED
  BY <1>1, <1>2, <1>3, <1>4, <1>5, <1>6, <1>7, <1>8 DEF Next, Expire, Handle

-----------------------------------------------------------------------------
LEMMA Invariance == Spec => []IInv
<1>1. Init => IInv
  <2>1. SUFFICES ASSUME Init PROVE IInv
    OBVIOUS
  <2>2. TypeOK
    BY <2>1, InitTypes
  <2>3. QED
    BY <2>1, <2>2 DEF Init, IInv, OneEntryPerTarget, Place, Account, Started, Undone, Has
<1>2. IInv /\ [Next]_vars => IInv'
  BY TypesStep, OneEntryStep, PlaceStep, AccountStep DEF IInv
<1>3. QED
  BY <1>1, <1>2, PTL DEF Spec

(* The types; one entry in the list for a target, and between two requests *)
(* one entry for each "add" that has not been undone: execd.c's list says  *)
(* exactly what its scripts have been told to keep in force.               *)
THEOREM ListOfBlocksCorrect == Spec => []AccountInv
<1>1. ASSUME IInv PROVE AccountInv
  <2>1. ASSUME at = "select", NEW r \in Requests, Timeout[r.cmd] # 0
        PROVE  execs[r] = Count(EntriesOf(r))
    <3>1. ~ Started(r) /\ ~ Undone(r)
      BY <2>1 DEF Started, Undone
    <3>2. execs[r] = IF Has(r) THEN 1 ELSE 0
      BY <1>1, <2>1, <3>1 DEF IInv, Account
    <3>3. QED
      BY <1>1, <3>2, EntriesCount DEF IInv
  <2>2. QED
    BY <1>1, <2>1 DEF IInv, AccountInv, ListIsAccount
<1>2. IInv => AccountInv
  BY <1>1
<1>3. QED
  BY <1>2, Invariance, PTL

-----------------------------------------------------------------------------
(* Repeated offenders.                                                     *)

(* The configured timeouts do not decrease, and none is below that of a    *)
(* command.                                                                *)
Ascending ==
  /\ \A i \in 1 .. Len(Repeated) - 1 : Repeated[i] <= Repeated[i + 1]
  /\ Repeated # <<>> => \A c \in Commands : Timeout[c] <= Repeated[1]

(* The timeout an offender's count stands for.                             *)
TermOf(k) == IF repeated[k] = 0 THEN Timeout[k[1]] ELSE Repeated[repeated[k]]

(* A target's last timeout is what its count says, or that of its command, *)
(* and its entry has it.                                                   *)
Terms ==
  /\ \A k \in Keys :
       IF repeated[k] = -1 THEN term[k] \in {0, Timeout[k[1]]} ELSE term[k] = TermOf(k)
  /\ \A i \in 1 .. Len(timeout_list) :
       timeout_list[i].time_to_block = term[Key(timeout_list[i].req)]

LEMMA KeyFields == ASSUME NEW r \in Requests PROVE Key(r)[1] = r.cmd
  BY DEF Key

(* The next timeout of an offender is what its new count stands for, and   *)
(* is not less than its last one.                                          *)
LEMMA OffenderGrows ==
  ASSUME TypeOK, Terms, Ascending, Repeated # <<>>, NEW r \in Requests, repeated[Key(r)] # -1
  PROVE  /\ OffenderCount(repeated[Key(r)]) \in 1 .. Len(Repeated)
         /\ OffenderTimeout(repeated[Key(r)]) = Repeated[OffenderCount(repeated[Key(r)])]
         /\ term[Key(r)] <= OffenderTimeout(repeated[Key(r)])
<1> DEFINE n == repeated[Key(r)]
<1>1. Key(r) \in Keys /\ r.cmd \in Commands /\ Key(r)[1] = r.cmd
  BY KeyType, KeyFields
<1>2. n \in 0 .. Len(Repeated) /\ Len(Repeated) \in Nat \ {0}
  BY <1>1, RepeatedAssumption, ListTypes DEF Rest
<1>3. term[Key(r)] = IF n = 0 THEN Timeout[r.cmd] ELSE Repeated[n]
  BY <1>1 DEF Terms, TermOf
<1> HIDE DEF n
<1>4. CASE n = 0
  <2>1. OffenderCount(n) = 1 /\ OffenderTimeout(n) = Repeated[1]
    BY <1>2, <1>4 DEF OffenderCount, OffenderTimeout
  <2>2. QED
    BY <1>1, <1>2, <1>3, <1>4, <2>1 DEF Ascending, n
<1>5. CASE n \in 1 .. Len(Repeated) - 1
  <2>1. OffenderCount(n) = n + 1 /\ OffenderTimeout(n) = Repeated[n + 1]
    BY <1>2, <1>5 DEF OffenderCount, OffenderTimeout
  <2>2. Repeated[n] <= Repeated[n + 1] /\ n # 0 /\ n + 1 \in 1 .. Len(Repeated)
    BY <1>2, <1>5 DEF Ascending
  <2>3. QED
    BY <1>3, <2>1, <2>2 DEF n
<1>6. CASE n = Len(Repeated)
  <2>1. OffenderCount(n) = n /\ OffenderTimeout(n) = Repeated[n]
    BY <1>2, <1>6 DEF OffenderCount, OffenderTimeout
  <2>2. Repeated[n] \in Nat /\ n # 0 /\ n \in 1 .. Len(Repeated)
    BY <1>2, <1>6, RepeatedAssumption
  <2>3. QED
    BY <1>3, <2>1, <2>2 DEF n
<1>7. QED
  BY <1>2, <1>4, <1>5, <1>6

(* A request for a target that is listed.                                  *)
LEMMA RefreshTerms ==
  ASSUME TypeOK, OneEntryPerTarget, Terms, Ascending, NEW r \in Requests, RefreshEntry(r)
  PROVE  /\ Terms'
         /\ term' = [term EXCEPT ![Key(r)] = NewBlock(r)]
         /\ term[Key(r)] <= NewBlock(r)
<1> DEFINE k == Refreshed(r)
           n == repeated[Key(r)]
           offender == Repeated # <<>> /\ r.ip # NoIP /\ n # -1
<1>1. /\ k \in 1 .. Len(timeout_list)
      /\ Key(timeout_list[k].req) = Key(r)
      /\ timeout_list[k].time_to_block = term[Key(r)]
  BY RefreshedIsListed DEF RefreshEntry, Same, Key, Terms
<1>2. /\ term' = [term EXCEPT ![Key(r)] = NewBlock(r)]
      /\ repeated' = IF offender THEN [repeated EXCEPT ![Key(r)] = OffenderCount(n)] ELSE repeated
  BY DEF RefreshEntry, Refreshed, NewBlock
<1>3. Key(r) \in Keys /\ term \in [Keys -> Blocks \cup {0}]
      /\ repeated \in [Keys -> -1 .. Len(Repeated)]
  BY KeyType, ListTypes DEF Rest
<1>4. /\ Len(timeout_list') = Len(timeout_list)
      /\ \A i \in 1 .. Len(timeout_list) :
           /\ timeout_list'[i].req = timeout_list[i].req
           /\ timeout_list'[i].time_to_block =
                IF i = k THEN NewBlock(r) ELSE timeout_list[i].time_to_block
  BY RefreshList
<1>5. ASSUME NEW i \in 1 .. Len(timeout_list)
      PROVE  timeout_list'[i].time_to_block = term'[Key(timeout_list'[i].req)]
  <2>1. Key(timeout_list[i].req) \in Keys
    BY EntryType, KeyType
  <2>2. i # k => Key(timeout_list[i].req) # Key(r)
    BY <1>1 DEF OneEntryPerTarget
  <2>3. QED
    BY <1>1, <1>2, <1>3, <1>4, <2>1, <2>2 DEF Terms
<1>6. CASE offender
  <2>1. /\ OffenderCount(n) \in 1 .. Len(Repeated)
        /\ OffenderTimeout(n) = Repeated[OffenderCount(n)]
        /\ term[Key(r)] <= OffenderTimeout(n)
        /\ NewBlock(r) = OffenderTimeout(n)
    BY <1>6, OffenderGrows DEF NewBlock
  <2>2. ASSUME NEW q \in Keys
        PROVE  IF repeated'[q] = -1 THEN term'[q] \in {0, Timeout[q[1]]}
               ELSE term'[q] = TermOf(q)'
    <3>1. CASE q = Key(r)
      <4>1. repeated'[q] = OffenderCount(n) /\ term'[q] = Repeated[OffenderCount(n)]
        BY <1>2, <1>3, <1>6, <2>1, <3>1
      <4>2. OffenderCount(n) # 0 /\ OffenderCount(n) # -1
        BY <2>1
      <4>3. QED
        BY <4>1, <4>2 DEF TermOf
    <3>2. CASE q # Key(r)
      <4>1. repeated'[q] = repeated[q] /\ term'[q] = term[q]
        BY <1>2, <1>3, <3>2
      <4>2. QED
        BY <4>1 DEF Terms, TermOf
    <3>3. QED
      BY <3>1, <3>2
  <2>3. QED
    BY <1>2, <1>4, <1>5, <2>1, <2>2 DEF Terms
<1>7. CASE ~ offender
  <2>1. NewBlock(r) = term[Key(r)] /\ repeated' = repeated
    BY <1>1, <1>2, <1>7 DEF NewBlock
  <2>2. term' = term
    BY <1>2, <1>3, <2>1
  <2>3. term[Key(r)] \in Nat
    BY <1>3, TimeoutAssumption, RepeatedAssumption DEF Blocks
  <2>4. \A q \in Keys : IF repeated'[q] = -1 THEN term'[q] \in {0, Timeout[q[1]]}
                        ELSE term'[q] = TermOf(q)'
    BY <2>1, <2>2 DEF Terms, TermOf
  <2>5. QED
    BY <1>2, <1>4, <1>5, <2>1, <2>3, <2>4 DEF Terms
<1>8. QED
  BY <1>6, <1>7

(* A target added to the list.                                             *)
LEMMA AddTerms ==
  ASSUME TypeOK, Place, Terms, Ascending, AddEntry
  PROVE  /\ Terms'
         /\ \/ term' = term
            \/ /\ term' = [term EXCEPT ![Key(request)] = FirstBlock(request)]
               /\ term[Key(request)] <= FirstBlock(request)
<1> DEFINE r == request
           key == Key(r)
           n == repeated[key]
           b == FirstBlock(r)
<1>1. CASE Timeout[r.cmd] = 0
  BY <1>1 DEF AddEntry, Terms, TermOf
<1>2. CASE Timeout[r.cmd] # 0
  <2>1. /\ term' = [term EXCEPT ![key] = b]
        /\ repeated' = IF Repeated = <<>> THEN repeated
                       ELSE [repeated EXCEPT ![key] = IF n = -1 THEN 0 ELSE OffenderCount(n)]
    BY <1>2 DEF AddEntry, FirstBlock
  <2>2. /\ r \in Requests /\ key \in Keys /\ r.cmd \in Commands /\ key[1] = r.cmd
        /\ term \in [Keys -> Blocks \cup {0}] /\ repeated \in [Keys -> -1 .. Len(Repeated)]
        /\ n \in -1 .. Len(Repeated) /\ Timeout[r.cmd] \in Nat
    BY KeyType, KeyFields, ListTypes, RepeatedAssumption, TimeoutAssumption DEF Rest
  <2>3. /\ term[key] <= b
        /\ IF repeated'[key] = -1 THEN b \in {0, Timeout[r.cmd]}
           ELSE b = IF repeated'[key] = 0 THEN Timeout[r.cmd] ELSE Repeated[repeated'[key]]
    <3>1. CASE n = -1
      <4>1. b = Timeout[r.cmd] /\ term[key] \in {0, Timeout[r.cmd]}
        BY <2>2, <3>1 DEF FirstBlock, Terms
      <4>2. repeated'[key] = -1 \/ repeated'[key] = 0
        BY <2>1, <2>2, <3>1
      <4>3. QED
        BY <2>2, <4>1, <4>2
    <3>2. CASE n # -1 /\ Repeated # <<>>
      <4>1. /\ OffenderCount(n) \in 1 .. Len(Repeated)
            /\ OffenderTimeout(n) = Repeated[OffenderCount(n)]
            /\ term[key] <= OffenderTimeout(n)
            /\ b = OffenderTimeout(n)
        BY <2>2, <3>2, OffenderGrows DEF FirstBlock
      <4>2. repeated'[key] = OffenderCount(n)
        BY <2>1, <2>2, <3>2
      <4>3. OffenderCount(n) # 0 /\ OffenderCount(n) # -1
        BY <4>1
      <4>4. QED
        BY <4>1, <4>2, <4>3
    <3>3. CASE n # -1 /\ Repeated = <<>>
      <4>1. Len(Repeated) = 0
        BY <3>3
      <4>2. n = 0 /\ b = Timeout[r.cmd] /\ repeated' = repeated
        BY <2>1, <2>2, <3>3, <4>1 DEF FirstBlock
      <4>3. term[key] = Timeout[r.cmd]
        BY <2>2, <4>2 DEF Terms, TermOf
      <4>4. QED
        BY <2>2, <4>2, <4>3
    <3>4. QED
      BY <3>1, <3>2, <3>3
  <2>4. ASSUME NEW q \in Keys
        PROVE  IF repeated'[q] = -1 THEN term'[q] \in {0, Timeout[q[1]]}
               ELSE term'[q] = TermOf(q)'
    <3>1. CASE q = key
      BY <2>1, <2>2, <2>3, <3>1 DEF TermOf
    <3>2. CASE q # key
      <4>1. repeated'[q] = repeated[q] /\ term'[q] = term[q]
        BY <2>1, <2>2, <3>2
      <4>2. QED
        BY <4>1 DEF Terms, TermOf
    <3>3. QED
      BY <3>1, <3>2
  <2>5. /\ Len(timeout_list') = Len(timeout_list) + 1
        /\ \A i \in 1 .. Len(timeout_list) : timeout_list'[i] = timeout_list[i]
        /\ timeout_list'[Len(timeout_list) + 1].req = r
        /\ timeout_list'[Len(timeout_list) + 1].time_to_block = b
    BY <1>2, AddList
  <2>6. ASSUME NEW i \in 1 .. Len(timeout_list')
        PROVE  timeout_list'[i].time_to_block = term'[Key(timeout_list'[i].req)]
    <3>1. Len(timeout_list) \in Nat
      BY ListTypes DEF Lists
    <3>2. CASE i \in 1 .. Len(timeout_list)
      <4>1. Key(timeout_list[i].req) # key /\ Key(timeout_list[i].req) \in Keys
        BY <3>2, EntryType, KeyType DEF Place, AddEntry, Listed, Same, Key
      <4>2. QED
        BY <2>1, <2>2, <2>5, <3>2, <4>1 DEF Terms
    <3>3. CASE i = Len(timeout_list) + 1
      BY <2>1, <2>2, <2>5, <3>3
    <3>4. QED
      BY <2>5, <3>1, <3>2, <3>3
  <2>7. QED
    BY <2>1, <2>3, <2>4, <2>6 DEF Terms
<1>3. QED
  BY <1>1, <1>2

(* Every other step leaves the timeouts given alone.                       *)
LEMMA OtherTerms ==
  ASSUME TypeOK, Place, Terms,
         \/ SelectTimeout \/ WalkDone \/ KeepEntry \/ Tick \/ ExpireEntry \/ ScriptEnds
         \/ execd_shutdown \/ (\E r \in Requests : Execute(r)) \/ UNCHANGED vars
         \/ DeleteEntry
  PROVE  Terms' /\ term' = term
<1>1. UNCHANGED <<term, repeated>>
  BY DEF SelectTimeout, WalkDone, KeepEntry, Tick, ExpireEntry, ScriptEnds, execd_shutdown,
         Execute, DeleteEntry, vars
<1>2. \A i \in 1 .. Len(timeout_list') :
        timeout_list'[i].time_to_block = term[Key(timeout_list'[i].req)]
  <2>1. CASE timeout_list' = timeout_list \/ timeout_list' = <<>>
    BY <2>1 DEF Terms
  <2>2. CASE DeleteEntry
    <3>1. /\ node \in 1 .. Len(timeout_list)
          /\ Len(timeout_list') = Len(timeout_list) - 1
          /\ \A i \in 1 .. Len(timeout_list) - 1 :
               timeout_list'[i] = IF i < node THEN timeout_list[i] ELSE timeout_list[i + 1]
      BY <2>2, DeleteList
    <3>2. Len(timeout_list) \in Nat
      BY ListTypes DEF Lists
    <3>3. ASSUME NEW i \in 1 .. Len(timeout_list) - 1
          PROVE  \E k \in 1 .. Len(timeout_list) : timeout_list'[i] = timeout_list[k]
      <4>1. i \in 1 .. Len(timeout_list) /\ i + 1 \in 1 .. Len(timeout_list)
        BY <3>2
      <4>2. QED
        BY <3>1, <4>1
    <3>4. QED
      BY <3>1, <3>3 DEF Terms
  <2>3. QED
    BY <2>1, <2>2, OtherList
<1>3. QED
  BY <1>1, <1>2 DEF Terms, TermOf

(* Given timeouts that do not decrease, a target blocked again is blocked  *)
(* for as long as before or for longer.                                    *)
THEOREM OffendersWaitLonger == ASSUME Ascending PROVE Spec => TermsEscalate
<1>1. Init => Terms
  <2>1. Init => timeout_list = <<>> /\ term = [k \in Keys |-> 0] /\ repeated = [k \in Keys |-> -1]
    BY DEF Init
  <2>2. QED
    BY <2>1 DEF Terms
<1>2. ASSUME IInv, Terms, [Next]_vars
      PROVE  Terms' /\ \A k \in Keys : term[k] <= term'[k]
  <2> USE DEF IInv
  <2>1. term \in [Keys -> Nat]
    <3>1. Blocks \subseteq Nat
      BY TimeoutAssumption, RepeatedAssumption DEF Blocks
    <3>2. term \in [Keys -> Blocks \cup {0}]
      BY <1>2, ListTypes DEF Rest
    <3>3. term = [k \in Keys |-> term[k]] /\ \A k \in Keys : term[k] \in Blocks \cup {0}
      BY <3>2
    <3>4. \A k \in Keys : term[k] \in Nat
      BY <3>1, <3>3
    <3>5. QED
      BY <3>3, <3>4
  <2>2. ASSUME NEW r \in Requests, RefreshEntry(r)
        PROVE  Terms' /\ \A k \in Keys : term[k] <= term'[k]
    BY <1>2, <2>1, <2>2, RefreshTerms
  <2>3. CASE AddEntry
    BY <1>2, <2>1, <2>3, AddTerms
  <2>4. CASE \/ SelectTimeout \/ WalkDone \/ KeepEntry \/ Tick \/ ExpireEntry \/ ScriptEnds
             \/ execd_shutdown \/ (\E r \in Requests : Execute(r)) \/ UNCHANGED vars
             \/ DeleteEntry
    BY <1>2, <2>1, <2>4, OtherTerms
  <2>5. QED
    BY <1>2, <2>2, <2>3, <2>4 DEF Next, Expire, Handle
<1>3. IInv /\ Terms /\ [Next]_vars => Terms'
  BY <1>2
<1>4. IInv /\ Terms /\ [Next]_vars => [\A k \in Keys : term[k] <= term'[k]]_vars
  BY <1>2
<1>5. QED
  BY <1>1, <1>3, <1>4, Invariance, PTL DEF Spec, TermsEscalate

-----------------------------------------------------------------------------
(* The scripts that run, and what they will leave.                         *)

(* The scripts of one kind started for r, among the first p that run.      *)
Running(s, a, r, p) == {i \in 1 .. Len(s) : i <= p /\ s[i] = [action |-> a, req |-> r]}
Balance(s, r, p) ==
  Cardinality(Running(s, "add", r, p)) - Cardinality(Running(s, "delete", r, p))

(* While execd runs, the rules in force for r and those its scripts will   *)
(* add or remove are the account, and no "delete" is to find nothing to    *)
(* remove.  The walk of execd_shutdown may start a "delete" the loop had   *)
(* started as well; it is the last.                                        *)
Settles(r) ==
  IF at # "off"
    THEN /\ host[r] + Balance(children, r, Len(children)) = execs[r]
         /\ \A p \in 0 .. Len(children) : host[r] + Balance(children, r, p) >= 0
    ELSE /\ host[r] + Balance(children, r, Len(children)) <= 0
         /\ \A p \in 0 .. Len(children) :
              \/ host[r] + Balance(children, r, p) >= 0
              \/ \A i \in p + 1 .. Len(children) :
                   children[i] # [action |-> "add", req |-> r]

ScriptsSettle ==
  \A r \in Requests : Timeout[r.cmd] # 0 => r \in stray \/ Settles(r)

LEMMA RunningType ==
  ASSUME NEW s \in Seq(Scripts)
  PROVE  /\ Len(s) \in Nat
         /\ \A a, r, p : /\ IsFiniteSet(Running(s, a, r, p))
                         /\ Cardinality(Running(s, a, r, p)) \in Nat
         /\ \A r, p : Balance(s, r, p) \in Int
<1>1. Len(s) \in Nat
  BY LenProperties
<1>2. IsFiniteSet(1 .. Len(s))
  BY <1>1, FS_Interval
<1>3. \A a, r, p : Running(s, a, r, p) \in SUBSET (1 .. Len(s))
  BY DEF Running
<1>4. \A a, r, p : /\ IsFiniteSet(Running(s, a, r, p))
                   /\ Cardinality(Running(s, a, r, p)) \in Nat
  BY <1>2, <1>3, FS_Subset, FS_CardinalityType
<1>5. QED
  BY <1>1, <1>4 DEF Balance

(* A script that ends leaves the others in their order.                    *)
LEMMA RunningWithout ==
  ASSUME NEW s \in Seq(Scripts), NEW n \in 1 .. Len(s), NEW a, NEW r
  PROVE  /\ \A p \in 0 .. n - 1 : Running(Without(s, n), a, r, p) = Running(s, a, r, p)
         /\ \A p \in n - 1 .. Len(s) - 1 :
              Cardinality(Running(Without(s, n), a, r, p))
                = Cardinality(Running(s, a, r, p + 1))
                    - (IF s[n] = [action |-> a, req |-> r] THEN 1 ELSE 0)
<1> DEFINE W == Without(s, n)
           c == [action |-> a, req |-> r]
<1>1. /\ W \in Seq(Scripts) /\ Len(s) \in Nat /\ n \in Nat \ {0} /\ Len(W) = Len(s) - 1
      /\ \A i \in 1 .. Len(s) - 1 : W[i] = IF i < n THEN s[i] ELSE s[i + 1]
  <2>1. /\ W \in Seq(Scripts) /\ Len(W) = Len(s) - 1
        /\ \A i \in 1 .. Len(s) - 1 : W[i] = IF i < n THEN s[i] ELSE s[i + 1]
    BY WithoutProperties
  <2>2. Len(s) \in Nat
    BY RunningType
  <2>3. n \in Nat \ {0}
    BY <2>2
  <2>4. QED
    BY <2>1, <2>2, <2>3
<1> HIDE DEF W, c
<1>2. ASSUME NEW p \in 0 .. n - 1
      PROVE  Running(W, a, r, p) = Running(s, a, r, p)
  <2>1. ASSUME NEW i PROVE i \in 1 .. Len(W) /\ i <= p <=> i \in 1 .. Len(s) /\ i <= p
    BY <1>1
  <2>2. ASSUME NEW i \in 1 .. Len(W), i <= p PROVE W[i] = s[i]
    BY <1>1, <2>2
  <2>3. QED
    BY <2>1, <2>2 DEF Running
<1>3. ASSUME NEW p \in n - 1 .. Len(s) - 1
      PROVE  Cardinality(Running(W, a, r, p))
               = Cardinality(Running(s, a, r, p + 1)) - (IF s[n] = c THEN 1 ELSE 0)
  <2> DEFINE T == Running(W, a, r, p)
             A == Running(s, a, r, p + 1)
             S == A \ {n}
             f == [i \in T |-> IF i < n THEN i ELSE i + 1]
  <2>0. /\ p \in Nat /\ IsFiniteSet(A) /\ Cardinality(A) \in Nat
        /\ A = {i \in 1 .. Len(s) : i <= p + 1 /\ s[i] = c}
        /\ T = {i \in 1 .. Len(s) - 1 : i <= p /\ W[i] = c}
    <3>1. p \in Nat
      BY <1>1
    <3>2. IsFiniteSet(A) /\ Cardinality(A) \in Nat
      BY RunningType
    <3>3. A = {i \in 1 .. Len(s) : i <= p + 1 /\ s[i] = c}
      BY DEF Running, c
    <3>4. T = {i \in 1 .. Len(W) : i <= p /\ W[i] = c}
      BY DEF Running, c
    <3>5. QED
      BY <1>1, <3>1, <3>2, <3>3, <3>4
  <2> HIDE DEF A, T
  <2>1. ASSUME NEW i \in T PROVE f[i] \in S
    <3>1. i \in 1 .. Len(s) - 1 /\ i <= p /\ W[i] = c
      BY <2>0
    <3>2. CASE i < n
      <4>1. i \in 1 .. Len(s) /\ i <= p + 1 /\ s[i] = c /\ i # n
        BY <1>1, <2>0, <3>1, <3>2
      <4>2. QED
        BY <2>0, <3>2, <4>1
    <3>3. CASE ~ (i < n)
      <4>1. i + 1 \in 1 .. Len(s) /\ i + 1 <= p + 1 /\ s[i + 1] = c /\ i + 1 # n
        BY <1>1, <2>0, <3>1, <3>3
      <4>2. QED
        BY <2>0, <3>3, <4>1
    <3>4. QED
      BY <3>2, <3>3
  <2>2. ASSUME NEW k \in S PROVE \E i \in T : f[i] = k
    <3>1. k \in 1 .. Len(s) /\ k <= p + 1 /\ s[k] = c /\ k # n
      BY <2>0
    <3>2. CASE k < n
      <4>1. k \in 1 .. Len(s) - 1 /\ k <= p /\ W[k] = c
        BY <1>1, <2>0, <3>1, <3>2
      <4>2. QED
        BY <2>0, <3>2, <4>1
    <3>3. CASE ~ (k < n)
      <4>1. /\ k - 1 \in 1 .. Len(s) - 1 /\ k - 1 <= p /\ ~ (k - 1 < n)
            /\ (k - 1) + 1 = k
        BY <1>1, <2>0, <3>1, <3>3
      <4>2. W[k - 1] = c
        BY <1>1, <3>1, <4>1
      <4>3. k - 1 \in T
        BY <2>0, <4>1, <4>2
      <4>4. QED
        BY <4>1, <4>3
    <3>4. QED
      BY <3>2, <3>3
  <2>3. \A i, j \in T : f[i] = f[j] => i = j
    <3>1. \A i \in T : i \in Nat
      BY <1>1, <2>0
    <3>2. QED
      BY <1>1, <3>1
  <2>4. f \in [T -> S]
    BY <2>1
  <2> HIDE DEF f, S
  <2>5. f \in Bijection(T, S)
    BY <2>2, <2>3, <2>4 DEF Bijection, Injection, Surjection, IsInjective
  <2>6. IsFiniteSet(S) /\ Cardinality(S) = IF n \in A THEN Cardinality(A) - 1 ELSE Cardinality(A)
    BY <2>0, FS_RemoveElement DEF S
  <2>7. IsFiniteSet(T) /\ Cardinality(T) = Cardinality(S)
    <3>1. IsFiniteSet(T)
      BY <1>1, RunningType DEF T
    <3>2. QED
      BY <2>5, <2>6, <3>1, FS_Bijection DEF ExistsBijection
  <2>8. n \in A <=> s[n] = c
    BY <1>1, <2>0
  <2>9. QED
    BY <2>0, <2>6, <2>7, <2>8 DEF A, T
<1>4. QED
  BY <1>2, <1>3 DEF W, c

(* What ending adds to the rules in force, if it finds one to remove.      *)
Effect(c, r) == IF c = [action |-> "add", req |-> r] THEN 1
                ELSE IF c = [action |-> "delete", req |-> r] THEN -1 ELSE 0

LEMMA BalanceWithout ==
  ASSUME NEW s \in Seq(Scripts), NEW n \in 1 .. Len(s), NEW r
  PROVE  /\ \A p \in 0 .. n - 1 : Balance(Without(s, n), r, p) = Balance(s, r, p)
         /\ \A p \in n - 1 .. Len(s) - 1 :
              Balance(Without(s, n), r, p) = Balance(s, r, p + 1) - Effect(s[n], r)
<1>1. \A p \in 0 .. n - 1 : Balance(Without(s, n), r, p) = Balance(s, r, p)
  <2> SUFFICES ASSUME NEW p \in 0 .. n - 1
               PROVE  Balance(Without(s, n), r, p) = Balance(s, r, p)
    OBVIOUS
  <2>1. \A a : Running(Without(s, n), a, r, p) = Running(s, a, r, p)
    BY RunningWithout
  <2>2. QED
    BY <2>1 DEF Balance
<1>2. ASSUME NEW p \in n - 1 .. Len(s) - 1
      PROVE  Balance(Without(s, n), r, p) = Balance(s, r, p + 1) - Effect(s[n], r)
  <2> DEFINE a == Cardinality(Running(s, "add", r, p + 1))
             d == Cardinality(Running(s, "delete", r, p + 1))
             x == IF s[n] = [action |-> "add", req |-> r] THEN 1 ELSE 0
             y == IF s[n] = [action |-> "delete", req |-> r] THEN 1 ELSE 0
  <2>1. /\ Cardinality(Running(Without(s, n), "add", r, p)) = a - x
        /\ Cardinality(Running(Without(s, n), "delete", r, p)) = d - y
    BY RunningWithout
  <2>2. a \in Nat /\ d \in Nat
    BY RunningType
  <2>3. Effect(s[n], r) = x - y /\ x \in Nat /\ y \in Nat
    <3>1. [action |-> "add", req |-> r] # [action |-> "delete", req |-> r]
      <4>1. [action |-> "add", req |-> r].action # [action |-> "delete", req |-> r].action
        OBVIOUS
      <4>2. QED
        BY <4>1
    <3>2. QED
      BY <3>1 DEF Effect
  <2>4. Balance(s, r, p + 1) = a - d
    BY DEF Balance
  <2>5. Balance(Without(s, n), r, p) = (a - x) - (d - y)
    BY <2>1 DEF Balance
  <2> HIDE DEF a, d, x, y
  <2>6. QED
    BY <2>2, <2>3, <2>4, <2>5
<1>3. QED
  BY <1>1, <1>2

(* Scripts started go behind those that run.                               *)
LEMMA RunningAppended ==
  ASSUME NEW s \in Seq(Scripts), NEW t \in Seq(Scripts), NEW a, NEW r,
         NEW p \in Nat
  PROVE  Running(s \o t, a, r, p)
           = Running(s, a, r, p) \cup
             {i \in Len(s) + 1 .. Len(s) + Len(t) :
                i <= p /\ t[i - Len(s)] = [action |-> a, req |-> r]}
<1> DEFINE c == [action |-> a, req |-> r]
<1>1. /\ Len(s) \in Nat /\ Len(t) \in Nat /\ Len(s \o t) = Len(s) + Len(t)
      /\ \A i \in 1 .. Len(s) + Len(t) :
           (s \o t)[i] = IF i <= Len(s) THEN s[i] ELSE t[i - Len(s)]
  BY ConcatProperties, LenProperties
<1> HIDE DEF c
<1>2. ASSUME NEW i
      PROVE  i \in 1 .. Len(s) + Len(t) /\ i <= p /\ (s \o t)[i] = c
               <=> \/ i \in 1 .. Len(s) /\ i <= p /\ s[i] = c
                   \/ i \in Len(s) + 1 .. Len(s) + Len(t) /\ i <= p /\ t[i - Len(s)] = c
  <2>1. CASE i \in 1 .. Len(s)
    BY <1>1, <2>1
  <2>2. CASE i \in Len(s) + 1 .. Len(s) + Len(t)
    BY <1>1, <2>2
  <2>3. CASE i \notin 1 .. Len(s) /\ i \notin Len(s) + 1 .. Len(s) + Len(t)
    BY <1>1, <2>3
  <2>4. QED
    BY <2>1, <2>2, <2>3
<1>3. QED
  BY <1>1, <1>2 DEF Running, c

LEMMA BalanceAppended ==
  ASSUME NEW s \in Seq(Scripts), NEW x \in Scripts, NEW r
  PROVE  /\ \A p \in 0 .. Len(s) : Balance(Append(s, x), r, p) = Balance(s, r, p)
         /\ Balance(Append(s, x), r, Len(s) + 1) = Balance(s, r, Len(s)) + Effect(x, r)
<1> DEFINE t == <<x>>
           n == Len(s)
           more(a, p) == {i \in n + 1 .. n + Len(t) :
                            i <= p /\ t[i - n] = [action |-> a, req |-> r]}
<1>1. t \in Seq(Scripts) /\ Len(t) = 1 /\ t[1] = x /\ n \in Nat /\ Append(s, x) = s \o t
  BY AppendIsConcat, LenProperties
<1>2. ASSUME NEW a, NEW p \in Nat
      PROVE  Running(s \o t, a, r, p) = Running(s, a, r, p) \cup more(a, p)
  <2>1. t \in Seq(Scripts)
    BY <1>1
  <2> HIDE DEF t
  <2>2. QED
    BY <2>1, RunningAppended
<1>3. ASSUME NEW p \in 0 .. n
      PROVE  Balance(s \o t, r, p) = Balance(s, r, p)
  <2>1. ASSUME NEW a PROVE more(a, p) = {}
    <3>1. \A i \in n + 1 .. n + Len(t) : ~ (i <= p)
      BY <1>1
    <3> HIDE DEF t
    <3>2. QED
      BY <3>1
  <2>2. ASSUME NEW a PROVE Running(s \o t, a, r, p) = Running(s, a, r, p)
    <3>1. p \in Nat
      BY <1>1
    <3>2. Running(s \o t, a, r, p) = Running(s, a, r, p) \cup more(a, p)
      BY <1>2, <3>1
    <3>3. QED
      BY <2>1, <3>2
  <2>3. QED
    BY <2>2 DEF Balance
<1>4. Balance(s \o t, r, n + 1) = Balance(s, r, n) + Effect(x, r)
  <2>1. ASSUME NEW a
        PROVE  Cardinality(Running(s \o t, a, r, n + 1))
                 = Cardinality(Running(s, a, r, n))
                     + (IF x = [action |-> a, req |-> r] THEN 1 ELSE 0)
    <3>1. Running(s, a, r, n + 1) = Running(s, a, r, n)
      BY <1>1 DEF Running
    <3>2. more(a, n + 1) = IF x = [action |-> a, req |-> r] THEN {n + 1} ELSE {}
      <4>1. n + Len(t) = n + 1 /\ t[(n + 1) - n] = x
        BY <1>1
      <4>2. n + 1 .. n + 1 = {n + 1}
        BY <1>1
      <4> HIDE DEF t
      <4>3. more(a, n + 1) = {i \in {n + 1} : i <= n + 1 /\ t[i - n] = [action |-> a, req |-> r]}
        BY <4>1, <4>2
      <4>4. QED
        BY <1>1, <4>1, <4>3
    <3>3. n + 1 \in Nat /\ n + 1 \notin Running(s, a, r, n)
      BY <1>1 DEF Running
    <3>4. Running(s \o t, a, r, n + 1)
            = Running(s, a, r, n) \cup
              (IF x = [action |-> a, req |-> r] THEN {n + 1} ELSE {})
      BY <1>2, <3>1, <3>2, <3>3
    <3>5. /\ IsFiniteSet(Running(s, a, r, n))
          /\ Cardinality(Running(s, a, r, n)) \in Nat
      BY RunningType
    <3> DEFINE R == Running(s, a, r, n)
    <3> HIDE DEF R
    <3>6. CASE x = [action |-> a, req |-> r]
      <4>1. Running(s \o t, a, r, n + 1) = R \cup {n + 1}
        BY <3>4, <3>6 DEF R
      <4>2. Cardinality(R \cup {n + 1}) = Cardinality(R) + 1
        BY <3>3, <3>5, FS_AddElement DEF R
      <4>3. QED
        BY <3>6, <4>1, <4>2 DEF R
    <3>7. CASE x # [action |-> a, req |-> r]
      <4>1. Running(s \o t, a, r, n + 1) = R
        BY <3>4, <3>7 DEF R
      <4>2. QED
        BY <3>5, <3>7, <4>1 DEF R
    <3>8. QED
      BY <3>6, <3>7
  <2> DEFINE a == Cardinality(Running(s, "add", r, n))
             d == Cardinality(Running(s, "delete", r, n))
             u == IF x = [action |-> "add", req |-> r] THEN 1 ELSE 0
             v == IF x = [action |-> "delete", req |-> r] THEN 1 ELSE 0
  <2>2. a \in Nat /\ d \in Nat
    BY RunningType
  <2>3. Effect(x, r) = u - v /\ u \in Nat /\ v \in Nat
    <3>1. [action |-> "add", req |-> r] # [action |-> "delete", req |-> r]
      <4>1. [action |-> "add", req |-> r].action # [action |-> "delete", req |-> r].action
        OBVIOUS
      <4>2. QED
        BY <4>1
    <3>2. QED
      BY <3>1 DEF Effect
  <2>4. Balance(s, r, n) = a - d
    BY DEF Balance
  <2>5. Balance(s \o t, r, n + 1) = (a + u) - (d + v)
    BY <2>1 DEF Balance
  <2> HIDE DEF a, d, u, v
  <2>6. QED
    BY <2>2, <2>3, <2>4, <2>5
<1> HIDE DEF t
<1>5. QED
  BY <1>1, <1>3, <1>4

(* A script is started.                                                    *)
LEMMA StartSettles ==
  ASSUME IInv, at # "off", at' # "off", UNCHANGED host,
         NEW a \in {"add", "delete"}, NEW q \in Requests, ExecCmd(a, q),
         NEW r \in Requests, Settles(r),
         a = "delete" /\ q = r => execs[r] >= 1
  PROVE  Settles(r)'
<1> DEFINE x == [action |-> a, req |-> q]
           n == Len(children)
<1>1. /\ children \in Seq(Scripts) /\ x \in Scripts /\ children' = Append(children, x)
      /\ execs[r] \in Int /\ host[r] \in Nat /\ n \in Nat
      /\ Len(children') = n + 1
  <2>1. children \in Seq(Scripts) /\ execs[r] \in Int /\ host[r] \in Nat
    BY ListTypes DEF IInv, Lists, Rest
  <2>2. x \in Scripts /\ children' = Append(children, x)
    BY DEF Scripts, ExecCmd
  <2>3. QED
    BY <2>1, <2>2, AppendProperties, LenProperties
<1>2. execs'[r] = execs[r] + Effect(x, r)
  <2>1. execs'[r] = IF r # q THEN execs[r] ELSE IF a = "add" THEN execs[q] + 1 ELSE execs[q] - 1
    BY ExecAccount DEF IInv
  <2>2. Effect(x, r) = IF r # q THEN 0 ELSE IF a = "add" THEN 1 ELSE -1
    BY DEF Effect
  <2>3. QED
    BY <1>1, <2>1, <2>2
<1>3. Effect(x, r) \in {-1, 0, 1} /\ (Effect(x, r) = -1 => execs[r] >= 1)
  BY DEF Effect
<1> HIDE DEF x
<1>4. /\ \A p \in 0 .. n : Balance(children', r, p) = Balance(children, r, p)
      /\ Balance(children', r, n + 1) = Balance(children, r, n) + Effect(x, r)
      /\ \A p : Balance(children, r, p) \in Int
  BY <1>1, BalanceAppended, RunningType
<1>5. /\ host[r] + Balance(children, r, n) = execs[r]
      /\ \A p \in 0 .. n : host[r] + Balance(children, r, p) >= 0
  BY DEF Settles
<1>6. host[r] + Balance(children', r, n + 1) = execs'[r] /\ execs'[r] >= 0
  <2>1. n \in 0 .. n
    BY <1>1
  <2>2. execs[r] >= 0
    BY <1>5, <2>1
  <2>3. QED
    BY <1>1, <1>2, <1>3, <1>4, <1>5, <2>2, SMTT(30)
<1>7. \A p \in 0 .. n + 1 : host[r] + Balance(children', r, p) >= 0
  <2>1. \A p \in 0 .. n + 1 : p \in 0 .. n \/ p = n + 1
    BY <1>1
  <2>2. QED
    BY <1>4, <1>5, <1>6, <2>1
<1>8. QED
  BY <1>1, <1>6, <1>7 DEF Settles

(* A script ends.  A "delete" no "add" of its request is running before    *)
(* finds a rule to remove, but for one that is the last.                   *)
LEMMA EndSettles ==
  ASSUME IInv, ScriptEnds, NEW r \in Requests, r \notin stray', Settles(r)
  PROVE  Settles(r)'
<1> DEFINE n == Len(children)
           h == host[r]
           B(p) == Balance(children, r, p)
           add == [action |-> "add", req |-> r]
           del == [action |-> "delete", req |-> r]
<1>1. PICK k \in 1 .. n :
        LET c == children[k] IN
        /\ host' = [host EXCEPT ![c.req] = IF c.action = "add" THEN @ + 1
                                           ELSE IF @ > 0 THEN @ - 1 ELSE 0]
        /\ children' = Without(children, k)
        /\ stray' = IF c.action = "delete" /\ (\E j \in 1 .. k - 1 :
                                                  children[j] = [c EXCEPT !.action = "add"])
                    THEN stray \cup {c.req} ELSE stray
        /\ UNCHANGED <<at, execs>>
  BY DEF ScriptEnds, Without
<1> DEFINE x == children[k]
           e == Effect(x, r)
<1>2. /\ children \in Seq(Scripts) /\ x \in Scripts /\ n \in Nat /\ k \in Nat \ {0} /\ k <= n
      /\ h \in Nat /\ execs[r] \in Int /\ \A p : B(p) \in Int
  <2>1. children \in Seq(Scripts) /\ h \in Nat /\ execs[r] \in Int
    BY ListTypes DEF IInv, Lists, Rest
  <2>2. x \in Scripts
    BY <2>1, ElementOfSeq
  <2>3. n \in Nat /\ \A p : B(p) \in Int
    BY <2>1, RunningType
  <2>4. QED
    BY <2>1, <2>2, <2>3
<1>3. x = [action |-> x.action, req |-> x.req] /\ x.action \in {"add", "delete"} /\ x.req \in Requests
  BY <1>2 DEF Scripts
<1>4. add # del
  <2>1. add.action # del.action
    OBVIOUS
  <2>2. QED
    BY <2>1
<1>5. /\ Len(children') = n - 1
      /\ \A i \in 1 .. n - 1 : children'[i] = IF i < k THEN children[i] ELSE children[i + 1]
      /\ \A p \in 0 .. k - 1 : Balance(children', r, p) = B(p)
      /\ \A p \in k - 1 .. n - 1 : Balance(children', r, p) = B(p + 1) - e
  BY <1>1, <1>2, WithoutProperties, BalanceWithout
<1>6. /\ x = add => e = 1 /\ host'[r] = h + 1
      /\ x = del => e = -1 /\ host'[r] = IF h > 0 THEN h - 1 ELSE 0
      /\ x # add /\ x # del => e = 0 /\ host'[r] = h
  <2>1. host \in [Requests -> Nat]
    BY ListTypes DEF IInv, Rest
  <2>2. x.req # r => host'[r] = h
    BY <1>1, <1>3, <2>1
  <2>3. x.req = r => host'[r] = IF x.action = "add" THEN h + 1
                                ELSE IF h > 0 THEN h - 1 ELSE 0
    BY <1>1, <1>3, <2>1
  <2>4. x = add <=> x.req = r /\ x.action = "add"
    BY <1>3
  <2>5. x = del <=> x.req = r /\ x.action = "delete"
    BY <1>3
  <2>6. e = IF x = add THEN 1 ELSE IF x = del THEN -1 ELSE 0
    BY DEF Effect
  <2>7. QED
    BY <1>3, <1>4, <2>2, <2>3, <2>4, <2>5, <2>6
<1>7. ASSUME x = del
      PROVE  /\ \A i \in 1 .. k : children[i] # add
             /\ \A p \in 0 .. k - 1 : B(p) >= B(k) + 1
             /\ B(k) <= -1
  <2>1. \A i \in 1 .. k - 1 : children[i] # add
    <3>1. x.req = r /\ x.action = "delete" /\ [x EXCEPT !.action = "add"] = add
      BY <1>7
    <3>2. QED
      BY <1>1, <3>1
  <2>2. \A i \in 1 .. k : children[i] # add
    BY <1>2, <1>4, <1>7, <2>1
  <2> DEFINE d(p) == Cardinality(Running(children, "delete", r, p))
  <2>3. ASSUME NEW p \in 0 .. k PROVE B(p) = 0 - d(p) /\ d(p) \in Nat
    <3>1. Running(children, "add", r, p) = {}
      <4>1. ASSUME NEW i \in Running(children, "add", r, p) PROVE FALSE
        <5>1. i \in 1 .. n /\ i <= p /\ children[i] = add
          BY DEF Running
        <5>2. i \in 1 .. k
          BY <1>2, <5>1
        <5>3. QED
          BY <2>2, <5>1, <5>2
      <4>2. QED
        BY <4>1
    <3>2. Cardinality(Running(children, "add", r, p)) = 0
      BY <3>1, FS_EmptySet
    <3>3. d(p) \in Nat
      BY <1>2, RunningType
    <3>4. QED
      BY <3>2, <3>3 DEF Balance
  <2>4. ASSUME NEW p \in 0 .. k - 1 PROVE d(p) + 1 <= d(k)
    <3> DEFINE S == Running(children, "delete", r, p)
               T == Running(children, "delete", r, k)
    <3>1. k \in T /\ k \notin S
      BY <1>2, <1>7 DEF Running
    <3>2. S \subseteq T
      BY <1>2 DEF Running
    <3>3. IsFiniteSet(T) /\ IsFiniteSet(S) /\ Cardinality(S) \in Nat /\ Cardinality(T) \in Nat
      BY <1>2, RunningType
    <3> HIDE DEF S, T
    <3>4. S \cup {k} \in SUBSET T
      BY <3>1, <3>2
    <3>5. Cardinality(S \cup {k}) <= Cardinality(T)
      BY <3>3, <3>4, FS_Subset
    <3>6. Cardinality(S \cup {k}) = Cardinality(S) + 1
      BY <3>1, <3>3, FS_AddElement
    <3>7. Cardinality(S) + 1 <= Cardinality(T)
      BY <3>5, <3>6
    <3>8. QED
      BY <3>7 DEF S, T
  <2>5. k \in 0 .. k /\ 0 \in 0 .. k - 1 /\ \A p \in 0 .. k - 1 : p \in 0 .. k
    BY <1>2
  <2>6. B(k) = 0 - d(k) /\ d(k) \in Nat
    BY <2>3, <2>5
  <2>7. ASSUME NEW p \in 0 .. k - 1 PROVE B(p) >= B(k) + 1
    <3>1. B(p) = 0 - d(p) /\ d(p) \in Nat /\ d(p) + 1 <= d(k)
      BY <2>3, <2>4, <2>5
    <3> HIDE DEF d, B
    <3>2. QED
      BY <2>6, <3>1
  <2>8. B(k) <= -1
    <3>1. d(0) + 1 <= d(k) /\ d(0) \in Nat
      BY <2>3, <2>4, <2>5
    <3> HIDE DEF d, B
    <3>2. QED
      BY <2>6, <3>1
  <2>9. QED
    BY <2>2, <2>7, <2>8
<1>8. /\ at' = at
      /\ Balance(children', r, n - 1) = B(n) - e
      /\ \A p \in 0 .. n - 1 : ~ (p < k) => Balance(children', r, p) = B(p + 1) - e
      /\ \A p \in 0 .. n - 1 : p < k => Balance(children', r, p) = B(p)
      /\ e \in {-1, 0, 1} /\ (e = -1 => x = del)
      /\ n \in 0 .. n /\ k \in 0 .. n
  <2>1. n - 1 \in k - 1 .. n - 1 /\ (n - 1) + 1 = n
    BY <1>2
  <2>2. Balance(children', r, n - 1) = B(n) - e
    BY <1>5, <2>1
  <2>3. \A p \in 0 .. n - 1 : ~ (p < k) => p \in k - 1 .. n - 1
    BY <1>2
  <2>4. \A p \in 0 .. n - 1 : p < k => p \in 0 .. k - 1
    BY <1>2
  <2>5. e \in {-1, 0, 1} /\ (e = -1 => x = del)
    BY DEF Effect
  <2>6. n \in 0 .. n /\ k \in 0 .. n
    BY <1>2
  <2>7. QED
    BY <1>1, <1>5, <2>2, <2>3, <2>4, <2>5, <2>6
<1>9. ASSUME x = del => h + B(k) >= 0
      PROVE  host'[r] = h + e
  <2>1. CASE x = del
    <3>1. h > 0
      <4>1. h + B(k) >= 0 /\ B(k) <= -1 /\ B(k) \in Int
        BY <1>2, <1>7, <1>9, <2>1
      <4> HIDE DEF B
      <4>2. QED
        BY <1>2, <4>1
    <3>2. QED
      BY <1>2, <1>6, <2>1, <3>1
  <2>2. CASE x # del
    BY <1>2, <1>6, <2>2
  <2>3. QED
    BY <2>1, <2>2
<1>10. ASSUME x = del => h + B(k) >= 0, NEW p \in 0 .. n - 1
       PROVE  /\ p < k /\ h + B(p) >= 0 => host'[r] + Balance(children', r, p) >= 0
              /\ ~ (p < k) /\ h + B(p + 1) >= 0
                   => host'[r] + Balance(children', r, p) >= 0
  <2>1. host'[r] = h + e
    BY <1>9, <1>10
  <2>2. ASSUME p < k, h + B(p) >= 0
        PROVE  host'[r] + Balance(children', r, p) >= 0
    <3>1. Balance(children', r, p) = B(p) /\ B(p) \in Int
      BY <1>2, <1>8, <2>2
    <3>2. CASE e # -1
      <4>1. e \in {0, 1}
        BY <1>8, <3>2
      <4> HIDE DEF B, e
      <4>2. QED
        BY <1>2, <2>1, <2>2, <3>1, <4>1
    <3>3. CASE e = -1
      <4>1. p \in 0 .. k - 1
        BY <1>2, <2>2
      <4>2. B(p) >= B(k) + 1 /\ h + B(k) >= 0 /\ B(k) \in Int
        BY <1>2, <1>7, <1>8, <1>10, <3>3, <4>1
      <4> HIDE DEF B, e
      <4>3. QED
        BY <1>2, <2>1, <3>1, <3>3, <4>2
    <3>4. QED
      BY <3>2, <3>3
  <2>3. ASSUME ~ (p < k), h + B(p + 1) >= 0
        PROVE  host'[r] + Balance(children', r, p) >= 0
    <3>1. Balance(children', r, p) = B(p + 1) - e /\ B(p + 1) \in Int /\ e \in Int
      BY <1>2, <1>8, <2>3
    <3> HIDE DEF B, e
    <3>2. QED
      BY <1>2, <2>1, <2>3, <3>1
  <2>4. QED
    BY <2>2, <2>3
<1>11. ASSUME x = del => h + B(k) >= 0
       PROVE  host'[r] + Balance(children', r, n - 1) = h + B(n)
  <2>1. host'[r] = h + e /\ Balance(children', r, n - 1) = B(n) - e /\ B(n) \in Int /\ e \in Int
    BY <1>2, <1>8, <1>9, <1>11
  <2> HIDE DEF B, e
  <2>2. QED
    BY <1>2, <2>1
<1>12. CASE at # "off"
  <2>1. /\ h + B(n) = execs[r]
        /\ \A p \in 0 .. n : h + B(p) >= 0
    BY <1>12 DEF Settles
  <2>2. h + B(k) >= 0
    BY <1>8, <2>1
  <2>3. host'[r] + Balance(children', r, n - 1) = execs'[r]
    BY <1>1, <1>11, <2>1, <2>2
  <2>4. ASSUME NEW p \in 0 .. n - 1
        PROVE  host'[r] + Balance(children', r, p) >= 0
    <3>1. p \in 0 .. n /\ p + 1 \in 0 .. n
      BY <1>2
    <3>2. h + B(p) >= 0 /\ h + B(p + 1) >= 0
      BY <2>1, <3>1
    <3>3. QED
      BY <1>10, <2>2, <3>2
  <2>5. QED
    BY <1>5, <1>8, <1>12, <2>3, <2>4 DEF Settles
<1>13. CASE at = "off" /\ (x = del => h + B(k) >= 0)
  <2>1. /\ h + B(n) <= 0
        /\ \A p \in 0 .. n : h + B(p) >= 0 \/ \A i \in p + 1 .. n : children[i] # add
    BY <1>13 DEF Settles
  <2>2. host'[r] + Balance(children', r, n - 1) <= 0
    BY <1>11, <1>13, <2>1
  <2>3. ASSUME NEW p \in 0 .. n - 1, ~ (host'[r] + Balance(children', r, p) >= 0)
        PROVE  \A i \in p + 1 .. n - 1 : children'[i] # add
    <3>1. CASE p < k
      <4>1. p \in 0 .. n
        BY <1>2
      <4>2. ~ (h + B(p) >= 0)
        BY <1>10, <1>13, <2>3, <3>1
      <4>3. \A i \in p + 1 .. n : children[i] # add
        BY <2>1, <4>1, <4>2
      <4>4. ASSUME NEW i \in p + 1 .. n - 1 PROVE children'[i] # add
        <5>1. i \in 1 .. n - 1 /\ i \in p + 1 .. n /\ i + 1 \in p + 1 .. n
          BY <1>2
        <5>2. QED
          BY <1>5, <4>3, <5>1
      <4>5. QED
        BY <4>4
    <3>2. CASE ~ (p < k)
      <4>1. p + 1 \in 0 .. n
        BY <1>2
      <4>2. ~ (h + B(p + 1) >= 0)
        BY <1>10, <1>13, <2>3, <3>2
      <4>3. \A i \in (p + 1) + 1 .. n : children[i] # add
        BY <2>1, <4>1, <4>2
      <4>4. ASSUME NEW i \in p + 1 .. n - 1 PROVE children'[i] # add
        <5>1. i \in 1 .. n - 1 /\ ~ (i < k) /\ i + 1 \in (p + 1) + 1 .. n
          BY <1>2, <3>2
        <5>2. QED
          BY <1>5, <4>3, <5>1
      <4>5. QED
        BY <4>4
    <3>3. QED
      BY <3>1, <3>2
  <2>4. QED
    BY <1>5, <1>8, <1>13, <2>2, <2>3 DEF Settles
<1>14. CASE at = "off" /\ x = del /\ ~ (h + B(k) >= 0)
  <2>1. /\ h + B(n) <= 0
        /\ \A i \in k + 1 .. n : children[i] # add
    BY <1>8, <1>14 DEF Settles
  <2>2. \A i \in 1 .. n : children[i] # add
    <3>1. \A i \in 1 .. n : i \in 1 .. k \/ i \in k + 1 .. n
      BY <1>2
    <3>2. QED
      BY <1>7, <1>14, <2>1, <3>1
  <2>3. \A i \in 1 .. n - 1 : children'[i] # add
    <3>1. \A i \in 1 .. n - 1 : i \in 1 .. n /\ i + 1 \in 1 .. n
      BY <1>2
    <3>2. QED
      BY <1>5, <2>2, <3>1
  <2>4. B(n) <= -1
    <3> DEFINE A == Running(children, "add", r, n)
               D == Running(children, "delete", r, n)
    <3>1. A = {} /\ k \in D
      BY <1>2, <1>14, <2>2 DEF Running
    <3>2. IsFiniteSet(D) /\ Cardinality(D) \in Nat
      BY <1>2, RunningType
    <3>3. B(n) = Cardinality(A) - Cardinality(D)
      BY DEF Balance
    <3> HIDE DEF A, D, B
    <3>4. Cardinality(A) = 0 /\ Cardinality(D) # 0
      BY <3>1, <3>2, FS_EmptySet
    <3>5. QED
      BY <3>2, <3>3, <3>4
  <2>5. host'[r] + Balance(children', r, n - 1) <= 0
    <3>1. /\ host'[r] = IF h > 0 THEN h - 1 ELSE 0
          /\ e = -1 /\ Balance(children', r, n - 1) = B(n) - e /\ B(n) \in Int
      BY <1>2, <1>6, <1>8, <1>14
    <3> HIDE DEF B, e
    <3>2. Balance(children', r, n - 1) = B(n) + 1
      BY <3>1
    <3>3. CASE h > 0
      BY <1>2, <2>1, <3>1, <3>2, <3>3
    <3>4. CASE ~ (h > 0)
      BY <2>4, <3>1, <3>2, <3>4
    <3>5. QED
      BY <3>3, <3>4
  <2>6. \A p \in 0 .. n - 1, i \in 1 .. n - 1 : i \in p + 1 .. n - 1 => children'[i] # add
    BY <2>3
  <2>7. \A p \in 0 .. n - 1 : \A i \in p + 1 .. n - 1 : i \in 1 .. n - 1
    BY <1>2
  <2>8. QED
    BY <1>5, <1>8, <1>14, <2>3, <2>5, <2>7 DEF Settles
<1>15. QED
  BY <1>12, <1>13, <1>14

LEMMA SecondOfConcat ==
  ASSUME NEW s \in Seq(Scripts), NEW t \in Seq(Scripts)
  PROVE  /\ Len(s \o t) = Len(s) + Len(t)
         /\ \A i \in Len(s) + 1 .. Len(s) + Len(t) : (s \o t)[i] = t[i - Len(s)]
<1>1. /\ Len(s) \in Nat /\ Len(t) \in Nat /\ Len(s \o t) = Len(s) + Len(t)
      /\ \A i \in 1 .. Len(s) + Len(t) :
           (s \o t)[i] = IF i <= Len(s) THEN s[i] ELSE t[i - Len(s)]
  BY ConcatProperties, LenProperties
<1>2. QED
  BY <1>1

(* execd_shutdown starts a "delete" for each entry, behind what runs.      *)
LEMMA ShutdownSettles ==
  ASSUME IInv, execd_shutdown, NEW r \in Requests, Timeout[r.cmd] # 0,
         r \notin stray', Settles(r)
  PROVE  Settles(r)'
<1> DEFINE n == Len(timeout_list)
           m == Len(children)
           d == [k \in 1 .. n |-> [action |-> "delete", req |-> timeout_list[k].req]]
           add == [action |-> "add", req |-> r]
           del == [action |-> "delete", req |-> r]
           x == IF Has(r) THEN 1 ELSE 0
<1>1. /\ d \in Seq(Scripts) /\ Len(d) = n /\ n \in Nat
      /\ \A k \in 1 .. n : d[k] = [action |-> "delete", req |-> timeout_list[k].req]
  <2>1. n \in Nat
    BY ListTypes DEF IInv, Lists
  <2>2. \A k \in 1 .. n : d[k] \in Scripts
    BY EntryType DEF Scripts, IInv
  <2>3. /\ d = [k \in 1 .. n |-> d[k]]
        /\ \A k \in 1 .. n : d[k] = [action |-> "delete", req |-> timeout_list[k].req]
    OBVIOUS
  <2> HIDE DEF d
  <2>4. d \in [1 .. n -> Scripts]
    BY <2>2, <2>3
  <2>5. d \in Seq(Scripts) /\ Len(d) = n
    BY <2>1, <2>4, SeqDef
  <2>6. QED
    BY <2>1, <2>3, <2>5
<1>2. /\ children' = children \o d /\ host' = host /\ at # "off" /\ at' = "off"
      /\ stray' = IF at = "added" THEN stray \cup {request} ELSE stray
  BY DEF execd_shutdown
<1>3. /\ children \in Seq(Scripts) /\ m \in Nat /\ host[r] \in Nat /\ execs[r] \in Int
  BY ListTypes, LenProperties DEF IInv, Lists, Rest
<1>4. \A k \in 1 .. n : d[k] # add /\ (d[k] = del <=> timeout_list[k].req = r)
  <2>1. ASSUME NEW k \in 1 .. n
        PROVE  d[k].action = "delete" /\ add.action = "add" /\ d[k].req = timeout_list[k].req
    BY <1>1
  <2>2. ASSUME NEW k \in 1 .. n PROVE d[k] # add
    <3>1. d[k].action = "delete" /\ add.action = "add"
      BY <2>1
    <3> HIDE DEF d, add
    <3>2. QED
      BY <3>1
  <2>3. ASSUME NEW k \in 1 .. n PROVE d[k] = del <=> timeout_list[k].req = r
    <3>1. d[k] = [action |-> "delete", req |-> timeout_list[k].req]
      BY <1>1
    <3>2. QED
      BY <3>1
  <2>4. QED
    BY <2>2, <2>3
<1> HIDE DEF d
<1>5. /\ Len(children \o d) = m + n
      /\ \A i \in m + 1 .. m + n : (children \o d)[i] = d[i - m]
  <2>1. /\ Len(children \o d) = m + Len(d)
        /\ \A i \in m + 1 .. m + Len(d) : (children \o d)[i] = d[i - m]
    BY <1>1, <1>3, SecondOfConcat
  <2>2. QED
    BY <1>1, <2>1
<1>6. ASSUME NEW a, NEW p \in Nat
      PROVE  Running(children \o d, a, r, p)
               = Running(children, a, r, p) \cup
                 {i \in m + 1 .. m + n : i <= p /\ d[i - m] = [action |-> a, req |-> r]}
  BY <1>1, <1>3, RunningAppended
<1>7. ASSUME NEW p \in 0 .. m
      PROVE  Balance(children \o d, r, p) = Balance(children, r, p)
  <2>1. p \in Nat /\ \A i \in m + 1 .. m + n : ~ (i <= p)
    BY <1>1, <1>3
  <2>2. \A a : Running(children \o d, a, r, p) = Running(children, a, r, p)
    BY <1>6, <2>1
  <2>3. QED
    BY <2>2 DEF Balance
<1>8. Balance(children \o d, r, m + n) = Balance(children, r, m) - x
  <2> DEFINE A == Running(children, "add", r, m)
             D == Running(children, "delete", r, m)
             E == {i \in m + 1 .. m + n : d[i - m] = del}
  <2>0. /\ IsFiniteSet(D) /\ Cardinality(D) \in Nat /\ Cardinality(A) \in Nat
        /\ m + n \in Nat
        /\ \A i \in m + 1 .. m + n : i <= m + n /\ i - m \in 1 .. n
    BY <1>1, <1>3, RunningType
  <2>1. \A a : Running(children, a, r, m + n) = Running(children, a, r, m)
    BY <1>1, <1>3 DEF Running
  <2>2. Running(children \o d, "add", r, m + n) = A
    <3>1. {i \in m + 1 .. m + n : i <= m + n /\ d[i - m] = add} = {}
      BY <1>4, <2>0
    <3>2. Running(children \o d, "add", r, m + n)
            = Running(children, "add", r, m + n) \cup
              {i \in m + 1 .. m + n : i <= m + n /\ d[i - m] = add}
      BY <1>6, <2>0
    <3>3. QED
      BY <2>1, <3>1, <3>2
  <2>3. Running(children \o d, "delete", r, m + n) = D \cup E
    <3>1. {i \in m + 1 .. m + n : i <= m + n /\ d[i - m] = del} = E
      BY <2>0
    <3>2. QED
      BY <1>6, <2>0, <2>1, <3>1
  <2>4. Cardinality(D \cup E) = Cardinality(D) + x
    <3>1. CASE ~ Has(r)
      <4>1. E = {}
        BY <1>4, <2>0, <3>1 DEF Has
      <4>2. D \cup E = D /\ x = 0
        BY <3>1, <4>1
      <4>3. Cardinality(D \cup E) = Cardinality(D)
        BY <4>2, Zenon
      <4> HIDE DEF D, E, x
      <4>4. QED
        BY <2>0, <4>2, <4>3
    <3>2. CASE Has(r)
      <4>1. PICK k \in 1 .. n : timeout_list[k].req = r
        BY <3>2 DEF Has
      <4>2. ASSUME NEW j \in 1 .. n, timeout_list[j].req = r PROVE j = k
        BY <4>1, <4>2 DEF IInv, OneEntryPerTarget
      <4>3. /\ m + k \in m + 1 .. m + n /\ (m + k) - m = k
            /\ \A i \in m + 1 .. m + n : i - m = k => i = m + k
        BY <1>1, <1>3
      <4>4. m + k \in E
        BY <1>4, <4>1, <4>3
      <4>5. \A i \in E : i = m + k
        BY <1>4, <2>0, <4>2, <4>3
      <4>6. E = {m + k}
        BY <4>4, <4>5
      <4>7. m + k \notin D
        BY <1>3, <4>3 DEF Running
      <4> HIDE DEF D, E
      <4>8. Cardinality(D \cup {m + k}) = Cardinality(D) + 1
        BY <2>0, <4>7, FS_AddElement
      <4>9. QED
        BY <3>2, <4>6, <4>8
    <3>3. QED
      BY <3>1, <3>2
  <2>5. /\ Balance(children \o d, r, m + n) = Cardinality(A) - Cardinality(D \cup E)
        /\ Balance(children, r, m) = Cardinality(A) - Cardinality(D)
    BY <2>2, <2>3 DEF Balance
  <2>6. x \in Nat
    OBVIOUS
  <2> HIDE DEF A, D, E, x
  <2>7. QED
    BY <2>0, <2>4, <2>5, <2>6
<1>9. /\ host[r] + Balance(children, r, m) = execs[r]
      /\ \A p \in 0 .. m : host[r] + Balance(children, r, p) >= 0
  BY <1>2 DEF Settles
<1>10. host'[r] + Balance(children', r, m + n) <= 0
  <2>1. ~ Started(r)
    BY <1>2 DEF Started
  <2>2. execs[r] = IF Has(r) /\ ~ Undone(r) THEN 1 ELSE 0
    BY <1>2, <2>1 DEF IInv, Account
  <2>3. execs[r] <= x /\ x \in Nat
    BY <2>2
  <2>4. Balance(children, r, m) \in Int
    BY <1>3, RunningType
  <2> HIDE DEF x
  <2>5. QED
    BY <1>2, <1>3, <1>8, <1>9, <2>3, <2>4
<1>11. ASSUME NEW p \in 0 .. m + n
       PROVE  \/ host'[r] + Balance(children', r, p) >= 0
              \/ \A i \in p + 1 .. m + n : children'[i] # add
  <2>1. CASE p \in 0 .. m
    BY <1>2, <1>7, <1>9, <2>1
  <2>2. CASE p \notin 0 .. m
    <3>1. \A i \in p + 1 .. m + n : i \in m + 1 .. m + n /\ i - m \in 1 .. n
      BY <1>1, <1>3, <2>2
    <3>2. QED
      BY <1>2, <1>4, <1>5, <3>1
  <2>3. QED
    BY <2>1, <2>2
<1>12. Len(children') = m + n
  BY <1>2, <1>5
<1>13. QED
  BY <1>2, <1>10, <1>11, <1>12 DEF Settles

LEMMA ScriptsStep ==
  ASSUME IInv, ScriptsSettle, [Next]_vars
  PROVE  ScriptsSettle'
<1> SUFFICES ASSUME NEW r \in Requests, Timeout[r.cmd] # 0, r \notin stray'
             PROVE  Settles(r)'
  BY DEF ScriptsSettle
<1>0. r \in stray \/ Settles(r)
  BY DEF ScriptsSettle
<1>1. CASE /\ UNCHANGED <<children, host, execs, stray>>
           /\ at = "off" <=> at' = "off"
  BY <1>0, <1>1 DEF Settles
<1>2. CASE \/ SelectTimeout \/ WalkDone \/ KeepEntry \/ DeleteEntry \/ AddEntry \/ Tick
           \/ UNCHANGED vars
  <2>1. /\ UNCHANGED <<children, host, execs, stray>>
        /\ at = "off" <=> at' = "off"
    BY <1>2 DEF SelectTimeout, WalkDone, KeepEntry, DeleteEntry, AddEntry, Tick, vars
  <2>2. QED
    BY <1>1, <2>1
<1>3. ASSUME NEW q \in Requests, RefreshEntry(q)
      PROVE  Settles(r)'
  <2>1. /\ UNCHANGED <<children, host, execs, stray>>
        /\ at = "select" /\ at' = "expire"
    BY <1>3 DEF RefreshEntry
  <2>2. QED
    BY <1>1, <2>1
<1>4. CASE ExpireEntry
  <2> DEFINE q == timeout_list[node].req
  <2>1. /\ node \in 1 .. Len(timeout_list) /\ at = "expire" /\ at' = "expired"
        /\ UNCHANGED <<host, stray>> /\ ExecCmd("delete", q)
    BY <1>4, ListTypes DEF ExpireEntry, IInv, Lists, Rest
  <2>2. q \in Requests
    BY <2>1, EntryType DEF IInv
  <2>3. q = r => execs[r] >= 1
    <3>1. ~ Started(r) /\ ~ Undone(r)
      BY <2>1 DEF Started, Undone
    <3>2. q = r => Has(r)
      BY <2>1 DEF Has
    <3>3. execs[r] = IF Has(r) THEN 1 ELSE 0
      BY <2>1, <3>1 DEF IInv, Account
    <3>4. QED
      BY <3>2, <3>3
  <2>4. Settles(r)
    BY <1>0, <2>1
  <2> HIDE DEF q
  <2>5. QED
    BY <2>1, <2>2, <2>3, <2>4, StartSettles
<1>5. ASSUME NEW q \in Requests, Execute(q)
      PROVE  Settles(r)'
  <2>1. /\ at = "select" /\ at' = "added" /\ UNCHANGED <<host, stray>> /\ ExecCmd("add", q)
    BY <1>5 DEF Execute
  <2>2. Settles(r)
    BY <1>0, <2>1
  <2>3. QED
    BY <2>1, <2>2, StartSettles
<1>6. CASE execd_shutdown
  <2>1. stray \subseteq stray'
    BY <1>6 DEF execd_shutdown
  <2>2. QED
    BY <1>0, <1>6, <2>1, ShutdownSettles
<1>7. CASE ScriptEnds
  <2>1. stray \subseteq stray'
    BY <1>7 DEF ScriptEnds
  <2>2. QED
    BY <1>0, <1>7, <2>1, EndSettles
<1>8. QED
  BY <1>2, <1>3, <1>4, <1>5, <1>6, <1>7 DEF Next, Expire, Handle

(* When execd is gone and its scripts are done, in whatever order they     *)
(* ended, no block that has a timeout is left on the host, but for one     *)
(* whose "delete" overtook its "add" and one whose "add" was not recorded  *)
(* yet when the signal came.                                               *)
THEOREM ShutdownUndoes == Spec => []ShutdownUndoesAll
<1>1. Init => ScriptsSettle
  <2>1. SUFFICES ASSUME Init, NEW r \in Requests PROVE Settles(r)
    BY DEF ScriptsSettle
  <2>2. children = <<>> /\ host[r] = 0 /\ execs[r] = 0 /\ at # "off"
    BY <2>1 DEF Init
  <2>3. \A a, p : Running(children, a, r, p) = {}
    BY <2>2 DEF Running
  <2>4. \A p : Balance(children, r, p) = 0
    BY <2>3, FS_EmptySet DEF Balance
  <2>5. QED
    BY <2>2, <2>4 DEF Settles
<1>2. IInv /\ ScriptsSettle /\ [Next]_vars => ScriptsSettle'
  BY ScriptsStep
<1>3. ASSUME IInv, ScriptsSettle, at = "off", children = <<>>,
             NEW r \in Requests, Timeout[r.cmd] # 0
      PROVE  host[r] = 0 \/ r \in stray
  <2>1. CASE r \in stray
    BY <2>1
  <2>2. CASE Settles(r)
    <3>1. \A a, p : Running(children, a, r, p) = {}
      BY <1>3 DEF Running
    <3>2. Balance(children, r, Len(children)) = 0
      BY <3>1, FS_EmptySet DEF Balance
    <3>3. host[r] + Balance(children, r, Len(children)) <= 0
      BY <1>3, <2>2 DEF Settles
    <3>4. host[r] \in Nat
      BY <1>3, ListTypes DEF IInv, Rest
    <3>5. QED
      BY <3>2, <3>3, <3>4
  <2>3. QED
    BY <1>3, <2>1, <2>2 DEF ScriptsSettle
<1>4. IInv /\ ScriptsSettle => ShutdownUndoesAll
  BY <1>3 DEF ShutdownUndoesAll
<1>5. QED
  BY <1>1, <1>2, <1>4, Invariance, PTL DEF Spec

-----------------------------------------------------------------------------
(* II.  The log collector: LogCollector.                                   *)
-----------------------------------------------------------------------------
(* Sets of naturals: least elements, and induction on their members.      *)
LEMMA LeastElement ==
  ASSUME NEW S, S \subseteq Nat, S # {}
  PROVE  \E m \in S : \A k \in S : m <= k
<1>1. PICK m \in S : \A k \in S : ~ <<k, m>> \in OpToRel(<, Nat)
  BY NatLessThanWellFounded, WFMin
<1>2. \A k \in S : ~ (k < m)
  BY <1>1 DEF OpToRel
<1>3. QED
  BY <1>2

LEMMA UpTo ==
  ASSUME NEW n \in Nat, NEW P, 0 \in P, \A k \in 0 .. n - 1 : k \in P => k + 1 \in P
  PROVE  \A k \in 0 .. n : k \in P
<1> DEFINE out == {k \in 0 .. n : k \notin P}
<1>1. SUFFICES ASSUME out # {} PROVE FALSE
  OBVIOUS
<1>0. out \subseteq Nat
  OBVIOUS
<1>2. PICK m \in out : \A k \in out : m <= k
  <2> HIDE DEF out
  <2>1. QED
    BY <1>0, <1>1, LeastElement
<1>3. m \in 1 .. n /\ m - 1 \in 0 .. n - 1
  BY <1>2
<1>4. m - 1 \in P
  BY <1>2, <1>3
<1>5. m - 1 + 1 = m
  BY <1>3
<1>6. QED
  BY <1>2, <1>3, <1>4, <1>5

-----------------------------------------------------------------------------
(* Messages: sequences of pieces, what they say and its order.             *)
Messages == Seq(Pieces)
Said(q) == UNION {ToSet(m) : m \in ToSet(q)}
Sorted(m) == \A a, b \in 1 .. Len(m) : a < b => Before(m[a], m[b])
AllBefore(P, Q) == \A p \in P, q \in Q : Before(p, q)
RestOf(p) == [p EXCEPT !.part = 2, !.brk = "nl"]
Whole(m) == \A p \in ToSet(m) : p.brk = "none" => RestOf(p) \in ToSet(m)

LEMMA MembersOf ==
  ASSUME NEW S, NEW q \in Seq(S)
  PROVE  /\ ToSet(q) = {q[j] : j \in 1 .. Len(q)} /\ ToSet(q) \subseteq S
         /\ Len(q) \in Nat /\ DOMAIN q = 1 .. Len(q)
         /\ \A j \in 1 .. Len(q) : q[j] \in S /\ q[j] \in ToSet(q)
<1>1. Len(q) \in Nat /\ DOMAIN q = 1 .. Len(q) /\ \A j \in 1 .. Len(q) : q[j] \in S
  BY LenProperties, ElementOfSeq
<1>2. QED
  BY <1>1 DEF ToSet

LEMMA MembersOfAppend ==
  ASSUME NEW S, NEW q \in Seq(S), NEW e \in S
  PROVE  /\ Append(q, e) \in Seq(S) /\ Len(Append(q, e)) = Len(q) + 1 /\ Len(q) \in Nat
         /\ \A j \in 1 .. Len(q) : Append(q, e)[j] = q[j]
         /\ Append(q, e)[Len(q) + 1] = e
         /\ ToSet(Append(q, e)) = ToSet(q) \cup {e}
<1> DEFINE r == Append(q, e)
<1>1. /\ r \in Seq(S) /\ Len(r) = Len(q) + 1 /\ Len(q) \in Nat
      /\ \A j \in 1 .. Len(q) : r[j] = q[j]
      /\ r[Len(q) + 1] = e
  BY AppendProperties, LenProperties
<1> HIDE DEF r
<1>2. ToSet(r) = {r[j] : j \in 1 .. Len(r)} /\ ToSet(q) = {q[j] : j \in 1 .. Len(q)}
  BY <1>1, MembersOf
<1>3. ASSUME NEW x \in ToSet(r) PROVE x \in ToSet(q) \cup {e}
  <2>1. PICK j \in 1 .. Len(q) + 1 : x = r[j]
    BY <1>1, <1>2, <1>3
  <2>2. CASE j = Len(q) + 1
    BY <1>1, <2>1, <2>2
  <2>3. CASE j \in 1 .. Len(q)
    BY <1>1, <1>2, <2>1, <2>3
  <2>4. QED
    BY <1>1, <2>2, <2>3
<1>4. ASSUME NEW x \in ToSet(q) PROVE x \in ToSet(r)
  <2>1. PICK j \in 1 .. Len(q) : x = q[j]
    BY <1>2
  <2>2. j \in 1 .. Len(r) /\ r[j] = x
    BY <1>1, <2>1
  <2>3. QED
    BY <1>2, <2>2
<1>5. e \in ToSet(r)
  <2>1. Len(q) + 1 \in 1 .. Len(r)
    BY <1>1
  <2>2. QED
    BY <1>1, <1>2, <2>1
<1>6. ToSet(r) = ToSet(q) \cup {e}
  BY <1>3, <1>4, <1>5
<1>7. QED
  BY <1>1, <1>6 DEF r

LEMMA MembersOfConcat ==
  ASSUME NEW S, NEW q \in Seq(S), NEW t \in Seq(S)
  PROVE  /\ q \o t \in Seq(S) /\ Len(q \o t) = Len(q) + Len(t)
         /\ Len(q) \in Nat /\ Len(t) \in Nat
         /\ \A j \in 1 .. Len(q) : (q \o t)[j] = q[j]
         /\ \A j \in 1 .. Len(t) : (q \o t)[Len(q) + j] = t[j]
         /\ \A j \in 1 .. Len(q) + Len(t) : j > Len(q) =>
              j - Len(q) \in 1 .. Len(t) /\ (q \o t)[j] = t[j - Len(q)]
         /\ ToSet(q \o t) = ToSet(q) \cup ToSet(t)
<1> DEFINE r == q \o t
<1>0. /\ r \in Seq(S) /\ Len(r) = Len(q) + Len(t) /\ Len(q) \in Nat /\ Len(t) \in Nat
      /\ \A j \in 1 .. Len(q) + Len(t) : r[j] = IF j <= Len(q) THEN q[j] ELSE t[j - Len(q)]
  BY ConcatProperties, LenProperties
<1> HIDE DEF r
<1>1. /\ \A j \in 1 .. Len(q) : r[j] = q[j]
      /\ \A j \in 1 .. Len(q) + Len(t) : j > Len(q) =>
              j - Len(q) \in 1 .. Len(t) /\ r[j] = t[j - Len(q)]
  <2>1. ASSUME NEW j \in 1 .. Len(q) PROVE r[j] = q[j]
    <3>1. j \in 1 .. Len(q) + Len(t) /\ j <= Len(q)
      BY <1>0
    <3>2. QED
      BY <1>0, <3>1
  <2>2. ASSUME NEW j \in 1 .. Len(q) + Len(t), j > Len(q)
        PROVE  j - Len(q) \in 1 .. Len(t) /\ r[j] = t[j - Len(q)]
    <3>1. j - Len(q) \in 1 .. Len(t) /\ ~ (j <= Len(q))
      BY <1>0, <2>2
    <3>2. QED
      BY <1>0, <3>1
  <2>3. QED
    BY <2>1, <2>2
<1>2. ASSUME NEW j \in 1 .. Len(t) PROVE r[Len(q) + j] = t[j]
  <2>1. Len(q) + j \in 1 .. Len(q) + Len(t) /\ Len(q) + j > Len(q) /\ (Len(q) + j) - Len(q) = j
    BY <1>0
  <2>2. QED
    BY <1>1, <2>1
<1>3. /\ ToSet(r) = {r[j] : j \in 1 .. Len(r)} /\ ToSet(q) = {q[j] : j \in 1 .. Len(q)}
      /\ ToSet(t) = {t[j] : j \in 1 .. Len(t)}
  BY <1>0, MembersOf
<1>4. ASSUME NEW x \in ToSet(r) PROVE x \in ToSet(q) \cup ToSet(t)
  <2>1. PICK j \in 1 .. Len(q) + Len(t) : x = r[j]
    BY <1>0, <1>3, <1>4
  <2>2. CASE j \in 1 .. Len(q)
    BY <1>1, <1>3, <2>1, <2>2
  <2>3. CASE j > Len(q)
    BY <1>1, <1>3, <2>1, <2>3
  <2>4. QED
    BY <1>0, <2>2, <2>3
<1>5. ASSUME NEW x \in ToSet(q) PROVE x \in ToSet(r)
  <2>1. PICK j \in 1 .. Len(q) : x = q[j]
    BY <1>3
  <2>2. j \in 1 .. Len(r) /\ r[j] = x
    BY <1>0, <1>1, <2>1
  <2>3. QED
    BY <1>3, <2>2
<1>6. ASSUME NEW x \in ToSet(t) PROVE x \in ToSet(r)
  <2>1. PICK j \in 1 .. Len(t) : x = t[j]
    BY <1>3
  <2>2. Len(q) + j \in 1 .. Len(r) /\ r[Len(q) + j] = x
    BY <1>0, <1>2, <2>1
  <2>3. QED
    BY <1>3, <2>2
<1>7. ToSet(r) = ToSet(q) \cup ToSet(t)
  BY <1>4, <1>5, <1>6
<1>8. QED
  BY <1>0, <1>1, <1>2, <1>7 DEF r

LEMMA SaidIs ==
  ASSUME NEW q \in Seq(Messages)
  PROVE  /\ Len(q) \in Nat /\ DOMAIN q = 1 .. Len(q)
         /\ \A j \in 1 .. Len(q) : /\ q[j] \in Messages
                                   /\ Len(q[j]) \in Nat /\ DOMAIN q[j] = 1 .. Len(q[j])
                                   /\ \A a \in 1 .. Len(q[j]) :
                                        q[j][a] \in Pieces /\ q[j][a] \in Said(q)
         /\ \A p \in Said(q) : \E j \in 1 .. Len(q) : \E a \in 1 .. Len(q[j]) : p = q[j][a]
<1>1. /\ ToSet(q) = {q[j] : j \in 1 .. Len(q)}
      /\ Len(q) \in Nat /\ DOMAIN q = 1 .. Len(q)
      /\ \A j \in 1 .. Len(q) : q[j] \in Messages /\ q[j] \in ToSet(q)
  BY MembersOf
<1>2. ASSUME NEW m \in Messages
      PROVE  /\ ToSet(m) = {m[a] : a \in 1 .. Len(m)}
             /\ Len(m) \in Nat /\ DOMAIN m = 1 .. Len(m)
             /\ \A a \in 1 .. Len(m) : m[a] \in Pieces /\ m[a] \in ToSet(m)
  BY MembersOf DEF Messages
<1>3. ASSUME NEW p \in Said(q)
      PROVE  \E j \in 1 .. Len(q) : \E a \in 1 .. Len(q[j]) : p = q[j][a]
  <2>1. PICK m \in ToSet(q) : p \in ToSet(m)
    BY DEF Said
  <2>2. PICK j \in 1 .. Len(q) : m = q[j]
    BY <1>1
  <2>3. QED
    BY <1>1, <1>2, <2>1, <2>2
<1>4. ASSUME NEW j \in 1 .. Len(q), NEW a \in 1 .. Len(q[j])
      PROVE  q[j][a] \in Pieces /\ q[j][a] \in Said(q)
  BY <1>1, <1>2 DEF Said
<1>5. QED
  BY <1>1, <1>2, <1>3, <1>4

LEMMA SaidAppend ==
  ASSUME NEW q \in Seq(Messages), NEW m \in Messages
  PROVE  Said(Append(q, m)) = Said(q) \cup ToSet(m)
<1>1. ToSet(Append(q, m)) = ToSet(q) \cup {m}
  BY MembersOfAppend
<1>2. QED
  BY <1>1 DEF Said

LEMMA SaidConcat ==
  ASSUME NEW q \in Seq(Messages), NEW t \in Seq(Messages)
  PROVE  Said(q \o t) = Said(q) \cup Said(t)
<1>1. ToSet(q \o t) = ToSet(q) \cup ToSet(t)
  BY MembersOfConcat
<1>2. QED
  BY <1>1 DEF Said

LEMMA SaidNothing == Said(<<>>) = {} /\ ToSet(<<>>) = {} /\ <<>> \in Seq(Messages) /\ <<>> \in Messages
BY DEF Said, ToSet, Messages

(* Order.                                                                  *)
LEMMA InOrderIs ==
  ASSUME NEW q \in Seq(Messages)
  PROVE  InOrder(q) <=>
           /\ \A j \in 1 .. Len(q) : Sorted(q[j])
           /\ \A j, k \in 1 .. Len(q) : j < k =>
                \A a \in 1 .. Len(q[j]), b \in 1 .. Len(q[k]) : Before(q[j][a], q[k][b])
<1>1. /\ Len(q) \in Nat /\ DOMAIN q = 1 .. Len(q)
      /\ \A j \in 1 .. Len(q) : DOMAIN q[j] = 1 .. Len(q[j])
  BY SaidIs
<1>2. ASSUME InOrder(q), NEW j \in 1 .. Len(q) PROVE Sorted(q[j])
  BY <1>1, <1>2 DEF InOrder, Sorted
<1>3. ASSUME InOrder(q), NEW j \in 1 .. Len(q), NEW k \in 1 .. Len(q), j < k,
             NEW a \in 1 .. Len(q[j]), NEW b \in 1 .. Len(q[k])
      PROVE  Before(q[j][a], q[k][b])
  BY <1>1, <1>3 DEF InOrder
<1>4. ASSUME \A j \in 1 .. Len(q) : Sorted(q[j]),
             \A j, k \in 1 .. Len(q) : j < k =>
                \A a \in 1 .. Len(q[j]), b \in 1 .. Len(q[k]) : Before(q[j][a], q[k][b])
      PROVE  InOrder(q)
  <2>1. SUFFICES ASSUME NEW j \in 1 .. Len(q), NEW k \in 1 .. Len(q),
                        NEW a \in 1 .. Len(q[j]), NEW b \in 1 .. Len(q[k]),
                        j < k \/ (j = k /\ a < b)
                 PROVE  Before(q[j][a], q[k][b])
    BY <1>1 DEF InOrder
  <2>2. CASE j < k
    BY <1>4, <2>2
  <2>3. CASE j = k /\ a < b
    BY <1>4, <2>3 DEF Sorted
  <2>4. QED
    BY <2>1, <2>2, <2>3
<1>5. QED
  BY <1>2, <1>3, <1>4

LEMMA InOrderAppend ==
  ASSUME NEW q \in Seq(Messages), NEW m \in Messages,
         InOrder(q), Sorted(m), AllBefore(Said(q), ToSet(m))
  PROVE  InOrder(Append(q, m))
<1> DEFINE r == Append(q, m)
<1>1. /\ r \in Seq(Messages) /\ Len(r) = Len(q) + 1 /\ Len(q) \in Nat
      /\ \A j \in 1 .. Len(q) : r[j] = q[j]
      /\ r[Len(q) + 1] = m
  BY MembersOfAppend
<1> HIDE DEF r
<1>2. \A j \in 1 .. Len(r) : Sorted(r[j])
  BY <1>1, InOrderIs
<1>3. ASSUME NEW j \in 1 .. Len(r), NEW k \in 1 .. Len(r), j < k,
             NEW a \in 1 .. Len(r[j]), NEW b \in 1 .. Len(r[k])
      PROVE  Before(r[j][a], r[k][b])
  <2>1. j \in 1 .. Len(q) /\ r[j] = q[j]
    BY <1>1, <1>3
  <2>2. CASE k \in 1 .. Len(q)
    BY <1>1, <1>3, <2>1, <2>2, InOrderIs
  <2>3. CASE k = Len(q) + 1
    <3>1. r[j][a] \in Said(q)
      BY <1>3, <2>1, SaidIs
    <3>2. r[k] = m /\ b \in 1 .. Len(m)
      BY <1>1, <1>3, <2>3
    <3>3. r[k][b] \in ToSet(m)
      BY <3>2, MembersOf DEF Messages
    <3>4. QED
      BY <3>1, <3>3 DEF AllBefore
  <2>4. k \in 1 .. Len(q) \/ k = Len(q) + 1
    BY <1>1
  <2>5. QED
    BY <2>2, <2>3, <2>4
<1>4. InOrder(r)
  BY <1>1, <1>2, <1>3, InOrderIs
<1>5. QED
  BY <1>4 DEF r

LEMMA SortedConcat ==
  ASSUME NEW m \in Messages, NEW n \in Messages, Sorted(m), Sorted(n), AllBefore(ToSet(m), ToSet(n))
  PROVE  Sorted(m \o n)
<1> DEFINE r == m \o n
<1>1. /\ Len(r) = Len(m) + Len(n) /\ Len(m) \in Nat /\ Len(n) \in Nat
      /\ \A j \in 1 .. Len(m) : r[j] = m[j]
      /\ \A j \in 1 .. Len(m) + Len(n) : j > Len(m) =>
              j - Len(m) \in 1 .. Len(n) /\ r[j] = n[j - Len(m)]
  BY MembersOfConcat DEF Messages
<1>2. /\ \A j \in 1 .. Len(m) : m[j] \in ToSet(m)
      /\ \A j \in 1 .. Len(n) : n[j] \in ToSet(n)
  BY MembersOf DEF Messages
<1> HIDE DEF r
<1>3. ASSUME NEW a \in 1 .. Len(r), NEW b \in 1 .. Len(r), a < b PROVE Before(r[a], r[b])
  <2>1. CASE b \in 1 .. Len(m)
    <3>1. a \in 1 .. Len(m)
      BY <1>1, <1>3, <2>1
    <3>2. QED
      BY <1>1, <1>3, <2>1, <3>1 DEF Sorted
  <2>2. CASE a > Len(m)
    <3>1. b > Len(m) /\ a - Len(m) < b - Len(m)
      BY <1>1, <1>3, <2>2
    <3>2. a - Len(m) \in 1 .. Len(n) /\ b - Len(m) \in 1 .. Len(n)
          /\ r[a] = n[a - Len(m)] /\ r[b] = n[b - Len(m)]
      BY <1>1, <2>2, <3>1
    <3>3. QED
      BY <3>1, <3>2 DEF Sorted
  <2>3. CASE a \in 1 .. Len(m) /\ b > Len(m)
    <3>1. r[a] \in ToSet(m) /\ r[b] \in ToSet(n)
      BY <1>1, <1>2, <2>3
    <3>2. QED
      BY <3>1 DEF AllBefore
  <2>4. QED
    BY <1>1, <2>1, <2>2, <2>3
<1>4. QED
  BY <1>3 DEF r, Sorted

LEMMA InOrderConcat ==
  ASSUME NEW q \in Seq(Messages), NEW t \in Seq(Messages),
         InOrder(q), InOrder(t), AllBefore(Said(q), Said(t))
  PROVE  InOrder(q \o t)
<1> DEFINE r == q \o t
<1>1. /\ r \in Seq(Messages)
      /\ Len(r) = Len(q) + Len(t) /\ Len(q) \in Nat /\ Len(t) \in Nat
      /\ \A j \in 1 .. Len(q) : r[j] = q[j]
      /\ \A j \in 1 .. Len(q) + Len(t) : j > Len(q) =>
              j - Len(q) \in 1 .. Len(t) /\ r[j] = t[j - Len(q)]
  BY MembersOfConcat
<1> HIDE DEF r
<1>2. ASSUME NEW j \in 1 .. Len(r) PROVE Sorted(r[j])
  <2>1. CASE j \in 1 .. Len(q)
    BY <1>1, <2>1, InOrderIs
  <2>2. CASE j > Len(q)
    BY <1>1, <2>2, InOrderIs
  <2>3. QED
    BY <1>1, <2>1, <2>2
<1>3. ASSUME NEW j \in 1 .. Len(r), NEW k \in 1 .. Len(r), j < k,
             NEW a \in 1 .. Len(r[j]), NEW b \in 1 .. Len(r[k])
      PROVE  Before(r[j][a], r[k][b])
  <2>1. CASE k \in 1 .. Len(q)
    <3>1. j \in 1 .. Len(q)
      BY <1>1, <1>3, <2>1
    <3>2. r[j] = q[j] /\ r[k] = q[k]
      BY <1>1, <2>1, <3>1
    <3>3. QED
      BY <1>3, <2>1, <3>1, <3>2, InOrderIs
  <2>2. CASE j > Len(q)
    <3>1. k > Len(q) /\ j - Len(q) < k - Len(q)
      BY <1>1, <1>3, <2>2
    <3>2. j - Len(q) \in 1 .. Len(t) /\ k - Len(q) \in 1 .. Len(t)
          /\ r[j] = t[j - Len(q)] /\ r[k] = t[k - Len(q)]
      BY <1>1, <2>2, <3>1
    <3>3. QED
      BY <1>3, <3>1, <3>2, InOrderIs
  <2>3. CASE j \in 1 .. Len(q) /\ k > Len(q)
    <3>1. r[j] = q[j] /\ k - Len(q) \in 1 .. Len(t) /\ r[k] = t[k - Len(q)]
      BY <1>1, <2>3
    <3>2. r[j][a] \in Said(q)
      BY <1>3, <2>3, <3>1, SaidIs
    <3>3. r[k][b] \in Said(t)
      BY <1>3, <3>1, SaidIs
    <3>4. QED
      BY <3>2, <3>3 DEF AllBefore
  <2>4. QED
    BY <1>1, <2>1, <2>2, <2>3
<1>4. InOrder(r)
  BY <1>1, <1>2, <1>3, InOrderIs
<1>5. QED
  BY <1>4 DEF r

-----------------------------------------------------------------------------
(* What a file holds: pieces in the order they were written, the second    *)
(* part of a line behind the first; Part is what lies between two places   *)
(* of it, Passes is MayPassOver for it.                                    *)
FileOf(f, s) ==
  /\ s \in Messages
  /\ Sorted(s)
  /\ \A k \in 1 .. Len(s) : s[k].brk # "nl" =>
       s[k].part = 1 /\ (k < Len(s) => s[k + 1] = RestOf(s[k]))
  /\ \A k \in 1 .. Len(s) : s[k].part = 2 => k - 1 \in 1 .. Len(s) /\ s[k - 1].brk # "nl"
  /\ \A k \in 1 .. Len(s) : /\ s[k].kind = "last" => f = "snort-full"
                            /\ s[k].kind = "wide" => f # "snort-full"

Part(s, j, k) == {s[x] : x \in j + 1 .. k}

Passes(f, s, p) ==
  \/ f \in {"multiline", "snort-full"}
  \/ f \in {"mysql_log", "postgresql_log"} /\ (p.part = 2 \/ p.kind \in {"more", "wide"})
  \/ f = "multi-line_indented" /\ (p.kind = "wide" \/ (p.kind = "more" /\ p.brk = "full"))
  \/ f = "audit" /\ (IsCut(ToSet(s), p) \/ BeyondCache(ToSet(s), p))

(* Where the string begins that ends with piece k of a file read from the  *)
(* place from, and what that string is.                                    *)
Beginning(s, from, k) == IF k - 1 > from /\ s[k - 1].brk = "none" THEN k - 1 ELSE k

String(s, b, k, g) ==
  /\ g.pieces \in Messages /\ g.pieces # <<>> /\ Sorted(g.pieces)
  /\ ToSet(g.pieces) = Part(s, b - 1, k)
  /\ g.kind = s[b].kind /\ g.part = s[b].part /\ g.brk = s[k].brk /\ g.to = k
  /\ b = k \/ (b = k - 1 /\ s[b].brk = "none" /\ s[k] = RestOf(s[b]))

LEMMA PieceFields ==
  ASSUME NEW p \in Pieces
  PROVE  /\ p.line \in Nat /\ p.part \in {1, 2} /\ p.kind \in {"new", "more", "wide", "last"}
         /\ p.brk \in {"nl", "full", "none"}
         /\ RestOf(p) \in Pieces /\ RestOf(p).line = p.line /\ RestOf(p).kind = p.kind
         /\ RestOf(p).part = 2 /\ RestOf(p).brk = "nl"
<1>1. /\ p.line \in 1 .. MaxLines /\ p.part \in {1, 2} /\ p.kind \in {"new", "more", "wide", "last"}
      /\ p.brk \in {"nl", "full", "none"}
      /\ p = [line |-> p.line, part |-> p.part, kind |-> p.kind, brk |-> p.brk]
  BY DEF Pieces
<1>2. /\ RestOf(p) \in Pieces /\ RestOf(p).line = p.line /\ RestOf(p).kind = p.kind
      /\ RestOf(p).part = 2 /\ RestOf(p).brk = "nl"
  BY DEF Pieces, RestOf
<1>3. MaxLines \in Nat
  BY CollectorAssumption
<1>4. QED
  BY <1>1, <1>2, <1>3

LEMMA BeforeIsStrict ==
  ASSUME NEW p \in Pieces
  PROVE  ~ Before(p, p)
BY PieceFields DEF Before

LEMMA FilePieces ==
  ASSUME NEW f, NEW s, FileOf(f, s)
  PROVE  /\ Len(s) \in Nat /\ s \in Messages /\ Sorted(s)
         /\ \A k \in 1 .. Len(s) : s[k] \in Pieces /\ s[k] \in ToSet(s)
         /\ ToSet(s) = {s[k] : k \in 1 .. Len(s)} /\ ToSet(s) = Part(s, 0, Len(s))
BY MembersOf DEF FileOf, Messages, Part

LEMMA FileParts ==
  ASSUME NEW f, NEW s, FileOf(f, s), NEW i \in Nat, NEW j \in Nat, NEW k \in Nat,
         i <= j, j <= k, k <= Len(s)
  PROVE  /\ Part(s, i, j) \subseteq Pieces
         /\ Part(s, i, k) = Part(s, i, j) \cup Part(s, j, k)
         /\ AllBefore(Part(s, i, j), Part(s, j, k))
<1>1. Len(s) \in Nat /\ Sorted(s) /\ \A x \in 1 .. Len(s) : s[x] \in Pieces
  BY FilePieces
<1>2. Part(s, i, j) \subseteq Pieces
  BY <1>1 DEF Part
<1>3. Part(s, i, k) = Part(s, i, j) \cup Part(s, j, k)
  <2>1. \A x \in i + 1 .. k : x \in i + 1 .. j \/ x \in j + 1 .. k
    OBVIOUS
  <2>2. /\ \A x \in i + 1 .. j : x \in i + 1 .. k
        /\ \A x \in j + 1 .. k : x \in i + 1 .. k
    OBVIOUS
  <2>3. QED
    BY <2>1, <2>2 DEF Part
<1>4. ASSUME NEW p \in Part(s, i, j), NEW q \in Part(s, j, k) PROVE Before(p, q)
  <2>1. PICK x \in i + 1 .. j : p = s[x]
    BY DEF Part
  <2>2. PICK y \in j + 1 .. k : q = s[y]
    BY DEF Part
  <2>3. x \in 1 .. Len(s) /\ y \in 1 .. Len(s) /\ x < y
    BY <1>1
  <2>4. QED
    BY <1>1, <2>1, <2>2, <2>3 DEF Sorted
<1>5. QED
  BY <1>2, <1>3, <1>4 DEF AllBefore

LEMMA StringIs ==
  ASSUME NEW f, NEW s, FileOf(f, s), NEW from \in Nat, NEW k \in from + 1 .. Len(s)
  PROVE  /\ Beginning(s, from, k) \in from + 1 .. k
         /\ String(s, Beginning(s, from, k), k, fgets(s, from, k))
<1> DEFINE b == Beginning(s, from, k)
           g == fgets(s, from, k)
<1>1. Len(s) \in Nat /\ Sorted(s) /\ \A x \in 1 .. Len(s) : s[x] \in Pieces
  BY FilePieces
<1>2. /\ b \in from + 1 .. k
      /\ b = k \/ (b = k - 1 /\ s[b].brk = "none")
  BY DEF Beginning
<1>3. /\ g.pieces = [j \in 1 .. (k - b) + 1 |-> s[(b + j) - 1]]
      /\ g.kind = s[b].kind /\ g.part = s[b].part /\ g.brk = s[k].brk /\ g.to = k
  BY DEF fgets, Beginning
<1> HIDE DEF b, g
<1> DEFINE n == (k - b) + 1
           m == [j \in 1 .. n |-> s[(b + j) - 1]]
<1>4. n \in Nat /\ n >= 1
  BY <1>2
<1>5. \A j \in 1 .. n : (b + j) - 1 \in b .. k /\ (b + j) - 1 \in 1 .. Len(s)
  BY <1>1, <1>2
<1>6. m \in Messages /\ Len(m) = n
  BY <1>1, <1>4, <1>5 DEF Messages
<1>14. \A j \in 1 .. n : m[j] = s[(b + j) - 1]
  OBVIOUS
<1>7. Sorted(m)
  <2>1. SUFFICES ASSUME NEW i \in 1 .. n, NEW j \in 1 .. n, i < j PROVE Before(m[i], m[j])
    BY <1>6 DEF Sorted
  <2>2. (b + i) - 1 < (b + j) - 1
    BY <1>2, <2>1
  <2>3. QED
    BY <1>1, <1>5, <1>14, <2>1, <2>2 DEF Sorted
<1>8. ToSet(m) = Part(s, b - 1, k)
  <2>1. ToSet(m) = {m[j] : j \in 1 .. n}
    <3> HIDE DEF m, n
    <3>1. QED
      BY <1>6, MembersOf DEF Messages
  <2>2. \A x \in (b - 1) + 1 .. k : (x - b) + 1 \in 1 .. n /\ (b + ((x - b) + 1)) - 1 = x
    BY <1>2
  <2>3. \A j \in 1 .. n : (b + j) - 1 \in (b - 1) + 1 .. k
    BY <1>2
  <2> HIDE DEF m, n
  <2>4. Part(s, b - 1, k) \subseteq ToSet(m)
    <3>1. SUFFICES ASSUME NEW x \in (b - 1) + 1 .. k PROVE s[x] \in ToSet(m)
      BY DEF Part
    <3>2. m[(x - b) + 1] = s[x]
      BY <1>14, <2>2
    <3>3. QED
      BY <2>1, <2>2, <3>2
  <2>5. ToSet(m) \subseteq Part(s, b - 1, k)
    <3>1. SUFFICES ASSUME NEW j \in 1 .. n PROVE m[j] \in Part(s, b - 1, k)
      BY <2>1
    <3>2. QED
      BY <1>14, <2>3 DEF Part
  <2>6. QED
    BY <2>4, <2>5
<1>9. m # <<>>
  BY <1>4, <1>6
<1>10. b = k - 1 /\ s[b].brk = "none" => s[k] = RestOf(s[b])
  <2>1. SUFFICES ASSUME b = k - 1, s[b].brk = "none" PROVE s[k] = RestOf(s[b])
    OBVIOUS
  <2>2. b \in 1 .. Len(s) /\ b < Len(s) /\ b + 1 = k
    BY <1>1, <1>2, <2>1
  <2>3. QED
    BY <2>1, <2>2 DEF FileOf
<1>11. g.pieces = m
  BY <1>3
<1> HIDE DEF m, n
<1>12. String(s, b, k, g)
  BY <1>2, <1>3, <1>6, <1>7, <1>8, <1>9, <1>10, <1>11 DEF String
<1>13. QED
  BY <1>2, <1>12 DEF b, g

-----------------------------------------------------------------------------
(* What a reader holds of the pieces of s from the place from to the place *)
(* d: the messages sent and what is gathered for the next one.             *)
Holding == {"multiline", "audit", "snort-full"}

(* The readers that throw the rest of a cut line away.                     *)
Clearing == {"audit", "mysql_log", "postgresql_log"}

Core(f, s, from, d, snt, buf) ==
  /\ snt \in Seq(Messages) /\ buf \in Messages
  /\ \A m \in ToSet(snt) : m # <<>>
  /\ InOrder(snt) /\ Sorted(buf) /\ AllBefore(Said(snt), ToSet(buf))
  /\ Said(snt) \cup ToSet(buf) \subseteq Part(s, from, d)
  /\ f \in Holding => Whole(buf) /\ \A m \in ToSet(snt) : Whole(m)

LEMMA NothingSorted == Sorted(<<>>) /\ Whole(<<>>) /\ \A P : AllBefore(P, ToSet(<<>>))
BY SaidNothing DEF Sorted, Whole, AllBefore

LEMMA CoreStart ==
  ASSUME NEW f, NEW s, NEW from, NEW d
  PROVE  Core(f, s, from, d, <<>>, <<>>)
<1>1. InOrder(<<>>)
  BY DEF InOrder
<1>2. QED
  BY <1>1, SaidNothing, NothingSorted DEF Core

LEMMA CoreLater ==
  ASSUME NEW f, NEW s, FileOf(f, s), NEW from \in Nat, NEW d \in Nat, NEW e \in Nat,
         from <= d, d <= e, e <= Len(s), NEW snt, NEW buf, Core(f, s, from, d, snt, buf)
  PROVE  Core(f, s, from, e, snt, buf)
<1>1. Part(s, from, d) \subseteq Part(s, from, e)
  BY FileParts
<1>2. QED
  BY <1>1 DEF Core

LEMMA CoreDrop ==
  ASSUME NEW f, NEW s, NEW from, NEW d, NEW snt, NEW buf, Core(f, s, from, d, snt, buf)
  PROVE  Core(f, s, from, d, snt, <<>>)
BY SaidNothing, NothingSorted DEF Core

LEMMA CoreFlush ==
  ASSUME NEW f, NEW s, NEW from, NEW d, NEW snt, NEW buf, Core(f, s, from, d, snt, buf),
         buf # <<>>
  PROVE  /\ Core(f, s, from, d, Append(snt, buf), <<>>)
         /\ Said(Append(snt, buf)) = Said(snt) \cup ToSet(buf)
<1>1. snt \in Seq(Messages) /\ buf \in Messages
  BY DEF Core
<1>2. Said(Append(snt, buf)) = Said(snt) \cup ToSet(buf)
  BY <1>1, SaidAppend
<1>3. Append(snt, buf) \in Seq(Messages) /\ ToSet(Append(snt, buf)) = ToSet(snt) \cup {buf}
  BY <1>1, MembersOfAppend
<1>4. InOrder(Append(snt, buf))
  BY <1>1, InOrderAppend DEF Core
<1>5. \A m \in ToSet(Append(snt, buf)) : m # <<>>
  BY <1>3 DEF Core
<1>6. f \in Holding => \A m \in ToSet(Append(snt, buf)) : Whole(m)
  BY <1>3 DEF Core
<1>7. Said(Append(snt, buf)) \cup ToSet(<<>>) \subseteq Part(s, from, d)
  BY <1>2, SaidNothing DEF Core
<1>8. QED
  BY <1>2, <1>3, <1>4, <1>5, <1>6, <1>7, SaidNothing, NothingSorted DEF Core

LEMMA StringWhole ==
  ASSUME NEW f, NEW s, FileOf(f, s), NEW from \in Nat, NEW k \in from + 1 .. Len(s),
         NEW b \in from + 1 .. k, NEW g, String(s, b, k, g), g.brk # "none"
  PROVE  Whole(g.pieces)
<1>1. ToSet(g.pieces) = Part(s, b - 1, k) /\ g.brk = s[k].brk
      /\ (b = k \/ (b = k - 1 /\ s[b].brk = "none" /\ s[k] = RestOf(s[b])))
  BY DEF String
<1>2. ASSUME NEW p \in Part(s, b - 1, k), p.brk = "none" PROVE RestOf(p) \in Part(s, b - 1, k)
  <2>1. PICK x \in (b - 1) + 1 .. k : p = s[x]
    BY DEF Part
  <2>2. x # k
    BY <1>1, <1>2, <2>1
  <2>3. x = b /\ s[k] = RestOf(s[b]) /\ k \in (b - 1) + 1 .. k
    BY <1>1, <2>1, <2>2
  <2>4. QED
    BY <2>1, <2>3 DEF Part
<1>3. QED
  BY <1>1, <1>2 DEF Whole

LEMMA CoreKeep ==
  ASSUME NEW f, NEW s, FileOf(f, s), NEW from \in Nat, NEW k \in from + 1 .. Len(s),
         NEW b \in from + 1 .. k, NEW g, String(s, b, k, g), f \in Holding => g.brk # "none",
         NEW snt, NEW buf, Core(f, s, from, b - 1, snt, buf)
  PROVE  /\ Core(f, s, from, k, snt, buf \o g.pieces)
         /\ buf \o g.pieces # <<>>
         /\ ToSet(buf \o g.pieces) = ToSet(buf) \cup Part(s, b - 1, k)
<1>1. snt \in Seq(Messages) /\ buf \in Messages /\ g.pieces \in Messages
  BY DEF Core, String
<1>2. /\ buf \o g.pieces \in Messages
      /\ ToSet(buf \o g.pieces) = ToSet(buf) \cup Part(s, b - 1, k)
      /\ Len(buf \o g.pieces) = Len(buf) + Len(g.pieces)
      /\ Len(buf) \in Nat /\ Len(g.pieces) \in Nat
  BY <1>1, MembersOfConcat DEF Messages, String
<1>3. g.pieces # <<>> /\ Sorted(g.pieces) /\ ToSet(g.pieces) = Part(s, b - 1, k)
  BY DEF String
<1>4. /\ Part(s, from, k) = Part(s, from, b - 1) \cup Part(s, b - 1, k)
      /\ AllBefore(Part(s, from, b - 1), Part(s, b - 1, k))
  <2>1. b - 1 \in Nat /\ from <= b - 1 /\ b - 1 <= k /\ k \in Nat /\ k <= Len(s)
    BY FilePieces
  <2>2. QED
    BY <2>1, FileParts
<1>5. Sorted(buf \o g.pieces)
  <2>1. AllBefore(ToSet(buf), ToSet(g.pieces))
    BY <1>3, <1>4 DEF Core, AllBefore
  <2>2. QED
    BY <1>1, <1>3, <2>1, SortedConcat DEF Core
<1>6. AllBefore(Said(snt), ToSet(buf \o g.pieces))
  BY <1>2, <1>4 DEF Core, AllBefore
<1>7. Said(snt) \cup ToSet(buf \o g.pieces) \subseteq Part(s, from, k)
  BY <1>2, <1>4 DEF Core
<1>8. f \in Holding => Whole(buf \o g.pieces)
  <2>1. SUFFICES ASSUME f \in Holding PROVE Whole(buf \o g.pieces)
    OBVIOUS
  <2>2. Whole(buf) /\ Whole(g.pieces)
    BY <2>1, StringWhole DEF Core
  <2>3. QED
    BY <1>2, <1>3, <2>2 DEF Whole
<1>9. buf \o g.pieces # <<>>
  <2>1. Len(g.pieces) # 0
    BY <1>1, <1>3, EmptySeq DEF Messages
  <2>2. Len(buf \o g.pieces) # 0
    BY <1>2, <2>1
  <2>3. QED
    BY <2>2
<1>10. QED
  BY <1>1, <1>2, <1>5, <1>6, <1>7, <1>8, <1>9 DEF Core

-----------------------------------------------------------------------------
(* What a reader keeps between two strings: it holds pieces of the file up *)
(* to the place d, where the next string begins.                           *)
ReaderState ==
  [sent : Seq(Messages), buf : Messages, pos : Nat, mark : Nat, got : Nat,
   ms : BOOLEAN, clear : BOOLEAN, stop : BOOLEAN, rc : {0, 1}]

Held(st) == Said(st.sent) \cup ToSet(st.buf)

(* Said before the place that the reader may put the file back to.         *)
Safe(f, d, st) == IF f = "multiline" THEN st.mark ELSE d

(* The lines of the event that read_audit is putting together, which ends  *)
(* at the place d: there are at least n since the piece y, and none of      *)
(* them starts another.                                                    *)
CacheRun(s, d, n) ==
  d \in 1 .. Len(s) /\ \E y \in 1 .. d :
    /\ s[y].line + n <= s[d].line + 1
    /\ \A x \in 1 .. d : s[y].line < s[x].line => s[x].kind # "new"

Kept(f, s, from, d, st) ==
  /\ st \in ReaderState
  /\ Core(f, s, from, d, st.sent, st.buf)
  /\ from <= st.mark /\ st.mark <= st.pos /\ st.pos <= d
  /\ ~ st.stop => st.pos = d
  /\ st.stop => f \in Holding
  /\ st.rc # 0 => f = "snort-full"
  /\ f # "audit" => Said(st.sent) \subseteq Part(s, from, Safe(f, st.pos, st))
  /\ \A p \in Part(s, from, st.pos) : p \in Held(st) \/ Passes(f, s, p)
  /\ f \in {"syslog", "mysql_log"} => st.buf = <<>>
  /\ f \in Clearing /\ st.clear /\ ~ st.stop => d \in 1 .. Len(s) /\ s[d].brk # "nl"
  /\ f = "audit" /\ ~ st.clear /\ ~ st.stop /\ st.buf # <<>> => CacheRun(s, d, st.got)

(* The same with the string g in hand, from piece b to piece k.            *)
InHand(f, s, from, b, k, g, st) ==
  /\ FileOf(f, s) /\ from \in Nat /\ k \in from + 1 .. Len(s) /\ b \in from + 1 .. k
  /\ String(s, b, k, g)
  /\ st \in ReaderState
  /\ Core(f, s, from, b - 1, st.sent, st.buf)
  /\ from <= st.mark /\ st.mark <= b - 1 /\ st.pos = k /\ st.stop = FALSE
  /\ st.rc # 0 => f = "snort-full"
  /\ f # "audit" => Said(st.sent) \subseteq Part(s, from, Safe(f, b - 1, st))
  /\ \A p \in Part(s, from, b - 1) : p \in Held(st) \/ Passes(f, s, p)
  /\ f \in {"syslog", "mysql_log"} => st.buf = <<>>
  /\ f \in Clearing /\ st.clear => b - 1 \in 1 .. Len(s) /\ s[b - 1].brk # "nl"
  /\ f = "audit" /\ ~ st.clear /\ st.buf # <<>> => CacheRun(s, b - 1, st.got)

LEMMA TakenInHand ==
  ASSUME NEW f, NEW s, FileOf(f, s), NEW from \in Nat, NEW k \in from + 1 .. Len(s),
         NEW b \in from + 1 .. k, NEW g, String(s, b, k, g),
         NEW st, Kept(f, s, from, b - 1, st), ~ st.stop
  PROVE  InHand(f, s, from, b, k, g, [st EXCEPT !.pos = g.to])
<1> DEFINE t == [st EXCEPT !.pos = g.to]
<1>1. st \in ReaderState /\ g.to = k /\ k \in Nat /\ st.stop = FALSE /\ st.pos = b - 1
  BY FilePieces DEF Kept, String, ReaderState
<1>2. /\ t \in ReaderState /\ t.sent = st.sent /\ t.buf = st.buf /\ t.pos = k /\ t.mark = st.mark
      /\ t.clear = st.clear /\ t.stop = FALSE /\ t.rc = st.rc /\ t.got = st.got
  BY <1>1 DEF ReaderState
<1> HIDE DEF t
<1>3. Held(t) = Held(st) /\ Safe(f, b - 1, t) = Safe(f, b - 1, st)
  BY <1>2 DEF Held, Safe
<1>4. InHand(f, s, from, b, k, g, t)
  BY <1>1, <1>2, <1>3 DEF Kept, InHand
<1>5. QED
  BY <1>4 DEF t

(* The parts of the file around the string in hand.                        *)
LEMMA HandParts ==
  ASSUME NEW f, NEW s, NEW from, NEW b, NEW k, NEW g, NEW st, InHand(f, s, from, b, k, g, st)
  PROVE  /\ from \in Nat /\ k \in Nat /\ b \in Nat /\ Len(s) \in Nat
         /\ from < b /\ b <= k /\ k <= Len(s)
         /\ Part(s, from, k) = Part(s, from, b - 1) \cup Part(s, b - 1, k)
         /\ Core(f, s, from, k, st.sent, st.buf)
         /\ f # "audit" => Said(st.sent) \subseteq Part(s, from, k)
         /\ f \notin {"multiline", "audit"} => Said(st.sent) \subseteq Part(s, from, b - 1)
         /\ st.mark \in Nat /\ st.mark <= k
         /\ s[b] \in Pieces /\ s[k] \in Pieces
         /\ Part(s, b - 1, k) = {s[b], s[k]}
         /\ s[b].part = 2 => b - 1 \in 1 .. Len(s) /\ s[b - 1].brk # "nl"
         /\ b # k => b = k - 1 /\ s[b].brk = "none" /\ s[k] = RestOf(s[b])
<1>1. Len(s) \in Nat /\ \A x \in 1 .. Len(s) : s[x] \in Pieces
  BY FilePieces DEF InHand
<1>2. /\ from \in Nat /\ k \in Nat /\ b \in Nat /\ from < b /\ b <= k /\ k <= Len(s)
      /\ st.mark \in Nat /\ from <= st.mark /\ st.mark <= b - 1 /\ b - 1 \in Nat /\ b - 1 <= k
      /\ from <= b - 1
  BY <1>1 DEF InHand, ReaderState
<1>3. Part(s, from, k) = Part(s, from, b - 1) \cup Part(s, b - 1, k)
  BY <1>2, FileParts DEF InHand
<1>4. Core(f, s, from, k, st.sent, st.buf)
  BY <1>2, CoreLater DEF InHand
<1>5. Part(s, from, Safe(f, b - 1, st)) \subseteq Part(s, from, k)
  <2>1. CASE f = "multiline"
    BY <1>2, <2>1 DEF Safe, Part
  <2>2. CASE f # "multiline"
    BY <1>3, <2>2 DEF Safe
  <2>3. QED
    BY <2>1, <2>2
<1>6. b # k => b = k - 1 /\ s[b].brk = "none" /\ s[k] = RestOf(s[b])
  BY DEF InHand, String
<1>7. Part(s, b - 1, k) = {s[b], s[k]}
  <2>1. \A x \in (b - 1) + 1 .. k : x = b \/ x = k
    BY <1>2, <1>6
  <2>2. b \in (b - 1) + 1 .. k /\ k \in (b - 1) + 1 .. k
    BY <1>2
  <2>3. QED
    BY <2>1, <2>2 DEF Part
<1>8. b \in 1 .. Len(s) /\ k \in 1 .. Len(s)
  BY <1>1, <1>2
<1>9. s[b].part = 2 => b - 1 \in 1 .. Len(s) /\ s[b - 1].brk # "nl"
  BY <1>8 DEF InHand, FileOf
<1>10. f \notin {"multiline", "audit"} => Said(st.sent) \subseteq Part(s, from, b - 1)
  BY DEF InHand, Safe
<1>11. f # "audit" => Said(st.sent) \subseteq Part(s, from, k)
  BY <1>5 DEF InHand
<1>12. QED
  BY <1>1, <1>2, <1>3, <1>4, <1>6, <1>7, <1>8, <1>9, <1>10, <1>11

(* A buffer sent.                                                          *)
LEMMA FlushIs ==
  ASSUME NEW f, NEW s, NEW from, NEW d, NEW st \in ReaderState,
         Core(f, s, from, d, st.sent, st.buf)
  PROVE  /\ Flush(st) \in ReaderState /\ Flush(st).buf = <<>>
         /\ Core(f, s, from, d, Flush(st).sent, <<>>)
         /\ Said(Flush(st).sent) = Held(st)
         /\ Flush(st).pos = st.pos /\ Flush(st).mark = st.mark /\ Flush(st).got = st.got
         /\ Flush(st).ms = st.ms /\ Flush(st).clear = st.clear /\ Flush(st).stop = st.stop
         /\ Flush(st).rc = st.rc
<1>1. CASE st.buf = <<>>
  <2>1. Flush(st) = st
    BY <1>1 DEF Flush
  <2>2. Held(st) = Said(st.sent)
    BY <1>1, SaidNothing DEF Held
  <2>3. QED
    BY <1>1, <2>1, <2>2
<1>2. CASE st.buf # <<>>
  <2> DEFINE q == Append(st.sent, st.buf)
  <2>1. Core(f, s, from, d, q, <<>>) /\ Said(q) = Held(st) /\ q \in Seq(Messages)
    BY <1>2, CoreFlush DEF Held, Core
  <2>2. Flush(st) = [[st EXCEPT !.sent = q] EXCEPT !.buf = <<>>]
    BY <1>2 DEF Flush, Put
  <2> HIDE DEF q
  <2>3. <<>> \in Messages
    BY SaidNothing
  <2> DEFINE u == [st EXCEPT !.sent = q]
  <2>4. /\ u \in ReaderState /\ u.sent = q /\ u.pos = st.pos /\ u.mark = st.mark
        /\ u.got = st.got /\ u.ms = st.ms /\ u.clear = st.clear /\ u.stop = st.stop
        /\ u.rc = st.rc
    BY <2>1 DEF ReaderState
  <2> HIDE DEF u
  <2>5. Flush(st) = [u EXCEPT !.buf = <<>>]
    BY <2>2 DEF u
  <2>6. /\ Flush(st) \in ReaderState /\ Flush(st).buf = <<>> /\ Flush(st).sent = u.sent
        /\ Flush(st).pos = u.pos /\ Flush(st).mark = u.mark
        /\ Flush(st).got = u.got /\ Flush(st).ms = u.ms /\ Flush(st).clear = u.clear
        /\ Flush(st).stop = u.stop /\ Flush(st).rc = u.rc
    BY <2>3, <2>4, <2>5 DEF ReaderState
  <2>7. QED
    BY <2>1, <2>4, <2>6
<1>3. QED
  BY <1>1, <1>2

(* A string gathered.                                                      *)
LEMMA KeepIs ==
  ASSUME NEW f, NEW s, NEW from, NEW b, NEW k, NEW g, NEW st, NEW u,
         InHand(f, s, from, b, k, g, st), f \in Holding => g.brk # "none",
         u \in ReaderState, Core(f, s, from, b - 1, u.sent, u.buf)
  PROVE  /\ Keep(u, g) \in ReaderState
         /\ Keep(u, g).sent = u.sent /\ Keep(u, g).buf # <<>>
         /\ Core(f, s, from, k, u.sent, Keep(u, g).buf)
         /\ ToSet(Keep(u, g).buf) = ToSet(u.buf) \cup Part(s, b - 1, k)
         /\ Held(Keep(u, g)) = Held(u) \cup Part(s, b - 1, k)
         /\ Keep(u, g).pos = u.pos /\ Keep(u, g).mark = u.mark /\ Keep(u, g).got = u.got
         /\ Keep(u, g).ms = u.ms /\ Keep(u, g).clear = u.clear /\ Keep(u, g).stop = u.stop
         /\ Keep(u, g).rc = u.rc
<1> DEFINE m == u.buf \o g.pieces
<1>0. /\ FileOf(f, s) /\ from \in Nat /\ k \in from + 1 .. Len(s) /\ b \in from + 1 .. k
      /\ String(s, b, k, g)
  BY DEF InHand
<1>1. /\ Core(f, s, from, k, u.sent, m) /\ m # <<>>
      /\ ToSet(m) = ToSet(u.buf) \cup Part(s, b - 1, k)
  BY <1>0, CoreKeep
<1>2. m \in Messages
  BY <1>1 DEF Core
<1>3. Keep(u, g) = [u EXCEPT !.buf = m]
  BY DEF Keep
<1> HIDE DEF m
<1>4. /\ Keep(u, g) \in ReaderState /\ Keep(u, g).buf = m /\ Keep(u, g).sent = u.sent
      /\ Keep(u, g).pos = u.pos /\ Keep(u, g).mark = u.mark
      /\ Keep(u, g).got = u.got /\ Keep(u, g).ms = u.ms /\ Keep(u, g).clear = u.clear
      /\ Keep(u, g).stop = u.stop /\ Keep(u, g).rc = u.rc
  BY <1>2, <1>3 DEF ReaderState
<1>5. QED
  BY <1>1, <1>4 DEF Held

-----------------------------------------------------------------------------
(* A string sent at once.                                                  *)
LEMMA PutIs ==
  ASSUME NEW f, NEW s, NEW from, NEW b, NEW k, NEW g, NEW st,
         InHand(f, s, from, b, k, g, st), f \notin Holding,
         NEW u \in ReaderState, u.sent = st.sent, u.buf = st.buf, u.buf = <<>>
  PROVE  /\ Put(u, g.pieces) \in ReaderState /\ Put(u, g.pieces).buf = <<>>
         /\ Core(f, s, from, k, Put(u, g.pieces).sent, <<>>)
         /\ Held(Put(u, g.pieces)) = Held(st) \cup Part(s, b - 1, k)
         /\ Put(u, g.pieces).pos = u.pos /\ Put(u, g.pieces).mark = u.mark
         /\ Put(u, g.pieces).clear = u.clear /\ Put(u, g.pieces).stop = u.stop
         /\ Put(u, g.pieces).rc = u.rc
<1> DEFINE m == g.pieces
           q == Append(u.sent, m)
<1>0. /\ FileOf(f, s) /\ from \in Nat /\ k \in from + 1 .. Len(s) /\ b \in from + 1 .. k
      /\ String(s, b, k, g) /\ Core(f, s, from, b - 1, u.sent, u.buf)
  BY DEF InHand
<1>1. m \in Messages /\ m # <<>> /\ ToSet(m) = Part(s, b - 1, k)
  BY <1>0 DEF String
<1>2. u.buf \o m = m
  BY <1>1, ConcatEmptySeq DEF Messages
<1>3. Core(f, s, from, k, u.sent, m)
  <2>1. Core(f, s, from, k, u.sent, u.buf \o g.pieces)
    BY <1>0, CoreKeep
  <2>2. QED
    BY <1>2, <2>1
<1>4. Core(f, s, from, k, q, <<>>) /\ Said(q) = Said(u.sent) \cup ToSet(m)
  <2> HIDE DEF m, q
  <2>1. /\ Core(f, s, from, k, Append(u.sent, m), <<>>)
        /\ Said(Append(u.sent, m)) = Said(u.sent) \cup ToSet(m)
    BY <1>1, <1>3, CoreFlush DEF Core
  <2>2. QED
    BY <2>1 DEF q
<1>5. q \in Seq(Messages)
  BY <1>4 DEF Core
<1>6. Put(u, g.pieces) = [u EXCEPT !.sent = q]
  BY DEF Put
<1> HIDE DEF m, q
<1> DEFINE v == Put(u, g.pieces)
<1>7. /\ v \in ReaderState /\ v.buf = <<>> /\ v.sent = q /\ v.pos = u.pos /\ v.mark = u.mark
      /\ v.clear = u.clear /\ v.stop = u.stop /\ v.rc = u.rc
  BY <1>5, <1>6 DEF ReaderState
<1> HIDE DEF v
<1>8. Held(v) = Held(st) \cup Part(s, b - 1, k)
  BY <1>1, <1>4, <1>7, SaidNothing DEF Held
<1>9. QED
  BY <1>4, <1>7, <1>8 DEF v

(* What a round has to show where it does not put the file back.           *)
LEMMA KeptNext ==
  ASSUME NEW f, f # "multiline", NEW s, NEW from, NEW b, NEW k, NEW g, NEW st,
         InHand(f, s, from, b, k, g, st),
         NEW u \in ReaderState, Core(f, s, from, k, u.sent, u.buf),
         u.pos = k, u.mark = st.mark, u.stop => f \in Holding, u.rc # 0 => f = "snort-full",
         \A p \in Held(st) \cup Part(s, b - 1, k) : p \in Held(u) \/ Passes(f, s, p),
         f \in {"syslog", "mysql_log"} => u.buf = <<>>,
         f \in Clearing /\ u.clear /\ ~ u.stop => s[k].brk # "nl",
         f = "audit" /\ ~ u.clear /\ ~ u.stop /\ u.buf # <<>> => CacheRun(s, k, u.got)
  PROVE  Kept(f, s, from, k, u)
<1>1. /\ from \in Nat /\ k \in Nat /\ b \in Nat /\ Len(s) \in Nat
      /\ from < b /\ b <= k /\ k <= Len(s) /\ st.mark <= k /\ st.mark \in Nat
      /\ Part(s, from, k) = Part(s, from, b - 1) \cup Part(s, b - 1, k)
  BY HandParts
<1>2. from <= st.mark
  BY DEF InHand
<1>3. Said(u.sent) \subseteq Part(s, from, k)
  BY DEF Core
<1>4. \A p \in Part(s, from, b - 1) : p \in Held(st) \/ Passes(f, s, p)
  BY DEF InHand
<1>5. \A p \in Part(s, from, k) : p \in Held(u) \/ Passes(f, s, p)
  BY <1>1, <1>4
<1>6. k \in 1 .. Len(s)
  BY <1>1
<1>7. f # "audit" => Said(u.sent) \subseteq Part(s, from, Safe(f, u.pos, u))
  BY <1>3 DEF Safe
<1>8. QED
  BY <1>1, <1>2, <1>5, <1>6, <1>7 DEF Kept

LEMMA SyslogStep ==
  ASSUME NEW s, NEW from, NEW b, NEW k, NEW g, NEW st, InHand("syslog", s, from, b, k, g, st)
  PROVE  Kept("syslog", s, from, k, Syslog(st, g))
<1> DEFINE u == Syslog(st, g)
<1>1. /\ st \in ReaderState /\ st.buf = <<>> /\ st.pos = k /\ st.stop = FALSE
      /\ st.rc = 0
  BY DEF InHand
<1>2. "syslog" \notin Holding /\ "syslog" \notin Clearing
  BY DEF Holding, Clearing
<1>3. /\ u \in ReaderState /\ u.buf = <<>> /\ Core("syslog", s, from, k, u.sent, u.buf)
      /\ Held(u) = Held(st) \cup Part(s, b - 1, k)
      /\ u.pos = k /\ u.mark = st.mark /\ u.stop = FALSE /\ u.rc = 0
  BY <1>1, <1>2, PutIs DEF Syslog
<1> HIDE DEF u
<1>4. Kept("syslog", s, from, k, u)
  BY <1>2, <1>3, KeptNext
<1>5. QED
  BY <1>4 DEF u

LEMMA NoRoom ==
  ASSUME NEW s, NEW from, NEW b, NEW k, NEW g, NEW st,
         InHand("multi-line_indented", s, from, b, k, g, st), Continues(st, g), ~ HasRoom(g)
  PROVE  \A p \in Part(s, b - 1, k) : Passes("multi-line_indented", s, p)
<1>1. /\ Part(s, b - 1, k) = {s[b], s[k]} /\ s[b] \in Pieces
      /\ b # k => b = k - 1 /\ s[b].brk = "none" /\ s[k] = RestOf(s[b])
  BY HandParts
<1>2. g.kind = s[b].kind /\ g.brk = s[k].brk
  BY DEF InHand, String
<1>3. s[k].kind = s[b].kind /\ (b # k => s[k].brk = "nl")
  BY <1>1, PieceFields
<1>4. s[b].kind = "wide" \/ (s[b].kind = "more" /\ s[k].brk = "full")
  <2>1. g.kind \in {"more", "wide"} /\ ~ (g.kind = "more" /\ g.brk # "full")
    BY DEF Continues, HasRoom
  <2>2. QED
    BY <1>2, <2>1
<1>5. CASE s[b].kind = "wide"
  BY <1>1, <1>3, <1>5 DEF Passes
<1>6. CASE s[b].kind = "more" /\ s[k].brk = "full"
  <2>1. b = k
    BY <1>3, <1>6
  <2>2. QED
    BY <1>1, <1>6, <2>1 DEF Passes
<1>7. QED
  BY <1>4, <1>5, <1>6

LEMMA IndentedStep ==
  ASSUME NEW s, NEW from, NEW b, NEW k, NEW g, NEW st,
         InHand("multi-line_indented", s, from, b, k, g, st)
  PROVE  Kept("multi-line_indented", s, from, k, Indented(st, g))
<1> DEFINE f == "multi-line_indented"
           u == Indented(st, g)
<1>1. /\ st \in ReaderState /\ st.pos = k /\ st.stop = FALSE /\ st.rc = 0
      /\ Core(f, s, from, b - 1, st.sent, st.buf) /\ Core(f, s, from, k, st.sent, st.buf)
  BY HandParts DEF InHand
<1>2. f \notin Holding /\ f \notin Clearing
  BY DEF Holding, Clearing
<1>3. \/ u = st /\ Continues(st, g) /\ ~ HasRoom(g)
      \/ u = Keep(st, g)
      \/ u = Keep(Flush(st), g)
  BY DEF Indented
<1> HIDE DEF u
<1>4. CASE u = st /\ Continues(st, g) /\ ~ HasRoom(g)
  <2>1. \A p \in Part(s, b - 1, k) : Passes(f, s, p)
    BY <1>4, NoRoom
  <2>2. Kept(f, s, from, k, st)
    BY <1>1, <1>2, <2>1, KeptNext
  <2>3. QED
    BY <1>4, <2>2 DEF u
<1>5. ASSUME NEW v \in ReaderState, Core(f, s, from, b - 1, v.sent, v.buf), Held(v) = Held(st),
             v.pos = k, v.mark = st.mark, v.stop = FALSE, v.rc = 0, u = Keep(v, g)
      PROVE  Kept(f, s, from, k, Indented(st, g))
  <2>1. /\ u \in ReaderState /\ Core(f, s, from, k, u.sent, u.buf)
        /\ Held(u) = Held(st) \cup Part(s, b - 1, k)
        /\ u.pos = k /\ u.mark = st.mark /\ u.stop = FALSE /\ u.rc = 0
    BY <1>2, <1>5, KeepIs
  <2>2. Kept(f, s, from, k, u)
    BY <1>2, <2>1, KeptNext
  <2>3. QED
    BY <2>2 DEF u
<1>6. CASE u = Keep(st, g)
  BY <1>1, <1>5, <1>6
<1>7. CASE u = Keep(Flush(st), g)
  <2> DEFINE v == Flush(st)
  <2>1. /\ v \in ReaderState /\ v.buf = <<>> /\ Core(f, s, from, b - 1, v.sent, <<>>)
        /\ Said(v.sent) = Held(st)
        /\ v.pos = k /\ v.mark = st.mark /\ v.stop = FALSE /\ v.rc = 0
    BY <1>1, FlushIs
  <2>2. Held(v) = Held(st)
    BY <2>1, SaidNothing DEF Held
  <2>3. u = Keep(v, g)
    BY <1>7
  <2> HIDE DEF v
  <2>4. QED
    BY <1>5, <2>1, <2>2, <2>3
<1>8. QED
  BY <1>3, <1>4, <1>6, <1>7

-----------------------------------------------------------------------------
(* The readers of databases: what they pass over.                          *)
LEMMA PassedOver ==
  ASSUME NEW f, f \in {"mysql_log", "postgresql_log"}, NEW s, NEW from, NEW b, NEW k, NEW g,
         NEW st, InHand(f, s, from, b, k, g, st), Clears(st, g) \/ ~ StartsEvent(g)
  PROVE  \A p \in Part(s, b - 1, k) : Passes(f, s, p)
<1>1. /\ Part(s, b - 1, k) = {s[b], s[k]} /\ s[b] \in Pieces
      /\ b \in Nat /\ k \in Nat /\ b <= k /\ k <= Len(s) /\ Len(s) \in Nat
      /\ b # k => b = k - 1 /\ s[b].brk = "none" /\ s[k] = RestOf(s[b])
  BY HandParts
<1>2. FileOf(f, s) /\ String(s, b, k, g)
  BY DEF InHand
<1>3. b # k => s[k].part = 2
  BY <1>1, PieceFields
<1>4. CASE Clears(st, g)
  <2>1. b - 1 \in 1 .. Len(s) /\ s[b - 1].brk # "nl"
    BY <1>4 DEF Clears, InHand, Clearing
  <2>2. s[(b - 1) + 1] = RestOf(s[b - 1])
    <3>1. b - 1 < Len(s)
      BY <1>1
    <3>2. QED
      BY <1>2, <2>1, <3>1 DEF FileOf
  <2>5. s[b - 1] \in Pieces /\ (b - 1) + 1 = b
    BY <1>1, <1>2, <2>1, FilePieces
  <2>3. s[b].part = 2
    BY <2>2, <2>5, PieceFields
  <2>4. QED
    BY <1>1, <1>3, <2>3 DEF Passes
<1>5. CASE ~ StartsEvent(g)
  <2>1. s[b].kind # "new" \/ s[b].part # 1
    BY <1>2, <1>5 DEF String, StartsEvent
  <2>2. s[b].kind # "last"
    <3>1. b \in 1 .. Len(s)
      BY <1>1, FilePieces DEF InHand
    <3>2. QED
      BY <1>2, <3>1 DEF FileOf
  <2>3. s[b].kind \in {"more", "wide"} \/ s[b].part = 2
    BY <1>1, <2>1, <2>2, PieceFields
  <2>4. QED
    BY <1>1, <1>3, <2>3 DEF Passes
<1>6. QED
  BY <1>4, <1>5

(* The flag that the rest of the line is to be thrown away.                *)
LEMMA ClearIs ==
  ASSUME NEW st \in ReaderState, NEW c \in BOOLEAN
  PROVE  LET v == [st EXCEPT !.clear = c]
         IN  /\ v \in ReaderState /\ v.sent = st.sent /\ v.buf = st.buf /\ v.pos = st.pos
             /\ v.mark = st.mark /\ v.stop = st.stop /\ v.rc = st.rc /\ v.clear = c
             /\ v.got = st.got /\ v.ms = st.ms /\ Held(v) = Held(st)
BY DEF ReaderState, Held

LEMMA MysqlStep ==
  ASSUME NEW s, NEW from, NEW b, NEW k, NEW g, NEW st, InHand("mysql_log", s, from, b, k, g, st)
  PROVE  Kept("mysql_log", s, from, k, MysqlLine(st, g))
<1> DEFINE f == "mysql_log"
           u == MysqlLine(st, g)
           c == IF Clears(st, g) THEN FALSE ELSE g.brk # "nl"
           v == [st EXCEPT !.clear = c]
<1>1. /\ st \in ReaderState /\ st.buf = <<>> /\ st.pos = k /\ st.stop = FALSE /\ st.rc = 0
      /\ f \notin Holding /\ Core(f, s, from, k, st.sent, st.buf) /\ String(s, b, k, g)
  BY HandParts DEF InHand, Holding
<1>2. /\ v \in ReaderState /\ v.sent = st.sent /\ v.buf = st.buf /\ v.pos = st.pos
      /\ v.mark = st.mark /\ v.stop = st.stop /\ v.rc = st.rc /\ v.clear = c /\ Held(v) = Held(st)
  <2>1. c \in BOOLEAN
    OBVIOUS
  <2> HIDE DEF c
  <2>2. QED
    BY <1>1, <2>1, ClearIs
<1>3. c => s[k].brk # "nl"
  BY <1>1 DEF String
<1>4. u = IF Clears(st, g) \/ ~ StartsEvent(g) THEN v ELSE Put(v, g.pieces)
  BY DEF MysqlLine, Mysql
<1> HIDE DEF v, c, u
<1>5. CASE Clears(st, g) \/ ~ StartsEvent(g)
  <2>1. \A p \in Part(s, b - 1, k) : Passes(f, s, p)
    BY <1>5, PassedOver
  <2>2. u = v
    BY <1>4, <1>5
  <2>3. Kept(f, s, from, k, v)
    BY <1>1, <1>2, <1>3, <2>1, KeptNext
  <2>4. QED
    BY <2>2, <2>3 DEF u
<1>6. CASE ~ (Clears(st, g) \/ ~ StartsEvent(g))
  <2>1. u = Put(v, g.pieces)
    BY <1>4, <1>6
  <2>2. /\ u \in ReaderState /\ u.buf = <<>> /\ Core(f, s, from, k, u.sent, u.buf)
        /\ Held(u) = Held(st) \cup Part(s, b - 1, k)
        /\ u.pos = k /\ u.mark = st.mark /\ u.clear = c /\ u.stop = FALSE /\ u.rc = 0
    BY <1>1, <1>2, <2>1, PutIs
  <2>3. Kept(f, s, from, k, u)
    BY <1>3, <2>2, KeptNext
  <2>4. QED
    BY <2>3 DEF u
<1>7. QED
  BY <1>5, <1>6

LEMMA DatabaseStep ==
  ASSUME NEW s, NEW from, NEW b, NEW k, NEW g, NEW st,
         InHand("postgresql_log", s, from, b, k, g, st)
  PROVE  Kept("postgresql_log", s, from, k, DatabaseLine(st, g))
<1> DEFINE f == "postgresql_log"
           u == DatabaseLine(st, g)
           c == IF Clears(st, g) THEN FALSE ELSE g.brk # "nl"
           v == [st EXCEPT !.clear = c]
<1>1. /\ st \in ReaderState /\ st.pos = k /\ st.stop = FALSE /\ st.rc = 0
      /\ f \notin Holding /\ Core(f, s, from, k, st.sent, st.buf)
      /\ Core(f, s, from, b - 1, st.sent, st.buf) /\ String(s, b, k, g)
  BY HandParts DEF InHand, Holding
<1>2. /\ v \in ReaderState /\ v.sent = st.sent /\ v.buf = st.buf /\ v.pos = st.pos
      /\ v.mark = st.mark /\ v.stop = st.stop /\ v.rc = st.rc /\ v.clear = c /\ Held(v) = Held(st)
  <2>1. c \in BOOLEAN
    OBVIOUS
  <2> HIDE DEF c
  <2>2. QED
    BY <1>1, <2>1, ClearIs
<1>3. c => s[k].brk # "nl"
  BY <1>1 DEF String
<1>4. \/ u = v /\ (Clears(st, g) \/ ~ StartsEvent(g))
      \/ u = Keep(v, g)
      \/ u = Keep(Flush(v), g)
  BY DEF DatabaseLine, Database
<1> HIDE DEF v, c, u
<1>5. CASE u = v /\ (Clears(st, g) \/ ~ StartsEvent(g))
  <2>1. \A p \in Part(s, b - 1, k) : Passes(f, s, p)
    BY <1>5, PassedOver
  <2>2. Kept(f, s, from, k, v)
    BY <1>1, <1>2, <1>3, <2>1, KeptNext
  <2>3. QED
    BY <1>5, <2>2 DEF u
<1>6. ASSUME NEW w \in ReaderState, Core(f, s, from, b - 1, w.sent, w.buf), Held(w) = Held(st),
             w.pos = k, w.mark = st.mark, w.stop = FALSE, w.rc = 0, w.clear = c, u = Keep(w, g)
      PROVE  Kept(f, s, from, k, u)
  <2>1. /\ u \in ReaderState /\ Core(f, s, from, k, u.sent, u.buf)
        /\ Held(u) = Held(st) \cup Part(s, b - 1, k)
        /\ u.pos = k /\ u.mark = st.mark /\ u.clear = c /\ u.stop = FALSE /\ u.rc = 0
    BY <1>1, <1>6, KeepIs
  <2>2. QED
    BY <1>3, <2>1, KeptNext
<1>7. CASE u = Keep(v, g)
  BY <1>1, <1>2, <1>6, <1>7 DEF u
<1>8. CASE u = Keep(Flush(v), g)
  <2> DEFINE w == Flush(v)
  <2>1. /\ w \in ReaderState /\ w.buf = <<>> /\ Core(f, s, from, b - 1, w.sent, <<>>)
        /\ Said(w.sent) = Held(v)
        /\ w.pos = k /\ w.mark = st.mark /\ w.stop = FALSE /\ w.rc = 0 /\ w.clear = c
    <3>1. v \in ReaderState /\ Core(f, s, from, b - 1, v.sent, v.buf)
      BY <1>1, <1>2
    <3>2. /\ w \in ReaderState /\ w.buf = <<>> /\ Core(f, s, from, b - 1, w.sent, <<>>)
          /\ Said(w.sent) = Held(v)
          /\ w.pos = v.pos /\ w.mark = v.mark /\ w.stop = v.stop /\ w.rc = v.rc
          /\ w.clear = v.clear
      BY <3>1, FlushIs
    <3>3. QED
      BY <1>1, <1>2, <3>2
  <2>2. Held(w) = Held(st)
    BY <1>2, <2>1, SaidNothing DEF Held
  <2>3. u = Keep(w, g)
    BY <1>8
  <2> HIDE DEF w
  <2>4. Kept(f, s, from, k, u)
    BY <1>6, <2>1, <2>2, <2>3
  <2>5. QED
    BY <2>4 DEF u
<1>9. QED
  BY <1>4, <1>5, <1>7, <1>8

(* read_audit: a line that is cut is passed over, its rest included.       *)
LEMMA CutLine ==
  ASSUME NEW s, NEW from, NEW b, NEW k, NEW g, NEW st, InHand("audit", s, from, b, k, g, st),
         s[k].brk # "nl" \/ (b - 1 \in 1 .. Len(s) /\ s[b - 1].brk # "nl")
  PROVE  /\ \A p \in Part(s, b - 1, k) : Passes("audit", s, p)
         /\ b - 1 \in 1 .. Len(s) /\ s[b - 1].brk # "nl" => g.brk = "nl"
<1>1. /\ Part(s, b - 1, k) = {s[b], s[k]} /\ s[b] \in Pieces /\ s[k] \in Pieces
      /\ b \in Nat /\ k \in Nat /\ b <= k /\ k <= Len(s) /\ Len(s) \in Nat
      /\ b # k => b = k - 1 /\ s[b].brk = "none" /\ s[k] = RestOf(s[b])
  BY HandParts
<1>2. FileOf("audit", s) /\ g.brk = s[k].brk /\ k \in 1 .. Len(s)
  BY <1>1 DEF InHand, String
<1>3. s[k] \in ToSet(s) /\ \A x \in 1 .. Len(s) : s[x] \in Pieces /\ s[x] \in ToSet(s)
  BY <1>2, FilePieces
<1>4. b # k => s[k].brk = "nl"
  BY <1>1, PieceFields
<1>5. CASE b - 1 \in 1 .. Len(s) /\ s[b - 1].brk # "nl"
  <2>1. b - 1 < Len(s) /\ (b - 1) + 1 = b
    BY <1>1
  <2>2. s[b] = RestOf(s[b - 1])
    BY <1>2, <1>5, <2>1 DEF FileOf
  <2>3. s[b - 1] \in Pieces /\ s[b - 1] \in ToSet(s)
    BY <1>3, <1>5
  <2>4. s[b].brk = "nl" /\ s[b].line = s[b - 1].line
    BY <2>2, <2>3, PieceFields
  <2>5. b = k
    BY <1>1, <2>4
  <2>6. IsCut(ToSet(s), s[b])
    BY <1>5, <2>3, <2>4 DEF IsCut
  <2>7. QED
    BY <1>1, <1>2, <2>4, <2>5, <2>6 DEF Passes
<1>6. CASE s[k].brk # "nl"
  <2>1. b = k /\ IsCut(ToSet(s), s[k])
    BY <1>3, <1>4, <1>6 DEF IsCut
  <2>2. \A p \in Part(s, b - 1, k) : Passes("audit", s, p)
    BY <1>1, <2>1 DEF Passes
  <2>3. QED
    BY <1>5, <2>2
<1>7. QED
  BY <1>5, <1>6

(* A piece behind a whole line belongs to a later one.                     *)
LEMMA BehindWholeLine ==
  ASSUME NEW f, NEW s, FileOf(f, s), NEW k \in 1 .. Len(s), s[k].brk = "nl",
         NEW z \in 1 .. Len(s), k < z
  PROVE  s[k].line < s[z].line
<1>1. Len(s) \in Nat /\ Sorted(s) /\ \A x \in 1 .. Len(s) : s[x] \in Pieces
  BY FilePieces
<1>2. Before(s[k], s[z]) /\ s[k] \in Pieces /\ s[z] \in Pieces
  BY <1>1 DEF Sorted
<1>3. SUFFICES ASSUME s[k].line = s[z].line PROVE FALSE
  BY <1>2 DEF Before
<1>4. s[k].part = 1 /\ s[z].part = 2
  <2>1. s[k].part < s[z].part /\ s[k].part \in {1, 2} /\ s[z].part \in {1, 2}
    BY <1>2, <1>3, PieceFields DEF Before
  <2>2. QED
    BY <2>1
<1>5. PICK y : y = z - 1
  OBVIOUS
<1>6. y \in 1 .. Len(s) /\ s[y].brk # "nl" /\ y + 1 = z /\ y < Len(s)
  BY <1>1, <1>4, <1>5 DEF FileOf
<1>7. s[z] = RestOf(s[y]) /\ s[y].part = 1 /\ s[y] \in Pieces
  <2>1. s[y].part = 1 /\ s[y + 1] = RestOf(s[y])
    BY <1>6 DEF FileOf
  <2>2. QED
    BY <1>1, <1>6, <2>1
<1>8. s[y].line = s[k].line
  BY <1>3, <1>7, PieceFields
<1>9. k < y
  BY <1>5, <1>6
<1>10. Before(s[k], s[y])
  BY <1>1, <1>6, <1>9 DEF Sorted
<1>11. QED
  BY <1>2, <1>4, <1>7, <1>8, <1>10, PieceFields DEF Before

LEMMA CacheStarts ==
  ASSUME NEW f, NEW s, FileOf(f, s), NEW k \in 1 .. Len(s)
  PROVE  CacheRun(s, k, 1)
<1>1. Len(s) \in Nat /\ Sorted(s) /\ \A x \in 1 .. Len(s) : s[x] \in Pieces
  BY FilePieces
<1>2. \A x \in 1 .. Len(s) : s[x].line \in Nat
  BY <1>1, PieceFields
<1>3. ASSUME NEW x \in 1 .. k PROVE ~ (s[k].line < s[x].line)
  <2>1. x = k \/ Before(s[x], s[k])
    BY <1>1 DEF Sorted
  <2>2. QED
    BY <1>1, <1>2, <2>1 DEF Before
<1>4. k \in 1 .. k /\ s[k].line + 1 <= s[k].line + 1
  BY <1>2
<1>5. QED
  BY <1>3, <1>4 DEF CacheRun

LEMMA CacheGrows ==
  ASSUME NEW s, NEW from, NEW b, NEW k, NEW g, NEW st, InHand("audit", s, from, b, k, g, st),
         g.kind # "new", g.part # 2, NEW n \in Nat, CacheRun(s, b - 1, n)
  PROVE  CacheRun(s, k, n + 1) /\ CacheRun(s, k, n)
<1>1. /\ s[b] \in Pieces /\ s[k] \in Pieces
      /\ b \in Nat /\ k \in Nat /\ b <= k /\ k <= Len(s) /\ Len(s) \in Nat /\ 0 < b
      /\ b # k => b = k - 1 /\ s[b].brk = "none" /\ s[k] = RestOf(s[b])
  BY HandParts
<1>2. FileOf("audit", s) /\ g.kind = s[b].kind /\ g.part = s[b].part
  BY DEF InHand, String
<1>3. Sorted(s) /\ \A x \in 1 .. Len(s) : s[x] \in Pieces
  BY <1>2, FilePieces
<1>4. \A x \in 1 .. Len(s) : s[x].line \in Nat /\ s[x].part \in {1, 2}
  BY <1>3, PieceFields
<1>5. s[k].line = s[b].line /\ s[k].kind # "new" /\ s[b].kind # "new" /\ s[b].part = 1
  <2>1. s[k].line = s[b].line /\ s[k].kind = s[b].kind
    BY <1>1, PieceFields
  <2>2. QED
    BY <1>1, <1>2, <2>1, PieceFields
<1>6. PICK d : d = b - 1
  OBVIOUS
<1>7. d \in 1 .. Len(s) /\ d < b /\ b \in 1 .. Len(s) /\ k \in 1 .. Len(s)
  BY <1>1, <1>6 DEF CacheRun
<1>8. PICK y \in 1 .. d :
        /\ s[y].line + n <= s[d].line + 1
        /\ \A x \in 1 .. d : s[y].line < s[x].line => s[x].kind # "new"
  BY <1>6 DEF CacheRun
<1>9. s[d].line < s[b].line
  <2>1. Before(s[d], s[b])
    BY <1>3, <1>7 DEF Sorted
  <2>2. s[d].part \in {1, 2} /\ s[d].line \in Nat /\ s[b].line \in Nat
    BY <1>4, <1>7
  <2>3. QED
    BY <1>5, <2>1, <2>2 DEF Before
<1>10. y \in 1 .. k /\ y \in 1 .. Len(s)
  BY <1>1, <1>7
<1>11. s[y].line + (n + 1) <= s[k].line + 1 /\ s[y].line + n <= s[k].line + 1
  <2>1. s[y].line \in Nat /\ s[d].line \in Nat /\ s[b].line \in Nat
    BY <1>4, <1>7, <1>10
  <2>2. PICK l, m, o : l = s[y].line /\ m = s[d].line /\ o = s[b].line
    OBVIOUS
  <2>3. l + n <= m + 1 /\ m < o /\ l \in Nat /\ m \in Nat /\ o \in Nat
    BY <1>8, <1>9, <2>1, <2>2
  <2>4. l + (n + 1) <= o + 1 /\ l + n <= o + 1
    BY <2>3
  <2>5. QED
    BY <1>5, <2>2, <2>4
<1>12. ASSUME NEW x \in 1 .. k, s[y].line < s[x].line PROVE s[x].kind # "new"
  <2>1. x \in 1 .. d \/ x = b \/ x = k
    BY <1>1, <1>6
  <2>2. QED
    BY <1>5, <1>8, <1>12, <2>1
<1>13. QED
  BY <1>7, <1>10, <1>11, <1>12 DEF CacheRun

(* With a full cache, the line in hand lies beyond it.                     *)
LEMMA CacheFull ==
  ASSUME NEW s, NEW from, NEW b, NEW k, NEW g, NEW st, InHand("audit", s, from, b, k, g, st),
         g.brk = "nl", CacheRun(s, k, MAX_CACHE + 1)
  PROVE  \A p \in Part(s, b - 1, k) : Passes("audit", s, p)
<1>1. /\ Part(s, b - 1, k) = {s[b], s[k]} /\ s[b] \in Pieces
      /\ b # k => b = k - 1 /\ s[b].brk = "none" /\ s[k] = RestOf(s[b])
  BY HandParts
<1>2. FileOf("audit", s) /\ s[k].brk = "nl"
  BY DEF InHand, String
<1>3. /\ Len(s) \in Nat /\ \A x \in 1 .. Len(s) : s[x] \in Pieces /\ s[x] \in ToSet(s)
      /\ ToSet(s) = {s[x] : x \in 1 .. Len(s)}
  BY <1>2, FilePieces
<1>4. \A x \in 1 .. Len(s) : s[x].line \in Nat
  BY <1>3, PieceFields
<1>5. s[b].line = s[k].line
  BY <1>1, PieceFields
<1>6. PICK y \in 1 .. k :
        /\ s[y].line + (MAX_CACHE + 1) <= s[k].line + 1
        /\ \A x \in 1 .. k : s[y].line < s[x].line => s[x].kind # "new"
  BY DEF CacheRun
<1>7. k \in 1 .. Len(s) /\ y \in 1 .. Len(s)
  BY <1>3 DEF CacheRun
<1>8. s[y].line + MAX_CACHE <= s[k].line
  <2>1. s[y].line \in Nat /\ s[k].line \in Nat
    BY <1>4, <1>7
  <2>2. PICK l, o : l = s[y].line /\ o = s[k].line
    OBVIOUS
  <2>3. l + (MAX_CACHE + 1) <= o + 1 /\ l \in Nat /\ o \in Nat
    BY <1>6, <2>1, <2>2
  <2>4. l + MAX_CACHE <= o
    BY <2>3, MaxCacheAssumption
  <2>5. QED
    BY <2>2, <2>4
<1>9. ASSUME NEW x \in ToSet(s), s[y].line < x.line, x.line <= s[k].line PROVE x.kind # "new"
  <2>1. PICK z \in 1 .. Len(s) : x = s[z]
    BY <1>3
  <2>2. ~ (k < z)
    <3>1. k < z => s[k].line < s[z].line
      BY <1>2, <1>7, BehindWholeLine
    <3>2. s[z].line \in Nat /\ s[k].line \in Nat
      BY <1>4, <1>7
    <3>3. QED
      BY <1>9, <2>1, <3>1, <3>2
  <2>3. z \in 1 .. k
    BY <1>7, <2>2
  <2>4. QED
    BY <1>6, <1>9, <2>1, <2>3
<1>10. ASSUME NEW p, p.line = s[k].line PROVE BeyondCache(ToSet(s), p)
  BY <1>3, <1>7, <1>8, <1>9, <1>10 DEF BeyondCache
<1>11. QED
  BY <1>1, <1>5, <1>10 DEF Passes

(* The count of the lines in the cache.                                    *)
LEMMA GotIs ==
  ASSUME NEW st \in ReaderState, NEW n \in Nat
  PROVE  LET v == [st EXCEPT !.got = n]
         IN  /\ v \in ReaderState /\ v.sent = st.sent /\ v.buf = st.buf /\ v.pos = st.pos
             /\ v.mark = st.mark /\ v.stop = st.stop /\ v.rc = st.rc /\ v.clear = st.clear
             /\ v.got = n /\ v.ms = st.ms /\ Held(v) = Held(st)
BY DEF ReaderState, Held

LEMMA CacheStep ==
  ASSUME NEW s, NEW from, NEW b, NEW k, NEW g, NEW st, InHand("audit", s, from, b, k, g, st),
         ~ st.clear, g.brk = "nl", g.part # 2
  PROVE  Kept("audit", s, from, k, Cache(st, g))
<1> DEFINE f == "audit"
           u == Cache(st, g)
<1>1. /\ st \in ReaderState /\ st.pos = k /\ st.stop = FALSE /\ st.rc = 0 /\ st.clear = FALSE
      /\ Core(f, s, from, k, st.sent, st.buf) /\ st.got \in Nat
      /\ Core(f, s, from, b - 1, st.sent, st.buf) /\ f \in Holding /\ FileOf(f, s)
      /\ k \in 1 .. Len(s) /\ (st.buf # <<>> => CacheRun(s, b - 1, st.got))
  <2>1. f \in Holding
    BY DEF Holding
  <2>2. /\ from \in Nat /\ b \in Nat /\ k \in Nat /\ Len(s) \in Nat /\ from < b /\ b <= k
        /\ k <= Len(s) /\ Core(f, s, from, k, st.sent, st.buf)
    BY HandParts
  <2>3. k \in 1 .. Len(s)
    BY <2>2
  <2>4. /\ st \in ReaderState /\ st.pos = k /\ st.stop = FALSE /\ st.rc = 0
        /\ Core(f, s, from, b - 1, st.sent, st.buf) /\ FileOf(f, s)
        /\ (st.buf # <<>> => CacheRun(s, b - 1, st.got))
    BY DEF InHand
  <2>5. st.clear = FALSE /\ st.got \in Nat
    BY <2>4 DEF ReaderState
  <2>6. QED
    BY <2>1, <2>2, <2>3, <2>4, <2>5
<1>2. ASSUME NEW w \in ReaderState, Core(f, s, from, b - 1, w.sent, w.buf), Held(w) = Held(st),
             w.pos = k, w.mark = st.mark, w.stop = FALSE, w.rc = 0, w.clear = FALSE,
             NEW n \in Nat, CacheRun(s, k, n), u = [Keep(w, g) EXCEPT !.got = n]
      PROVE  Kept(f, s, from, k, Cache(st, g))
  <2> DEFINE v == Keep(w, g)
  <2>1. /\ v \in ReaderState /\ Core(f, s, from, k, v.sent, v.buf)
        /\ Held(v) = Held(st) \cup Part(s, b - 1, k)
        /\ v.pos = k /\ v.mark = st.mark /\ v.clear = FALSE /\ v.stop = FALSE /\ v.rc = 0
    BY <1>1, <1>2, KeepIs
  <2>2. u = [v EXCEPT !.got = n]
    BY <1>2
  <2> HIDE DEF v, u
  <2>3. /\ u \in ReaderState /\ Core(f, s, from, k, u.sent, u.buf)
        /\ Held(u) = Held(st) \cup Part(s, b - 1, k)
        /\ u.pos = k /\ u.mark = st.mark /\ u.clear = FALSE /\ u.stop = FALSE /\ u.rc = 0
        /\ u.got = n
    BY <2>1, <2>2, GotIs
  <2>4. Kept(f, s, from, k, u)
    BY <1>2, <2>3, KeptNext
  <2>5. QED
    BY <2>4 DEF u
<1>3. CASE g.kind = "new" \/ st.buf = <<>>
  <2> DEFINE w == Flush(st)
  <2>1. /\ w \in ReaderState /\ w.buf = <<>> /\ Core(f, s, from, b - 1, w.sent, <<>>)
        /\ Said(w.sent) = Held(st)
        /\ w.pos = k /\ w.mark = st.mark /\ w.stop = FALSE /\ w.rc = 0 /\ w.clear = FALSE
    BY <1>1, FlushIs
  <2>2. Held(w) = Held(st)
    BY <2>1, SaidNothing DEF Held
  <2>3. u = [Keep(w, g) EXCEPT !.got = 1]
    BY <1>3 DEF Cache
  <2>4. CacheRun(s, k, 1)
    BY <1>1, CacheStarts
  <2> HIDE DEF w, u
  <2>5. QED
    BY <1>2, <2>1, <2>2, <2>3, <2>4
<1>4. CASE ~ (g.kind = "new" \/ st.buf = <<>>) /\ st.got = MAX_CACHE
  <2>1. u = st
    BY <1>4 DEF Cache
  <2>2. CacheRun(s, k, MAX_CACHE + 1) /\ CacheRun(s, k, st.got)
    BY <1>1, <1>4, CacheGrows
  <2>3. \A p \in Part(s, b - 1, k) : Passes(f, s, p)
    BY <2>2, CacheFull
  <2>4. Kept(f, s, from, k, st)
    BY <1>1, <2>2, <2>3, KeptNext
  <2>5. QED
    BY <2>1, <2>4
<1>5. CASE ~ (g.kind = "new" \/ st.buf = <<>>) /\ st.got # MAX_CACHE
  <2>1. u = [Keep(st, g) EXCEPT !.got = Keep(st, g).got + 1]
    BY <1>5 DEF Cache
  <2>2. Keep(st, g).got = st.got
    BY <1>1, KeepIs
  <2>3. CacheRun(s, k, st.got + 1) /\ st.got + 1 \in Nat
    BY <1>1, <1>5, CacheGrows
  <2>4. u = [Keep(st, g) EXCEPT !.got = st.got + 1]
    BY <2>1, <2>2
  <2> HIDE DEF u
  <2>5. QED
    BY <1>1, <1>2, <2>3, <2>4
<1>6. QED
  BY <1>3, <1>4, <1>5

LEMMA AuditStep ==
  ASSUME NEW s, NEW from, NEW b, NEW k, NEW g, NEW st, InHand("audit", s, from, b, k, g, st)
  PROVE  Kept("audit", s, from, k, Audit(st, g))
<1> DEFINE f == "audit"
           u == Audit(st, g)
<1>1. /\ st \in ReaderState /\ st.pos = k /\ st.stop = FALSE /\ st.rc = 0
      /\ Core(f, s, from, k, st.sent, st.buf) /\ g.brk = s[k].brk /\ g.part = s[b].part
      /\ f \in Holding /\ FileOf(f, s) /\ f \in Clearing
  BY HandParts DEF InHand, Holding, Clearing, String
<1>2. /\ from \in Nat /\ k \in Nat /\ b \in Nat /\ Len(s) \in Nat
      /\ from < b /\ b <= k /\ k <= Len(s) /\ st.mark \in Nat
  BY HandParts
<1>3. from <= st.mark /\ st.mark <= b - 1
  BY DEF InHand
<1>4. CASE st.clear
  <2>1. b - 1 \in 1 .. Len(s) /\ s[b - 1].brk # "nl"
    BY <1>1, <1>4 DEF InHand
  <2>2. g.brk = "nl" /\ \A p \in Part(s, b - 1, k) : Passes(f, s, p)
    BY <2>1, CutLine
  <2>3. /\ u \in ReaderState /\ u.sent = st.sent /\ u.buf = st.buf /\ u.pos = k
        /\ u.mark = st.mark /\ u.rc = 0 /\ u.stop = TRUE
    BY <1>1, <1>4, <2>2 DEF Audit, ReaderState
  <2>4. Held(u) = Held(st)
    BY <2>3 DEF Held
  <2> HIDE DEF u
  <2>5. Kept(f, s, from, k, u)
    BY <1>1, <2>2, <2>3, <2>4, KeptNext
  <2>6. QED
    BY <2>5 DEF u
<1>5. CASE ~ st.clear /\ g.brk = "full"
  <2>1. \A p \in Part(s, b - 1, k) : Passes(f, s, p)
    BY <1>1, <1>5, CutLine
  <2>2. /\ u \in ReaderState /\ u.sent = st.sent /\ u.buf = st.buf /\ u.pos = k
        /\ u.mark = st.mark /\ u.rc = 0 /\ u.stop = FALSE /\ u.clear = TRUE
    BY <1>1, <1>5 DEF Audit, ReaderState
  <2>3. Held(u) = Held(st)
    BY <2>2 DEF Held
  <2>4. s[k].brk # "nl"
    BY <1>1, <1>5
  <2> HIDE DEF u
  <2>5. Kept(f, s, from, k, u)
    BY <1>1, <2>1, <2>2, <2>3, <2>4, KeptNext
  <2>6. QED
    BY <2>5 DEF u
<1>6. CASE ~ st.clear /\ g.brk = "none"
  <2>1. /\ u \in ReaderState /\ u.sent = st.sent /\ u.buf = st.buf /\ u.pos = st.mark
        /\ u.mark = st.mark /\ u.rc = 0 /\ u.stop = TRUE
    BY <1>1, <1>6 DEF Audit, ReaderState
  <2>2. Held(u) = Held(st)
    BY <2>1 DEF Held
  <2>3. Part(s, from, st.mark) \subseteq Part(s, from, b - 1)
    BY <1>2, <1>3 DEF Part
  <2>4. \A p \in Part(s, from, u.pos) : p \in Held(u) \/ Passes(f, s, p)
    BY <2>1, <2>2, <2>3 DEF InHand
  <2> HIDE DEF u
  <2>5. Kept(f, s, from, k, u)
    BY <1>1, <1>2, <1>3, <2>1, <2>4 DEF Kept
  <2>6. QED
    BY <2>5 DEF u
<1>7. CASE ~ st.clear /\ g.brk = "nl" /\ g.part = 2
  <2>1. b - 1 \in 1 .. Len(s) /\ s[b - 1].brk # "nl"
    <3>1. s[b].part = 2
      BY <1>1, <1>7
    <3>2. QED
      BY <3>1, HandParts
  <2>2. \A p \in Part(s, b - 1, k) : Passes(f, s, p)
    BY <2>1, CutLine
  <2>3. /\ u \in ReaderState /\ u.sent = st.sent /\ u.buf = st.buf /\ u.pos = k
        /\ u.mark = st.mark /\ u.rc = 0 /\ u.stop = TRUE
    BY <1>1, <1>7 DEF Audit, ReaderState
  <2>4. Held(u) = Held(st)
    BY <2>3 DEF Held
  <2> HIDE DEF u
  <2>5. Kept(f, s, from, k, u)
    BY <1>1, <2>2, <2>3, <2>4, KeptNext
  <2>6. QED
    BY <2>5 DEF u
<1>8. CASE ~ st.clear /\ g.brk = "nl" /\ g.part # 2
  <2>1. u = Cache(st, g)
    BY <1>8 DEF Audit
  <2>2. QED
    BY <1>8, <2>1, CacheStep
<1>9. g.brk \in {"nl", "full", "none"}
  <2>1. s[k] \in Pieces
    BY HandParts
  <2>2. QED
    BY <1>1, <2>1, PieceFields
<1>10. QED
  BY <1>4, <1>5, <1>6, <1>7, <1>8, <1>9

-----------------------------------------------------------------------------
(* read_snortfull passes over what it likes; it keeps nothing it drops.    *)
LEMMA SnortStep ==
  ASSUME NEW s, NEW from, NEW b, NEW k, NEW g, NEW st, InHand("snort-full", s, from, b, k, g, st)
  PROVE  Kept("snort-full", s, from, k, SnortLine(st, g))
<1> DEFINE f == "snort-full"
           v == Snortfull(st, g)
           u == SnortLine(st, g)
           Fine(w) == /\ w \in ReaderState /\ Core(f, s, from, k, w.sent, w.buf)
                      /\ w.pos = k /\ w.mark = st.mark
<1>1. /\ st \in ReaderState /\ st.pos = k /\ Core(f, s, from, k, st.sent, st.buf)
      /\ Core(f, s, from, b - 1, st.sent, st.buf) /\ f \in Holding
      /\ f \notin Clearing
  BY HandParts DEF InHand, Holding, Clearing
<1>2. Fine(st)
  BY <1>1
<1>3. Fine(BadFormat(st))
  <2> DEFINE w == BadFormat(st)
  <2>1. /\ w \in ReaderState /\ w.sent = st.sent /\ w.buf = <<>> /\ w.pos = st.pos
        /\ w.mark = st.mark
    BY <1>1, SaidNothing DEF BadFormat, ReaderState
  <2> HIDE DEF w
  <2>2. Core(f, s, from, k, w.sent, w.buf)
    BY <1>1, <2>1, CoreDrop
  <2>3. Fine(w)
    BY <1>1, <2>1, <2>2
  <2>4. QED
    BY <2>3 DEF w
<1>4. ASSUME g.brk = "nl" PROVE Fine(Keep(st, g))
  BY <1>1, <1>4, KeepIs
<1>5. ASSUME g.brk = "nl" PROVE Fine(Flush(Keep(st, g)))
  <2> DEFINE x == Keep(st, g)
  <2>1. Fine(x)
    BY <1>4, <1>5
  <2> HIDE DEF x
  <2>2. /\ Flush(x) \in ReaderState /\ Flush(x).buf = <<>>
        /\ Core(f, s, from, k, Flush(x).sent, <<>>)
        /\ Flush(x).pos = x.pos /\ Flush(x).mark = x.mark
    BY <2>1, FlushIs
  <2>3. Fine(Flush(x))
    BY <2>1, <2>2
  <2>4. QED
    BY <2>3 DEF x
<1>6. ASSUME NEW w, Fine(w), NEW n \in Nat PROVE Fine([w EXCEPT !.got = n])
  <2> DEFINE x == [w EXCEPT !.got = n]
  <2>1. /\ x \in ReaderState /\ x.sent = w.sent /\ x.buf = w.buf /\ x.pos = w.pos
        /\ x.mark = w.mark
    BY <1>6 DEF ReaderState
  <2> HIDE DEF x
  <2>2. Fine(x)
    BY <1>6, <2>1
  <2>3. QED
    BY <2>2 DEF x
<1>7. Fine(v)
  <2> HIDE DEF Fine
  <2>1. \/ v = st
        \/ v = BadFormat(st)
        \/ g.brk = "nl" /\ v = Keep(st, g)
        \/ g.brk = "nl" /\ v = Flush(Keep(st, g))
        \/ g.brk = "nl" /\ v = [Keep(st, g) EXCEPT !.got = 1]
    BY DEF Snortfull
  <2> HIDE DEF v
  <2>2. QED
    BY <1>2, <1>3, <1>4, <1>5, <1>6, <2>1
<1>8. Fine(u)
  <2> HIDE DEF Fine
  <2>1. u = v \/ u = [v EXCEPT !.got = 0]
    BY DEF SnortLine
  <2> HIDE DEF v, u
  <2>2. QED
    BY <1>6, <1>7, <2>1
<1> HIDE DEF u
<1>9. \A p : Passes(f, s, p)
  BY DEF Passes
<1>10. Kept(f, s, from, k, u)
  BY <1>1, <1>8, <1>9, KeptNext
<1>11. QED
  BY <1>10 DEF u

(* read_multiline: what it has sent lies before the place it goes back to. *)
LEMMA MultilineStep ==
  ASSUME NEW s, NEW from, NEW b, NEW k, NEW g, NEW st, InHand("multiline", s, from, b, k, g, st)
  PROVE  Kept("multiline", s, from, k, Multiline(st, g))
<1> DEFINE f == "multiline"
           u == Multiline(st, g)
           w == [Keep(st, g) EXCEPT !.got = @ + 1, !.ms = @ \/ g.brk = "full"]
<1>1. /\ st \in ReaderState /\ st.pos = k /\ st.stop = FALSE /\ st.rc = 0
      /\ Core(f, s, from, k, st.sent, st.buf)
      /\ Core(f, s, from, b - 1, st.sent, st.buf) /\ String(s, b, k, g)
      /\ f \in Holding /\ g.to = k
      /\ Said(st.sent) \subseteq Part(s, from, st.mark)
  BY HandParts DEF InHand, Holding, String, Safe
<1>2. from \in Nat /\ k \in Nat /\ from < k /\ k <= Len(s) /\ st.mark \in Nat /\ st.mark <= k
  BY HandParts
<1>3. from <= st.mark
  BY DEF InHand
<1>4. ASSUME NEW x \in ReaderState, Core(f, s, from, k, x.sent, x.buf),
             from <= x.mark, x.mark <= x.pos, x.pos <= k, ~ x.stop => x.pos = k, x.rc = 0,
             Said(x.sent) \subseteq Part(s, from, x.mark)
      PROVE  Kept(f, s, from, k, x)
  BY <1>1, <1>4 DEF Kept, Passes, Safe, Clearing
<1>5. CASE st.clear
  <2> DEFINE c == g.brk # "nl"
  <2>1. u = [st EXCEPT !.clear = c, !.mark = k]
    BY <1>1, <1>5 DEF Multiline
  <2>2. c \in BOOLEAN
    OBVIOUS
  <2> HIDE DEF u, c
  <2>3. /\ u \in ReaderState /\ u.sent = st.sent /\ u.buf = st.buf /\ u.pos = k /\ u.mark = k
        /\ u.stop = FALSE /\ u.rc = 0
    BY <1>1, <1>2, <2>1, <2>2 DEF ReaderState
  <2>4. Said(u.sent) \subseteq Part(s, from, k)
    BY <1>1, <2>3 DEF Core
  <2>5. Kept(f, s, from, k, u)
    BY <1>1, <1>2, <1>4, <2>3, <2>4
  <2>6. QED
    BY <2>5 DEF u
<1>6. CASE ~ st.clear /\ g.brk = "none"
  <2>1. u = [st EXCEPT !.stop = TRUE, !.pos = st.mark, !.buf = <<>>]
    BY <1>6 DEF Multiline
  <2> HIDE DEF u
  <2>2. /\ u \in ReaderState /\ u.sent = st.sent /\ u.buf = <<>> /\ u.pos = st.mark
        /\ u.mark = st.mark /\ u.stop = TRUE /\ u.rc = 0
    BY <1>1, <1>2, <2>1, SaidNothing DEF ReaderState
  <2>3. Core(f, s, from, k, u.sent, u.buf)
    BY <1>1, <2>2, CoreDrop
  <2>4. Kept(f, s, from, k, u)
    BY <1>1, <1>2, <1>3, <1>4, <2>2, <2>3
  <2>5. QED
    BY <2>4 DEF u
<1>7. ASSUME g.brk # "none"
      PROVE  /\ w \in ReaderState /\ Core(f, s, from, k, w.sent, w.buf) /\ w.pos = k
             /\ w.mark = st.mark /\ w.stop = FALSE /\ w.rc = 0 /\ w.sent = st.sent
  <2> DEFINE x == Keep(st, g)
             c == x.ms \/ g.brk = "full"
  <2>1. /\ x \in ReaderState /\ x.sent = st.sent /\ Core(f, s, from, k, x.sent, x.buf)
        /\ x.pos = k /\ x.mark = st.mark /\ x.stop = FALSE /\ x.rc = 0
    BY <1>1, <1>7, KeepIs
  <2> HIDE DEF x
  <2>2. x.got + 1 \in Nat /\ x.ms \in BOOLEAN
    BY <2>1 DEF ReaderState
  <2>3. c \in BOOLEAN
    BY <2>2
  <2>4. w = [x EXCEPT !.got = x.got + 1, !.ms = c]
    BY DEF x
  <2> HIDE DEF c, w
  <2>5. /\ w \in ReaderState /\ w.sent = x.sent /\ w.buf = x.buf /\ w.pos = x.pos
        /\ w.mark = x.mark /\ w.stop = x.stop /\ w.rc = x.rc
    BY <2>1, <2>2, <2>3, <2>4 DEF ReaderState
  <2>6. QED
    BY <2>1, <2>5
<1>8. CASE ~ st.clear /\ g.brk # "none" /\ w.got < LineCount
  <2>1. u = w
    BY <1>8 DEF Multiline
  <2> HIDE DEF u, w
  <2>2. /\ w \in ReaderState /\ Core(f, s, from, k, w.sent, w.buf) /\ w.pos = k
        /\ w.mark = st.mark /\ w.stop = FALSE /\ w.rc = 0
        /\ Said(w.sent) \subseteq Part(s, from, w.mark)
    BY <1>1, <1>7, <1>8
  <2>3. Kept(f, s, from, k, w)
    BY <1>2, <1>3, <1>4, <2>2
  <2>4. QED
    BY <2>1, <2>3 DEF u
<1>9. CASE ~ st.clear /\ g.brk # "none" /\ ~ (w.got < LineCount)
  <2>1. u = [Flush(w) EXCEPT !.mark = k, !.clear = w.ms, !.ms = FALSE]
    BY <1>1, <1>9 DEF Multiline
  <2> DEFINE x == Flush(w)
  <2> HIDE DEF u, w
  <2>2. /\ x \in ReaderState /\ x.buf = <<>> /\ Core(f, s, from, k, x.sent, <<>>)
        /\ x.pos = k /\ x.stop = FALSE /\ x.rc = 0 /\ w.ms \in BOOLEAN
    BY <1>7, <1>9, FlushIs DEF ReaderState
  <2>3. u = [x EXCEPT !.mark = k, !.clear = w.ms, !.ms = FALSE]
    BY <2>1
  <2> HIDE DEF x
  <2>4. /\ u \in ReaderState /\ u.sent = x.sent /\ u.buf = x.buf /\ u.pos = k /\ u.mark = k
        /\ u.stop = FALSE /\ u.rc = 0
    BY <1>2, <2>2, <2>3 DEF ReaderState
  <2>5. Said(u.sent) \subseteq Part(s, from, k)
    BY <2>2, <2>4 DEF Core
  <2>6. Kept(f, s, from, k, u)
    BY <1>2, <1>4, <2>2, <2>4, <2>5
  <2>7. QED
    BY <2>6 DEF u
<1>10. QED
  BY <1>5, <1>6, <1>8, <1>9

-----------------------------------------------------------------------------
(* A round of the loop, and the rounds of a call.                          *)
LEMMA KeptLater ==
  ASSUME NEW f, NEW s, FileOf(f, s), NEW from \in Nat, NEW d \in Nat, NEW e \in Nat,
         from <= d, d <= e, e <= Len(s), NEW st, Kept(f, s, from, d, st), st.stop
  PROVE  Kept(f, s, from, e, st)
<1>1. Core(f, s, from, e, st.sent, st.buf)
  BY CoreLater DEF Kept
<1>2. st.pos \in Nat /\ st.pos <= d
  BY DEF Kept, ReaderState
<1>3. st.pos <= e
  BY <1>2
<1>4. QED
  BY <1>1, <1>3 DEF Kept

LEMMA RoundStep ==
  ASSUME NEW f \in KnownFormats, NEW s, FileOf(f, s), NEW from \in Nat,
         NEW k \in from + 1 .. Len(s), NEW b \in from + 1 .. k, NEW g, String(s, b, k, g),
         NEW st, Kept(f, s, from, b - 1, st)
  PROVE  Kept(f, s, from, k, Round(f, st, g))
<1>1. CASE st.stop
  <2>1. Round(f, st, g) = st
    BY <1>1 DEF Round
  <2>2. b - 1 \in Nat /\ k \in Nat /\ from <= b - 1 /\ b - 1 <= k /\ k <= Len(s)
    BY FilePieces
  <2>3. QED
    BY <1>1, <2>1, <2>2, KeptLater
<1>2. CASE ~ st.stop
  <2> DEFINE t == [st EXCEPT !.pos = g.to]
  <2>1. InHand(f, s, from, b, k, g, t)
    BY <1>2, TakenInHand
  <2>2. Round(f, st, g) = Line(f, t, g)
    BY <1>2 DEF Round
  <2> HIDE DEF t
  <2>3. CASE f = "syslog"
    BY <2>1, <2>2, <2>3, SyslogStep DEF Line
  <2>4. CASE f = "multiline"
    BY <2>1, <2>2, <2>4, MultilineStep DEF Line
  <2>5. CASE f = "audit"
    BY <2>1, <2>2, <2>5, AuditStep DEF Line
  <2>6. CASE f = "snort-full"
    BY <2>1, <2>2, <2>6, SnortStep DEF Line
  <2>7. CASE f = "mysql_log"
    BY <2>1, <2>2, <2>7, MysqlStep DEF Line
  <2>8. CASE f = "postgresql_log"
    BY <2>1, <2>2, <2>8, DatabaseStep DEF Line
  <2>9. CASE f = "multi-line_indented"
    BY <2>1, <2>2, <2>9, IndentedStep DEF Line
  <2>10. QED
    BY <2>3, <2>4, <2>5, <2>6, <2>7, <2>8, <2>9 DEF KnownFormats
<1>3. QED
  BY <1>1, <1>2

(* The recursion of Rounds has a solution, which is built up from the      *)
(* place where the call begins.                                            *)
LEMMA RoundsIs ==
  ASSUME NEW f, NEW s, NEW from \in Nat, Len(s) \in Nat, from <= Len(s)
  PROVE  \A k \in from .. Len(s) :
           Rounds(f, s, from)[k] =
             IF k = from THEN Start(from)
             ELSE IF Ends(s, k) THEN Round(f, Rounds(f, s, from)[k - 1], fgets(s, from, k))
             ELSE Rounds(f, s, from)[k - 1]
<1> DEFINE Step(h, k) ==
             IF k = from THEN Start(from)
             ELSE IF Ends(s, k) THEN Round(f, h[k - 1], fgets(s, from, k))
             ELSE h[k - 1]
           Solves(h, k) == h = [n \in from .. from + k |-> Step(h, n)]
           n == Len(s) - from
           Reached == {k \in 0 .. n : \E h : Solves(h, k)}
<1>0. n \in Nat /\ from + n = Len(s)
  OBVIOUS
<1> HIDE DEF n
<1>1. 0 \in Reached
  <2> DEFINE h == [j \in from .. from + 0 |-> Start(from)]
  <2>1. \A j \in from .. from + 0 : j = from
    OBVIOUS
  <2>2. Solves(h, 0)
    BY <2>1
  <2> HIDE DEF h, Solves
  <2>3. QED
    BY <1>0, <2>2
<1>2. ASSUME NEW k \in 0 .. n - 1, k \in Reached PROVE k + 1 \in Reached
  <2>1. PICK h : Solves(h, k)
    BY <1>2
  <2> DEFINE g == [j \in from .. from + (k + 1) |-> Step(h, j)]
  <2>2. ASSUME NEW j \in from .. from + (k + 1) PROVE g[j] = Step(g, j)
    <3>1. g[j] = Step(h, j)
      OBVIOUS
    <3>2. CASE j = from
      BY <3>1, <3>2
    <3>3. CASE j # from
      <4>1. j - 1 \in from .. from + k /\ j - 1 \in from .. from + (k + 1)
        BY <1>0, <3>3
      <4>2. h[j - 1] = Step(h, j - 1)
        BY <2>1, <4>1
      <4>3. g[j - 1] = h[j - 1]
        BY <4>1, <4>2
      <4> HIDE DEF g
      <4>4. QED
        BY <3>1, <3>3, <4>3
    <3>4. QED
      BY <3>2, <3>3
  <2>3. g = [j \in from .. from + (k + 1) |-> g[j]]
    OBVIOUS
  <2> HIDE DEF g, Step
  <2>4. g = [j \in from .. from + (k + 1) |-> Step(g, j)]
    BY <2>2, <2>3
  <2>5. k + 1 \in 0 .. n
    BY <1>0
  <2>6. Solves(g, k + 1)
    BY <2>4
  <2> HIDE DEF Solves
  <2>7. QED
    BY <2>5, <2>6
<1> HIDE DEF Reached
<1>3. \A k \in 0 .. n : k \in Reached
  BY <1>0, <1>1, <1>2, UpTo
<1>4. PICK h : Solves(h, n)
  <2>1. n \in Reached
    BY <1>0, <1>3
  <2>2. QED
    BY <2>1 DEF Reached
<1>5. h = [j \in from .. Len(s) |-> Step(h, j)]
  BY <1>0, <1>4
<1>6. Rounds(f, s, from) = CHOOSE e : e = [j \in from .. Len(s) |-> Step(e, j)]
  BY DEF Rounds
<1>7. PICK e : e = Rounds(f, s, from) /\ e = [j \in from .. Len(s) |-> Step(e, j)]
  <2> HIDE DEF Step
  <2>1. QED
    BY <1>5, <1>6
<1>8. \A k \in from .. Len(s) : e[k] = Step(e, k)
  <2> HIDE DEF Step
  <2>1. QED
    BY <1>7
<1>9. QED
  BY <1>7, <1>8

LEMMA StartKept ==
  ASSUME NEW f, NEW s, NEW from \in Nat
  PROVE  Kept(f, s, from, from, Start(from))
<1> DEFINE st == Start(from)
<1>1. /\ st \in ReaderState /\ st.sent = <<>> /\ st.buf = <<>> /\ st.pos = from
      /\ st.mark = from /\ st.stop = FALSE /\ st.clear = FALSE /\ st.rc = 0
  BY SaidNothing DEF Start, ReaderState
<1> HIDE DEF st
<1>2. Core(f, s, from, from, st.sent, st.buf) /\ Said(st.sent) = {}
  BY <1>1, CoreStart, SaidNothing
<1>3. Part(s, from, from) = {}
  BY DEF Part
<1>4. Kept(f, s, from, from, st)
  BY <1>1, <1>2, <1>3 DEF Kept
<1>5. QED
  BY <1>4 DEF st

(* The last piece that the reader has seen when fgets has come to piece k. *)
Seen(s, from, k) == IF k > from /\ ~ Ends(s, k) THEN k - 1 ELSE k

LEMMA SeenIs ==
  ASSUME NEW f, NEW s, FileOf(f, s), NEW from \in Nat, NEW k \in from + 1 .. Len(s)
  PROVE  /\ Ends(s, k) => Seen(s, from, k) = k /\ Seen(s, from, k - 1) = Beginning(s, from, k) - 1
         /\ ~ Ends(s, k) => Seen(s, from, k) = Seen(s, from, k - 1)
<1>1. Len(s) \in Nat /\ k \in Nat /\ k > from /\ k <= Len(s) /\ k - 1 # Len(s)
  BY FilePieces
<1>2. Ends(s, k - 1) <=> s[k - 1].brk # "none"
  BY <1>1 DEF Ends
<1>3. Ends(s, k) => Seen(s, from, k - 1) = Beginning(s, from, k) - 1
  BY <1>1, <1>2 DEF Seen, Beginning
<1>4. ASSUME ~ Ends(s, k) PROVE Seen(s, from, k - 1) = k - 1
  <2>1. CASE k - 1 > from /\ s[k - 1].brk = "none"
    <3>1. k - 1 \in 1 .. Len(s) /\ k - 1 < Len(s) /\ (k - 1) + 1 = k
      BY <1>1, <2>1
    <3>2. s[k] = RestOf(s[k - 1])
      BY <2>1, <3>1 DEF FileOf
    <3>3. s[k - 1] \in Pieces
      BY <3>1, FilePieces
    <3>4. s[k].brk = "nl"
      BY <3>2, <3>3, PieceFields
    <3>5. QED
      BY <1>4, <3>4 DEF Ends
  <2>2. CASE ~ (k - 1 > from /\ s[k - 1].brk = "none")
    BY <1>1, <1>2, <2>2 DEF Seen
  <2>3. QED
    BY <2>1, <2>2
<1>5. QED
  BY <1>1, <1>3, <1>4 DEF Seen

LEMMA RoundsKept ==
  ASSUME NEW f \in KnownFormats, NEW s, FileOf(f, s), NEW from \in Nat, from <= Len(s)
  PROVE  Kept(f, s, from, Len(s), Rounds(f, s, from)[Len(s)])
<1> DEFINE n == Len(s) - from
           P == {j \in 0 .. n : Kept(f, s, from, Seen(s, from, from + j), Rounds(f, s, from)[from + j])}
<1>0. Len(s) \in Nat /\ n \in Nat /\ from + n = Len(s)
  BY FilePieces
<1> HIDE DEF n
<1>1. \A k \in from .. Len(s) :
           Rounds(f, s, from)[k] =
             IF k = from THEN Start(from)
             ELSE IF Ends(s, k) THEN Round(f, Rounds(f, s, from)[k - 1], fgets(s, from, k))
             ELSE Rounds(f, s, from)[k - 1]
  BY <1>0, RoundsIs
<1>2. 0 \in P
  <2>1. Rounds(f, s, from)[from + 0] = Start(from) /\ Seen(s, from, from + 0) = from
    BY <1>0, <1>1 DEF Seen
  <2>2. QED
    BY <1>0, <2>1, StartKept
<1>3. ASSUME NEW j \in 0 .. n - 1, j \in P PROVE j + 1 \in P
  <2>1. PICK k : k = from + (j + 1)
    OBVIOUS
  <2>2. k \in from + 1 .. Len(s) /\ k - 1 = from + j /\ j + 1 \in 0 .. n /\ k \in from .. Len(s)
        /\ k # from
    BY <1>0, <2>1
  <2>3. PICK st : st = Rounds(f, s, from)[k - 1]
    OBVIOUS
  <2>4. Kept(f, s, from, Seen(s, from, k - 1), st)
    BY <1>3, <2>2, <2>3
  <2>5. CASE Ends(s, k)
    <3>1. Seen(s, from, k) = k /\ Seen(s, from, k - 1) = Beginning(s, from, k) - 1
      BY <2>2, <2>5, SeenIs
    <3>2. Rounds(f, s, from)[k] = Round(f, st, fgets(s, from, k))
      BY <1>1, <2>2, <2>3, <2>5
    <3>3. PICK b \in from + 1 .. k : b = Beginning(s, from, k) /\ String(s, b, k, fgets(s, from, k))
      BY <2>2, StringIs
    <3>4. Kept(f, s, from, b - 1, st)
      BY <2>4, <3>1, <3>3
    <3>5. Kept(f, s, from, k, Round(f, st, fgets(s, from, k)))
      BY <2>2, <3>3, <3>4, RoundStep
    <3>6. QED
      BY <2>1, <2>2, <3>1, <3>2, <3>5
  <2>6. CASE ~ Ends(s, k)
    <3>1. Seen(s, from, k) = Seen(s, from, k - 1)
      BY <2>2, <2>6, SeenIs
    <3>2. Rounds(f, s, from)[k] = st
      BY <1>1, <2>2, <2>3, <2>6
    <3>3. QED
      BY <2>1, <2>2, <2>4, <3>1, <3>2
  <2>7. QED
    BY <2>5, <2>6
<1> HIDE DEF P
<1>4. n \in P
  <2>1. \A j \in 0 .. n : j \in P
    BY <1>0, <1>2, <1>3, UpTo
  <2>2. QED
    BY <1>0, <2>1
<1>5. Seen(s, from, Len(s)) = Len(s)
  BY DEF Seen, Ends
<1>6. QED
  BY <1>0, <1>4, <1>5 DEF P

(* What a call of a reader does, whatever the format: of the pieces from    *)
(* the place it began at to the place it goes on at it sends some, once and *)
(* in order; the others may be passed over, and it has sent nothing behind. *)
LEMMA ReadIs ==
  ASSUME NEW f \in KnownFormats, NEW s, FileOf(f, s), NEW from \in Nat, from <= Len(s),
         NEW r, r = Read(f, s, from)
  PROVE  /\ r.sent \in Seq(Messages) /\ r.pos \in from .. Len(s) /\ r.rc \in {0, 1}
         /\ r.rc # 0 => f = "snort-full"
         /\ \A m \in ToSet(r.sent) : m # <<>>
         /\ InOrder(r.sent)
         /\ Said(r.sent) \subseteq Part(s, from, Len(s))
         /\ f # "audit" => Said(r.sent) \subseteq Part(s, from, r.pos)
         /\ \A p \in Part(s, from, r.pos) : p \in Said(r.sent) \/ Passes(f, s, p)
         /\ f \in Holding => \A m \in ToSet(r.sent) : Whole(m)
<1>0. Len(s) \in Nat
  BY FilePieces
<1>1. PICK st : st = Rounds(f, s, from)[Len(s)]
  OBVIOUS
<1>2. Kept(f, s, from, Len(s), st)
  BY <1>1, RoundsKept
<1>3. /\ st \in ReaderState /\ Core(f, s, from, Len(s), st.sent, st.buf)
      /\ from <= st.mark /\ st.mark <= st.pos /\ st.pos <= Len(s)
      /\ st.pos \in Nat /\ st.mark \in Nat /\ st.rc \in {0, 1}
      /\ st.rc # 0 => f = "snort-full"
      /\ \A p \in Part(s, from, st.pos) : p \in Held(st) \/ Passes(f, s, p)
  BY <1>2 DEF Kept, ReaderState
<1>4. CASE f \in SendsRest
  <2>1. r = Flush(st)
    BY <1>1, <1>4 DEF Read
  <2>2. /\ r \in ReaderState /\ Core(f, s, from, Len(s), r.sent, <<>>) /\ Said(r.sent) = Held(st)
        /\ r.pos = st.pos /\ r.rc = st.rc
    <3>1. /\ Flush(st) \in ReaderState /\ Core(f, s, from, Len(s), Flush(st).sent, <<>>)
          /\ Said(Flush(st).sent) = Held(st)
          /\ Flush(st).pos = st.pos /\ Flush(st).rc = st.rc
      BY <1>3, FlushIs
    <3>2. QED
      BY <2>1, <3>1
  <2>3. f # "audit" => st.pos = Len(s)
    <3>1. f # "audit" => f \notin Holding
      BY <1>4 DEF SendsRest, Holding
    <3>2. QED
      BY <1>2, <3>1 DEF Kept
  <2>4. QED
    BY <1>0, <1>3, <2>2, <2>3 DEF Core
<1>5. CASE f \notin SendsRest
  <2>1. r = st
    BY <1>1, <1>5 DEF Read
  <2>2. \/ f \in {"multiline", "snort-full"}
        \/ f \in {"syslog", "mysql_log"} /\ st.buf = <<>>
    BY <1>2, <1>5 DEF Kept, KnownFormats, SendsRest
  <2>3. \A p \in Part(s, from, st.pos) : p \in Said(st.sent) \/ Passes(f, s, p)
    BY <1>3, <2>2, SaidNothing DEF Held, Passes
  <2>4. f # "audit" /\ Said(st.sent) \subseteq Part(s, from, Safe(f, st.pos, st))
    BY <1>2, <2>2 DEF Kept
  <2>5. Part(s, from, Safe(f, st.pos, st)) \subseteq Part(s, from, st.pos)
    BY <1>0, <1>3 DEF Part, Safe
  <2>6. QED
    BY <1>0, <1>3, <2>1, <2>3, <2>4, <2>5 DEF Core
<1>6. QED
  BY <1>4, <1>5

-----------------------------------------------------------------------------
(* The queue: each message once.                                           *)
LEMMA GivenSolved ==
  ASSUME NEW new, Len(new) \in Nat
  PROVE  \E h : /\ Given(new) = h[Len(new)]
                /\ \A k \in 0 .. Len(new) :
                     h[k] = IF k = 0 THEN sent
                            ELSE IF new[k] \in ToSet(sent) THEN h[k - 1]
                            ELSE Append(h[k - 1], new[k])
<1> DEFINE Step(h, k) ==
             IF k = 0 THEN sent
             ELSE IF new[k] \in ToSet(sent) THEN h[k - 1] ELSE Append(h[k - 1], new[k])
           Solves(h, k) == h = [j \in 0 .. k |-> Step(h, j)]
           n == Len(new)
           Reached == {k \in 0 .. n : \E h : Solves(h, k)}
<1>0. n \in Nat
  OBVIOUS
<1> HIDE DEF n
<1>1. 0 \in Reached
  <2> DEFINE h == [j \in 0 .. 0 |-> sent]
  <2>1. \A j \in 0 .. 0 : j = 0
    OBVIOUS
  <2>2. Solves(h, 0)
    BY <2>1
  <2> HIDE DEF h, Solves
  <2>3. QED
    BY <1>0, <2>2
<1>2. ASSUME NEW k \in 0 .. n - 1, k \in Reached PROVE k + 1 \in Reached
  <2>1. PICK h : Solves(h, k)
    BY <1>2
  <2> DEFINE g == [j \in 0 .. k + 1 |-> Step(h, j)]
  <2>2. ASSUME NEW j \in 0 .. k + 1 PROVE g[j] = Step(g, j)
    <3>1. g[j] = Step(h, j)
      OBVIOUS
    <3>2. CASE j = 0
      BY <3>1, <3>2
    <3>3. CASE j # 0
      <4>1. j - 1 \in 0 .. k /\ j - 1 \in 0 .. k + 1
        BY <1>0, <3>3
      <4>2. h[j - 1] = Step(h, j - 1)
        BY <2>1, <4>1
      <4>3. g[j - 1] = h[j - 1]
        BY <4>1, <4>2
      <4> HIDE DEF g
      <4>4. QED
        BY <3>1, <3>3, <4>3
    <3>4. QED
      BY <3>2, <3>3
  <2>3. g = [j \in 0 .. k + 1 |-> g[j]]
    OBVIOUS
  <2> HIDE DEF g, Step
  <2>4. g = [j \in 0 .. k + 1 |-> Step(g, j)]
    BY <2>2, <2>3
  <2>5. k + 1 \in 0 .. n
    BY <1>0
  <2>6. Solves(g, k + 1)
    BY <2>4
  <2> HIDE DEF Solves
  <2>7. QED
    BY <2>5, <2>6
<1> HIDE DEF Reached
<1>3. \A k \in 0 .. n : k \in Reached
  BY <1>0, <1>1, <1>2, UpTo
<1>4. PICK h : Solves(h, n)
  <2>1. n \in Reached
    BY <1>0, <1>3
  <2>2. QED
    BY <2>1 DEF Reached
<1>5. Given(new) = (CHOOSE e : e = [j \in 0 .. n |-> Step(e, j)])[n]
  BY DEF Given, n
<1>6. PICK e : e = (CHOOSE x : x = [j \in 0 .. n |-> Step(x, j)])
  OBVIOUS
<1>7. e = [j \in 0 .. n |-> Step(e, j)]
  <2> HIDE DEF Step
  <2>1. QED
    BY <1>4, <1>6
<1>8. Given(new) = e[n]
  BY <1>5, <1>6
<1>9. \A k \in 0 .. n : e[k] = Step(e, k)
  <2> HIDE DEF Step
  <2>1. QED
    BY <1>7
<1>10. QED
  BY <1>8, <1>9 DEF n

LEMMA GivenIs ==
  ASSUME NEW new \in Seq(Messages), sent \in Seq(Messages)
  PROVE  /\ Given(new) \in Seq(Messages)
         /\ ToSet(Given(new)) = ToSet(sent) \cup ToSet(new)
         /\ ToSet(new) \cap ToSet(sent) = {} => Given(new) = sent \o new
<1> DEFINE n == Len(new)
<1>1. /\ n \in Nat /\ ToSet(new) = {new[j] : j \in 1 .. n}
      /\ \A j \in 1 .. n : new[j] \in Messages /\ new[j] \in ToSet(new)
  BY MembersOf
<1>2. PICK h : /\ Given(new) = h[n]
               /\ \A k \in 0 .. n :
                     h[k] = IF k = 0 THEN sent
                            ELSE IF new[k] \in ToSet(sent) THEN h[k - 1]
                            ELSE Append(h[k - 1], new[k])
  BY <1>1, GivenSolved
<1> DEFINE first(k) == {new[j] : j \in 1 .. k}
           Good(k) == /\ h[k] \in Seq(Messages)
                      /\ ToSet(h[k]) = ToSet(sent) \cup first(k)
                      /\ ToSet(new) \cap ToSet(sent) = {} =>
                           /\ Len(h[k]) = Len(sent) + k
                           /\ \A j \in 1 .. Len(sent) : h[k][j] = sent[j]
                           /\ \A j \in 1 .. k : h[k][Len(sent) + j] = new[j]
           P == {k \in 0 .. n : Good(k)}
<1> HIDE DEF n
<1>3. Len(sent) \in Nat
  BY LenProperties
<1>4. 0 \in P
  <2>1. h[0] = sent
    <3>1. 0 \in 0 .. n
      BY <1>1
    <3>2. QED
      BY <1>2, <3>1
  <2>2. first(0) = {}
    OBVIOUS
  <2>3. Good(0)
    BY <1>3, <2>1, <2>2
  <2> HIDE DEF Good
  <2>4. QED
    BY <1>1, <2>3
<1>5. ASSUME NEW k \in 0 .. n - 1, k \in P PROVE k + 1 \in P
  <2>1. /\ k + 1 \in 0 .. n /\ k + 1 \in 1 .. n /\ k + 1 # 0 /\ (k + 1) - 1 = k
    BY <1>1
  <2>2. h[k + 1] = IF new[k + 1] \in ToSet(sent) THEN h[k] ELSE Append(h[k], new[k + 1])
    BY <1>2, <2>1
  <2>3. first(k + 1) = first(k) \cup {new[k + 1]}
    <3>1. \A j \in 1 .. k + 1 : j \in 1 .. k \/ j = k + 1
      OBVIOUS
    <3>2. \A j \in 1 .. k : j \in 1 .. k + 1
      OBVIOUS
    <3>3. QED
      BY <2>1, <3>1, <3>2
  <2>4. new[k + 1] \in ToSet(new) /\ new[k + 1] \in Messages
    BY <1>1, <2>1
  <2>5. Good(k)
    BY <1>5
  <2>6. CASE new[k + 1] \in ToSet(sent)
    <3>1. h[k + 1] = h[k]
      BY <2>2, <2>6
    <3>2. ToSet(new) \cap ToSet(sent) # {}
      BY <2>4, <2>6
    <3> HIDE DEF first
    <3>3. Good(k + 1)
      BY <2>3, <2>5, <2>6, <3>1, <3>2
    <3> HIDE DEF Good
    <3>4. QED
      BY <2>1, <3>3
  <2>7. CASE new[k + 1] \notin ToSet(sent)
    <3>1. h[k + 1] = Append(h[k], new[k + 1]) /\ h[k] \in Seq(Messages)
      BY <2>2, <2>5, <2>7
    <3>2. /\ h[k + 1] \in Seq(Messages) /\ Len(h[k + 1]) = Len(h[k]) + 1
          /\ \A j \in 1 .. Len(h[k]) : h[k + 1][j] = h[k][j]
          /\ h[k + 1][Len(h[k]) + 1] = new[k + 1]
          /\ ToSet(h[k + 1]) = ToSet(h[k]) \cup {new[k + 1]}
      BY <2>4, <3>1, MembersOfAppend
    <3> HIDE DEF first
    <3>3. ToSet(h[k + 1]) = ToSet(sent) \cup first(k + 1)
      BY <2>3, <2>5, <3>2
    <3>4. ASSUME ToSet(new) \cap ToSet(sent) = {}
          PROVE  /\ Len(h[k + 1]) = Len(sent) + (k + 1)
                 /\ \A j \in 1 .. Len(sent) : h[k + 1][j] = sent[j]
                 /\ \A j \in 1 .. k + 1 : h[k + 1][Len(sent) + j] = new[j]
      <4>1. /\ Len(h[k]) = Len(sent) + k
            /\ \A j \in 1 .. Len(sent) : h[k][j] = sent[j]
            /\ \A j \in 1 .. k : h[k][Len(sent) + j] = new[j]
        BY <2>5, <3>4
      <4>2. Len(h[k + 1]) = Len(sent) + (k + 1)
        BY <1>3, <3>2, <4>1
      <4>3. ASSUME NEW j \in 1 .. Len(sent) PROVE h[k + 1][j] = sent[j]
        <5>1. j \in 1 .. Len(h[k])
          BY <1>3, <4>1
        <5>2. QED
          BY <3>2, <4>1, <5>1
      <4>4. ASSUME NEW j \in 1 .. k + 1 PROVE h[k + 1][Len(sent) + j] = new[j]
        <5>1. CASE j = k + 1
          <6>1. Len(sent) + j = Len(h[k]) + 1
            BY <1>3, <4>1, <5>1
          <6>2. QED
            BY <3>2, <5>1, <6>1
        <5>2. CASE j # k + 1
          <6>1. j \in 1 .. k /\ Len(sent) + j \in 1 .. Len(h[k])
            BY <1>3, <4>1, <5>2
          <6>2. QED
            BY <3>2, <4>1, <6>1
        <5>3. QED
          BY <5>1, <5>2
      <4>5. QED
        BY <4>2, <4>3, <4>4
    <3>5. Good(k + 1)
      BY <3>2, <3>3, <3>4
    <3> HIDE DEF Good
    <3>6. QED
      BY <2>1, <3>5
  <2>8. QED
    BY <2>6, <2>7
<1> HIDE DEF P
<1>6. n \in P
  <2>1. \A k \in 0 .. n : k \in P
    BY <1>1, <1>4, <1>5, UpTo
  <2>2. QED
    BY <1>1, <2>1
<1>7. Good(n)
  BY <1>6 DEF P
<1>8. ASSUME ToSet(new) \cap ToSet(sent) = {} PROVE Given(new) = sent \o new
  <2>1. /\ h[n] \in Seq(Messages) /\ Len(h[n]) = Len(sent) + n
        /\ \A j \in 1 .. Len(sent) : h[n][j] = sent[j]
        /\ \A j \in 1 .. n : h[n][Len(sent) + j] = new[j]
    BY <1>7, <1>8
  <2>2. /\ sent \o new \in Seq(Messages) /\ Len(sent \o new) = Len(sent) + n
        /\ \A j \in 1 .. Len(sent) : (sent \o new)[j] = sent[j]
        /\ \A j \in 1 .. Len(sent) + n : j > Len(sent) =>
              j - Len(sent) \in 1 .. n /\ (sent \o new)[j] = new[j - Len(sent)]
    BY MembersOfConcat DEF n
  <2>3. ASSUME NEW j \in 1 .. Len(sent) + n PROVE h[n][j] = (sent \o new)[j]
    <3>1. CASE j \in 1 .. Len(sent)
      BY <2>1, <2>2, <3>1
    <3>2. CASE j > Len(sent)
      <4>1. j - Len(sent) \in 1 .. n /\ Len(sent) + (j - Len(sent)) = j
        BY <1>1, <1>3, <3>2
      <4>2. QED
        BY <2>1, <2>2, <3>2, <4>1
    <3>3. j \in 1 .. Len(sent) \/ j > Len(sent)
      BY <1>1, <1>3
    <3>4. QED
      BY <3>1, <3>2, <3>3
  <2>4. h[n] = sent \o new
    <3>1. PICK u, v : u = h[n] /\ v = sent \o new
      OBVIOUS
    <3>2. /\ u \in Seq(Messages) /\ v \in Seq(Messages) /\ Len(u) = Len(v)
          /\ \A j \in 1 .. Len(u) : u[j] = v[j]
      BY <2>1, <2>2, <2>3, <3>1
    <3>3. u = v
      BY <3>2, SeqEqual
    <3>4. QED
      BY <3>1, <3>3
  <2>5. QED
    BY <1>2, <2>4
<1>9. first(n) = ToSet(new)
  BY <1>1
<1>10. QED
  BY <1>2, <1>7, <1>8, <1>9

(* A piece written behind the others.                                      *)
LEMMA FileAppend ==
  ASSUME NEW f, NEW s, FileOf(f, s), NEW p \in Pieces,
         \A q \in ToSet(s) : Before(q, p),
         p.brk # "nl" => p.part = 1,
         s # <<>> /\ Last(s).brk # "nl" => p = RestOf(Last(s)),
         p.part = 2 => s # <<>> /\ Last(s).brk # "nl",
         p.kind = "last" => f = "snort-full", p.kind = "wide" => f # "snort-full"
  PROVE  /\ FileOf(f, Append(s, p))
         /\ Last(Append(s, p)) = p /\ Append(s, p) # <<>>
<1> DEFINE t == Append(s, p)
<1>1. s \in Messages /\ Len(s) \in Nat /\ Sorted(s)
      /\ \A k \in 1 .. Len(s) : s[k] \in Pieces /\ s[k] \in ToSet(s)
  BY FilePieces
<1>2. /\ t \in Messages /\ Len(t) = Len(s) + 1
      /\ \A j \in 1 .. Len(s) : t[j] = s[j]
      /\ t[Len(s) + 1] = p
  BY <1>1, MembersOfAppend DEF Messages
<1>3. s # <<>> => Len(s) \in 1 .. Len(s) /\ Last(s) = s[Len(s)]
  <2>1. s # <<>> => Len(s) # 0
    BY <1>1, EmptySeq DEF Messages
  <2>2. QED
    BY <1>1, <2>1 DEF Last
<1> HIDE DEF t
<1>4. Sorted(t)
  <2>1. SUFFICES ASSUME NEW a \in 1 .. Len(t), NEW b \in 1 .. Len(t), a < b
                 PROVE  Before(t[a], t[b])
    BY DEF Sorted
  <2>2. a \in 1 .. Len(s) /\ t[a] = s[a]
    BY <1>1, <1>2, <2>1
  <2>3. CASE b \in 1 .. Len(s)
    BY <1>1, <1>2, <2>1, <2>2, <2>3 DEF Sorted
  <2>4. CASE b = Len(s) + 1
    BY <1>1, <1>2, <2>2, <2>4
  <2>5. QED
    BY <1>1, <1>2, <2>3, <2>4
<1>5. ASSUME NEW k \in 1 .. Len(t), t[k].brk # "nl"
      PROVE  t[k].part = 1 /\ (k < Len(t) => t[k + 1] = RestOf(t[k]))
  <2>1. CASE k = Len(s) + 1
    BY <1>1, <1>2, <1>5, <2>1
  <2>2. CASE k = Len(s)
    <3>1. s # <<>> /\ k \in 1 .. Len(s) /\ t[k] = s[k] /\ t[k + 1] = p
      BY <1>1, <1>2, <2>2
    <3>2. p = RestOf(s[k])
      BY <1>3, <1>5, <2>2, <3>1
    <3>3. s[k].part = 1
      BY <1>5, <3>1 DEF FileOf
    <3>4. QED
      BY <3>1, <3>2, <3>3
  <2>3. CASE k < Len(s)
    <3>1. k \in 1 .. Len(s) /\ k + 1 \in 1 .. Len(s) /\ t[k] = s[k] /\ t[k + 1] = s[k + 1]
      BY <1>1, <1>2, <2>3
    <3>2. QED
      BY <1>5, <2>3, <3>1 DEF FileOf
  <2>4. QED
    BY <1>1, <1>2, <2>1, <2>2, <2>3
<1>6. ASSUME NEW k \in 1 .. Len(t), t[k].part = 2
      PROVE  k - 1 \in 1 .. Len(t) /\ t[k - 1].brk # "nl"
  <2>1. CASE k = Len(s) + 1
    <3>1. s # <<>> /\ Last(s).brk # "nl"
      BY <1>2, <1>6, <2>1
    <3>2. k - 1 = Len(s) /\ k - 1 \in 1 .. Len(s) /\ k - 1 \in 1 .. Len(t)
      BY <1>1, <1>2, <1>3, <2>1, <3>1
    <3>3. QED
      BY <1>2, <1>3, <3>1, <3>2
  <2>2. CASE k \in 1 .. Len(s)
    <3>1. k - 1 \in 1 .. Len(s) /\ s[k - 1].brk # "nl"
      BY <1>2, <1>6, <2>2 DEF FileOf
    <3>2. k - 1 \in 1 .. Len(t) /\ t[k - 1] = s[k - 1]
      BY <1>1, <1>2, <3>1
    <3>3. QED
      BY <3>1, <3>2
  <2>3. QED
    BY <1>1, <1>2, <2>1, <2>2
<1>7. ASSUME NEW k \in 1 .. Len(t)
      PROVE  (t[k].kind = "last" => f = "snort-full") /\ (t[k].kind = "wide" => f # "snort-full")
  <2>1. CASE k = Len(s) + 1
    BY <1>2, <1>7, <2>1
  <2>2. CASE k \in 1 .. Len(s)
    BY <1>2, <1>7, <2>2 DEF FileOf
  <2>3. QED
    BY <1>1, <1>2, <2>1, <2>2
<1>8. FileOf(f, t)
  BY <1>2, <1>4, <1>5, <1>6, <1>7 DEF FileOf
<1>9. Last(t) = p
  BY <1>2 DEF Last
<1>10. t # <<>>
  BY <1>1, <1>2
<1>11. QED
  BY <1>8, <1>9, <1>10 DEF t

-----------------------------------------------------------------------------
(* The values of the variables, as long as they are not bounded by others. *)
Values ==
  /\ disk \in [Inodes -> Messages]
  /\ made \in Inodes /\ wfd = made
  /\ written \in 0 .. MaxLines /\ format \in Formats /\ dated \in BOOLEAN
  /\ log \in [day : Days, fp : Inodes \cup {None}, fd : Inodes \cup {None},
              pos : 0 .. MaxSize, size : 0 .. MaxSize, ign : Nat]
  /\ f_check \in 0 .. VCHECK_FILES + 1 /\ pc \in {"read", "check", "ended"} /\ cuts \in 0 .. MaxCuts
  /\ pc = "read" => f_check <= VCHECK_FILES
  /\ sent \in Seq(Messages) /\ \A m \in ToSet(sent) : m # <<>>
  /\ resent \subseteq ToSet(sent) /\ refused \subseteq ToSet(sent)
  /\ fresh \subseteq Pieces /\ excused \subseteq Pieces /\ opened \subseteq Inodes
  /\ cut \in BOOLEAN

(* The files hold the lines in the order they were written; only the one   *)
(* that is being written may end within a line, which is the last begun.   *)
Known == Said(sent) \cup UNION {ToSet(disk[i]) : i \in Inodes}

InFiles ==
  /\ \A i \in Inodes : FileOf(format, disk[i])
  /\ \A i, j \in Inodes : i < j => AllBefore(ToSet(disk[i]), ToSet(disk[j]))
  /\ \A i \in Inodes : i > made => disk[i] = <<>>
  /\ \A i \in Inodes : i # made => ~ Pending(i)
  /\ Pending(made) => Last(disk[made]).line = written
  /\ \A p \in Known : /\ p \in Pieces /\ p.line <= written
                      /\ Pending(made) /\ p.line = written => p.part = 1

(* A file holds a piece for every line and one more for a split one.       *)
Splits(n) == Cardinality(Split \cap (1 .. n))

Sizes ==
  \A i \in Inodes :
    /\ Len(disk[i]) <= written + Splits(written)
    /\ Pending(i) => Len(disk[i]) + 1 <= written + Splits(written)

(* Under the name of the log is the newest file or none; the file that is  *)
(* open, or was last, is never newer than the one a name leads to.         *)
Names ==
  /\ dir \in [Days -> Inodes \cup {None}] /\ today \in Days /\ log.day \in 1 .. today
  /\ ~ dated => today = 1 /\ dir[1] \in {made, None}
  /\ \A d \in Days : dir[d] # None => dir[d] <= made
  /\ today = 1 => dir[2] = None
  /\ dir[1] # None /\ dir[2] # None => dir[1] < dir[2]
  /\ log.fp # None => log.fp = log.fd /\ log.fp \in opened
  /\ log.fd # None => log.fd <= made
  /\ dated /\ log.fp # None => dir[log.day] = log.fp
  /\ dated /\ log.fd # None /\ log.day = 1 /\ dir[2] # None => log.fd < dir[2]
  /\ dated /\ format # "snort-full" /\ log.fp = None /\ log.fd # None /\ dir[log.day] # None =>
       log.fd < dir[log.day]

(* Errors are counted for a file that was never there, and for bad syntax. *)
Errors ==
  format # "snort-full" => /\ log.ign = 0 \/ (~ dated /\ log.fp = None /\ opened = {})
                           /\ ~ dated /\ opened # {} => log.fp # None

(* What has become of every line of the files that were opened: after a    *)
(* round nothing is ahead of the reader but what has come since.           *)
Accounted ==
  /\ cut => log.fp # None /\ ToSet(disk[log.fp]) \subseteq excused
  /\ log.fp # None /\ ~ cut => log.pos <= Len(disk[log.fp])
  /\ \A i \in opened : \A k \in 1 .. Len(disk[i]) :
       \/ disk[i][k] \in Said(sent) \cup excused
       \/ Passes(format, disk[i], disk[i][k])
       \/ i = log.fp /\ k > log.pos /\ (pc = "check" => disk[i][k] \in fresh)

(* What was sent lies before all that is still to be read, until the        *)
(* program ends.                                                           *)
OnceOnly == format # "audit" /\ ~ (dated /\ format = "snort-full")

Ordered ==
  OnceOnly =>
    /\ resent = {} /\ InOrder(sent)
    /\ log.fd = None => Said(sent) = {}
    /\ pc # "ended" /\ log.fp # None =>
         AllBefore(Said(sent), Part(disk[log.fp], log.pos, Len(disk[log.fp])))
    /\ \A j \in Inodes : log.fd # None /\ log.fd < j => AllBefore(Said(sent), ToSet(disk[j]))

(* The messages: lines are whole where the reader waits for their end, and  *)
(* what goes with them is older.                                           *)
Wholes ==
  /\ format \in Holding => \A m \in ToSet(sent) : Whole(m)
  /\ tails \subseteq [of : ToSet(sent), tail : Pieces]
  /\ \A t \in tails : StaleIsOld(t)

CollectorIInv ==
  Values /\ InFiles /\ Sizes /\ Names /\ Errors /\ Accounted /\ Ordered /\ Wholes

-----------------------------------------------------------------------------
LEMMA InodesAre ==
  /\ Inodes \subseteq Nat /\ 1 \in Inodes /\ None \notin Inodes
  /\ \A i \in Inodes : i >= 1
  /\ \A i \in Inodes, j \in Nat : 1 <= j /\ j <= i => j \in Inodes
  /\ MaxLines \in Nat /\ MaxSize \in Nat /\ MaxCuts \in Nat /\ IsFiniteSet(Split)
  /\ VCHECK_FILES \in Nat /\ OPEN_ATTEMPTS \in Nat /\ Split \subseteq 1 .. MaxLines
<1>1. Cardinality(Inodes) \in Nat
  BY CollectorAssumption, FS_CardinalityType
<1>2. PICK n \in Nat : Inodes = 1 .. n
  BY <1>1, CollectorAssumption
<1>3. IsFiniteSet(Split) /\ Cardinality(Split) \in Nat
  <2>1. IsFiniteSet(1 .. MaxLines)
    BY CollectorAssumption, FS_Interval
  <2>2. QED
    BY <2>1, CollectorAssumption, FS_Subset, FS_CardinalityType
<1>4. QED
  BY <1>2, <1>3, CollectorAssumption DEF MaxSize

LEMMA SplitsAre ==
  ASSUME NEW n \in 0 .. MaxLines
  PROVE  /\ Splits(n) \in Nat /\ n + Splits(n) <= MaxSize
         /\ n + 1 <= MaxLines => Splits(n) <= Splits(n + 1)
         /\ n + 1 \in Split => Splits(n + 1) = Splits(n) + 1
<1>0. n \in Nat
  BY InodesAre
<1> DEFINE A == Split \cap (1 .. n)
           B == Split \cap (1 .. n + 1)
<1>1. IsFiniteSet(A) /\ IsFiniteSet(B) /\ A \subseteq Split /\ A \subseteq B
  <2>1. A \subseteq Split /\ B \subseteq Split /\ A \subseteq B
    BY <1>0
  <2>2. QED
    BY <2>1, InodesAre, FS_Subset
<1>2. Cardinality(A) \in Nat /\ Cardinality(A) <= Cardinality(Split)
      /\ Cardinality(A) <= Cardinality(B) /\ Cardinality(Split) \in Nat
  BY <1>1, InodesAre, FS_Subset, FS_CardinalityType
<1>3. ASSUME n + 1 \in Split PROVE Cardinality(B) = Cardinality(A) + 1
  <2>1. B = A \cup {n + 1} /\ n + 1 \notin A
    BY <1>0, <1>3
  <2>2. QED
    BY <1>1, <2>1, FS_AddElement
<1>4. Splits(n) = Cardinality(A) /\ Splits(n + 1) = Cardinality(B)
  BY DEF Splits
<1> HIDE DEF A, B
<1>5. QED
  BY <1>0, <1>2, <1>3, <1>4, InodesAre DEF MaxSize

LEMMA KnownIs ==
  ASSUME Values
  PROVE  /\ \A i \in Inodes : ToSet(disk[i]) \subseteq Known
         /\ Said(sent) \subseteq Known
         /\ \A p \in Known : p \in Said(sent) \/ \E i \in Inodes : p \in ToSet(disk[i])
BY DEF Known

LEMMA LastIs ==
  ASSUME NEW s \in Messages
  PROVE  /\ s # <<>> => Len(s) \in 1 .. Len(s) /\ Last(s) = s[Len(s)] /\ Last(s) \in ToSet(s)
         /\ Len(s) \in Nat
<1>1. Len(s) \in Nat /\ \A k \in 1 .. Len(s) : s[k] \in ToSet(s)
  BY MembersOf DEF Messages
<1>2. s # <<>> => Len(s) # 0
  BY EmptySeq DEF Messages
<1>3. QED
  BY <1>1, <1>2 DEF Last

-----------------------------------------------------------------------------
(* The program writes.                                                     *)

(* A piece is written to the newest file: for it, all that is known lies   *)
(* before it.                                                              *)
Behind(p) ==
  /\ p \in Pieces /\ Put1(p)
  /\ \A q \in Known : Before(q, p)
  /\ FileOf(format, Append(disk[made], p))

LEMMA PutFile ==
  ASSUME Values, NEW p \in Pieces, Put1(p)
  PROVE  /\ disk' = [disk EXCEPT ![made] = Append(disk[made], p)]
         /\ disk' \in [Inodes -> Messages]
         /\ disk'[made] = Append(disk[made], p)
         /\ \A i \in Inodes : i # made => disk'[i] = disk[i]
         /\ Len(disk[made]) \in Nat /\ Len(disk'[made]) = Len(disk[made]) + 1
         /\ \A k \in 1 .. Len(disk[made]) : disk'[made][k] = disk[made][k]
         /\ disk'[made][Len(disk[made]) + 1] = p
         /\ ToSet(disk'[made]) = ToSet(disk[made]) \cup {p}
         /\ UNCHANGED <<dir, today, wfd, made, cuts, format, dated, log, f_check, pc, sent,
                        resent, refused, tails, opened, cut>>
<1>1. /\ disk \in [Inodes -> Messages] /\ made \in Inodes /\ wfd = made
      /\ disk' = [disk EXCEPT ![made] = Append(disk[made], p)]
  BY DEF Values, Put1
<1>2. disk[made] \in Seq(Pieces)
  BY <1>1 DEF Messages
<1> DEFINE t == Append(disk[made], p)
<1>3. /\ t \in Messages /\ Len(t) = Len(disk[made]) + 1 /\ Len(disk[made]) \in Nat
      /\ \A k \in 1 .. Len(disk[made]) : t[k] = disk[made][k]
      /\ t[Len(disk[made]) + 1] = p
      /\ ToSet(t) = ToSet(disk[made]) \cup {p}
  BY <1>2, MembersOfAppend DEF Messages
<1> HIDE DEF t
<1>4. disk' = [disk EXCEPT ![made] = t]
  BY <1>1 DEF t
<1>5. disk' \in [Inodes -> Messages] /\ disk'[made] = t /\ \A i \in Inodes : i # made => disk'[i] = disk[i]
  BY <1>1, <1>3, <1>4
<1>6. UNCHANGED <<dir, today, wfd, made, cuts, format, dated, log, f_check, pc, sent,
                        resent, refused, tails, opened, cut>>
  BY DEF Put1, agent, queue
<1>7. QED
  BY <1>3, <1>4, <1>5, <1>6 DEF t

-----------------------------------------------------------------------------
LEMMA PutKnown ==
  ASSUME Values, NEW p \in Pieces, Put1(p)
  PROVE  Known' = Known \cup {p}
<1>1. /\ ToSet(disk'[made]) = ToSet(disk[made]) \cup {p} /\ made \in Inodes /\ sent' = sent
      /\ \A i \in Inodes : i # made => disk'[i] = disk[i]
  BY PutFile DEF Values
<1>2. \A i \in Inodes : ToSet(disk'[i]) = ToSet(disk[i]) \cup (IF i = made THEN {p} ELSE {})
  BY <1>1
<1>3. QED
  BY <1>1, <1>2 DEF Known

LEMMA PutInFiles ==
  ASSUME Values, InFiles, NEW p, Behind(p), written' \in {written, written + 1},
         p.line <= written', p.brk # "nl" => p.line = written' /\ written' = written + 1,
         Last(Append(disk[made], p)) = p, Append(disk[made], p) # <<>>
  PROVE  InFiles'
<1>1. p \in Pieces /\ Put1(p) /\ \A q \in Known : Before(q, p)
  BY DEF Behind
<1>2. /\ disk'[made] = Append(disk[made], p)
      /\ \A i \in Inodes : i # made => disk'[i] = disk[i]
      /\ ToSet(disk'[made]) = ToSet(disk[made]) \cup {p}
      /\ made' = made /\ format' = format /\ sent' = sent
  BY <1>1, PutFile
<1>3. made \in Inodes /\ made \in Nat /\ written \in Nat
  BY InodesAre DEF Values
<1>4. \A i \in Inodes : FileOf(format, disk'[i])
  BY <1>2, <1>3 DEF Behind, InFiles
<1>5. ASSUME NEW i \in Inodes, NEW j \in Inodes, i < j
      PROVE  AllBefore(ToSet(disk'[i]), ToSet(disk'[j]))
  <2>1. AllBefore(ToSet(disk[i]), ToSet(disk[j])) /\ ToSet(disk[i]) \subseteq Known
    BY <1>5, KnownIs DEF InFiles
  <2>2. CASE i = made
    <3>1. disk'[j] = <<>>
      BY <1>2, <1>3, <1>5, <2>2, InodesAre DEF InFiles
    <3>2. QED
      BY <3>1, SaidNothing DEF AllBefore
  <2>3. CASE i # made /\ j = made
    BY <1>1, <1>2, <2>1, <2>3 DEF AllBefore
  <2>4. CASE i # made /\ j # made
    BY <1>2, <2>1, <2>4
  <2>5. QED
    BY <2>2, <2>3, <2>4
<1>6. \A i \in Inodes : i > made => disk'[i] = <<>>
  BY <1>2, <1>3 DEF InFiles
<1>7. \A i \in Inodes : i # made => ~ Pending(i)'
  BY <1>2 DEF InFiles, Pending
<1>8. Pending(made)' <=> p.brk # "nl"
  BY <1>2 DEF Pending
<1>9. Pending(made)' => Last(disk'[made]).line = written'
  BY <1>2, <1>8
<1>10. ASSUME NEW q \in Known'
       PROVE  /\ q \in Pieces /\ q.line <= written'
              /\ Pending(made)' /\ q.line = written' => q.part = 1
  <2>1. q \in Known \/ q = p
    BY <1>1, PutKnown
  <2>2. CASE q = p
    <3>1. p.brk # "nl" => p.part = 1
      <4>1. made \in Inodes /\ FileOf(format, disk'[made])
        BY <1>3, <1>4
      <4>2. Len(disk[made]) + 1 \in 1 .. Len(disk'[made]) /\ disk'[made][Len(disk[made]) + 1] = p
        BY <1>1, PutFile
      <4>3. QED
        BY <4>1, <4>2 DEF FileOf
    <3>2. QED
      BY <1>1, <1>8, <2>2, <3>1
  <2>3. CASE q \in Known
    <3>1. q \in Pieces /\ q.line <= written /\ q.line \in Nat
      BY <2>3, PieceFields DEF InFiles
    <3>2. Pending(made)' => q.line # written'
      BY <1>3, <1>8, <3>1
    <3>3. q.line <= written'
      BY <1>3, <3>1
    <3>4. QED
      BY <3>1, <3>2, <3>3
  <2>4. QED
    BY <2>1, <2>2, <2>3
<1>11. \A i \in Inodes : FileOf(format', disk'[i])
  BY <1>2, <1>4
<1>12. QED
  BY <1>2, <1>5, <1>6, <1>7, <1>9, <1>10, <1>11 DEF InFiles

(* What a reader may pass over, it may with another piece behind the file.  *)
LEMMA PassesAppend ==
  ASSUME NEW f, NEW s, NEW p \in Pieces, FileOf(f, s), FileOf(f, Append(s, p)),
         \A q \in ToSet(s) : Before(q, p), NEW x \in ToSet(s), Passes(f, s, x)
  PROVE  Passes(f, Append(s, p), x)
<1>1. s \in Seq(Pieces) /\ Len(s) \in Nat /\ \A k \in 1 .. Len(s) : s[k] \in Pieces /\ s[k] \in ToSet(s)
  BY FilePieces DEF Messages
<1>2. ToSet(Append(s, p)) = ToSet(s) \cup {p} /\ Len(Append(s, p)) = Len(s) + 1
      /\ Append(s, p)[Len(s) + 1] = p /\ \A k \in 1 .. Len(s) : Append(s, p)[k] = s[k]
  BY <1>1, MembersOfAppend
<1>3. IsCut(ToSet(s), x) => IsCut(ToSet(Append(s, p)), x)
  BY <1>2 DEF IsCut
<1>4. ASSUME BeyondCache(ToSet(s), x) PROVE BeyondCache(ToSet(Append(s, p)), x)
  <2>1. PICK q \in ToSet(s) :
          /\ q.line + MAX_CACHE <= x.line
          /\ \A y \in ToSet(s) : q.line < y.line /\ y.line <= x.line => y.kind # "new"
    BY <1>4 DEF BeyondCache
  <2>2. x \in Pieces /\ q \in Pieces
    BY <1>1, MembersOf
  <2>3. x.line \in Nat /\ q.line \in Nat /\ p.line \in Nat /\ x.part \in {1, 2} /\ p.part \in {1, 2}
    BY <2>2, PieceFields
  <2>4. ASSUME q.line < p.line, p.line <= x.line PROVE p.kind # "new"
    <3>1. p.line = x.line /\ p.part = 2
      <4>1. Before(x, p)
        OBVIOUS
      <4>2. QED
        BY <2>3, <2>4, <4>1 DEF Before
    <3>2. Len(s) + 1 \in 1 .. Len(Append(s, p)) /\ (Len(s) + 1) - 1 = Len(s)
      BY <1>1, <1>2
    <3>3. Len(s) \in 1 .. Len(Append(s, p)) /\ Append(s, p)[Len(s)].brk # "nl"
      BY <1>2, <3>1, <3>2 DEF FileOf
    <3>4. Len(s) \in 1 .. Len(s) /\ Len(s) < Len(Append(s, p))
      BY <1>1, <1>2, <3>3
    <3>5. p = RestOf(s[Len(s)])
      BY <1>2, <3>3, <3>4 DEF FileOf
    <3>6. s[Len(s)] \in ToSet(s) /\ s[Len(s)] \in Pieces
      BY <1>1, <3>4
    <3>7. p.line = s[Len(s)].line /\ p.kind = s[Len(s)].kind
      BY <3>5, <3>6, PieceFields
    <3>8. QED
      BY <2>1, <2>4, <3>6, <3>7
  <2>5. QED
    BY <1>2, <2>1, <2>4 DEF BeyondCache
<1>5. QED
  BY <1>3, <1>4 DEF Passes

LEMMA PutAccounted ==
  ASSUME CollectorIInv, NEW p, Behind(p)
  PROVE  Accounted' /\ Ordered' /\ Wholes'
<1>1. p \in Pieces /\ Put1(p) /\ \A q \in Known : Before(q, p)
  BY DEF Behind
<1>2. Values /\ InFiles /\ Accounted /\ Ordered /\ Wholes /\ Names
  BY DEF CollectorIInv
<1>3. /\ disk'[made] = Append(disk[made], p)
      /\ \A i \in Inodes : i # made => disk'[i] = disk[i]
      /\ Len(disk[made]) \in Nat /\ Len(disk'[made]) = Len(disk[made]) + 1
      /\ \A k \in 1 .. Len(disk[made]) : disk'[made][k] = disk[made][k]
      /\ disk'[made][Len(disk[made]) + 1] = p
      /\ ToSet(disk'[made]) = ToSet(disk[made]) \cup {p}
      /\ UNCHANGED <<dir, today, wfd, made, cuts, format, dated, log, f_check, pc, sent,
                     resent, refused, tails, opened, cut>>
  BY <1>1, <1>2, PutFile
<1>4. /\ fresh' = fresh \cup {p} /\ excused \subseteq excused'
      /\ cut \/ (made \in opened /\ made # log.fp) => p \in excused'
  BY <1>1, <1>2 DEF Put1, Unreadable, Values
<1>5. /\ made \in Inodes /\ opened \subseteq Inodes /\ log.pos \in Nat
      /\ log.fp \in Inodes \cup {None} /\ log.fd \in Inodes \cup {None}
  <2>1. log.pos \in 0 .. MaxSize
    BY <1>2 DEF Values
  <2>2. QED
    BY <1>2, <2>1, InodesAre DEF Values
<1>6. cut' => log'.fp # None /\ ToSet(disk'[log'.fp]) \subseteq excused'
  <2>1. SUFFICES ASSUME cut PROVE log.fp # None /\ ToSet(disk'[log.fp]) \subseteq excused'
    BY <1>3
  <2>2. log.fp # None /\ ToSet(disk[log.fp]) \subseteq excused /\ log.fp \in Inodes
    BY <1>2, <1>5, <2>1 DEF Accounted
  <2>3. QED
    BY <1>3, <1>4, <2>1, <2>2
<1>7. log'.fp # None /\ ~ cut' => log'.pos <= Len(disk'[log'.fp])
  <2>1. SUFFICES ASSUME log.fp # None, ~ cut PROVE log.pos <= Len(disk'[log.fp])
    BY <1>3
  <2>2. log.pos <= Len(disk[log.fp]) /\ log.fp \in Inodes
    BY <1>2, <1>5, <2>1 DEF Accounted
  <2>3. QED
    BY <1>3, <1>5, <2>2
<1>8. ASSUME NEW i \in Inodes, NEW q \in ToSet(disk[i]), Passes(format, disk[i], q)
      PROVE  Passes(format, disk'[i], q)
  <2>1. CASE i = made
    <3>1. FileOf(format, disk[made]) /\ ToSet(disk[made]) \subseteq Known
      BY <1>2, <2>1, KnownIs DEF InFiles
    <3>2. FileOf(format, Append(disk[made], p))
      BY DEF Behind
    <3>3. QED
      BY <1>1, <1>3, <1>8, <2>1, <3>1, <3>2, PassesAppend
  <2>2. CASE i # made
    BY <1>3, <1>8, <2>2
  <2>3. QED
    BY <2>1, <2>2
<1>9. ASSUME NEW i \in opened', NEW k \in 1 .. Len(disk'[i])
      PROVE  \/ disk'[i][k] \in Said(sent') \cup excused'
             \/ Passes(format', disk'[i], disk'[i][k])
             \/ i = log'.fp /\ k > log'.pos /\ (pc' = "check" => disk'[i][k] \in fresh')
  <2>1. i \in opened /\ i \in Inodes
    BY <1>3, <1>5
  <2>2. CASE k \in 1 .. Len(disk[i]) /\ disk'[i][k] = disk[i][k]
    <3>1. \/ disk[i][k] \in Said(sent) \cup excused
          \/ Passes(format, disk[i], disk[i][k])
          \/ i = log.fp /\ k > log.pos /\ (pc = "check" => disk[i][k] \in fresh)
      BY <1>2, <2>1, <2>2 DEF Accounted
    <3>2. disk[i] \in Messages
      BY <1>2, <2>1 DEF Values
    <3>3. disk[i][k] \in ToSet(disk[i])
      BY <2>2, <3>2, MembersOf DEF Messages
    <3>4. QED
      BY <1>3, <1>4, <1>8, <2>1, <2>2, <3>1, <3>3
  <2>3. CASE i = made /\ k = Len(disk[i]) + 1
    <3>1. disk'[i][k] = p
      BY <1>3, <2>3
    <3>2. CASE cut \/ made # log.fp
      BY <1>4, <2>1, <2>3, <3>1, <3>2
    <3>3. CASE ~ cut /\ made = log.fp
      <4>1. log.fp # None
        BY <1>5, <3>3, InodesAre
      <4>2. k > log.pos
        BY <1>2, <1>3, <1>5, <2>3, <3>3, <4>1 DEF Accounted
      <4>3. QED
        BY <1>3, <1>4, <2>3, <3>1, <3>3, <4>2
    <3>4. QED
      BY <3>2, <3>3
  <2>4. QED
    <3>1. CASE i = made
      BY <1>3, <2>2, <2>3, <3>1
    <3>2. CASE i # made
      BY <1>3, <2>1, <2>2, <3>2
    <3>3. QED
      BY <3>1, <3>2
<1>10. Accounted'
  BY <1>6, <1>7, <1>9 DEF Accounted
<1>11. Ordered'
  <2>1. SUFFICES ASSUME OnceOnly PROVE Ordered'
    BY <1>3 DEF Ordered, OnceOnly
  <2>2. Said(sent) \subseteq Known
    BY <1>2, KnownIs
  <2>3. resent' = {} /\ InOrder(sent') /\ (log'.fd = None => Said(sent') = {})
    BY <1>2, <1>3, <2>1 DEF Ordered
  <2>4. ASSUME pc # "ended", log.fp # None
        PROVE  AllBefore(Said(sent), Part(disk'[log.fp], log.pos, Len(disk'[log.fp])))
    <3>1. AllBefore(Said(sent), Part(disk[log.fp], log.pos, Len(disk[log.fp])))
      BY <1>2, <2>1, <2>4 DEF Ordered
    <3>2. CASE log.fp # made
      BY <1>3, <1>5, <2>4, <3>1, <3>2
    <3>3. CASE log.fp = made
      <4>1. ASSUME NEW q \in Part(disk'[made], log.pos, Len(disk'[made]))
            PROVE  q = p \/ q \in Part(disk[made], log.pos, Len(disk[made]))
        <5>1. PICK x \in log.pos + 1 .. Len(disk[made]) + 1 : q = disk'[made][x]
          BY <1>3 DEF Part
        <5>2. CASE x = Len(disk[made]) + 1
          BY <1>3, <5>1, <5>2
        <5>3. CASE x # Len(disk[made]) + 1
          <6>1. x \in log.pos + 1 .. Len(disk[made]) /\ x \in 1 .. Len(disk[made])
            BY <1>3, <1>5, <5>3
          <6>2. QED
            BY <1>3, <5>1, <6>1 DEF Part
        <5>4. QED
          BY <5>2, <5>3
      <4>2. QED
        BY <1>1, <2>2, <3>1, <3>3, <4>1 DEF AllBefore
    <3>4. QED
      BY <3>2, <3>3
  <2>5. ASSUME NEW j \in Inodes, log.fd # None, log.fd < j
        PROVE  AllBefore(Said(sent), ToSet(disk'[j]))
    <3>1. AllBefore(Said(sent), ToSet(disk[j]))
      BY <1>2, <2>1, <2>5 DEF Ordered
    <3>2. QED
      BY <1>1, <1>3, <2>2, <3>1 DEF AllBefore
  <2>6. QED
    BY <1>3, <2>3, <2>4, <2>5 DEF Ordered
<1>12. Wholes'
  BY <1>2, <1>3 DEF Wholes, StaleIsOld
<1>13. QED
  BY <1>10, <1>11, <1>12

LEMMA PutOthers ==
  ASSUME CollectorIInv, NEW p, Behind(p), written' \in written .. MaxLines
  PROVE  Values' /\ Names' /\ Errors'
<1>1. p \in Pieces /\ Put1(p) /\ Values /\ Names /\ Errors
  BY DEF Behind, CollectorIInv
<1>2. /\ disk' \in [Inodes -> Messages]
      /\ UNCHANGED <<dir, today, wfd, made, cuts, format, dated, log, f_check, pc, sent,
                     resent, refused, tails, opened, cut>>
  BY <1>1, PutFile
<1>3. fresh' \subseteq Pieces /\ excused' \subseteq Pieces
  BY <1>1 DEF Put1, Values
<1>4. written' \in 0 .. MaxLines
  <2>1. written \in 0 .. MaxLines /\ MaxLines \in Nat
    BY <1>1, InodesAre DEF Values
  <2>2. QED
    BY <2>1
<1>5. Values'
  BY <1>1, <1>2, <1>3, <1>4 DEF Values
<1>6. Names'
  BY <1>1, <1>2 DEF Names
<1>7. Errors'
  BY <1>1, <1>2 DEF Errors
<1>8. QED
  BY <1>5, <1>6, <1>7

-----------------------------------------------------------------------------
(* The whole invariant over a step of the writer.                          *)
LEMMA PutSizes ==
  ASSUME CollectorIInv, NEW p, Behind(p),
         Last(Append(disk[made], p)) = p,
         \/ /\ written' = written /\ Pending(made) /\ p.brk = "nl"
         \/ /\ written' = written + 1 /\ written' <= MaxLines
            /\ p.brk # "nl" => written' \in Split
  PROVE  Sizes'
<1>1. p \in Pieces /\ Put1(p) /\ Values /\ Sizes /\ InFiles
  BY DEF Behind, CollectorIInv
<1>2. /\ disk'[made] = Append(disk[made], p)
      /\ \A i \in Inodes : i # made => disk'[i] = disk[i]
      /\ Len(disk[made]) \in Nat /\ Len(disk'[made]) = Len(disk[made]) + 1
      /\ made \in Inodes /\ written \in 0 .. MaxLines /\ written \in Nat
  <2>1. /\ disk'[made] = Append(disk[made], p)
        /\ \A i \in Inodes : i # made => disk'[i] = disk[i]
        /\ Len(disk[made]) \in Nat /\ Len(disk'[made]) = Len(disk[made]) + 1
    BY <1>1, PutFile
  <2>2. made \in Inodes /\ written \in 0 .. MaxLines /\ written \in Nat
    BY <1>1, InodesAre DEF Values
  <2>3. QED
    BY <2>1, <2>2
<1>3. /\ Splits(written) \in Nat /\ Splits(written') \in Nat
      /\ written' = written + 1 => Splits(written) <= Splits(written')
      /\ written' = written + 1 /\ p.brk # "nl" => Splits(written') = Splits(written) + 1
  <2>1. written' \in 0 .. MaxLines
    BY <1>2, InodesAre
  <2>2. QED
    BY <1>2, <2>1, SplitsAre
<1>4. \A i \in Inodes : Len(disk[i]) \in Nat
  BY <1>1, LastIs DEF Values
<1>5. ASSUME NEW i \in Inodes
      PROVE  /\ Len(disk'[i]) <= written' + Splits(written')
             /\ Pending(i)' => Len(disk'[i]) + 1 <= written' + Splits(written')
  <2>1. /\ Len(disk[i]) <= written + Splits(written)
        /\ Pending(i) => Len(disk[i]) + 1 <= written + Splits(written)
    BY <1>1 DEF Sizes
  <2>2. CASE i # made
    <3>1. disk'[i] = disk[i] /\ ~ Pending(i)
      BY <1>1, <1>2, <2>2 DEF InFiles
    <3>2. ~ Pending(i)'
      BY <3>1 DEF Pending
    <3>3. Len(disk[i]) <= written' + Splits(written')
      BY <1>2, <1>3, <1>4, <2>1
    <3>4. QED
      BY <3>1, <3>2, <3>3
  <2>3. CASE i = made
    <3>1. Pending(i)' => p.brk # "nl"
      BY <1>2, <2>3 DEF Pending
    <3>2. CASE written' = written /\ Pending(made) /\ p.brk = "nl"
      BY <1>2, <1>3, <2>1, <2>3, <3>1, <3>2
    <3>3. CASE written' = written + 1
      BY <1>2, <1>3, <2>1, <2>3, <3>1, <3>3
    <3>4. QED
      BY <3>2, <3>3
  <2>4. QED
    BY <2>2, <2>3
<1>6. QED
  BY <1>5 DEF Sizes

LEMMA WriteLineStep == ASSUME CollectorIInv, WriteLine PROVE CollectorIInv'
<1>1. Values /\ InFiles
  BY DEF CollectorIInv
<1>2. PICK kind \in Kinds, brk \in {"nl", "full", "none"} :
        /\ written < MaxLines /\ ~ Pending(wfd)
        /\ brk # "nl" => written + 1 \in Split
        /\ Put1([line |-> written + 1, part |-> 1, kind |-> kind, brk |-> brk])
        /\ written' = written + 1
  BY DEF WriteLine
<1> DEFINE p == [line |-> written + 1, part |-> 1, kind |-> kind, brk |-> brk]
<1>3. /\ made \in Inodes /\ wfd = made /\ written \in Nat /\ written + 1 \in 1 .. MaxLines
      /\ disk[made] \in Messages /\ ~ Pending(made)
  BY <1>1, <1>2, InodesAre DEF Values
<1>4. kind \in {"new", "more", "wide", "last"} /\ (kind = "last" => format = "snort-full")
      /\ (kind = "wide" => format # "snort-full")
  <2>1. disk[made] # <<>> => Last(disk[made]).kind \in {"new", "more", "wide", "last"}
    <3>1. disk[made] # <<>> => Last(disk[made]) \in Known
      BY <1>1, <1>3, LastIs, KnownIs
    <3>2. QED
      BY <1>1, <3>1, PieceFields DEF InFiles
  <2>2. PICK s : s = disk[made]
    OBVIOUS
  <2>3. CASE s = <<>> \/ format \in {"syslog", "multiline"}
    BY <1>3, <2>2, <2>3 DEF Kinds
  <2>4. CASE s # <<>> /\ format = "snort-full"
    <3>1. kind \in Follows[Last(s).kind]
      BY <1>3, <2>2, <2>4 DEF Kinds
    <3>2. Last(s).kind # "wide"
      <4>1. Len(s) \in 1 .. Len(s) /\ Last(s) = s[Len(s)]
        BY <1>3, <2>2, <2>4, LastIs
      <4>2. FileOf(format, s)
        BY <1>1, <1>3, <2>2 DEF InFiles
      <4>3. QED
        BY <2>4, <4>1, <4>2 DEF FileOf
    <3>3. QED
      BY <2>1, <2>2, <2>4, <3>1, <3>2 DEF Follows
  <2>5. CASE s # <<>> /\ format \notin {"syslog", "multiline", "snort-full"}
    BY <1>3, <2>2, <2>5 DEF Kinds
  <2>6. QED
    BY <2>3, <2>4, <2>5
<1>5. p \in Pieces /\ p.line = written + 1 /\ p.part = 1 /\ p.kind = kind /\ p.brk = brk
  BY <1>3, <1>4 DEF Pieces
<1>6. Put1(p)
  BY <1>2
<1> HIDE DEF p
<1>7. \A q \in Known : Before(q, p)
  <2>1. SUFFICES ASSUME NEW q \in Known PROVE Before(q, p)
    OBVIOUS
  <2>2. q \in Pieces /\ q.line <= written
    BY <1>1 DEF InFiles
  <2>3. q.line \in Nat
    BY <2>2, PieceFields
  <2>4. QED
    BY <1>3, <1>5, <2>2, <2>3 DEF Before
<1>8. FileOf(format, disk[made]) /\ ToSet(disk[made]) \subseteq Known
  BY <1>1, <1>3, KnownIs DEF InFiles
<1>9. ~ (disk[made] # <<>> /\ Last(disk[made]).brk # "nl")
  BY <1>3 DEF Pending
<1>10. /\ FileOf(format, Append(disk[made], p)) /\ Last(Append(disk[made], p)) = p
       /\ Append(disk[made], p) # <<>>
  BY <1>4, <1>5, <1>7, <1>8, <1>9, FileAppend
<1>11. Behind(p)
  BY <1>5, <1>6, <1>7, <1>10 DEF Behind
<1>12. InFiles'
  BY <1>1, <1>2, <1>3, <1>5, <1>10, <1>11, PutInFiles
<1>13. Sizes'
  BY <1>2, <1>3, <1>5, <1>10, <1>11, PutSizes
<1>14. Values' /\ Names' /\ Errors'
  <2>1. written' \in written .. MaxLines
    BY <1>2, <1>3
  <2>2. QED
    BY <1>11, <2>1, PutOthers
<1>15. QED
  BY <1>11, <1>12, <1>13, <1>14, PutAccounted DEF CollectorIInv

LEMMA WriteRestStep == ASSUME CollectorIInv, WriteRest PROVE CollectorIInv'
<1>1. Values /\ InFiles
  BY DEF CollectorIInv
<1>2. /\ made \in Inodes /\ wfd = made /\ written \in Nat /\ Pending(made)
      /\ disk[made] \in Messages /\ written' = written /\ written \in 0 .. MaxLines
      /\ MaxLines \in Nat
  BY <1>1, InodesAre DEF Values, WriteRest
<1>3. PICK l : l = Last(disk[made])
  OBVIOUS
<1>4. disk[made] # <<>> /\ l.brk # "nl" /\ l \in Known /\ l \in Pieces /\ l.line = written
  BY <1>1, <1>2, <1>3, LastIs, KnownIs DEF Pending, InFiles
<1>5. PICK p : p = RestOf(l)
  OBVIOUS
<1>6. /\ p \in Pieces /\ p.line = written /\ p.part = 2 /\ p.brk = "nl" /\ p.kind = l.kind
  BY <1>4, <1>5, PieceFields
<1>7. Put1(p)
  BY <1>2, <1>3, <1>5 DEF WriteRest, RestOf
<1>8. \A q \in Known : Before(q, p)
  <2>1. SUFFICES ASSUME NEW q \in Known PROVE Before(q, p)
    OBVIOUS
  <2>2. q \in Pieces /\ q.line <= written /\ (q.line = written => q.part = 1)
    BY <1>1, <1>2 DEF InFiles
  <2>3. q.line \in Nat
    BY <2>2, PieceFields
  <2>4. QED
    BY <1>2, <1>6, <2>2, <2>3 DEF Before
<1>9. FileOf(format, disk[made]) /\ ToSet(disk[made]) \subseteq Known
  BY <1>1, <1>2, KnownIs DEF InFiles
<1>10. (l.kind = "last" => format = "snort-full") /\ (l.kind = "wide" => format # "snort-full")
  <2>1. Len(disk[made]) \in 1 .. Len(disk[made]) /\ l = disk[made][Len(disk[made])]
    BY <1>2, <1>3, <1>4, LastIs
  <2>2. QED
    BY <1>9, <2>1 DEF FileOf
<1>11. /\ FileOf(format, Append(disk[made], p)) /\ Last(Append(disk[made], p)) = p
       /\ Append(disk[made], p) # <<>>
  BY <1>3, <1>4, <1>5, <1>6, <1>8, <1>9, <1>10, FileAppend
<1>12. Behind(p)
  BY <1>6, <1>7, <1>8, <1>11 DEF Behind
<1>13. InFiles'
  <2>1. p.line <= written' /\ written' \in {written, written + 1}
    BY <1>2, <1>6
  <2>2. QED
    BY <1>1, <1>6, <1>11, <1>12, <2>1, PutInFiles
<1>14. Sizes'
  BY <1>2, <1>6, <1>11, <1>12, PutSizes
<1>15. Values' /\ Names' /\ Errors'
  <2>1. written' \in written .. MaxLines
    BY <1>2
  <2>2. QED
    BY <1>12, <2>1, PutOthers
<1>16. QED
  BY <1>12, <1>13, <1>14, <1>15, PutAccounted DEF CollectorIInv

-----------------------------------------------------------------------------
(* The names of the log are changed, and it is cut.                        *)

LEMMA UnwatchedIs ==
  ASSUME Unwatched
  PROVE  UNCHANGED <<written, format, dated, log, f_check, pc, sent, resent, refused, tails, fresh, opened>>
BY DEF Unwatched, agent, queue

(* Nothing but names, the day or the number of files has changed.          *)
LEMMA NamesChange ==
  ASSUME CollectorIInv, Unwatched, UNCHANGED <<disk, cuts, excused, cut>>
  PROVE  /\ Errors' /\ Accounted' /\ Ordered' /\ Wholes'
         /\ wfd' = made' /\ made' \in Inodes => Values'
         /\ made' = made => InFiles' /\ Sizes'
<1>1. UNCHANGED <<written, format, dated, log, f_check, pc, sent, resent, refused, tails, fresh, opened>>
  BY UnwatchedIs
<1>2. Values /\ InFiles /\ Sizes /\ Errors /\ Accounted /\ Ordered /\ Wholes
  BY DEF CollectorIInv
<1>3. Errors' /\ Wholes'
  BY <1>1, <1>2 DEF Errors, Wholes, StaleIsOld
<1>4. Accounted'
  BY <1>1, <1>2 DEF Accounted
<1>5. Ordered'
  BY <1>1, <1>2 DEF Ordered, OnceOnly
<1>6. wfd' = made' /\ made' \in Inodes => Values'
  BY <1>1, <1>2 DEF Values
<1>7. \A i : Pending(i)' <=> Pending(i)
  BY DEF Pending
<1>8. Known' = Known
  BY <1>1 DEF Known
<1>9. made' = made => InFiles'
  BY <1>1, <1>2, <1>7, <1>8 DEF InFiles
<1>10. Sizes'
  BY <1>1, <1>2, <1>7 DEF Sizes
<1>11. QED
  BY <1>3, <1>4, <1>5, <1>6, <1>9, <1>10

LEMMA DirIs ==
  ASSUME Values, Names
  PROVE  /\ 1 \in Days /\ today \in {1, 2} /\ log.day \in Days /\ made \in Nat /\ made \in Inodes
         /\ \A d \in Days : dir[d] # None => dir[d] \in Inodes /\ dir[d] \in Nat
         /\ log.fp # None => log.fp \in Inodes /\ log.fp \in Nat
         /\ log.fd # None => log.fd \in Inodes /\ log.fd \in Nat
BY InodesAre DEF Values, Names, Days

LEMMA RenameStep == ASSUME CollectorIInv, Rename PROVE CollectorIInv'
<1>1. /\ ~ dated /\ dir' = [dir EXCEPT ![today] = None]
      /\ UNCHANGED <<disk, today, wfd, made, cuts, excused, cut>> /\ Unwatched
      /\ Values /\ Names
  BY DEF Rename, CollectorIInv
<1>2. UNCHANGED <<written, format, dated, log, f_check, pc, sent, resent, refused, tails, fresh, opened>>
  BY <1>1, UnwatchedIs
<1>3. today = 1 /\ dir' \in [Days -> Inodes \cup {None}] /\ dir'[1] = None /\ dir'[2] = None
  BY <1>1 DEF Names, Days
<1>4. Names'
  <2>1. \A d \in Days : dir'[d] = None
    BY <1>3 DEF Days
  <2>2. QED
    BY <1>1, <1>2, <1>3, <2>1 DEF Names
<1>5. QED
  BY <1>1, <1>4, NamesChange DEF CollectorIInv, Values

LEMMA RestoreStep == ASSUME CollectorIInv, Restore PROVE CollectorIInv'
<1>1. /\ ~ dated /\ dir' = [dir EXCEPT ![today] = made]
      /\ UNCHANGED <<disk, today, wfd, made, cuts, excused, cut>> /\ Unwatched
      /\ Values /\ Names
  BY DEF Restore, CollectorIInv, Values
<1>2. UNCHANGED <<written, format, dated, log, f_check, pc, sent, resent, refused, tails, fresh, opened>>
  BY <1>1, UnwatchedIs
<1>3. /\ today = 1 /\ dir' \in [Days -> Inodes \cup {None}] /\ dir'[1] = made /\ dir'[2] = None
      /\ made \in Nat /\ made # None
  BY <1>1, DirIs, InodesAre DEF Names, Days
<1>4. Names'
  <2>1. \A d \in Days : dir'[d] # None => dir'[d] <= made
    BY <1>3 DEF Days
  <2>2. QED
    BY <1>1, <1>2, <1>3, <2>1 DEF Names
<1>5. QED
  BY <1>1, <1>4, NamesChange DEF CollectorIInv, Values

LEMMA ReopenStep == ASSUME CollectorIInv, Reopen PROVE CollectorIInv'
<1>1. /\ ~ Pending(made) /\ dir[today] = None /\ made + 1 \in Inodes
      /\ made' = made + 1 /\ wfd' = made + 1 /\ dir' = [dir EXCEPT ![today] = made + 1]
      /\ UNCHANGED <<disk, today, cuts, excused, cut>> /\ Unwatched
      /\ Values /\ Names /\ InFiles
  BY DEF Reopen, CollectorIInv, Values
<1>2. UNCHANGED <<written, format, dated, log, f_check, pc, sent, resent, refused, tails, fresh, opened>>
  BY <1>1, UnwatchedIs
<1>3. /\ today \in {1, 2} /\ made \in Nat /\ made + 1 # None /\ dir \in [Days -> Inodes \cup {None}]
      /\ \A d \in Days : dir[d] # None => dir[d] \in Nat /\ dir[d] <= made
      /\ log.fd # None => log.fd \in Nat /\ log.fd <= made
  BY <1>1, DirIs, InodesAre DEF Names
<1>4. /\ dir' \in [Days -> Inodes \cup {None}] /\ dir'[today] = made + 1
      /\ \A d \in Days : d # today => dir'[d] = dir[d]
  BY <1>1, <1>3 DEF Days
<1>5. Names'
  <2>1. \A d \in Days : dir'[d] # None => dir'[d] <= made'
    BY <1>1, <1>3, <1>4
  <2>2. dir'[1] # None /\ dir'[2] # None => dir'[1] < dir'[2]
    <3>1. CASE today = 1
      BY <1>1, <1>3, <1>4, <3>1 DEF Names, Days
    <3>2. CASE today = 2
      BY <1>1, <1>3, <1>4, <3>2 DEF Days
    <3>3. QED
      BY <1>3, <3>1, <3>2
  <2>3. dated' => /\ log'.fp # None => dir'[log'.day] = log'.fp
                  /\ log'.fd # None /\ log'.day = 1 /\ dir'[2] # None => log'.fd < dir'[2]
                  /\ format' # "snort-full" /\ log'.fp = None /\ log'.fd # None
                     /\ dir'[log'.day] # None => log'.fd < dir'[log'.day]
    <3>1. SUFFICES ASSUME dated
          PROVE  /\ log.fp # None => dir'[log.day] = log.fp
                 /\ log.fd # None /\ log.day = 1 /\ dir'[2] # None => log.fd < dir'[2]
                 /\ format # "snort-full" /\ log.fp = None /\ log.fd # None
                    /\ dir'[log.day] # None => log.fd < dir'[log.day]
      BY <1>2
    <3>2. log.fd # None => log.fd < made + 1
      BY <1>3
    <3>3. log.day \in Days
      BY <1>1, DirIs
    <3>4. CASE log.day = today
      BY <1>1, <1>3, <1>4, <3>1, <3>2, <3>4 DEF Names, Days
    <3>5. CASE log.day # today
      BY <1>1, <1>3, <1>4, <3>1, <3>2, <3>3, <3>5 DEF Names, Days
    <3>6. QED
      BY <3>4, <3>5
  <2>4. /\ ~ dated => today = 1 /\ dir'[1] \in {made', None}
        /\ today = 1 => dir'[2] = None
    BY <1>1, <1>3, <1>4 DEF Names, Days
  <2>5. log'.fd # None => log'.fd <= made'
    BY <1>1, <1>2, <1>3
  <2>6. QED
    BY <1>1, <1>2, <1>4, <2>1, <2>2, <2>3, <2>4, <2>5 DEF Names
<1>6. InFiles'
  <2>1. \A i : Pending(i)' <=> Pending(i)
    BY <1>1 DEF Pending
  <2>2. Known' = Known
    BY <1>1, <1>2 DEF Known
  <2>3. disk'[made'] = <<>>
    BY <1>1, <1>3 DEF InFiles
  <2>4. ~ Pending(made)'
    BY <2>3 DEF Pending
  <2>5. \A i \in Inodes : i > made' => i > made
    BY <1>1, <1>3, InodesAre
  <2>6. \A i \in Inodes : ~ Pending(i)'
    BY <1>1, <2>1 DEF InFiles
  <2>7. \A p \in Known' : p \in Pieces /\ p.line <= written'
    BY <1>1, <1>2, <2>2 DEF InFiles
  <2>8. QED
    BY <1>1, <1>2, <2>4, <2>5, <2>6, <2>7 DEF InFiles
<1>7. Sizes'
  <2>1. \A i : Pending(i)' <=> Pending(i)
    BY <1>1 DEF Pending
  <2>2. QED
    BY <1>1, <1>2, <2>1 DEF CollectorIInv, Sizes
<1>8. QED
  BY <1>1, <1>5, <1>6, <1>7, NamesChange DEF CollectorIInv

LEMMA NewDayStep == ASSUME CollectorIInv, NewDay PROVE CollectorIInv'
<1>1. /\ dated /\ today = 1 /\ today' = 2
      /\ UNCHANGED <<disk, dir, wfd, made, cuts, excused, cut>> /\ Unwatched
      /\ Values /\ Names
  BY DEF NewDay, CollectorIInv
<1>2. UNCHANGED <<written, format, dated, log, f_check, pc, sent, resent, refused, tails, fresh, opened>>
  BY <1>1, UnwatchedIs
<1>3. Names'
  <2>1. today' \in Days /\ log.day \in 1 .. 2
    BY <1>1 DEF Names, Days
  <2>2. QED
    BY <1>1, <1>2, <2>1 DEF Names
<1>4. QED
  BY <1>1, <1>3, NamesChange DEF CollectorIInv, Values

-----------------------------------------------------------------------------
LEMMA TruncateStep == ASSUME CollectorIInv, Truncate PROVE CollectorIInv'
<1>1. PICK i : i = dir[today]
  OBVIOUS
<1>2. /\ ~ dated /\ i # None /\ cuts < MaxCuts /\ cuts' = cuts + 1
      /\ disk' = [disk EXCEPT ![i] = <<>>] /\ ~ Pending(i)
      /\ excused' = excused \cup PiecesOn(i)
      /\ cut' = (cut \/ i = log.fp)
      /\ UNCHANGED <<dir, today, wfd, made>> /\ Unwatched
  BY <1>1 DEF Truncate
<1>3. UNCHANGED <<written, format, dated, log, f_check, pc, sent, resent, refused, tails, fresh, opened>>
  BY <1>2, UnwatchedIs
<1>4. Values /\ InFiles /\ Sizes /\ Names /\ Errors /\ Accounted /\ Ordered /\ Wholes
  BY DEF CollectorIInv
<1>5. i = made /\ i \in Inodes
  <2>1. today = 1 /\ dir[1] \in {made, None}
    BY <1>2, <1>4 DEF Names
  <2>2. QED
    BY <1>1, <1>2, <1>4, <2>1 DEF Values
<1>6. /\ disk' \in [Inodes -> Messages] /\ disk'[i] = <<>>
      /\ \A j \in Inodes : j # i => disk'[j] = disk[j]
      /\ \A j \in Inodes : disk'[j] \in {disk[j], <<>>}
  BY <1>2, <1>4, <1>5, SaidNothing DEF Values
<1>7. PiecesOn(i) = ToSet(disk[i])
  BY DEF PiecesOn, ToSet
<1>8. ToSet(disk[i]) \subseteq Pieces
  BY <1>4, <1>5, MembersOf DEF Values, Messages
<1>9. \A j \in Inodes : ~ Pending(j)'
  <2>1. ~ Pending(i)'
    BY <1>6 DEF Pending
  <2>2. \A j \in Inodes : j # i => ~ Pending(j)'
    BY <1>4, <1>5, <1>6 DEF InFiles, Pending
  <2>3. QED
    BY <2>1, <2>2
<1>10. \A j \in Inodes : ToSet(disk'[j]) \subseteq ToSet(disk[j])
  BY <1>6, SaidNothing
<1>11. Values'
  <2>1. cuts' \in 0 .. MaxCuts
    BY <1>2, <1>4, InodesAre DEF Values
  <2>2. excused' \subseteq Pieces /\ cut' \in BOOLEAN
    BY <1>2, <1>4, <1>7, <1>8 DEF Values
  <2>3. QED
    BY <1>2, <1>3, <1>4, <1>6, <2>1, <2>2 DEF Values
<1>12. InFiles'
  <2>1. \A f : FileOf(f, <<>>)
    BY SaidNothing, NothingSorted DEF FileOf
  <2>2. \A j \in Inodes : FileOf(format, disk'[j])
    BY <1>4, <1>6, <2>1 DEF InFiles
  <2>3. \A j, k \in Inodes : j < k => AllBefore(ToSet(disk'[j]), ToSet(disk'[k]))
    BY <1>4, <1>10 DEF InFiles, AllBefore
  <2>4. \A j \in Inodes : j > made => disk'[j] = <<>>
    BY <1>4, <1>6 DEF InFiles
  <2>5. Known' \subseteq Known
    BY <1>3, <1>10 DEF Known
  <2>6. ~ Pending(made)'
    BY <1>2, <1>5, <1>6 DEF Pending
  <2>7. \A p \in Known' : p \in Pieces /\ p.line <= written
    BY <1>4, <2>5 DEF InFiles
  <2>8. QED
    BY <1>2, <1>3, <1>9, <2>2, <2>3, <2>4, <2>6, <2>7 DEF InFiles
<1>13. Sizes'
  <2>1. Splits(written) \in Nat /\ written \in Nat
    BY <1>4, SplitsAre, InodesAre DEF Values
  <2>2. ASSUME NEW j \in Inodes PROVE Len(disk'[j]) <= written + Splits(written)
    <3>1. CASE disk'[j] = <<>>
      <4>1. Len(disk'[j]) = 0
        BY <3>1
      <4>2. QED
        BY <2>1, <4>1
    <3>2. CASE disk'[j] = disk[j]
      BY <1>4, <3>2 DEF Sizes
    <3>3. QED
      BY <1>6, <3>1, <3>2
  <2>3. QED
    BY <1>3, <1>9, <2>2 DEF Sizes
<1>14. Names' /\ Errors'
  <2>1. Names'
    BY <1>2, <1>3, <1>4 DEF Names
  <2>2. Errors'
    BY <1>3, <1>4 DEF Errors
  <2>3. QED
    BY <2>1, <2>2
<1>15. Accounted'
  <2>1. cut' => log'.fp # None /\ ToSet(disk'[log'.fp]) \subseteq excused'
    <3>1. CASE i = log.fp
      BY <1>2, <1>3, <1>6, <3>1, SaidNothing
    <3>2. CASE i # log.fp /\ cut
      <4>1. log.fp # None /\ ToSet(disk[log.fp]) \subseteq excused /\ log.fp \in Inodes
        BY <1>4, <3>2 DEF Accounted, Values
      <4>2. QED
        BY <1>2, <1>3, <1>6, <3>2, <4>1
    <3>3. QED
      BY <1>2, <3>1, <3>2
  <2>2. log'.fp # None /\ ~ cut' => log'.pos <= Len(disk'[log'.fp])
    <3>1. SUFFICES ASSUME log.fp # None, ~ cut' PROVE log.pos <= Len(disk'[log.fp])
      BY <1>3
    <3>2. log.fp # i /\ ~ cut /\ log.fp \in Inodes
      BY <1>2, <1>4, <3>1 DEF Values
    <3>3. QED
      BY <1>4, <1>6, <3>1, <3>2 DEF Accounted
  <2>3. ASSUME NEW j \in opened', NEW k \in 1 .. Len(disk'[j])
        PROVE  \/ disk'[j][k] \in Said(sent') \cup excused'
               \/ Passes(format', disk'[j], disk'[j][k])
               \/ j = log'.fp /\ k > log'.pos /\ (pc' = "check" => disk'[j][k] \in fresh')
    <3>1. j \in opened /\ j \in Inodes
      BY <1>3, <1>4 DEF Values
    <3>2. j # i
      <4>1. SUFFICES ASSUME j = i PROVE FALSE
        OBVIOUS
      <4>2. Len(disk'[j]) = 0
        BY <1>6, <4>1
      <4>3. QED
        BY <4>2
    <3>3. disk'[j] = disk[j]
      BY <1>6, <3>1, <3>2
    <3>4. QED
      BY <1>2, <1>3, <1>4, <3>1, <3>3 DEF Accounted
  <2>4. QED
    BY <2>1, <2>2, <2>3 DEF Accounted
<1>16. Ordered'
  <2>1. SUFFICES ASSUME OnceOnly PROVE Ordered'
    BY <1>3 DEF Ordered, OnceOnly
  <2>2. pc # "ended" /\ log.fp # None =>
          AllBefore(Said(sent), Part(disk'[log.fp], log.pos, Len(disk'[log.fp])))
    <3>1. SUFFICES ASSUME pc # "ended", log.fp # None
                   PROVE  AllBefore(Said(sent), Part(disk'[log.fp], log.pos, Len(disk'[log.fp])))
      OBVIOUS
    <3>2. log.fp \in Inodes
      BY <1>4, <3>1 DEF Values
    <3>3. CASE log.fp = i
      <4>1. Len(disk'[log.fp]) = 0 /\ log.pos \in Nat
        BY <1>4, <1>6, <3>3, InodesAre DEF Values
      <4>2. Part(disk'[log.fp], log.pos, Len(disk'[log.fp])) = {}
        BY <4>1 DEF Part
      <4>3. QED
        BY <4>2 DEF AllBefore
    <3>4. CASE log.fp # i
      BY <1>4, <1>6, <2>1, <3>1, <3>2, <3>4 DEF Ordered
    <3>5. QED
      BY <3>3, <3>4
  <2>3. \A j \in Inodes : log.fd # None /\ log.fd < j => AllBefore(Said(sent), ToSet(disk'[j]))
    BY <1>4, <1>10, <2>1 DEF Ordered, AllBefore
  <2>4. resent' = {} /\ InOrder(sent') /\ (log'.fd = None => Said(sent') = {})
    BY <1>3, <1>4, <2>1 DEF Ordered
  <2>5. QED
    BY <1>3, <2>2, <2>3, <2>4 DEF Ordered
<1>17. Wholes'
  BY <1>3, <1>4 DEF Wholes, StaleIsOld
<1>18. QED
  BY <1>11, <1>12, <1>13, <1>14, <1>15, <1>16, <1>17 DEF CollectorIInv

-----------------------------------------------------------------------------
(* logcollector reads.                                                     *)

(* A call of the reader on the open file.                                  *)
LEMMA CallIs ==
  ASSUME Values, InFiles, log.fp # None, log.pos < Size(log.fp)
  PROVE  LET s == disk[log.fp]
             r == Read(format, s, log.pos)
         IN  /\ log.fp \in Inodes /\ FileOf(format, s) /\ log.pos \in Nat /\ Len(s) \in Nat
             /\ log.pos < Len(s) /\ r.pos \in Nat /\ log.pos <= r.pos /\ r.pos <= Len(s)
             /\ r.sent \in Seq(Messages) /\ r.rc \in {0, 1}
             /\ r.rc # 0 => format = "snort-full"
             /\ \A m \in ToSet(r.sent) : m # <<>>
             /\ InOrder(r.sent)
             /\ Said(r.sent) \subseteq Part(s, log.pos, Len(s)) /\ Said(r.sent) \subseteq ToSet(s)
             /\ format # "audit" => Said(r.sent) \subseteq Part(s, log.pos, r.pos)
             /\ \A p \in Part(s, log.pos, r.pos) : p \in Said(r.sent) \/ Passes(format, s, p)
             /\ format \in Holding => \A m \in ToSet(r.sent) : Whole(m)
<1> DEFINE s == disk[log.fp]
           r == Read(format, s, log.pos)
<1>1. log.fp \in Inodes /\ FileOf(format, s) /\ log.pos \in Nat /\ log.pos < Len(s)
  <2>1. log.fp \in Inodes /\ log.pos \in 0 .. MaxSize /\ MaxSize \in Nat
    BY InodesAre DEF Values
  <2>2. QED
    BY <2>1 DEF InFiles, Size
<1>2. format \in KnownFormats
  BY CollectorAssumption DEF Values
<1>3. Len(s) \in Nat /\ log.pos <= Len(s)
  BY <1>1, FilePieces
<1> HIDE DEF s, r
<1>4. r = Read(format, s, log.pos)
  BY DEF r
<1>5. /\ r.sent \in Seq(Messages) /\ r.pos \in log.pos .. Len(s) /\ r.rc \in {0, 1}
      /\ r.rc # 0 => format = "snort-full"
      /\ \A m \in ToSet(r.sent) : m # <<>>
      /\ InOrder(r.sent)
      /\ Said(r.sent) \subseteq Part(s, log.pos, Len(s))
      /\ format # "audit" => Said(r.sent) \subseteq Part(s, log.pos, r.pos)
      /\ \A p \in Part(s, log.pos, r.pos) : p \in Said(r.sent) \/ Passes(format, s, p)
      /\ format \in Holding => \A m \in ToSet(r.sent) : Whole(m)
  <2>1. PICK from : from = log.pos
    OBVIOUS
  <2>2. PICK f : f = format
    OBVIOUS
  <2>3. f \in KnownFormats /\ FileOf(f, s) /\ from \in Nat /\ from <= Len(s) /\ r = Read(f, s, from)
    BY <1>1, <1>2, <1>3, <1>4, <2>1, <2>2
  <2>4. /\ r.sent \in Seq(Messages) /\ r.pos \in from .. Len(s) /\ r.rc \in {0, 1}
        /\ r.rc # 0 => f = "snort-full"
        /\ \A m \in ToSet(r.sent) : m # <<>>
        /\ InOrder(r.sent)
        /\ Said(r.sent) \subseteq Part(s, from, Len(s))
        /\ f # "audit" => Said(r.sent) \subseteq Part(s, from, r.pos)
        /\ \A p \in Part(s, from, r.pos) : p \in Said(r.sent) \/ Passes(f, s, p)
        /\ f \in Holding => \A m \in ToSet(r.sent) : Whole(m)
    BY <2>3, ReadIs
  <2>5. QED
    BY <2>1, <2>2, <2>4
<1>6. r.pos \in Nat /\ log.pos <= r.pos /\ r.pos <= Len(s)
  BY <1>1, <1>3, <1>5
<1>7. Part(s, log.pos, Len(s)) \subseteq ToSet(s)
  <2>1. \A x \in log.pos + 1 .. Len(s) : x \in 1 .. Len(s)
    BY <1>1, <1>3
  <2>2. QED
    BY <1>1, <2>1, FilePieces DEF Part
<1>8. QED
  BY <1>1, <1>3, <1>5, <1>6, <1>7 DEF s, r

-----------------------------------------------------------------------------
(* What SendMSG is given.                                                  *)
LEMMA PrefixIs ==
  ASSUME NEW S, NEW q \in Seq(S), NEW n \in 0 .. Len(q)
  PROVE  /\ SubSeq(q, 1, n) \in Seq(S) /\ Len(SubSeq(q, 1, n)) = n
         /\ \A j \in 1 .. n : SubSeq(q, 1, n)[j] = q[j] /\ j \in 1 .. Len(q)
         /\ ToSet(SubSeq(q, 1, n)) = {q[j] : j \in 1 .. n}
         /\ ToSet(SubSeq(q, 1, n)) \subseteq ToSet(q)
<1>1. Len(q) \in Nat /\ \A j \in 1 .. Len(q) : q[j] \in S /\ q[j] \in ToSet(q)
  BY MembersOf
<1>2. /\ SubSeq(q, 1, n) \in Seq(S) /\ Len(SubSeq(q, 1, n)) = n
      /\ \A j \in 1 .. n : SubSeq(q, 1, n)[j] = q[j] /\ j \in 1 .. Len(q)
  <2>1. \A j \in 1 .. n : q[j] \in S /\ j \in 1 .. Len(q)
    BY <1>1
  <2>2. /\ SubSeq(q, 1, n) \in Seq(S)
        /\ Len(SubSeq(q, 1, n)) = IF 1 <= n THEN (n - 1) + 1 ELSE 0
        /\ \A j \in 1 .. (n - 1) + 1 : SubSeq(q, 1, n)[j] = q[(1 + j) - 1]
    BY <2>1, SubSeqProperties
  <2>3. QED
    BY <1>1, <2>1, <2>2
<1> DEFINE t == SubSeq(q, 1, n)
<1> HIDE DEF t
<1>3. ToSet(t) = {t[j] : j \in 1 .. n}
  <2>1. t \in Seq(S) /\ Len(t) = n
    BY <1>2 DEF t
  <2>2. QED
    BY <2>1, MembersOf
<1>4. ToSet(t) = {q[j] : j \in 1 .. n}
  BY <1>2, <1>3 DEF t
<1>5. QED
  BY <1>1, <1>2, <1>4 DEF t

(* The first messages of a call are in order if all are.                    *)
LEMMA PrefixOrder ==
  ASSUME NEW q \in Seq(Messages), InOrder(q), NEW n \in 0 .. Len(q)
  PROVE  InOrder(SubSeq(q, 1, n)) /\ Said(SubSeq(q, 1, n)) \subseteq Said(q)
<1> DEFINE t == SubSeq(q, 1, n)
<1>1. /\ t \in Seq(Messages) /\ Len(t) = n /\ ToSet(t) \subseteq ToSet(q)
      /\ \A j \in 1 .. n : t[j] = q[j] /\ j \in 1 .. Len(q)
  BY PrefixIs
<1> HIDE DEF t
<1>2. InOrder(t)
  BY <1>1, InOrderIs
<1>3. Said(t) \subseteq Said(q)
  BY <1>1 DEF Said
<1>4. QED
  BY <1>2, <1>3 DEF t

(* What follows an unfinished string is of an earlier message.              *)
LEMMA StaleLemma ==
  ASSUME format = "syslog", sent \in Seq(Messages), NEW new \in Seq(Messages),
         InOrder(new), AllBefore(Said(sent), Said(new)), NEW t \in Stale(sent, new)
  PROVE  t.of \in ToSet(new) /\ t.tail \in Pieces /\ t = [of |-> t.of, tail |-> t.tail]
         /\ StaleIsOld(t)
<1>1. /\ Len(new) \in Nat /\ DOMAIN new = 1 .. Len(new)
      /\ \A k \in 1 .. Len(new) : new[k] \in Messages /\ new[k] \in ToSet(new)
  BY MembersOf
<1>2. PICK k \in 1 .. Len(new) :
        /\ Last(new[k]).brk # "nl"
        /\ t \in [of : {new[k]},
                  tail : UNION {ToSet(m) : m \in ToSet(sent \o SubSeq(new, 1, k - 1))}]
  BY <1>1 DEF Stale
<1>3. t.of = new[k] /\ t = [of |-> t.of, tail |-> t.tail]
      /\ \E m \in ToSet(sent \o SubSeq(new, 1, k - 1)) : t.tail \in ToSet(m)
  BY <1>2
<1>4. PICK m \in ToSet(sent \o SubSeq(new, 1, k - 1)) : t.tail \in ToSet(m)
  BY <1>3
<1>5. PICK n \in 0 .. Len(new) : n = k - 1
  BY <1>1
<1>6. /\ SubSeq(new, 1, n) \in Seq(Messages)
      /\ ToSet(SubSeq(new, 1, n)) = {new[j] : j \in 1 .. n}
      /\ \A j \in 1 .. n : j \in 1 .. Len(new)
  BY PrefixIs
<1>7. ToSet(sent \o SubSeq(new, 1, n)) = ToSet(sent) \cup ToSet(SubSeq(new, 1, n))
  <2>1. PICK q \in Seq(Messages) : q = SubSeq(new, 1, n)
    BY <1>6
  <2>2. PICK s \in Seq(Messages) : s = sent
    OBVIOUS
  <2>3. ToSet(s \o q) = ToSet(s) \cup ToSet(q)
    BY MembersOfConcat
  <2>4. QED
    BY <2>1, <2>2, <2>3
<1>8. m \in ToSet(sent) \/ \E j \in 1 .. n : m = new[j]
  BY <1>4, <1>5, <1>6, <1>7
<1>9. m \in Messages
  BY <1>1, <1>6, <1>8, MembersOf
<1>10. t.tail \in Pieces /\ \E a \in 1 .. Len(m) : t.tail = m[a]
  <2>1. m \in Seq(Pieces) /\ t.tail \in ToSet(m)
    BY <1>4, <1>9 DEF Messages
  <2>2. ToSet(m) = {m[a] : a \in 1 .. Len(m)} /\ ToSet(m) \subseteq Pieces
    BY <2>1, MembersOf
  <2>3. QED
    BY <2>1, <2>2
<1>11. DOMAIN new[k] = 1 .. Len(new[k]) /\ \A a \in 1 .. Len(new[k]) : new[k][a] \in Said(new)
  BY <1>1, SaidIs
<1>12. ASSUME NEW a \in 1 .. Len(new[k]) PROVE Before(t.tail, new[k][a])
  <2>1. CASE m \in ToSet(sent)
    <3>1. t.tail \in Said(sent)
      BY <1>4, <2>1 DEF Said
    <3>2. QED
      BY <1>11, <3>1 DEF AllBefore
  <2>2. CASE \E j \in 1 .. n : m = new[j]
    <3>1. PICK j \in 1 .. n : m = new[j]
      BY <2>2
    <3>2. j \in 1 .. Len(new) /\ j < k
      BY <1>5, <1>6, <3>1
    <3>3. PICK c \in 1 .. Len(new[j]) : t.tail = new[j][c]
      BY <1>10, <3>1
    <3>4. Before(new[j][c], new[k][a])
      BY <3>2, InOrderIs
    <3>5. QED
      BY <3>3, <3>4
  <2>3. QED
    BY <1>8, <2>1, <2>2
<1>13. StaleIsOld(t)
  BY <1>2, <1>3, <1>11, <1>12 DEF StaleIsOld
<1>14. QED
  BY <1>1, <1>3, <1>10, <1>13

(* The messages new of a call, in which it sends what lies ahead.           *)
LEMMA SendIs ==
  ASSUME CollectorIInv, pc = "read", HasMore, NEW new \in Seq(Messages),
         \A m \in ToSet(new) : m # <<>>, InOrder(new),
         Said(new) \subseteq Part(disk[log.fp], log.pos, Len(disk[log.fp])),
         format \in Holding => \A m \in ToSet(new) : Whole(m),
         NEW lost \in SUBSET ToSet(new), SendMSG(new, lost), UNCHANGED <<format, dated>>
  PROVE  /\ sent' \in Seq(Messages) /\ \A m \in ToSet(sent') : m # <<>>
         /\ resent' \subseteq ToSet(sent') /\ refused' \subseteq ToSet(sent')
         /\ Said(sent') = Said(sent) \cup Said(new)
         /\ Wholes'
         /\ OnceOnly => resent' = {} /\ InOrder(sent')
<1>1. /\ Values /\ Ordered /\ Wholes /\ sent \in Seq(Messages) /\ log.fp # None
  BY DEF CollectorIInv, Values, HasMore
<1>2. /\ sent' = Given(new)
      /\ resent' = resent \cup (ToSet(new) \cap ToSet(sent))
      /\ refused' = (refused \ (ToSet(new) \ lost)) \cup (lost \ ToSet(sent))
  BY DEF SendMSG
<1>3. PICK t \in SUBSET (IF format = "syslog" THEN Stale(sent, new) ELSE {}) : tails' = tails \cup t
  BY DEF SendMSG
<1>4. /\ sent' \in Seq(Messages) /\ ToSet(sent') = ToSet(sent) \cup ToSet(new)
      /\ ToSet(new) \cap ToSet(sent) = {} => sent' = sent \o new
  BY <1>1, <1>2, GivenIs
<1>5. Said(sent') = Said(sent) \cup Said(new)
  BY <1>4 DEF Said
<1>6. \A m \in ToSet(sent') : m # <<>>
  BY <1>1, <1>4 DEF Values
<1>7. resent' \subseteq ToSet(sent') /\ refused' \subseteq ToSet(sent')
  BY <1>1, <1>2, <1>4 DEF Values
<1>8. ASSUME OnceOnly
      PROVE  resent = {} /\ InOrder(sent) /\ AllBefore(Said(sent), Said(new))
  BY <1>1, <1>8 DEF Ordered, AllBefore
<1>9. ASSUME OnceOnly PROVE ToSet(new) \cap ToSet(sent) = {}
  <2>1. SUFFICES ASSUME NEW m \in ToSet(new), m \in ToSet(sent) PROVE FALSE
    OBVIOUS
  <2>2. m \in Messages /\ m # <<>>
    BY MembersOf
  <2>3. Last(m) \in ToSet(m)
    BY <2>2, LastIs
  <2>4. Last(m) \in Said(sent) /\ Last(m) \in Said(new)
    BY <2>1, <2>3 DEF Said
  <2>5. Before(Last(m), Last(m))
    BY <1>8, <1>9, <2>4 DEF AllBefore
  <2>6. Last(m) \in Pieces
    BY <2>2, <2>3, MembersOf DEF Messages
  <2>7. QED
    BY <2>5, <2>6, BeforeIsStrict
<1>10. OnceOnly => resent' = {} /\ InOrder(sent')
  BY <1>1, <1>2, <1>4, <1>8, <1>9, InOrderConcat
<1>11. ASSUME NEW e \in t
       PROVE  e \in [of : ToSet(sent'), tail : Pieces] /\ StaleIsOld(e)
  <2>1. format = "syslog" /\ e \in Stale(sent, new)
    BY <1>3, <1>11
  <2>2. AllBefore(Said(sent), Said(new))
    BY <1>8, <2>1 DEF OnceOnly
  <2>3. /\ e.of \in ToSet(new) /\ e.tail \in Pieces /\ e = [of |-> e.of, tail |-> e.tail]
        /\ StaleIsOld(e)
    BY <1>1, <2>1, <2>2, StaleLemma
  <2>4. QED
    BY <1>4, <2>3
<1>12. tails \subseteq [of : ToSet(sent'), tail : Pieces]
  BY <1>1, <1>4 DEF Wholes
<1>13. Wholes'
  <2>1. tails' \subseteq [of : ToSet(sent'), tail : Pieces]
    BY <1>3, <1>11, <1>12
  <2>2. \A e \in tails' : StaleIsOld(e)
    BY <1>1, <1>3, <1>11 DEF Wholes
  <2>3. \A e \in tails' : StaleIsOld(e)'
    BY <2>2 DEF StaleIsOld
  <2>4. format' \in Holding => \A m \in ToSet(sent') : Whole(m)
    BY <1>1, <1>4 DEF Wholes
  <2>5. QED
    BY <2>1, <2>3, <2>4 DEF Wholes
<1>14. QED
  BY <1>4, <1>5, <1>6, <1>7, <1>10, <1>13

-----------------------------------------------------------------------------
(* Poll without a reading: the file is not open, or has nothing new.       *)
LEMMA PollIs ==
  ASSUME Poll
  PROVE  /\ UNCHANGED <<disk, dir, today, wfd, made, written, cuts, format, dated, excused, opened, cut>>
         /\ f_check' = f_check + 1 /\ pc = "read"
         /\ pc' = IF f_check + 1 <= VCHECK_FILES THEN "read" ELSE "check"
         /\ ~ HasMore => fresh' = {} /\ UNCHANGED <<log, sent, resent, refused, tails>>
         /\ HasMore => LET r == Read(format, disk[log.fp], log.pos)
                       IN  /\ \E lost \in SUBSET ToSet(r.sent) : SendMSG(r.sent, lost)
                           /\ log' = [log EXCEPT !.pos = r.pos, !.ign = @ + r.rc]
                           /\ fresh' = Ahead(r.pos)
BY DEF Poll, ReadLog, world, queue

LEMMA SentFiles ==
  ASSUME CollectorIInv, UNCHANGED <<disk, made, written, format>>, Said(sent') \subseteq Known
  PROVE  InFiles' /\ Sizes'
<1>1. InFiles /\ Sizes
  BY DEF CollectorIInv
<1>2. \A i : Pending(i)' <=> Pending(i)
  BY DEF Pending
<1>3. Known' \subseteq Known
  BY DEF Known
<1>4. InFiles'
  BY <1>1, <1>2, <1>3 DEF InFiles
<1>5. Sizes'
  BY <1>1, <1>2 DEF Sizes
<1>6. QED
  BY <1>4, <1>5

LEMMA IdlePollStep == ASSUME CollectorIInv, Poll, ~ HasMore PROVE CollectorIInv'
<1>1. /\ UNCHANGED <<disk, dir, today, wfd, made, written, cuts, format, dated, excused, opened,
                     cut, log, sent, resent, refused, tails>>
      /\ fresh' = {} /\ f_check' = f_check + 1 /\ pc = "read"
      /\ pc' = IF f_check + 1 <= VCHECK_FILES THEN "read" ELSE "check"
  BY PollIs
<1>2. Values /\ InFiles /\ Names /\ Errors /\ Accounted /\ Ordered /\ Wholes
  BY DEF CollectorIInv
<1>3. InFiles' /\ Sizes'
  BY <1>1, <1>2, SentFiles, KnownIs
<1>4. Values'
  <2>1. f_check' \in 0 .. VCHECK_FILES + 1 /\ (pc' = "read" => f_check' <= VCHECK_FILES)
    BY <1>1, <1>2, InodesAre DEF Values
  <2>2. QED
    BY <1>1, <1>2, <2>1 DEF Values
<1>5. Names' /\ Errors' /\ Ordered' /\ Wholes'
  <2>1. Names'
    BY <1>1, <1>2 DEF Names
  <2>2. Errors' /\ Wholes'
    BY <1>1, <1>2 DEF Errors, Wholes, StaleIsOld
  <2>3. Ordered'
    BY <1>1, <1>2 DEF Ordered, OnceOnly
  <2>4. QED
    BY <2>1, <2>2, <2>3
<1>6. Accounted'
  <2>1. ASSUME NEW i \in opened, NEW k \in 1 .. Len(disk[i])
        PROVE  \/ disk[i][k] \in Said(sent) \cup excused
               \/ Passes(format, disk[i], disk[i][k])
    <3>1. SUFFICES ASSUME i = log.fp, k > log.pos PROVE FALSE
      BY <1>2 DEF Accounted
    <3>2. i \in Inodes /\ i # None
      BY <1>2, InodesAre DEF Values
    <3>3. Len(disk[i]) \in Nat /\ log.pos \in Nat
      <4>1. log.pos \in 0 .. MaxSize /\ disk[i] \in Messages
        BY <1>2, <3>2 DEF Values
      <4>2. QED
        BY <4>1, LastIs, InodesAre
    <3>4. ~ (log.pos < Len(disk[i]))
      BY <3>1, <3>2 DEF HasMore, Size
    <3>5. QED
      BY <3>1, <3>3, <3>4
  <2>2. QED
    BY <1>1, <1>2, <2>1 DEF Accounted
<1>7. QED
  BY <1>3, <1>4, <1>5, <1>6 DEF CollectorIInv

LEMMA ReadingPollStep == ASSUME CollectorIInv, Poll, HasMore PROVE CollectorIInv'
<1>1. /\ UNCHANGED <<disk, dir, today, wfd, made, written, cuts, format, dated, excused, opened, cut>>
      /\ f_check' = f_check + 1 /\ pc = "read"
      /\ pc' = IF f_check + 1 <= VCHECK_FILES THEN "read" ELSE "check"
  BY PollIs
<1>2. Values /\ InFiles /\ Sizes /\ Names /\ Errors /\ Accounted /\ Ordered /\ Wholes
  BY DEF CollectorIInv
<1>3. PICK i : i = log.fp
  OBVIOUS
<1>4. PICK s : s = disk[i]
  OBVIOUS
<1>5. PICK r : r = Read(format, s, log.pos)
  OBVIOUS
<1>6. /\ i \in Inodes /\ FileOf(format, s) /\ log.pos \in Nat /\ Len(s) \in Nat
      /\ log.pos < Len(s) /\ r.pos \in Nat /\ log.pos <= r.pos /\ r.pos <= Len(s)
      /\ r.sent \in Seq(Messages) /\ r.rc \in {0, 1}
      /\ r.rc # 0 => format = "snort-full"
      /\ \A m \in ToSet(r.sent) : m # <<>>
      /\ InOrder(r.sent)
      /\ Said(r.sent) \subseteq Part(s, log.pos, Len(s)) /\ Said(r.sent) \subseteq ToSet(s)
      /\ format # "audit" => Said(r.sent) \subseteq Part(s, log.pos, r.pos)
      /\ \A p \in Part(s, log.pos, r.pos) : p \in Said(r.sent) \/ Passes(format, s, p)
      /\ format \in Holding => \A m \in ToSet(r.sent) : Whole(m)
  BY <1>2, <1>3, <1>4, <1>5, CallIs DEF HasMore
<1>7. /\ \E lost \in SUBSET ToSet(r.sent) : SendMSG(r.sent, lost)
      /\ log' = [log EXCEPT !.pos = r.pos, !.ign = @ + r.rc]
      /\ fresh' = Ahead(r.pos) /\ i # None
  BY <1>3, <1>4, <1>5, PollIs DEF HasMore
<1>8. /\ log'.day = log.day /\ log'.fp = log.fp /\ log'.fd = log.fd /\ log'.pos = r.pos
      /\ log'.size = log.size /\ log'.ign = log.ign + r.rc
      /\ log' \in [day : Days, fp : Inodes \cup {None}, fd : Inodes \cup {None},
                   pos : 0 .. MaxSize, size : 0 .. MaxSize, ign : Nat]
  <2>1. Len(s) <= MaxSize
    <3>1. Len(s) <= written + Splits(written) /\ written \in 0 .. MaxLines
      BY <1>2, <1>4, <1>6 DEF Sizes, Values
    <3>2. written \in Nat
      BY <3>1, InodesAre
    <3>3. QED
      BY <1>6, <3>1, <3>2, SplitsAre, InodesAre
  <2>2. r.pos \in 0 .. MaxSize
    BY <1>6, <2>1, InodesAre
  <2>3. log.ign + r.rc \in Nat
    BY <1>2, <1>6 DEF Values
  <2>4. log' = [log EXCEPT !.pos = r.pos, !.ign = log.ign + r.rc]
    BY <1>7
  <2>5. QED
    BY <1>2, <2>2, <2>3, <2>4 DEF Values
<1>9. /\ sent' \in Seq(Messages) /\ \A m \in ToSet(sent') : m # <<>>
      /\ resent' \subseteq ToSet(sent') /\ refused' \subseteq ToSet(sent')
      /\ Said(sent') = Said(sent) \cup Said(r.sent)
      /\ Wholes'
      /\ OnceOnly => resent' = {} /\ InOrder(sent')
  <2>1. PICK lost \in SUBSET ToSet(r.sent) : SendMSG(r.sent, lost)
    BY <1>7
  <2>2. Said(r.sent) \subseteq Part(disk[log.fp], log.pos, Len(disk[log.fp]))
    BY <1>3, <1>4, <1>6
  <2>3. QED
    BY <1>1, <1>6, <2>1, <2>2, SendIs
<1>10. /\ fresh' = {s[k] : k \in r.pos + 1 .. Len(s)} /\ fresh' \subseteq Pieces
  <2>1. fresh' = {s[k] : k \in r.pos + 1 .. Len(s)}
    BY <1>3, <1>4, <1>7 DEF Ahead, Size
  <2>2. \A k \in r.pos + 1 .. Len(s) : s[k] \in Pieces
    BY <1>6, FilePieces
  <2>3. QED
    BY <2>1, <2>2
<1>11. InFiles' /\ Sizes'
  <2>1. Said(sent') \subseteq Known
    BY <1>2, <1>4, <1>6, <1>9, KnownIs
  <2>2. QED
    BY <1>1, <2>1, SentFiles
<1>12. Values'
  <2>1. f_check' \in 0 .. VCHECK_FILES + 1 /\ (pc' = "read" => f_check' <= VCHECK_FILES)
        /\ pc' \in {"read", "check", "ended"}
    BY <1>1, <1>2, InodesAre DEF Values
  <2>2. QED
    BY <1>1, <1>2, <1>8, <1>9, <1>10, <2>1 DEF Values
<1>13. Names'
  BY <1>1, <1>2, <1>8 DEF Names
<1>14. Errors'
  <2>1. format # "snort-full" => r.rc = 0
    BY <1>6
  <2>2. format # "snort-full" => log'.ign = log.ign
    BY <1>2, <1>8, <2>1 DEF Values
  <2>3. QED
    BY <1>1, <1>2, <1>8, <2>2 DEF Errors
<1>15. Accounted'
  <2>1. ASSUME NEW j \in opened, NEW k \in 1 .. Len(disk[j])
        PROVE  \/ disk[j][k] \in Said(sent') \cup excused
               \/ Passes(format, disk[j], disk[j][k])
               \/ j = i /\ k > r.pos /\ disk[j][k] \in fresh'
    <3>1. CASE j = i /\ k > r.pos
      <4>1. k \in r.pos + 1 .. Len(s) /\ disk[j][k] = s[k]
        BY <1>4, <1>6, <3>1
      <4>2. QED
        BY <1>10, <3>1, <4>1
    <3>2. CASE j = i /\ k > log.pos /\ ~ (k > r.pos)
      <4>1. k \in log.pos + 1 .. r.pos /\ disk[j][k] = s[k]
        BY <1>4, <1>6, <3>2
      <4>2. s[k] \in Part(s, log.pos, r.pos)
        BY <4>1 DEF Part
      <4>3. QED
        BY <1>4, <1>6, <1>9, <3>2, <4>1, <4>2
    <3>3. CASE ~ (j = i /\ k > log.pos)
      BY <1>2, <1>3, <1>9, <3>3 DEF Accounted
    <3>4. QED
      BY <3>1, <3>2, <3>3
  <2>2. cut' => log'.fp # None /\ ToSet(disk'[log'.fp]) \subseteq excused'
    BY <1>1, <1>2, <1>8 DEF Accounted
  <2>3. log'.fp # None /\ ~ cut' => log'.pos <= Len(disk'[log'.fp])
    BY <1>1, <1>3, <1>4, <1>6, <1>8
  <2>4. QED
    BY <1>1, <1>3, <1>8, <2>1, <2>2, <2>3 DEF Accounted
<1>16. Ordered'
  <2>1. SUFFICES ASSUME OnceOnly PROVE Ordered'
    BY <1>1 DEF Ordered, OnceOnly
  <2>2. /\ AllBefore(Said(sent), Part(s, log.pos, Len(s)))
        /\ \A j \in Inodes : log.fd # None /\ log.fd < j => AllBefore(Said(sent), ToSet(disk[j]))
    BY <1>1, <1>2, <1>3, <1>4, <1>7, <2>1 DEF Ordered
  <2>7. Said(r.sent) \subseteq Part(s, log.pos, r.pos)
    BY <1>6, <2>1 DEF OnceOnly
  <2>8. /\ Part(s, log.pos, Len(s)) = Part(s, log.pos, r.pos) \cup Part(s, r.pos, Len(s))
        /\ AllBefore(Part(s, log.pos, r.pos), Part(s, r.pos, Len(s)))
    BY <1>6, FileParts
  <2>9. AllBefore(Said(sent'), Part(s, r.pos, Len(s)))
    BY <1>9, <2>2, <2>7, <2>8 DEF AllBefore
  <2>10. log.fd = i /\ log.fd # None
    BY <1>2, <1>3, <1>7 DEF Names
  <2>11. ASSUME NEW j \in Inodes, log.fd < j PROVE AllBefore(Said(sent'), ToSet(disk[j]))
    <3>1. AllBefore(Said(sent), ToSet(disk[j])) /\ AllBefore(ToSet(s), ToSet(disk[j]))
      BY <1>2, <1>4, <1>6, <2>2, <2>10, <2>11 DEF InFiles
    <3>2. QED
      BY <1>6, <1>9, <3>1 DEF AllBefore
  <2>12. QED
    BY <1>1, <1>3, <1>4, <1>8, <1>9, <2>1, <2>9, <2>10, <2>11 DEF Ordered
<1>17. QED
  BY <1>9, <1>11, <1>12, <1>13, <1>14, <1>15, <1>16 DEF CollectorIInv

(* The program ends after some of the messages of a call.                   *)
LEMMA QueueFatalStep == ASSUME CollectorIInv, QueueFatal PROVE CollectorIInv'
<1>1. /\ UNCHANGED <<disk, dir, today, wfd, made, written, cuts, format, dated, log, f_check,
                     fresh, excused, opened, cut>>
      /\ pc = "read" /\ pc' = "ended" /\ HasMore
  BY DEF QueueFatal, world
<1>2. Values /\ InFiles /\ Sizes /\ Names /\ Errors /\ Accounted /\ Ordered /\ Wholes
  BY DEF CollectorIInv
<1>3. PICK i : i = log.fp
  OBVIOUS
<1>4. PICK s : s = disk[i]
  OBVIOUS
<1>5. PICK r : r = Read(format, s, log.pos)
  OBVIOUS
<1>6. /\ i \in Inodes /\ FileOf(format, s) /\ r.sent \in Seq(Messages)
      /\ \A m \in ToSet(r.sent) : m # <<>>
      /\ InOrder(r.sent)
      /\ Said(r.sent) \subseteq Part(s, log.pos, Len(s)) /\ Said(r.sent) \subseteq ToSet(s)
      /\ format \in Holding => \A m \in ToSet(r.sent) : Whole(m)
  BY <1>1, <1>2, <1>3, <1>4, <1>5, CallIs DEF HasMore
<1>7. DOMAIN r.sent = 1 .. Len(r.sent) /\ Len(r.sent) \in Nat
  BY <1>6, MembersOf
<1>8. PICK n \in 1 .. Len(r.sent) :
        \E lost \in SUBSET ToSet(SubSeq(r.sent, 1, n)) : SendMSG(SubSeq(r.sent, 1, n), lost)
  BY <1>3, <1>4, <1>5, <1>7 DEF QueueFatal, ReadLog
<1>9. PICK new : new = SubSeq(r.sent, 1, n)
  OBVIOUS
<1>10. n \in 0 .. Len(r.sent)
  BY <1>7
<1>11. /\ new \in Seq(Messages) /\ ToSet(new) \subseteq ToSet(r.sent)
       /\ InOrder(new) /\ Said(new) \subseteq Said(r.sent)
  BY <1>6, <1>9, <1>10, PrefixIs, PrefixOrder
<1>12. /\ sent' \in Seq(Messages) /\ \A m \in ToSet(sent') : m # <<>>
       /\ resent' \subseteq ToSet(sent') /\ refused' \subseteq ToSet(sent')
       /\ Said(sent') = Said(sent) \cup Said(new)
       /\ Wholes'
       /\ OnceOnly => resent' = {} /\ InOrder(sent')
  <2>1. Said(new) \subseteq Part(disk[log.fp], log.pos, Len(disk[log.fp]))
    BY <1>3, <1>4, <1>6, <1>11
  <2>2. PICK lost \in SUBSET ToSet(new) : SendMSG(new, lost)
    BY <1>8, <1>9
  <2>3. QED
    BY <1>1, <1>6, <1>11, <2>1, <2>2, SendIs
<1>13. InFiles' /\ Sizes'
  <2>1. Said(sent') \subseteq Known
    BY <1>2, <1>4, <1>6, <1>11, <1>12, KnownIs
  <2>2. QED
    BY <1>1, <2>1, SentFiles
<1>14. Values'
  BY <1>1, <1>2, <1>12 DEF Values
<1>15. Names' /\ Errors'
  <2>1. Names'
    BY <1>1, <1>2 DEF Names
  <2>2. Errors'
    BY <1>1, <1>2 DEF Errors
  <2>3. QED
    BY <2>1, <2>2
<1>16. Accounted'
  BY <1>1, <1>2, <1>12 DEF Accounted
<1>17. Ordered'
  <2>1. SUFFICES ASSUME OnceOnly PROVE Ordered'
    BY <1>1 DEF Ordered, OnceOnly
  <2>2. log.fd = i /\ log.fd # None
    BY <1>1, <1>2, <1>3 DEF Names, HasMore
  <2>3. ASSUME NEW j \in Inodes, log.fd < j PROVE AllBefore(Said(sent'), ToSet(disk[j]))
    <3>1. AllBefore(Said(sent), ToSet(disk[j])) /\ AllBefore(ToSet(s), ToSet(disk[j]))
      BY <1>2, <1>4, <1>6, <2>1, <2>2, <2>3 DEF InFiles, Ordered
    <3>2. QED
      BY <1>6, <1>11, <1>12, <3>1 DEF AllBefore
  <2>4. QED
    BY <1>1, <1>12, <2>1, <2>2, <2>3 DEF Ordered
<1>18. QED
  BY <1>12, <1>13, <1>14, <1>15, <1>16, <1>17 DEF CollectorIInv

LEMMA PollStep == ASSUME CollectorIInv, Poll PROVE CollectorIInv'
BY IdlePollStep, ReadingPollStep

-----------------------------------------------------------------------------
(* logcollector checks the file.                                           *)
Logs == [day : Days, fp : Inodes \cup {None}, fd : Inodes \cup {None},
         pos : 0 .. MaxSize, size : 0 .. MaxSize, ign : Nat]

(* What a check leaves alone.                                              *)
Checking ==
  /\ UNCHANGED <<disk, dir, today, wfd, made, written, cuts, format, dated, sent, resent, refused, tails, fresh>>
  /\ pc = "check" /\ pc' = "read" /\ f_check' = 0

LEMMA CheckIs == ASSUME Check PROVE Checking
<1>1. UNCHANGED fresh
  BY DEF Check, CheckDay, CheckAwaited, CheckGone, CheckRotated, CheckReduced, CheckSame,
         CheckClosed, Remember
<1>2. QED
  BY <1>1 DEF Check, Checking, world, queue

LEMMA SizesAre ==
  ASSUME Values, Sizes
  PROVE  \A i \in Inodes : Len(disk[i]) \in Nat /\ Len(disk[i]) \in 0 .. MaxSize
                           /\ Size(i) = Len(disk[i])
<1>1. SUFFICES ASSUME NEW i \in Inodes PROVE Len(disk[i]) \in Nat /\ Len(disk[i]) <= MaxSize
  BY InodesAre DEF Size
<1>2. Len(disk[i]) <= written + Splits(written) /\ written \in 0 .. MaxLines
  BY DEF Values, Sizes
<1>3. written \in Nat /\ disk[i] \in Messages
  BY <1>2, InodesAre DEF Values
<1>4. Len(disk[i]) \in Nat
  BY <1>3, LastIs
<1>5. QED
  BY <1>2, <1>3, <1>4, SplitsAre, InodesAre

(* A check that leaves the log well typed keeps what it does not touch.    *)
LEMMA CheckKeeps ==
  ASSUME CollectorIInv, Checking, log' \in Logs, excused' \subseteq Pieces,
         opened' \subseteq Inodes, cut' \in BOOLEAN
  PROVE  Values' /\ InFiles' /\ Sizes' /\ Wholes'
<1>1. /\ UNCHANGED <<disk, dir, today, wfd, made, written, cuts, format, dated, sent, resent, refused, tails, fresh>>
      /\ pc' = "read" /\ f_check' = 0
      /\ Values /\ InFiles /\ Sizes /\ Wholes
  BY DEF Checking, CollectorIInv
<1>2. f_check' \in 0 .. VCHECK_FILES + 1 /\ f_check' <= VCHECK_FILES
  BY <1>1, InodesAre
<1>3. Values'
  BY <1>1, <1>2 DEF Values, Logs
<1>4. \A i : Pending(i)' <=> Pending(i)
  BY <1>1 DEF Pending
<1>5. Known' = Known
  BY <1>1 DEF Known
<1>6. InFiles'
  BY <1>1, <1>4, <1>5 DEF InFiles
<1>7. Sizes'
  BY <1>1, <1>4 DEF Sizes
<1>8. Wholes'
  BY <1>1 DEF Wholes, StaleIsOld
<1>9. QED
  BY <1>3, <1>6, <1>7, <1>8

(* What is ahead of the reader at a check has come since the last round.   *)
LEMMA AheadIsFresh ==
  ASSUME CollectorIInv, pc = "check", NEW i \in opened, NEW k \in 1 .. Len(disk[i])
  PROVE  \/ disk[i][k] \in Said(sent) \cup excused
         \/ Passes(format, disk[i], disk[i][k])
         \/ i = log.fp /\ disk[i][k] \in fresh /\ disk[i][k] \in AtEnd(log)
<1>1. Accounted /\ opened \subseteq Inodes
  BY DEF CollectorIInv, Values
<1>2. i # None
  BY <1>1, InodesAre
<1>3. i = log.fp => disk[i][k] \in AtEnd(log)
  <2>1. disk[i] \in Messages
    BY <1>1 DEF CollectorIInv, Values
  <2>2. disk[i][k] \in ToSet(disk[i]) /\ PiecesOn(i) = ToSet(disk[i])
    BY <2>1, LastIs, MembersOf DEF PiecesOn, ToSet, Messages
  <2>3. QED
    BY <1>2, <2>2 DEF AtEnd
<1>4. QED
  BY <1>1, <1>3 DEF Accounted

(* The file i is opened in the place of another, or of none.               *)
LEMMA OpenedStep ==
  ASSUME CollectorIInv, Checking, log' \in Logs,
         NEW i \in Inodes, log.fp # i, i <= made,
         log'.fp = i, log'.fd = i, log'.ign = 0, log'.day \in 1 .. today,
         dir[log'.day] = i,
         opened' = opened \cup {i}, excused' \subseteq Pieces, ~ cut', cut' \in BOOLEAN,
         excused \cup (fresh \cap AtEnd(log)) \subseteq excused',
         \/ log'.pos = 0
         \/ log'.pos = Len(disk[i]) /\ ToSet(disk[i]) \subseteq excused',
         OnceOnly /\ log.fd # None =>
            log.fd <= i /\ (log'.pos = Len(disk[i]) \/ log.fd < i)
  PROVE  CollectorIInv'
<1>1. /\ UNCHANGED <<disk, dir, today, wfd, made, written, cuts, format, dated, sent, resent, refused, tails, fresh>>
      /\ pc = "check" /\ pc' = "read"
      /\ Values /\ InFiles /\ Sizes /\ Names /\ Errors /\ Accounted /\ Ordered
  BY DEF Checking, CollectorIInv
<1>2. i # None /\ i \in Nat /\ Len(disk[i]) \in Nat /\ disk[i] \in Messages
  BY <1>1, InodesAre, SizesAre DEF Values
<1>3. Values' /\ InFiles' /\ Sizes' /\ Wholes'
  BY <1>1, CheckKeeps DEF Values
<1>4. Names'
  BY <1>1, <1>2 DEF Names
<1>5. Errors'
  BY <1>1, <1>2 DEF Errors
<1>6. Accounted'
  <2>1. log'.pos <= Len(disk'[log'.fp])
    BY <1>1, <1>2
  <2>2. ASSUME NEW j \in opened', NEW k \in 1 .. Len(disk[j])
        PROVE  \/ disk[j][k] \in Said(sent) \cup excused'
               \/ Passes(format, disk[j], disk[j][k])
               \/ j = i /\ k > log'.pos
    <3>1. CASE j = i
      <4>1. disk[j][k] \in ToSet(disk[i])
        BY <1>2, <3>1, MembersOf DEF Messages
      <4>2. k > 0
        BY <1>2, <3>1
      <4>3. QED
        BY <3>1, <4>1, <4>2
    <3>2. CASE j # i
      BY <1>1, <3>2, AheadIsFresh
    <3>3. QED
      BY <3>1, <3>2
  <2>3. QED
    BY <1>1, <2>1, <2>2 DEF Accounted
<1>7. Ordered'
  <2>1. SUFFICES ASSUME OnceOnly PROVE Ordered'
    BY <1>1 DEF Ordered, OnceOnly
  <2>2. /\ resent = {} /\ InOrder(sent) /\ (log.fd = None => Said(sent) = {})
        /\ \A j \in Inodes : log.fd # None /\ log.fd < j => AllBefore(Said(sent), ToSet(disk[j]))
        /\ log.fd # None => log.fd \in Nat
    BY <1>1, <2>1, InodesAre DEF Ordered, Values
  <2>3. \A j \in Inodes : i < j => AllBefore(Said(sent), ToSet(disk[j]))
    <3>1. SUFFICES ASSUME NEW j \in Inodes, i < j PROVE AllBefore(Said(sent), ToSet(disk[j]))
      OBVIOUS
    <3>2. CASE log.fd = None
      BY <2>2, <3>2 DEF AllBefore
    <3>3. CASE log.fd # None
      <4>1. log.fd < j
        BY <1>2, <2>1, <2>2, <3>1, <3>3, InodesAre
      <4>2. QED
        BY <2>2, <3>3, <4>1
    <3>4. QED
      BY <3>2, <3>3
  <2>4. AllBefore(Said(sent), Part(disk[i], log'.pos, Len(disk[i])))
    <3>1. CASE log'.pos = Len(disk[i])
      <4>1. Part(disk[i], log'.pos, Len(disk[i])) = {}
        BY <1>2, <3>1 DEF Part
      <4>2. QED
        BY <4>1 DEF AllBefore
    <3>2. CASE log.fd = None
      BY <2>2, <3>2 DEF AllBefore
    <3>3. CASE log'.pos # Len(disk[i]) /\ log.fd # None
      <4>1. log'.pos = 0 /\ AllBefore(Said(sent), ToSet(disk[i]))
        BY <2>1, <2>2, <3>3
      <4>2. \A x \in 0 + 1 .. Len(disk[i]) : disk[i][x] \in ToSet(disk[i])
        BY <1>2, MembersOf DEF Messages
      <4>3. Part(disk[i], 0, Len(disk[i])) \subseteq ToSet(disk[i])
        BY <4>2 DEF Part
      <4>4. QED
        BY <4>1, <4>3 DEF AllBefore
    <3>4. QED
      BY <3>1, <3>2, <3>3
  <2>5. QED
    BY <1>1, <1>2, <2>2, <2>3, <2>4 DEF Ordered
<1>8. QED
  BY <1>3, <1>4, <1>5, <1>6, <1>7 DEF CollectorIInv

(* The file is closed, or stays so.                                        *)
LEMMA ClosedStep ==
  ASSUME CollectorIInv, Checking, log' \in Logs,
         log'.fp = None, log'.fd = log.fd, log'.day \in 1 .. today,
         log'.day = log.day \/ log'.day = 2,
         opened' = opened, excused' \subseteq Pieces, ~ cut', cut' \in BOOLEAN,
         excused \cup (fresh \cap AtEnd(log)) \subseteq excused',
         format # "snort-full" =>
            \/ dated /\ log'.ign = 0 /\ dir[log'.day] = None
            \/ ~ dated /\ opened = {}
  PROVE  CollectorIInv'
<1>1. /\ UNCHANGED <<disk, dir, today, wfd, made, written, cuts, format, dated, sent, resent, refused, tails, fresh>>
      /\ pc = "check" /\ pc' = "read"
      /\ Values /\ InFiles /\ Sizes /\ Names /\ Errors /\ Accounted /\ Ordered
  BY DEF Checking, CollectorIInv
<1>2. Values' /\ InFiles' /\ Sizes' /\ Wholes'
  BY <1>1, CheckKeeps DEF Values
<1>3. Names'
  BY <1>1 DEF Names
<1>4. Errors'
  BY <1>1 DEF Errors
<1>5. Accounted'
  BY <1>1, AheadIsFresh DEF Accounted
<1>6. Ordered'
  BY <1>1 DEF Ordered, OnceOnly
<1>7. QED
  BY <1>2, <1>3, <1>4, <1>5, <1>6 DEF CollectorIInv

(* The file stays open, where it was or at its end.                        *)
LEMMA SameStep ==
  ASSUME CollectorIInv, Checking, log' \in Logs, log.fp # None,
         log'.fp = log.fp, log'.fd = log.fd, log'.day = log.day,
         log'.ign \in {0, log.ign}, opened' = opened, excused' \subseteq Pieces,
         \/ log'.pos = log.pos /\ excused' = excused /\ cut' = cut
         \/ /\ log'.pos = Len(disk[log.fp]) /\ cut' = FALSE
            /\ excused \cup (fresh \cap AtEnd(log)) \subseteq excused'
  PROVE  CollectorIInv'
<1>1. /\ UNCHANGED <<disk, dir, today, wfd, made, written, cuts, format, dated, sent, resent, refused, tails, fresh>>
      /\ pc = "check" /\ pc' = "read"
      /\ Values /\ InFiles /\ Sizes /\ Names /\ Errors /\ Accounted /\ Ordered
  BY DEF Checking, CollectorIInv
<1>2. log.fp \in Inodes /\ Len(disk[log.fp]) \in Nat
  BY <1>1, SizesAre DEF Values
<1>3. Values' /\ InFiles' /\ Sizes' /\ Wholes'
  BY <1>1, CheckKeeps DEF Values
<1>4. Names'
  BY <1>1 DEF Names
<1>5. Errors'
  BY <1>1 DEF Errors
<1>6. Accounted'
  <2>1. CASE log'.pos = log.pos /\ excused' = excused /\ cut' = cut
    BY <1>1, <2>1 DEF Accounted
  <2>2. CASE /\ log'.pos = Len(disk[log.fp]) /\ cut' = FALSE
             /\ excused \cup (fresh \cap AtEnd(log)) \subseteq excused'
    <3>1. log'.pos <= Len(disk'[log'.fp])
      BY <1>1, <1>2, <2>2
    <3>2. \A j \in opened : \A k \in 1 .. Len(disk[j]) :
             \/ disk[j][k] \in Said(sent) \cup excused'
             \/ Passes(format, disk[j], disk[j][k])
      BY <1>1, <2>2, AheadIsFresh
    <3>3. QED
      BY <1>1, <2>2, <3>1, <3>2 DEF Accounted
  <2>3. QED
    BY <2>1, <2>2
<1>7. Ordered'
  <2>1. CASE log'.pos = log.pos
    BY <1>1, <2>1 DEF Ordered, OnceOnly
  <2>2. CASE log'.pos = Len(disk[log.fp])
    <3>1. Part(disk[log.fp], log'.pos, Len(disk[log.fp])) = {}
      BY <1>2, <2>2 DEF Part
    <3>2. AllBefore(Said(sent), Part(disk[log.fp], log'.pos, Len(disk[log.fp])))
      BY <3>1 DEF AllBefore
    <3>3. QED
      BY <1>1, <3>2 DEF Ordered, OnceOnly
  <2>3. QED
    BY <2>1, <2>2
<1>8. QED
  BY <1>3, <1>4, <1>5, <1>6, <1>7 DEF CollectorIInv

-----------------------------------------------------------------------------
(* handle_file, GiveUp and Settle.                                         *)
LEMMA HandleIs ==
  ASSUME Values, Sizes, Names, NEW l \in Logs, NEW end \in BOOLEAN
  PROVE  /\ handle_file(l, end) \in Logs /\ handle_file(l, end).day = l.day
         /\ handle_file(l, end).fp = dir[l.day]
         /\ dir[l.day] = None => /\ handle_file(l, end).fd = l.fd
                                 /\ handle_file(l, end).ign = l.ign
         /\ dir[l.day] # None => /\ handle_file(l, end).fd = dir[l.day]
                                 /\ handle_file(l, end).ign = 0
                                 /\ handle_file(l, end).pos =
                                        IF end THEN Len(disk[dir[l.day]]) ELSE 0
<1>1. PICK i : i = dir[l.day]
  OBVIOUS
<1>2. i \in Inodes \cup {None} /\ 0 \in 0 .. MaxSize
  BY <1>1, InodesAre DEF Names, Logs
<1>3. CASE i = None
  <2>1. handle_file(l, end) = [l EXCEPT !.fp = None]
    BY <1>1, <1>3 DEF handle_file
  <2>2. QED
    BY <1>1, <1>3, <2>1 DEF Logs
<1>4. CASE i # None
  <2>1. PICK n : n = Len(disk[i])
    OBVIOUS
  <2>2. n \in 0 .. MaxSize /\ Size(i) = n /\ i \in Inodes
    BY <1>2, <1>4, <2>1, SizesAre
  <2>3. PICK e : e = IF end THEN n ELSE 0
    OBVIOUS
  <2>4. e \in 0 .. MaxSize
    BY <1>2, <2>2, <2>3
  <2>5. handle_file(l, end) = [l EXCEPT !.fp = i, !.fd = i, !.pos = e, !.size = n, !.ign = 0]
    BY <1>1, <1>4, <2>2, <2>3 DEF handle_file
  <2>6. /\ handle_file(l, end) \in Logs /\ handle_file(l, end).day = l.day
        /\ handle_file(l, end).fp = i /\ handle_file(l, end).fd = i
        /\ handle_file(l, end).ign = 0 /\ handle_file(l, end).pos = e
    <3>1. PICK h : h = [l EXCEPT !.fp = i, !.fd = i, !.pos = e, !.size = n, !.ign = 0]
      OBVIOUS
    <3>2. h.day = l.day /\ h.fp = i /\ h.fd = i /\ h.pos = e /\ h.size = n /\ h.ign = 0
      BY <3>1 DEF Logs
    <3>3. h = [day |-> l.day, fp |-> i, fd |-> i, pos |-> e, size |-> n, ign |-> 0]
      BY <3>1 DEF Logs
    <3>4. l.day \in Days
      BY DEF Logs
    <3>5. h \in Logs
      BY <1>2, <2>2, <2>4, <3>3, <3>4 DEF Logs
    <3>6. QED
      BY <2>5, <3>1, <3>2, <3>5
  <2>7. QED
    BY <1>1, <1>4, <2>1, <2>3, <2>6
<1>5. QED
  BY <1>3, <1>4

LEMMA SettleIs ==
  ASSUME NEW l \in Logs, NEW n \in 0 .. MaxSize
  PROVE  /\ Settle(l, n) \in Logs /\ Settle(l, n).day = l.day /\ Settle(l, n).fd = l.fd
         /\ l.ign > OPEN_ATTEMPTS => Settle(l, n).fp = None
         /\ ~ (l.ign > OPEN_ATTEMPTS) => /\ Settle(l, n).fp = l.fp /\ Settle(l, n).ign = l.ign
                                         /\ Settle(l, n).pos = l.pos
<1>1. CASE l.ign > OPEN_ATTEMPTS
  <2>1. Settle(l, n) = [l EXCEPT !.fp = None, !.ign = NeverAgain]
    BY <1>1 DEF Settle, GiveUp
  <2>2. PICK e : e = NeverAgain
    OBVIOUS
  <2>3. PICK h : h = [l EXCEPT !.fp = None, !.ign = e]
    OBVIOUS
  <2>4. h = [day |-> l.day, fp |-> None, fd |-> l.fd, pos |-> l.pos, size |-> l.size, ign |-> e]
    BY <2>3 DEF Logs
  <2>5. /\ l.day \in Days /\ l.fd \in Inodes \cup {None} /\ l.pos \in 0 .. MaxSize
        /\ l.size \in 0 .. MaxSize /\ e \in Nat
    BY <2>2 DEF Logs, NeverAgain
  <2>6. h \in Logs /\ h.day = l.day /\ h.fd = l.fd /\ h.fp = None
    BY <2>4, <2>5 DEF Logs
  <2>7. QED
    BY <1>1, <2>1, <2>2, <2>3, <2>6
<1>2. CASE ~ (l.ign > OPEN_ATTEMPTS)
  <2>1. Settle(l, n) = [l EXCEPT !.size = n]
    BY <1>2 DEF Settle
  <2>2. QED
    BY <1>2, <2>1 DEF Logs
<1>3. QED
  BY <1>1, <1>2

LEMMA AtEndIs ==
  ASSUME Values, NEW l, l.fp \in Inodes \cup {None}
  PROVE  /\ AtEnd(l) \subseteq Pieces
         /\ l.fp = None => AtEnd(l) = {}
         /\ l.fp # None => AtEnd(l) = ToSet(disk[l.fp])
<1>1. CASE l.fp = None
  BY <1>1 DEF AtEnd
<1>2. CASE l.fp # None
  <2>1. disk[l.fp] \in Messages /\ AtEnd(l) = PiecesOn(l.fp)
    BY <1>2 DEF AtEnd, Values
  <2>2. ToSet(disk[l.fp]) \subseteq Pieces /\ PiecesOn(l.fp) = ToSet(disk[l.fp])
    BY <2>1, MembersOf DEF PiecesOn, ToSet, Messages
  <2>3. QED
    BY <1>2, <2>1, <2>2
<1>3. QED
  BY <1>1, <1>2

(* A step of the check that makes l of the log.                            *)
LEMMA RememberIs ==
  ASSUME CollectorIInv, Checking, NEW l \in Logs, log' = l, NEW skipped,
         skipped \subseteq Pieces, Remember(l, skipped)
  PROVE  /\ opened' \subseteq Inodes /\ excused' \subseteq Pieces /\ cut' \in BOOLEAN
         /\ opened' = IF l.fp = None THEN opened ELSE opened \cup {l.fp}
         /\ skipped \subseteq excused'
         /\ l.fp # log.fp => /\ ~ cut'
                             /\ excused \cup (fresh \cap AtEnd(log)) \subseteq excused'
         /\ l.fp = log.fp => cut' = cut /\ excused' = excused \cup skipped
<1>1. Values
  BY DEF CollectorIInv
<1>2. /\ opened' = IF l.fp = None THEN opened ELSE opened \cup {l.fp}
      /\ excused' = excused \cup (IF l.fp # log.fp THEN fresh \cap AtEnd(log) ELSE {}) \cup skipped
      /\ cut' = (cut /\ l.fp = log.fp)
  BY DEF Remember
<1>3. l.fp \in Inodes \cup {None} /\ opened \subseteq Inodes /\ cut \in BOOLEAN
      /\ excused \subseteq Pieces /\ fresh \subseteq Pieces
  BY <1>1 DEF Values, Logs
<1>4. QED
  BY <1>2, <1>3

(* handle_file with a file under the name, without one, and GiveUp.        *)
LEMMA HandleStep ==
  ASSUME CollectorIInv, Checking, NEW l \in Logs, NEW end \in BOOLEAN,
         NEW skipped, log' = handle_file(l, end), Remember(log', skipped),
         l.fd = log.fd, l.day \in 1 .. today, l.day = log.day \/ l.day = 2,
         skipped = IF end THEN AtEnd(log') ELSE {},
         dir[l.day] # None =>
            /\ log.fp # dir[l.day]
            /\ OnceOnly /\ log.fd # None =>
                  log.fd <= dir[l.day] /\ (end \/ log.fd < dir[l.day]),
         dir[l.day] = None /\ format # "snort-full" => dated /\ l.ign = 0
  PROVE  CollectorIInv'
<1>1. Values /\ Sizes /\ Names
  BY DEF CollectorIInv
<1>2. log' \in Logs /\ log'.day = l.day /\ log'.fp = dir[l.day]
  BY <1>1, HandleIs
<1>3. log'.fp \in Inodes \cup {None}
  BY <1>2 DEF Logs
<1>4. skipped \subseteq Pieces
  BY <1>1, <1>3, AtEndIs
<1>5. /\ opened' \subseteq Inodes /\ excused' \subseteq Pieces /\ cut' \in BOOLEAN
      /\ opened' = IF log'.fp = None THEN opened ELSE opened \cup {log'.fp}
      /\ skipped \subseteq excused'
      /\ log'.fp # log.fp => /\ ~ cut'
                             /\ excused \cup (fresh \cap AtEnd(log)) \subseteq excused'
      /\ log'.fp = log.fp => cut' = cut /\ excused' = excused \cup skipped
  BY <1>2, <1>4, RememberIs
<1>6. CASE dir[l.day] = None
  <2>1. log'.fd = log.fd /\ log'.ign = l.ign /\ log'.fp = None
    BY <1>1, <1>2, <1>6, HandleIs
  <2>2. ~ cut' /\ excused \cup (fresh \cap AtEnd(log)) \subseteq excused'
    <3>1. CASE log.fp = None
      <4>1. ~ cut /\ AtEnd(log) = {}
        BY <3>1 DEF CollectorIInv, Accounted, AtEnd
      <4>2. QED
        BY <1>5, <2>1, <3>1, <4>1
    <3>2. CASE log.fp # None
      BY <1>5, <2>1, <3>2
    <3>3. QED
      BY <3>1, <3>2
  <2>3. QED
    BY <1>2, <1>5, <1>6, <2>1, <2>2, ClosedStep
<1>7. CASE dir[l.day] # None
  <2>1. PICK i : i = dir[l.day]
    OBVIOUS
  <2>2. /\ i \in Inodes /\ i <= made /\ log.fp # i /\ i # None
        /\ OnceOnly /\ log.fd # None => log.fd <= i /\ (end \/ log.fd < i)
    BY <1>1, <1>7, <2>1 DEF Names, Logs
  <2>3. /\ log'.fp = i /\ log'.fd = i /\ log'.ign = 0
        /\ log'.pos = IF end THEN Len(disk[i]) ELSE 0
    BY <1>1, <1>2, <1>7, <2>1, HandleIs
  <2>4. /\ ~ cut' /\ excused \cup (fresh \cap AtEnd(log)) \subseteq excused'
        /\ opened' = opened \cup {i}
    BY <1>5, <2>2, <2>3
  <2>5. end => ToSet(disk[i]) \subseteq excused'
    <3>1. AtEnd(log') = ToSet(disk[i])
      BY <1>1, <1>3, <2>2, <2>3, AtEndIs
    <3>2. QED
      BY <1>5, <3>1
  <2>6. \/ log'.pos = 0
        \/ log'.pos = Len(disk[i]) /\ ToSet(disk[i]) \subseteq excused'
    BY <2>3, <2>5
  <2>7. OnceOnly /\ log.fd # None => log.fd <= i /\ (log'.pos = Len(disk[i]) \/ log.fd < i)
    BY <2>2, <2>3
  <2>8. log'.day \in 1 .. today /\ dir[log'.day] = i
    BY <1>2, <2>1
  <2>9. QED
    BY <1>2, <1>5, <2>2, <2>3, <2>4, <2>6, <2>7, <2>8, OpenedStep
<1>8. QED
  BY <1>6, <1>7

(* Settle on the open file.                                                *)
LEMMA SettleStep ==
  ASSUME CollectorIInv, Checking, log.fp # None, NEW n \in 0 .. MaxSize,
         log' = Settle(log, n), Remember(log', {})
  PROVE  CollectorIInv'
<1>1. Values /\ Names /\ Errors
  BY DEF CollectorIInv
<1>2. log \in Logs
  BY <1>1 DEF Values, Logs
<1>3. /\ log' \in Logs /\ log'.day = log.day /\ log'.fd = log.fd
      /\ log.ign > OPEN_ATTEMPTS => log'.fp = None
      /\ ~ (log.ign > OPEN_ATTEMPTS) => log'.fp = log.fp /\ log'.ign = log.ign /\ log'.pos = log.pos
  BY <1>2, SettleIs
<1>4. /\ opened' \subseteq Inodes /\ excused' \subseteq Pieces /\ cut' \in BOOLEAN
      /\ opened' = IF log'.fp = None THEN opened ELSE opened \cup {log'.fp}
      /\ log'.fp # log.fp => /\ ~ cut'
                             /\ excused \cup (fresh \cap AtEnd(log)) \subseteq excused'
      /\ log'.fp = log.fp => cut' = cut /\ excused' = excused
  BY <1>3, RememberIs
<1>5. CASE log.ign > OPEN_ATTEMPTS
  <2>1. format = "snort-full"
    <3>1. format # "snort-full" => log.ign = 0
      BY <1>1 DEF Errors
    <3>2. ~ (0 > OPEN_ATTEMPTS)
      BY InodesAre
    <3>3. QED
      BY <1>5, <3>1, <3>2
  <2>2. log'.day \in 1 .. today
    BY <1>1, <1>3 DEF Names
  <2>3. QED
    BY <1>3, <1>4, <1>5, <2>1, <2>2, ClosedStep
<1>6. CASE ~ (log.ign > OPEN_ATTEMPTS)
  <2>1. opened' = opened
    BY <1>1, <1>3, <1>4, <1>6 DEF Names
  <2>2. QED
    BY <1>3, <1>4, <1>6, <2>1, SameStep
<1>7. QED
  BY <1>5, <1>6

-----------------------------------------------------------------------------
(* A file opened where it begins, and one opened at its end.               *)
LEMMA FrontStep ==
  ASSUME CollectorIInv, Checking, NEW l \in Logs, log' = handle_file(l, FALSE), Remember(log', {}),
         l.fd = log.fd, l.day \in 1 .. today, l.day = log.day \/ l.day = 2,
         dir[l.day] # None =>
            /\ log.fp # dir[l.day]
            /\ OnceOnly /\ log.fd # None => log.fd <= dir[l.day] /\ log.fd < dir[l.day],
         dir[l.day] = None /\ format # "snort-full" => dated /\ l.ign = 0
  PROVE  CollectorIInv'
<1>1. PICK end \in BOOLEAN : end = FALSE
  OBVIOUS
<1>2. PICK skipped : skipped = IF end THEN AtEnd(log') ELSE {}
  OBVIOUS
<1>3. log' = handle_file(l, end) /\ Remember(log', skipped)
  BY <1>1, <1>2
<1>4. QED
  BY <1>2, <1>3, HandleStep

LEMMA EndStep ==
  ASSUME CollectorIInv, Checking, NEW l \in Logs, log' = handle_file(l, TRUE),
         Remember(log', AtEnd(log')), dir[l.day] # None,
         l.fd = log.fd, l.day \in 1 .. today, l.day = log.day \/ l.day = 2,
         log.fp # dir[l.day], log.fd # None => log.fd <= dir[l.day]
  PROVE  CollectorIInv'
<1>1. PICK end \in BOOLEAN : end = TRUE
  OBVIOUS
<1>2. PICK skipped : skipped = IF end THEN AtEnd(log') ELSE {}
  OBVIOUS
<1>3. log' = handle_file(l, end) /\ Remember(log', skipped)
  BY <1>1, <1>2
<1>4. QED
  BY <1>1, <1>2, <1>3, HandleStep

(* The outcomes of a check.                                                *)
LEMMA CheckDayStep == ASSUME CollectorIInv, Checking, CheckDay PROVE CollectorIInv'
<1>1. Values /\ Names /\ Errors
  BY DEF CollectorIInv
<1>2. log \in Logs
  BY <1>1 DEF Values, Logs
<1>3. PICK l : l = [log EXCEPT !.day = today]
  OBVIOUS
<1>4. dated /\ log.day # today /\ log' = handle_file(l, FALSE) /\ Remember(log', {})
  BY <1>3 DEF CheckDay
<1>5. today = 2 /\ log.day = 1
  BY <1>1, <1>4 DEF Names, Days
<1>6. l \in Logs /\ l.day = 2 /\ l.fd = log.fd /\ l.ign = log.ign
  BY <1>2, <1>3, <1>5 DEF Logs, Days
<1>7. dir[2] # None => log.fp # dir[2] /\ (log.fd # None => log.fd < dir[2] /\ log.fd <= dir[2])
  <2>1. SUFFICES ASSUME dir[2] # None
                 PROVE  log.fp # dir[2] /\ (log.fd # None => log.fd < dir[2] /\ log.fd <= dir[2])
    OBVIOUS
  <2>2. dir[2] \in Nat /\ (log.fd # None => log.fd \in Nat)
    BY <1>1, <2>1, DirIs DEF Days
  <2>3. log.fd # None => log.fd < dir[2]
    BY <1>1, <1>4, <1>5, <2>1 DEF Names
  <2>4. log.fp # None => log.fp = log.fd
    BY <1>1 DEF Names
  <2>5. QED
    BY <2>1, <2>2, <2>3, <2>4
<1>8. format # "snort-full" => log.ign = 0
  BY <1>1, <1>4 DEF Errors
<1>9. /\ l.day \in 1 .. today /\ (l.day = log.day \/ l.day = 2)
      /\ dir[l.day] # None => /\ log.fp # dir[l.day]
                              /\ log.fd # None => log.fd <= dir[l.day] /\ log.fd < dir[l.day]
      /\ dir[l.day] = None /\ format # "snort-full" => dated /\ l.ign = 0
  BY <1>4, <1>5, <1>6, <1>7, <1>8
<1>10. QED
  BY <1>4, <1>6, <1>9, FrontStep

LEMMA CheckAwaitedStep == ASSUME CollectorIInv, Checking, CheckAwaited PROVE CollectorIInv'
<1>1. Values /\ Names /\ Errors
  BY DEF CollectorIInv
<1>2. log \in Logs
  BY <1>1 DEF Values, Logs
<1>3. /\ dated /\ log.day = today /\ log.fp = None
      /\ log' = handle_file(log, FALSE) /\ Remember(log', {})
  BY DEF CheckAwaited
<1>4. log.day \in 1 .. today /\ log.day \in Days
  BY <1>1, DirIs DEF Names
<1>5. dir[log.day] # None =>
        /\ log.fp # dir[log.day]
        /\ OnceOnly /\ log.fd # None => log.fd <= dir[log.day] /\ log.fd < dir[log.day]
  <2>1. SUFFICES ASSUME dir[log.day] # None, OnceOnly, log.fd # None
                 PROVE  log.fd <= dir[log.day] /\ log.fd < dir[log.day]
    BY <1>3
  <2>2. log.fd < dir[log.day]
    BY <1>1, <1>3, <2>1 DEF Names, OnceOnly
  <2>3. log.fd \in Nat /\ dir[log.day] \in Nat
    BY <1>1, <1>4, <2>1, DirIs
  <2>4. QED
    BY <2>2, <2>3
<1>6. format # "snort-full" => log.ign = 0
  BY <1>1, <1>3 DEF Errors
<1>7. dir[log.day] = None /\ format # "snort-full" => dated /\ log.ign = 0
  BY <1>3, <1>6
<1>8. QED
  BY <1>2, <1>3, <1>4, <1>5, <1>7, FrontStep

LEMMA CheckGoneStep == ASSUME CollectorIInv, Checking, CheckGone PROVE CollectorIInv'
<1>1. PICK n \in {0, MaxSize} : log' = Settle(log, n) /\ Remember(log', {})
  BY DEF CheckGone
<1>2. n \in 0 .. MaxSize /\ log.fp # None
  BY <1>1, InodesAre DEF CheckGone, Watched
<1>3. QED
  BY <1>1, <1>2, SettleStep

LEMMA CheckRotatedStep == ASSUME CollectorIInv, Checking, CheckRotated PROVE CollectorIInv'
<1>1. Values /\ Names /\ Errors
  BY DEF CollectorIInv
<1>2. log \in Logs
  BY <1>1 DEF Values, Logs
<1>3. /\ log.fp # None /\ dir[log.day] # None /\ dir[log.day] # log.fd
      /\ dated => log.day = today
      /\ log' = handle_file(log, FALSE) /\ Remember(log', {})
  BY DEF CheckRotated, Watched
<1>4. log.fp = log.fd /\ ~ dated
  BY <1>1, <1>3 DEF Names
<1>5. today = 1 /\ log.day = 1 /\ dir[1] = made
  BY <1>1, <1>3, <1>4 DEF Names, Days
<1>6. log.fd < made /\ log.fd <= made
  <2>1. log.fd \in Nat /\ made \in Nat /\ log.fd <= made
    BY <1>1, <1>3, <1>4, DirIs DEF Names
  <2>2. QED
    BY <1>3, <1>5, <2>1
<1>7. /\ log.day \in 1 .. today /\ log.fp # dir[log.day]
      /\ log.fd # None => log.fd <= dir[log.day] /\ log.fd < dir[log.day]
  <2>1. dir[log.day] = made /\ log.day \in 1 .. today
    BY <1>1, <1>5 DEF Names
  <2>2. QED
    BY <1>3, <1>4, <1>6, <2>1
<1>8. QED
  BY <1>2, <1>3, <1>7, FrontStep

LEMMA CheckReducedStep == ASSUME CollectorIInv, Checking, CheckReduced PROVE CollectorIInv'
<1>1. Values /\ Sizes /\ Names
  BY DEF CollectorIInv
<1>2. log \in Logs
  BY <1>1 DEF Values, Logs
<1>3. /\ log.fp # None /\ dir[log.day] = log.fd /\ log.fp = log.fd /\ log.fp \in Inodes
      /\ opened' = opened /\ excused' = excused \cup (fresh \cap AtEnd(log)) /\ cut' = FALSE
  BY <1>1 DEF CheckReduced, Watched, Names, Values
<1>4. PICK h : h = handle_file(log, TRUE)
  OBVIOUS
<1>5. PICK n : n = Len(disk[log.fp])
  OBVIOUS
<1>0. /\ h \in Logs /\ h.day = log.day /\ h.fp = dir[log.day] /\ h.fd = dir[log.day] /\ h.ign = 0
      /\ h.pos = Len(disk[dir[log.day]])
  <2>1. PICK end \in BOOLEAN : end = TRUE
    OBVIOUS
  <2>2. h = handle_file(log, end) /\ dir[log.day] # None
    BY <1>3, <1>4, <2>1
  <2>3. /\ handle_file(log, end) \in Logs /\ handle_file(log, end).day = log.day
        /\ handle_file(log, end).fp = dir[log.day] /\ handle_file(log, end).fd = dir[log.day]
        /\ handle_file(log, end).ign = 0
        /\ handle_file(log, end).pos = IF end THEN Len(disk[dir[log.day]]) ELSE 0
    BY <1>1, <1>2, <2>2, HandleIs
  <2>4. QED
    BY <2>1, <2>2, <2>3
<1>6. n \in 0 .. MaxSize /\ Size(log.fd) = n
  BY <1>1, <1>3, <1>5, SizesAre
<1>7. h \in Logs /\ h.day = log.day /\ h.fp = log.fp /\ h.fd = log.fp /\ h.ign = 0 /\ h.pos = n
  BY <1>0, <1>3, <1>5
<1>8. log' = Settle(h, n)
  BY <1>4, <1>6 DEF CheckReduced
<1>9. ~ (h.ign > OPEN_ATTEMPTS)
  BY <1>7, InodesAre
<1>10. /\ log' \in Logs /\ log'.day = log.day /\ log'.fp = log.fp /\ log'.fd = log.fd
       /\ log'.ign = 0 /\ log'.pos = n
  BY <1>3, <1>6, <1>7, <1>8, <1>9, SettleIs
<1>11. excused' \subseteq Pieces
  BY <1>1, <1>3 DEF Values
<1>12. QED
  BY <1>3, <1>5, <1>10, <1>11, SameStep

LEMMA CheckSameStep == ASSUME CollectorIInv, Checking, CheckSame PROVE CollectorIInv'
<1>1. Values /\ Sizes /\ Names
  BY DEF CollectorIInv
<1>2. PICK n : n = Size(log.fd)
  OBVIOUS
<1>3. log.fp # None /\ log' = Settle(log, n) /\ Remember(log', {})
  BY <1>2 DEF CheckSame, Watched
<1>4. n \in 0 .. MaxSize
  <2>1. log.fd \in Inodes
    BY <1>1, <1>3 DEF Names, Values
  <2>2. QED
    BY <1>1, <1>2, <2>1, SizesAre
<1>5. QED
  BY <1>3, <1>4, SettleStep

LEMMA CheckClosedStep == ASSUME CollectorIInv, Checking, CheckClosed PROVE CollectorIInv'
<1>1. Values /\ Sizes /\ Names /\ Errors
  BY DEF CollectorIInv
<1>2. log \in Logs
  BY <1>1 DEF Values, Logs
<1>3. ~ dated /\ log.fp = None
  BY DEF CheckClosed
<1>4. today = 1 /\ log.day = 1 /\ log.day \in 1 .. today
  BY <1>1, <1>3 DEF Names, Days
<1>5. format # "snort-full" => opened = {}
  BY <1>1, <1>3 DEF Errors
<1>6. ASSUME NEW l, NEW e \in Nat, l = [log EXCEPT !.ign = e], log' = l, Remember(l, AtEnd(l))
      PROVE  CollectorIInv'
  <2>1. /\ l \in Logs /\ l.fp = None /\ l.fd = log.fd /\ l.day = log.day
    BY <1>2, <1>3, <1>6 DEF Logs
  <2>2. AtEnd(l) = {} /\ AtEnd(log) = {}
    BY <1>3, <2>1 DEF AtEnd
  <2>3. PICK skipped : skipped = AtEnd(l)
    OBVIOUS
  <2>4. skipped \subseteq Pieces /\ Remember(l, skipped)
    BY <1>6, <2>2, <2>3
  <2>5. /\ opened' \subseteq Inodes /\ excused' \subseteq Pieces /\ cut' = cut
        /\ excused' = excused \cup skipped /\ opened' = opened /\ cut' \in BOOLEAN
    BY <1>3, <1>6, <2>1, <2>4, RememberIs
  <2>6. ~ cut
    BY <1>3 DEF CollectorIInv, Accounted
  <2>7. /\ log' \in Logs /\ log'.fp = None /\ log'.fd = log.fd /\ log'.day = log.day
        /\ ~ cut' /\ excused \cup (fresh \cap AtEnd(log)) \subseteq excused'
    BY <1>3, <1>6, <2>1, <2>2, <2>5, <2>6
  <2>8. QED
    BY <1>3, <1>4, <1>5, <2>5, <2>7, ClosedStep
<1>7. CASE log.ign > OPEN_ATTEMPTS
  <2>1. PICK l : l = [log EXCEPT !.ign = NeverAgain]
    OBVIOUS
  <2>2. log' = l /\ Remember(l, AtEnd(l))
    BY <1>7, <2>1 DEF CheckClosed
  <2>3. NeverAgain \in Nat
    BY DEF NeverAgain
  <2>4. QED
    BY <1>6, <2>1, <2>2, <2>3
<1>8. CASE ~ (log.ign > OPEN_ATTEMPTS) /\ dir[log.day] = None
  <2>1. PICK l : l = [log EXCEPT !.ign = log.ign + 1]
    OBVIOUS
  <2>2. log' = l /\ Remember(l, AtEnd(l))
    BY <1>8, <2>1 DEF CheckClosed
  <2>3. PICK e : e = log.ign + 1
    OBVIOUS
  <2>4. e \in Nat
    BY <1>1, <2>3 DEF Values
  <2>5. l = [log EXCEPT !.ign = e]
    BY <2>1, <2>3
  <2>6. QED
    BY <1>6, <2>2, <2>4, <2>5
<1>9. CASE ~ (log.ign > OPEN_ATTEMPTS) /\ dir[log.day] # None
  <2>1. PICK l : l = handle_file(log, TRUE)
    OBVIOUS
  <2>2. log' = l /\ Remember(l, AtEnd(l))
    BY <1>9, <2>1 DEF CheckClosed
  <2>3. dir[log.day] = made
    BY <1>1, <1>3, <1>4, <1>9 DEF Names
  <2>4. log.fd # None => log.fd <= dir[log.day]
    BY <1>1, <2>3 DEF Names
  <2>5. log' = handle_file(log, TRUE) /\ Remember(log', AtEnd(log'))
    BY <2>1, <2>2
  <2>6. log.fp # dir[log.day] /\ dir[log.day] # None
    BY <1>3, <1>9
  <2>7. QED
    BY <1>2, <1>4, <2>4, <2>5, <2>6, EndStep
<1>10. QED
  BY <1>7, <1>8, <1>9

LEMMA CheckStep == ASSUME CollectorIInv, Check PROVE CollectorIInv'
BY CheckIs, CheckDayStep, CheckAwaitedStep, CheckGoneStep, CheckRotatedStep, CheckReducedStep,
   CheckSameStep, CheckClosedStep DEF Check

-----------------------------------------------------------------------------
(* The beginning.                                                          *)
LEMMA BeginningHolds == ASSUME CollectorInit PROVE CollectorIInv
<1>1. /\ disk = [i \in Inodes |-> <<>>] /\ today = 1 /\ wfd = 1 /\ made = 1 /\ written = 0
      /\ format \in Formats /\ dated \in BOOLEAN /\ cuts = 0 /\ f_check = 0 /\ pc = "read"
      /\ sent = <<>> /\ resent = {} /\ refused = {} /\ tails = {}
      /\ fresh = {} /\ excused = {} /\ cut = FALSE
      /\ opened = IF dir[1] = None THEN {} ELSE {1}
      /\ log = handle_file(NoFile, TRUE)
  BY DEF CollectorInit
<1>2. 1 \in Inodes /\ None \notin Inodes /\ 1 # None
  BY InodesAre
<1>3. dir \in [Days -> Inodes \cup {None}] /\ dir[1] \in {1, None} /\ dir[2] = None
  <2>1. PICK i \in {1, None} : dir = [d \in Days |-> IF d = 1 THEN i ELSE None]
    BY DEF CollectorInit
  <2>2. QED
    BY <1>2, <2>1 DEF Days
<1>4. \A i \in Inodes : disk[i] = <<>>
  BY <1>1
<1>5. disk \in [Inodes -> Messages] /\ ToSet(<<>>) = {} /\ Said(<<>>) = {} /\ Len(<<>>) = 0
  BY <1>1, SaidNothing
<1>6. /\ log \in Logs /\ log.day = 1 /\ log.pos = 0 /\ log.ign = 0 /\ log.fp = log.fd
      /\ log.fp = dir[1]
  <2>1. MaxSize \in Nat /\ 0 \in 0 .. MaxSize
    BY InodesAre
  <2>2. CASE dir[1] = None
    <3>1. log = [NoFile EXCEPT !.fp = None]
      BY <1>1, <2>2 DEF handle_file, NoFile
    <3>2. QED
      BY <2>1, <2>2, <3>1 DEF NoFile, Logs, Days
  <2>3. CASE dir[1] = 1 /\ dir[1] # None
    <3>1. Size(1) = 0
      BY <1>2, <1>4, <1>5 DEF Size
    <3>2. log = [NoFile EXCEPT !.fp = 1, !.fd = 1, !.pos = 0, !.size = 0, !.ign = 0]
      BY <1>1, <2>3, <3>1 DEF handle_file, NoFile
    <3>3. log = [day |-> 1, fp |-> 1, fd |-> 1, pos |-> 0, size |-> 0, ign |-> 0]
      BY <3>2 DEF NoFile
    <3>4. log \in Logs
      BY <1>2, <2>1, <3>3 DEF Logs, Days
    <3>5. QED
      BY <2>3, <3>3, <3>4
  <2>4. QED
    BY <1>3, <2>2, <2>3
<1>7. Values
  <2>1. /\ cuts \in 0 .. MaxCuts /\ written \in 0 .. MaxLines
        /\ f_check \in 0 .. VCHECK_FILES + 1 /\ f_check <= VCHECK_FILES
    BY <1>1, InodesAre
  <2>2. sent \in Seq(Messages) /\ ToSet(sent) = {} /\ resent \subseteq ToSet(sent)
        /\ refused \subseteq ToSet(sent)
    BY <1>1, <1>5
  <2>3. QED
    BY <1>1, <1>2, <1>5, <1>6, <2>1, <2>2 DEF Values, Logs
<1>8. InFiles
  <2>1. \A f : FileOf(f, <<>>)
    BY <1>5, SaidNothing, NothingSorted DEF FileOf
  <2>2. Known = {}
    BY <1>1, <1>4, <1>5 DEF Known
  <2>3. \A i \in Inodes : ~ Pending(i)
    BY <1>4 DEF Pending
  <2>4. QED
    BY <1>1, <1>2, <1>4, <1>5, <2>1, <2>2, <2>3 DEF InFiles, AllBefore
<1>9. Sizes
  <2>1. Splits(0) \in Nat
    BY SplitsAre, InodesAre
  <2>2. \A i \in Inodes : ~ Pending(i) /\ Len(disk[i]) = 0
    BY <1>4, <1>5 DEF Pending
  <2>3. QED
    BY <1>1, <2>1, <2>2 DEF Sizes
<1>10. Names
  <2>1. \A d \in Days : dir[d] # None => dir[d] <= made
    BY <1>1, <1>3 DEF Days
  <2>2. /\ log.fp # None => log.fp = log.fd /\ log.fp \in opened
        /\ log.fd # None => log.fd <= made
    <3>1. CASE dir[1] = None
      BY <1>6, <3>1
    <3>2. CASE dir[1] = 1 /\ dir[1] # None
      <4>1. log.fp = 1 /\ log.fd = 1 /\ opened = {1} /\ made = 1
        BY <1>1, <1>6, <3>2
      <4>2. QED
        BY <4>1
    <3>3. QED
      BY <1>3, <3>1, <3>2
  <2>3. today \in Days /\ log.day \in 1 .. today
    <3>1. today = 1 /\ log.day = 1
      BY <1>1, <1>6
    <3>2. QED
      BY <3>1 DEF Days
  <2>4. QED
    BY <1>1, <1>3, <1>6, <2>1, <2>2, <2>3 DEF Names
<1>11. Errors /\ Wholes
  BY <1>1, <1>3, <1>5, <1>6 DEF Errors, Wholes, StaleIsOld
<1>12. Accounted
  <2>1. \A i \in opened : Len(disk[i]) = 0
    BY <1>1, <1>2, <1>4, <1>5
  <2>2. log.fp # None => Len(disk[log.fp]) = 0
    BY <1>3, <1>2, <1>4, <1>5, <1>6
  <2>3. ~ cut /\ (log.fp # None => log.pos <= Len(disk[log.fp]))
    <3>1. log.pos = 0 /\ ~ cut
      BY <1>1, <1>6
    <3>2. QED
      BY <2>2, <3>1
  <2>4. \A i \in opened : 1 .. Len(disk[i]) = {}
    BY <2>1
  <2>5. QED
    BY <2>3, <2>4 DEF Accounted
<1>13. Ordered
  <2>1. InOrder(<<>>)
    BY DEF InOrder
  <2>2. QED
    BY <1>1, <1>5, <2>1 DEF Ordered, AllBefore
<1>14. QED
  BY <1>7, <1>8, <1>9, <1>10, <1>11, <1>12, <1>13 DEF CollectorIInv

LEMMA StillStep == ASSUME CollectorIInv, UNCHANGED collectorVars PROVE CollectorIInv'
<1>1. UNCHANGED <<disk, dir, today, wfd, made, written, format, dated, log, f_check, pc, cuts,
                  sent, resent, refused, tails, fresh, excused, opened, cut>>
  BY DEF collectorVars
<1>2. (\A i : Pending(i)' <=> Pending(i)) /\ Known' = Known
  BY <1>1 DEF Pending, Known
<1>3. Values' /\ InFiles' /\ Sizes'
  BY <1>1, <1>2 DEF CollectorIInv, Values, InFiles, Sizes
<1>4. Names' /\ Errors' /\ Wholes'
  BY <1>1 DEF CollectorIInv, Names, Errors, Wholes, StaleIsOld
<1>5. Accounted' /\ Ordered'
  BY <1>1 DEF CollectorIInv, Accounted, Ordered, OnceOnly
<1>6. QED
  BY <1>3, <1>4, <1>5 DEF CollectorIInv

LEMMA CollectorStep ==
  ASSUME CollectorIInv, [CollectorNext]_collectorVars
  PROVE  CollectorIInv'
<1>1. CASE World
  BY <1>1, WriteLineStep, WriteRestStep, RenameStep, RestoreStep, ReopenStep, NewDayStep,
     TruncateStep DEF World
<1>2. CASE LogCollectorStart
  BY <1>2, PollStep, QueueFatalStep, CheckStep DEF LogCollectorStart
<1>3. CASE UNCHANGED collectorVars
  BY <1>3, StillStep
<1>4. QED
  BY <1>1, <1>2, <1>3 DEF CollectorNext

LEMMA CollectorInvariance == CollectorSpec => []CollectorIInv
BY BeginningHolds, CollectorStep, PTL DEF CollectorSpec

-----------------------------------------------------------------------------
(* What the invariant says.                                                *)
LEMMA TypesHold == ASSUME CollectorIInv PROVE CollectorTypeOK
<1>1. Values /\ Sizes /\ Names
  BY DEF CollectorIInv
<1>2. \A i \in Inodes : disk[i] \in Seq(Pieces) /\ Len(disk[i]) <= MaxSize
  <2>1. \A i \in Inodes : Len(disk[i]) \in 0 .. MaxSize
    BY <1>1, SizesAre
  <2>2. QED
    BY <1>1, <2>1, InodesAre DEF Values, Messages
<1>3. wfd \in 1 .. made
  BY <1>1, InodesAre DEF Values
<1>4. \A m \in ToSet(sent) : m # <<>> /\ ToSet(m) \subseteq Pieces
  <2>1. ToSet(sent) \subseteq Messages
    BY <1>1, MembersOf DEF Values
  <2>2. \A m \in ToSet(sent) : ToSet(m) \subseteq Pieces
    BY <2>1, MembersOf DEF Messages
  <2>3. QED
    BY <1>1, <2>2 DEF Values
<1>5. /\ log.day \in Days /\ log.fp \in Inodes \cup {None} /\ log.fd \in Inodes \cup {None}
      /\ log.pos \in 0 .. MaxSize /\ log.size \in 0 .. MaxSize
      /\ log.ign \in Nat /\ (log.fp # None => log.fp = log.fd)
  BY <1>1 DEF Values, Names
<1>6. QED
  BY <1>1, <1>2, <1>3, <1>4, <1>5 DEF CollectorTypeOK, Values, Names, CollectorIInv, Wholes

LEMMA LinesHold == ASSUME CollectorIInv PROVE EveryLineAccounted
<1>1. SUFFICES ASSUME NEW i \in opened, NEW k \in DOMAIN disk[i]
               PROVE  \/ disk[i][k] \in Delivered \cup Texts(refused) \cup excused
                      \/ i = log.fp /\ k > log.pos
                      \/ MayPassOver(i, disk[i][k])
  BY DEF EveryLineAccounted
<1>2. Values /\ Accounted
  BY DEF CollectorIInv
<1>3. disk[i] \in Messages
  BY <1>2 DEF Values
<1>4. k \in 1 .. Len(disk[i]) /\ PiecesOn(i) = ToSet(disk[i])
  BY <1>3, MembersOf DEF PiecesOn, ToSet, Messages
<1>5. Said(sent) \subseteq Delivered \cup Texts(refused)
  BY DEF Delivered, Texts, Said
<1>6. Passes(format, disk[i], disk[i][k]) => MayPassOver(i, disk[i][k])
  BY <1>4 DEF Passes, MayPassOver
<1>7. QED
  BY <1>2, <1>4, <1>5, <1>6 DEF Accounted

LEMMA HalvesHold == ASSUME CollectorIInv PROVE HoldsBackHalfLines
BY DEF CollectorIInv, Wholes, Whole, RestOf, Holding, HoldsBackHalfLines

LEMMA ErrorsHold == ASSUME CollectorIInv PROVE GivenUpForErrorsOnly
<1>1. NeverAgain # 0
  BY DEF NeverAgain
<1>2. QED
  BY <1>1 DEF CollectorIInv, Errors, GivenUpForErrorsOnly

(* Every line of a file that logcollector has had open is sent, is still   *)
(* ahead of it in the open file, or is lost for one of the reasons of      *)
(* MayPassOver and excused; the readers that wait for the end of a line    *)
(* send none without it; and a file is given up for bad syntax alone.      *)
THEOREM EveryLineIsAccounted == CollectorSpec => []ReaderInv
<1>1. CollectorIInv => ReaderInv
  BY TypesHold, LinesHold, HalvesHold, ErrorsHold DEF ReaderInv
<1>2. QED
  BY <1>1, CollectorInvariance, PTL

(* No message is given to the queue twice, and none before one whose lines *)
(* were written earlier, through rotations, new days and truncations.      *)
THEOREM EachIsSentOnce == CollectorSpec => []SentOnceInOrder
<1>1. CollectorIInv => SentOnceInOrder
  BY DEF CollectorIInv, Ordered, OnceOnly, SentOnceInOrder, Wholes
<1>2. QED
  BY <1>1, CollectorInvariance, PTL

=============================================================================
