------------------------- MODULE RemotedKeysProofs --------------------------
(***************************************************************************)
(* Proofs about RemotedKeys, for any hosts, any length of client.keys and  *)
(* any order of the three threads and the administrator: what is sent      *)
(* reaches the agent it is for, only the waiting thread can use entries    *)
(* that are freed, and a reload brings every key that was there.           *)
(***************************************************************************)
EXTENDS RemotedKeys, FiniteSetTheorems, SequenceTheorems, TLAPS

-----------------------------------------------------------------------------
(* The order of a set of naturals.                                         *)

Below(S, l) == {k \in S : k <= l}
Rank(S, l)  == Cardinality(Below(S, l))

LEMMA BelowFinite ==
  ASSUME NEW S, S \subseteq Nat, IsFiniteSet(S), NEW l \in S
  PROVE  /\ Below(S, l) \in SUBSET S /\ IsFiniteSet(Below(S, l))
         /\ Rank(S, l) \in 1 .. Cardinality(S)
<1>1. Below(S, l) \in SUBSET S /\ l \in Below(S, l)
  BY DEF Below
<1>2. /\ IsFiniteSet(Below(S, l))
      /\ Rank(S, l) \in Nat /\ Cardinality(S) \in Nat /\ Rank(S, l) <= Cardinality(S)
  BY <1>1, FS_Subset, FS_CardinalityType DEF Rank
<1>3. Rank(S, l) # 0
  BY <1>1, <1>2, FS_EmptySet DEF Rank
<1>4. QED
  BY <1>1, <1>2, <1>3

(* Different elements have different ranks.                                *)
LEMMA RankInjective ==
  ASSUME NEW S, S \subseteq Nat, IsFiniteSet(S)
  PROVE  \A l, m \in S : Rank(S, l) = Rank(S, m) => l = m
<1>1. ASSUME NEW l \in S, NEW m \in S, l < m
      PROVE  Rank(S, l) # Rank(S, m)
  <2>1. Below(S, l) \in SUBSET Below(S, m) /\ Below(S, l) # Below(S, m)
    <3>1. l \in Nat /\ m \in Nat /\ \A k \in S : k \in Nat
      OBVIOUS
    <3>2. m \in Below(S, m) /\ m \notin Below(S, l)
      BY <1>1, <3>1 DEF Below
    <3>3. \A k \in Below(S, l) : k \in Below(S, m)
      BY <1>1, <3>1 DEF Below
    <3>4. QED
      BY <3>2, <3>3
  <2>2. IsFiniteSet(Below(S, m))
    BY BelowFinite
  <2> DEFINE a == Below(S, l)
             b == Below(S, m)
  <2> HIDE DEF a, b
  <2>3. a \in SUBSET b /\ a # b /\ IsFiniteSet(b)
    BY <2>1, <2>2 DEF a, b
  <2>4. Cardinality(b) # Cardinality(a)
    BY <2>3, FS_Subset
  <2>5. QED
    BY <2>4 DEF Rank, a, b
<1>2. \A l, m \in S : l < m \/ m < l \/ l = m
  OBVIOUS
<1>3. QED
  BY <1>1, <1>2

(* Every number up to the size of a finite set is the rank of an element.  *)
LEMMA RankOnto ==
  ASSUME NEW S, S \subseteq Nat, IsFiniteSet(S)
  PROVE  \A i \in 1 .. Cardinality(S) : \E l \in S : Rank(S, l) = i
<1> DEFINE c == Cardinality(S)
           f == [l \in S |-> Rank(S, l)]
<1>1. c \in Nat
  BY FS_CardinalityType
<1>2. IsFiniteSet(1 .. c) /\ Cardinality(1 .. c) = c
  BY <1>1, FS_Interval
<1>3. f \in Injection(S, 1 .. c)
  BY BelowFinite, RankInjective DEF Injection, IsInjective
<1> HIDE DEF f
<1>4. f \in Surjection(S, 1 .. c)
  BY <1>2, <1>3, FS_Injection
<1>5. QED
  BY <1>4 DEF Surjection, f

(* Ordered(S) lists the elements of S.                                     *)
LEMMA OrderedElements ==
  ASSUME NEW S, S \subseteq Nat, IsFiniteSet(S)
  PROVE  /\ Ordered(S) \in Seq(S) /\ Len(Ordered(S)) = Cardinality(S)
         /\ \A l \in S : \E i \in 1 .. Cardinality(S) : Ordered(S)[i] = l
<1>0. Cardinality(S) \in Nat
  BY FS_CardinalityType
<1>1. Ordered(S) = [i \in 1 .. Cardinality(S) |-> CHOOSE l \in S : Rank(S, l) = i]
  BY DEF Ordered, Rank, Below
<1>2. \A i \in 1 .. Cardinality(S) : Ordered(S)[i] \in S /\ Rank(S, Ordered(S)[i]) = i
  BY <1>1, RankOnto
<1>3. Ordered(S) \in Seq(S) /\ Len(Ordered(S)) = Cardinality(S)
  <2>1. Ordered(S) \in [1 .. Cardinality(S) -> S]
    BY <1>1, <1>2
  <2>2. DOMAIN Ordered(S) = 1 .. Cardinality(S)
    BY <1>1
  <2>3. Ordered(S) \in Seq(S)
    BY <1>0, <2>1, SeqDef
  <2>4. QED
    BY <1>0, <2>2, <2>3, LenProperties
<1>4. ASSUME NEW l \in S
      PROVE  \E i \in 1 .. Cardinality(S) : Ordered(S)[i] = l
  <2>1. Rank(S, l) \in 1 .. Cardinality(S)
    BY BelowFinite
  <2>2. Ordered(S)[Rank(S, l)] = l
    BY <1>2, <2>1, RankInjective
  <2>3. QED
    BY <2>1, <2>2
<1>5. QED
  BY <1>3, <1>4

(* A finite set of naturals that is not empty has a least element.         *)
LEMMA LeastElement ==
  ASSUME NEW S, S \subseteq Nat, IsFiniteSet(S), S # {}
  PROVE  \E m \in S : \A k \in S : m <= k
<1>1. 1 \in 1 .. Cardinality(S)
  <2>1. Cardinality(S) \in Nat /\ Cardinality(S) # 0
    BY FS_CardinalityType, FS_EmptySet
  <2>2. QED
    BY <2>1
<1>2. PICK m \in S : Rank(S, m) = 1
  BY <1>1, RankOnto
<1>3. PICK x : Below(S, m) = {x}
  <2>1. IsFiniteSet(Below(S, m)) /\ Cardinality(Below(S, m)) = 1
    BY <1>2, BelowFinite DEF Rank
  <2>2. QED
    BY <2>1, FS_Singleton
<1>4. \A k \in S : k <= m => k = m
  <2>1. m \in Nat
    OBVIOUS
  <2>2. m \in Below(S, m) /\ \A k \in S : k <= m => k \in Below(S, m)
    BY <2>1 DEF Below
  <2>3. QED
    BY <1>3, <2>2
<1>5. \A k \in S : m <= k
  <2>1. m \in Nat /\ \A k \in S : k \in Nat
    OBVIOUS
  <2>2. QED
    BY <1>4, <2>1
<1>6. QED
  BY <1>5

-----------------------------------------------------------------------------
(* The file.                                                               *)

FileLines == [id : Ids, name : Hosts, removed : BOOLEAN]

(* Ids are given in the order of the lines.                                *)
FileOK ==
  /\ file \in Seq(FileLines) /\ Len(file) <= MaxLines
  /\ \A l \in Lines : file[l].id <= l

LEMMA LinesNat ==
  ASSUME FileOK
  PROVE  /\ Lines = 1 .. Len(file) /\ Len(file) \in Nat
         /\ \A l \in Lines : /\ l \in Nat /\ l \in 1 .. MaxLines
                             /\ file[l] \in FileLines
                             /\ file[l].id \in Ids /\ file[l].name \in Hosts
                             /\ file[l].removed \in BOOLEAN
<1>1. Lines = 1 .. Len(file) /\ Len(file) \in Nat
  BY DEF FileOK, Lines
<1>2. \A l \in Lines : l \in Nat /\ l \in 1 .. MaxLines /\ file[l] \in FileLines
  BY <1>1, MaxLinesAssumption DEF FileOK
<1>3. QED
  BY <1>1, <1>2 DEF FileLines

(* The same of the file a step later.                                      *)
LEMMA LinesNatNext ==
  ASSUME FileOK'
  PROVE  \A l \in Lines' : file'[l].removed \in BOOLEAN
<1>1. Lines' = 1 .. Len(file')
  BY DEF FileOK, Lines
<1>2. \A l \in Lines' : file'[l] \in FileLines
  BY <1>1 DEF FileOK
<1>3. QED
  BY <1>2 DEF FileLines

LEMMA LinesFinite ==
  ASSUME FileOK, NEW S, S \subseteq Lines
  PROVE  S \subseteq Nat /\ IsFiniteSet(S) /\ Cardinality(S) <= Len(file)
<1> DEFINE n == Len(file)
<1>1. n \in Nat /\ Lines = 1 .. n
  BY LinesNat
<1> HIDE DEF n
<1>2. IsFiniteSet(1 .. n) /\ Cardinality(1 .. n) = n
  BY <1>1, FS_Interval
<1>3. S \in SUBSET (1 .. n)
  BY <1>1
<1>4. IsFiniteSet(S) /\ Cardinality(S) <= n
  BY <1>2, <1>3, FS_Subset
<1>5. S \subseteq Nat
  BY <1>1, <1>3
<1>6. QED
  BY <1>4, <1>5 DEF n

(* The id offered is new and at most the number of the new line.           *)
LEMMA DefaultIdType ==
  ASSUME FileOK
  PROVE  DefaultId \in 1 .. Len(file) + 1
<1> DEFINE above == {i \in 1 .. MaxLines + 1 : \A k \in Ids : IDExist(k) => k < i}
           n == Len(file)
<1>0. n \in Nat /\ n <= MaxLines /\ MaxLines \in Nat
  BY LinesNat, MaxLinesAssumption DEF FileOK
<1>1. \A k \in Ids : IDExist(k) => k <= n
  <2>1. SUFFICES ASSUME NEW k \in Ids, NEW l \in Lines, file[l].id = k PROVE k <= n
    BY DEF IDExist
  <2>2. l \in 1 .. n /\ k <= l
    BY <2>1, LinesNat DEF FileOK
  <2>3. QED
    BY <1>0, <2>2 DEF Ids
<1>2. n + 1 \in above
  BY <1>0, <1>1 DEF Ids
<1>3. PICK m \in above : \A k \in above : m <= k
  <2>1. above \in SUBSET (1 .. MaxLines + 1) /\ above # {}
    BY <1>2
  <2>2. IsFiniteSet(above)
    <3>1. IsFiniteSet(1 .. MaxLines + 1)
      BY <1>0, FS_Interval
    <3> HIDE DEF above
    <3>2. QED
      BY <2>1, <3>1, FS_Subset
  <2> HIDE DEF above
  <2>3. above \subseteq Nat
    BY <1>0, <2>1
  <2>4. QED
    BY <2>1, <2>2, <2>3, LeastElement
<1>4. m = 1 \/ IDExist(m - 1)
  <2>1. SUFFICES ASSUME m # 1 PROVE IDExist(m - 1)
    OBVIOUS
  <2>2. m - 1 \in 1 .. MaxLines + 1 /\ m - 1 \notin above
    <3>1. m \in 1 .. MaxLines + 1
      OBVIOUS
    <3>2. QED
      BY <1>0, <1>3, <2>1, <3>1
  <2>3. PICK k \in Ids : IDExist(k) /\ ~ (k < m - 1)
    BY <2>2
  <2>4. k < m
    BY <2>3
  <2>5. k = m - 1
    BY <1>0, <2>2, <2>3, <2>4 DEF Ids
  <2>6. QED
    BY <2>3, <2>5
<1>5. /\ DefaultId \in 1 .. MaxLines + 1
      /\ \A k \in Ids : IDExist(k) => k < DefaultId
      /\ DefaultId = 1 \/ IDExist(DefaultId - 1)
  BY <1>3, <1>4 DEF DefaultId
<1>6. CASE DefaultId = 1
  BY <1>0, <1>6
<1>7. CASE IDExist(DefaultId - 1)
  <2>1. PICK l \in Lines : file[l].id = DefaultId - 1
    BY <1>7 DEF IDExist
  <2>2. l <= n /\ l \in Nat /\ file[l].id <= l
    BY <2>1, LinesNat DEF FileOK
  <2>3. QED
    BY <1>0, <1>5, <2>1, <2>2
<1>8. QED
  BY <1>5, <1>6, <1>7

(* The file only grows: a line keeps its name and its id, and a removed    *)
(* one stays removed.                                                      *)
Grows ==
  \A l \in Lines : /\ l \in Lines' /\ file'[l].name = file[l].name /\ file'[l].id = file[l].id
                   /\ ~ file'[l].removed => ~ file[l].removed

LEMMA AppendGrows ==
  ASSUME FileOK, NEW h \in Hosts, Len(file) < MaxLines, AppendLine(h, DefaultId)
  PROVE  FileOK' /\ Grows /\ Len(file') = Len(file) + 1
<1> DEFINE line == [id |-> DefaultId, name |-> h, removed |-> FALSE]
           n == Len(file)
<1>0. n \in Nat /\ MaxLines \in Nat
  BY LinesNat, MaxLinesAssumption
<1>1. file' = Append(file, line)
  BY DEF AppendLine
<1>2. DefaultId \in Ids /\ DefaultId <= n + 1
  BY <1>0, DefaultIdType DEF Ids
<1>3. line \in FileLines /\ line.id = DefaultId
  BY <1>2 DEF FileLines
<1> HIDE DEF line
<1>4. file \in Seq(FileLines) /\ n <= MaxLines
  BY DEF FileOK
<1>5. /\ file' \in Seq(FileLines) /\ Len(file') = n + 1
      /\ \A l \in 1 .. n : file'[l] = file[l]
      /\ file'[n + 1] = line
  BY <1>1, <1>3, <1>4
<1>6. Lines = 1 .. n /\ Lines' = 1 .. n + 1
  BY <1>5, LinesNat DEF Lines
<1>7. \A l \in Lines' : file'[l].id <= l
  <2>1. \A l \in 1 .. n + 1 : l \in 1 .. n \/ l = n + 1
    BY <1>0
  <2>2. \A l \in 1 .. n : file'[l].id <= l
    BY <1>5, <1>6 DEF FileOK
  <2>3. file'[n + 1].id <= n + 1
    BY <1>2, <1>3, <1>5
  <2>4. QED
    BY <1>6, <2>1, <2>2, <2>3
<1>8. Len(file') <= MaxLines
  BY <1>0, <1>5
<1>9. Grows
  <2>1. \A l \in 1 .. n : l \in 1 .. n + 1
    BY <1>0
  <2>2. QED
    BY <1>5, <1>6, <2>1 DEF Grows
<1>10. QED
  BY <1>5, <1>7, <1>8, <1>9 DEF FileOK

LEMMA OverwriteGrows ==
  ASSUME FileOK, NEW id \in Ids, getFullnameById(id) # {}, OverwriteLine(Place(id), id)
  PROVE  FileOK' /\ Grows /\ Len(file') = Len(file)
<1> DEFINE S == {l \in Lines : file[l].id = id}
           p == Place(id)
<1>1. S \subseteq Nat /\ IsFiniteSet(S) /\ S # {}
  <2>1. S \subseteq Lines
    OBVIOUS
  <2>2. S # {}
    BY DEF getFullnameById, LiveLines
  <2>3. QED
    BY <2>1, <2>2, LinesFinite
<1>2. p \in Lines /\ file[p].id = id
  <2>1. \E m \in S : \A k \in S : m <= k
    BY <1>1, LeastElement
  <2>2. QED
    BY <2>1 DEF Place
<1>3. file' = [file EXCEPT ![p].id = id, ![p].removed = TRUE]
  BY DEF OverwriteLine
<1> HIDE DEF p, S
<1>4. file \in Seq(FileLines) /\ file[p] \in FileLines /\ p \in 1 .. Len(file)
  BY <1>2, LinesNat DEF FileOK
<1> DEFINE line == [file[p] EXCEPT !.id = id, !.removed = TRUE]
<1>5. file' = [file EXCEPT ![p] = line]
  BY <1>3, <1>4
<1>6. line \in FileLines /\ line.id = file[p].id /\ line.name = file[p].name /\ line.removed = TRUE
  BY <1>2, <1>4 DEF FileLines
<1> HIDE DEF line
<1>7. /\ file' \in Seq(FileLines) /\ Len(file') = Len(file)
      /\ \A l \in 1 .. Len(file) : file'[l] = IF l = p THEN line ELSE file[l]
  BY <1>4, <1>5, <1>6
<1>8. Lines = 1 .. Len(file) /\ Lines' = 1 .. Len(file)
  BY <1>7, LinesNat DEF Lines
<1>9. Grows
  BY <1>6, <1>7, <1>8 DEF Grows
<1>10. FileOK'
  BY <1>7, <1>8, <1>9 DEF FileOK, Grows
<1>11. QED
  BY <1>7, <1>9, <1>10

-----------------------------------------------------------------------------
(* The inductive invariant.                                                *)

KeyLines == [line : Lines, rcvd : BOOLEAN]

(* The file and its dates: one for each line.                              *)
Dates ==
  /\ stamp \in Nat /\ fresh \in BOOLEAN
  /\ dates \in Seq(0 .. stamp) /\ Len(dates) = Len(file)
  /\ file_change \in 0 .. stamp

Keys == keyentries \in Seq(KeyLines) /\ Len(keyentries) <= MaxLines

Updating == {"update", "locked", "hidden", "freed", "dated"}

(* What a thread has in hand.  The key of a message is one its sender has  *)
(* held; the entry acknowledged is that of the sender.                     *)
Main ==
  \/ main = Idle
  \/ /\ main \in [at : Updating, from : Hosts, key : Lines]
     /\ file[main.key].name = main.from
  \/ /\ main \in [at : {"ack"}, from : Hosts, i : DOMAIN keyentries]
     /\ Name(main.i) = main.from

Ar ==
  \/ ar = Idle
  \/ /\ ar \in [at : {"send"}, i : DOMAIN keyentries, for : Hosts \cup Ids \cup {None},
                all : BOOLEAN]
     /\ ar.all => ar.for = None
     /\ ar.for \in Hosts => Name(ar.i) = ar.for
     /\ ar.for \in Ids => Id(ar.i) = ar.for

Wait ==
  \/ wait = Idle
  \/ /\ wait \in [at : {"check", "send"}, i : Slots, for : Hosts \cup {Old}]
     /\ ~ Freed /\ wait.for # Old => wait.i \in DOMAIN keyentries /\ Name(wait.i) = wait.for

Saved ==
  /\ changed \in [Slots -> Hosts \cup {None, Old}]
  /\ keep_alive \in [Slots -> Hosts \cup {None}]
  /\ ~ Freed =>
       \A i \in Slots : changed[i] \in Hosts => i \in DOMAIN keyentries /\ Name(i) = changed[i]

(* Who holds which mutex.                                                  *)
Locks ==
  /\ up \in BOOLEAN
  /\ keyupdate \in {None, "main", "ar"} /\ sendmsg \in {None, "main", "wait"}
  /\ main.at \in {"locked", "hidden", "freed", "dated"} <=> keyupdate = "main"
  /\ main.at \in {"hidden", "freed", "dated"} <=> sendmsg = "main"
  /\ ar.at = "send" <=> keyupdate = "ar"

IInv == FileOK /\ Dates /\ Keys /\ Main /\ Ar /\ Wait /\ Saved /\ Locks /\ DateCoversKeys

LEMMA KeyLine ==
  ASSUME FileOK, Keys
  PROVE  /\ DOMAIN keyentries = 1 .. Len(keyentries) /\ Len(keyentries) \in Nat
         /\ \A i \in DOMAIN keyentries :
              /\ i \in Slots /\ keyentries[i] \in KeyLines
              /\ keyentries[i].line \in Lines /\ keyentries[i].rcvd \in BOOLEAN
              /\ Name(i) \in Hosts /\ Id(i) \in Ids
<1>1. DOMAIN keyentries = 1 .. Len(keyentries) /\ Len(keyentries) \in Nat
  BY DEF Keys
<1>2. \A i \in DOMAIN keyentries : i \in Slots /\ keyentries[i] \in KeyLines
  BY <1>1, MaxLinesAssumption DEF Keys, Slots
<1>3. \A i \in DOMAIN keyentries : keyentries[i].line \in Lines /\ keyentries[i].rcvd \in BOOLEAN
  BY <1>2 DEF KeyLines
<1>4. QED
  BY <1>1, <1>2, <1>3, LinesNat DEF Name, Id

(* The invariant says what the threads are promised.                       *)
LEMMA Implies == ASSUME IInv PROVE KeysInv
<1> USE DEF IInv
<1>1. FileTypeOK
  BY DEF FileOK, FileLines, FileTypeOK
<1>2. ar.at = "send" => /\ ar.i \in DOMAIN keyentries
                        /\ ar.for \in Hosts => Name(ar.i) = ar.for
                        /\ ar.for \in Ids => Id(ar.i) = ar.for
  BY DEF Ar, Idle
<1>3. main.at = "ack" => main.i \in DOMAIN keyentries /\ Name(main.i) = main.from
  BY DEF Main, Idle, Updating
<1>4. wait # Idle => wait.i \in Slots
  BY DEF Wait
<1>5. ar # Idle => ar.at = "send"
  BY DEF Ar
<1>6. sendmsg = None => ~ Hidden
  BY KindsAssumption DEF Locks, Hidden
<1>7. SentToAddressee
  BY <1>2, <1>3 DEF SentToAddressee
<1>8. MissentOnlyAcrossReload
  <2>1. wait.at = "send" => wait # Idle
    BY DEF Idle
  <2>2. Freed => Hidden
    BY DEF Freed, Hidden
  <2>3. QED
    BY <1>6, <2>1, <2>2 DEF MissentOnlyAcrossReload, Wait
<1>9. FreedUsedByWaitOnly
  <2>1. \A i \in DOMAIN keyentries : ~ (i > Len(keyentries) + 1)
    BY KeyLine
  <2>2. ar.at = "send" => ~ Freed
    BY DEF Locks, Freed
  <2>3. main.at = "ack" => ~ Freed
    BY DEF Freed
  <2>4. QED
    BY <1>2, <1>3, <1>5, <2>1, <2>2, <2>3 DEF FreedUsedByWaitOnly, Wild
<1>10. TypeOK
  <2>1. keyentries \in Seq([line : Lines, rcvd : BOOLEAN])
    BY DEF Keys, KeyLines
  <2>2. ar = Idle \/ ar.i \in Slots
    BY <1>2, <1>5, KeyLine
  <2>3. QED
    BY <1>1, <1>4, <2>1, <2>2 DEF TypeOK, Dates, Saved, Locks
<1>11. QED
  BY <1>7, <1>8, <1>9, <1>10 DEF KeysInv

(* The entries OS_ReadKeys makes of the file.                              *)
Read == [i \in DOMAIN LinesToRead |-> Entry(LinesToRead[i])]

LEMMA ReadEntries ==
  ASSUME FileOK
  PROVE  /\ Read \in Seq(KeyLines) /\ Len(Read) <= MaxLines
         /\ DOMAIN Read = 1 .. Len(Read)
         /\ \A l \in LiveLines : \E i \in DOMAIN Read : Read[i].line = l
<1> DEFINE o == LinesToRead
           c == Cardinality(LiveLines)
<1>1. LiveLines \subseteq Lines
  BY DEF LiveLines
<1>2. LiveLines \subseteq Nat /\ IsFiniteSet(LiveLines) /\ c <= Len(file)
  BY <1>1, LinesFinite
<1>3. /\ o \in Seq(LiveLines) /\ Len(o) = c
      /\ \A l \in LiveLines : \E i \in 1 .. c : o[i] = l
  BY <1>2, OrderedElements DEF LinesToRead
<1>4. c \in Nat /\ c <= MaxLines
  BY <1>2, FS_CardinalityType, LinesNat, MaxLinesAssumption DEF FileOK
<1> HIDE DEF o, c
<1>5. DOMAIN o = 1 .. c /\ \A i \in 1 .. c : o[i] \in LiveLines
  BY <1>3, <1>4
<1>6. Read = [i \in 1 .. c |-> Entry(o[i])]
  BY <1>5 DEF Read, o
<1>7. \A i \in 1 .. c : Read[i] \in KeyLines /\ Read[i].line = o[i]
  BY <1>1, <1>5, <1>6 DEF Entry, KeyLines
<1>8. Read \in [1 .. c -> KeyLines]
  BY <1>6, <1>7
<1>9. Read \in Seq(KeyLines)
  BY <1>4, <1>8, SeqDef
<1>10. DOMAIN Read = 1 .. c /\ Len(Read) = c
  BY <1>4, <1>6, <1>9, LenProperties
<1>11. QED
  BY <1>3, <1>4, <1>7, <1>9, <1>10

LEMMA InitInv == ASSUME Init PROVE IInv
<1>1. PICK h \in Hosts : file = <<[id |-> 1, name |-> h, removed |-> FALSE]>>
  BY DEF Init, InitFile
<1>2. FileOK
  <2> DEFINE line == [id |-> 1, name |-> h, removed |-> FALSE]
  <2>1. line \in FileLines /\ line.id = 1
    BY MaxLinesAssumption DEF FileLines, Ids
  <2> HIDE DEF line
  <2>2. file = <<line>>
    BY <1>1 DEF line
  <2>3. file \in Seq(FileLines) /\ Len(file) = 1 /\ Lines = {1} /\ file[1] = line
    BY <2>1, <2>2 DEF Lines
  <2>4. \A l \in Lines : file[l].id <= l
    BY <2>1, <2>3
  <2>5. QED
    BY <2>3, <2>4, MaxLinesAssumption DEF FileOK
<1>3. Dates
  <2>1. Len(file) = 1
    BY <1>1
  <2>2. dates = <<0>> /\ stamp = 0 /\ fresh = FALSE /\ file_change = 0
    BY DEF Init
  <2>3. dates \in Seq(0 .. stamp) /\ Len(dates) = 1
    <3> DEFINE T == 0 .. stamp
    <3>1. 0 \in T
      BY <2>2
    <3> HIDE DEF T
    <3>2. <<0>> \in Seq(T) /\ Len(<<0>>) = 1
      BY <3>1
    <3>3. dates \in Seq(T) /\ Len(dates) = 1
      BY <2>2, <3>2
    <3>4. QED
      BY <3>3 DEF T
  <2>4. stamp \in Nat /\ file_change \in 0 .. stamp /\ Len(dates) = Len(file)
    BY <2>1, <2>2, <2>3
  <2>5. fresh \in BOOLEAN
    BY <2>2
  <2>6. QED
    BY <2>3, <2>4, <2>5, Zenon DEF Dates
<1>4. keyentries = Read /\ Keys
  BY <1>2, ReadEntries DEF Init, Read, Keys
<1>5. Main /\ Ar /\ Wait
  BY DEF Init, Main, Ar, Wait
<1>6. Saved
  BY NoneAssumption DEF Init, Saved
<1>7. Locks
  BY KindsAssumption DEF Init, Locks, Idle
<1>8. DateCoversKeys
  BY <1>2, <1>4, ReadEntries DEF DateCoversKeys
<1>9. QED
  BY <1>2, <1>3, <1>4, <1>5, <1>6, <1>7, <1>8 DEF IInv

-----------------------------------------------------------------------------
(* The administrator's steps.                                              *)

(* With the keys alone, what the threads have in hand stays true of a file *)
(* that grows.                                                             *)
LEMMA GrowsThreads ==
  ASSUME IInv, FileOK', Grows, UNCHANGED remVars
  PROVE  Keys' /\ Main' /\ Ar' /\ Wait' /\ Saved' /\ Locks'
<1> USE DEF IInv
<1>1. \A l \in Lines : l \in Lines' /\ file'[l].name = file[l].name /\ file'[l].id = file[l].id
  BY DEF Grows
<1>2. UNCHANGED <<up, keyentries, file_change, keyupdate, sendmsg, main, ar, wait, changed,
                  keep_alive>>
  BY DEF remVars
<1>3. \A i \in DOMAIN keyentries : Name(i)' = Name(i) /\ Id(i)' = Id(i)
  BY <1>1, <1>2, KeyLine DEF Name, Id
<1>4. Keys'
  <2>1. \A i \in 1 .. Len(keyentries) : keyentries[i] \in KeyLines'
    <3>1. \A i \in 1 .. Len(keyentries) : keyentries[i] \in KeyLines
      BY KeyLine
    <3>2. \A e \in KeyLines : e \in KeyLines'
      BY <1>1 DEF KeyLines
    <3>3. QED
      BY <3>1, <3>2
  <2>2. keyentries \in Seq(KeyLines')
    <3>1. keyentries = [i \in 1 .. Len(keyentries) |-> keyentries[i]] /\ Len(keyentries) \in Nat
      BY DEF Keys
    <3>2. keyentries \in [1 .. Len(keyentries) -> KeyLines']
      BY <2>1, <3>1
    <3>3. QED
      BY <3>1, <3>2, SeqDef
  <2>3. QED
    BY <1>2, <2>2 DEF Keys
<1>5. Main'
  BY <1>1, <1>2, <1>3 DEF Main
<1>6. Ar'
  BY <1>2, <1>3 DEF Ar
<1>7. Wait'
  BY <1>2, <1>3 DEF Wait, Freed
<1>8. Saved'
  BY <1>2, <1>3 DEF Saved, Freed
<1>9. Locks'
  BY <1>2 DEF Locks
<1>10. QED
  BY <1>4, <1>5, <1>6, <1>7, <1>8, <1>9

LEMMA EditStep ==
  ASSUME IInv, EditFile, UNCHANGED remVars
  PROVE  IInv'
<1> USE DEF IInv
<1>0. UNCHANGED <<up, keyentries, file_change, main>>
  BY DEF remVars
<1>1. CASE Second
  <2>1. FileOK' /\ Grows
    BY <1>1 DEF Second, FileOK, Grows, Lines
  <2>2. Dates'
    BY <1>0, <1>1 DEF Second, Dates
  <2>3. DateCoversKeys'
    BY <1>0, <1>1 DEF Second, DateCoversKeys, LiveLines, Lines, Hidden
  <2>4. QED
    BY <2>1, <2>2, <2>3, GrowsThreads
<1>2. ASSUME NEW h \in Hosts, add_agent(h)
      PROVE  IInv'
  <2>1. FileOK' /\ Grows /\ Len(file') = Len(file) + 1
    BY <1>2, AppendGrows DEF add_agent
  <2>2. /\ stamp' \in Nat /\ stamp <= stamp' /\ fresh' = TRUE
        /\ dates' = Append(dates, stamp')
    BY <1>2 DEF add_agent, Touched, Dates
  <2>3. /\ dates' \in Seq(0 .. stamp') /\ Len(dates') = Len(dates) + 1
        /\ \A l \in 1 .. Len(dates) : dates'[l] = dates[l]
        /\ dates'[Len(dates) + 1] = stamp'
    <3>1. dates \in Seq(0 .. stamp) /\ stamp \in Nat
      BY DEF Dates
    <3>2. dates \in Seq(0 .. stamp')
      <4>1. dates = [i \in 1 .. Len(dates) |-> dates[i]] /\ Len(dates) \in Nat
        BY <3>1
      <4>2. \A i \in 1 .. Len(dates) : dates[i] \in 0 .. stamp'
        BY <2>2, <3>1
      <4>3. dates \in [1 .. Len(dates) -> 0 .. stamp']
        BY <4>1, <4>2
      <4>4. QED
        BY <4>1, <4>3, SeqDef
    <3>3. stamp' \in 0 .. stamp'
      BY <2>2
    <3>4. QED
      BY <2>2, <3>2, <3>3
  <2>4. Dates'
    BY <1>0, <2>1, <2>2, <2>3 DEF Dates
  <2>5. DateCoversKeys'
    <3>1. ASSUME up, ~ Hidden, NEW l \in LiveLines', dates'[l] < file_change
          PROVE  \E i \in DOMAIN keyentries : keyentries[i].line = l
      <4>1. l \in 1 .. Len(file) + 1 /\ ~ file'[l].removed
        BY <2>1, LinesNat DEF LiveLines, Lines, FileOK
      <4>2. l # Len(file) + 1
        BY <2>2, <2>3, <3>1 DEF Dates
      <4>3. l \in Lines
        BY <4>1, <4>2, LinesNat
      <4>4. l \in LiveLines
        BY <4>1, <4>3, <2>1 DEF LiveLines, Grows
      <4>5. dates[l] < file_change
        BY <2>3, <3>1, <4>3, LinesNat DEF Dates
      <4>6. QED
        BY <3>1, <4>4, <4>5 DEF DateCoversKeys
    <3>2. QED
      BY <1>0, <3>1 DEF DateCoversKeys, Hidden
  <2>6. QED
    BY <2>1, <2>4, <2>5, GrowsThreads
<1>3. ASSUME NEW id \in Ids, remove_agent(id)
      PROVE  IInv'
  <2>1. FileOK' /\ Grows /\ Len(file') = Len(file)
    BY <1>3, OverwriteGrows DEF remove_agent
  <2>2. stamp' \in Nat /\ stamp <= stamp' /\ fresh' = TRUE /\ dates' = dates
    BY <1>3 DEF remove_agent, Touched, Dates
  <2>3. dates \in Seq(0 .. stamp')
    <3>1. dates \in Seq(0 .. stamp) /\ stamp \in Nat
      BY DEF Dates
    <3>2. dates = [i \in 1 .. Len(dates) |-> dates[i]] /\ Len(dates) \in Nat
      BY <3>1
    <3>3. \A i \in 1 .. Len(dates) : dates[i] \in 0 .. stamp'
      BY <2>2, <3>1
    <3>4. dates \in [1 .. Len(dates) -> 0 .. stamp']
      BY <3>2, <3>3
    <3>5. QED
      BY <3>2, <3>4, SeqDef
  <2>4. Dates'
    BY <1>0, <2>1, <2>2, <2>3 DEF Dates
  <2>5. \A l \in LiveLines' : l \in LiveLines
    <3>1. Lines' = Lines
      BY <2>1, LinesNat DEF Lines, FileOK
    <3>2. QED
      BY <2>1, <3>1 DEF LiveLines, Grows
  <2>6. DateCoversKeys'
    BY <1>0, <2>2, <2>5 DEF DateCoversKeys, Hidden
  <2>7. QED
    BY <2>1, <2>4, <2>6, GrowsThreads
<1>4. QED
  BY <1>1, <1>2, <1>3 DEF EditFile

-----------------------------------------------------------------------------
(* The receiving thread.                                                   *)

(* A lookup finds one entry at most.                                       *)
LEMMA LookupOne ==
  ASSUME NEW h, NEW l, NEW entries, NEW n \in Nat, DOMAIN entries = 1 .. n
  PROVE  /\ Lookup(h, l, entries) \subseteq DOMAIN entries
         /\ \A i, j \in Lookup(h, l, entries) : i = j
<1>1. ASSUME NEW S, S \subseteq 1 .. n
      PROVE  First(S) \subseteq 1 .. n /\ \A i, j \in First(S) : i = j
  <2>1. \A i, j \in First(S) : i \in 1 .. n /\ j \in 1 .. n /\ i <= j /\ j <= i
    BY <1>1 DEF First
  <2>2. QED
    BY <2>1
<1>2. QED
  BY <1>1 DEF Lookup, OS_IsAllowedID, OS_IsAllowedIP

(* What a message leaves: the lines of the entries as they are, and the    *)
(* sender's own entry to acknowledge, if any.                              *)
LEMMA Accepted ==
  ASSUME FileOK, NEW h \in Hosts, NEW l \in Lines, file[l].name = h,
         NEW entries \in Seq(KeyLines), Len(entries) <= MaxLines,
         Accept(h, l, entries, Lookup(h, l, entries))
  PROVE  /\ keyentries' \in Seq(KeyLines) /\ Len(keyentries') = Len(entries)
         /\ \A i \in 1 .. Len(entries) : keyentries'[i].line = entries[i].line
         /\ \/ main' = Idle
            \/ /\ main' \in [at : {"ack"}, from : Hosts, i : 1 .. Len(entries)]
               /\ main'.from = h /\ file[entries[main'.i].line].name = h
<1> DEFINE E == Lookup(h, l, entries)
           n == Len(entries)
           i == CHOOSE k \in E : TRUE
<1>0. n \in Nat /\ DOMAIN entries = 1 .. n
  OBVIOUS
<1>1. E \subseteq 1 .. n /\ \A j, k \in E : j = k
  BY <1>0, LookupOne
<1> HIDE DEF E, n
<1>2. CASE ~ \E k \in E : entries[k].line = l
  BY <1>0, <1>2 DEF Accept, E, n
<1>3. CASE \E k \in E : entries[k].line = l
  <2>1. i \in 1 .. n /\ entries[i].line = l
    BY <1>1, <1>3
  <2>2. keyentries' = [entries EXCEPT ![i].rcvd = TRUE] /\ main' = [at |-> "ack", from |-> h, i |-> i]
    BY <1>3 DEF Accept, E
  <2> HIDE DEF i
  <2> DEFINE e == [entries[i] EXCEPT !.rcvd = TRUE]
  <2>3. entries[i] \in KeyLines
    BY <2>1 DEF n
  <2>4. e \in KeyLines /\ e.line = entries[i].line
    BY <2>3 DEF KeyLines
  <2>5. keyentries' = [entries EXCEPT ![i] = e]
    BY <2>1, <2>2, <1>0
  <2> HIDE DEF e
  <2>6. /\ keyentries' \in Seq(KeyLines) /\ Len(keyentries') = n
        /\ \A k \in 1 .. n : keyentries'[k] = IF k = i THEN e ELSE entries[k]
    BY <2>1, <2>4, <2>5 DEF n
  <2>7. QED
    BY <2>1, <2>2, <2>4, <2>6 DEF n
<1>4. QED
  BY <1>2, <1>3

(* A step that leaves the file and the lines of the entries alone leaves   *)
(* what the other threads have in hand.                                    *)
SameLines ==
  /\ keyentries' \in Seq(KeyLines) /\ Len(keyentries') = Len(keyentries)
  /\ \A i \in 1 .. Len(keyentries) : keyentries'[i].line = keyentries[i].line

LEMMA SameNames ==
  ASSUME FileOK, Keys, UNCHANGED file, SameLines
  PROVE  /\ DOMAIN keyentries' = DOMAIN keyentries
         /\ \A i \in DOMAIN keyentries : Name(i)' = Name(i) /\ Id(i)' = Id(i)
<1>1. DOMAIN keyentries' = 1 .. Len(keyentries) /\ DOMAIN keyentries = 1 .. Len(keyentries)
  BY DEF SameLines, Keys
<1>2. QED
  BY <1>1 DEF SameLines, Name, Id

LEMMA UnchangedLines ==
  ASSUME Keys, UNCHANGED keyentries
  PROVE  SameLines
BY DEF Keys, SameLines

(* ... and the file and the dates.                                         *)
LEMMA FileKept ==
  ASSUME FileOK, Dates, Keys, UNCHANGED <<fileVars, file_change>>, SameLines
  PROVE  FileOK' /\ Dates' /\ Keys'
<1>1. UNCHANGED <<file, stamp, fresh, dates, file_change>>
  BY DEF fileVars
<1>2. FileOK'
  BY <1>1 DEF FileOK, Lines
<1>3. Dates'
  BY <1>1 DEF Dates
<1>4. KeyLines' = KeyLines
  BY <1>1 DEF KeyLines, Lines
<1>5. Keys'
  BY <1>4 DEF Keys, SameLines
<1>6. QED
  BY <1>2, <1>3, <1>5

(* What the other threads have in hand, when only the receiving thread     *)
(* moves and frees nothing it has not freed before.                        *)
LEMMA OthersKept ==
  ASSUME IInv, UNCHANGED file, SameLines, UNCHANGED <<ar, wait, changed, keep_alive>>,
         Freed => Freed'
  PROVE  Ar' /\ Wait' /\ Saved'
<1> USE DEF IInv
<1>1. /\ DOMAIN keyentries' = DOMAIN keyentries
      /\ \A i \in DOMAIN keyentries : Name(i)' = Name(i) /\ Id(i)' = Id(i)
  BY SameNames
<1>2. Ar'
  BY <1>1 DEF Ar
<1>3. Wait'
  BY <1>1 DEF Wait
<1>4. Saved'
  BY <1>1 DEF Saved
<1>5. QED
  BY <1>2, <1>3, <1>4

(* The keys still cover the file, if they did and nothing comes in sight.  *)
LEMMA CoverKept ==
  ASSUME IInv, UNCHANGED <<file, dates, file_change, up>>, SameLines, Hidden => Hidden'
  PROVE  DateCoversKeys'
<1> USE DEF IInv
<1>1. DOMAIN keyentries' = DOMAIN keyentries /\ DOMAIN keyentries = 1 .. Len(keyentries)
  BY SameNames, KeyLine
<1>2. LiveLines' = LiveLines
  BY DEF LiveLines, Lines
<1>3. QED
  BY <1>1, <1>2 DEF DateCoversKeys, SameLines

LEMMA ReceiveStep ==
  ASSUME IInv, NEW h \in Hosts, Receive(h), UNCHANGED fileVars
  PROVE  IInv'
<1> USE DEF IInv
<1>0. /\ UNCHANGED <<file, stamp, fresh, dates, file_change, keyupdate, sendmsg, ar, wait,
                     changed, keep_alive, up>>
      /\ main = Idle
  BY DEF Receive, fileVars, locks, saved
<1>1. PICK l \in Held(h) :
        LET E == Lookup(h, l, keyentries)
        IN IF E # {} THEN Accept(h, l, keyentries, E)
           ELSE /\ main' = IF file_change = stamp THEN Idle
                           ELSE [at |-> "update", from |-> h, key |-> l]
                /\ UNCHANGED keyentries
  BY DEF Receive
<1>2. l \in Lines /\ file[l].name = h
  BY DEF Held
<1>3. /\ SameLines
      /\ \/ main' = Idle
         \/ main' = [at |-> "update", from |-> h, key |-> l]
         \/ /\ main' \in [at : {"ack"}, from : Hosts, i : 1 .. Len(keyentries)]
            /\ main'.from = h /\ file[keyentries[main'.i].line].name = h
  <2>1. CASE Accept(h, l, keyentries, Lookup(h, l, keyentries))
    BY <1>2, <2>1, Accepted DEF SameLines, Keys
  <2>2. CASE UNCHANGED keyentries /\ main' \in {Idle, [at |-> "update", from |-> h, key |-> l]}
    BY <2>2, UnchangedLines
  <2>3. QED
    BY <1>1, <2>1, <2>2
<1>4. /\ DOMAIN keyentries' = DOMAIN keyentries /\ DOMAIN keyentries = 1 .. Len(keyentries)
      /\ \A i \in DOMAIN keyentries : Name(i)' = Name(i)
  BY <1>0, <1>3, SameNames, KeyLine
<1>5. Main'
  <2>1. CASE main' = Idle
    BY <2>1 DEF Main
  <2>2. CASE main' = [at |-> "update", from |-> h, key |-> l]
    BY <1>0, <1>2, <2>2 DEF Main, Updating, Lines
  <2>3. CASE /\ main' \in [at : {"ack"}, from : Hosts, i : 1 .. Len(keyentries)]
             /\ main'.from = h /\ file[keyentries[main'.i].line].name = h
    <3>1. main'.i \in 1 .. Len(keyentries)
      BY <2>3
    <3>2. file'[keyentries'[main'.i].line].name = h
      BY <1>0, <1>3, <2>3, <3>1 DEF SameLines
    <3>3. main' \in [at : {"ack"}, from : Hosts, i : DOMAIN keyentries']
      BY <1>4, <2>3
    <3>4. QED
      BY <2>3, <3>2, <3>3 DEF Main, Name
  <2>4. QED
    BY <1>3, <2>1, <2>2, <2>3
<1>6. main'.at \in {"idle", "update", "ack"} /\ main.at = "idle"
  BY <1>0, <1>3 DEF Idle
<1>7. Locks'
  BY <1>0, <1>6 DEF Locks
<1>8. (Freed => Freed') /\ (Hidden => Hidden')
  BY <1>6 DEF Freed, Hidden
<1>9. FileOK' /\ Dates' /\ Keys'
  BY <1>0, <1>3, FileKept DEF fileVars
<1>10. Ar' /\ Wait' /\ Saved'
  BY <1>0, <1>3, <1>8, OthersKept
<1>11. DateCoversKeys'
  BY <1>0, <1>3, <1>8, CoverKept
<1>12. QED
  BY <1>5, <1>7, <1>9, <1>10, <1>11

(* The two mutexes are taken.                                              *)
LEMMA LockStep ==
  ASSUME IInv, LockKeys \/ LockSends, UNCHANGED fileVars
  PROVE  IInv'
<1> USE DEF IInv
<1>1. /\ UNCHANGED <<file, stamp, fresh, dates, file_change, keyentries, ar, wait, changed,
                     keep_alive, up>>
      /\ main' = [main EXCEPT !.at = main'.at]
      /\ \/ main.at = "update" /\ main'.at = "locked"
         \/ main.at = "locked" /\ main'.at = "hidden"
  BY DEF LockKeys, LockSends, fileVars, keyVars, saved, Main, Idle
<1>2. SameLines
  BY <1>1, UnchangedLines
<1>3. Main'
  BY <1>1 DEF Main, Idle, Updating, Lines
<1>4. Locks'
  BY KindsAssumption, <1>1 DEF Locks, LockKeys, LockSends
<1>5. FileOK' /\ Dates' /\ Keys'
  BY <1>1, <1>2, FileKept DEF fileVars
<1>6. (Freed => Freed') /\ (Hidden => Hidden')
  BY <1>1 DEF Freed, Hidden
<1>7. Ar' /\ Wait' /\ Saved'
  BY <1>1, <1>2, <1>6, OthersKept
<1>8. DateCoversKeys'
  BY <1>1, <1>2, <1>6, CoverKept
<1>9. QED
  BY <1>3, <1>4, <1>5, <1>7, <1>8

(* The date is read.                                                       *)
LEMMA DateStep ==
  ASSUME IInv, ReadDate, UNCHANGED fileVars
  PROVE  IInv'
<1> USE DEF IInv
<1>1. /\ UNCHANGED <<file, stamp, fresh, dates, keyentries, keyupdate, sendmsg, ar, wait,
                     changed, keep_alive, up>>
      /\ file_change' = stamp
      /\ main.at = "freed" /\ main' = [main EXCEPT !.at = "dated"]
  BY DEF ReadDate, fileVars, locks, saved
<1>2. Main' /\ main'.at = "dated"
  BY <1>1 DEF Main, Idle, Updating, Lines
<1>3. Locks'
  BY <1>1, <1>2 DEF Locks
<1>4. FileOK' /\ Keys'
  BY <1>1 DEF FileOK, Keys, KeyLines, Lines
<1>5. Dates'
  BY <1>1 DEF Dates
<1>6. SameLines
  BY <1>1, UnchangedLines
<1>7. Ar' /\ Wait' /\ Saved'
  BY <1>1, <1>2, <1>6, OthersKept DEF Freed
<1>8. DateCoversKeys'
  BY <1>2 DEF DateCoversKeys, Hidden
<1>9. QED
  BY <1>2, <1>3, <1>4, <1>5, <1>7, <1>8

(* The entries are freed: nobody else holds keyupdate_mutex.               *)
LEMMA FreeStep ==
  ASSUME IInv, OS_FreeKeys, UNCHANGED fileVars
  PROVE  IInv'
<1> USE DEF IInv
<1>1. /\ UNCHANGED <<file, stamp, fresh, dates, file_change, keyupdate, sendmsg, ar, wait,
                     changed, keep_alive, up>>
      /\ keyentries' = <<>>
      /\ main.at = "hidden" /\ main' = [main EXCEPT !.at = "freed"]
  BY DEF OS_FreeKeys, fileVars, locks, saved
<1>2. Main' /\ main'.at = "freed"
  BY <1>1 DEF Main, Idle, Updating, Lines
<1>3. Locks'
  BY <1>1, <1>2 DEF Locks
<1>4. FileOK' /\ Keys'
  BY <1>1, MaxLinesAssumption DEF FileOK, Keys, KeyLines, Lines
<1>5. Dates'
  BY <1>1 DEF Dates
<1>6. ar = Idle
  BY <1>1, KindsAssumption DEF Locks, Ar, Idle
<1>7. Ar'
  BY <1>1, <1>6 DEF Ar
<1>8. Wait' /\ Saved'
  BY <1>1, <1>2 DEF Wait, Saved, Freed
<1>9. DateCoversKeys'
  BY <1>2 DEF DateCoversKeys, Hidden
<1>10. QED
  BY <1>2, <1>3, <1>4, <1>5, <1>7, <1>8, <1>9

(* The lines are read, all of them; what was announced is old.             *)
LEMMA ReadStep ==
  ASSUME IInv, OS_ReadKeys, UNCHANGED fileVars
  PROVE  IInv'
<1> USE DEF IInv
<1>1. /\ UNCHANGED <<file, stamp, fresh, dates, file_change, ar, keep_alive>>
      /\ changed' = [i \in Slots |-> IF changed[i] = None THEN None ELSE Old]
      /\ wait' = IF wait = Idle THEN Idle ELSE [wait EXCEPT !.for = Old]
      /\ main.at = "dated"
  BY DEF OS_ReadKeys, fileVars
<1>2. \/ UNCHANGED <<keyentries, main, keyupdate, sendmsg>> /\ up' = FALSE
      \/ /\ Accept(main.from, main.key, Read, Lookup(main.from, main.key, Read))
         /\ keyupdate' = None /\ sendmsg' = None /\ up' = up
  BY DEF OS_ReadKeys, Read, locks
<1>3. main.from \in Hosts /\ main.key \in Lines /\ file[main.key].name = main.from
  BY <1>1 DEF Main, Idle, Updating
<1>4. KeyLines' = KeyLines
  BY <1>1 DEF KeyLines, Lines
<1>5. FileOK' /\ Dates'
  BY <1>1 DEF FileOK, Dates, Lines
<1>6. ar = Idle
  BY <1>1, KindsAssumption DEF Locks, Ar, Idle
<1>7. Ar'
  BY <1>1, <1>6 DEF Ar
<1>8. Wait'
  BY <1>1 DEF Wait
<1>9. Saved'
  <2>1. \A i \in Slots : changed'[i] \in {None, Old}
    BY <1>1
  <2>2. changed' \in [Slots -> Hosts \cup {None, Old}]
    BY <1>1
  <2>3. QED
    BY <1>1, <2>1, <2>2, NoneAssumption DEF Saved
<1>10. CASE UNCHANGED <<keyentries, main, keyupdate, sendmsg>> /\ up' = FALSE
  <2>1. Main'
    BY <1>1, <1>10 DEF Main, Idle, Updating, Lines, Name
  <2>2. Locks'
    BY <1>1, <1>10 DEF Locks
  <2>3. Keys' /\ DateCoversKeys'
    BY <1>4, <1>10 DEF Keys, DateCoversKeys
  <2>4. QED
    BY <1>5, <1>7, <1>8, <1>9, <2>1, <2>2, <2>3
<1>11. CASE /\ Accept(main.from, main.key, Read, Lookup(main.from, main.key, Read))
            /\ keyupdate' = None /\ sendmsg' = None /\ up' = up
  <2>1. /\ keyentries' \in Seq(KeyLines) /\ Len(keyentries') = Len(Read)
        /\ \A i \in 1 .. Len(Read) : keyentries'[i].line = Read[i].line
        /\ \/ main' = Idle
           \/ /\ main' \in [at : {"ack"}, from : Hosts, i : 1 .. Len(Read)]
              /\ main'.from = main.from /\ file[Read[main'.i].line].name = main.from
    BY <1>3, <1>11, ReadEntries, Accepted
  <2>2. Keys' /\ DOMAIN keyentries' = 1 .. Len(Read)
    BY <1>4, <2>1, ReadEntries DEF Keys
  <2>3. Main'
    <3>1. CASE main' = Idle
      BY <3>1 DEF Main
    <3>2. CASE main' # Idle
      <4>1. /\ main' \in [at : {"ack"}, from : Hosts, i : 1 .. Len(Read)]
            /\ main'.from = main.from /\ file[Read[main'.i].line].name = main.from
        BY <2>1, <3>2
      <4>2. main'.i \in 1 .. Len(Read)
        BY <4>1
      <4>3. file'[keyentries'[main'.i].line].name = main'.from
        BY <1>1, <2>1, <4>1, <4>2
      <4>4. main' \in [at : {"ack"}, from : Hosts, i : DOMAIN keyentries']
        BY <2>2, <4>1
      <4>5. QED
        BY <4>3, <4>4 DEF Main, Name
    <3>3. QED
      BY <3>1, <3>2
  <2>4. main'.at \in {"idle", "ack"}
    BY <2>1 DEF Idle
  <2>5. Locks'
    BY <1>1, <1>6, <1>11, <2>4, KindsAssumption DEF Locks, Idle
  <2>6. LiveLines' = LiveLines
    BY <1>1 DEF LiveLines, Lines
  <2>7. DateCoversKeys'
    BY <2>1, <2>2, <2>6, ReadEntries DEF DateCoversKeys
  <2>8. QED
    BY <1>5, <1>7, <1>8, <1>9, <2>2, <2>3, <2>5, <2>7
<1>12. QED
  BY <1>2, <1>10, <1>11

(* The acknowledgement, and the announcement: of the host the entry is of. *)
LEMMA SaveStep ==
  ASSUME IInv, save_controlmsg, UNCHANGED fileVars
  PROVE  IInv'
<1> USE DEF IInv
<1>1. /\ UNCHANGED <<file, stamp, fresh, dates, file_change, keyentries, keyupdate, sendmsg,
                     ar, wait, up>>
      /\ main.at = "ack" /\ main' = Idle
      /\ \/ UNCHANGED <<changed, keep_alive>>
         \/ /\ keep_alive' = [keep_alive EXCEPT ![main.i] =
                                IF keep_alive[main.i] = None THEN Name(main.i)
                                ELSE keep_alive[main.i]]
            /\ changed' = [changed EXCEPT ![main.i] = main.from]
  BY DEF save_controlmsg, fileVars, keyVars, locks, saved
<1>2. main.i \in DOMAIN keyentries /\ Name(main.i) = main.from /\ main.from \in Hosts
  BY <1>1 DEF Main, Idle, Updating
<1>3. main.i \in Slots /\ Name(main.i) \in Hosts
  BY <1>2, KeyLine
<1>4. SameLines
  BY <1>1, UnchangedLines
<1>5. FileOK' /\ Dates' /\ Keys'
  BY <1>1, <1>4, FileKept DEF fileVars
<1>6. Main' /\ main'.at = "idle"
  BY <1>1 DEF Main, Idle
<1>7. Locks'
  BY <1>1, <1>6 DEF Locks
<1>8. /\ DOMAIN keyentries' = DOMAIN keyentries
      /\ \A i \in DOMAIN keyentries : Name(i)' = Name(i) /\ Id(i)' = Id(i)
  BY <1>1, <1>4, SameNames
<1>9. Ar' /\ Wait'
  BY <1>1, <1>8 DEF Ar, Wait, Freed
<1>10. ~ Freed
  BY <1>1 DEF Freed
<1>11. Saved'
  <2>1. changed' \in [Slots -> Hosts \cup {None, Old}]
    BY <1>1, <1>2, <1>3 DEF Saved
  <2>2. keep_alive' \in [Slots -> Hosts \cup {None}]
    BY <1>1, <1>3 DEF Saved
  <2>3. ASSUME NEW i \in Slots, changed'[i] \in Hosts
        PROVE  i \in DOMAIN keyentries' /\ Name(i)' = changed'[i]
    <3>1. i \in DOMAIN keyentries /\ Name(i) = changed'[i]
      BY <1>1, <1>2, <1>3, <1>10, <2>3 DEF Saved
    <3>2. QED
      BY <1>8, <3>1
  <2>4. QED
    BY <2>1, <2>2, <2>3 DEF Saved
<1>12. DateCoversKeys'
  BY <1>1, <1>4, <1>6, CoverKept DEF Hidden
<1>13. QED
  BY <1>5, <1>6, <1>7, <1>9, <1>11, <1>12

-----------------------------------------------------------------------------
(* The other two threads.                                                  *)

(* What no step of theirs touches.                                         *)
LEMMA OthersStep ==
  ASSUME IInv, UNCHANGED <<fileVars, keyVars, main>>, up' = TRUE => up = TRUE, up' \in BOOLEAN
  PROVE  FileOK' /\ Dates' /\ Keys' /\ Main' /\ DateCoversKeys'
<1> USE DEF IInv
<1>1. UNCHANGED <<file, stamp, fresh, dates, keyentries, file_change, main>>
  BY DEF fileVars, keyVars
<1>2. SameLines
  BY <1>1, UnchangedLines
<1>3. FileOK' /\ Dates' /\ Keys'
  BY <1>1, <1>2, FileKept DEF fileVars
<1>4. Main'
  BY <1>1 DEF Main, Lines, Name
<1>5. DateCoversKeys'
  BY <1>1 DEF DateCoversKeys, LiveLines, Lines, Hidden
<1>6. QED
  BY <1>3, <1>4, <1>5

(* A lookup by name or by id finds an entry of that name or id.            *)
LEMMA AddresseeFound ==
  ASSUME IInv, keyupdate = None, NEW who \in Hosts \cup Ids, NEW i \in Addressee(who)
  PROVE  /\ i \in DOMAIN keyentries
         /\ who \in Hosts => Name(i) = who
         /\ who \in Ids => Id(i) = who
<1> USE DEF IInv
<1>1. ~ Hidden
  BY KindsAssumption DEF Locks, Hidden
<1>2. CASE who \in Hosts
  <2>1. who \notin Ids
    BY <1>2, KindsAssumption
  <2>2. i \in 1 .. Len(keyentries) /\ Name(i) = who
    BY <1>1, <1>2 DEF Addressee, OS_IsAllowedName, First, KeySize
  <2>3. QED
    BY <2>1, <2>2, KeyLine
<1>3. CASE who \notin Hosts
  BY <1>3 DEF Addressee, OS_IsAllowedID, First, Id
<1>4. QED
  BY <1>2, <1>3

LEMMA ArStep ==
  ASSUME IInv, AR_Forward \/ ArSend, UNCHANGED fileVars
  PROVE  IInv'
<1> USE DEF IInv
<1>1. /\ UNCHANGED <<file, stamp, fresh, dates, file_change, keyentries, sendmsg, main, wait,
                     changed, keep_alive, up>>
  BY DEF AR_Forward, ForOne, ForAll, ArSend, fileVars, keyVars, saved
<1>2. FileOK' /\ Dates' /\ Keys' /\ Main' /\ DateCoversKeys'
  BY <1>1, OthersStep DEF fileVars, keyVars, Locks
<1>3. Wait' /\ Saved'
  BY <1>1 DEF Wait, Saved, Freed, Name
<1>4. /\ DOMAIN keyentries' = DOMAIN keyentries
      /\ \A i \in DOMAIN keyentries : Name(i)' = Name(i) /\ Id(i)' = Id(i)
  BY <1>1 DEF Name, Id
<1>5. DOMAIN keyentries = 1 .. Len(keyentries) /\ Len(keyentries) \in Nat
  BY KeyLine
<1> DEFINE Holder == /\ Ar' /\ (ar'.at = "send" <=> keyupdate' = "ar")
                     /\ keyupdate' \in {None, "main", "ar"}
                     /\ keyupdate' = "main" <=> keyupdate = "main"
<1>6. Holder
  <2>1. ASSUME NEW who \in Hosts \cup Ids, ForOne(who)
        PROVE  Holder
    <3>1. CASE Addressee(who) = {}
      <4>1. UNCHANGED <<ar, keyupdate>>
        BY <2>1, <3>1 DEF ForOne
      <4>2. Ar'
        BY <1>4, <4>1 DEF Ar
      <4>3. QED
        BY <4>1, <4>2 DEF Locks
    <3>2. CASE Addressee(who) # {}
      <4>1. PICK i \in Addressee(who) : ar' = SendingTo(i, who, FALSE)
        BY <2>1, <3>2 DEF ForOne, Chosen
      <4>2. /\ i \in DOMAIN keyentries
            /\ who \in Hosts => Name(i) = who
            /\ who \in Ids => Id(i) = who
        BY <2>1, AddresseeFound DEF ForOne
      <4>3. ar' = [at |-> "send", i |-> i, for |-> who, all |-> FALSE]
        BY <4>1 DEF SendingTo
      <4>4. Ar'
        BY <1>4, <4>2, <4>3 DEF Ar
      <4>5. keyupdate = None /\ keyupdate' = "ar"
        BY <2>1, <3>2 DEF ForOne
      <4>6. QED
        BY <4>3, <4>4, <4>5, KindsAssumption
    <3>3. QED
      BY <3>1, <3>2
  <2>2. CASE ForAll
    <3>1. keyupdate = None /\ keyupdate' = "ar" /\ KeySize > 0
          /\ ar' = [at |-> "send", i |-> 1, for |-> None, all |-> TRUE]
      BY <2>2 DEF ForAll, SendingTo
    <3>2. 1 \in DOMAIN keyentries
      BY <1>5, <3>1 DEF KeySize
    <3>3. Ar'
      BY <1>4, <3>1, <3>2, KindsAssumption, NoneAssumption DEF Ar
    <3>4. QED
      BY <3>1, <3>3, KindsAssumption
  <2>3. CASE ArSend
    <3>1. ar.at = "send" /\ keyupdate = "ar"
      BY <2>3 DEF ArSend, Locks
    <3>2. /\ ar \in [at : {"send"}, i : DOMAIN keyentries, for : Hosts \cup Ids \cup {None},
                     all : BOOLEAN]
          /\ ar.all => ar.for = None
      BY <3>1 DEF Ar, Idle
    <3>3. CASE ar.all /\ ar.i < KeySize
      <4>1. ar' = [ar EXCEPT !.i = ar.i + 1] /\ keyupdate' = keyupdate
        BY <2>3, <3>3 DEF ArSend
      <4>2. ar.i + 1 \in DOMAIN keyentries
        BY <1>5, <3>2, <3>3 DEF KeySize
      <4>3. ar.for = None /\ ar'.for = None /\ ar'.at = "send"
        BY <3>2, <3>3, <4>1
      <4>4. ar' \in [at : {"send"}, i : DOMAIN keyentries, for : Hosts \cup Ids \cup {None},
                     all : BOOLEAN]
        BY <3>2, <4>1, <4>2
      <4>5. None \notin Hosts /\ None \notin Ids
        BY NoneAssumption, KindsAssumption
      <4>6. Ar'
        BY <1>4, <4>3, <4>4, <4>5 DEF Ar
      <4>7. QED
        BY <3>1, <4>1, <4>3, <4>6
    <3>4. CASE ~ (ar.all /\ ar.i < KeySize)
      <4>1. ar' = Idle /\ keyupdate' = None
        BY <2>3, <3>1, <3>4 DEF ArSend
      <4>2. Ar'
        BY <4>1 DEF Ar
      <4>3. QED
        BY <3>1, <4>1, <4>2, KindsAssumption DEF Idle
    <3>5. QED
      BY <3>3, <3>4
  <2>4. QED
    BY <2>1, <2>2, <2>3 DEF AR_Forward
<1>7. Locks'
  BY <1>1, <1>6 DEF Locks
<1>8. QED
  BY <1>2, <1>3, <1>6, <1>7

LEMMA WaitingStep ==
  ASSUME IInv, wait_for_msgs, up, UNCHANGED fileVars
  PROVE  IInv'
<1> USE DEF IInv
<1>1. /\ UNCHANGED <<file, stamp, fresh, dates, file_change, keyentries, keyupdate, main, ar,
                     keep_alive>>
      /\ up' \in BOOLEAN
  BY DEF wait_for_msgs, Take, WaitStep, WaitCheck, WaitSend, SendEmpty, OutOfRange, fileVars,
         keyVars, locks, saved, Locks
<1>2. FileOK' /\ Dates' /\ Keys' /\ Main' /\ DateCoversKeys'
  BY <1>1, OthersStep DEF fileVars, keyVars
<1>3. Ar'
  BY <1>1 DEF Ar, Name, Id
<1>4. \A i : Name(i)' = Name(i)
  BY <1>1 DEF Name
<1>5. Freed' = Freed
  BY <1>1 DEF Freed
<1>6. Wait' /\ Saved'
  <2>1. ASSUME NEW i \in Slots, Take(i)
        PROVE  Wait' /\ Saved'
    <3>1. /\ changed[i] \in Hosts \cup {Old}
          /\ wait' = [at |-> "check", i |-> i, for |-> changed[i]]
          /\ changed' = [changed EXCEPT ![i] = None]
      BY <2>1 DEF Take, Saved
    <3>2. Wait'
      BY <1>1, <1>4, <1>5, <3>1, NoneAssumption DEF Wait, Saved
    <3>3. \A k \in Slots : changed'[k] \in Hosts => changed'[k] = changed[k]
      BY <3>1, NoneAssumption DEF Saved
    <3>4. changed' \in [Slots -> Hosts \cup {None, Old}]
      BY <3>1 DEF Saved
    <3>5. Saved'
      BY <1>1, <1>4, <1>5, <3>3, <3>4 DEF Saved
    <3>6. QED
      BY <3>2, <3>5
  <2>2. CASE WaitStep
    <3>1. /\ UNCHANGED changed
          /\ \/ wait' = Idle
             \/ wait # Idle /\ wait' = [wait EXCEPT !.at = "send"]
             \/ wait # Idle /\ wait' = [wait EXCEPT !.at = "check"]
             \/ wait' = wait
      <4>1. CASE WaitCheck
        BY <4>1 DEF WaitCheck, saved, Idle
      <4>2. CASE WaitSend
        BY <4>2 DEF WaitSend, saved, Idle
      <4>3. CASE SendEmpty \/ OutOfRange
        BY <4>3 DEF SendEmpty, OutOfRange, saved
      <4>4. QED
        BY <2>2, <4>1, <4>2, <4>3 DEF WaitStep
    <3>2. Wait'
      BY <1>1, <1>4, <1>5, <3>1 DEF Wait
    <3>3. Saved'
      BY <1>1, <1>4, <1>5, <3>1 DEF Saved
    <3>4. QED
      BY <3>2, <3>3
  <2>3. QED
    BY <2>1, <2>2 DEF wait_for_msgs
<1>7. \/ UNCHANGED sendmsg
      \/ sendmsg = None /\ sendmsg' = "wait"
  BY DEF wait_for_msgs, Take, WaitStep, WaitCheck, WaitSend, SendEmpty, OutOfRange, locks
<1>8. Locks'
  BY <1>1, <1>7, KindsAssumption DEF Locks
<1>9. QED
  BY <1>2, <1>3, <1>6, <1>8

-----------------------------------------------------------------------------
LEMMA StutterStep ==
  ASSUME IInv, UNCHANGED vars
  PROVE  IInv'
<1> USE DEF IInv
<1>1. UNCHANGED <<fileVars, keyVars, main>> /\ UNCHANGED <<up, ar, wait, changed, keep_alive,
                                                          keyupdate, sendmsg>>
  BY DEF vars, remVars, keyVars
<1>2. UNCHANGED <<file, keyentries>>
  BY <1>1 DEF fileVars, keyVars
<1>3. FileOK' /\ Dates' /\ Keys' /\ Main' /\ DateCoversKeys'
  BY <1>1, OthersStep DEF Locks
<1>4. Ar' /\ Wait' /\ Saved' /\ Locks'
  BY <1>1, <1>2 DEF Ar, Wait, Saved, Locks, Name, Id, Freed
<1>5. QED
  BY <1>3, <1>4

LEMMA Invariance == Spec => []IInv
<1>1. Init => IInv
  BY InitInv
<1>2. IInv /\ [Next]_vars => IInv'
  <2>1. SUFFICES ASSUME IInv, [Next]_vars PROVE IInv'
    OBVIOUS
  <2>2. CASE EditFile /\ UNCHANGED remVars
    BY <2>1, <2>2, EditStep
  <2>3. CASE Remoted
    BY <2>1, <2>3, ReceiveStep, LockStep, DateStep, FreeStep, ReadStep, SaveStep, ArStep,
       WaitingStep DEF Remoted, MainStep, check_keyupdate
  <2>4. CASE UNCHANGED vars
    BY <2>1, <2>4, StutterStep
  <2>5. QED
    BY <2>1, <2>2, <2>3, <2>4 DEF Next
<1>3. QED
  BY <1>1, <1>2, PTL DEF Spec

(* For any hosts and any reloads: a response or an acknowledgement goes to *)
(* the agent it is for, what the waiting thread sends to another agent was *)
(* announced before the last reload, only that thread uses freed entries,  *)
(* and a reload misses only lines written in the second of its date        *)
(* (HandleSecure, AR_Forward, wait_for_msgs and OS_UpdateKeys).            *)
THEOREM KeysCorrect == Spec => []KeysInv
<1>1. IInv => KeysInv
  BY Implies
<1>2. QED
  BY <1>1, Invariance, PTL

-----------------------------------------------------------------------------
(* The tables by index.                                                    *)

RemovedUpTo(i) == \E l \in Lines : file[l].removed /\ l <= i

(* An entry's line is that of its index, unless a line up to there is      *)
(* removed.                                                                *)
Rows ==
  \A i \in DOMAIN keyentries :
    /\ keyentries[i].line >= i
    /\ keyentries[i].line > i => RemovedUpTo(i)

(* A file kept for an index has the name of the line of that index, or the *)
(* entries are, or will be when read again, further down.                  *)
Kept ==
  \A i \in Slots :
    keep_alive[i] # None =>
      /\ i \in Lines
      /\ \/ keep_alive[i] = file[i].name
         \/ /\ RemovedUpTo(i)
            /\ i \in DOMAIN keyentries => keyentries[i].line > i

(* The entries read: entry i is on line i just when all lines up to there  *)
(* are live.                                                               *)
LEMMA ReadRows ==
  ASSUME FileOK, NEW i \in DOMAIN Read
  PROVE  /\ Read[i].line \in Lines /\ Read[i].line >= i
         /\ Read[i].line > i <=> RemovedUpTo(i)
<1> DEFINE S == LiveLines
           l == Read[i].line
<1>1. S \subseteq Nat /\ IsFiniteSet(S) /\ S \subseteq Lines
  BY LinesFinite DEF LiveLines
<1>2. l = Ordered(S)[i] /\ i \in 1 .. Cardinality(S)
  <2>1. DOMAIN Ordered(S) = 1 .. Cardinality(S)
    BY DEF Ordered
  <2>2. Read = [k \in 1 .. Cardinality(S) |-> Entry(Ordered(S)[k])]
    BY <2>1 DEF Read, LinesToRead
  <2>3. QED
    BY <2>2 DEF Entry
<1>3. l \in S /\ Rank(S, l) = i
  <2>1. Ordered(S)[i] = CHOOSE k \in S : Rank(S, k) = i
    BY <1>2 DEF Ordered, Rank, Below
  <2>2. QED
    BY <1>1, <1>2, <2>1, RankOnto
<1>4. i \in Nat \ {0} /\ l \in Nat \ {0} /\ l \in Lines
  <2>1. Cardinality(S) \in Nat
    BY <1>1, FS_CardinalityType
  <2>2. l \in Lines
    BY <1>1, <1>3
  <2>3. QED
    BY <1>2, <2>1, <2>2, LinesNat
<1> HIDE DEF l
<1>5. /\ Below(S, l) \in SUBSET (1 .. l)
      /\ IsFiniteSet(1 .. l) /\ Cardinality(1 .. l) = l
  <2>1. \A k \in S : k \in Nat \ {0}
    BY <1>1, LinesNat
  <2>2. QED
    BY <1>4, <2>1, FS_Interval DEF Below
<1>6. i <= l /\ (i = l => Below(S, l) = 1 .. l)
  <2> DEFINE b == Below(S, l)
             t == 1 .. l
  <2>1. b \in SUBSET t /\ IsFiniteSet(t) /\ Cardinality(t) = l /\ Cardinality(b) = i
    BY <1>3, <1>5 DEF Rank
  <2> HIDE DEF b, t
  <2>2. i <= l /\ (i = l => t = b)
    BY <2>1, FS_Subset
  <2>3. QED
    BY <2>2 DEF b, t
<1>7. ASSUME i = l PROVE ~ RemovedUpTo(i)
  <2>1. \A k \in 1 .. i : k \in S
    BY <1>6, <1>7 DEF Below
  <2>2. QED
    BY <1>4, <2>1, LinesNat DEF RemovedUpTo, LiveLines
<1>8. ASSUME i < l PROVE RemovedUpTo(i)
  <2>1. SUFFICES ASSUME \A k \in 1 .. i : k \in S PROVE FALSE
    <3>1. \A k \in 1 .. i : k \in Lines
      BY <1>4, <1>8, LinesNat
    <3>2. QED
      BY <1>4, <3>1 DEF RemovedUpTo, LiveLines
  <2>2. Below(S, i) = 1 .. i
    <3>1. \A k \in S : k \in Nat \ {0}
      BY <1>1, LinesNat
    <3>2. QED
      BY <1>4, <2>1, <3>1 DEF Below
  <2>3. Rank(S, i) = i
    BY <1>4, <2>2, FS_Interval DEF Rank
  <2>4. i \in S
    BY <1>4, <2>1
  <2>5. i = l
    BY <1>1, <1>3, <2>3, <2>4, RankInjective
  <2>6. QED
    BY <1>4, <1>8, <2>5
<1>9. QED
  BY <1>4, <1>6, <1>7, <1>8 DEF l

LEMMA TablesInit == ASSUME Init PROVE Rows /\ Kept
<1>1. FileOK /\ keyentries = Read
  BY InitInv DEF IInv, Init, Read
<1>2. Rows
  BY <1>1, ReadRows DEF Rows
<1>3. Kept
  BY DEF Init, Kept
<1>4. QED
  BY <1>2, <1>3

(* Steps that leave the lines of the entries and the tables alone.         *)
LEMMA TablesKept ==
  ASSUME IInv, Rows, Kept, UNCHANGED <<file, keep_alive>>, SameLines
  PROVE  Rows' /\ Kept'
<1>1. DOMAIN keyentries' = DOMAIN keyentries /\ DOMAIN keyentries = 1 .. Len(keyentries)
  BY SameNames, KeyLine DEF IInv
<1>2. Lines' = Lines /\ \A i : RemovedUpTo(i)' <=> RemovedUpTo(i)
  BY DEF Lines, RemovedUpTo
<1>3. Rows'
  BY <1>1, <1>2 DEF Rows, SameLines
<1>4. Kept'
  BY <1>1, <1>2 DEF Kept, SameLines
<1>5. QED
  BY <1>3, <1>4

(* Steps of the administrator.                                             *)
LEMMA TablesGrow ==
  ASSUME IInv, Rows, Kept, EditFile, UNCHANGED remVars
  PROVE  Rows' /\ Kept'
<1> USE DEF IInv
<1>1. Grows /\ FileOK'
  <2>1. CASE Second
    BY <2>1 DEF Second, Grows, Lines, FileOK
  <2>2. QED
    BY <2>1, AppendGrows, OverwriteGrows DEF EditFile, add_agent, remove_agent
<1>2. UNCHANGED <<keyentries, keep_alive>>
  BY DEF remVars
<1>3. \A l \in Lines : l \in Lines' /\ file'[l].name = file[l].name
                       /\ (file[l].removed => file'[l].removed)
  <2>1. \A l \in Lines : file[l].removed \in BOOLEAN
    BY LinesNat
  <2>2. \A l \in Lines' : file'[l].removed \in BOOLEAN
    BY <1>1, LinesNatNext
  <2>3. QED
    BY <1>1, <2>1, <2>2 DEF Grows
<1>4. \A i : RemovedUpTo(i) => RemovedUpTo(i)'
  BY <1>3 DEF RemovedUpTo
<1>5. QED
  BY <1>2, <1>3, <1>4 DEF Rows, Kept

LEMMA TablesRead ==
  ASSUME IInv, Rows, Kept, OS_ReadKeys, UNCHANGED fileVars
  PROVE  Rows' /\ Kept'
<1> USE DEF IInv
<1>1. UNCHANGED <<file, keep_alive>> /\ main.at = "dated"
  BY DEF OS_ReadKeys, fileVars
<1>2. Lines' = Lines /\ \A i : RemovedUpTo(i)' <=> RemovedUpTo(i)
  BY <1>1 DEF Lines, RemovedUpTo
<1>3. CASE UNCHANGED keyentries
  BY <1>1, <1>3, UnchangedLines, TablesKept
<1>4. CASE Accept(main.from, main.key, Read, Lookup(main.from, main.key, Read))
  <2>1. main.from \in Hosts /\ main.key \in Lines /\ file[main.key].name = main.from
    BY <1>1 DEF Main, Idle, Updating
  <2>2. /\ DOMAIN keyentries' = DOMAIN Read
        /\ \A i \in DOMAIN Read : keyentries'[i].line = Read[i].line
    <3>1. /\ keyentries' \in Seq(KeyLines) /\ Len(keyentries') = Len(Read)
          /\ \A i \in 1 .. Len(Read) : keyentries'[i].line = Read[i].line
      BY <1>4, <2>1, ReadEntries, Accepted
    <3>2. QED
      BY <3>1, ReadEntries
  <2>3. Rows'
    BY <1>2, <2>2, ReadRows DEF Rows
  <2>4. Kept'
    BY <1>1, <1>2, <2>2, ReadRows DEF Kept
  <2>5. QED
    BY <2>3, <2>4
<1>5. QED
  BY <1>3, <1>4 DEF OS_ReadKeys, Read

LEMMA TablesSave ==
  ASSUME IInv, Rows, Kept, save_controlmsg, UNCHANGED fileVars
  PROVE  Rows' /\ Kept'
<1> USE DEF IInv
<1>1. /\ UNCHANGED <<file, keyentries>> /\ main.at = "ack"
      /\ \/ UNCHANGED keep_alive
         \/ keep_alive' = [keep_alive EXCEPT ![main.i] =
                             IF keep_alive[main.i] = None THEN Name(main.i)
                             ELSE keep_alive[main.i]]
  BY DEF save_controlmsg, fileVars, keyVars, saved
<1>2. main.i \in DOMAIN keyentries
  BY <1>1 DEF Main, Idle, Updating
<1>3. Lines' = Lines /\ \A i : RemovedUpTo(i)' <=> RemovedUpTo(i)
  BY <1>1 DEF Lines, RemovedUpTo
<1>4. Rows'
  BY <1>1, <1>3 DEF Rows
<1>5. CASE UNCHANGED keep_alive
  BY <1>1, <1>5, UnchangedLines, TablesKept
<1>6. ASSUME NEW i \in Slots, keep_alive'[i] # None, keep_alive'[i] # keep_alive[i]
      PROVE  /\ i \in Lines
             /\ \/ keep_alive'[i] = file[i].name
                \/ /\ RemovedUpTo(i)
                   /\ i \in DOMAIN keyentries => keyentries[i].line > i
  <2>1. i = main.i /\ keep_alive'[i] = Name(i)
    BY <1>1, <1>6 DEF Saved
  <2>2. keyentries[i].line \in Lines /\ keyentries[i].line >= i /\ i \in Nat \ {0}
    BY <1>2, <2>1, KeyLine, MaxLinesAssumption DEF Rows, Slots
  <2>3. i \in Lines
    BY <2>2, LinesNat
  <2>4. CASE keyentries[i].line = i
    BY <2>1, <2>3, <2>4 DEF Name
  <2>5. CASE keyentries[i].line # i
    <3>1. keyentries[i].line > i
      BY <2>2, <2>5, LinesNat
    <3>2. QED
      BY <1>2, <2>1, <2>3, <3>1 DEF Rows
  <2>6. QED
    BY <2>4, <2>5, <2>3
<1>7. Kept'
  BY <1>1, <1>3, <1>6 DEF Kept
<1>8. QED
  BY <1>4, <1>7

LEMMA TablesStep ==
  ASSUME IInv, Rows, Kept, [Next]_vars
  PROVE  Rows' /\ Kept'
<1> USE DEF IInv
<1>1. CASE EditFile /\ UNCHANGED remVars
  BY <1>1, TablesGrow
<1>2. ASSUME NEW h \in Hosts, Receive(h), UNCHANGED fileVars
      PROVE  Rows' /\ Kept'
  <2>1. UNCHANGED <<file, keep_alive>>
    BY <1>2 DEF Receive, fileVars, saved
  <2>2. PICK l \in Held(h) : \/ Accept(h, l, keyentries, Lookup(h, l, keyentries))
                             \/ UNCHANGED keyentries
    BY <1>2 DEF Receive
  <2>3. l \in Lines /\ file[l].name = h
    BY DEF Held
  <2>4. SameLines
    BY <2>2, <2>3, Accepted, UnchangedLines DEF SameLines, Keys
  <2>5. QED
    BY <2>1, <2>4, TablesKept
<1>3. CASE OS_FreeKeys /\ UNCHANGED fileVars
  <2>1. UNCHANGED <<file, keep_alive>> /\ keyentries' = <<>>
    BY <1>3 DEF OS_FreeKeys, fileVars, saved
  <2>2. Lines' = Lines /\ (\A i : RemovedUpTo(i)' <=> RemovedUpTo(i)) /\ DOMAIN keyentries' = {}
    BY <2>1 DEF Lines, RemovedUpTo
  <2>3. QED
    BY <2>1, <2>2 DEF Rows, Kept
<1>4. CASE OS_ReadKeys /\ UNCHANGED fileVars
  BY <1>4, TablesRead
<1>5. CASE save_controlmsg /\ UNCHANGED fileVars
  BY <1>5, TablesSave
<1>6. CASE (LockKeys \/ LockSends \/ ReadDate \/ AR_Forward \/ ArSend \/ wait_for_msgs)
           /\ UNCHANGED fileVars
  <2>1. UNCHANGED <<keyentries, keep_alive>>
    BY <1>6 DEF LockKeys, LockSends, ReadDate, AR_Forward, ForOne, ForAll, ArSend,
                wait_for_msgs, Take, WaitStep, WaitCheck, WaitSend, SendEmpty, OutOfRange,
                keyVars, saved
  <2>2. UNCHANGED <<file, keep_alive>> /\ SameLines
    BY <1>6, <2>1, UnchangedLines DEF fileVars
  <2>3. QED
    BY <2>2, TablesKept
<1>7. CASE UNCHANGED vars
  <2>1. UNCHANGED <<file, keep_alive>> /\ SameLines
    BY <1>7, UnchangedLines DEF vars, fileVars, remVars
  <2>2. QED
    BY <2>1, TablesKept
<1>8. QED
  BY <1>1, <1>2, <1>3, <1>4, <1>5, <1>6, <1>7 DEF Next, Remoted, MainStep, check_keyupdate

(* The tables manager.c keeps by index give an index to another agent only *)
(* when an earlier agent was removed: adding agents never does.            *)
THEOREM FilesStayWithoutRemoval == Spec => []FileMovedOnlyByRemoval
<1>1. IInv /\ Rows /\ Kept => FileMovedOnlyByRemoval
  <2>1. SUFFICES ASSUME IInv, Rows, Kept, main.at = "ack",
                        keep_alive[main.i] \notin {None, main.from}
                 PROVE  \E l \in Lines : file[l].removed /\ l < keyentries[main.i].line
    BY DEF FileMovedOnlyByRemoval
  <2>2. main.i \in DOMAIN keyentries /\ Name(main.i) = main.from
    BY <2>1 DEF IInv, Main, Idle, Updating
  <2>3. main.i \in Slots /\ keyentries[main.i].line \in Lines /\ main.i \in Nat
    BY <2>1, <2>2, KeyLine, MaxLinesAssumption DEF IInv, Slots
  <2>4. RemovedUpTo(main.i) /\ keyentries[main.i].line > main.i
    <3>1. CASE keyentries[main.i].line = main.i
      BY <2>1, <2>2, <2>3, <3>1, LinesNat DEF Kept, Name, IInv
    <3>2. CASE keyentries[main.i].line # main.i
      <4>1. keyentries[main.i].line > main.i
        BY <2>1, <2>2, <2>3, <3>2, LinesNat DEF Rows, IInv
      <4>2. QED
        BY <2>1, <2>2, <4>1 DEF Rows
    <3>3. QED
      BY <3>1, <3>2
  <2>5. QED
    BY <2>1, <2>3, <2>4, LinesNat DEF RemovedUpTo, IInv
<1>2. Init => Rows /\ Kept
  BY TablesInit
<1>3. IInv /\ Rows /\ Kept /\ [Next]_vars => Rows' /\ Kept'
  BY TablesStep
<1>4. QED
  BY <1>1, <1>2, <1>3, Invariance, PTL DEF Spec
=============================================================================
