-------------------------- MODULE SyscheckdProofs ---------------------------
(***************************************************************************)
(* Proofs about Syscheckd, for any files and checksums: whatever reports   *)
(* are lost and wherever analysisd is killed, the database is the account  *)
(* of the alerts, and a checksum is replaced without an alert only for a   *)
(* file whose line a crash has lost.                                       *)
(***************************************************************************)
EXTENDS Syscheckd, SequenceTheorems, FiniteSetTheorems, TLAPS

Line == [marks : Marks, sum : Sums \cup {Deleted}, name : Files]

(* A file whose line is not in the database, and the marks it should have. *)
Written(f) == adding # <<>> /\ adding[1].name = f
Missing(f) == saved[f] = None \/ f \in cut \/ Written(f)
Mark(n)    == IF n < 4 THEN n ELSE 4

HasLine(f) == \E i \in 1 .. Len(db) : db[i].name = f

(* The database: a file has one line, unless a crash or DB_Search is       *)
(* between the writes, and the line says what its alerts said.             *)
Lines ==
  /\ db \in Seq(Line)
  /\ \A j, k \in 1 .. Len(db) : db[j].name = db[k].name => j = k
  /\ \A f \in Files : HasLine(f) <=> ~ Missing(f)
  /\ \A i \in 1 .. Len(db) :
       db[i].sum = saved[db[i].name] /\ db[i].marks = Mark(alerts[db[i].name])
  /\ AutoIgnore => \A f \in Files : alerts[f] <= 3

(* Between the two writes: the line to come counts the alert to come.      *)
Between ==
  \/ adding = <<>>
  \/ \E e \in Line :
       /\ adding = <<e>> /\ e.name \notin cut
       /\ e.marks = Mark(alerts[e.name] + 1)
       /\ AutoIgnore => alerts[e.name] <= 2

History ==
  /\ saved \in [Files -> Sums \cup {Deleted, None}]
  /\ alerts \in [Files -> Nat]
  /\ cut \subseteq Files
  /\ wire \in Seq(Reports) /\ Len(wire) <= WireLen

DatabaseIInv == History /\ Lines /\ Between

LEMMA SumIsNotNone == None \notin Sums \cup {Deleted}
BY SyscheckDBAssumption DEF None, Deleted

-----------------------------------------------------------------------------
(* The steps of analysisd.                                                 *)

(* A line put behind the others.                                           *)
LEMMA LineAppended ==
  ASSUME NEW d \in Seq(Line), NEW e \in Line
  PROVE  /\ Append(d, e) \in Seq(Line) /\ Len(d) \in Nat
         /\ Len(Append(d, e)) = Len(d) + 1
         /\ Append(d, e)[Len(d) + 1] = e
         /\ \A i \in 1 .. Len(d) : Append(d, e)[i] = d[i]
BY AppendProperties, LenProperties

(* A line commented.                                                       *)
LEMMA LineRemoved ==
  ASSUME NEW d \in Seq(Line), NEW n \in 1 .. Len(d)
  PROVE  /\ RemoveAt(d, n) \in Seq(Line)
         /\ Len(RemoveAt(d, n)) = Len(d) - 1
         /\ \A i \in 1 .. Len(d) - 1 : RemoveAt(d, n)[i] = IF i < n THEN d[i] ELSE d[i + 1]
<1> DEFINE a == SubSeq(d, 1, n - 1)
           b == SubSeq(d, n + 1, Len(d))
<1>1. a \in Seq(Line) /\ Len(a) = n - 1 /\ \A i \in 1 .. n - 1 : a[i] = d[i]
  OBVIOUS
<1>2. b \in Seq(Line) /\ Len(b) = Len(d) - n /\ \A i \in 1 .. Len(d) - n : b[i] = d[n + i]
  OBVIOUS
<1> HIDE DEF a, b
<1>3. RemoveAt(d, n) = a \o b
  BY DEF a, b, RemoveAt
<1>4. /\ a \o b \in Seq(Line)
      /\ Len(a \o b) = Len(a) + Len(b)
      /\ \A i \in 1 .. Len(a) + Len(b) :
           (a \o b)[i] = IF i <= Len(a) THEN a[i] ELSE b[i - Len(a)]
  BY <1>1, <1>2, ConcatProperties
<1>5. Len(a) + Len(b) = Len(d) - 1
  BY <1>1, <1>2
<1>6. ASSUME NEW i \in 1 .. Len(d) - 1
      PROVE  (a \o b)[i] = IF i < n THEN d[i] ELSE d[i + 1]
  <2>1. CASE i < n
    BY <2>1, <1>1, <1>4, <1>5
  <2>2. CASE i >= n
    <3>1. (a \o b)[i] = b[i - (n - 1)]
      BY <2>2, <1>1, <1>4, <1>5
    <3>2. i - (n - 1) \in 1 .. Len(d) - n
      BY <2>2
    <3>3. b[i - (n - 1)] = d[n + (i - (n - 1))]
      BY <3>2, <1>2
    <3>4. n + (i - (n - 1)) = i + 1
      OBVIOUS
    <3>5. QED
      BY <3>1, <3>3, <3>4, <2>2
  <2>3. i < n \/ i >= n
    OBVIOUS
  <2>4. QED
    BY <2>1, <2>2, <2>3, Zenon
<1>7. QED
  BY <1>3, <1>4, <1>5, <1>6

(* A file without a line gets one, and what is told of it is what it says. *)
LEMMA LineAdded ==
  ASSUME History, Lines, NEW e \in Line, ~ HasLine(e.name), db' = Append(db, e),
         History',
         saved' = [saved EXCEPT ![e.name] = e.sum],
         alerts' \in [Files -> Nat],
         \A f \in Files : f # e.name => alerts'[f] = alerts[f],
         e.marks = Mark(alerts'[e.name]),
         AutoIgnore => alerts'[e.name] <= 3,
         adding' = <<>>, ~ Missing(e.name)',
         \A f \in Files : f # e.name => (Missing(f)' <=> Missing(f))
  PROVE  Lines'
<1> DEFINE n == Len(db)
<1>1. /\ db' \in Seq(Line) /\ n \in Nat /\ Len(db') = n + 1
      /\ db'[n + 1] = e
      /\ \A i \in 1 .. n : db'[i] = db[i]
  BY LineAppended DEF Lines
<1>2. n + 1 \in 1 .. n + 1 /\ \A i \in 1 .. n + 1 : i \in 1 .. n \/ i = n + 1
  BY <1>1
<1>3. \A i \in 1 .. n : i \in 1 .. n + 1 /\ i # n + 1
  BY <1>1
<1>4. \A i \in 1 .. n : db[i] \in Line /\ db[i].name \in Files /\ db[i].name # e.name
  <2>1. \A i \in 1 .. n : db[i] \in Line
    BY ElementOfSeq DEF Lines
  <2>2. QED
    BY <2>1 DEF Line, HasLine
<1>5. e.name \in Files
  BY DEF Line
<1>6. \A j, k \in 1 .. n + 1 : db'[j].name = db'[k].name => j = k
  BY <1>1, <1>2, <1>4 DEF Lines
<1>7. \A f \in Files : HasLine(f)' <=> ~ Missing(f)'
  <2>1. ASSUME NEW f \in Files PROVE HasLine(f)' <=> HasLine(f) \/ f = e.name
    BY <1>1, <1>2, <1>3 DEF HasLine
  <2>2. QED
    BY <2>1 DEF Lines
<1>8. \A i \in 1 .. n + 1 :
        db'[i].sum = saved'[db'[i].name] /\ db'[i].marks = Mark(alerts'[db'[i].name])
  <2>1. ASSUME NEW i \in 1 .. n
        PROVE  db'[i].sum = saved'[db'[i].name] /\ db'[i].marks = Mark(alerts'[db'[i].name])
    BY <1>1, <1>4 DEF Lines, History
  <2>2. db'[n + 1].sum = saved'[e.name] /\ db'[n + 1].marks = Mark(alerts'[e.name])
    BY <1>1, <1>5 DEF History
  <2>3. QED
    BY <1>1, <1>2, <2>1, <2>2
<1>9. AutoIgnore => \A f \in Files : alerts'[f] <= 3
  BY DEF Lines
<1>10. QED
  BY <1>1, <1>6, <1>7, <1>8, <1>9 DEF Lines

(* DB_Search takes the oldest report from the wire.                        *)
LEMMA WireShortens ==
  ASSUME History, wire # <<>>, wire' = Tail(wire)
  PROVE  /\ wire' \in Seq(Reports) /\ Len(wire') <= WireLen
         /\ Head(wire) \in Reports
BY SyscheckDBAssumption DEF History

LEMMA NewFileStep ==
  ASSUME DatabaseIInv, adding = <<>>, NEW r \in Reports, Entries(r.name) = {}, SaveNew(r),
         wire' \in Seq(Reports), Len(wire') <= WireLen
  PROVE  DatabaseIInv'
<1> DEFINE e == [marks |-> 0, sum |-> r.sum, name |-> r.name]
<1>1. r.name \in Files /\ r.sum \in Sums \cup {Deleted}
  BY DEF Reports
<1>2. e \in Line /\ e.name = r.name /\ e.sum = r.sum /\ e.marks = 0
  BY <1>1 DEF Line, Marks
<1>3. /\ db' = Append(db, e) /\ adding' = <<>>
      /\ saved' = [saved EXCEPT ![e.name] = e.sum]
      /\ alerts' = [alerts EXCEPT ![e.name] = 0] /\ cut' = cut \ {e.name}
  BY <1>2 DEF SaveNew
<1> HIDE DEF e
<1>4. ~ HasLine(e.name)
  BY <1>2 DEF HasLine, Entries
<1>5. History'
  BY <1>1, <1>2, <1>3 DEF DatabaseIInv, History
<1>6. /\ alerts' \in [Files -> Nat] /\ alerts'[e.name] = 0 /\ saved'[e.name] = e.sum
      /\ \A f \in Files : f # e.name => alerts'[f] = alerts[f] /\ saved'[f] = saved[f]
  BY <1>1, <1>2, <1>3 DEF DatabaseIInv, History
<1>7. e.marks = Mark(alerts'[e.name])
  BY <1>2, <1>6 DEF Mark
<1>8. ~ Missing(e.name)'
  BY <1>1, <1>2, <1>3, <1>6, SumIsNotNone DEF Missing, Written
<1>9. \A f \in Files : f # e.name => (Missing(f)' <=> Missing(f))
  BY <1>3, <1>6 DEF Missing, Written
<1>10. AutoIgnore => alerts'[e.name] <= 3
  BY <1>6
<1>11. Lines'
  BY <1>2, <1>3, <1>4, <1>5, <1>6, <1>7, <1>8, <1>9, <1>10, LineAdded DEF DatabaseIInv
<1>12. QED
  BY <1>3, <1>5, <1>11 DEF DatabaseIInv, Between

(* The line of a file whose checksum has changed is commented.             *)
LEMMA CommentStep ==
  ASSUME DatabaseIInv, adding = <<>>, NEW r \in Reports, NEW i \in 1 .. Len(db),
         db[i].name = r.name, ~ Ignored(db[i]), Changed(i, r),
         wire' \in Seq(Reports), Len(wire') <= WireLen
  PROVE  DatabaseIInv'
<1> DEFINE e == [marks |-> NextMarks(db[i].marks), sum |-> r.sum, name |-> r.name]
           n == Len(db)
<1>1. r.name \in Files /\ r.sum \in Sums \cup {Deleted}
  BY DEF Reports
<1>2. db[i] \in Line /\ db[i].marks \in Marks
  <2>1. db[i] \in Line
    BY ElementOfSeq DEF DatabaseIInv, Lines
  <2>2. QED
    BY <2>1 DEF Line
<1>3. e \in Line /\ e.name = r.name /\ e.sum = r.sum /\ e.marks = NextMarks(db[i].marks)
  BY <1>1, <1>2 DEF Line, Marks, NextMarks
<1>4. /\ db' = RemoveAt(db, i) /\ adding' = <<e>>
      /\ UNCHANGED <<saved, alerts, cut>>
  BY DEF Changed, Comment
<1> HIDE DEF e
<1>5. /\ db' \in Seq(Line) /\ n \in Nat /\ Len(db') = n - 1
      /\ \A j \in 1 .. n - 1 : db'[j] = IF j < i THEN db[j] ELSE db[j + 1]
  <2>1. db \in Seq(Line) /\ n \in Nat
    BY LenProperties DEF DatabaseIInv, Lines
  <2>2. /\ RemoveAt(db, i) \in Seq(Line) /\ Len(RemoveAt(db, i)) = n - 1
        /\ \A j \in 1 .. n - 1 : RemoveAt(db, i)[j] = IF j < i THEN db[j] ELSE db[j + 1]
    BY <2>1, LineRemoved
  <2>3. QED
    BY <1>4, <2>1, <2>2
<1>6. History'
  BY <1>4 DEF DatabaseIInv, History
<1>7. \A j \in 1 .. n - 1 : \E k \in 1 .. n : k # i /\ db'[j] = db[k]
  <2>1. ASSUME NEW j \in 1 .. n - 1 PROVE \E k \in 1 .. n : k # i /\ db'[j] = db[k]
    <3>1. j \in 1 .. n /\ j + 1 \in 1 .. n /\ (j < i => j # i) /\ (~ (j < i) => j + 1 # i)
      BY <1>5
    <3>2. CASE j < i
      BY <1>5, <3>1, <3>2
    <3>3. CASE ~ (j < i)
      BY <1>5, <3>1, <3>3
    <3>4. QED
      BY <3>2, <3>3
  <2>2. QED
    BY <2>1
<1>8. \A k \in 1 .. n : k # i => \E j \in 1 .. n - 1 : db'[j] = db[k]
  <2>1. ASSUME NEW k \in 1 .. n, k # i PROVE \E j \in 1 .. n - 1 : db'[j] = db[k]
    <3>1. CASE k < i
      <4>1. k \in 1 .. n - 1
        BY <1>5, <3>1
      <4>2. QED
        BY <1>5, <3>1, <4>1
    <3>2. CASE ~ (k < i)
      <4>1. k - 1 \in 1 .. n - 1 /\ ~ (k - 1 < i) /\ (k - 1) + 1 = k
        BY <1>5, <2>1, <3>2
      <4>2. QED
        BY <1>5, <4>1
    <3>3. QED
      BY <3>1, <3>2
  <2>2. QED
    BY <2>1
<1>9. \A j, k \in 1 .. n - 1 : db'[j].name = db'[k].name => j = k
  <2> SUFFICES ASSUME NEW j \in 1 .. n - 1, NEW k \in 1 .. n - 1, db'[j].name = db'[k].name
               PROVE  j = k
    OBVIOUS
  <2> DEFINE p == IF j < i THEN j ELSE j + 1
             q == IF k < i THEN k ELSE k + 1
  <2>1. /\ p \in 1 .. n /\ q \in 1 .. n /\ (p = q => j = k)
        /\ db'[j] = db[p] /\ db'[k] = db[q]
    BY <1>5
  <2> HIDE DEF p, q
  <2>2. p = q
    BY <2>1 DEF DatabaseIInv, Lines
  <2>3. QED
    BY <2>1, <2>2
<1>10. \A f \in Files : HasLine(f)' <=> HasLine(f) /\ f # r.name
  <2>1. ASSUME NEW f \in Files, HasLine(f)' PROVE HasLine(f) /\ f # r.name
    <3>1. PICK j \in 1 .. n - 1 : db'[j].name = f
      BY <1>5, <2>1 DEF HasLine
    <3>2. PICK k \in 1 .. n : k # i /\ db'[j] = db[k]
      BY <1>7
    <3>3. QED
      BY <3>1, <3>2 DEF HasLine, DatabaseIInv, Lines
  <2>2. ASSUME NEW f \in Files, HasLine(f), f # r.name PROVE HasLine(f)'
    <3>1. PICK k \in 1 .. n : db[k].name = f
      BY <2>2 DEF HasLine
    <3>2. PICK j \in 1 .. n - 1 : db'[j] = db[k]
      BY <1>8, <2>2, <3>1
    <3>3. QED
      BY <1>5, <3>1, <3>2 DEF HasLine
  <2>3. QED
    BY <2>1, <2>2
<1>11. HasLine(r.name)
  BY DEF HasLine
<1>12. r.name \notin cut
  BY <1>1, <1>11 DEF DatabaseIInv, Lines, Missing
<1>13. \A f \in Files : Missing(f)' <=> Missing(f) \/ f = r.name
  <2>1. \A f : Written(f)' <=> f = r.name
    BY <1>3, <1>4 DEF Written
  <2>2. \A f : ~ Written(f)
    BY DEF Written
  <2>3. QED
    BY <1>4, <2>1, <2>2 DEF Missing
<1>14. \A j \in 1 .. n - 1 :
         db'[j].sum = saved'[db'[j].name] /\ db'[j].marks = Mark(alerts'[db'[j].name])
  <2>1. ASSUME NEW j \in 1 .. n - 1
        PROVE  /\ db'[j].sum = saved'[db'[j].name]
               /\ db'[j].marks = Mark(alerts'[db'[j].name])
    <3>1. PICK k \in 1 .. n : k # i /\ db'[j] = db[k]
      BY <1>7
    <3>2. db[k].sum = saved[db[k].name] /\ db[k].marks = Mark(alerts[db[k].name])
      BY <3>1 DEF DatabaseIInv, Lines
    <3>3. QED
      BY <1>4, <3>1, <3>2
  <2>2. QED
    BY <2>1
<1>15. Lines'
  BY <1>4, <1>5, <1>9, <1>10, <1>13, <1>14 DEF DatabaseIInv, Lines
<1>16. Between'
  <2>1. alerts[r.name] \in Nat /\ db[i].marks = Mark(alerts[r.name])
    BY <1>1 DEF DatabaseIInv, Lines, History
  <2>2. e.marks = Mark(alerts[r.name] + 1)
    BY <1>3, <2>1 DEF NextMarks, Mark
  <2>3. AutoIgnore => alerts[r.name] <= 2
    BY <2>1 DEF Ignored, Mark
  <2>4. QED
    BY <1>3, <1>4, <1>12, <2>2, <2>3 DEF Between
<1>17. QED
  BY <1>6, <1>15, <1>16 DEF DatabaseIInv

LEMMA SearchStep ==
  ASSUME DatabaseIInv, DB_Search
  PROVE  DatabaseIInv'
<1> DEFINE r == Head(wire)
           i == CHOOSE j \in Entries(r.name) : \A k \in Entries(r.name) : j <= k
<1>1. /\ adding = <<>> /\ wire' \in Seq(Reports) /\ Len(wire') <= WireLen /\ r \in Reports
  BY WireShortens DEF DB_Search, DatabaseIInv
<1>2. CASE Entries(r.name) = {}
  <2>1. SaveNew(r)
    BY <1>2 DEF DB_Search
  <2>2. QED
    BY <1>1, <1>2, <2>1, NewFileStep
<1>3. CASE Entries(r.name) # {}
  <2>1. PICK k \in 1 .. Len(db) : db[k].name = r.name
    BY <1>3 DEF Entries, DatabaseIInv, Lines
  <2>2. Entries(r.name) = {k}
    BY <2>1 DEF Entries, DatabaseIInv, Lines
  <2>3. i = k
    <3>1. k \in Nat
      BY LenProperties DEF DatabaseIInv, Lines
    <3>2. QED
      BY <2>2, <3>1
  <2>4. IF db[k].sum = r.sum THEN UNCHANGED database ELSE Changed(k, r)
    BY <1>3, <2>3 DEF DB_Search
  <2>5. CASE UNCHANGED database
    <3>1. UNCHANGED <<db, adding, saved, alerts, cut>>
      BY <2>5 DEF database
    <3>2. History'
      BY <1>1, <3>1 DEF DatabaseIInv, History
    <3>3. Lines'
      BY <3>1 DEF DatabaseIInv, Lines, HasLine, Missing, Written
    <3>4. Between'
      BY <1>1, <3>1 DEF Between
    <3>5. QED
      BY <3>2, <3>3, <3>4 DEF DatabaseIInv
  <2>6. CASE Changed(k, r) /\ ~ UNCHANGED database
    <3>1. ~ Ignored(db[k])
      BY <2>6 DEF Changed
    <3> HIDE DEF r
    <3>2. QED
      BY <1>1, <2>1, <2>6, <3>1, CommentStep
  <2>7. QED
    BY <2>4, <2>5, <2>6
<1>4. QED
  BY <1>2, <1>3

(* The second write.                                                       *)
LEMMA AppendStep ==
  ASSUME DatabaseIInv, DB_Append
  PROVE  DatabaseIInv'
<1>1. PICK e \in Line :
        /\ adding = <<e>> /\ e.name \notin cut
        /\ e.marks = Mark(alerts[e.name] + 1)
        /\ AutoIgnore => alerts[e.name] <= 2
  BY DEF DatabaseIInv, Between, DB_Append
<1>2. /\ adding' = <<>> /\ db' = Append(db, e)
      /\ saved' = [saved EXCEPT ![e.name] = e.sum]
      /\ alerts' = [alerts EXCEPT ![e.name] = @ + 1]
      /\ UNCHANGED <<wire, cut>>
  BY <1>1 DEF DB_Append
<1>3. e.name \in Files /\ e.sum \in Sums \cup {Deleted}
  BY DEF Line
<1>4. ~ HasLine(e.name)
  BY <1>1, <1>3 DEF DatabaseIInv, Lines, Missing, Written
<1>5. History'
  BY <1>2, <1>3 DEF DatabaseIInv, History
<1>6. /\ alerts' \in [Files -> Nat] /\ alerts[e.name] \in Nat
      /\ alerts'[e.name] = alerts[e.name] + 1 /\ saved'[e.name] = e.sum
      /\ \A f \in Files : f # e.name => alerts'[f] = alerts[f] /\ saved'[f] = saved[f]
  BY <1>2, <1>3 DEF DatabaseIInv, History
<1>7. ~ Missing(e.name)'
  BY <1>1, <1>2, <1>3, <1>6, SumIsNotNone DEF Missing, Written
<1>8. \A f \in Files : f # e.name => (Missing(f)' <=> Missing(f))
  BY <1>1, <1>2, <1>6 DEF Missing, Written
<1>9. e.marks = Mark(alerts'[e.name]) /\ (AutoIgnore => alerts'[e.name] <= 3)
  BY <1>1, <1>6
<1>10. Lines'
  BY <1>2, <1>4, <1>5, <1>6, <1>7, <1>8, <1>9, LineAdded DEF DatabaseIInv
<1>11. QED
  BY <1>2, <1>5, <1>10 DEF DatabaseIInv, Between

LEMMA CrashStep ==
  ASSUME DatabaseIInv, DB_Crash
  PROVE  DatabaseIInv'
<1>1. wire' = <<>> /\ adding' = <<>> /\ UNCHANGED <<db, saved, alerts>>
  BY DEF DB_Crash
<1>2. \A f \in Files : f \in cut' <=> f \in cut \/ Written(f)
  <2>1. CASE adding = <<>>
    BY <2>1 DEF DB_Crash, Written
  <2>2. CASE adding # <<>>
    <3>1. PICK e \in Line : adding = <<e>>
      BY <2>2 DEF DatabaseIInv, Between
    <3>2. cut' = cut \cup {e.name}
      BY <3>1 DEF DB_Crash
    <3>3. \A f : Written(f) <=> f = e.name
      BY <3>1 DEF Written
    <3>4. QED
      BY <3>2, <3>3
  <2>3. QED
    BY <2>1, <2>2
<1>3. cut' \subseteq Files
  <2>1. CASE adding = <<>>
    BY <2>1 DEF DB_Crash, DatabaseIInv, History
  <2>2. CASE adding # <<>>
    <3>1. PICK e \in Line : adding = <<e>>
      BY <2>2 DEF DatabaseIInv, Between
    <3>2. cut' = cut \cup {e.name} /\ e.name \in Files
      BY <3>1 DEF DB_Crash, Line
    <3>3. QED
      BY <3>2 DEF DatabaseIInv, History
  <2>3. QED
    BY <2>1, <2>2
<1>4. History'
  BY <1>1, <1>3, SyscheckDBAssumption DEF DatabaseIInv, History
<1>5. \A f \in Files : Missing(f)' <=> Missing(f)
  BY <1>1, <1>2 DEF Missing, Written
<1>6. Lines'
  BY <1>1, <1>5 DEF DatabaseIInv, Lines, HasLine
<1>7. QED
  BY <1>1, <1>4, <1>6 DEF DatabaseIInv, Between

-----------------------------------------------------------------------------
(* The steps of syscheckd, of the host and of mishap.                      *)

LEMMA DatabaseUnchanged ==
  ASSUME DatabaseIInv, UNCHANGED database, wire' \in Seq(Reports), Len(wire') <= WireLen
  PROVE  DatabaseIInv'
<1>1. UNCHANGED <<db, adding, saved, alerts, cut>>
  BY DEF database
<1>2. History'
  BY <1>1 DEF DatabaseIInv, History
<1>3. Lines'
  BY <1>1 DEF DatabaseIInv, Lines, HasLine, Missing, Written
<1>4. Between'
  BY <1>1 DEF DatabaseIInv, Between
<1>5. QED
  BY <1>2, <1>3, <1>4 DEF DatabaseIInv

WireTypes == wire \in Seq(Reports) /\ Len(wire) <= WireLen

CheckerTypes ==
  /\ file \in [Files -> Sums \cup {Deleted}] /\ hash \in [Files -> Sums \cup {None}]
  /\ watched \in BOOLEAN /\ events \subseteq Files
  /\ pc \in {"idle", "scan", "listed", "hashed"} /\ todo \subseteq Files
  /\ cur \in Files \cup {NoFile} /\ (cur \in Files <=> pc \in {"listed", "hashed"})
  /\ edits \in [Files -> Nat] /\ (\A f \in Files : edits[f] <= MaxEdits[f])
  /\ mishaps \in 0 .. MaxMishaps /\ reported \subseteq Files
  /\ first \in [Files -> Sums \cup {None}]

IInv == DatabaseIInv /\ CheckerTypes

LEMMA SendTypes ==
  ASSUME WireTypes, NEW f \in Files, NEW s \in Sums \cup {Deleted}, Send(f, s)
  PROVE  WireTypes'
<1>1. [name |-> f, sum |-> s] \in Reports
  BY DEF Reports
<1>2. wire' \in Seq(Reports) /\ Len(wire') = Len(wire) + 1
  BY <1>1, AppendProperties DEF WireTypes, Send
<1>3. Len(wire) \in Nat /\ Len(wire) < WireLen
  BY LenProperties DEF WireTypes, Send
<1>4. QED
  BY <1>2, <1>3, SyscheckDBAssumption DEF WireTypes

LEMMA CompareTypes ==
  ASSUME WireTypes, CheckerTypes, NEW f \in Files, Compare(f)
  PROVE  WireTypes' /\ reported' \subseteq Files /\ UNCHANGED <<hash, first>>
<1>1. WireTypes'
  <2>1. CASE file[f] = hash[f]
    BY <2>1 DEF Compare, WireTypes
  <2>2. CASE file[f] # hash[f]
    BY <2>2, SendTypes DEF Compare, CheckerTypes
  <2>3. QED
    BY <2>1, <2>2
<1>2. QED
  BY <1>1 DEF Compare, CheckerTypes

LEMMA AddFileTypes ==
  ASSUME WireTypes, CheckerTypes, NEW f \in Files, file[f] # Deleted, AddFile(f)
  PROVE  /\ WireTypes' /\ UNCHANGED reported
         /\ hash' \in [Files -> Sums \cup {None}] /\ first' \in [Files -> Sums \cup {None}]
<1>1. file[f] \in Sums
  BY DEF CheckerTypes
<1>2. WireTypes'
  BY <1>1, SendTypes DEF AddFile
<1>3. QED
  BY <1>1, <1>2 DEF AddFile, CheckerTypes

LEMMA CheckerStep ==
  ASSUME WireTypes, CheckerTypes, Checker
  PROVE  WireTypes' /\ CheckerTypes' /\ UNCHANGED database
<1> USE NoFileAssumption
<1>1. CASE StartScan
  BY <1>1 DEF StartScan, WireTypes, CheckerTypes
<1>2. ASSUME NEW f \in Files, Readdir(f)
      PROVE  WireTypes' /\ CheckerTypes' /\ UNCHANGED database
  <2>1. UNCHANGED <<wire, database, file, hash, watched, events, edits, mishaps, first, reported>>
    BY <1>2 DEF Readdir
  <2>2. pc = "scan" /\ todo' \subseteq Files
    BY <1>2 DEF Readdir, CheckerTypes
  <2>3. \/ UNCHANGED <<pc, cur>>
        \/ pc' = "listed" /\ cur' = f
    BY <1>2 DEF Readdir
  <2>4. QED
    BY <2>1, <2>2, <2>3 DEF WireTypes, CheckerTypes
<1>3. CASE Read_file
  <2>1. UNCHANGED <<database, file, watched, events, todo, edits, mishaps>> /\ cur \in Files
    BY <1>3 DEF Read_file, CheckerTypes
  <2>2. CASE pc' = "scan" /\ cur' = NoFile /\ UNCHANGED <<wire, hash, first, reported>>
    BY <2>1, <2>2 DEF WireTypes, CheckerTypes
  <2>3. CASE file[cur] # Deleted /\ AddFile(cur) /\ pc' = "scan" /\ cur' = NoFile
    <3>1. /\ WireTypes' /\ UNCHANGED reported
          /\ hash' \in [Files -> Sums \cup {None}] /\ first' \in [Files -> Sums \cup {None}]
      BY <2>1, <2>3, AddFileTypes
    <3>2. QED
      BY <2>1, <2>3, <3>1 DEF CheckerTypes
  <2>4. CASE pc' = "hashed" /\ UNCHANGED <<cur, wire, hash, first, reported>>
    BY <2>1, <2>4 DEF WireTypes, CheckerTypes
  <2>5. CASE NotDir(cur) /\ pc' = "scan" /\ cur' = NoFile
    <3>1. /\ WireTypes' /\ UNCHANGED <<hash, first>>
          /\ reported' \subseteq reported \cup {cur}
      BY <2>1, <2>5, SendTypes DEF NotDir
    <3>2. QED
      BY <2>1, <2>5, <3>1 DEF CheckerTypes
  <2>6. QED
    BY <1>3, <2>2, <2>3, <2>4, <2>5 DEF Read_file
<1>4. CASE C_read_file
  <2>1. /\ UNCHANGED <<database, file, watched, events, todo, edits, mishaps>> /\ cur \in Files
        /\ Compare(cur) /\ pc' = "scan" /\ cur' = NoFile
    BY <1>4 DEF C_read_file, CheckerTypes
  <2>2. WireTypes' /\ reported' \subseteq Files /\ UNCHANGED <<hash, first>>
    BY <2>1, CompareTypes
  <2>3. QED
    BY <2>1, <2>2 DEF CheckerTypes
<1>5. CASE EndScan
  BY <1>5 DEF EndScan, WireTypes, CheckerTypes
<1>6. ASSUME NEW f \in Files, Realtime(f)
      PROVE  WireTypes' /\ CheckerTypes' /\ UNCHANGED database
  <2>1. /\ UNCHANGED <<database, file, watched, pc, todo, cur, edits, mishaps>>
        /\ events' = events \ {f}
    BY <1>6 DEF Realtime
  <2>2. CASE Compare(f)
    <3>1. WireTypes' /\ reported' \subseteq Files /\ UNCHANGED <<hash, first>>
      BY <2>2, CompareTypes
    <3>2. QED
      BY <2>1, <3>1 DEF CheckerTypes
  <2>3. CASE file[f] # Deleted /\ AddFile(f)
    <3>1. /\ WireTypes' /\ UNCHANGED reported
          /\ hash' \in [Files -> Sums \cup {None}] /\ first' \in [Files -> Sums \cup {None}]
      BY <2>3, AddFileTypes
    <3>2. QED
      BY <2>1, <3>1 DEF CheckerTypes
  <2>4. CASE UNCHANGED <<wire, hash, first, reported>>
    BY <2>1, <2>4 DEF WireTypes, CheckerTypes
  <2>5. QED
    BY <1>6, <2>2, <2>3, <2>4 DEF Realtime
<1>7. QED
  BY <1>1, <1>2, <1>3, <1>4, <1>5, <1>6 DEF Checker

LEMMA WireOfHistory == ASSUME DatabaseIInv PROVE WireTypes
BY DEF DatabaseIInv, History, WireTypes

LEMMA IInvStep ==
  ASSUME IInv, [Next]_vars
  PROVE  IInv'
<1>0. WireTypes /\ DatabaseIInv /\ CheckerTypes
  BY WireOfHistory DEF IInv
<1>1. CASE Checker
  BY <1>0, <1>1, CheckerStep, DatabaseUnchanged DEF WireTypes, IInv
<1>2. CASE Decode
  <2>1. UNCHANGED <<file, hash, watched, pc, todo, cur, events, edits, mishaps, first, reported>>
    BY <1>2 DEF Decode, checker
  <2>2. CheckerTypes'
    BY <1>0, <2>1 DEF CheckerTypes
  <2>3. QED
    BY <1>0, <1>2, <2>2, SearchStep, AppendStep DEF Decode, IInv
<1>3. ASSUME NEW f \in Files, Edit(f)
      PROVE  IInv'
  <2>1. UNCHANGED <<wire, database, hash, watched, pc, todo, cur, mishaps, first, reported>>
    BY <1>3 DEF Edit, checker
  <2>2. /\ file' \in [Files -> Sums \cup {Deleted}] /\ events' \subseteq Files
        /\ edits' \in [Files -> Nat]
        /\ edits' = [edits EXCEPT ![f] = @ + 1] /\ edits[f] < MaxEdits[f]
    BY <1>0, <1>3 DEF Edit, CheckerTypes
  <2>3. \A g \in Files : edits'[g] <= MaxEdits[g]
    <3>1. edits \in [Files -> Nat] /\ MaxEdits \in [Files -> Nat]
      BY <1>0, SyscheckdAssumption DEF CheckerTypes
    <3>2. \A g \in Files : edits'[g] = IF g = f THEN edits[f] + 1 ELSE edits[g]
      BY <2>2, <3>1
    <3>3. QED
      BY <1>0, <2>2, <3>1, <3>2 DEF CheckerTypes
  <2>4. CheckerTypes'
    BY <1>0, <2>1, <2>2, <2>3 DEF CheckerTypes
  <2>5. DatabaseIInv'
    BY <1>0, <2>1, DatabaseUnchanged DEF WireTypes
  <2>6. QED
    BY <2>4, <2>5 DEF IInv
<1>4. CASE Lose
  <2>1. /\ UNCHANGED <<file, hash, watched, pc, todo, cur, events, edits, first, reported>>
        /\ UNCHANGED database
        /\ mishaps < MaxMishaps /\ mishaps' = mishaps + 1
        /\ wire # <<>> /\ wire' = Tail(wire)
    BY <1>4 DEF Lose, Mishap, checker
  <2>2. WireTypes'
    BY <1>0, <2>1, WireShortens DEF DatabaseIInv, WireTypes
  <2>3. CheckerTypes'
    BY <1>0, <2>1, SyscheckdAssumption DEF CheckerTypes
  <2>4. QED
    BY <1>0, <2>1, <2>2, <2>3, DatabaseUnchanged DEF WireTypes, IInv
<1>5. CASE Crash
  <2>1. /\ UNCHANGED <<file, hash, watched, pc, todo, cur, events, edits, first, reported>>
        /\ mishaps < MaxMishaps /\ mishaps' = mishaps + 1 /\ DB_Crash
    BY <1>5 DEF Crash, Mishap, checker
  <2>2. CheckerTypes'
    BY <1>0, <2>1, SyscheckdAssumption DEF CheckerTypes
  <2>3. QED
    BY <1>0, <2>1, <2>2, CrashStep DEF IInv
<1>6. CASE Restart
  <2>1. /\ UNCHANGED <<wire, database, file, edits>>
        /\ mishaps < MaxMishaps /\ mishaps' = mishaps + 1
        /\ hash' = [f \in Files |-> None] /\ watched' = FALSE /\ events' = {}
        /\ pc' = "idle" /\ todo' = {} /\ cur' = NoFile /\ first' = hash' /\ reported' = {}
    BY <1>6 DEF Restart, Mishap
  <2>2. CheckerTypes'
    <3>1. hash' \in [Files -> Sums \cup {None}] /\ first' \in [Files -> Sums \cup {None}]
      BY <2>1
    <3>2. mishaps' \in 0 .. MaxMishaps
      BY <1>0, <2>1, SyscheckdAssumption DEF CheckerTypes
    <3>3. cur' \in Files \cup {NoFile} /\ cur' \notin Files /\ pc' = "idle"
      BY <2>1, NoFileAssumption
    <3>4. QED
      BY <1>0, <2>1, <3>1, <3>2, <3>3 DEF CheckerTypes
  <2>3. QED
    BY <1>0, <2>1, <2>2, DatabaseUnchanged DEF WireTypes, IInv
<1>7. CASE UNCHANGED vars
  <2>1. /\ UNCHANGED <<wire, database>>
        /\ UNCHANGED <<file, hash, watched, pc, todo, cur, events, edits, mishaps, first, reported>>
    BY <1>7 DEF vars, checker
  <2>2. CheckerTypes'
    BY <1>0, <2>1 DEF CheckerTypes
  <2>3. QED
    BY <1>0, <2>1, <2>2, DatabaseUnchanged DEF WireTypes, IInv
<1>8. QED
  BY <1>1, <1>2, <1>3, <1>4, <1>5, <1>6, <1>7 DEF Next

LEMMA IInvInit == ASSUME Init PROVE IInv
<1>1. /\ wire = <<>> /\ db = <<>> /\ adding = <<>> /\ cut = {}
      /\ saved = [f \in Files |-> None] /\ alerts = [f \in Files |-> 0]
  BY DEF Init, DBInit
<1>2. History
  BY <1>1, SyscheckDBAssumption DEF History
<1>3. Lines
  <2>1. db \in Seq(Line) /\ Len(db) = 0
    BY <1>1
  <2>2. \A f \in Files : ~ HasLine(f) /\ Missing(f) /\ alerts[f] = 0
    BY <1>1, <2>1 DEF HasLine, Missing
  <2>3. QED
    BY <2>1, <2>2 DEF Lines
<1>4. Between
  BY <1>1 DEF Between
<1>5. CheckerTypes
  <2>1. hash \in [Files -> Sums \cup {None}] /\ first \in [Files -> Sums \cup {None}]
    BY DEF Init
  <2>2. file \in [Files -> Sums \cup {Deleted}]
    BY SyscheckdAssumption DEF Init
  <2>3. edits \in [Files -> Nat] /\ \A f \in Files : edits[f] <= MaxEdits[f]
    BY SyscheckdAssumption DEF Init
  <2>4. /\ watched \in BOOLEAN /\ events = {} /\ pc = "idle" /\ todo = {} /\ cur = NoFile
        /\ mishaps = 0 /\ reported = {} /\ MaxMishaps \in Nat
    BY SyscheckdAssumption DEF Init
  <2>5. QED
    BY <2>1, <2>2, <2>3, <2>4, NoFileAssumption DEF CheckerTypes
<1>6. QED
  BY <1>2, <1>3, <1>4, <1>5 DEF IInv, DatabaseIInv

LEMMA Invariance == Spec => []IInv
BY IInvInit, IInvStep, PTL DEF Spec

-----------------------------------------------------------------------------
(* Outside the two writes of a change each file that was saved has one     *)
(* line, unless a crash took it; the line has the checksum last saved and  *)
(* its marks count the alerts, three at most where files are ignored.      *)
THEOREM DatabaseIsAccount == Spec => []DatabaseInv
<1>1. ASSUME IInv PROVE TypeOK
  <2>1. DBTypeOK
    <3>1. \A i \in DOMAIN db : db[i] \in Line
      BY <1>1 DEF IInv, DatabaseIInv, Lines
    <3>2. Len(adding) <= 1
      <4>1. adding = <<>> \/ \E e \in Line : adding = <<e>>
        BY <1>1 DEF IInv, DatabaseIInv, Between
      <4>2. \A e \in Line : Len(<<e>>) = 1
        OBVIOUS
      <4>3. Len(<<>>) = 0
        OBVIOUS
      <4>4. Len(adding) = 0 \/ Len(adding) = 1
        BY <4>1, <4>2, <4>3, Zenon
      <4>5. QED
        BY <4>4
    <3>3. QED
      BY <1>1, <3>1, <3>2 DEF IInv, DatabaseIInv, History, DBTypeOK, Line
  <2>2. QED
    BY <1>1, <2>1 DEF IInv, CheckerTypes, TypeOK
<1>2. ASSUME IInv, NEW f \in Files
      PROVE  LET n == Cardinality(Entries(f)) IN
             /\ n = (IF saved[f] = None \/ f \in cut \/ (adding # <<>> /\ adding[1].name = f) THEN 0 ELSE 1)
             /\ \A i \in Entries(f) : /\ db[i].sum = saved[f]
                                      /\ db[i].marks = (IF alerts[f] < 4 THEN alerts[f] ELSE 4)
             /\ AutoIgnore => alerts[f] <= 3
  <2>1. CASE Missing(f)
    <3>1. Entries(f) = {}
      BY <1>2, <2>1 DEF IInv, DatabaseIInv, Lines, HasLine, Entries
    <3>2. QED
      BY <1>2, <2>1, <3>1, FS_EmptySet DEF IInv, DatabaseIInv, Lines, Missing, Written
  <2>2. CASE ~ Missing(f)
    <3>1. PICK k \in 1 .. Len(db) : db[k].name = f
      BY <1>2, <2>2 DEF IInv, DatabaseIInv, Lines, HasLine
    <3>2. Entries(f) = {k}
      BY <1>2, <3>1 DEF IInv, DatabaseIInv, Lines, Entries
    <3>3. Cardinality(Entries(f)) = 1
      BY <3>2, FS_Singleton
    <3>4. db[k].sum = saved[f] /\ db[k].marks = Mark(alerts[f]) /\ (AutoIgnore => alerts[f] <= 3)
      BY <1>2, <3>1 DEF IInv, DatabaseIInv, Lines
    <3>5. QED
      BY <2>2, <3>2, <3>3, <3>4 DEF Mark, Missing, Written
  <2>3. QED
    BY <2>1, <2>2
<1>3. IInv => DatabaseInv
  BY <1>1, <1>2 DEF DatabaseInv, EntryIsAccount
<1>4. QED
  BY <1>3, Invariance, PTL

(* A checksum takes the place of another only with an alert, unless        *)
(* analysisd was killed between the two writes of an earlier change.       *)
THEOREM ReplacedWithAlert == Spec => SilentOnlyIfCut
<1>1. ASSUME IInv, [Next]_vars, NEW f \in Files, saved[f] # None, saved'[f] # saved[f]
      PROVE  alerts'[f] = alerts[f] + 1 \/ f \in cut
  <2>1. CASE Decode /\ DB_Search
    <3> DEFINE r == Head(wire)
    <3>1. adding = <<>> /\ r \in Reports
      BY <1>1, <2>1, WireShortens DEF DB_Search, IInv, DatabaseIInv
    <3>2. Entries(r.name) = {} /\ SaveNew(r)
      BY <1>1, <2>1 DEF DB_Search, Changed, database
    <3>3. f = r.name
      BY <1>1, <3>1, <3>2 DEF SaveNew, IInv, DatabaseIInv, History, Reports
    <3>4. ~ HasLine(f)
      BY <1>1, <3>2, <3>3 DEF HasLine, Entries
    <3>5. QED
      BY <1>1, <3>1, <3>4 DEF IInv, DatabaseIInv, Lines, Missing, Written
  <2>2. CASE Decode /\ DB_Append
    <3>1. PICK e \in Line : adding = <<e>>
      BY <1>1, <2>2 DEF IInv, DatabaseIInv, Between, DB_Append
    <3>2. /\ saved' = [saved EXCEPT ![e.name] = e.sum]
          /\ alerts' = [alerts EXCEPT ![e.name] = @ + 1]
      BY <2>2, <3>1 DEF DB_Append
    <3>3. QED
      BY <1>1, <3>2 DEF IInv, DatabaseIInv, History
  <2>3. CASE Checker
    BY <1>1, <2>3, WireOfHistory, CheckerStep DEF IInv, database
  <2>4. CASE Lose \/ Crash \/ Restart \/ (\E g \in Files : Edit(g)) \/ UNCHANGED vars
    <3>1. saved' = saved
      BY <2>4 DEF Lose, Crash, DB_Crash, Restart, Edit, vars, database
    <3>2. QED
      BY <1>1, <3>1
  <2>5. QED
    BY <1>1, <2>1, <2>2, <2>3, <2>4 DEF Next, Decode
<1>2. IInv /\ [Next]_vars =>
        [\A f \in Files : saved[f] # None /\ saved'[f] # saved[f]
                            => alerts'[f] = alerts[f] + 1 \/ f \in cut]_vars
  BY <1>1
<1>3. QED
  BY <1>2, Invariance, PTL DEF Spec, SilentOnlyIfCut
=============================================================================
