---------------------------- MODULE MaildProofs ----------------------------
(***************************************************************************)
(* Proofs about Maild and the log of alerts it reads, for every number of  *)
(* alerts, days and recipients, whatever their formats: where every alert  *)
(* goes, what bounds the list of mails, whom a mail reaches and which      *)
(* mails of do_not_group have others with them.                            *)
(*                                                                         *)
(* EveryAlertAccounted is not inductive: that no alert is in two places    *)
(* needs the order of the three ideas of the day (the reader's, maild's    *)
(* and the clock's), the position of the reader in its file, and that      *)
(* what maild keeps are mails, each of them kept once.                     *)
(***************************************************************************)
EXTENDS Maild, FiniteSetTheorems, SequenceTheorems, WellFoundedInduction, TLAPS

(* What is in the log: every alert once, in the file of a day that has     *)
(* come; the three ideas of the day are in order.                          *)
LogInv ==
  /\ files \in [Days -> Seq(1 .. written)]
  /\ rday <= today /\ today <= day /\ wday <= day /\ wday \in made
  /\ \A d \in Days : files[d] # <<>> => d \in made /\ d <= wday
  /\ \A d \in Days : Len(files[d]) <= written
  /\ \A d, e \in Days : \A j \in DOMAIN files[d], k \in DOMAIN files[e] :
       files[d][j] = files[e][k] => d = e /\ j = k
  /\ wpc = "half" => files[wday] # <<>>

(* The reader: within its file, and inside an alert only if it need not    *)
(* see it.                                                                 *)
ReaderInv ==
  /\ ropen => rpos <= Size(rday)
  /\ ropen => \A k \in DOMAIN files[rday] : rpos = 2 * k - 1 => files[rday][k] \in excused
  /\ rpc = "poll" => ropen
  /\ rpc # "done" => al = None
  /\ al # None => kind[al].mail

(* What maild keeps: alerts to be mailed, each of them once.               *)
KeptInv ==
  /\ list \in Seq(1 .. written) /\ smsg \in {None} \cup 1 .. written
  /\ used <= MAILLIST
  /\ \A i, j \in DOMAIN list : list[i] = list[j] => i = j
  /\ \A i \in DOMAIN list : kind[list[i]].mail
  /\ smsg # None => kind[smsg].mail
  /\ pc = "read" => smsg = None
  /\ pc = "saved" => smsg # None
  /\ IsFiniteSet(children)
  /\ \A c \in children : c.mails \subseteq 1 .. written
  /\ \A c, e \in children : c.end = "none" /\ e.end = "none" /\ c.mails \cap e.mails # {} => c = e
  /\ ended \subseteq 1 .. written

PlaceNames == {"log", "excused", "read", "saved", "list", "child", "end"}

At(p, a) ==
  \/ p = "log" /\ Unread(a)
  \/ p = "excused" /\ a \in excused
  \/ p = "read" /\ a = al
  \/ p = "saved" /\ a = smsg
  \/ p = "list" /\ a \in MailsOf(list)
  \/ p = "child" /\ \E c \in children : c.end = "none" /\ a \in c.mails
  \/ p = "end" /\ a \in ended

OnePlace(a) == \E p \in PlaceNames : \A q \in PlaceNames : At(q, a) <=> q = p

PlaceInv == \A a \in 1 .. written : kind[a].mail => OnePlace(a)

(* The recipients of the mails in the list are in gran_set.                *)
NotAlone(a) == \A i \in kind[a].to : Formats[i] # "alone"

ServedInv ==
  /\ \A i \in Recipients : Formats[i] \in {"full", "now"} => granset[i] \in {"none", "full"}
  /\ \A a \in MailsOf(list) : NotAlone(a) =>
       \A i \in kind[a].to : granset[i] = "full" \/ Formats[i] = "sms"
  /\ MatchedAreServed

(* A mail of do_not_group waits for the rest of the hour, or is sent next.  *)
AloneInv ==
  /\ smsg # None => timeout = "default" /\ Priority(smsg) = "alone"
  /\ pc = "saved" => list = <<>> \/ mailtosend \in {0, MAXPERHOUR}
  /\ (\E a \in MailsOf(list) : Priority(a) = "alone") =>
       \/ mailtosend = MAXPERHOUR
       \/ /\ pc = "top" /\ timeout = "default" /\ mailtosend # 0
          /\ Len(list) = 1 \/ mailtosend = 1

IInv == TypeOK /\ UsedFallsBehind /\ LogInv /\ ReaderInv /\ KeptInv /\ PlaceInv /\ ServedInv /\ AloneInv

-----------------------------------------------------------------------------
(* Sets of numbers.                                                        *)

LEMMA LeastElement ==
  ASSUME NEW S, S \subseteq Nat, S # {}
  PROVE  \E m \in S : \A k \in S : m <= k
<1>1. PICK m \in S : \A k \in S : ~ <<k, m>> \in OpToRel(<, Nat)
  BY NatLessThanWellFounded, WFMin
<1>2. \A k \in S : ~ (k < m)
  BY <1>1 DEF OpToRel
<1>3. QED
  BY <1>2

LEMMA GreatestElement ==
  ASSUME NEW n \in Nat, NEW S, S \subseteq 1 .. n, S # {}
  PROVE  \E m \in S : \A k \in S : k <= m
<1> DEFINE T == {n - k : k \in S}
<1>1. T \subseteq Nat /\ T # {}
  <2>1. \A k \in S : n - k \in Nat
    OBVIOUS
  <2>2. QED
    BY <2>1
<1>2. PICK t \in T : \A j \in T : t <= j
  BY <1>1, LeastElement
<1>3. PICK m \in S : t = n - m
  OBVIOUS
<1>4. \A k \in S : n - m <= n - k
  BY <1>2, <1>3
<1>5. QED
  BY <1>4

(* An alert of priority "alone" matches a recipient of do_not_group.       *)
LEMMA PriorityIsOfRecipient ==
  ASSUME NEW a, kind[a].to \subseteq Recipients
  PROVE  /\ Priority(a) \in {"none", "now", "alone"}
         /\ Priority(a) = "alone" => ~ NotAlone(a)
<1> DEFINE S == {i \in kind[a].to : Formats[i] \in {"now", "alone"}}
<1>1. Recipients = 1 .. Len(Formats) /\ Len(Formats) \in Nat
  BY MaildAssumption, LenProperties DEF Recipients
<1>2. CASE S = {}
  BY <1>2 DEF Priority
<1>3. CASE S # {}
  <2>1. \E i \in S : \A j \in S : j <= i
    BY <1>1, <1>3, GreatestElement
  <2> DEFINE last == CHOOSE i \in S : \A j \in S : j <= i
  <2>2. last \in S
    BY <2>1
  <2>3. Priority(a) = Formats[last]
    BY <1>3 DEF Priority
  <2>4. QED
    BY <2>2, <2>3 DEF NotAlone
<1>4. QED
  BY <1>2, <1>3

-----------------------------------------------------------------------------
(* The files and what the reader finds in them.                            *)

LEMMA LogTypes ==
  ASSUME TypeOK, LogInv
  PROVE  /\ written \in Nat /\ 1 .. written \subseteq Alerts
         /\ \A a \in 1 .. written : kind[a].mail \in BOOLEAN /\ kind[a].to \subseteq Recipients
         /\ \A d \in Days : /\ Len(files[d]) \in Nat
                            /\ DOMAIN files[d] = 1 .. Len(files[d])
                            /\ \A k \in DOMAIN files[d] : files[d][k] \in 1 .. written
                            /\ files[d] = <<>> <=> Len(files[d]) = 0
                            /\ Size(d) \in Nat
                            /\ Size(d) <= 2 * Len(files[d])
                            /\ 2 * Len(files[d]) - 1 <= Size(d)
                            /\ Size(d) <= 2 * MaxAlerts
<1>1. /\ written \in 0 .. MaxAlerts /\ MaxAlerts \in Nat
      /\ kind \in [Alerts -> Kinds]
  BY AlertQueueAssumption DEF TypeOK, QueueTypeOK
<1>2. written \in Nat /\ 1 .. written \subseteq Alerts
  BY <1>1 DEF Alerts
<1>3. \A a \in 1 .. written : kind[a].mail \in BOOLEAN /\ kind[a].to \subseteq Recipients
  BY <1>1, <1>2, AlertQueueAssumption, MaildAssumption DEF Recipients
<1>4. ASSUME NEW d \in Days
      PROVE  /\ Len(files[d]) \in Nat
             /\ DOMAIN files[d] = 1 .. Len(files[d])
             /\ \A k \in DOMAIN files[d] : files[d][k] \in 1 .. written
             /\ files[d] = <<>> <=> Len(files[d]) = 0
             /\ Size(d) \in Nat
             /\ Size(d) <= 2 * Len(files[d])
             /\ 2 * Len(files[d]) - 1 <= Size(d)
             /\ Size(d) <= 2 * MaxAlerts
  <2>1. files[d] \in Seq(1 .. written)
    BY DEF LogInv
  <2>2. /\ Len(files[d]) \in Nat
        /\ DOMAIN files[d] = 1 .. Len(files[d])
        /\ \A k \in DOMAIN files[d] : files[d][k] \in 1 .. written
        /\ files[d] = <<>> <=> Len(files[d]) = 0
    BY <2>1, LenProperties, EmptySeq, ElementOfSeq
  <2>3. Len(files[d]) <= MaxAlerts
    BY <1>1, <2>2 DEF LogInv
  <2>4. wpc = "half" /\ d = wday => Len(files[d]) # 0
    BY <2>2 DEF LogInv
  <2>5. \/ Size(d) = 2 * Len(files[d])
        \/ Size(d) = 2 * Len(files[d]) - 1 /\ Len(files[d]) # 0
    <3>1. CASE wpc = "half" /\ d = wday
      <4>1. Size(d) = 2 * Len(files[d]) - 1
        BY <3>1 DEF Size
      <4>2. QED
        BY <2>4, <3>1, <4>1
    <3>2. CASE ~ (wpc = "half" /\ d = wday)
      <4>1. Size(d) = 2 * Len(files[d]) - 0
        BY <3>2 DEF Size
      <4>2. QED
        BY <2>2, <4>1
    <3>3. QED
      BY <3>1, <3>2
  <2>6. QED
    BY <1>1, <2>2, <2>3, <2>5
<1>5. QED
  BY <1>2, <1>3, <1>4

(* The reader gets the next alert that is to be mailed and whole, or comes *)
(* to the end; a mail it has not got then is the one half written.         *)
LEMMA NextAlert ==
  ASSUME TypeOK, LogInv, NEW d \in Days, NEW pos \in Nat, pos <= Size(d)
  PROVE  \/ /\ GetAlertData(d, pos) = [alert |-> None, pos |-> Size(d)]
            /\ \A k \in DOMAIN files[d] :
                 pos <= 2 * k - 2 /\ kind[files[d][k]].mail => Size(d) = 2 * k - 1
         \/ \E k \in DOMAIN files[d] :
              /\ GetAlertData(d, pos) = [alert |-> files[d][k], pos |-> 2 * k]
              /\ pos <= 2 * k - 2 /\ 2 * k <= Size(d) /\ kind[files[d][k]].mail
              /\ \A j \in DOMAIN files[d] :
                   pos <= 2 * j - 2 /\ kind[files[d][j]].mail => k <= j
<1> DEFINE next == {k \in DOMAIN files[d] : /\ pos <= 2 * k - 2 /\ Whole(d, k)
                                            /\ kind[files[d][k]].mail}
<1>1. /\ Len(files[d]) \in Nat /\ DOMAIN files[d] = 1 .. Len(files[d])
      /\ Size(d) \in Nat /\ 2 * Len(files[d]) - 1 <= Size(d)
  BY LogTypes
<1>2. \A k \in DOMAIN files[d] : Whole(d, k) \/ Size(d) = 2 * k - 1
  BY <1>1 DEF Whole
<1>3. CASE next = {}
  <2>1. GetAlertData(d, pos) = [alert |-> None, pos |-> Size(d)]
    BY <1>3 DEF GetAlertData
  <2>2. QED
    BY <1>2, <1>3, <2>1
<1>4. CASE next # {}
  <2>1. next \subseteq Nat
    BY <1>1
  <2>2. \E k \in next : \A j \in next : k <= j
    BY <1>4, <2>1, LeastElement
  <2> DEFINE k == First(next)
  <2>3. k \in next /\ \A j \in next : k <= j
    BY <2>2 DEF First
  <2>4. GetAlertData(d, pos) = [alert |-> files[d][k], pos |-> 2 * k]
    BY <1>4 DEF GetAlertData
  <2>5. k \in DOMAIN files[d] /\ pos <= 2 * k - 2 /\ 2 * k <= Size(d) /\ kind[files[d][k]].mail
    BY <2>3 DEF Whole
  <2>6. ASSUME NEW j \in DOMAIN files[d], pos <= 2 * j - 2, kind[files[d][j]].mail
        PROVE  k <= j
    <3>1. CASE Whole(d, j)
      BY <2>3, <2>6, <3>1
    <3>2. CASE Size(d) = 2 * j - 1
      <4> HIDE DEF k
      <4>1. QED
        BY <1>1, <2>5, <3>2
    <3>3. QED
      BY <1>2, <3>1, <3>2
  <2>7. QED
    BY <2>4, <2>5, <2>6
<1>5. QED
  BY <1>3, <1>4

(* An alert in the log is unread by its place alone.                       *)
LEMMA UnreadAt ==
  ASSUME TypeOK, LogInv, NEW d \in Days, NEW k \in DOMAIN files[d]
  PROVE  Unread(files[d][k]) <=> d > rday \/ (d = rday /\ (ropen => rpos <= 2 * k - 2))
<1>1. k \in Alerts
  <2>1. k \in 1 .. Len(files[d]) /\ Len(files[d]) <= written /\ Len(files[d]) \in Nat /\ written \in Nat
    BY LogTypes DEF LogInv
  <2>2. k \in 1 .. written
    BY <2>1
  <2>3. QED
    BY <2>2, LogTypes
<1>2. \A e \in Days, j \in Alerts : j \in DOMAIN files[e] /\ files[e][j] = files[d][k] => e = d /\ j = k
  BY DEF LogInv
<1>3. QED
  BY <1>1, <1>2 DEF Unread

(* An alert in more than one place or in none cannot come of a step that   *)
(* leaves it where it is, nor of one that moves it.                        *)
LEMMA Stays ==
  ASSUME NEW a, OnePlace(a), \A q \in PlaceNames : At(q, a)' <=> At(q, a)
  PROVE  OnePlace(a)'
BY DEF OnePlace

LEMMA Moves ==
  ASSUME NEW a, OnePlace(a), NEW p \in PlaceNames, NEW q \in PlaceNames,
         At(p, a), At(q, a)', p # q => ~ At(p, a)',
         \A r \in PlaceNames \ {p, q} : At(r, a)' => At(r, a)
  PROVE  OnePlace(a)'
<1>1. \A r \in PlaceNames : At(r, a) <=> r = p
  BY DEF OnePlace
<1>2. \A r \in PlaceNames : At(r, a)' <=> r = q
  BY <1>1
<1>3. QED
  BY <1>2 DEF OnePlace

-----------------------------------------------------------------------------
(* The reader.  An alert it comes to is handed over or excused, not both;  *)
(* no alert it has passed comes back.                                      *)

LEMMA UnreadAtNext ==
  ASSUME TypeOK, LogInv, files' = files, NEW d \in Days, NEW k \in DOMAIN files[d]
  PROVE  Unread(files[d][k])' <=> d > rday' \/ (d = rday' /\ (ropen' => rpos' <= 2 * k - 2))
<1>1. k \in Alerts
  <2>1. k \in 1 .. Len(files[d]) /\ Len(files[d]) <= written /\ Len(files[d]) \in Nat /\ written \in Nat
    BY LogTypes DEF LogInv
  <2>2. k \in 1 .. written
    BY <2>1
  <2>3. QED
    BY <2>2, LogTypes
<1>2. \A e \in Days, j \in Alerts : j \in DOMAIN files[e] /\ files[e][j] = files[d][k] => e = d /\ j = k
  BY DEF LogInv
<1>3. QED
  BY <1>1, <1>2 DEF Unread

LEMMA OpenedAt ==
  ASSUME LogInv, NEW d \in Days, NEW k \in DOMAIN files[d], NEW e \in Days
  PROVE  files[d][k] \in Opened(e) <=> d = e
BY DEF LogInv, Opened

LEMMA TornAt ==
  ASSUME LogInv, NEW d \in Days, NEW k \in DOMAIN files[d], NEW e \in Days, NEW end
  PROVE  files[d][k] \in Torn(e, end) <=> d = e /\ end = 2 * k - 1
BY DEF LogInv, Torn

(* Where alerts go when the reader moves and excuses the alerts of S.      *)
LEMMA ReaderMoves ==
  ASSUME PlaceInv, al = None, UNCHANGED <<writer, maild>>,
         NEW S, excused' = excused \cup S,
         \A a \in 1 .. written : kind[a].mail =>
            /\ Unread(a)' => Unread(a)
            /\ Unread(a) /\ ~ Unread(a)' => a \in S \/ a = al'
            /\ a \in S => a \in excused \/ (Unread(a) /\ ~ Unread(a)')
            /\ a = al' => Unread(a) /\ ~ Unread(a)' /\ a \notin S
  PROVE  PlaceInv'
<1> SUFFICES ASSUME NEW a \in 1 .. written, kind[a].mail
             PROVE  OnePlace(a)'
  BY DEF PlaceInv, writer
<1>1. OnePlace(a)
  BY DEF PlaceInv
<1>2. /\ At("log", a) <=> Unread(a)
      /\ At("excused", a) <=> a \in excused
      /\ At("read", a) <=> a = al
      /\ At("log", a)' <=> Unread(a)'
      /\ At("excused", a)' <=> a \in excused'
      /\ At("read", a)' <=> a = al'
  BY DEF At
<1>3. \A q \in {"saved", "list", "child", "end"} : At(q, a)' <=> At(q, a)
  BY DEF At, maild, MailsOf
<1>4. a # None
  BY DEF None
<1>5. CASE Unread(a) /\ ~ Unread(a)' /\ a = al'
  <2>1. \A r \in PlaceNames \ {"log", "read"} : At(r, a)' => At(r, a)
    BY <1>2, <1>3, <1>5 DEF PlaceNames
  <2>2. QED
    BY <1>1, <1>2, <1>5, <2>1, Moves DEF PlaceNames
<1>6. CASE Unread(a) /\ ~ Unread(a)' /\ a # al'
  <2>1. \A r \in PlaceNames \ {"log", "excused"} : At(r, a)' => At(r, a)
    BY <1>2, <1>3, <1>6 DEF PlaceNames
  <2>2. QED
    BY <1>1, <1>2, <1>6, <2>1, Moves DEF PlaceNames
<1>7. CASE ~ (Unread(a) /\ ~ Unread(a)')
  <2>1. a # al'
    BY <1>7
  <2>2. \A q \in PlaceNames : At(q, a)' <=> At(q, a)
    BY <1>2, <1>3, <1>4, <1>7, <2>1 DEF PlaceNames
  <2>3. QED
    BY <1>1, <2>2, Stays
<1>8. QED
  BY <1>5, <1>6, <1>7

(* What maild keeps does not depend on the reader.                         *)
LEMMA MaildKept ==
  ASSUME IInv, UNCHANGED <<kind, written, maild>>
  PROVE  UsedFallsBehind' /\ KeptInv' /\ ServedInv' /\ AloneInv'
BY DEF IInv, UsedFallsBehind, KeptInv, ServedInv, AloneInv, MatchedAreServed, NotAlone, MailsOf,
       Priority, maild

(* The same by the places in the files.                                    *)
Logged == UNION {Opened(d) : d \in Days}

LEMMA ReaderMovesAt ==
  ASSUME IInv, al = None, UNCHANGED <<writer, maild>>,
         NEW S, excused' = excused \cup S, S \subseteq Logged, al' \in {None} \cup Logged,
         \A d \in Days : \A k \in DOMAIN files[d] : kind[files[d][k]].mail =>
            /\ Unread(files[d][k])' => Unread(files[d][k])
            /\ Unread(files[d][k]) /\ ~ Unread(files[d][k])'
                 => files[d][k] \in S \/ files[d][k] = al'
            /\ files[d][k] \in S
                 => files[d][k] \in excused \/ (Unread(files[d][k]) /\ ~ Unread(files[d][k])')
            /\ files[d][k] = al'
                 => Unread(files[d][k]) /\ ~ Unread(files[d][k])' /\ files[d][k] \notin S
  PROVE  PlaceInv'
<1>1. ASSUME NEW a \in 1 .. written, kind[a].mail, a \in Logged
      PROVE  /\ Unread(a)' => Unread(a)
             /\ Unread(a) /\ ~ Unread(a)' => a \in S \/ a = al'
             /\ a \in S => a \in excused \/ (Unread(a) /\ ~ Unread(a)')
             /\ a = al' => Unread(a) /\ ~ Unread(a)' /\ a \notin S
  <2>1. PICK d \in Days : a \in Opened(d)
    BY <1>1 DEF Logged
  <2>2. PICK k \in DOMAIN files[d] : a = files[d][k]
    BY <2>1 DEF Opened
  <2>3. /\ Unread(files[d][k])' <=> Unread(a)'
        /\ Unread(files[d][k]) <=> Unread(a)
    BY <2>2 DEF Unread, writer
  <2>4. QED
    BY <1>1, <2>1, <2>2, <2>3
<1>2. ASSUME NEW a \in 1 .. written, a \notin Logged
      PROVE  ~ Unread(a) /\ ~ Unread(a)' /\ a \notin S /\ a # al'
  <2>1. \A d \in Days : \A k \in DOMAIN files[d] : a # files[d][k]
    BY <1>2 DEF Logged, Opened
  <2>2. a # None
    BY DEF None
  <2>3. QED
    BY <1>2, <2>1, <2>2 DEF Unread, writer
<1>3. PlaceInv
  BY DEF IInv
<1>4. QED
  BY <1>1, <1>2, <1>3, ReaderMoves

LEMMA LoggedTypes ==
  ASSUME IInv
  PROVE  /\ Logged \subseteq 1 .. written
         /\ \A d \in Days : Opened(d) \subseteq Logged
         /\ \A d \in Days, end \in Nat : Torn(d, end) \subseteq Logged
<1>1. \A d \in Days : \A k \in DOMAIN files[d] : files[d][k] \in 1 .. written
  BY LogTypes DEF IInv
<1>2. QED
  BY <1>1 DEF Logged, Opened, Torn

LEMMA ReaderTypes ==
  ASSUME IInv, UNCHANGED <<day, tick, writer, maild>>,
         rday' \in {rday, today}, ropen' \in BOOLEAN, rpos' \in Nat, rpos' <= Size(rday'),
         rpc' \in {"idle", "poll", "done"}, al' \in {None} \cup Logged,
         NEW S, S \subseteq Logged, excused' = excused \cup S
  PROVE  TypeOK' /\ LogInv'
<1>1. Logged \subseteq 1 .. written
  BY LoggedTypes
<1>2. rday' \in Days /\ rday' <= today
  BY DEF IInv, TypeOK, QueueTypeOK, LogInv, Days
<1>3. Size(rday') \in Nat /\ Size(rday') <= 2 * MaxAlerts
  BY <1>2, LogTypes DEF IInv
<1>4. rpos' \in 0 .. 2 * MaxAlerts
  BY <1>3, AlertQueueAssumption
<1>5. TypeOK'
  <2>1. TypeOK
    BY DEF IInv
  <2>2. QueueTypeOK'
    BY <1>1, <1>2, <1>4, <2>1 DEF TypeOK, QueueTypeOK, writer
  <2>3. QED
    BY <2>1, <2>2 DEF TypeOK, maild
<1>6. LogInv'
  BY <1>2 DEF IInv, LogInv, writer, maild
<1>7. QED
  BY <1>5, <1>6

(* The reader hands an alert over: alert k of its file.                    *)
LEMMA HandOverKeeps ==
  ASSUME IInv, ropen, al = None, UNCHANGED <<day, tick, writer, maild>>,
         NEW k \in DOMAIN files[rday],
         rpos <= 2 * k - 2, 2 * k <= Size(rday), kind[files[rday][k]].mail,
         \A j \in DOMAIN files[rday] :
            rpos <= 2 * j - 2 /\ kind[files[rday][j]].mail => k <= j,
         rday' = rday, ropen' = TRUE, rpos' = 2 * k, rpc' = "done",
         al' = files[rday][k], excused' = excused
  PROVE  IInv'
<1> DEFINE S == {}
<1>1. /\ TypeOK /\ LogInv /\ ropen /\ al = None
      /\ rday \in Days /\ rpos \in Nat /\ rpos <= Size(rday) /\ ropen' = TRUE
      /\ rday' = rday /\ Size(rday) \in Nat
  <2>1. TypeOK /\ LogInv /\ ReaderInv
    BY DEF IInv
  <2>2. rday \in Days /\ rpos \in Nat /\ rpos <= Size(rday)
    BY <2>1 DEF TypeOK, QueueTypeOK, ReaderInv
  <2>3. QED
    BY <2>1, <2>2, LogTypes
<1>2. /\ files' = files /\ kind' = kind /\ written' = written
      /\ \A d : Size(d)' = Size(d)
  BY DEF writer, Size
<1>3. /\ k \in Nat /\ k \in 1 .. Len(files[rday]) /\ Len(files[rday]) \in Nat
      /\ files[rday][k] \in 1 .. written /\ files[rday][k] # None
      /\ files[rday][k] \in Logged
  <2>1. /\ k \in 1 .. Len(files[rday]) /\ Len(files[rday]) \in Nat
        /\ files[rday][k] \in 1 .. written
    BY <1>1, LogTypes
  <2>2. files[rday][k] \in Opened(rday)
    BY DEF Opened
  <2>3. QED
    BY <1>1, <2>1, <2>2, LoggedTypes DEF None
<1>4. excused' = excused \cup S
  OBVIOUS
<1>5. TypeOK' /\ LogInv'
  <2>1. rpos' \in Nat /\ rpos' <= Size(rday)
    BY <1>3, <1>4
  <2>2. S \subseteq Logged
    OBVIOUS
  <2> HIDE DEF S
  <2>3. QED
    BY <1>1, <1>3, <1>4, <2>1, <2>2, ReaderTypes
<1>6. ASSUME NEW d \in Days, NEW j \in DOMAIN files[d], kind[files[d][j]].mail
      PROVE  /\ Unread(files[d][j])' => Unread(files[d][j])
             /\ Unread(files[d][j]) /\ ~ Unread(files[d][j])' => files[d][j] = al'
             /\ files[d][j] = al' => Unread(files[d][j]) /\ ~ Unread(files[d][j])'
  <2>1. /\ j \in Nat /\ j \in 1 .. Len(files[d]) /\ Len(files[d]) \in Nat
        /\ d \in Nat /\ rday \in Nat
    <3>1. j \in 1 .. Len(files[d]) /\ Len(files[d]) \in Nat
      BY <1>1, LogTypes
    <3>2. d \in Nat /\ rday \in Nat
      BY <1>1 DEF Days
    <3>3. QED
      BY <3>1, <3>2
  <2>2. Unread(files[d][j]) <=> d > rday \/ (d = rday /\ rpos <= 2 * j - 2)
    BY <1>1, UnreadAt
  <2>3. Unread(files[d][j])' <=> d > rday \/ (d = rday /\ 2 * k <= 2 * j - 2)
    BY <1>1, <1>2, <1>4, UnreadAtNext
  <2>4. files[d][j] = al' <=> d = rday /\ j = k
    BY <1>1, <1>4 DEF LogInv
  <2>5. d = rday /\ rpos <= 2 * j - 2 => k <= j
    BY <1>6
  <2>6. rpos <= 2 * k - 2
    OBVIOUS
  <2>7. QED
    BY <1>1, <1>3, <2>1, <2>2, <2>3, <2>4, <2>5, <2>6
<1>7. PlaceInv'
  <2>1. S \subseteq Logged /\ \A x : x \notin S
    OBVIOUS
  <2> HIDE DEF S
  <2>2. QED
    BY <1>1, <1>3, <1>4, <1>6, <2>1, ReaderMovesAt
<1>8. ReaderInv'
  <2>1. \A j \in DOMAIN files[rday] : 2 * k # 2 * j - 1
    <3>1. \A j \in DOMAIN files[rday] : j \in Nat
      BY <1>1, LogTypes, SMTT(30)
    <3>2. QED
      BY <1>3, <3>1
  <2>2. QED
    BY <1>1, <1>2, <1>4, <2>1 DEF ReaderInv
<1>9. QED
  BY <1>2, <1>5, <1>7, <1>8, MaildKept DEF IInv

(* A round of the loop of Read_FileMon.                                    *)
LEMMA PollKeeps ==
  ASSUME IInv, PollRound, UNCHANGED <<day, tick, writer, maild>>
  PROVE  IInv'
<1>1. /\ TypeOK /\ LogInv /\ ropen /\ al = None
      /\ rday \in Days /\ rpos \in Nat /\ rpos <= Size(rday) /\ ropen' = TRUE
      /\ rday' = rday
  BY DEF IInv, ReaderInv, PollRound, TypeOK, QueueTypeOK
<1>2. /\ files' = files /\ kind' = kind /\ written' = written
      /\ \A d : Size(d)' = Size(d)
  BY DEF writer, Size
<1>3. Size(rday) \in Nat /\ Logged \subseteq 1 .. written
  BY <1>1, LogTypes, LoggedTypes
<1>4. CASE /\ GetAlertData(rday, rpos) = [alert |-> None, pos |-> Size(rday)]
           /\ \A k \in DOMAIN files[rday] :
                rpos <= 2 * k - 2 /\ kind[files[rday][k]].mail => Size(rday) = 2 * k - 1
  <2> DEFINE S == Torn(rday, Size(rday))
  <2>1. /\ rpos' = Size(rday) /\ excused' = excused \cup S /\ al' = None
        /\ rpc' \in {"poll", "done"}
    BY <1>1, <1>4 DEF PollRound, Wait, Return
  <2>2. S \subseteq Logged
    BY <1>1, <1>3, LoggedTypes
  <2>3. TypeOK' /\ LogInv'
    BY <1>1, <1>3, <2>1, <2>2, ReaderTypes
  <2>4. ASSUME NEW d \in Days, NEW k \in DOMAIN files[d], kind[files[d][k]].mail
        PROVE  /\ Unread(files[d][k])' => Unread(files[d][k])
               /\ Unread(files[d][k]) /\ ~ Unread(files[d][k])' => files[d][k] \in S
               /\ files[d][k] \in S
                    => files[d][k] \in excused \/ (Unread(files[d][k]) /\ ~ Unread(files[d][k])')
               /\ files[d][k] # al'
    <3>1. k \in Nat /\ k \in 1 .. Len(files[d]) /\ Len(files[d]) \in Nat /\ 2 * Len(files[d]) - 1 <= Size(d)
          /\ files[d][k] # None
      BY <1>1, LogTypes DEF None
    <3>2. Unread(files[d][k]) <=> d > rday \/ (d = rday /\ rpos <= 2 * k - 2)
      BY <1>1, UnreadAt
    <3>3. Unread(files[d][k])' <=> d > rday \/ (d = rday /\ Size(rday) <= 2 * k - 2)
      BY <1>1, <1>2, <2>1, UnreadAtNext
    <3>4. files[d][k] \in S <=> d = rday /\ Size(rday) = 2 * k - 1
      BY <1>1, TornAt
    <3>5. d = rday /\ rpos = 2 * k - 1 => files[d][k] \in excused
      BY <1>1 DEF IInv, ReaderInv
    <3>6. d \in Nat /\ rday \in Nat
      BY <1>1 DEF Days
    <3> HIDE DEF S
    <3>7. d = rday /\ rpos <= 2 * k - 2 => Size(rday) = 2 * k - 1
      BY <1>4, <2>4
    <3>8. QED
      BY <1>1, <1>3, <2>1, <3>1, <3>2, <3>3, <3>4, <3>5, <3>6, <3>7
  <2>5. PlaceInv'
    BY <1>1, <2>1, <2>2, <2>4, ReaderMovesAt
  <2>6. ReaderInv'
    <3>1. \A k \in DOMAIN files[rday] : Size(rday) = 2 * k - 1 => files[rday][k] \in S
      BY <1>1, TornAt
    <3>2. QED
      BY <1>1, <1>2, <1>3, <2>1, <3>1 DEF ReaderInv
  <2>7. QED
    BY <1>2, <2>3, <2>5, <2>6, MaildKept DEF IInv
<1>5. CASE \E k \in DOMAIN files[rday] :
              /\ GetAlertData(rday, rpos) = [alert |-> files[rday][k], pos |-> 2 * k]
              /\ rpos <= 2 * k - 2 /\ 2 * k <= Size(rday) /\ kind[files[rday][k]].mail
              /\ \A j \in DOMAIN files[rday] :
                   rpos <= 2 * j - 2 /\ kind[files[rday][j]].mail => k <= j
  <2>1. PICK k \in DOMAIN files[rday] :
              /\ GetAlertData(rday, rpos) = [alert |-> files[rday][k], pos |-> 2 * k]
              /\ rpos <= 2 * k - 2 /\ 2 * k <= Size(rday) /\ kind[files[rday][k]].mail
              /\ \A j \in DOMAIN files[rday] :
                   rpos <= 2 * j - 2 /\ kind[files[rday][j]].mail => k <= j
    BY <1>5
  <2>2. files[rday][k] # None
    <3>1. files[rday][k] \in 1 .. written
      BY <1>1, LogTypes
    <3>2. QED
      BY <3>1 DEF None
  <2>3. /\ rpos' = 2 * k /\ excused' = excused /\ al' = files[rday][k] /\ rpc' = "done"
    BY <2>1, <2>2 DEF PollRound, Return
  <2>4. QED
    BY <1>1, <2>1, <2>3, HandOverKeeps
<1>6. QED
  BY <1>1, <1>4, <1>5, NextAlert

(* The day changes: what is left of the file, and the files passed over.   *)
Passed(d) == UNION {Opened(e) : e \in rday + 1 .. d - 1}

LEMMA NewDayKeeps ==
  ASSUME IInv, rpc = "idle", UNCHANGED <<day, tick, writer, maild>>,
         rday # today, Now.open, GetAlertData(rday, Now.pos).alert = None,
         NewDay(today, Now.excused \cup Torn(rday, GetAlertData(rday, Now.pos).pos))
  PROVE  IInv'
<1> DEFINE E0 == Now.excused
           S  == E0 \cup Torn(rday, Size(rday)) \cup
                 (IF today \in made THEN Opened(today) ELSE {}) \cup Passed(today)
<1>1. /\ TypeOK /\ LogInv /\ al = None
      /\ rday \in Days /\ today \in Days /\ rday < today /\ ropen \in BOOLEAN
      /\ rday \in Nat /\ today \in Nat
      /\ rpos \in Nat /\ (ropen => rpos <= Size(rday))
      /\ Logged \subseteq 1 .. written
      /\ \A d \in Days : Size(d) \in Nat
  <2>1. TypeOK /\ LogInv /\ ReaderInv
    BY DEF IInv
  <2>2. /\ rday \in Days /\ today \in Days /\ ropen \in BOOLEAN /\ rpos \in Nat
        /\ rday <= today
    BY <2>1 DEF TypeOK, QueueTypeOK, LogInv
  <2>3. rday \in Nat /\ today \in Nat
    BY <2>2, AlertQueueAssumption DEF Days
  <2>4. rday < today
    BY <2>2, <2>3
  <2>5. al = None /\ (ropen => rpos <= Size(rday))
    BY <2>1 DEF ReaderInv
  <2>6. QED
    BY <2>1, <2>2, <2>3, <2>4, <2>5, LogTypes, LoggedTypes
<1>2. /\ files' = files /\ kind' = kind /\ written' = written
      /\ \A d : Size(d)' = Size(d)
  BY DEF writer, Size
<1>3. /\ Now.pos \in Nat /\ Now.pos <= Size(rday)
      /\ ropen => Now.pos = rpos /\ E0 = {}
      /\ ~ ropen => rday \in made /\ E0 = Opened(rday)
  BY <1>1 DEF Now, Handle_Queue
<1>4. /\ GetAlertData(rday, Now.pos) = [alert |-> None, pos |-> Size(rday)]
      /\ \A k \in DOMAIN files[rday] :
           Now.pos <= 2 * k - 2 /\ kind[files[rday][k]].mail => Size(rday) = 2 * k - 1
  <2>1. \A k \in DOMAIN files[rday] : files[rday][k] # None
    <3>1. \A k \in DOMAIN files[rday] : files[rday][k] \in 1 .. written
      BY <1>1, LogTypes
    <3>2. QED
      BY <3>1 DEF None
  <2>2. QED
    BY <1>1, <1>3, <2>1, NextAlert
<1>5. /\ rday' = today /\ ropen' = (today \in made) /\ al' = None
      /\ rpos' = (IF today \in made THEN Size(today) ELSE 0)
      /\ rpc' = (IF today \in made THEN "poll" ELSE "done")
      /\ excused' = excused \cup S
  BY <1>1, <1>4 DEF NewDay, Handle_Queue, Wait, Return, Passed
<1>6. \A d \in Days, end \in Nat : Opened(d) \subseteq Logged /\ Torn(d, end) \subseteq Logged
  BY LoggedTypes
<1>7. S \subseteq Logged
  <2>1. E0 \subseteq Logged
    BY <1>1, <1>3, <1>6
  <2>2. Passed(today) \subseteq Logged
    <3>1. rday + 1 .. today - 1 \subseteq Days
      BY <1>1, AlertQueueAssumption DEF Days
    <3>2. QED
      BY <1>6, <3>1 DEF Passed, Logged
  <2>3. QED
    BY <1>1, <1>6, <2>1, <2>2
<1>8. TypeOK' /\ LogInv'
  <2>1. /\ rpos' \in Nat /\ rpos' <= Size(today) /\ Size(rday') = Size(today)
        /\ ropen' \in BOOLEAN /\ rpc' \in {"poll", "done"}
    BY <1>1, <1>5
  <2> HIDE DEF S
  <2>2. QED
    BY <1>1, <1>5, <1>7, <2>1, ReaderTypes
<1>9. ASSUME NEW d \in Days, NEW k \in DOMAIN files[d], kind[files[d][k]].mail
      PROVE  /\ Unread(files[d][k])' => Unread(files[d][k])
             /\ Unread(files[d][k]) /\ ~ Unread(files[d][k])' => files[d][k] \in S
             /\ files[d][k] \in S
                  => files[d][k] \in excused \/ (Unread(files[d][k]) /\ ~ Unread(files[d][k])')
             /\ files[d][k] # al'
  <2>1. /\ k \in Nat /\ k \in 1 .. Len(files[d]) /\ Len(files[d]) \in Nat
        /\ 2 * Len(files[d]) - 1 <= Size(d) /\ files[d][k] # None /\ files[d] # <<>> /\ d \in Nat
    <3>1. /\ written \in Nat /\ Len(files[d]) \in Nat /\ k \in 1 .. Len(files[d])
          /\ files[d][k] \in 1 .. written
          /\ files[d] = <<>> <=> Len(files[d]) = 0
          /\ 2 * Len(files[d]) - 1 <= Size(d)
      BY <1>1, LogTypes
    <3>2. k \in Nat /\ files[d][k] # None /\ Len(files[d]) # 0
      BY <3>1 DEF None
    <3>3. files[d] # <<>>
      BY <3>1, <3>2
    <3>4. d \in Nat
      BY DEF Days
    <3>5. QED
      BY <3>1, <3>2, <3>3, <3>4
  <2>2. d \in made
    BY <1>1, <2>1 DEF LogInv
  <2>3. Unread(files[d][k]) <=> d > rday \/ (d = rday /\ (ropen => rpos <= 2 * k - 2))
    BY <1>1, UnreadAt
  <2>4. Unread(files[d][k])' <=> d > today
    <3>1. Unread(files[d][k])' <=> d > rday' \/ (d = rday' /\ (ropen' => rpos' <= 2 * k - 2))
      BY <1>1, <1>2, UnreadAtNext
    <3>2. ASSUME d = today PROVE ropen' /\ ~ (rpos' <= 2 * k - 2)
      <4>1. ropen' /\ rpos' = Size(d)
        BY <1>5, <2>2, <3>2
      <4>2. Size(d) \in Nat
        BY <1>1
      <4>3. QED
        BY <2>1, <4>1, <4>2
    <3>3. QED
      BY <1>5, <3>1, <3>2
  <2>5. files[d][k] \in Torn(rday, Size(rday)) <=> d = rday /\ Size(rday) = 2 * k - 1
    BY <1>1, TornAt
  <2>6. files[d][k] \in E0 <=> ~ ropen /\ d = rday
    BY <1>1, <1>3, OpenedAt
  <2>7. files[d][k] \in (IF today \in made THEN Opened(today) ELSE {}) <=> d = today
    BY <1>1, <2>2, OpenedAt
  <2>8. files[d][k] \in Passed(today) <=> rday < d /\ d < today
    <3>1. rday + 1 .. today - 1 \subseteq Days
      BY <1>1, AlertQueueAssumption DEF Days
    <3>2. \A e \in rday + 1 .. today - 1 : files[d][k] \in Opened(e) <=> d = e
      BY <1>1, <3>1, OpenedAt
    <3>3. files[d][k] \in Passed(today) <=> d \in rday + 1 .. today - 1
      BY <3>2 DEF Passed
    <3>4. QED
      BY <1>1, <2>1, <3>3
  <2>9. files[d][k] \in S <=>
          \/ d = rday /\ (~ ropen \/ Size(rday) = 2 * k - 1)
          \/ rday < d /\ d <= today
    BY <1>1, <2>1, <2>5, <2>6, <2>7, <2>8
  <2>10. d = rday /\ ropen /\ rpos = 2 * k - 1 => files[d][k] \in excused
    BY DEF IInv, ReaderInv
  <2>11. d = rday /\ ropen /\ rpos <= 2 * k - 2 => Size(rday) = 2 * k - 1
    BY <1>3, <1>4, <1>9
  <2> HIDE DEF S, E0
  <2>12. QED
    BY <1>1, <1>5, <2>1, <2>3, <2>4, <2>9, <2>10, <2>11
<1>10. PlaceInv'
  <2> HIDE DEF S
  <2>1. QED
    BY <1>1, <1>5, <1>7, <1>9, ReaderMovesAt
<1>11. ReaderInv'
  <2>1. today \in made => \A k \in DOMAIN files[today] : files[today][k] \in S
    BY DEF Opened
  <2>2. /\ ropen' <=> today \in made
        /\ ropen' => rpos' = Size(today)
        /\ rpc' = "poll" => ropen'
    BY <1>5
  <2>3. Size(rday)' = Size(today) /\ Size(today) <= Size(today)
    <3>1. Size(rday)' = Size(today)
      BY <1>5 DEF Size, writer
    <3>2. QED
      BY <1>1, <3>1
  <2> HIDE DEF S
  <2>4. QED
    BY <1>1, <1>2, <1>5, <2>1, <2>2, <2>3 DEF ReaderInv
<1>12. QED
  BY <1>2, <1>8, <1>10, <1>11, MaildKept DEF IInv

(* Read_FileMon up to its loop.                                            *)
LEMMA ReadKeeps ==
  ASSUME IInv, Read_FileMon(today), UNCHANGED <<day, tick, writer, maild>>
  PROVE  IInv'
<1>1. /\ TypeOK /\ LogInv /\ ReaderInv /\ PlaceInv /\ rpc = "idle" /\ al = None
      /\ rday \in Days /\ rpos \in Nat /\ ropen \in BOOLEAN
      /\ (ropen => rpos <= Size(rday)) /\ Size(rday) \in Nat
  <2>1. TypeOK /\ LogInv /\ ReaderInv /\ PlaceInv /\ rpc = "idle"
    BY DEF IInv, Read_FileMon
  <2>2. rday \in Days /\ rpos \in Nat /\ ropen \in BOOLEAN
    BY <2>1 DEF TypeOK, QueueTypeOK
  <2>3. al = None /\ (ropen => rpos <= Size(rday))
    BY <2>1 DEF ReaderInv
  <2>4. QED
    BY <2>1, <2>2, <2>3, LogTypes
<1>2. /\ files' = files /\ kind' = kind /\ written' = written
      /\ \A d : Size(d)' = Size(d)
  BY DEF writer, Size
<1>3. /\ Now.pos \in Nat /\ (Now.open => Now.pos <= Size(rday))
      /\ ropen => Now.open /\ Now.pos = rpos /\ Now.excused = {}
      /\ ~ ropen /\ Now.open => Now.pos = Size(rday) /\ Now.excused = Opened(rday)
      /\ Now.open \in BOOLEAN
  <2>1. CASE ropen
    BY <1>1, <2>1 DEF Now
  <2>2. CASE ~ ropen
    <3>1. Now = [open |-> rday \in made, pos |-> IF rday \in made THEN Size(rday) ELSE 0,
                 excused |-> IF rday \in made THEN Opened(rday) ELSE {}]
      BY <2>2 DEF Now, Handle_Queue
    <3>2. QED
      BY <1>1, <2>2, <3>1
  <2>3. QED
    BY <2>1, <2>2
<1>4. CASE ~ Now.open
  <2>1. al' = None /\ rpc' = "done" /\ UNCHANGED <<rday, ropen, rpos, excused>>
    BY <1>4 DEF Read_FileMon, Return
  <2>2. ~ ropen
    BY <1>3, <1>4
  <2>3. QueueTypeOK'
    BY <1>1, <2>1 DEF TypeOK, QueueTypeOK, writer
  <2>4. TypeOK' /\ LogInv'
    BY <1>1, <2>1, <2>3 DEF TypeOK, LogInv, writer, maild
  <2>5. ReaderInv'
    BY <2>1, <2>2 DEF ReaderInv
  <2>6. PlaceInv'
    <3>1. SUFFICES ASSUME NEW a \in 1 .. written, kind[a].mail
                   PROVE  OnePlace(a)'
      BY <1>2 DEF PlaceInv
    <3>2. \A q \in PlaceNames : At(q, a)' <=> At(q, a)
      BY <1>1, <1>2, <2>1 DEF At, Unread, maild, MailsOf
    <3>3. QED
      BY <1>1, <3>1, <3>2, Stays DEF PlaceInv
  <2>7. QED
    BY <1>2, <2>4, <2>5, <2>6, MaildKept DEF IInv
<1>5. CASE Now.open /\ today # rday /\ GetAlertData(rday, Now.pos).alert = None
  BY <1>1, <1>5, NewDayKeeps DEF Read_FileMon
<1>6. CASE Now.open /\ today = rday
  <2> DEFINE S == Now.excused
  <2>1. /\ ropen' = TRUE /\ excused' = excused \cup S /\ rday' = rday
        /\ rpos' = Now.pos /\ rpc' = "poll" /\ al' = None
    BY <1>1, <1>6 DEF Read_FileMon, Wait
  <2>2. S \subseteq Logged
    BY <1>1, <1>3, <1>6, LoggedTypes
  <2>3. TypeOK' /\ LogInv'
    <3>1. rpos' \in Nat /\ rpos' <= Size(rday') /\ ropen' \in BOOLEAN
      BY <1>3, <1>6, <2>1
    <3> HIDE DEF S
    <3>2. QED
      BY <1>1, <2>1, <2>2, <3>1, ReaderTypes
  <2>4. ASSUME NEW d \in Days, NEW k \in DOMAIN files[d], kind[files[d][k]].mail
        PROVE  /\ Unread(files[d][k])' => Unread(files[d][k])
               /\ Unread(files[d][k]) /\ ~ Unread(files[d][k])' => files[d][k] \in S
               /\ files[d][k] \in S
                    => files[d][k] \in excused \/ (Unread(files[d][k]) /\ ~ Unread(files[d][k])')
               /\ files[d][k] # al'
    <3>1. /\ k \in Nat /\ k \in 1 .. Len(files[d]) /\ Len(files[d]) \in Nat
          /\ 2 * Len(files[d]) - 1 <= Size(d) /\ files[d][k] # None
      BY <1>1, LogTypes DEF None
    <3>2. d \in Nat /\ rday \in Nat
      BY <1>1 DEF Days
    <3>3. Unread(files[d][k]) <=> d > rday \/ (d = rday /\ (ropen => rpos <= 2 * k - 2))
      BY <1>1, UnreadAt
    <3>4. Unread(files[d][k])' <=> d > rday \/ (d = rday /\ Now.pos <= 2 * k - 2)
      BY <1>1, <1>2, <2>1, UnreadAtNext
    <3>5. files[d][k] \in S <=> d = rday /\ ~ ropen
      BY <1>1, <1>3, <1>6, OpenedAt
    <3>6. d = rday /\ ~ ropen => ~ (Now.pos <= 2 * k - 2)
      <4>1. CASE d = rday /\ ~ ropen
        <5>1. Now.pos = Size(d) /\ Size(d) \in Nat
          BY <1>1, <1>3, <1>6, <4>1
        <5>2. QED
          BY <3>1, <5>1
      <4>2. QED
        BY <4>1
    <3>7. ropen => Now.pos = rpos
      BY <1>3
    <3> HIDE DEF S
    <3>8. QED
      BY <1>1, <2>1, <3>1, <3>2, <3>3, <3>4, <3>5, <3>6, <3>7
  <2>5. PlaceInv'
    <3> HIDE DEF S
    <3>1. QED
      BY <1>1, <2>1, <2>2, <2>4, ReaderMovesAt
  <2>6. ReaderInv'
    <3>1. Size(rday)' = Size(rday) /\ files'[rday'] = files[rday]
      BY <2>1 DEF Size, writer
    <3>2. \A k \in DOMAIN files[rday] : Now.pos = 2 * k - 1 => files[rday][k] \in excused'
      <4>1. CASE ropen
        BY <1>1, <1>3, <2>1, <4>1 DEF ReaderInv
      <4>2. CASE ~ ropen
        BY <1>3, <1>6, <2>1, <4>2 DEF Opened
      <4>3. QED
        BY <4>1, <4>2
    <3>3. Now.pos <= Size(rday)
      BY <1>3, <1>6
    <3> HIDE DEF S
    <3>4. QED
      BY <2>1, <3>1, <3>2, <3>3 DEF ReaderInv
  <2>7. QED
    BY <1>2, <2>3, <2>5, <2>6, MaildKept DEF IInv
<1>7. CASE Now.open /\ today # rday /\ GetAlertData(rday, Now.pos).alert # None
  <2>1. PICK k \in DOMAIN files[rday] :
              /\ GetAlertData(rday, Now.pos) = [alert |-> files[rday][k], pos |-> 2 * k]
              /\ Now.pos <= 2 * k - 2 /\ 2 * k <= Size(rday) /\ kind[files[rday][k]].mail
              /\ \A j \in DOMAIN files[rday] :
                   Now.pos <= 2 * j - 2 /\ kind[files[rday][j]].mail => k <= j
    BY <1>1, <1>3, <1>7, NextAlert
  <2>2. k \in Nat
    <3>1. k \in 1 .. Len(files[rday]) /\ Len(files[rday]) \in Nat
      BY <1>1, <2>1, LogTypes
    <3>2. QED
      BY <3>1
  <2>3. ropen
    <3>1. ~ (Now.pos = Size(rday))
      BY <1>1, <2>1, <2>2
    <3>2. QED
      BY <1>1, <1>3, <1>7, <3>1
  <2>4. /\ rday' = rday /\ ropen' = TRUE /\ rpos' = 2 * k /\ rpc' = "done"
        /\ al' = files[rday][k] /\ excused' = excused
    <3>1. /\ ropen' = TRUE /\ excused' = excused \cup Now.excused /\ rday' = rday
          /\ rpos' = GetAlertData(rday, Now.pos).pos
          /\ Return(GetAlertData(rday, Now.pos).alert)
      BY <1>7 DEF Read_FileMon
    <3>2. Now.excused = {}
      BY <1>3, <2>3
    <3>3. QED
      BY <2>1, <3>1, <3>2 DEF Return
  <2>5. Now.pos = rpos
    BY <1>3, <2>3
  <2>6. QED
    BY <1>1, <2>1, <2>3, <2>4, <2>5, HandOverKeeps
<1>8. QED
  BY <1>4, <1>5, <1>6, <1>7

-----------------------------------------------------------------------------
(* analysisd and the clock.                                                *)

(* Alerts stay where they are if the log, the reader's place in it and     *)
(* what maild keeps of them do.                                            *)
LEMMA AllStay ==
  ASSUME IInv, UNCHANGED <<kind, written, files, rday, ropen, rpos, al, excused, smsg, list, ended>>,
         {c \in children' : c.end = "none"} = {c \in children : c.end = "none"}
  PROVE  PlaceInv'
<1>1. SUFFICES ASSUME NEW a \in 1 .. written, kind[a].mail
               PROVE  OnePlace(a)'
  BY DEF PlaceInv
<1>2. (\E c \in children' : c.end = "none" /\ a \in c.mails)
        <=> (\E c \in children : c.end = "none" /\ a \in c.mails)
  <2> DEFINE before == {c \in children : c.end = "none"}
             after  == {c \in children' : c.end = "none"}
  <2>1. after = before
    OBVIOUS
  <2>2. /\ (\E c \in children' : c.end = "none" /\ a \in c.mails) <=> \E c \in after : a \in c.mails
        /\ (\E c \in children : c.end = "none" /\ a \in c.mails) <=> \E c \in before : a \in c.mails
    OBVIOUS
  <2> HIDE DEF before, after
  <2>3. QED
    BY <2>1, <2>2
<1>3. \A q \in PlaceNames : At(q, a)' <=> At(q, a)
  BY <1>2 DEF At, Unread, MailsOf
<1>4. QED
  BY <1>1, <1>3, Stays DEF IInv, PlaceInv

(* A new day for analysisd, the rest of an alert, the clock.               *)
LEMMA ClockAndDayKeep ==
  ASSUME IInv, UNCHANGED maild,
         \/ (OS_GetLogLocation \/ OS_LogRest) /\ UNCHANGED <<day, tick, reader>>
         \/ Tick /\ UNCHANGED <<writer, reader, excused>>
  PROVE  IInv'
<1>1. TypeOK /\ LogInv /\ ReaderInv
  BY DEF IInv
<1>2. /\ UNCHANGED <<kind, written, files, rday, ropen, rpos, rpc, al, excused>>
      /\ children' = children /\ smsg' = smsg /\ list' = list /\ ended' = ended
  BY DEF OS_GetLogLocation, OS_LogRest, Tick, writer, reader, maild
<1>3. PlaceInv'
  BY <1>2, AllStay
<1>4. /\ day \in Nat /\ wday \in Nat /\ rday \in Nat /\ today \in Nat
      /\ rday \in Days /\ Size(rday) \in Nat /\ rpos \in Nat
  <2>1. day \in Days /\ wday \in Days /\ rday \in Days /\ today \in Days /\ rpos \in Nat
    BY <1>1 DEF TypeOK, QueueTypeOK
  <2>2. QED
    BY <1>1, <2>1, LogTypes DEF Days
<1>5. TypeOK' /\ LogInv' /\ Size(rday) <= Size(rday)' /\ Size(rday)' \in Nat
  <2>1. CASE OS_GetLogLocation /\ UNCHANGED <<day, tick, reader>>
    <3>1. wday' \in Days /\ made' \subseteq Days /\ wpc' = "event" /\ wpc = "idle"
      BY <1>1, <2>1 DEF OS_GetLogLocation, TypeOK, QueueTypeOK
    <3>2. TypeOK'
      BY <1>1, <1>2, <2>1, <3>1 DEF TypeOK, QueueTypeOK, reader, maild
    <3>3. ASSUME NEW d \in Days, files[d] # <<>>
          PROVE  d \in made' /\ d <= wday'
      <4>1. d \in made /\ d <= wday /\ wday <= day
        BY <1>1, <3>3 DEF LogInv
      <4>2. d \in Nat
        BY DEF Days
      <4>3. QED
        BY <1>4, <2>1, <3>3, <4>1, <4>2 DEF OS_GetLogLocation
    <3>4. wday' = day /\ day \in made' /\ day' = day /\ today' = today
      BY <2>1 DEF OS_GetLogLocation, maild
    <3>5. LogInv'
      BY <1>1, <1>2, <1>4, <3>1, <3>3, <3>4 DEF LogInv
    <3>6. Size(rday)' = Size(rday)
      BY <1>2, <3>1 DEF Size
    <3>7. QED
      BY <1>4, <3>2, <3>5, <3>6
  <2>2. CASE OS_LogRest /\ UNCHANGED <<day, tick, reader>>
    <3>1. wpc' = "idle" /\ wpc = "half" /\ UNCHANGED <<day, tick, wday, made, today>>
      BY <2>2 DEF OS_LogRest, maild
    <3>2. TypeOK'
      BY <1>1, <1>2, <3>1 DEF TypeOK, QueueTypeOK, maild
    <3>3. LogInv'
      BY <1>1, <1>2, <3>1 DEF LogInv
    <3>4. Size(rday) <= Size(rday)' /\ Size(rday)' \in Nat
      <4>1. Size(rday)' = 2 * Len(files[rday]) - 0
        BY <1>2, <3>1 DEF Size
      <4>2. Len(files[rday]) \in Nat /\ Size(rday) <= 2 * Len(files[rday])
        BY <1>1, <1>4, LogTypes
      <4>3. QED
        BY <1>4, <4>1, <4>2
    <3>5. QED
      BY <3>2, <3>3, <3>4
  <2>3. CASE Tick /\ UNCHANGED <<writer, reader, excused>>
    <3>1. day' \in Days /\ day <= day' /\ tick' \in BOOLEAN /\ UNCHANGED <<wpc, wday, made, today>>
      BY <1>1, <1>4, <2>3 DEF Tick, writer, maild, TypeOK, QueueTypeOK, Days
    <3>2. day' \in Nat
      BY <3>1 DEF Days
    <3>3. TypeOK'
      BY <1>1, <1>2, <3>1 DEF TypeOK, QueueTypeOK, maild
    <3>4. LogInv'
      BY <1>1, <1>2, <1>4, <3>1, <3>2 DEF LogInv
    <3>5. Size(rday)' = Size(rday)
      BY <1>2, <3>1 DEF Size
    <3>6. QED
      BY <1>4, <3>3, <3>4, <3>5
  <2>4. QED
    BY <2>1, <2>2, <2>3
<1>6. ReaderInv'
  <2>1. ropen => rpos <= Size(rday)'
    BY <1>1, <1>4, <1>5 DEF ReaderInv
  <2>2. QED
    BY <1>1, <1>2, <2>1 DEF ReaderInv
<1>7. QED
  BY <1>2, <1>3, <1>5, <1>6, MaildKept DEF IInv

(* An alert is written: the reader has it before it, or has left its day.  *)
LEMMA LogKeeps ==
  ASSUME IInv, OS_Log, UNCHANGED <<day, tick, reader, maild>>
  PROVE  IInv'
<1>1. /\ TypeOK /\ LogInv /\ ReaderInv /\ KeptInv
      /\ written \in Nat /\ wday \in Days /\ rday \in Days /\ rpos \in Nat
      /\ wpc = "event" /\ kind' = kind
  <2>1. TypeOK /\ LogInv /\ ReaderInv /\ KeptInv
    BY DEF IInv
  <2>2. wday \in Days /\ rday \in Days /\ rpos \in Nat
    BY <2>1 DEF TypeOK, QueueTypeOK
  <2>3. QED
    BY <2>1, <2>2, LogTypes DEF OS_Log
<1>2. wday \in Nat /\ rday \in Nat
  BY <1>1 DEF Days
<1>3. \A d \in Days : Size(d) = 2 * Len(files[d]) /\ Len(files[d]) \in Nat
  <2>1. ASSUME NEW d \in Days PROVE Size(d) = 2 * Len(files[d]) /\ Len(files[d]) \in Nat
    <3>1. Len(files[d]) \in Nat
      BY <1>1, LogTypes
    <3>2. Size(d) = 2 * Len(files[d]) - 0
      BY <1>1 DEF Size
    <3>3. QED
      BY <3>1, <3>2
  <2>2. QED
    BY <2>1
<1>4. CASE wpc' = "idle" /\ UNCHANGED <<written, files, excused, kind, wday, made>>
  <2>1. UNCHANGED <<kind, written, files, rday, ropen, rpos, al, rpc, excused, smsg, list, ended,
                    children, day, today, tick>>
    BY <1>4 DEF reader, maild
  <2>2. PlaceInv'
    BY <2>1, AllStay
  <2>3. TypeOK'
    BY <1>1, <1>4, <2>1 DEF TypeOK, QueueTypeOK, maild
  <2>4. LogInv'
    BY <1>1, <1>4, <2>1 DEF LogInv
  <2>5. Size(rday)' = Size(rday)
    <3>1. Size(rday)' = 2 * Len(files[rday]) - 0
      BY <1>4, <2>1 DEF Size
    <3>2. QED
      BY <1>1, <1>3, <3>1
  <2>6. ReaderInv'
    BY <1>1, <2>1, <2>5 DEF ReaderInv
  <2>7. QED
    BY <2>1, <2>2, <2>3, <2>4, <2>6, MaildKept DEF IInv
<1>5. CASE /\ written < MaxAlerts
           /\ written' = written + 1 /\ wpc' \in {"idle", "half"}
           /\ files' = [files EXCEPT ![wday] = Append(@, written')]
           /\ excused' = (IF wday < rday THEN excused \cup {written'} ELSE excused)
           /\ UNCHANGED <<kind, wday, made>>
  <2> DEFINE n == Len(files[wday])
  <2>0. PICK w \in Nat : w = written + 1
    BY <1>1
  <2>1. /\ UNCHANGED <<kind, wday, made, rday, ropen, rpos, al, rpc, smsg, list, ended,
                       children, day, today, tick, pc, used, batches>>
        /\ written' = w
    BY <1>5, <2>0 DEF reader, maild
  <2>2. /\ 1 .. written \subseteq 1 .. w /\ w \notin 1 .. written /\ w \in 1 .. w
        /\ w \in Nat /\ w <= MaxAlerts /\ w # None
    BY <1>1, <1>5, <2>0, AlertQueueAssumption DEF None
  <2>3. ASSUME NEW d \in Days
        PROVE  /\ files[d] \in Seq(1 .. w) /\ files'[d] \in Seq(1 .. w)
               /\ d # wday => files'[d] = files[d]
               /\ d = wday => /\ Len(files'[d]) = n + 1
                              /\ files'[d][n + 1] = w
                              /\ \A k \in 1 .. n : files'[d][k] = files[d][k]
               /\ DOMAIN files[d] = 1 .. Len(files[d]) /\ Len(files[d]) \in Nat
               /\ DOMAIN files'[d] = 1 .. Len(files'[d])
    <3>1. files[d] \in Seq(1 .. written) /\ files \in [Days -> Seq(1 .. written)]
      BY <1>1 DEF LogInv
    <3>2. files[d] \in Seq(1 .. w)
      BY <2>2, <3>1, SeqMonotonic
    <3>3. files'[d] = (IF d = wday THEN Append(files[d], w) ELSE files[d])
      BY <1>5, <2>1, <3>1
    <3>4. /\ Append(files[d], w) \in Seq(1 .. w)
          /\ Len(Append(files[d], w)) = Len(files[d]) + 1
          /\ \A k \in 1 .. Len(files[d]) : Append(files[d], w)[k] = files[d][k]
          /\ Append(files[d], w)[Len(files[d]) + 1] = w
      BY <2>2, <3>2, AppendProperties
    <3>5. files'[d] \in Seq(1 .. w)
      BY <3>2, <3>3, <3>4
    <3>6. QED
      BY <3>2, <3>3, <3>4, <3>5, LenProperties
  <2>4. ASSUME NEW d \in Days, NEW k \in DOMAIN files'[d]
        PROVE  \/ k \in DOMAIN files[d] /\ files'[d][k] = files[d][k] /\ files[d][k] # w
               \/ d = wday /\ k = n + 1 /\ files'[d][k] = w
    <3>1. CASE d # wday
      <4>1. k \in DOMAIN files[d] /\ files'[d][k] = files[d][k]
        BY <2>3, <2>4, <3>1
      <4>2. files[d][k] \in 1 .. written
        BY <1>1, <4>1, LogTypes
      <4>3. QED
        BY <2>2, <4>1, <4>2
    <3>2. CASE d = wday
      <4>1. k \in 1 .. n + 1 /\ n \in Nat /\ DOMAIN files[d] = 1 .. n
        BY <2>3, <2>4, <3>2
      <4>2. CASE k = n + 1
        BY <2>3, <3>2, <4>2
      <4>3. CASE k # n + 1
        <5>1. k \in 1 .. n
          BY <4>1, <4>3
        <5>2. files'[d][k] = files[d][k] /\ k \in DOMAIN files[d]
          BY <2>3, <3>2, <4>1, <5>1
        <5>3. files[d][k] \in 1 .. written
          BY <1>1, <5>2, LogTypes
        <5>4. QED
          BY <2>2, <5>2, <5>3
      <4>4. QED
        BY <4>2, <4>3
    <3>3. QED
      BY <3>1, <3>2
  <2>5. \A d \in Days : \A k \in DOMAIN files[d] : k \in DOMAIN files'[d] /\ files'[d][k] = files[d][k]
    <3>1. ASSUME NEW d \in Days, NEW k \in DOMAIN files[d]
          PROVE  k \in DOMAIN files'[d] /\ files'[d][k] = files[d][k]
      <4>1. CASE d # wday
        BY <2>3, <4>1
      <4>2. CASE d = wday
        <5>1. k \in 1 .. n /\ n \in Nat /\ DOMAIN files'[d] = 1 .. n + 1
          BY <2>3, <4>2
        <5>2. k \in 1 .. n + 1
          BY <5>1
        <5>3. QED
          BY <2>3, <4>2, <5>1, <5>2
      <4>3. QED
        BY <4>1, <4>2
    <3>2. QED
      BY <3>1
  <2>6. LogInv'
    <3>1. files' \in [Days -> Seq(1 .. written')]
      <4>1. files' = [d \in Days |-> files'[d]]
        BY <1>1, <1>5 DEF LogInv
      <4>2. QED
        BY <2>1, <2>3, <4>1
    <3>2. \A d \in Days : files'[d] # <<>> => d \in made /\ d <= wday
      <4>1. wday \in made /\ wday <= wday
        BY <1>1, <1>2 DEF LogInv
      <4>2. QED
        BY <1>1, <2>3, <4>1 DEF LogInv
    <3>3. \A d \in Days : Len(files'[d]) <= w
      <4>1. \A d \in Days : Len(files[d]) <= written
        BY <1>1 DEF LogInv
      <4>2. ASSUME NEW d \in Days PROVE Len(files'[d]) <= w
        <5>1. CASE d = wday
          BY <1>1, <2>0, <2>3, <4>1, <5>1, SMTT(30)
        <5>2. CASE d # wday
          <6>1. files'[d] = files[d] /\ Len(files[d]) \in Nat
            BY <2>3, <5>2
          <6>2. QED
            BY <1>1, <2>0, <4>1, <6>1
        <5>3. QED
          BY <5>1, <5>2
      <4>3. QED
        BY <4>2
    <3>4. ASSUME NEW d \in Days, NEW e \in Days, NEW j \in DOMAIN files'[d],
                 NEW k \in DOMAIN files'[e], files'[d][j] = files'[e][k]
          PROVE  d = e /\ j = k
      <4>1. \/ j \in DOMAIN files[d] /\ files'[d][j] = files[d][j] /\ files[d][j] # w
            \/ d = wday /\ j = n + 1 /\ files'[d][j] = w
        BY <2>4
      <4>2. \/ k \in DOMAIN files[e] /\ files'[e][k] = files[e][k] /\ files[e][k] # w
            \/ e = wday /\ k = n + 1 /\ files'[e][k] = w
        BY <2>4
      <4>3. QED
        BY <1>1, <3>4, <4>1, <4>2 DEF LogInv
    <3>5. wpc' = "half" => files'[wday] # <<>>
      <4>1. Len(files'[wday]) = n + 1 /\ n \in Nat
        BY <1>1, <2>3
      <4>2. Len(<<>>) = 0
        BY EmptySeq
      <4>3. QED
        BY <4>1, <4>2
    <3>6. UNCHANGED <<made, wday, day, today, rday>>
      BY <2>1
    <3>7. QED
      BY <1>1, <2>1, <3>1, <3>2, <3>3, <3>4, <3>5, <3>6 DEF LogInv
  <2>7. TypeOK'
    <3>1. w \in 0 .. MaxAlerts
      BY <1>1, <2>0, <1>5, <2>2, AlertQueueAssumption
    <3>2. excused \subseteq 1 .. written /\ excused' \subseteq 1 .. w
      BY <1>1, <1>5, <2>2 DEF TypeOK, QueueTypeOK
    <3>3. al \in {None} \cup 1 .. w
      BY <1>1, <2>2 DEF TypeOK, QueueTypeOK
    <3>4. wpc' \in {"idle", "event", "half"}
      BY <1>5
    <3>5. QueueTypeOK'
      BY <1>1, <2>1, <2>3, <3>1, <3>2, <3>3, <3>4 DEF TypeOK, QueueTypeOK
    <3>6. QED
      BY <1>1, <2>1, <3>5 DEF TypeOK, maild
  <2>8. KeptInv'
    <3>1. list \in Seq(1 .. w)
      BY <1>1, <2>2, SeqMonotonic DEF KeptInv
    <3>2. /\ smsg \in {None} \cup 1 .. w /\ ended \subseteq 1 .. w
          /\ \A c \in children : c.mails \subseteq 1 .. w
      BY <1>1, <2>2 DEF KeptInv
    <3>3. QED
      BY <1>1, <2>1, <3>1, <3>2 DEF KeptInv
  <2>9. UsedFallsBehind' /\ ServedInv' /\ AloneInv'
    BY <2>1, SMTT(30) DEF IInv, UsedFallsBehind, ServedInv, AloneInv, MatchedAreServed, NotAlone, MailsOf,
                Priority, maild
  <2>10. ReaderInv'
    <3>1. rpos <= 2 * Len(files[rday]) \/ ~ ropen
      BY <1>1, <1>3 DEF ReaderInv
    <3>2. ropen => rpos <= Size(rday)'
      <4>1. CASE rday # wday
        <5>1. Size(rday)' = 2 * Len(files[rday]) - 0
          BY <1>1, <1>5, <2>1, <2>3, <4>1 DEF Size
        <5>2. QED
          BY <1>1, <1>3, <3>1, <5>1
      <4>2. CASE rday = wday
        <5>1. Len(files'[rday]) = n + 1 /\ n \in Nat /\ (rpos <= 2 * n \/ ~ ropen)
          BY <1>1, <2>3, <3>1, <4>2
        <5>2. Size(rday)' = 2 * (n + 1) - (IF wpc' = "half" THEN 1 ELSE 0)
          BY <2>1, <4>2, <5>1 DEF Size
        <5>3. Size(rday)' \in {2 * (n + 1) - 1, 2 * (n + 1) - 0}
          BY <5>2
        <5>4. QED
          BY <1>1, <5>1, <5>3
      <4>3. QED
        BY <4>1, <4>2
    <3>3. ASSUME ropen, NEW k \in DOMAIN files'[rday], rpos = 2 * k - 1
          PROVE  files'[rday][k] \in excused'
      <4>1. k \in DOMAIN files[rday]
        <5>1. CASE rday = wday
          <6>1. DOMAIN files[rday] = 1 .. n /\ n \in Nat /\ k \in 1 .. n + 1
            BY <1>1, <2>3, <3>3, <5>1
          <6>2. rpos <= 2 * n
            BY <3>1, <3>3, <5>1
          <6>3. k \in 1 .. n
            BY <3>3, <6>1, <6>2
          <6>4. QED
            BY <6>1, <6>3
        <5>2. CASE rday # wday
          BY <1>1, <2>3, <3>3, <5>2
        <5>3. QED
          BY <5>1, <5>2
      <4>2. files'[rday][k] = files[rday][k]
        BY <1>1, <2>5, <4>1
      <4>3. files[rday][k] \in excused
        BY <1>1, <3>3, <4>1 DEF ReaderInv
      <4>4. QED
        BY <1>5, <4>2, <4>3
    <3>4. QED
      BY <1>1, <2>1, <3>2, <3>3 DEF ReaderInv
  <2>11. PlaceInv'
    <3>1. SUFFICES ASSUME NEW a \in 1 .. w, kind[a].mail
                   PROVE  OnePlace(a)'
      BY <2>1 DEF PlaceInv
    <3>2. CASE a # w
      <4>1. a \in 1 .. written /\ a # w
        BY <1>1, <2>0, <3>2
      <4>2. Unread(a)' <=> Unread(a)
        <5>1. ASSUME NEW d \in Days, NEW k \in Alerts
              PROVE  (k \in DOMAIN files'[d] /\ files'[d][k] = a) <=> (k \in DOMAIN files[d] /\ files[d][k] = a)
          BY <2>4, <2>5, <4>1
        <5>2. QED
          BY <2>1, <5>1 DEF Unread
      <4>3. a \in excused' <=> a \in excused
        BY <1>5, <2>1, <4>1
      <4>4. \A q \in PlaceNames : At(q, a)' <=> At(q, a)
        BY <2>1, <4>2, <4>3 DEF At, MailsOf
      <4>5. QED
        BY <3>1, <4>1, <4>4, Stays DEF IInv, PlaceInv
    <3>3. CASE a = w
      <4>1. Unread(w)' <=> wday >= rday
        <5>1. n \in Nat /\ n + 1 \in Alerts /\ n + 1 \in DOMAIN files'[wday] /\ files'[wday][n + 1] = w
          <6>1. n \in Nat /\ n <= written
            BY <1>1, <1>3 DEF LogInv
          <6>2. n + 1 \in 1 .. MaxAlerts
            BY <1>1, <1>5, <6>1, AlertQueueAssumption
          <6>3. n + 1 \in 1 .. n + 1
            BY <6>1
          <6>4. QED
            BY <1>1, <2>3, <6>1, <6>2, <6>3 DEF Alerts
        <5>2. ASSUME NEW d \in Days, NEW k \in DOMAIN files'[d], files'[d][k] = w
              PROVE  d = wday /\ k = n + 1
          BY <2>4, <5>2
        <5>3. Unread(w)' <=> wday > rday \/ (wday = rday /\ (ropen => rpos <= 2 * (n + 1) - 2))
          BY <1>1, <2>1, <5>1, <5>2 DEF Unread
        <5>4. wday = rday /\ ropen => rpos <= 2 * (n + 1) - 2
          BY <1>1, <1>3, <5>1 DEF ReaderInv
        <5>5. QED
          BY <1>2, <5>3, <5>4
      <4>2. w \in excused' <=> wday < rday
        BY <1>1, <1>5, <2>1, <2>2 DEF TypeOK, QueueTypeOK
      <4>3. w # al /\ w # smsg /\ w \notin ended /\ \A c \in children : w \notin c.mails
        BY <1>1, <2>2 DEF TypeOK, QueueTypeOK, KeptInv
      <4>4. w \notin MailsOf(list)
        <5>1. \A i \in DOMAIN list : list[i] \in 1 .. written
          BY <1>1, ElementOfSeq, LenProperties DEF KeptInv
        <5>2. QED
          BY <2>2, <5>1 DEF MailsOf
      <4>5. MailsOf(list)' = MailsOf(list)
        BY <2>1 DEF MailsOf
      <4>6. /\ At("log", w)' <=> wday >= rday
            /\ At("excused", w)' <=> wday < rday
            /\ \A q \in PlaceNames \ {"log", "excused"} : ~ At(q, w)'
        <5>1. QED
          BY <2>1, <4>1, <4>2, <4>3, <4>4, <4>5 DEF At, PlaceNames
      <4>7. OnePlace(w)'
        <5>1. CASE wday >= rday
          <6>1. \A q \in PlaceNames : At(q, w)' <=> q = "log"
            BY <1>2, <4>6, <5>1 DEF PlaceNames
          <6>2. QED
            BY <6>1 DEF OnePlace, PlaceNames
        <5>2. CASE wday < rday
          <6>1. \A q \in PlaceNames : At(q, w)' <=> q = "excused"
            BY <1>2, <4>6, <5>2 DEF PlaceNames
          <6>2. QED
            BY <6>1 DEF OnePlace, PlaceNames
        <5>3. QED
          BY <1>2, <5>1, <5>2
      <4>8. QED
        BY <3>3, <4>7
    <3>4. QED
      BY <3>2, <3>3
  <2>12. QED
    BY <2>6, <2>7, <2>8, <2>9, <2>10, <2>11 DEF IInv
<1>6. QED
  BY <1>1, <1>4, <1>5 DEF OS_Log

-----------------------------------------------------------------------------
(* maild: the list of mails.                                               *)

(* A mail is added; the oldest one may go for it.                          *)
LEMMA Adds ==
  ASSUME TypeOK, UsedFallsBehind, KeptInv, NEW m \in 1 .. written, m \notin MailsOf(list),
         OS_AddMailtoList(m)
  PROVE  \E gone \in SUBSET MailsOf(list) :
           /\ ended' = ended \cup gone
           /\ MailsOf(list') = (MailsOf(list) \ gone) \cup {m}
           /\ list' \in Seq(1 .. written) /\ list' # <<>>
           /\ used' <= MAILLIST
           /\ used' = Len(list') - batches - 1
           /\ list = <<>> => Len(list') = 1
           /\ \A i, j \in DOMAIN list' : list'[i] = list'[j] => i = j
<1>1. /\ list \in Seq(1 .. written) /\ Len(list) \in Nat /\ DOMAIN list = 1 .. Len(list)
      /\ list = <<>> <=> Len(list) = 0
      /\ used \in Int /\ batches \in Nat /\ used <= MAILLIST
      /\ MAILLIST \in Nat \ {0}
  BY EmptySeq, LenProperties, MaildAssumption DEF KeptInv, TypeOK
<1>2. /\ Append(list, m) \in Seq(1 .. written)
      /\ Len(Append(list, m)) = Len(list) + 1
      /\ \A i \in 1 .. Len(list) : Append(list, m)[i] = list[i]
      /\ Append(list, m)[Len(list) + 1] = m
  BY <1>1, AppendProperties
<1>3. \A i \in 1 .. Len(list) : list[i] # m
  BY <1>1 DEF MailsOf
<1>4. \A i, j \in 1 .. Len(list) : list[i] = list[j] => i = j
  BY <1>1 DEF KeptInv
<1>5. CASE list' = Append(list, m) /\ ended' = ended
           /\ used' <= MAILLIST /\ used' = Len(list) - batches
  <2> DEFINE s == Append(list, m)
  <2>1. /\ DOMAIN s = 1 .. Len(list) + 1
        /\ \A i \in 1 .. Len(list) + 1 : i \in 1 .. Len(list) \/ i = Len(list) + 1
    BY <1>1, <1>2, LenProperties
  <2>2. MailsOf(s) = MailsOf(list) \cup {m}
    <3>1. \A i \in DOMAIN s : s[i] \in MailsOf(list) \cup {m}
      BY <1>1, <1>2, <2>1 DEF MailsOf
    <3>2. \A i \in 1 .. Len(list) : i \in DOMAIN s
      BY <1>1, <2>1
    <3>3. Len(list) + 1 \in DOMAIN s
      BY <1>1, <2>1
    <3> HIDE DEF s
    <3>4. QED
      BY <1>1, <1>2, <3>1, <3>2, <3>3 DEF MailsOf, s
  <2>3. \A i, j \in DOMAIN s : s[i] = s[j] => i = j
    BY <1>1, <1>2, <1>3, <1>4, <2>1
  <2>4. Len(s) = Len(list) + 1 /\ s # <<>>
    BY <1>1, <1>2, EmptySeq
  <2>5. /\ ended' = ended \cup {}
        /\ MailsOf(list') = (MailsOf(list) \ {}) \cup {m}
        /\ list' \in Seq(1 .. written) /\ list' # <<>>
        /\ used' = Len(list') - batches - 1
        /\ list = <<>> => Len(list') = 1
        /\ \A i, j \in DOMAIN list' : list'[i] = list'[j] => i = j
    BY <1>1, <1>2, <1>5, <2>2, <2>3, <2>4
  <2>6. QED
    BY <1>5, <2>5
<1>6. CASE /\ list # <<>> /\ list' = Append(Tail(list), m) /\ ended' = ended \cup {Head(list)}
           /\ used' = used /\ used = Len(list) - batches - 1
  <2> DEFINE t == Tail(list)
             s == Append(t, m)
  <2>1. /\ t \in Seq(1 .. written) /\ Len(t) = Len(list) - 1
        /\ \A i \in 1 .. Len(list) - 1 : t[i] = list[i + 1]
        /\ Head(list) = list[1]
    BY <1>1, <1>6, HeadTailProperties
  <2>2. Len(t) \in Nat /\ Len(list) = Len(t) + 1
    BY <1>1, <1>6, <2>1
  <2> HIDE DEF t
  <2>3. /\ s \in Seq(1 .. written)
        /\ Len(s) = Len(t) + 1
        /\ \A i \in 1 .. Len(t) : s[i] = t[i]
        /\ s[Len(t) + 1] = m
    BY <2>1, AppendProperties
  <2>4. DOMAIN s = 1 .. Len(list)
    BY <2>2, <2>3, LenProperties
  <2>5. \A i \in 1 .. Len(list) : (i + 1 \in 1 .. Len(list) /\ s[i] = list[i + 1]) \/ (i = Len(list) /\ s[i] = m)
    <3>1. ASSUME NEW i \in 1 .. Len(list)
          PROVE  (i + 1 \in 1 .. Len(list) /\ s[i] = list[i + 1]) \/ (i = Len(list) /\ s[i] = m)
      <4>1. CASE i = Len(list)
        BY <2>2, <2>3, <4>1
      <4>2. CASE i # Len(list)
        <5>1. i \in 1 .. Len(t) /\ i \in 1 .. Len(list) - 1 /\ i + 1 \in 1 .. Len(list)
          BY <2>2, <4>2
        <5>2. QED
          BY <2>1, <2>3, <5>1
      <4>3. QED
        BY <4>1, <4>2
    <3>2. QED
      BY <3>1
  <2> HIDE DEF s
  <2>6. \A i, j \in DOMAIN s : s[i] = s[j] => i = j
    <3>1. SUFFICES ASSUME NEW i \in 1 .. Len(list), NEW j \in 1 .. Len(list), s[i] = s[j]
                   PROVE  i = j
      BY <2>4
    <3>2. CASE i + 1 \in 1 .. Len(list) /\ s[i] = list[i + 1]
      <4>1. j + 1 \in 1 .. Len(list) /\ s[j] = list[j + 1]
        BY <1>3, <2>5, <3>1, <3>2
      <4>2. i + 1 = j + 1
        BY <1>4, <3>1, <3>2, <4>1
      <4>3. QED
        BY <2>2, <4>2
    <3>3. CASE i = Len(list) /\ s[i] = m
      BY <1>3, <2>5, <3>1, <3>3
    <3>4. QED
      BY <2>5, <3>2, <3>3
  <2>7. MailsOf(s) = (MailsOf(list) \ {Head(list)}) \cup {m}
    <3>1. ASSUME NEW i \in 1 .. Len(list)
          PROVE  s[i] \in (MailsOf(list) \ {Head(list)}) \cup {m}
      <4>1. CASE i + 1 \in 1 .. Len(list) /\ s[i] = list[i + 1]
        <5>1. 1 \in 1 .. Len(list) /\ i + 1 # 1
          BY <2>2
        <5>2. list[i + 1] # list[1]
          BY <1>4, <4>1, <5>1
        <5>3. list[i + 1] \in MailsOf(list)
          BY <1>1, <4>1 DEF MailsOf
        <5>4. QED
          BY <2>1, <4>1, <5>2, <5>3
      <4>2. QED
        BY <2>5, <4>1
    <3>2. m \in MailsOf(s)
      <4>1. Len(t) + 1 \in DOMAIN s
        BY <2>2, <2>4
      <4>2. QED
        BY <2>3, <4>1 DEF MailsOf
    <3>3. ASSUME NEW i \in 1 .. Len(list), list[i] # Head(list)
          PROVE  list[i] \in MailsOf(s)
      <4>1. i # 1
        BY <2>1, <3>3
      <4>2. i - 1 \in 1 .. Len(list) - 1 /\ i - 1 \in 1 .. Len(t) /\ i - 1 \in DOMAIN s
        BY <2>2, <2>4, <4>1
      <4>3. s[i - 1] = list[(i - 1) + 1]
        BY <2>1, <2>3, <4>2
      <4>4. s[i - 1] = list[i]
        BY <2>2, <4>3
      <4>5. QED
        BY <4>2, <4>4 DEF MailsOf
    <3>4. QED
      BY <1>1, <2>4, <3>1, <3>2, <3>3 DEF MailsOf
  <2>8. Head(list) \in MailsOf(list)
    <3>1. 1 \in DOMAIN list
      BY <1>1, <2>2
    <3>2. QED
      BY <2>1, <3>1 DEF MailsOf
  <2>9. Len(s) = Len(list) /\ s # <<>>
    BY <1>1, <1>6, <2>2, <2>3, EmptySeq
  <2>10. list' = s
    BY <1>6 DEF s, t
  <2>11. QED
    BY <1>1, <1>6, <2>3, <2>6, <2>7, <2>8, <2>9, <2>10
<1>7. QED
  <2>1. CASE list = <<>>
    <3>1. used = 0 - batches - 0
      BY <1>1, <2>1 DEF UsedFallsBehind
    <3>2. ~ (used > MAILLIST) /\ used = Len(list) - batches
      BY <1>1, <2>1, <3>1
    <3>3. Added(m) = [list |-> Append(list, m), used |-> used, gone |-> {}]
      BY <2>1, <3>2 DEF Added
    <3>4. list' = Append(list, m) /\ ended' = ended /\ used' = used
      BY <3>3 DEF OS_AddMailtoList
    <3>5. QED
      BY <1>1, <1>5, <3>2, <3>4
  <2>2. CASE list # <<>> /\ used + 1 > MAILLIST
    <3>1. used = Len(list) - batches - 1
      BY <2>2 DEF UsedFallsBehind
    <3>2. /\ Added(m).list = Append(Tail(list), m) /\ Added(m).gone = {Head(list)}
          /\ Added(m).used = (used + 1) - 1
      BY <2>2 DEF Added
    <3>3. list' = Append(Tail(list), m) /\ ended' = ended \cup {Head(list)} /\ used' = (used + 1) - 1
      BY <3>2 DEF OS_AddMailtoList
    <3>4. used' = used
      BY <1>1, <3>3
    <3>5. QED
      BY <1>6, <2>2, <3>1, <3>3, <3>4
  <2>3. CASE list # <<>> /\ ~ (used + 1 > MAILLIST)
    <3>1. used = Len(list) - batches - 1
      BY <2>3 DEF UsedFallsBehind
    <3>2. Added(m) = [list |-> Append(list, m), used |-> used + 1, gone |-> {}]
      BY <2>3 DEF Added
    <3>3. used + 1 <= MAILLIST /\ used + 1 = Len(list) - batches
      BY <1>1, <2>3, <3>1
    <3>4. list' = Append(list, m) /\ ended' = ended /\ used' = used + 1
      BY <3>2 DEF OS_AddMailtoList
    <3>5. QED
      BY <1>5, <3>3, <3>4
  <2>4. QED
    BY <2>1, <2>2, <2>3

(* Where alerts go when one is put into the list.                          *)
LEMMA AddMoves ==
  ASSUME PlaceInv, UNCHANGED <<kind, written, files, rday, ropen, rpos, excused, children>>,
         NEW m \in 1 .. written, kind[m].mail, NEW gone, gone \subseteq MailsOf(list),
         MailsOf(list') = (MailsOf(list) \ gone) \cup {m}, ended' = ended \cup gone,
         \/ al = m /\ al' = None /\ smsg' = smsg
         \/ smsg = m /\ smsg' = None /\ al' = al
  PROVE  PlaceInv'
<1>1. SUFFICES ASSUME NEW a \in 1 .. written, kind[a].mail
               PROVE  OnePlace(a)'
  BY DEF PlaceInv
<1>2. OnePlace(a) /\ OnePlace(m)
  BY <1>1 DEF PlaceInv
<1>3. Unread(a)' <=> Unread(a)
  BY DEF Unread
<1>4. /\ At("log", a)' <=> At("log", a)
      /\ At("excused", a)' <=> At("excused", a)
      /\ At("child", a)' <=> At("child", a)
      /\ At("read", a) <=> a = al
      /\ At("saved", a) <=> a = smsg
      /\ At("list", a) <=> a \in MailsOf(list)
      /\ At("end", a) <=> a \in ended
      /\ At("read", a)' <=> a = al'
      /\ At("saved", a)' <=> a = smsg'
      /\ At("list", a)' <=> a \in MailsOf(list')
      /\ At("end", a)' <=> a \in ended'
  BY <1>3 DEF At
<1>5. a # None
  BY DEF None
<1>6. CASE a = m
  <2>1. PICK src \in {"read", "saved"} :
              (src = "read" /\ al = m /\ al' = None /\ smsg' = smsg)
                 \/ (src = "saved" /\ smsg = m /\ smsg' = None /\ al' = al)
    OBVIOUS
  <2>2. At(src, a) /\ ~ At(src, a)'
    BY <1>4, <1>5, <1>6, <2>1
  <2>3. \A r \in PlaceNames : At(r, a) => r = src
    BY <1>2, <2>1, <2>2 DEF OnePlace, PlaceNames
  <2>4. a \notin MailsOf(list)
    BY <1>4, <2>1, <2>3 DEF PlaceNames
  <2>5. \A r \in PlaceNames \ {src, "list"} : At(r, a)' => At(r, a)
    BY <1>4, <1>5, <1>6, <2>1, <2>4 DEF PlaceNames
  <2>6. At("list", a)'
    BY <1>4, <1>6
  <2>7. src \in PlaceNames /\ "list" \in PlaceNames /\ src # "list"
    BY <2>1 DEF PlaceNames
  <2>8. QED
    BY <1>2, <2>2, <2>5, <2>6, <2>7, Moves
<1>7. CASE a # m /\ a \in gone
  <2>1. At("list", a) /\ At("end", a)' /\ ~ At("list", a)'
    BY <1>4, <1>7
  <2>2. \A r \in PlaceNames \ {"list", "end"} : At(r, a)' => At(r, a)
    BY <1>4, <1>5, <1>7 DEF PlaceNames
  <2>3. QED
    BY <1>2, <2>1, <2>2, Moves DEF PlaceNames
<1>8. CASE a # m /\ a \notin gone
  <2>1. \A q \in PlaceNames : At(q, a)' <=> At(q, a)
    BY <1>4, <1>5, <1>8 DEF PlaceNames
  <2>2. QED
    BY <1>2, <2>1, Stays
<1>9. QED
  BY <1>6, <1>7, <1>8

-----------------------------------------------------------------------------
(* maild: its steps.                                                       *)

(* The log and the reader's place in it stay as they are.                  *)
LEMMA LogStays ==
  ASSUME IInv, UNCHANGED <<day, writer, rday, ropen, rpos, excused>>,
         today' \in {today, day},
         (rpc' = rpc /\ al' = al) \/ (rpc' = "idle" /\ al' = None)
  PROVE  QueueTypeOK' /\ today' \in Days /\ LogInv' /\ ReaderInv'
<1>1. TypeOK /\ LogInv /\ ReaderInv
  BY DEF IInv
<1>2. /\ UNCHANGED <<kind, written, wday, wpc, made, files>>
      /\ day \in Nat /\ today \in Nat /\ rday \in Nat
      /\ day \in Days /\ today \in Days
  BY <1>1 DEF writer, TypeOK, QueueTypeOK, Days
<1>3. QueueTypeOK'
  BY <1>1, <1>2 DEF TypeOK, QueueTypeOK
<1>4. LogInv'
  BY <1>1, <1>2 DEF LogInv
<1>5. Size(rday)' = Size(rday)
  BY <1>2 DEF Size
<1>6. ReaderInv'
  BY <1>1, <1>2, <1>5 DEF ReaderInv
<1>7. QED
  BY <1>2, <1>3, <1>4, <1>6

LEMMA MailsOfEmpty == MailsOf(<<>>) = {}
BY DEF MailsOf

(* Steps that leave the mails where they are.                              *)
LEMMA SendNothingKeeps ==
  ASSUME IInv, SendNothing, UNCHANGED <<day, writer, reader, excused>>
  PROVE  IInv'
<1>1. /\ TypeOK /\ KeptInv /\ ServedInv /\ AloneInv /\ UsedFallsBehind
      /\ mailtosend \in 0 .. MAXPERHOUR /\ MAXPERHOUR \in Nat \ {0}
  BY MaildAssumption DEF IInv, TypeOK
<1>2. /\ UNCHANGED <<kind, written, files, rday, ropen, rpos, al, rpc, excused>>
      /\ UNCHANGED <<timeout, list, used, smsg, granset, children, errs, batches, ended>>
      /\ today' = day /\ tick' = FALSE
      /\ pc = "top" /\ pc' = (IF smsg = None THEN "read" ELSE "saved")
  BY DEF SendNothing, TakeTime, NextStep, writer, reader
<1>3. /\ newhour' \in BOOLEAN
      /\ Due => list = <<>> /\ mailtosend' \in {mailtosend, 0}
      /\ ~ Due => mailtosend' = mailtosend
  BY <1>1 DEF SendNothing, HourChecked, HourNew, TypeOK
<1>4. QueueTypeOK' /\ today' \in Days /\ LogInv' /\ ReaderInv'
  BY <1>2, LogStays
<1>5. TypeOK'
  <2>1. mailtosend' \in 0 .. MAXPERHOUR
    BY <1>1, <1>3
  <2>2. pc' \in {"top", "saved", "read", "reap", "gone"} /\ tick' \in BOOLEAN
    BY <1>2
  <2>3. QED
    BY <1>1, <1>2, <1>3, <1>4, <2>1, <2>2 DEF TypeOK
<1>6. PlaceInv'
  BY <1>2, AllStay
<1>7. KeptInv' /\ UsedFallsBehind'
  BY <1>1, <1>2 DEF KeptInv, UsedFallsBehind
<1>8. ServedInv'
  BY <1>1, <1>2 DEF ServedInv, MatchedAreServed, NotAlone
<1>9. timeout = "default" /\ ~ Due => mailtosend \in {0, MAXPERHOUR}
  BY <1>1 DEF Due
<1>10. AloneInv'
  <2>1. pc' = "saved" => list = <<>> \/ mailtosend' \in {0, MAXPERHOUR}
    BY <1>1, <1>2, <1>3, <1>9 DEF AloneInv
  <2>2. ASSUME NEW a \in MailsOf(list), Priority(a) = "alone"
        PROVE  mailtosend' = MAXPERHOUR
    <3>1. ~ Due
      BY <1>3, <2>2, MailsOfEmpty
    <3>2. mailtosend = MAXPERHOUR \/ (timeout = "default" /\ mailtosend # 0)
      BY <1>1, <2>2 DEF AloneInv
    <3>3. QED
      BY <1>3, <1>9, <3>1, <3>2
  <2>3. QED
    BY <1>1, <1>2, <2>1, <2>2 DEF AloneInv, Priority, MailsOf
<1>11. QED
  BY <1>4, <1>5, <1>6, <1>7, <1>8, <1>10 DEF IInv

LEMMA ForkFailsKeeps ==
  ASSUME IInv, ForkFails, UNCHANGED <<day, writer, reader, excused>>
  PROVE  IInv'
<1>1. TypeOK /\ KeptInv /\ ServedInv /\ AloneInv /\ UsedFallsBehind
  BY DEF IInv
<1>2. /\ UNCHANGED <<kind, written, files, rday, ropen, rpos, al, rpc, excused>>
      /\ UNCHANGED <<pc, timeout, mailtosend, list, used, smsg, granset, children, errs, batches,
                     ended>>
      /\ today' = day /\ tick' = FALSE
  BY DEF ForkFails, TakeTime, maildRest, writer, reader
<1>3. newhour' \in BOOLEAN
  BY <1>1 DEF ForkFails, HourNew, TypeOK
<1>4. QueueTypeOK' /\ today' \in Days /\ LogInv' /\ ReaderInv'
  BY <1>2, LogStays
<1>5. TypeOK'
  BY <1>1, <1>2, <1>3, <1>4 DEF TypeOK
<1>6. PlaceInv'
  BY <1>2, AllStay
<1>7. KeptInv' /\ UsedFallsBehind' /\ ServedInv' /\ AloneInv'
  BY <1>1, <1>2 DEF KeptInv, UsedFallsBehind, ServedInv, AloneInv, MatchedAreServed, NotAlone,
                    Priority, MailsOf
<1>8. QED
  BY <1>4, <1>5, <1>6, <1>7 DEF IInv

LEMMA ReceiveNothingKeeps ==
  ASSUME IInv, ReceiveNothing, UNCHANGED <<day, writer, excused>>
  PROVE  IInv'
<1>1. /\ TypeOK /\ KeptInv /\ ServedInv /\ AloneInv /\ UsedFallsBehind
      /\ mailtosend \in 0 .. MAXPERHOUR /\ MAXPERHOUR \in Nat \ {0}
  BY MaildAssumption DEF IInv, TypeOK
<1>2. /\ UNCHANGED <<kind, written, files, rday, ropen, rpos, al, excused>>
      /\ UNCHANGED <<today, tick, newhour, list, used, smsg, granset, children, errs, batches, ended>>
      /\ al = None /\ rpc' = "idle"
      /\ pc = "read" /\ pc' = "reap" /\ timeout' = "default" /\ mailtosend' \in {mailtosend, Counted}
  BY DEF ReceiveNothing, writer
<1>3. /\ mailtosend' \in 0 .. MAXPERHOUR
      /\ mailtosend = MAXPERHOUR => mailtosend' = MAXPERHOUR
  BY <1>1, <1>2 DEF Counted
<1>4. QueueTypeOK' /\ today' \in Days /\ LogInv' /\ ReaderInv'
  BY <1>2, LogStays
<1>5. TypeOK'
  BY <1>1, <1>2, <1>3, <1>4 DEF TypeOK
<1>6. PlaceInv'
  BY <1>2, AllStay
<1>7. KeptInv' /\ UsedFallsBehind' /\ ServedInv'
  BY <1>1, <1>2 DEF KeptInv, UsedFallsBehind, ServedInv, MatchedAreServed, NotAlone, MailsOf
<1>8. AloneInv'
  BY <1>1, <1>2, <1>3 DEF AloneInv, KeptInv, Priority, MailsOf
<1>9. QED
  BY <1>4, <1>5, <1>6, <1>7, <1>8 DEF IInv

LEMMA ReapKeeps ==
  ASSUME IInv, Reap, UNCHANGED <<day, writer, reader, excused>>
  PROVE  IInv'
<1>1. TypeOK /\ KeptInv /\ ServedInv /\ AloneInv /\ UsedFallsBehind
  BY DEF IInv
<1>2. /\ UNCHANGED <<kind, written, files, rday, ropen, rpos, al, rpc, excused>>
      /\ UNCHANGED <<today, tick, newhour, timeout, mailtosend, list, used, smsg, granset, batches,
                     ended>>
      /\ pc = "reap" /\ pc' \in {"gone", "top"}
      /\ children' = {c \in children : c.end = "none"}
      /\ errs' = errs + Cardinality({c \in children : c.end = "killed"})
  BY DEF Reap, writer, reader
<1>3. /\ children' \subseteq children /\ IsFiniteSet(children') /\ errs' \in Nat
      /\ {c \in children' : c.end = "none"} = {c \in children : c.end = "none"}
  <2>1. IsFiniteSet(children) /\ errs \in Nat
    BY <1>1 DEF KeptInv, TypeOK
  <2>2. children' \subseteq children /\ {c \in children : c.end = "killed"} \subseteq children
    BY <1>2
  <2>3. IsFiniteSet(children') /\ IsFiniteSet({c \in children : c.end = "killed"})
    BY <2>1, <2>2, FS_Subset
  <2>4. Cardinality({c \in children : c.end = "killed"}) \in Nat
    BY <2>3, FS_CardinalityType
  <2>5. QED
    BY <1>2, <2>1, <2>2, <2>3, <2>4
<1>4. QueueTypeOK' /\ today' \in Days /\ LogInv' /\ ReaderInv'
  BY <1>2, LogStays
<1>5. TypeOK'
  BY <1>1, <1>2, <1>3, <1>4 DEF TypeOK
<1>6. PlaceInv'
  BY <1>2, <1>3, AllStay
<1>7. KeptInv' /\ UsedFallsBehind'
  BY <1>1, <1>2, <1>3 DEF KeptInv, UsedFallsBehind
<1>8. ServedInv'
  BY <1>1, <1>2, <1>3 DEF ServedInv, MatchedAreServed, NotAlone, MailsOf
<1>9. AloneInv'
  BY <1>1, <1>2 DEF AloneInv, Priority, MailsOf
<1>10. QED
  BY <1>4, <1>5, <1>6, <1>7, <1>8, <1>9 DEF IInv

(* A child gets the mails of the list.                                     *)
LEMMA ForkKeeps ==
  ASSUME IInv, Fork, UNCHANGED <<day, writer, reader, excused>>
  PROVE  IInv'
<1> DEFINE new == Child(granset)
<1>1. /\ TypeOK /\ LogInv /\ KeptInv /\ ServedInv /\ AloneInv /\ UsedFallsBehind /\ PlaceInv
      /\ mailtosend \in 0 .. MAXPERHOUR /\ MAXPERHOUR \in Nat \ {0} /\ batches \in Nat
      /\ list # <<>> /\ list \in Seq(1 .. written) /\ Len(list) \in Nat /\ used \in Int
      /\ MAILLIST \in Nat
  BY MaildAssumption, LenProperties DEF IInv, TypeOK, KeptInv, Fork
<1>2. /\ UNCHANGED <<kind, written, files, rday, ropen, rpos, al, rpc, excused>>
      /\ UNCHANGED <<timeout, smsg, errs, ended>>
      /\ today' = day /\ tick' = FALSE /\ newhour' = FALSE /\ mailtosend' \in {0, mailtosend}
      /\ list' = <<>> /\ used' = used - Len(list) /\ batches' = batches + 1
      /\ children' = children \cup {new}
      /\ granset' = [i \in Recipients |->
                       IF smsg # None /\ granset[i] = "alone" THEN "full" ELSE "none"]
      /\ pc = "top" /\ pc' = (IF smsg = None THEN "read" ELSE "saved")
  BY DEF Fork, TakeTime, HourChecked, NextStep, writer, reader
<1>3. /\ new.mails = MailsOf(list) /\ new.end = "none"
      /\ new.to = {i \in Recipients : granset[i] = "full"}
      /\ new = [mails |-> MailsOf(list), to |-> {i \in Recipients : granset[i] = "full"}, end |-> "none"]
  BY DEF Child
<1>4. MailsOf(list) \subseteq 1 .. written /\ \A a \in MailsOf(list) : kind[a].mail
  <2>1. \A i \in DOMAIN list : list[i] \in 1 .. written /\ kind[list[i]].mail
    BY <1>1, LenProperties, ElementOfSeq DEF KeptInv
  <2>2. QED
    BY <2>1 DEF MailsOf
<1> HIDE DEF new
<1>5. QueueTypeOK' /\ today' \in Days /\ LogInv' /\ ReaderInv'
  BY <1>2, LogStays
<1>6. TypeOK'
  <2>1. mailtosend' \in 0 .. MAXPERHOUR /\ used' \in Int /\ batches' \in Nat /\ list' \in Seq(Alerts)
    BY <1>1, <1>2
  <2>2. pc' \in {"top", "saved", "read", "reap", "gone"} /\ tick' \in BOOLEAN /\ newhour' \in BOOLEAN
    BY <1>2
  <2>3. children' \subseteq [mails : SUBSET Alerts, to : SUBSET Recipients,
                             end : {"none", "exited", "killed"}]
    <3>1. MailsOf(list) \subseteq Alerts
      BY <1>1, <1>4, LogTypes
    <3>2. QED
      BY <1>1, <1>2, <1>3, <3>1 DEF TypeOK
  <2>4. granset' \in [Recipients -> {"none", "full", "alone", "sms"}]
    BY <1>2
  <2>5. QED
    BY <1>1, <1>2, <1>5, <2>1, <2>2, <2>3, <2>4 DEF TypeOK
<1>7. UsedFallsBehind'
  <2>1. used = Len(list) - batches - 1
    BY <1>1 DEF UsedFallsBehind
  <2>2. Len(<<>>) = 0
    BY EmptySeq
  <2>3. used' = Len(list') - batches' - 0
    BY <1>1, <1>2, <2>1, <2>2
  <2>4. QED
    BY <1>2, <2>3 DEF UsedFallsBehind
<1>8. \A c \in children : c.end = "none" => c.mails \cap MailsOf(list) = {}
  <2>1. SUFFICES ASSUME NEW c \in children, c.end = "none", NEW a \in MailsOf(list), a \in c.mails
                 PROVE  FALSE
    OBVIOUS
  <2>2. OnePlace(a) /\ At("list", a) /\ At("child", a)
    BY <1>1, <1>4, <2>1 DEF PlaceInv, At
  <2>3. QED
    BY <2>2 DEF OnePlace, PlaceNames
<1>9. KeptInv'
  <2>1. used' <= MAILLIST
    BY <1>1, <1>2 DEF KeptInv
  <2>2. list' \in Seq(1 .. written) /\ DOMAIN list' = {}
    BY <1>2, EmptySeq
  <2>3. IsFiniteSet(children')
    BY <1>1, <1>2, FS_AddElement DEF KeptInv
  <2>4. \A c \in children' : c.mails \subseteq 1 .. written
    BY <1>1, <1>2, <1>3, <1>4 DEF KeptInv
  <2>5. ASSUME NEW c \in children', NEW e \in children', c.end = "none", e.end = "none",
               c.mails \cap e.mails # {}
        PROVE  c = e
    <3>1. CASE c \in children /\ e \in children
      BY <1>1, <2>5, <3>1 DEF KeptInv
    <3>2. CASE c = new /\ e \in children
      <4>1. e.mails \cap MailsOf(list) = {}
        BY <1>8, <2>5, <3>2
      <4>2. QED
        BY <1>3, <2>5, <3>2, <4>1
    <3>3. CASE e = new /\ c \in children
      <4>1. c.mails \cap MailsOf(list) = {}
        BY <1>8, <2>5, <3>3
      <4>2. QED
        BY <1>3, <2>5, <3>3, <4>1
    <3>4. QED
      BY <1>2, <2>5, <3>1, <3>2, <3>3
  <2>6. QED
    BY <1>1, <1>2, <2>1, <2>2, <2>3, <2>4, <2>5 DEF KeptInv
<1>10. ServedInv'
  <2>1. \A i \in Recipients : Formats[i] \in {"full", "now"} => granset'[i] \in {"none", "full"}
    BY <1>1, <1>2 DEF ServedInv
  <2>2. MailsOf(list') = {}
    BY <1>2, MailsOfEmpty
  <2>3. ASSUME NEW a \in MailsOf(list), NotAlone(a), NEW i \in kind[a].to
        PROVE  i \in new.to \/ Formats[i] = "sms"
    <3>1. granset[i] = "full" \/ Formats[i] = "sms"
      BY <1>1, <2>3 DEF ServedInv
    <3>2. i \in Recipients
      BY <1>1, <1>4, LogTypes
    <3>3. QED
      BY <1>3, <3>1, <3>2
  <2>4. MatchedAreServed'
    BY <1>1, <1>2, <1>3, <2>3 DEF ServedInv, MatchedAreServed, NotAlone
  <2>5. QED
    BY <2>1, <2>2, <2>4 DEF ServedInv, MailsOf
<1>11. AloneInv'
  <2>1. MailsOf(list)' = {}
    BY <1>2, MailsOfEmpty DEF MailsOf
  <2>2. QED
    BY <1>1, <1>2, <2>1 DEF AloneInv, Priority
<1>12. PlaceInv'
  <2>1. SUFFICES ASSUME NEW a \in 1 .. written, kind[a].mail
                 PROVE  OnePlace(a)'
    BY <1>2 DEF PlaceInv
  <2>2. OnePlace(a)
    BY <1>1, <2>1 DEF PlaceInv
  <2>3. \A q \in {"log", "excused", "read", "saved", "end"} : At(q, a)' <=> At(q, a)
    BY <1>2 DEF At, Unread
  <2>4. ~ At("list", a)'
    BY <1>2 DEF At, MailsOf
  <2>5. At("child", a)' <=> At("child", a) \/ a \in MailsOf(list)
    BY <1>2, <1>3 DEF At
  <2>6. At("list", a) <=> a \in MailsOf(list)
    BY DEF At
  <2>7. CASE a \in MailsOf(list)
    <3>1. \A r \in PlaceNames \ {"list", "child"} : At(r, a)' => At(r, a)
      BY <2>3 DEF PlaceNames
    <3>2. QED
      BY <2>2, <2>4, <2>5, <2>6, <2>7, <3>1, Moves DEF PlaceNames
  <2>8. CASE a \notin MailsOf(list)
    <3>1. \A q \in PlaceNames : At(q, a)' <=> At(q, a)
      BY <2>3, <2>4, <2>5, <2>6, <2>8 DEF PlaceNames
    <3>2. QED
      BY <2>2, <3>1, Stays
  <2>9. QED
    BY <2>7, <2>8
<1>13. QED
  BY <1>5, <1>6, <1>7, <1>9, <1>10, <1>11, <1>12 DEF IInv

(* A child ends.                                                           *)
LEMMA ChildEndsKeeps ==
  ASSUME IInv, ChildEnds, UNCHANGED <<day, writer, reader, excused>>
  PROVE  IInv'
<1>1. TypeOK /\ KeptInv /\ ServedInv /\ AloneInv /\ UsedFallsBehind /\ PlaceInv /\ LogInv
  BY DEF IInv
<1>2. PICK old \in children, e \in {"exited", "killed"} :
        /\ old.end = "none"
        /\ children' = (children \ {old}) \cup {[old EXCEPT !.end = e]}
        /\ ended' = ended \cup old.mails
  BY DEF ChildEnds
<1>3. /\ UNCHANGED <<kind, written, files, rday, ropen, rpos, al, rpc, excused>>
      /\ UNCHANGED <<pc, tick, today, newhour, timeout, mailtosend, list, used, smsg, granset,
                     errs, batches>>
  BY DEF ChildEnds, writer, reader
<1> DEFINE new == [old EXCEPT !.end = e]
<1>4. /\ new.mails = old.mails /\ new.to = old.to /\ new.end = e /\ e # "none"
      /\ new \in [mails : SUBSET Alerts, to : SUBSET Recipients, end : {"none", "exited", "killed"}]
      /\ old.mails \subseteq 1 .. written
  <2>1. old \in [mails : SUBSET Alerts, to : SUBSET Recipients, end : {"none", "exited", "killed"}]
    BY <1>1 DEF TypeOK
  <2>2. QED
    BY <1>1, <2>1 DEF KeptInv
<1>5. children' = (children \ {old}) \cup {new}
  BY <1>2
<1> HIDE DEF new
<1>6. QueueTypeOK' /\ today' \in Days /\ LogInv' /\ ReaderInv'
  BY <1>3, LogStays
<1>7. TypeOK'
  <2>1. ended' \subseteq Alerts
    BY <1>1, <1>2, <1>4, LogTypes DEF TypeOK
  <2>2. children' \subseteq [mails : SUBSET Alerts, to : SUBSET Recipients,
                             end : {"none", "exited", "killed"}]
    BY <1>1, <1>4, <1>5 DEF TypeOK
  <2>3. QED
    BY <1>1, <1>3, <1>6, <2>1, <2>2 DEF TypeOK
<1>8. KeptInv'
  <2>1. IsFiniteSet(children')
    <3>1. IsFiniteSet(children \ {old})
      BY <1>1, FS_Subset DEF KeptInv
    <3>2. QED
      BY <1>5, <3>1, FS_AddElement
  <2>2. \A c, d \in children' : c.end = "none" /\ d.end = "none" /\ c.mails \cap d.mails # {} => c = d
    BY <1>1, <1>4, <1>5 DEF KeptInv
  <2>3. /\ \A c \in children' : c.mails \subseteq 1 .. written
        /\ ended' \subseteq 1 .. written
    BY <1>1, <1>2, <1>4, <1>5 DEF KeptInv
  <2>4. QED
    BY <1>1, <1>3, <2>1, <2>2, <2>3 DEF KeptInv
<1>9. UsedFallsBehind' /\ AloneInv'
  BY <1>1, <1>3 DEF UsedFallsBehind, AloneInv, Priority, MailsOf
<1>10. ServedInv'
  <2>1. MatchedAreServed'
    BY <1>1, <1>3, <1>4, <1>5 DEF ServedInv, MatchedAreServed
  <2>2. QED
    BY <1>1, <1>3, <2>1 DEF ServedInv, NotAlone, MailsOf
<1>11. PlaceInv'
  <2>1. SUFFICES ASSUME NEW a \in 1 .. written, kind[a].mail
                 PROVE  OnePlace(a)'
    BY <1>3 DEF PlaceInv
  <2>2. OnePlace(a)
    BY <1>1, <2>1 DEF PlaceInv
  <2>3. \A q \in {"log", "excused", "read", "saved", "list"} : At(q, a)' <=> At(q, a)
    BY <1>3 DEF At, Unread, MailsOf
  <2>4. At("end", a)' <=> At("end", a) \/ a \in old.mails
    BY <1>2 DEF At
  <2>5. CASE a \in old.mails
    <3>1. At("child", a)
      BY <1>2, <2>5 DEF At
    <3>2. ~ At("child", a)'
      <4>1. \A c \in children : c.end = "none" /\ a \in c.mails => c = old
        BY <1>1, <1>2, <2>5 DEF KeptInv
      <4>2. \A c \in children' : ~ (c.end = "none" /\ a \in c.mails)
        BY <1>4, <1>5, <4>1
      <4>3. QED
        BY <4>2 DEF At
    <3>3. \A r \in PlaceNames \ {"child", "end"} : At(r, a)' => At(r, a)
      BY <2>3 DEF PlaceNames
    <3>4. QED
      BY <2>2, <2>4, <2>5, <3>1, <3>2, <3>3, Moves DEF PlaceNames
  <2>6. CASE a \notin old.mails
    <3>1. At("child", a)' <=> At("child", a)
      <4>1. (\E c \in children' : c.end = "none" /\ a \in c.mails)
              <=> (\E c \in children : c.end = "none" /\ a \in c.mails)
        BY <1>4, <1>5, <2>6
      <4>2. QED
        BY <4>1 DEF At
    <3>2. \A q \in PlaceNames : At(q, a)' <=> At(q, a)
      BY <2>3, <2>4, <2>6, <3>1 DEF PlaceNames
    <3>3. QED
      BY <2>2, <3>2, Stays
  <2>7. QED
    BY <2>5, <2>6
<1>12. QED
  BY <1>6, <1>7, <1>8, <1>9, <1>10, <1>11 DEF IInv


(* A mail to be added is not in the list yet.                              *)
LEMMA NotYetListed ==
  ASSUME IInv, NEW m \in 1 .. written, kind[m].mail, m = al \/ m = smsg
  PROVE  m \notin MailsOf(list)
<1>1. OnePlace(m)
  BY DEF IInv, PlaceInv
<1>2. m \in MailsOf(list) => At("list", m)
  BY DEF At
<1>3. At("read", m) \/ At("saved", m)
  BY DEF At
<1>4. QED
  BY <1>1, <1>2, <1>3 DEF OnePlace, PlaceNames

LEMMA AddSavedKeeps ==
  ASSUME IInv, AddSaved, UNCHANGED <<day, writer, reader, excused>>
  PROVE  IInv'
<1>1. /\ TypeOK /\ LogInv /\ KeptInv /\ ServedInv /\ AloneInv /\ UsedFallsBehind /\ PlaceInv
      /\ mailtosend \in 0 .. MAXPERHOUR /\ MAXPERHOUR \in Nat \ {0} /\ batches \in Nat
  BY MaildAssumption DEF IInv, TypeOK
<1>2. /\ UNCHANGED <<kind, written, files, rday, ropen, rpos, al, rpc, excused>>
      /\ UNCHANGED <<tick, today, newhour, timeout, children, errs, batches>>
      /\ pc = "saved" /\ pc' = "top" /\ mailtosend' = Counted
      /\ granset' = [i \in Recipients |-> IF granset[i] = "alone" THEN "full" ELSE granset[i]]
      /\ OS_AddMailtoList(smsg) /\ smsg' = None
  BY DEF AddSaved, writer, reader
<1>3. PICK m \in 1 .. written : smsg = m
  BY <1>1, <1>2 DEF KeptInv
<1>4. smsg # None /\ kind[m].mail /\ m \notin MailsOf(list)
  <2>1. smsg # None /\ kind[m].mail
    BY <1>1, <1>2, <1>3 DEF KeptInv
  <2>2. QED
    BY <1>3, <2>1, NotYetListed
<1>5. OS_AddMailtoList(m)
  BY <1>2, <1>3
<1>6. PICK gone \in SUBSET MailsOf(list) :
           /\ ended' = ended \cup gone
           /\ MailsOf(list') = (MailsOf(list) \ gone) \cup {m}
           /\ list' \in Seq(1 .. written) /\ list' # <<>>
           /\ used' <= MAILLIST
           /\ used' = Len(list') - batches - 1
           /\ list = <<>> => Len(list') = 1
           /\ \A i, j \in DOMAIN list' : list'[i] = list'[j] => i = j
  BY <1>1, <1>4, <1>5, Adds
<1>7. MailsOf(list) \subseteq 1 .. written /\ \A a \in MailsOf(list) : kind[a].mail
  <2>1. \A i \in DOMAIN list : list[i] \in 1 .. written /\ kind[list[i]].mail
    BY <1>1, LenProperties, ElementOfSeq DEF KeptInv
  <2>2. QED
    BY <2>1 DEF MailsOf
<1>8. QueueTypeOK' /\ today' \in Days /\ LogInv' /\ ReaderInv'
  BY <1>2, LogStays
<1>9. /\ mailtosend' \in 0 .. MAXPERHOUR /\ mailtosend' # 0
      /\ mailtosend = 0 => mailtosend' = 1
      /\ mailtosend = MAXPERHOUR => mailtosend' = MAXPERHOUR
  BY <1>1, <1>2 DEF Counted
<1>10. TypeOK'
  <2>1. ended' \subseteq Alerts /\ 1 .. written \subseteq Alerts
    BY <1>1, <1>6, <1>7, LogTypes DEF TypeOK
  <2>2. list' \in Seq(Alerts)
    BY <1>6, <2>1, SeqMonotonic
  <2>3. used' \in Int
    BY <1>1, <1>6, LenProperties
  <2>4. granset' \in [Recipients -> {"none", "full", "alone", "sms"}]
    BY <1>1, <1>2 DEF TypeOK
  <2>5. pc' \in {"top", "saved", "read", "reap", "gone"} /\ smsg' \in {None} \cup Alerts
    BY <1>2
  <2>6. QED
    BY <1>1, <1>2, <1>8, <1>9, <2>1, <2>2, <2>3, <2>4, <2>5 DEF TypeOK
<1>11. UsedFallsBehind'
  BY <1>2, <1>6 DEF UsedFallsBehind
<1>12. KeptInv'
  <2>1. ASSUME NEW i \in DOMAIN list' PROVE kind[list'[i]].mail
    <3>1. list'[i] \in MailsOf(list')
      BY <2>1 DEF MailsOf
    <3>2. QED
      BY <1>4, <1>6, <1>7, <3>1
  <2>2. ended' \subseteq 1 .. written
    BY <1>1, <1>6, <1>7 DEF KeptInv
  <2>3. QED
    BY <1>1, <1>2, <1>6, <2>1, <2>2 DEF KeptInv
<1>13. PlaceInv'
  <2>1. al' = al /\ smsg' = None
    BY <1>2
  <2>2. QED
    BY <1>1, <1>2, <1>3, <1>4, <1>6, <2>1, AddMoves
<1>14. Priority(m) = "alone" /\ ~ NotAlone(m)
  <2>1. Priority(m) = "alone"
    BY <1>1, <1>3, <1>4 DEF AloneInv
  <2>2. QED
    BY <1>1, <2>1, LogTypes, PriorityIsOfRecipient
<1>15. MailsOf(list)' = MailsOf(list') /\ \A a : (NotAlone(a))' <=> NotAlone(a)
  BY <1>2 DEF MailsOf, NotAlone
<1>16. ServedInv'
  <2>1. \A i \in Recipients : Formats[i] \in {"full", "now"} => granset'[i] \in {"none", "full"}
    BY <1>1, <1>2 DEF ServedInv
  <2>2. ASSUME NEW a \in MailsOf(list'), NotAlone(a), NEW i \in kind[a].to
        PROVE  granset'[i] = "full" \/ Formats[i] = "sms"
    <3>1. a \in MailsOf(list)
      BY <1>6, <1>14, <2>2
    <3>2. granset[i] = "full" \/ Formats[i] = "sms"
      BY <1>1, <2>2, <3>1 DEF ServedInv
    <3>3. i \in Recipients
      BY <1>1, <1>7, <3>1, LogTypes
    <3>4. QED
      BY <1>2, <3>2, <3>3
  <2>3. MatchedAreServed'
    BY <1>1, <1>2 DEF ServedInv, MatchedAreServed
  <2>4. QED
    BY <1>2, <1>15, <2>1, <2>2, <2>3 DEF ServedInv
<1>17. AloneInv'
  <2>1. timeout' = "default"
    BY <1>1, <1>2, <1>4 DEF AloneInv
  <2>2. \/ Len(list') = 1
        \/ mailtosend' = 1
        \/ mailtosend' = MAXPERHOUR
    BY <1>1, <1>2, <1>6, <1>9 DEF AloneInv
  <2>3. \/ mailtosend' = MAXPERHOUR
        \/ /\ pc' = "top" /\ timeout' = "default" /\ mailtosend' # 0
           /\ Len(list') = 1 \/ mailtosend' = 1
    BY <1>2, <1>9, <2>1, <2>2
  <2>4. QED
    BY <1>2, <2>3 DEF AloneInv
<1>18. QED
  BY <1>8, <1>10, <1>11, <1>12, <1>13, <1>16, <1>17 DEF IInv


(* gran_set gets the formats of the recipients an alert matches.           *)
LEMMA MarkedServes ==
  ASSUME TypeOK, LogInv, ServedInv, NEW m \in 1 .. written
  PROVE  /\ Marked(m) \in [Recipients -> {"none", "full", "alone", "sms"}]
         /\ \A i \in Recipients : Formats[i] \in {"full", "now"} => Marked(m)[i] \in {"none", "full"}
         /\ \A a \in MailsOf(list) \cup {m} : kind[a].to \subseteq Recipients /\ NotAlone(a) =>
              \A i \in kind[a].to : Marked(m)[i] = "full" \/ Formats[i] = "sms"
<1>1. \A i \in Recipients : Formats[i] \in {"full", "now", "alone", "sms"}
  BY MaildAssumption, ElementOfSeq, LenProperties DEF Recipients
<1>2. granset \in [Recipients -> {"none", "full", "alone", "sms"}]
  BY DEF TypeOK
<1>3. kind[m].to \subseteq Recipients
  BY LogTypes
<1>4. \A i \in Recipients : Marked(m)[i] = IF i \notin kind[m].to THEN granset[i]
                                           ELSE IF Formats[i] = "now" THEN "full" ELSE Formats[i]
  BY DEF Marked
<1>5. \A i \in Recipients : Marked(m)[i] \in {"none", "full", "alone", "sms"}
  BY <1>1, <1>2, <1>4
<1>6. Marked(m) \in [Recipients -> {"none", "full", "alone", "sms"}]
  BY <1>5 DEF Marked
<1>7. \A i \in Recipients : Formats[i] \in {"full", "now"} => Marked(m)[i] \in {"none", "full"}
  BY <1>4 DEF ServedInv
<1>8. ASSUME NEW a \in MailsOf(list) \cup {m}, kind[a].to \subseteq Recipients, NotAlone(a),
             NEW i \in kind[a].to
      PROVE  Marked(m)[i] = "full" \/ Formats[i] = "sms"
  <2>1. i \in Recipients /\ Formats[i] \in {"full", "now", "sms"}
    BY <1>1, <1>8 DEF NotAlone
  <2>2. CASE i \in kind[m].to
    BY <1>4, <2>1, <2>2
  <2>3. CASE i \notin kind[m].to
    <3>1. a \in MailsOf(list)
      BY <1>8, <2>3
    <3>2. granset[i] = "full" \/ Formats[i] = "sms"
      BY <1>8, <3>1 DEF ServedInv
    <3>3. QED
      BY <1>4, <2>1, <2>3, <3>2
  <2>4. QED
    BY <2>2, <2>3
<1>9. QED
  BY <1>6, <1>7, <1>8

(* A mail of do_not_group is saved, another one put into the list.         *)
LEMMA ReceiveKeeps ==
  ASSUME IInv, Receive, UNCHANGED <<day, writer, excused>>
  PROVE  IInv'
<1>1. /\ TypeOK /\ LogInv /\ ReaderInv /\ KeptInv /\ ServedInv /\ AloneInv /\ UsedFallsBehind
      /\ PlaceInv /\ mailtosend \in 0 .. MAXPERHOUR /\ MAXPERHOUR \in Nat \ {0} /\ batches \in Nat
  BY MaildAssumption DEF IInv, TypeOK
<1>2. PICK m \in 1 .. written : al = m
  BY <1>1 DEF Receive, TypeOK, QueueTypeOK
<1>3. /\ UNCHANGED <<kind, written, files, rday, ropen, rpos, excused>>
      /\ UNCHANGED <<tick, today, newhour, children, errs, batches>>
      /\ pc = "read" /\ pc' = "reap" /\ rpc' = "idle" /\ al' = None
      /\ granset' = Marked(m)
      /\ timeout' = (IF Priority(m) = "none" THEN "next" ELSE "default")
      /\ mailtosend' \in {mailtosend, Counted}
  BY <1>2 DEF Receive, writer
<1>4. kind[m].mail /\ m \notin MailsOf(list) /\ smsg = None /\ al # None
  <2>1. al # None /\ smsg = None
    BY <1>1, <1>3 DEF Receive, KeptInv
  <2>2. kind[m].mail
    BY <1>1, <1>2, <2>1 DEF ReaderInv
  <2>3. QED
    BY <1>2, <2>1, <2>2, NotYetListed
<1>5. MailsOf(list) \subseteq 1 .. written /\ \A a \in MailsOf(list) : kind[a].mail
  <2>1. \A i \in DOMAIN list : list[i] \in 1 .. written /\ kind[list[i]].mail
    BY <1>1, LenProperties, ElementOfSeq DEF KeptInv
  <2>2. QED
    BY <2>1 DEF MailsOf
<1>6. QueueTypeOK' /\ today' \in Days /\ LogInv' /\ ReaderInv'
  BY <1>3, LogStays
<1>7. /\ mailtosend' \in 0 .. MAXPERHOUR
      /\ mailtosend = MAXPERHOUR => mailtosend' = MAXPERHOUR
  BY <1>1, <1>3 DEF Counted
<1>8. /\ granset' \in [Recipients -> {"none", "full", "alone", "sms"}]
      /\ \A i \in Recipients : Formats[i] \in {"full", "now"} => granset'[i] \in {"none", "full"}
      /\ \A a \in MailsOf(list) \cup {m} : NotAlone(a) =>
           \A i \in kind[a].to : granset'[i] = "full" \/ Formats[i] = "sms"
  <2>1. \A a \in MailsOf(list) \cup {m} : kind[a].to \subseteq Recipients
    BY <1>1, <1>5, LogTypes
  <2>2. QED
    BY <1>1, <1>3, <2>1, MarkedServes
<1>9. MailsOf(list)' = MailsOf(list') /\ \A a : (NotAlone(a))' <=> NotAlone(a)
  BY <1>3 DEF MailsOf, NotAlone
<1>10. MatchedAreServed'
  BY <1>1, <1>3 DEF ServedInv, MatchedAreServed
<1>11. /\ pc' \in {"top", "saved", "read", "reap", "gone"} /\ timeout' \in {"default", "next"}
       /\ 1 .. written \subseteq Alerts
  BY <1>1, <1>3, LogTypes
<1>12. \A a \in MailsOf(list) : Priority(a) = "alone" => mailtosend' = MAXPERHOUR
  BY <1>1, <1>3, <1>7 DEF AloneInv
<1>13. CASE Priority(m) = "alone"
  <2>1. UNCHANGED <<list, used, ended>> /\ smsg' = m /\ timeout' = "default"
    BY <1>2, <1>3, <1>13 DEF Receive
  <2>2. TypeOK'
    BY <1>1, <1>3, <1>6, <1>7, <1>8, <1>11, <2>1 DEF TypeOK
  <2>3. UsedFallsBehind' /\ KeptInv'
    BY <1>1, <1>3, <1>4, <2>1 DEF UsedFallsBehind, KeptInv
  <2>4. ServedInv'
    <3>1. MailsOf(list') = MailsOf(list)
      BY <2>1
    <3>2. \A a \in MailsOf(list') : NotAlone(a) =>
             \A i \in kind[a].to : granset'[i] = "full" \/ Formats[i] = "sms"
      BY <1>8, <3>1
    <3>3. QED
      BY <1>3, <1>8, <1>9, <1>10, <3>2 DEF ServedInv
  <2>5. AloneInv'
    BY <1>3, <1>12, <1>13, <2>1 DEF AloneInv, Priority, MailsOf
  <2>6. PlaceInv'
    <3>1. SUFFICES ASSUME NEW a \in 1 .. written, kind[a].mail
                   PROVE  OnePlace(a)'
      BY <1>3 DEF PlaceInv
    <3>2. OnePlace(a) /\ a # None
      BY <1>1, <3>1 DEF PlaceInv, None
    <3>3. /\ At("read", a) <=> a = m
          /\ At("saved", a)' <=> a = m
          /\ ~ At("read", a)'
          /\ ~ At("saved", a)
      BY <1>2, <1>3, <1>4, <2>1, <3>2 DEF At
    <3>4. \A q \in {"log", "excused", "list", "child", "end"} : At(q, a)' <=> At(q, a)
      BY <1>3, <2>1 DEF At, Unread, MailsOf
    <3>5. CASE a = m
      <4>1. \A r \in PlaceNames \ {"read", "saved"} : At(r, a)' => At(r, a)
        BY <3>4 DEF PlaceNames
      <4>2. QED
        BY <3>2, <3>3, <3>5, <4>1, Moves DEF PlaceNames
    <3>6. CASE a # m
      <4>1. \A q \in PlaceNames : At(q, a)' <=> At(q, a)
        BY <3>3, <3>4, <3>6 DEF PlaceNames
      <4>2. QED
        BY <3>2, <4>1, Stays
    <3>7. QED
      BY <3>5, <3>6
  <2>7. QED
    BY <1>6, <2>2, <2>3, <2>4, <2>5, <2>6 DEF IInv
<1>14. CASE Priority(m) # "alone"
  <2>1. OS_AddMailtoList(m) /\ smsg' = smsg
    BY <1>2, <1>14 DEF Receive
  <2>2. PICK gone \in SUBSET MailsOf(list) :
             /\ ended' = ended \cup gone
             /\ MailsOf(list') = (MailsOf(list) \ gone) \cup {m}
             /\ list' \in Seq(1 .. written) /\ list' # <<>>
             /\ used' <= MAILLIST
             /\ used' = Len(list') - batches - 1
             /\ list = <<>> => Len(list') = 1
             /\ \A i, j \in DOMAIN list' : list'[i] = list'[j] => i = j
    BY <1>1, <1>4, <2>1, Adds
  <2>3. TypeOK'
    <3>1. ended' \subseteq Alerts
      BY <1>1, <1>5, <1>11, <2>2 DEF TypeOK
    <3>2. list' \in Seq(Alerts)
      BY <1>11, <2>2, SeqMonotonic
    <3>3. used' \in Int
      BY <1>1, <2>2, LenProperties
    <3>4. QED
      BY <1>1, <1>3, <1>6, <1>7, <1>8, <1>11, <2>1, <3>1, <3>2, <3>3 DEF TypeOK
  <2>4. UsedFallsBehind'
    BY <1>3, <2>2 DEF UsedFallsBehind
  <2>5. KeptInv'
    <3>1. ASSUME NEW i \in DOMAIN list' PROVE kind[list'[i]].mail
      <4>1. list'[i] \in MailsOf(list')
        BY <3>1 DEF MailsOf
      <4>2. QED
        BY <1>4, <1>5, <2>2, <4>1
    <3>2. ended' \subseteq 1 .. written
      BY <1>1, <1>5, <2>2 DEF KeptInv
    <3>3. QED
      BY <1>1, <1>3, <1>4, <2>1, <2>2, <3>1, <3>2 DEF KeptInv
  <2>6. PlaceInv'
    BY <1>1, <1>2, <1>3, <1>4, <2>1, <2>2, AddMoves
  <2>7. ServedInv'
    <3>1. MailsOf(list') \subseteq MailsOf(list) \cup {m}
      BY <2>2
    <3>2. \A a \in MailsOf(list') : NotAlone(a) =>
             \A i \in kind[a].to : granset'[i] = "full" \/ Formats[i] = "sms"
      BY <1>8, <3>1
    <3>3. QED
      BY <1>3, <1>8, <1>9, <1>10, <3>2 DEF ServedInv
  <2>8. AloneInv'
    <3>1. ASSUME NEW a \in MailsOf(list'), Priority(a) = "alone"
          PROVE  mailtosend' = MAXPERHOUR
      BY <1>12, <1>14, <2>2, <3>1
    <3>2. \A a : Priority(a)' = Priority(a)
      BY <1>3 DEF Priority
    <3>3. QED
      BY <1>3, <1>4, <1>9, <2>1, <3>1, <3>2 DEF AloneInv
  <2>9. QED
    BY <1>6, <2>3, <2>4, <2>5, <2>6, <2>7, <2>8 DEF IInv
<1>15. QED
  BY <1>13, <1>14


-----------------------------------------------------------------------------
(* The invariant, and what follows from it.                                *)

LEMMA InitKeeps == Init => IInv
<1> SUFFICES ASSUME Init PROVE IInv
  OBVIOUS
<1>1. /\ MaxDay \in Nat \ {0} /\ MaxAlerts \in Nat \ {0}
      /\ MAILLIST \in Nat \ {0} /\ MAXPERHOUR \in Nat \ {0}
      /\ 1 \in Days
  BY AlertQueueAssumption, MaildAssumption DEF Days
<1>2. /\ files = [d \in Days |-> <<>>] /\ day = 1 /\ written = 0 /\ wday = 1 /\ made = {1}
      /\ rday = 1 /\ ropen = TRUE /\ rpos = 0 /\ rpc = "idle" /\ al = None /\ excused = {}
      /\ wpc = "idle" /\ today = 1
      /\ list = <<>> /\ used = 0 /\ smsg = None /\ children = {} /\ ended = {} /\ batches = 0
      /\ pc = "top" /\ timeout = "default" /\ mailtosend = 0 /\ errs = 0
      /\ granset = [i \in Recipients |-> "none"]
  BY DEF Init, QueueInit
<1>3. kind \in [Alerts -> Kinds]
  BY AlertQueueAssumption DEF Init, QueueInit, Alerts
<1>4. 1 .. written = {} /\ Len(<<>>) = 0 /\ DOMAIN <<>> = {} /\ MailsOf(<<>>) = {}
  BY <1>2, EmptySeq, MailsOfEmpty
<1>5. TypeOK
  <2>1. \A d \in Days : files[d] = <<>>
    BY <1>2
  <2>2. QueueTypeOK
    BY <1>1, <1>2, <1>3, <2>1 DEF QueueTypeOK
  <2>3. tick \in BOOLEAN /\ newhour \in BOOLEAN
    BY DEF Init
  <2>4. 0 \in 0 .. MAXPERHOUR /\ granset \in [Recipients -> {"none", "full", "alone", "sms"}]
    BY <1>1, <1>2
  <2>5. QED
    BY <1>1, <1>2, <2>2, <2>3, <2>4 DEF TypeOK
<1>6. UsedFallsBehind
  BY <1>2, <1>4 DEF UsedFallsBehind
<1>7. \A d \in Days : files[d] = <<>> /\ DOMAIN files[d] = {} /\ Len(files[d]) = 0
  BY <1>2, <1>4
<1>8. LogInv
  <2>1. files \in [Days -> Seq(1 .. written)]
    BY <1>2
  <2>2. QED
    BY <1>2, <1>7, <2>1 DEF LogInv
<1>9. ReaderInv
  <2>1. Size(rday) = 0
    BY <1>1, <1>2, <1>7 DEF Size
  <2>2. QED
    BY <1>1, <1>2, <1>7, <2>1 DEF ReaderInv
<1>10. KeptInv
  <2>1. used <= MAILLIST /\ IsFiniteSet(children) /\ list \in Seq(1 .. written)
    BY <1>1, <1>2, FS_EmptySet
  <2>2. QED
    BY <1>2, <1>4, <2>1 DEF KeptInv
<1>11. PlaceInv
  BY <1>4 DEF PlaceInv
<1>12. ServedInv /\ AloneInv
  BY <1>2, <1>4 DEF ServedInv, MatchedAreServed, AloneInv
<1>13. QED
  BY <1>5, <1>6, <1>8, <1>9, <1>10, <1>11, <1>12 DEF IInv

LEMMA StutterKeeps ==
  ASSUME IInv, UNCHANGED vars
  PROVE  IInv'
<1>1. /\ UNCHANGED <<kind, written, wday, wpc, made, files, rday, ropen, rpos, rpc, al, excused,
                     day, tick>>
      /\ UNCHANGED maild
  BY DEF vars, writer, reader
<1>2. /\ UNCHANGED <<pc, today, newhour, timeout, mailtosend, list, used, smsg, granset, children,
                     errs, batches, ended>>
  BY <1>1 DEF maild
<1>3. UNCHANGED <<day, writer, rday, ropen, rpos, excused>> /\ today' \in {today, day}
  BY <1>1, <1>2 DEF writer
<1>4. QueueTypeOK' /\ LogInv' /\ ReaderInv'
  BY <1>1, <1>3, LogStays
<1>5. TypeOK'
  BY <1>1, <1>2, <1>4 DEF IInv, TypeOK
<1>6. PlaceInv'
  BY <1>1, <1>2, AllStay
<1>7. QED
  BY <1>1, <1>4, <1>5, <1>6, MaildKept DEF IInv

LEMMA NextKeeps ==
  ASSUME IInv, [Next]_vars
  PROVE  IInv'
<1>1. CASE Maild /\ UNCHANGED <<day, writer>>
  <2>1. CASE (SendNothing \/ Fork \/ ForkFails \/ AddSaved \/ Reap) /\ UNCHANGED <<reader, excused>>
    <3>1. UNCHANGED <<day, writer, reader, excused>>
      BY <1>1, <2>1
    <3>2. QED
      BY <2>1, <3>1, SendNothingKeeps, ForkKeeps, ForkFailsKeeps, AddSavedKeeps, ReapKeeps
  <2>2. CASE Read_FileMon(today) /\ UNCHANGED <<tick, maild>>
    BY <1>1, <2>2, ReadKeeps
  <2>3. CASE PollRound /\ UNCHANGED <<tick, maild>>
    BY <1>1, <2>3, PollKeeps
  <2>4. CASE Receive /\ UNCHANGED excused
    BY <1>1, <2>4, ReceiveKeeps
  <2>5. CASE ReceiveNothing /\ UNCHANGED excused
    BY <1>1, <2>5, ReceiveNothingKeeps
  <2>6. QED
    BY <1>1, <2>1, <2>2, <2>3, <2>4, <2>5 DEF Maild
<1>2. CASE ChildEnds /\ UNCHANGED <<day, writer, reader, excused>>
  BY <1>2, ChildEndsKeeps
<1>3. CASE Analysisd /\ UNCHANGED <<day, tick, reader, maild>>
  BY <1>3, LogKeeps, ClockAndDayKeep DEF Analysisd
<1>4. CASE Tick /\ UNCHANGED <<writer, reader, excused, maild>>
  BY <1>4, ClockAndDayKeep
<1>5. CASE UNCHANGED vars
  BY <1>5, StutterKeeps
<1>6. QED
  BY <1>1, <1>2, <1>3, <1>4, <1>5 DEF Next

THEOREM Invariance == Spec => []IInv
<1>1. IInv /\ [Next]_vars => IInv'
  BY NextKeeps
<1>2. QED
  BY <1>1, InitKeeps, PTL DEF Spec

(* Every alert to be mailed is in one place and in one only, from the file *)
(* it is written to until the child that has it ends or it is evicted from *)
(* the list, or else the reader was entitled not to see it; the list is    *)
(* longer than MAIL_LIST_SIZE only by one and by the lists that were sent. *)
THEOREM MailsAreAccounted == Spec => []MailInv
<1>1. IInv => ListInv
  <2>1. SUFFICES ASSUME IInv PROVE ListInv
    OBVIOUS
  <2>2. /\ TypeOK /\ UsedFallsBehind /\ used <= MAILLIST /\ used \in Int
        /\ batches \in Nat /\ MAILLIST \in Nat /\ Len(list) \in Nat
    BY <2>1, MaildAssumption, LenProperties DEF IInv, TypeOK, KeptInv
  <2>3. used = Len(list) - batches - 0 \/ used = Len(list) - batches - 1
    BY <2>2 DEF UsedFallsBehind
  <2>4. QED
    BY <2>2, <2>3 DEF ListInv
<1>2. IInv => EveryAlertAccounted
  <2>1. SUFFICES ASSUME IInv, NEW a \in 1 .. written, kind[a].mail
                 PROVE  Cardinality({p \in PlaceNames : At(p, a)}) = 1
    BY DEF EveryAlertAccounted, At, PlaceNames
  <2>2. PICK p \in PlaceNames : \A q \in PlaceNames : At(q, a) <=> q = p
    BY <2>1 DEF IInv, PlaceInv, OnePlace
  <2>3. {q \in PlaceNames : At(q, a)} = {p}
    BY <2>2
  <2>4. QED
    BY <2>3, FS_Singleton
<1>3. IInv => MailInv
  BY <1>1, <1>2 DEF MailInv
<1>4. QED
  BY <1>3, Invariance, PTL

(* gran_set never falls behind the list it belongs to: whoever an alert    *)
(* matches is among the recipients of its mail, but for those of sms and   *)
(* for the alerts of do_not_group.                                         *)
THEOREM RecipientsAreServed == Spec => []MatchedAreServed
<1>1. IInv => MatchedAreServed
  BY DEF IInv, ServedInv
<1>2. QED
  BY <1>1, Invariance, PTL

(* A mail of do_not_group that waits in s_msg goes into an empty list,     *)
(* unless it comes first in its hour or when the hour's mails are used up: *)
(* only then does a child send others with it.                             *)
THEOREM AloneIsAlone == Spec => AloneUnlessFirstOrLast
<1> DEFINE Apart == \A c \in children' \ children :
                       c.end = "none" /\ (\E a \in c.mails : Priority(a) = "alone")
                          /\ Cardinality(c.mails) > 1
                       => mailtosend = 1 \/ mailtosend = MAXPERHOUR
<1>1. ASSUME IInv, Fork
      PROVE  Apart
  <2>1. SUFFICES ASSUME NEW c \in children' \ children, NEW a \in c.mails, Priority(a) = "alone",
                        Cardinality(c.mails) > 1
                 PROVE  mailtosend = 1 \/ mailtosend = MAXPERHOUR
    OBVIOUS
  <2>2. c.mails = MailsOf(list)
    BY <1>1, <2>1 DEF Fork, Child
  <2>3. \/ mailtosend = MAXPERHOUR
        \/ mailtosend = 1
        \/ Len(list) = 1
    BY <1>1, <2>1, <2>2 DEF IInv, AloneInv
  <2>4. CASE Len(list) = 1
    <3>1. list \in Seq(1 .. written)
      BY <1>1 DEF IInv, KeptInv
    <3>2. DOMAIN list = 1 .. 1
      BY <2>4, <3>1, LenProperties
    <3>3. \A i \in DOMAIN list : i = 1
      BY <3>2
    <3>4. MailsOf(list) = {list[1]}
      BY <3>2, <3>3 DEF MailsOf
    <3>5. Cardinality(c.mails) = 1
      BY <2>2, <3>4, FS_Singleton
    <3>6. QED
      BY <2>1, <3>5
  <2>5. QED
    BY <2>3, <2>4
<1>2. ASSUME IInv, ChildEnds
      PROVE  Apart
  <2>1. PICK old \in children, e \in {"exited", "killed"} :
          children' = (children \ {old}) \cup {[old EXCEPT !.end = e]}
    BY <1>2 DEF ChildEnds
  <2>2. old \in [mails : SUBSET Alerts, to : SUBSET Recipients, end : {"none", "exited", "killed"}]
    BY <1>2 DEF IInv, TypeOK
  <2>3. [old EXCEPT !.end = e].end # "none"
    BY <2>2
  <2>4. \A c \in children' \ children : c.end # "none"
    BY <2>1, <2>3
  <2>5. QED
    BY <2>4
<1>3. ASSUME children' \subseteq children
      PROVE  Apart
  BY <1>3
<1>4. ASSUME IInv, [Next]_vars
      PROVE  Apart
  <2>1. CASE Fork
    BY <1>1, <1>4, <2>1
  <2>2. CASE ChildEnds
    BY <1>2, <1>4, <2>2
  <2>3. CASE children' = children \/ Reap
    BY <1>3, <2>3 DEF Reap
  <2>4. Fork \/ ChildEnds \/ children' = children \/ Reap
    BY <1>4 DEF Next, Maild, SendNothing, ForkFails, maildRest, AddSaved, Receive, ReceiveNothing,
                maild, vars
  <2>5. QED
    BY <2>1, <2>2, <2>3, <2>4
<1>5. IInv /\ [Next]_vars => [Apart]_vars
  BY <1>4
<1>6. QED
  BY <1>5, Invariance, PTL DEF Spec, AloneUnlessFirstOrLast
=============================================================================
