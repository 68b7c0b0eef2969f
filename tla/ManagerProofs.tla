--------------------------- MODULE ManagerProofs ---------------------------
(***************************************************************************)
(* Proofs about remoted's manager (remoted/manager.c): the shared files it *)
(* sends (SharedFiles) and its two threads (ControlMsg).                   *)
(*                                                                         *)
(* For every number of pieces, of edits and of faults and every capacity   *)
(* of the channel: what an agent unpacks is one whole version, and within  *)
(* a session never an older one.  For every number of agents, whatever the *)
(* interleaving: the waiting thread never sleeps on an announcement, reads *)
(* every message it clears the mark of, and overlooks an agent only when a *)
(* later one was announced after it.                                       *)
(***************************************************************************)
EXTENDS SharedFiles, ControlMsg, SequenceTheorems, TLAPS

USE PiecesAssumption, BoundsAssumption

Message == [kind : {"update"}, sum : Versions]
             \cup [kind : {"data"}, piece : Piece]
             \cup [kind : {"close"}]

(* The agent may unpack version v without breaking NeverRollsBack.         *)
MayFollow(v) == v \in Versions /\ (v < Version => ~ fresh /\ v \in again)

IsHeader(k) == k \in 1 .. Len(net) /\ net[k].kind = "update"

(* Above the stored counter the versions of the headers do not decrease,   *)
(* and the manager's, which the next header carries, is not older.         *)
HeadersInOrder ==
  /\ Version <= f_sum /\ f_sum <= shared
  /\ \A k \in 1 .. Len(net) : IsHeader(k) => net[k].sum <= f_sum
  /\ \A j, k \in 1 .. Len(net) :
       j < k /\ IsHeader(j) /\ IsHeader(k) => net[j].sum <= net[k].sum

(* A transfer the agent knows of may be unpacked, and is not newer than    *)
(* one of a header still to come, which may be unpacked after it.          *)
TransferMayFollow ==
  file => MayFollow(file_sum) /\ file_sum <= f_sum

HeadersMayFollow ==
  \A k \in passed + 1 .. Len(net) :
    IsHeader(k) => MayFollow(net[k].sum) /\ (file => file_sum <= net[k].sum)

IInv ==
  /\ TypeOK
  /\ net \in Seq(Message)
  /\ InstalledIsWhole
  /\ HeadersInOrder
  /\ TransferMayFollow
  /\ HeadersMayFollow

-----------------------------------------------------------------------------
(* A whole file is a sequence of pieces that begins with its version.      *)
LEMMA WholeFile ==
  ASSUME NEW v \in Versions
  PROVE  /\ Whole(v) \in Seq(Piece)
         /\ Len(Whole(v)) = Pieces
         /\ Whole(v)[1][1] = v
<1>1. \A k \in 1 .. Pieces : <<v, k>> \in Piece
  BY DEF Piece
<1>2. Whole(v) \in [1 .. Pieces -> Piece]
  BY <1>1 DEF Whole
<1>3. Whole(v) \in Seq(Piece) /\ Len(Whole(v)) = Pieces
  BY <1>2, SeqDef
<1>4. QED
  BY <1>3 DEF Whole

(* The sum of merged.mg is the one of a version exactly if the file is     *)
(* that version, whole.                                                    *)
LEMMA SumOfWhole ==
  /\ Sum \in Versions \cup {Other}
  /\ Sum \in Versions => merged = Whole(Sum)
<1>1. Other \notin Versions
  BY DEF Other, Versions
<1>2. CASE \E v \in Versions : merged = Whole(v)
  BY <1>2 DEF Sum
<1>3. CASE ~ \E v \in Versions : merged = Whole(v)
  BY <1>1, <1>3 DEF Sum
<1>4. QED
  BY <1>2, <1>3

(* The numbers behind the invariant.                                       *)
LEMMA Numbers ==
  ASSUME IInv
  PROVE  /\ Version \in Versions /\ Version \in Int
         /\ f_sum \in Int /\ shared \in Int
         /\ Len(net) \in Nat /\ passed \in Nat
         /\ \A k : IsHeader(k) => net[k].sum \in Versions /\ net[k].sum \in Int
<1>1. Version \in Versions
  BY WholeFile DEF IInv, InstalledIsWhole, Version
<1>2. \A k : IsHeader(k) => net[k].sum \in Versions
  BY ElementOfSeq DEF IInv, IsHeader, Message
<1>3. Len(net) \in Nat
  BY LenProperties DEF IInv
<1>4. QED
  BY <1>1, <1>2, <1>3 DEF Versions, IInv, TypeOK

(* Only what is unpacked and the two histories decide what may follow.     *)
LEMMA SameMayFollow ==
  ASSUME UNCHANGED <<installed, fresh, again>>
  PROVE  Version' = Version /\ \A v : MayFollow(v)' <=> MayFollow(v)
BY DEF Version, MayFollow

(* Getting past a message leaves the others in their places, counted from  *)
(* the end.                                                                *)
LEMMA PassIs ==
  ASSUME IInv, Pass
  PROVE  /\ passed + 1 \in 1 .. Len(net) /\ net[passed + 1] \in Message
         /\ net' \in Seq(Message)
         /\ passed' \in 0 .. Window /\ passed' <= Len(net')
         /\ \E d \in {0, 1} :
              /\ Len(net') = Len(net) - d
              /\ passed' = passed + 1 - d
              /\ \A k \in 1 .. Len(net') : k + d \in 1 .. Len(net) /\ net'[k] = net[k + d]
<1>1. /\ net \in Seq(Message) /\ passed \in Nat /\ passed < Len(net) /\ Len(net) \in Nat
      /\ passed \in 0 .. Window /\ Window \in Nat
  BY Numbers DEF IInv, TypeOK, Pass
<1>2. passed + 1 \in 1 .. Len(net) /\ net[passed + 1] \in Message
  BY <1>1, ElementOfSeq
<1>3. CASE passed < Window
  <2>1. passed' = passed + 1 /\ net' = net
    BY <1>3 DEF Pass
  <2>2. \A k \in 1 .. Len(net') : k + 0 \in 1 .. Len(net) /\ net'[k] = net[k + 0]
    BY <1>1, <2>1
  <2>3. Len(net') = Len(net) - 0 /\ passed' = passed + 1 - 0
    BY <1>1, <2>1
  <2>4. \E d \in {0, 1} :
          /\ Len(net') = Len(net) - d
          /\ passed' = passed + 1 - d
          /\ \A k \in 1 .. Len(net') : k + d \in 1 .. Len(net) /\ net'[k] = net[k + d]
    <3>1. WITNESS 0 \in {0, 1}
    <3>2. QED
      BY <2>2, <2>3
  <2>5. passed' \in 0 .. Window /\ passed' <= Len(net')
    BY <1>1, <1>3, <2>1
  <2>6. QED
    BY <1>1, <1>2, <2>1, <2>4, <2>5
<1>4. CASE ~ passed < Window
  <2>1. passed' = passed /\ net' = Tail(net)
    BY <1>4 DEF Pass
  <2>2. net # <<>>
    BY <1>1
  <2>3. /\ net' \in Seq(Message) /\ Len(net') = Len(net) - 1
        /\ \A k \in 1 .. Len(net') : net'[k] = net[k + 1]
    BY <1>1, <2>1, <2>2, HeadTailProperties
  <2>4. \A k \in 1 .. Len(net') : k + 1 \in 1 .. Len(net) /\ net'[k] = net[k + 1]
    BY <1>1, <2>3
  <2>5. passed' = passed + 1 - 1 /\ passed' <= Len(net')
    BY <1>1, <2>1, <2>3
  <2>6. QED
    BY <1>1, <1>2, <2>1, <2>3, <2>4, <2>5
<1>5. QED
  BY <1>3, <1>4

(* What is said of the headers stays true of those that are left.          *)
LEMMA PassKeepsOrder ==
  ASSUME IInv, Pass
  PROVE  /\ \A k \in 1 .. Len(net') : IsHeader(k)' => net'[k].sum <= f_sum
         /\ \A j, k \in 1 .. Len(net') :
              j < k /\ IsHeader(j)' /\ IsHeader(k)' => net'[j].sum <= net'[k].sum
         /\ \A k \in passed' + 1 .. Len(net') : IsHeader(k)' =>
              /\ MayFollow(net'[k].sum)
              /\ file => file_sum <= net'[k].sum
              /\ IsHeader(passed + 1) => net[passed + 1].sum <= net'[k].sum
<1>1. PICK d \in {0, 1} :
        /\ Len(net') = Len(net) - d
        /\ passed' = passed + 1 - d
        /\ \A k \in 1 .. Len(net') : k + d \in 1 .. Len(net) /\ net'[k] = net[k + d]
  BY PassIs
<1>2. \A k \in 1 .. Len(net') :
        /\ k \in Int /\ d \in Int
        /\ k + d \in 1 .. Len(net) /\ net'[k] = net[k + d]
        /\ IsHeader(k)' <=> IsHeader(k + d)
  BY <1>1 DEF IsHeader
<1>3. \A k \in passed' + 1 .. Len(net') :
        k \in 1 .. Len(net') /\ k + d \in passed + 1 .. Len(net) /\ passed + 1 < k + d
  BY <1>1, Numbers
<1>4. passed + 1 \in 1 .. Len(net)
  BY PassIs
<1>5. ASSUME NEW k \in 1 .. Len(net'), IsHeader(k)'
      PROVE  net'[k].sum <= f_sum
  BY <1>2, <1>5 DEF IInv, HeadersInOrder
<1>6. ASSUME NEW j \in 1 .. Len(net'), NEW k \in 1 .. Len(net'),
             j < k, IsHeader(j)', IsHeader(k)'
      PROVE  net'[j].sum <= net'[k].sum
  <2>1. j + d < k + d
    BY <1>2, <1>6
  <2>2. QED
    BY <1>2, <1>6, <2>1 DEF IInv, HeadersInOrder
<1>7. ASSUME NEW k \in passed' + 1 .. Len(net'), IsHeader(k)'
      PROVE  /\ MayFollow(net'[k].sum)
             /\ file => file_sum <= net'[k].sum
             /\ IsHeader(passed + 1) => net[passed + 1].sum <= net'[k].sum
  <2>1. /\ k \in 1 .. Len(net') /\ k + d \in passed + 1 .. Len(net) /\ passed + 1 < k + d
        /\ k + d \in 1 .. Len(net) /\ net'[k] = net[k + d] /\ IsHeader(k + d)
    BY <1>2, <1>3, <1>7
  <2>2. MayFollow(net[k + d].sum) /\ (file => file_sum <= net[k + d].sum)
    BY <2>1 DEF IInv, HeadersMayFollow
  <2>3. IsHeader(passed + 1) => net[passed + 1].sum <= net[k + d].sum
    BY <1>4, <2>1 DEF IInv, HeadersInOrder
  <2>4. QED
    BY <2>1, <2>2, <2>3
<1>8. QED
  BY <1>5, <1>6, <1>7

(* Getting past a message, with nothing else of the invariant's changed.   *)
LEMMA PassKeeps ==
  ASSUME IInv, Pass,
         UNCHANGED <<shared, f_sum, file, file_sum, installed, fresh, again>>
  PROVE  /\ net' \in Seq(Message)
         /\ passed' \in 0 .. Window /\ passed' <= Len(net')
         /\ InstalledIsWhole' /\ HeadersInOrder'
         /\ TransferMayFollow' /\ HeadersMayFollow'
<1>1. Version' = Version /\ \A v : MayFollow(v)' <=> MayFollow(v)
  BY SameMayFollow
<1>2. net' \in Seq(Message) /\ passed' \in 0 .. Window /\ passed' <= Len(net')
  BY PassIs
<1>3. InstalledIsWhole'
  BY DEF IInv, InstalledIsWhole
<1>4. HeadersInOrder'
  BY <1>1, PassKeepsOrder DEF IInv, HeadersInOrder
<1>5. TransferMayFollow'
  BY <1>1 DEF IInv, TransferMayFollow
<1>6. HeadersMayFollow'
  BY <1>1, PassKeepsOrder DEF HeadersMayFollow
<1>7. QED
  BY <1>2, <1>3, <1>4, <1>5, <1>6

(* Before any transfer both sides have version 0.                          *)
LEMMA InitEstablishes == Init => IInv
<1> SUFFICES ASSUME Init PROVE IInv
  OBVIOUS
<1>1. 0 \in Versions
  BY DEF Versions
<1>2. Whole(0) \in Seq(Piece) /\ Whole(0)[1][1] = 0
  BY <1>1, WholeFile
<1>3. net \in Seq(Message) /\ Len(net) = 0
  BY DEF Init
<1>4. TypeOK
  <2>1. shared \in Versions /\ f_sum \in Versions /\ notice \in 0 .. NoNotice
    BY <1>1 DEF Init, NoNotice
  <2>2. passed \in 0 .. Window /\ passed <= Len(net) /\ faults \in 0 .. MaxFaults
    BY <1>3 DEF Init
  <2>3. QED
    BY <1>2, <2>1, <2>2 DEF Init, TypeOK
<1>5. InstalledIsWhole
  BY <1>1 DEF Init, InstalledIsWhole
<1>6. HeadersInOrder
  BY <1>2, <1>3 DEF Init, HeadersInOrder, Version
<1>7. TransferMayFollow /\ HeadersMayFollow
  BY <1>3 DEF Init, TransferMayFollow, HeadersMayFollow
<1>8. QED
  BY <1>3, <1>4, <1>5, <1>6, <1>7 DEF IInv

(* The steps of the manager: a header carries the manager's version, which *)
(* no earlier header is above.                                             *)
LEMMA ManagerKeepsIInv ==
  ASSUME IInv, Edit \/ c_files \/ read_controlmsg \/ send_file_toagent \/ SendRefused
  PROVE  IInv' /\ UNCHANGED installed
<1> USE DEF IInv, InstalledIsWhole, agent, channel, recorded
<1>1. ASSUME UNCHANGED <<net, passed, agent, recorded>>, TypeOK',
             f_sum <= f_sum', f_sum' <= shared'
      PROVE  IInv' /\ UNCHANGED installed
  <2>1. Version' = Version /\ \A v : MayFollow(v)' <=> MayFollow(v)
    BY <1>1, SameMayFollow
  <2>2. f_sum \in Int /\ f_sum' \in Int
    BY <1>1 DEF TypeOK, Versions
  <2>3. \A k \in 1 .. Len(net) : IsHeader(k) => net[k].sum <= f_sum'
    BY <1>1, <2>2, Numbers DEF HeadersInOrder
  <2>4. Version <= f_sum' /\ (file => file_sum <= f_sum')
    BY <1>1, <2>2, Numbers DEF HeadersInOrder, TransferMayFollow, MayFollow, Versions
  <2>5. HeadersInOrder'
    BY <1>1, <2>1, <2>3, <2>4 DEF HeadersInOrder, IsHeader
  <2>6. TransferMayFollow'
    BY <1>1, <2>1, <2>4 DEF TransferMayFollow
  <2>7. HeadersMayFollow'
    BY <1>1, <2>1 DEF HeadersMayFollow, IsHeader
  <2>8. QED
    BY <1>1, <2>5, <2>6, <2>7
<1>2. f_sum <= f_sum /\ shared <= shared /\ f_sum <= shared /\ f_sum \in Int /\ shared \in Int
  BY Numbers DEF HeadersInOrder
<1>3. CASE Edit
  <2>1. /\ shared' = shared + 1 /\ shared' \in Versions
        /\ UNCHANGED <<f_sum, notice, job, net, passed, agent, faults, recorded>>
    BY <1>3 DEF Edit, TypeOK, Versions
  <2>2. TypeOK'
    BY <2>1 DEF TypeOK
  <2>3. QED
    BY <1>1, <1>2, <2>1, <2>2
<1>4. CASE c_files
  <2>1. /\ f_sum' = shared
        /\ UNCHANGED <<shared, notice, job, net, passed, agent, faults, recorded>>
    BY <1>4 DEF c_files
  <2>2. TypeOK'
    BY <2>1 DEF TypeOK
  <2>3. QED
    BY <1>1, <1>2, <2>1, <2>2
<1>5. ASSUME notice' \in 0 .. NoNotice,
             job' = NoJob \/ job' \in [at : {"header", "data"}, next : 1 .. Pieces + 1],
             faults' \in 0 .. MaxFaults,
             UNCHANGED <<shared, f_sum, net, passed, agent, recorded>>
      PROVE  IInv' /\ UNCHANGED installed
  <2>1. TypeOK'
    BY <1>5 DEF TypeOK
  <2>2. QED
    BY <1>1, <1>2, <1>5, <2>1
<1>6. CASE read_controlmsg
  <2>1. [at |-> "header", next |-> 1] \in [at : {"header", "data"}, next : 1 .. Pieces + 1]
    OBVIOUS
  <2>2. notice' \in 0 .. NoNotice /\ faults' \in 0 .. MaxFaults
    BY <1>6 DEF read_controlmsg, TypeOK, NoNotice
  <2>3. job' = NoJob \/ job' \in [at : {"header", "data"}, next : 1 .. Pieces + 1]
    BY <1>6, <2>1 DEF read_controlmsg
  <2>4. QED
    BY <1>5, <1>6, <2>2, <2>3 DEF read_controlmsg
<1>7. CASE SendRefused
  BY <1>5, <1>7 DEF SendRefused, Fault, TypeOK
<1>8. ASSUME NEW m \in Message, Send(m),
             m.kind = "update" => m.sum = f_sum,
             job' = NoJob \/ job' \in [at : {"header", "data"}, next : 1 .. Pieces + 1]
      PROVE  IInv' /\ UNCHANGED installed
  <2>1. /\ net' = Append(net, m)
        /\ UNCHANGED <<shared, f_sum, notice, passed, agent, faults, recorded>>
    BY <1>8 DEF Send
  <2>2. /\ net' \in Seq(Message)
        /\ Len(net') = Len(net) + 1
        /\ \A k \in 1 .. Len(net) : net'[k] = net[k]
        /\ net'[Len(net) + 1] = m
    BY <2>1, AppendProperties
  <2>3. /\ Len(net) \in Nat /\ passed \in Nat
        /\ Version' = Version /\ \A v : MayFollow(v)' <=> MayFollow(v)
    BY <2>1, Numbers, SameMayFollow
  <2>4. TypeOK'
    <3>1. passed <= Len(net')
      BY <2>2, <2>3 DEF TypeOK
    <3>2. QED
      BY <1>8, <2>1, <3>1 DEF TypeOK
  <2>5. \A k \in 1 .. Len(net') : IsHeader(k)' =>
          IF k = Len(net) + 1 THEN net'[k].sum = f_sum
                              ELSE k \in 1 .. Len(net) /\ IsHeader(k) /\ net'[k] = net[k]
    BY <1>8, <2>2, <2>3 DEF IsHeader
  <2>6. \A k \in 1 .. Len(net') : IsHeader(k)' => net'[k].sum <= f_sum
    BY <1>2, <2>5 DEF HeadersInOrder
  <2>7. \A j, k \in 1 .. Len(net') :
          j < k /\ IsHeader(j)' /\ IsHeader(k)' => net'[j].sum <= net'[k].sum
    BY <2>2, <2>3, <2>5 DEF HeadersInOrder
  <2>8. HeadersInOrder'
    BY <2>1, <2>3, <2>6, <2>7 DEF HeadersInOrder
  <2>9. TransferMayFollow'
    BY <2>1, <2>3 DEF TransferMayFollow
  <2>10. MayFollow(f_sum) /\ (file => file_sum <= f_sum)
    BY Numbers DEF HeadersInOrder, MayFollow, TransferMayFollow, TypeOK
  <2>11. HeadersMayFollow'
    <3> SUFFICES ASSUME NEW k \in passed + 1 .. Len(net'), IsHeader(k)'
                 PROVE  MayFollow(net'[k].sum) /\ (file => file_sum <= net'[k].sum)
      BY <2>1, <2>3 DEF HeadersMayFollow
    <3>1. CASE k = Len(net) + 1
      BY <2>2, <2>3, <2>5, <2>10, <3>1
    <3>2. CASE k # Len(net) + 1
      <4>1. k \in 1 .. Len(net')
        BY <2>3
      <4>2. k \in passed + 1 .. Len(net) /\ IsHeader(k) /\ net'[k] = net[k]
        BY <2>3, <2>5, <3>2, <4>1
      <4>3. QED
        BY <4>2 DEF HeadersMayFollow
    <3>3. QED
      BY <3>1, <3>2
  <2>12. QED
    BY <2>1, <2>2, <2>4, <2>8, <2>9, <2>11
<1>9. CASE send_file_toagent
  <2>1. CASE SendHeader
    <3>1. [kind |-> "update", sum |-> f_sum] \in Message
      BY DEF Message, TypeOK
    <3>2. [at |-> "data", next |-> 1] \in [at : {"header", "data"}, next : 1 .. Pieces + 1]
      OBVIOUS
    <3>3. QED
      BY <1>8, <2>1, <3>1, <3>2 DEF SendHeader
  <2>2. CASE SendPiece
    <3>1. job \in [at : {"header", "data"}, next : 1 .. Pieces + 1]
      BY <2>2 DEF SendPiece, TypeOK, NoJob
    <3>2. [kind |-> "data", piece |-> <<f_sum, job.next>>] \in Message
      BY <2>2, <3>1 DEF SendPiece, Message, Piece, TypeOK
    <3>3. job' \in [at : {"header", "data"}, next : 1 .. Pieces + 1]
      BY <2>2, <3>1 DEF SendPiece
    <3>4. QED
      BY <1>8, <2>2, <3>2, <3>3 DEF SendPiece
  <2>3. CASE SendClose
    BY <1>8, <2>3 DEF SendClose, Message
  <2>4. QED
    BY <1>9, <2>1, <2>2, <2>3 DEF send_file_toagent
<1>10. QED
  BY <1>3, <1>4, <1>6, <1>7, <1>9

(* A message is lost: nothing else changes.                                *)
LEMMA LoseKeepsIInv ==
  ASSUME IInv, Lose
  PROVE  IInv' /\ UNCHANGED installed
<1>1. Pass /\ faults' \in 0 .. MaxFaults
  BY DEF Lose, Fault, IInv, TypeOK
<1>2. UNCHANGED <<shared, f_sum, notice, job, fp, file, file_sum, merged, installed,
                  stranded, fresh, again>>
  BY DEF Lose, manager, agent, recorded
<1>3. TypeOK'
  BY <1>1, <1>2, PassKeeps DEF IInv, TypeOK
<1>4. QED
  BY <1>1, <1>2, <1>3, PassKeeps DEF IInv

(* The header of a transfer: the agent has nothing of it yet, and what it  *)
(* unpacks next is the version the header announces.                       *)
LEMMA UpdateKeepsIInv ==
  ASSUME IInv, Pass, ReceiveUpdate(net[passed + 1])
  PROVE  IInv' /\ UNCHANGED installed
<1> DEFINE m == net[passed + 1]
<1>1. passed + 1 \in 1 .. Len(net) /\ m \in Message
  BY PassIs
<1>2. /\ m.kind = "update"
      /\ fp' = TRUE /\ file' = TRUE /\ file_sum' = m.sum /\ merged' = <<>>
      /\ UNCHANGED <<shared, f_sum, notice, job, installed, faults, stranded, fresh, again>>
  BY DEF ReceiveUpdate, manager, recorded
<1>3. Version' = Version /\ \A v : MayFollow(v)' <=> MayFollow(v)
  BY <1>2, SameMayFollow
<1>4. IsHeader(passed + 1) /\ m.sum \in Versions /\ m.sum <= f_sum /\ MayFollow(m.sum)
  <2>1. IsHeader(passed + 1) /\ passed + 1 \in passed + 1 .. Len(net)
    BY <1>1, <1>2, Numbers DEF IsHeader
  <2>2. QED
    BY <1>1, <2>1, Numbers DEF IInv, HeadersInOrder, HeadersMayFollow
<1>5. TypeOK'
  BY <1>2, <1>4, PassIs, EmptySeq DEF IInv, TypeOK
<1>6. InstalledIsWhole'
  BY <1>2 DEF IInv, InstalledIsWhole
<1>7. HeadersInOrder'
  BY <1>2, <1>3, PassKeepsOrder DEF IInv, HeadersInOrder
<1>8. TransferMayFollow'
  BY <1>2, <1>3, <1>4 DEF TransferMayFollow
<1>9. HeadersMayFollow'
  BY <1>2, <1>3, <1>4, PassKeepsOrder DEF HeadersMayFollow
<1>10. QED
  BY <1>2, <1>5, <1>6, <1>7, <1>8, <1>9, PassIs DEF IInv

(* A piece: only the file being written changes.                           *)
LEMMA DataKeepsIInv ==
  ASSUME IInv, Pass, ReceiveData(net[passed + 1])
  PROVE  IInv' /\ UNCHANGED installed
<1> DEFINE m == net[passed + 1]
<1>1. /\ m.kind = "data"
      /\ merged' = IF fp THEN Append(merged, m.piece) ELSE merged
      /\ UNCHANGED <<shared, f_sum, notice, job, fp, file, file_sum, installed,
                     faults, stranded, fresh, again>>
  BY DEF ReceiveData, manager, recorded
<1>2. m.piece \in Piece
  BY <1>1, PassIs DEF Message
<1>3. merged' \in Seq(Piece)
  BY <1>1, <1>2, AppendProperties DEF IInv, TypeOK
<1>4. TypeOK'
  BY <1>1, <1>3, PassKeeps DEF IInv, TypeOK
<1>5. QED
  BY <1>1, <1>4, PassKeeps DEF IInv

(* The close message: a file is unpacked only if it is the version the     *)
(* header announced, which may follow the one unpacked before.             *)
LEMMA CloseKeepsIInv ==
  ASSUME IInv, Pass, ReceiveClose(net[passed + 1])
  PROVE  IInv' /\ (Version' < Version => ~ fresh /\ Version' \in again)
<1>1. /\ fp' = FALSE /\ file' = FALSE
      /\ installed' = IF Complete THEN merged ELSE installed
      /\ merged' = IF file /\ ~ Complete THEN <<>> ELSE merged
      /\ fresh' = (Complete \/ fresh)
      /\ UNCHANGED <<shared, f_sum, notice, job, file_sum, faults, stranded, again>>
  BY DEF ReceiveClose, manager
<1>2. merged' \in Seq(Piece) /\ fresh' \in BOOLEAN
  BY <1>1, EmptySeq DEF IInv, TypeOK
<1>3. TransferMayFollow'
  BY <1>1 DEF TransferMayFollow
<1>4. CASE ~ Complete
  <2>1. installed' = installed /\ fresh' = fresh
    BY <1>1, <1>4 DEF IInv, TypeOK
  <2>2. Version' = Version /\ \A v : MayFollow(v)' <=> MayFollow(v)
    BY <1>1, <2>1, SameMayFollow
  <2>3. TypeOK'
    BY <1>1, <1>2, <2>1, PassIs DEF IInv, TypeOK
  <2>4. InstalledIsWhole' /\ HeadersInOrder' /\ HeadersMayFollow'
    BY <1>1, <2>1, <2>2, PassKeepsOrder
    DEF IInv, InstalledIsWhole, HeadersInOrder, HeadersMayFollow
  <2>5. ~ (Version' < Version)
    BY <2>2, Numbers
  <2>6. QED
    BY <1>3, <2>3, <2>4, <2>5, PassIs DEF IInv
<1>5. CASE Complete
  <2>1. /\ file /\ Sum = file_sum
        /\ MayFollow(file_sum) /\ file_sum \in Versions /\ file_sum <= f_sum
    BY <1>5 DEF Complete, IInv, TransferMayFollow, MayFollow
  <2>2. installed' = Whole(file_sum) /\ fresh' = TRUE
    BY <1>1, <1>5, <2>1, SumOfWhole
  <2>3. Version' = file_sum /\ installed' \in Seq(Piece)
    BY <2>1, <2>2, WholeFile DEF Version
  <2>4. TypeOK'
    BY <1>1, <1>2, <2>3, PassIs DEF IInv, TypeOK
  <2>5. InstalledIsWhole'
    BY <2>1, <2>2 DEF InstalledIsWhole
  <2>6. HeadersInOrder'
    BY <1>1, <2>1, <2>3, PassKeepsOrder DEF IInv, HeadersInOrder
  <2>7. HeadersMayFollow'
    <3> SUFFICES ASSUME NEW k \in passed' + 1 .. Len(net'), IsHeader(k)'
                 PROVE  MayFollow(net[k].sum)'
      BY <1>1 DEF HeadersMayFollow
    <3>1. net'[k].sum \in Versions /\ file_sum <= net'[k].sum
      BY <2>1, PassKeepsOrder DEF MayFollow
    <3>2. ~ (net'[k].sum < Version')
      BY <2>1, <2>3, <3>1 DEF Versions
    <3>3. QED
      BY <3>1, <3>2 DEF MayFollow
  <2>8. Version' < Version => ~ fresh /\ Version' \in again
    BY <2>1, <2>3 DEF MayFollow
  <2>9. QED
    BY <1>3, <2>4, <2>5, <2>6, <2>7, <2>8, PassIs DEF IInv
<1>6. QED
  BY <1>4, <1>5

(* A keep-alive changes nothing but what the manager has been told.        *)
LEMMA NotifyKeepsIInv ==
  ASSUME IInv, run_notify
  PROVE  IInv' /\ UNCHANGED installed
<1>1. UNCHANGED <<shared, f_sum, job, net, passed, fp, file, file_sum, merged,
                  installed, faults, stranded, fresh, again>>
  BY DEF run_notify, channel, agent, recorded
<1>2. notice' \in 0 .. NoNotice
  BY SumOfWhole DEF run_notify, Versions, Other, NoNotice
<1>3. TypeOK'
  BY <1>1, <1>2 DEF IInv, TypeOK
<1>4. Version' = Version /\ \A v : MayFollow(v)' <=> MayFollow(v)
  BY <1>1, SameMayFollow
<1>5. QED
  BY <1>1, <1>3, <1>4
  DEF IInv, InstalledIsWhole, HeadersInOrder, TransferMayFollow, HeadersMayFollow, IsHeader

(* A restart: a header the agent was past may bring back an old version,   *)
(* and is recorded; the others may follow as they might before.            *)
LEMMA RestartKeepsIInv ==
  ASSUME IInv, Restart
  PROVE  IInv' /\ UNCHANGED installed
<1>0. PICK from \in 0 .. passed : passed' = from
  BY DEF Restart
<1>1. /\ again' = (IF fresh THEN {} ELSE again) \cup Headers(from + 1, passed)
      /\ faults' \in 0 .. MaxFaults
      /\ fresh' = FALSE /\ fp' = FALSE /\ file' = FALSE /\ file_sum' = Other
      /\ UNCHANGED <<shared, f_sum, notice, job, net, installed>>
  BY <1>0 DEF Restart, Fault, IInv, TypeOK, manager
<1>2. stranded' \subseteq Versions
  BY DEF Restart, IInv, TypeOK
<1>3. merged' \in Seq(Piece)
  <2>1. CASE UNCHANGED merged
    BY <2>1 DEF IInv, TypeOK
  <2>2. CASE \E k \in 0 .. Len(merged) - 1 : merged' = SubSeq(merged, 1, k)
    <3>1. Len(merged) \in Nat /\ \A i \in 1 .. Len(merged) : merged[i] \in Piece
      BY LenProperties, ElementOfSeq DEF IInv, TypeOK
    <3>2. PICK k \in 0 .. Len(merged) - 1 : merged' = SubSeq(merged, 1, k)
      BY <2>2
    <3>3. k \in Int /\ \A i \in 1 .. k : merged[i] \in Piece
      BY <3>1
    <3>4. QED
      BY <3>2, <3>3, SubSeqProperties
  <2>3. QED
    BY <2>1, <2>2 DEF Restart
<1>4. /\ passed \in Nat /\ passed <= Window /\ Len(net) \in Nat /\ passed <= Len(net)
      /\ from \in Nat /\ from <= passed
  BY Numbers DEF IInv, TypeOK
<1>5. \A k \in from + 1 .. passed : IsHeader(k) => net[k].sum \in again'
  BY <1>1 DEF Headers, IsHeader
<1>6. again' \subseteq Versions
  <2>1. \A k \in from + 1 .. passed : k \in 1 .. Len(net)
    BY <1>4
  <2>2. Headers(from + 1, passed) \subseteq Versions
    BY <2>1, Numbers DEF Headers, IsHeader
  <2>3. QED
    BY <1>1, <2>2 DEF IInv, TypeOK
<1>7. passed' \in 0 .. Window /\ passed' <= Len(net')
  BY <1>0, <1>1, <1>4
<1>8. TypeOK'
  BY <1>1, <1>2, <1>3, <1>6, <1>7 DEF IInv, TypeOK
<1>9. Version' = Version
  BY <1>1 DEF Version
<1>10. InstalledIsWhole' /\ HeadersInOrder' /\ TransferMayFollow'
  BY <1>1, <1>9 DEF IInv, InstalledIsWhole, HeadersInOrder, IsHeader, TransferMayFollow
<1>11. HeadersMayFollow'
  <2> SUFFICES ASSUME NEW k \in from + 1 .. Len(net), IsHeader(k)
               PROVE  MayFollow(net[k].sum)'
    BY <1>0, <1>1 DEF HeadersMayFollow, IsHeader
  <2>1. net[k].sum \in Versions
    BY Numbers
  <2>2. CASE k <= passed
    <3>1. k \in from + 1 .. passed
      BY <1>4, <2>2
    <3>2. net[k].sum \in again'
      BY <1>5, <3>1
    <3>3. QED
      BY <1>1, <2>1, <3>2 DEF MayFollow
  <2>3. CASE ~ (k <= passed)
    <3>1. k \in passed + 1 .. Len(net)
      BY <1>4, <2>3
    <3>2. MayFollow(net[k].sum)
      BY <3>1 DEF IInv, HeadersMayFollow
    <3>3. ~ fresh => again \subseteq again'
      BY <1>1
    <3>4. QED
      BY <1>1, <1>9, <2>1, <3>2, <3>3 DEF MayFollow
  <2>4. QED
    BY <2>2, <2>3
<1>12. QED
  BY <1>1, <1>8, <1>10, <1>11 DEF IInv

-----------------------------------------------------------------------------
(* Every step keeps the invariant, and goes back to an older version only  *)
(* if the agent unpacked the newer one before it was started again.        *)
LEMMA StepKeepsIInv ==
  ASSUME IInv, [Next]_vars
  PROVE  IInv' /\ (Version' < Version => ~ fresh /\ Version' \in again)
<1>1. UNCHANGED installed => ~ (Version' < Version)
  BY Numbers DEF Version
<1>2. CASE UNCHANGED vars
  <2>1. Version' = Version /\ \A v : MayFollow(v)' <=> MayFollow(v)
    BY <1>2, SameMayFollow DEF vars
  <2>2. QED
    BY <1>1, <1>2, <2>1
    DEF vars, IInv, TypeOK, InstalledIsWhole, HeadersInOrder, TransferMayFollow,
        HeadersMayFollow, IsHeader
<1>3. CASE receive_msg
  <2>1. PICK m \in InFlight : ReceiveUpdate(m) \/ ReceiveData(m) \/ ReceiveClose(m)
    BY <1>3 DEF receive_msg
  <2>2. Pass /\ m = net[passed + 1]
    BY <2>1 DEF ReceiveUpdate, ReceiveData, ReceiveClose, Arrives
  <2>3. QED
    BY <1>1, <2>1, <2>2, UpdateKeepsIInv, DataKeepsIInv, CloseKeepsIInv
<1>4. QED
  BY <1>1, <1>2, <1>3, ManagerKeepsIInv, LoseKeepsIInv, NotifyKeepsIInv, RestartKeepsIInv
  DEF Next

(* Whatever is lost, or comes again after a restart, what an agent unpacks *)
(* is one whole version of the shared directory.                           *)
THEOREM AgentUnpacksWholeVersions == Spec => []TransferInv
<1>1. IInv /\ [Next]_vars => IInv'
  BY StepKeepsIInv
<1>2. IInv => TransferInv
  BY DEF IInv, TransferInv
<1>3. QED
  BY InitEstablishes, <1>1, <1>2, PTL DEF Spec

(* Within a session the agent never unpacks an older version than it did   *)
(* before, however many transfers are in flight.  After a restart it can,  *)
(* only by a header it was past that its stored counter lets through.      *)
THEOREM AgentNeverRollsBack == Spec => NeverRollsBack
<1>1. IInv /\ [Next]_vars => IInv'
  BY StepKeepsIInv
<1>2. IInv /\ [Next]_vars => [Version' < Version => ~ fresh /\ Version' \in again]_vars
  BY StepKeepsIInv
<1>3. QED
  BY InitEstablishes, <1>1, <1>2, PTL DEF Spec, NeverRollsBack

-----------------------------------------------------------------------------
(* The two threads that handle control messages (ControlMsg).              *)

(* A marked agent, or one being saved, has a message stored.               *)
Stored ==
  /\ \A i \in Agents : changed[i] = 1 => msg[i] # None
  /\ rcv # Idle => msg[rcv.agent] # None

(* Agents the scan of the waiting thread still has before it.              *)
Ahead(i) == \/ wait.at = "scan" /\ wait.i <= i
            \/ wait.at = "read" /\ wait.i < i

(* An announcement stands for the agent announced last; once forgotten,    *)
(* what is still marked is ahead of the scan or below that agent.          *)
Announcement ==
  /\ modified # -1 => modified = newest
  /\ modified = -1 => \A i \in Agents : changed[i] = 1 => Ahead(i) \/ i < newest

ThreadsIInv ==
  /\ ControlTypeOK
  /\ Stored
  /\ Announcement
  /\ AsleepOnlyIfIdle
  /\ NothingUnread

(* A step of the receiving thread.                                         *)
LEMMA ReceivePreserves ==
  ASSUME ThreadsIInv, Receive
  PROVE  ThreadsIInv'
<1> USE KeySizeAssumption, NoneAssumption
<1> USE DEF ThreadsIInv, ControlTypeOK, Stored, Announcement, Ahead, AsleepOnlyIfIdle,
            NothingUnread, Agents, Idle, history
<1>1. ASSUME NEW i \in Agents, SaveSame(i)
      PROVE  ThreadsIInv'
  BY <1>1 DEF SaveSame
<1>2. ASSUME NEW i \in Agents, NEW m \in Messages, SaveNew(i, m)
      PROVE  ThreadsIInv'
  BY <1>2 DEF SaveNew
<1>3. CASE WriteAgentFile
  <2>1. rcv \in [at : {"file", "notify"}, agent : Agents] /\ msg[rcv.agent] # None
    BY <1>3 DEF WriteAgentFile
  <2>2. /\ rcv' \in [at : {"file", "notify"}, agent : Agents]
        /\ rcv'.agent = rcv.agent
        /\ keep_alive' \in [Agents -> BOOLEAN]
    BY <1>3, <2>1 DEF WriteAgentFile
  <2>3. UNCHANGED <<msg, changed, modified, wait, newest, unread>>
    BY <1>3 DEF WriteAgentFile
  <2>4. ControlTypeOK'
    BY <2>2, <2>3
  <2>5. QED
    BY <2>1, <2>2, <2>3, <2>4
<1>4. CASE InvalidUname
  BY <1>4 DEF InvalidUname
<1>5. CASE Notify
  BY <1>5 DEF Notify, Woken
<1>6. QED
  BY <1>1, <1>2, <1>3, <1>4, <1>5 DEF Receive, KeepAlive

(* A step of the waiting thread.                                           *)
LEMMA WaitPreserves ==
  ASSUME ThreadsIInv, wait_for_msgs \/ SpuriousWakeup
  PROVE  ThreadsIInv'
<1> USE KeySizeAssumption, NoneAssumption
<1> USE DEF ThreadsIInv, ControlTypeOK, Stored, Announcement, Ahead, AsleepOnlyIfIdle,
            NothingUnread, Agents, Idle, history
<1>1. CASE AwaitChange
  BY <1>1 DEF AwaitChange
<1>2. CASE SpuriousWakeup
  BY <1>2 DEF SpuriousWakeup
<1>3. CASE SkipAgent
  BY <1>3 DEF SkipAgent, NextAgent
<1>4. CASE TakeMessage
  BY <1>4 DEF TakeMessage, Take
<1>5. CASE AnswerMessage
  BY <1>5 DEF AnswerMessage, NextAgent
<1>6. QED
  BY <1>1, <1>2, <1>3, <1>4, <1>5 DEF wait_for_msgs

(* Every step of either thread, and of neither, preserves ThreadsIInv.     *)
LEMMA ThreadsInvariance == ControlSpec => []ThreadsIInv
<1>1. ControlInit => ThreadsIInv
  BY KeySizeAssumption, NoneAssumption DEF ControlInit, ThreadsIInv, ControlTypeOK, Stored, Announcement, Ahead, AsleepOnlyIfIdle,
      NothingUnread, Agents, Idle
<1>2. ThreadsIInv /\ [ControlNext]_controlVars => ThreadsIInv'
  <2>1. ASSUME ThreadsIInv, UNCHANGED controlVars
        PROVE  ThreadsIInv'
    BY <2>1 DEF controlVars, ThreadsIInv, ControlTypeOK, Stored, Announcement, Ahead,
                AsleepOnlyIfIdle, NothingUnread
  <2>2. QED
    BY <2>1, ReceivePreserves, WaitPreserves DEF ControlNext
<1>3. QED
  BY <1>1, <1>2, PTL DEF ControlSpec

(* The threads' state is well formed in every reachable state, no          *)
(* announcement slips in between the copy of a message and the clearing of *)
(* its mark, and the waiting thread never sleeps on an announcement.       *)
THEOREM ThreadsCorrect == ControlSpec => []ThreadsInv
<1>1. ThreadsIInv => ThreadsInv
  BY DEF ThreadsIInv, ThreadsInv
<1>2. QED
  BY <1>1, ThreadsInvariance, PTL

(* A change the waiting thread sleeps on is one a later agent overtook.    *)
THEOREM OvertakenOnly == ControlSpec => []OverlookedOnlyIfOvertaken
<1>1. ThreadsIInv => OverlookedOnlyIfOvertaken
  BY DEF ThreadsIInv, AsleepOnlyIfIdle, Announcement, Ahead, OverlookedOnlyIfOvertaken
<1>2. QED
  BY <1>1, ThreadsInvariance, PTL
=============================================================================
