--------------------------- MODULE ConnectionProofs --------------------------
(***************************************************************************)
(* Proofs about the connection of an agent and its manager: the counters   *)
(* of their messages (SecMsg), the agent's daemon (AgentConn), and the     *)
(* keys the agent is given (Enrolment).                                    *)
(*                                                                         *)
(* For every set of agents, every wrap of the local counter and every      *)
(* flush interval: the types, the bound on what a crashed sender can lose, *)
(* the barrier of the stored counters, and the ordered channel each        *)
(* session implements.  For every number of servers, all limits and queue  *)
(* sizes: what a collector can queue while agentd is away and what it can  *)
(* lose, and that agentd leaves a server only if it is silent or has not   *)
(* been read.  For any number of administrators, hosts and clients, any    *)
(* size of the pool and any length of client.keys: an id or a name is      *)
(* given twice only by a tool that had not seen the line, edits never hit  *)
(* the wrong line, and authd accounts for every child.                     *)
(***************************************************************************)
EXTENDS SecMsg, AgentConn, Enrolment, FiniteSetTheorems, SequenceTheorems,
        WellFoundedInduction, TLAPS

-----------------------------------------------------------------------------
(* Leq is an order on counters, and Succ a step up it that preserves it,   *)
(* across the wrap of the local counter too.                               *)

(* A counter is not newer than itself.                                     *)
LEMMA LeqReflexive == \A c : Leq(c, c)
  BY DEF Leq

(* Counters are compared transitively.                                     *)
LEMMA LeqTransitive ==
  ASSUME NEW c \in Counter, NEW d \in Counter, NEW e \in Counter,
         Leq(c, d), Leq(d, e)
  PROVE  Leq(c, e)
  BY DEF Leq, Less, Counter

(* A counter ReadSecMSG accepts is not at or below the saved one.          *)
LEMMA LessImpliesNotLeq ==
  ASSUME NEW c \in Counter, NEW d \in Counter, Less(c, d)
  PROVE  Leq(c, d) /\ ~ Leq(d, c)
  BY DEF Leq, Less, Counter

(* The wrap keeps the local counter in its four digits.                    *)
LEMMA SuccIsCounter ==
  ASSUME NEW c \in Counter
  PROVE  Succ(c) \in Counter
  BY MaxLocalAssumption DEF Succ, Counter

(* CreateSecMSG moves its counter up.                                      *)
LEMMA SuccIsLater ==
  ASSUME NEW c \in Counter
  PROVE  Leq(c, Succ(c))
  BY MaxLocalAssumption DEF Leq, Less, Succ, Counter

(* Starting from a later counter gives a later counter.                    *)
LEMMA SuccMonotonic ==
  ASSUME NEW c \in Counter, NEW d \in Counter, Leq(c, d)
  PROVE  Leq(Succ(c), Succ(d))
  BY MaxLocalAssumption DEF Leq, Less, Succ, Counter

(* The counter of an older peer: later than any successor of its last one. *)
LegacyNext(c) == [global |-> c.global + 1, local |-> 1]

LEMMA LegacyIsLater ==
  ASSUME NEW c \in Counter
  PROVE  /\ LegacyNext(c) \in Counter
         /\ Leq(c, LegacyNext(c))
         /\ Leq(Succ(c), LegacyNext(c))
  BY MaxLocalAssumption DEF Leq, Less, Succ, Counter, LegacyNext

-----------------------------------------------------------------------------
(* Every step only creates well-formed counters and streams, and the       *)
(* count towards the next flush stays within its interval.                 *)
THEOREM TypeCorrect == Spec => []TypeOK
<1>1. Init => TypeOK
  BY MaxLocalAssumption, RecvFlushAssumption
  DEF Init, TypeOK, Stream, Counter, Zero
<1>2. TypeOK /\ [Next]_vars => TypeOK'
  <2> SUFFICES ASSUME TypeOK, [Next]_vars
               PROVE  TypeOK'
    OBVIOUS
  <2> USE DEF TypeOK, sender, receiver
  <2>1. ASSUME NEW a \in Agents, CreateSecMSG(a)
        PROVE  TypeOK'
    <3>1. Succ(scount[a]) \in Counter
      BY SuccIsCounter
    <3>2. Stored(sfile[a], Succ(scount[a])) \in Stream
      BY <3>1 DEF Stored, Stream
    <3>3. QED
      BY <2>1, <3>1, <3>2 DEF CreateSecMSG, Send, Message
  <2>2. ASSUME NEW a \in Agents, LegacySend(a)
        PROVE  TypeOK'
    <3>1. LegacyNext(scount[a]) \in Counter
      BY LegacyIsLater
    <3>2. QED
      BY <2>2, <3>1 DEF LegacySend, LegacyNext, Send, Message, Stream
  <2>3. ASSUME NEW a \in Agents, NEW f \in Stream, StartSender(a, f)
        PROVE  TypeOK'
    BY <2>3 DEF StartSender, Stream
  <2>4. ASSUME NEW m \in wire, ReadSecMSG(m)
        PROVE  TypeOK'
    <3>1. m \in Message
      OBVIOUS
    <3>2. Stored(rfile[m.from], m.count) \in Stream
      BY <3>1 DEF Stored, Stream, Message
    <3>3. rcv_count' \in 0 .. RecvFlush
      BY <2>4, RecvFlushAssumption DEF ReadSecMSG
    <3>4. QED
      BY <2>4, <3>1, <3>2, <3>3 DEF ReadSecMSG, Message
  <2>5. ASSUME NEW files \in [Agents -> Stream], OS_StartCounter(files),
               rcv_count' \in {0, rcv_count}
        PROVE  TypeOK'
    BY <2>5, RecvFlushAssumption DEF OS_StartCounter, Stream
  <2>6. \A f \in Stream : Closed(f) \in Stream /\ Dropped(f) \in Stream
    BY DEF Closed, Dropped, Stream
  <2>7. QED
    BY <2>1, <2>2, <2>3, <2>4, <2>5, <2>6
    DEF Next, SenderExit, SenderCrash, OS_UpdateKeys, ReceiverExit,
        ReceiverCrash, vars
<1>3. QED
  BY <1>1, <1>2, PTL DEF Spec

-----------------------------------------------------------------------------
(* The inductive invariant.  What a sender's file holds bounds everything  *)
(* it ever sent, by one step; messages are numbered in the order of their  *)
(* counters; and the receiver's file, stream and saved counter are in that *)
(* order, all of them counters of messages that were sent.                 *)

SenderFile ==
  \A a \in Agents : /\ scount[a] = sfile[a].buf
                    /\ Leq(sfile[a].disk, sfile[a].buf)
                    /\ Leq(sfile[a].buf, Succ(sfile[a].disk))

WireBounded ==
  \A m \in wire : /\ m.id \in 1 .. sent[m.from]
                  /\ Leq(m.count, Succ(sfile[m.from].disk))

WireOrdered ==
  \A m, n \in wire : m.from = n.from /\ m.id <= n.id => Leq(m.count, n.count)

SessionInv ==
  \A a \in Agents :
    \/ last[a] = 0
    \/ \E m \in wire : m.from = a /\ m.id = last[a] /\ m.count = saved[a]

ReceiverFile ==
  \A a \in Agents : /\ Leq(rfile[a].disk, rfile[a].buf)
                    /\ Leq(rfile[a].buf, saved[a])
                    /\ Leq(saved[a], Succ(sfile[a].disk))

IInv ==
  /\ TypeOK
  /\ SenderFile
  /\ WireBounded
  /\ WireOrdered
  /\ SessionInv
  /\ ReceiverFile

(* What sending a message with counter c must guarantee, for either kind   *)
(* of peer, to preserve the invariant.                                     *)
LEMMA SendPreserves ==
  ASSUME IInv, TypeOK',
         NEW a \in Agents, NEW c \in Counter, NEW f \in Stream,
         Send(a, c), sfile' = [sfile EXCEPT ![a] = f],
         f.buf = c,
         Leq(sfile[a].disk, f.disk), Leq(f.disk, c), Leq(c, Succ(f.disk)),
         Leq(Succ(sfile[a].disk), c)
  PROVE  IInv'
<1> USE DEF IInv
<1>1. /\ sfile[a].disk \in Counter
      /\ f.disk \in Counter
      /\ Succ(sfile[a].disk) \in Counter
      /\ Succ(f.disk) \in Counter
  BY SuccIsCounter DEF TypeOK, Stream
<1>2. Leq(Succ(sfile[a].disk), Succ(f.disk))
  BY <1>1, SuccMonotonic
<1>3. DEFINE new == [from |-> a, id |-> sent[a] + 1, count |-> c]
<1>4. wire' = wire \cup {new} /\ sent' = [sent EXCEPT ![a] = @ + 1]
  BY DEF Send
<1>5. \A m \in wire : /\ m.from \in Agents /\ m.id \in Nat /\ m.count \in Counter
                      /\ m.from = a => Leq(m.count, c)
  BY <1>1, LeqTransitive DEF TypeOK, Message, WireBounded
<1>6. SenderFile'
  BY DEF SenderFile, Send, TypeOK
<1>7. WireBounded'
  <2> SUFFICES ASSUME NEW m \in wire'
               PROVE  /\ m.id \in 1 .. sent'[m.from]
                      /\ Leq(m.count, Succ(sfile'[m.from].disk))
    BY DEF WireBounded
  <2>1. CASE m = new
    BY <2>1, <1>4 DEF TypeOK
  <2>2. CASE m \in wire
    <3>1. m.id \in 1 .. sent[m.from] /\ Leq(m.count, Succ(sfile[m.from].disk))
      BY <2>2 DEF WireBounded
    <3>2. m.id \in 1 .. sent'[m.from]
      BY <1>4, <1>5, <2>2, <3>1 DEF TypeOK
    <3>3. CASE m.from = a
      BY <1>1, <1>2, <1>5, <2>2, <3>1, <3>2, <3>3, LeqTransitive DEF TypeOK
    <3>4. CASE m.from # a
      BY <1>5, <2>2, <3>1, <3>2, <3>4 DEF TypeOK
    <3>5. QED
      BY <3>3, <3>4
  <2>3. QED
    BY <1>4, <2>1, <2>2
<1>8. WireOrdered'
  <2> SUFFICES ASSUME NEW m \in wire', NEW n \in wire',
                      m.from = n.from, m.id <= n.id
               PROVE  Leq(m.count, n.count)
    BY DEF WireOrdered
  <2>1. CASE n \in wire
    <3>1. m # new
      BY <2>1 DEF WireBounded, TypeOK
    <3>2. QED
      BY <1>4, <2>1, <3>1 DEF WireOrdered
  <2>2. CASE n = new
    BY <1>4, <1>5, <2>2, LeqReflexive
  <2>3. QED
    BY <1>4, <2>1, <2>2
<1>9. SessionInv'
  BY <1>4 DEF SessionInv, Send, receiver
<1>10. ReceiverFile'
  <2> SUFFICES ASSUME NEW b \in Agents
               PROVE  Leq(saved[b], Succ(sfile'[b].disk))
    BY DEF ReceiverFile, Send, receiver
  <2>1. saved[b] \in Counter /\ Leq(saved[b], Succ(sfile[b].disk))
    BY DEF ReceiverFile, TypeOK
  <2>2. CASE b = a
    BY <1>1, <1>2, <2>1, <2>2, LeqTransitive DEF TypeOK
  <2>3. CASE b # a
    BY <2>1, <2>3 DEF TypeOK
  <2>4. QED
    BY <2>2, <2>3
<1>11. QED
  BY <1>6, <1>7, <1>8, <1>9, <1>10

(* A peer that comes back on its file resumes at a counter the file bounds. *)
LEMMA StartSenderPreserves ==
  ASSUME IInv, TypeOK',
         NEW a \in Agents, NEW f \in Stream,
         StartSender(a, f),
         f.buf = f.disk, Leq(sfile[a].disk, f.disk)
  PROVE  IInv'
<1> USE DEF IInv
<1>1. /\ sfile[a].disk \in Counter
      /\ f.disk \in Counter
      /\ Succ(sfile[a].disk) \in Counter
      /\ Succ(f.disk) \in Counter
  BY SuccIsCounter DEF TypeOK, Stream
<1>2. Leq(Succ(sfile[a].disk), Succ(f.disk))
  BY <1>1, SuccMonotonic
<1>3. \A b \in Agents, c \in Counter :
        Leq(c, Succ(sfile[b].disk)) => Leq(c, Succ(sfile'[b].disk))
  <2> TAKE b \in Agents, c \in Counter
  <2> HAVE Leq(c, Succ(sfile[b].disk))
  <2>1. CASE b = a
    BY <1>1, <1>2, <2>1, LeqTransitive DEF StartSender, TypeOK
  <2>2. CASE b # a
    BY <2>2 DEF StartSender, TypeOK
  <2>3. QED
    BY <2>1, <2>2
<1>4. SenderFile'
  BY <1>1, LeqReflexive, SuccIsLater DEF SenderFile, StartSender, TypeOK
<1>5. WireBounded'
  BY <1>3 DEF WireBounded, StartSender, TypeOK, Message
<1>6. WireOrdered' /\ SessionInv'
  BY DEF WireOrdered, SessionInv, StartSender, receiver
<1>7. ReceiverFile'
  BY <1>3 DEF ReceiverFile, StartSender, receiver, TypeOK
<1>8. QED
  BY <1>4, <1>5, <1>6, <1>7

(* An accepted message is the newest of its peer in the session.           *)
LEMMA AcceptedIsNewest ==
  ASSUME IInv, NEW m \in wire, ReadSecMSG(m)
  PROVE  m.id \in last[m.from] + 1 .. sent[m.from]
<1> USE DEF IInv
<1>1. m \in Message /\ m.id \in 1 .. sent[m.from]
  BY DEF TypeOK, WireBounded
<1>2. ~ Leq(m.count, saved[m.from])
  BY <1>1, LessImpliesNotLeq DEF ReadSecMSG, TypeOK, Message
<1>3. CASE last[m.from] = 0
  BY <1>1, <1>3
<1>4. CASE last[m.from] # 0
  <2>1. PICK n \in wire : /\ n.from = m.from
                         /\ n.id = last[m.from]
                         /\ n.count = saved[m.from]
    BY <1>1, <1>4 DEF SessionInv, Message
  <2>2. ~ (m.id <= n.id)
    BY <1>2, <2>1 DEF WireOrdered
  <2>3. QED
    BY <1>1, <2>1, <2>2 DEF TypeOK, Message
<1>5. QED
  BY <1>3, <1>4

(* Accepting a message keeps the saved counter above the stored one.       *)
LEMMA ReadPreserves ==
  ASSUME IInv, TypeOK', NEW m \in wire, ReadSecMSG(m)
  PROVE  IInv'
<1> USE DEF IInv
<1>1. /\ m.from \in Agents
      /\ m.count \in Counter
      /\ saved[m.from] \in Counter
      /\ rfile[m.from].buf \in Counter
  BY DEF TypeOK, Message, Stream
<1>2. Leq(saved[m.from], m.count)
  BY <1>1, LessImpliesNotLeq DEF ReadSecMSG
<1>3. Leq(rfile[m.from].buf, m.count)
  BY <1>1, <1>2, LeqTransitive DEF ReceiverFile
<1>4. SenderFile' /\ WireBounded' /\ WireOrdered'
  BY DEF SenderFile, WireBounded, WireOrdered, ReadSecMSG, sender
<1>5. SessionInv'
  BY <1>1 DEF SessionInv, ReadSecMSG, sender, TypeOK
<1>6. ReceiverFile'
  <2> SUFFICES ASSUME NEW b \in Agents
               PROVE  /\ Leq(rfile'[b].disk, rfile'[b].buf)
                      /\ Leq(rfile'[b].buf, saved'[b])
                      /\ Leq(saved'[b], Succ(sfile'[b].disk))
    BY DEF ReceiverFile
  <2>1. CASE b # m.from
    BY <2>1, <1>1 DEF ReceiverFile, ReadSecMSG, sender, TypeOK
  <2>2. CASE b = m.from
    <3>1. saved'[b] = m.count /\ sfile' = sfile
      BY <2>2, <1>1 DEF ReadSecMSG, sender, TypeOK
    <3>2. Leq(saved'[b], Succ(sfile'[b].disk))
      BY <2>2, <3>1 DEF WireBounded
    <3>3. CASE rfile' = rfile
      BY <1>3, <2>2, <3>1, <3>2, <3>3 DEF ReceiverFile
    <3>4. CASE rfile' = [rfile EXCEPT ![b] = Stored(@, m.count)]
      BY <1>3, <2>2, <3>1, <3>2, <3>4, LeqReflexive DEF Stored, TypeOK
    <3>5. QED
      BY <2>2, <3>3, <3>4 DEF ReadSecMSG
  <2>3. QED
    BY <2>1, <2>2
<1>7. QED
  BY <1>4, <1>5, <1>6

(* Reading the counters back from files that lie between the old file and  *)
(* its stream keeps them below the counters already accepted.              *)
LEMMA StartCounterPreserves ==
  ASSUME IInv, TypeOK', NEW files \in [Agents -> Stream],
         OS_StartCounter(files),
         \A a \in Agents : /\ files[a].buf = files[a].disk
                           /\ Leq(files[a].disk, rfile[a].buf)
  PROVE  IInv'
<1> USE DEF IInv
<1>1. SenderFile' /\ WireBounded' /\ WireOrdered' /\ SessionInv'
  BY DEF SenderFile, WireBounded, WireOrdered, SessionInv, OS_StartCounter, sender
<1>2. ReceiverFile'
  <2> SUFFICES ASSUME NEW a \in Agents
               PROVE  Leq(files[a].disk, Succ(sfile[a].disk))
    BY LeqReflexive DEF ReceiverFile, OS_StartCounter, sender
  <2>1. /\ files[a].disk \in Counter
        /\ rfile[a].buf \in Counter
        /\ saved[a] \in Counter
        /\ Succ(sfile[a].disk) \in Counter
    BY SuccIsCounter DEF TypeOK, Stream
  <2>2. Leq(files[a].disk, saved[a])
    BY <2>1, LeqTransitive DEF ReceiverFile
  <2>3. QED
    BY <2>1, <2>2, LeqTransitive DEF ReceiverFile
<1>3. QED
  BY <1>1, <1>2

-----------------------------------------------------------------------------
(* Every action is one of the steps above; the kinds of stop differ only   *)
(* in the file they leave.                                                 *)

Stopped(f) == [disk |-> f, buf |-> f]

(* The steps of Next, by the lemma that covers them.                       *)
LEMMA Invariance == Spec => []IInv
<1>1. Init => IInv
  BY MaxLocalAssumption, LeqReflexive, SuccIsLater, RecvFlushAssumption
  DEF Init, IInv, TypeOK, SenderFile, WireBounded, WireOrdered, SessionInv,
      ReceiverFile, Stream, Counter, Zero
<1>2. IInv /\ TypeOK' /\ [Next]_vars => IInv'
  <2> SUFFICES ASSUME IInv, TypeOK', [Next]_vars
               PROVE  IInv'
    OBVIOUS
  <2>1. /\ scount \in [Agents -> Counter]
        /\ sfile \in [Agents -> Stream]
        /\ rfile \in [Agents -> Stream]
    BY DEF IInv, TypeOK
  <2>2. \A f \in Stream : f.disk \in Counter /\ f.buf \in Counter
    BY DEF Stream
  <2>3. ASSUME NEW a \in Agents, CreateSecMSG(a)
        PROVE  IInv'
    <3> DEFINE c == Succ(scount[a])
               f == Stored(sfile[a], c)
    <3>1. c \in Counter /\ f \in Stream /\ f.buf = c /\ f.disk = scount[a]
      BY <2>1, <2>2, SuccIsCounter DEF Stored, Stream, IInv, SenderFile
    <3>2. Leq(sfile[a].disk, f.disk)
      BY <3>1 DEF IInv, SenderFile
    <3>3. Leq(f.disk, c)
      BY <2>1, <3>1, SuccIsLater
    <3>4. Leq(Succ(sfile[a].disk), c)
      BY <2>1, <2>2, <3>1, <3>2, SuccMonotonic
    <3>5. Send(a, c) /\ sfile' = [sfile EXCEPT ![a] = f]
      BY <2>3 DEF CreateSecMSG
    <3>6. Leq(c, Succ(f.disk))
      BY <3>1, LeqReflexive
    <3>7. QED
      BY <3>1, <3>2, <3>3, <3>4, <3>5, <3>6, SendPreserves
  <2>4. ASSUME NEW a \in Agents, LegacySend(a)
        PROVE  IInv'
    <3> DEFINE c == LegacyNext(scount[a])
               f == Stopped(c)
    <3>1. c \in Counter /\ f \in Stream /\ f.buf = c /\ f.disk = c
      BY <2>1, LegacyIsLater DEF Stream, Stopped
    <3>2. /\ sfile[a].disk \in Counter /\ scount[a] \in Counter
          /\ Succ(sfile[a].disk) \in Counter /\ Succ(scount[a]) \in Counter
      BY <2>1, <2>2, SuccIsCounter
    <3>3. Leq(Succ(sfile[a].disk), c)
      <4>1. Leq(Succ(sfile[a].disk), Succ(scount[a]))
        BY <3>2, SuccMonotonic DEF IInv, SenderFile
      <4>2. QED
        BY <3>1, <3>2, <4>1, LegacyIsLater, LeqTransitive
    <3>4. Leq(sfile[a].disk, c)
      BY <3>1, <3>2, <3>3, SuccIsLater, LeqTransitive
    <3>5. Send(a, c) /\ sfile' = [sfile EXCEPT ![a] = f]
      BY <2>4 DEF LegacySend, LegacyNext, Stopped
    <3>6. Leq(f.disk, c) /\ Leq(c, Succ(f.disk))
      BY <3>1, LeqReflexive, SuccIsLater
    <3>7. QED
      BY <3>1, <3>3, <3>4, <3>5, <3>6, SendPreserves
  <2>5. ASSUME NEW a \in Agents, SenderExit(a)
        PROVE  IInv'
    <3>1. Closed(sfile[a]) \in Stream
      BY <2>1, <2>2 DEF Closed, Stream
    <3>2. QED
      BY <2>5, <3>1, StartSenderPreserves
      DEF SenderExit, Closed, IInv, SenderFile
  <2>6. ASSUME NEW a \in Agents, SenderCrash(a)
        PROVE  IInv'
    <3>1. Dropped(sfile[a]) \in Stream
      BY <2>1, <2>2 DEF Dropped, Stream
    <3>2. QED
      BY <2>6, <3>1, StartSenderPreserves, LeqReflexive
      DEF SenderCrash, Dropped
  <2>7. ASSUME NEW m \in wire, ReadSecMSG(m)
        PROVE  IInv'
    BY <2>7, ReadPreserves
  <2>8. ASSUME OS_StartCounter([a \in Agents |-> Closed(rfile[a])])
        PROVE  IInv'
    BY <2>1, <2>2, <2>8, StartCounterPreserves, LeqReflexive DEF Closed, Stream
  <2>9. ASSUME OS_StartCounter([a \in Agents |-> Dropped(rfile[a])])
        PROVE  IInv'
    BY <2>1, <2>2, <2>9, StartCounterPreserves
    DEF Dropped, Stream, IInv, ReceiverFile
  <2>10. CASE UNCHANGED vars
    BY <2>10 DEF vars, IInv, SenderFile, WireBounded, WireOrdered, SessionInv,
                 ReceiverFile
  <2>11. QED
    BY <2>3, <2>4, <2>5, <2>6, <2>7, <2>8, <2>9, <2>10
    DEF Next, OS_UpdateKeys, ReceiverExit, ReceiverCrash
<1>3. QED
  BY <1>1, <1>2, TypeCorrect, PTL DEF Spec

(* Counters stay counters across every wrap, and a crashed sender is at    *)
(* most one message behind what was accepted.                              *)
THEOREM SenderRecovers == Spec => []CountersInv
<1>1. IInv => SenderNotBehind
  <2> SUFFICES ASSUME IInv, NEW a \in Agents
               PROVE  Leq(saved[a], Succ(scount[a]))
    BY DEF SenderNotBehind
  <2>1. /\ saved[a] \in Counter /\ scount[a] \in Counter
        /\ sfile[a].disk \in Counter
    BY DEF IInv, TypeOK, Stream
  <2>2. Leq(Succ(sfile[a].disk), Succ(scount[a]))
    BY <2>1, SuccMonotonic DEF IInv, SenderFile
  <2>3. QED
    BY <2>1, <2>2, SuccIsCounter, LeqTransitive DEF IInv, ReceiverFile
<1>2. IInv => CountersInv
  BY <1>1 DEF IInv, CountersInv
<1>3. QED
  BY <1>2, Invariance, PTL

(* The stored counter is a barrier: no step lowers it, and none takes the  *)
(* saved counter below it.                                                 *)
THEOREM BarrierHolds == Spec => StoredIsBarrier
<1> DEFINE Barrier == \A a \in Agents : /\ Leq(rfile[a].disk, rfile'[a].disk)
                                        /\ Leq(rfile[a].disk, saved'[a])
<1>1. IInv /\ [Next]_vars => Barrier \/ UNCHANGED vars
  <2> SUFFICES ASSUME IInv, Next, NEW b \in Agents
               PROVE  /\ Leq(rfile[b].disk, rfile'[b].disk)
                      /\ Leq(rfile[b].disk, saved'[b])
    OBVIOUS
  <2>1. /\ rfile[b].disk \in Counter /\ rfile[b].buf \in Counter
        /\ saved[b] \in Counter
        /\ Leq(rfile[b].disk, rfile[b].buf)
        /\ Leq(rfile[b].buf, saved[b])
    BY DEF IInv, TypeOK, Stream, ReceiverFile
  <2>2. Leq(rfile[b].disk, saved[b])
    BY <2>1, LeqTransitive
  <2>3. CASE UNCHANGED receiver
    BY <2>2, <2>3, LeqReflexive DEF receiver
  <2>4. ASSUME NEW m \in wire, ReadSecMSG(m)
        PROVE  Leq(rfile[b].disk, rfile'[b].disk) /\ Leq(rfile[b].disk, saved'[b])
    <3>1. m.from \in Agents /\ m.count \in Counter
      BY DEF IInv, TypeOK, Message
    <3>2. Leq(saved[m.from], m.count)
      BY <3>1, <2>4, LessImpliesNotLeq DEF ReadSecMSG, IInv, TypeOK
    <3>3. Leq(rfile[b].disk, saved'[b])
      BY <2>1, <2>2, <2>4, <3>1, <3>2, LeqTransitive DEF ReadSecMSG, IInv, TypeOK
    <3>4. rfile'[b].disk \in {rfile[b].disk, rfile[b].buf}
      BY <2>4, <3>1 DEF ReadSecMSG, Stored, IInv, TypeOK
    <3>5. QED
      BY <2>1, <3>3, <3>4, LeqReflexive
  <2>5. ASSUME NEW files, OS_StartCounter(files),
               files[b].disk \in {rfile[b].disk, rfile[b].buf}
        PROVE  Leq(rfile[b].disk, rfile'[b].disk) /\ Leq(rfile[b].disk, saved'[b])
    BY <2>1, <2>5, LeqReflexive DEF OS_StartCounter
  <2>6. QED
    BY <2>3, <2>4, <2>5
    DEF Next, CreateSecMSG, LegacySend, Send, SenderExit, SenderCrash,
        StartSender, OS_UpdateKeys, ReceiverExit, ReceiverCrash, Closed, Dropped
<1>2. QED
  BY <1>1, Invariance, PTL DEF Spec, StoredIsBarrier

(* Each session of the receiver is an ordered channel without duplicates.  *)
THEOREM ChannelRefinement == Spec => InOrderOnce
<1>1. Init => Channel!Init
  BY DEF Init, Channel!Init
<1>2. IInv /\ [Next]_vars => [Channel!Next]_(Channel!vars)
  <2> SUFFICES ASSUME IInv, [Next]_vars
               PROVE  [Channel!Next]_(Channel!vars)
    OBVIOUS
  <2> USE DEF Channel!Next, Channel!vars
  <2>1. ASSUME NEW a \in Agents, NEW c, Send(a, c)
        PROVE  Channel!Create(a)
    BY <2>1 DEF Send, receiver, Channel!Create
  <2>2. ASSUME NEW a \in Agents, NEW f, StartSender(a, f)
        PROVE  UNCHANGED Channel!vars
    BY <2>2 DEF StartSender, receiver
  <2>3. ASSUME NEW m \in wire, ReadSecMSG(m)
        PROVE  m.from \in Agents /\ Channel!Deliver(m.from)
    BY <2>3, AcceptedIsNewest
    DEF ReadSecMSG, sender, Channel!Deliver, IInv, TypeOK, Message
  <2>4. ASSUME NEW files, OS_StartCounter(files)
        PROVE  Channel!NewSession
    BY <2>4 DEF OS_StartCounter, sender, Channel!NewSession
  \* What the channel sees of each actor.
  <2>sent. ASSUME NEW a \in Agents, CreateSecMSG(a) \/ LegacySend(a)
           PROVE  Channel!Create(a)
    BY <2>1, <2>sent DEF CreateSecMSG, LegacySend
  <2>restarted. ASSUME NEW a \in Agents, SenderExit(a) \/ SenderCrash(a)
                PROVE  UNCHANGED Channel!vars
    BY <2>2, <2>restarted DEF SenderExit, SenderCrash
  <2>reloaded. ASSUME OS_UpdateKeys \/ ReceiverExit \/ ReceiverCrash
               PROVE  Channel!NewSession
    BY <2>4, <2>reloaded DEF OS_UpdateKeys, ReceiverExit, ReceiverCrash
  <2>idle. vars' = vars => UNCHANGED Channel!vars
    BY DEF vars
  <2> QED
    BY <2>sent, <2>3, <2>restarted, <2>reloaded, <2>idle DEF Next
<1>3. QED
  BY <1>1, <1>2, Invariance, PTL DEF Spec, InOrderOnce, Channel!Spec

-----------------------------------------------------------------------------
(* The agent's daemon (AgentConn).                                         *)

(* While agentd is away the wait file is there, and the collector that     *)
(* slipped an event through is not sending another.                        *)
CollectorHeld ==
    Away => waitFile /\ (slipped = 0 \/ (slipped = 1 /\ col # "sending"))

(* An event lost to an agentd that ended is counted against the start the  *)
(* collector was connected to, and that start is over.                     *)
Losses ==
    /\ staleLost <= conn
    /\ \/ col \notin {"refused", "exited"}
       \/ pc # "down" /\ conn = starts
       => staleLost <= conn - 1

(* The age agentd knows of is not more than the age of what reached its    *)
(* socket and counts, once it has read it; in the handshake it does not    *)
(* matter.                                                                 *)
Ages == ~ Away /\ ~ Unread => silence <= heard

AgentIInv == AgentTypeOK /\ CollectorHeld /\ Losses /\ Ages

(* TypeOK in three parts: Boolean variables, the socket, and the rest.     *)
Flags ==
    /\ due \in BOOLEAN /\ fwd \in BOOLEAN /\ waitFile \in BOOLEAN
    /\ asked \in BOOLEAN /\ known \in BOOLEAN

Socket ==
    /\ inbox \in Seq(Messages) /\ Len(inbox) <= InboxLen
    /\ ordered \in 0 .. MaxOrders

Numbers ==
    /\ pc \in {"down", "starting", "handshake", "closing", "loop", "select", "receive",
              "forward"}
    /\ back \in {"loop", "select", "forward"} /\ attempts \in 0 .. ATTEMPTS + 1
    /\ rip \in Servers /\ silence \in 0 .. RECONNECT + 1 /\ since \in 0 .. NOTIFY
    /\ queue \in 0 .. QueueLen /\ starts \in 1 .. MaxStarts
    /\ col \in {"idle", "waiting", "sending", "refused", "exited"}
    /\ conn \in 1 .. starts /\ tries \in 0 .. TRIES - 1
    /\ up \subseteq Servers /\ faults \in 0 .. MaxFaults
    /\ heard \in 0 .. RECONNECT + 1
    /\ staleLost \in Nat /\ slipped \in Nat

(* run_notify keeps the flags it sets Boolean.                             *)
LEMMA NotifyFlags ==
  ASSUME Flags, NEW next, run_notify(next)
  PROVE  due' \in BOOLEAN /\ asked' \in BOOLEAN /\ waitFile' \in BOOLEAN
<1>1. asked' \in BOOLEAN
  BY DEF run_notify
<1>2. due' \in BOOLEAN
  <2>1. CASE silence > RECONNECT
    <3>1. due' = (since >= NOTIFY)
      BY <2>1 DEF run_notify
    <3>2. QED
      BY <3>1
  <2>2. CASE ~ (silence > RECONNECT)
    <3>1. due' = due
      BY <2>2 DEF run_notify
    <3>2. QED
      BY <3>1 DEF Flags
  <2>3. QED
    BY <2>1, <2>2
<1>3. waitFile' \in BOOLEAN
  BY Zenon DEF run_notify, Flags
<1>4. QED
  BY <1>1, <1>2, <1>3

(* Every step keeps the flags Boolean.                                     *)
LEMMA FlagsStep ==
  ASSUME Flags, [AgentNext]_agentVars
  PROVE  Flags'
<1> USE DEF Flags, Arrives, coll, net
<1>1. CASE HandshakeReads
  BY <1>1, Zenon DEF HandshakeReads
<1>2. CASE HandshakeWaits
  BY <1>2, Zenon DEF HandshakeWaits, Time, Least
<1>3. CASE HandshakeGivesUp
  BY <1>3, Zenon DEF HandshakeGivesUp, Time, Least
<1>4. CASE connect_server
  <2>1. asked' = TRUE \/ asked' = FALSE
    BY <1>4 DEF connect_server, Arrives
  <2>2. QED
    BY <1>4, <2>1 DEF connect_server
<1>5. CASE LoopTop
  <2>1. due' \in BOOLEAN /\ asked' \in BOOLEAN /\ waitFile' \in BOOLEAN
    BY <1>5, NotifyFlags, Zenon DEF LoopTop
  <2>2. QED
    BY <1>5, <2>1, Zenon DEF LoopTop
<1>6. CASE Select
  BY <1>6, Zenon DEF Select
<1>7. CASE SelectTimeout
  BY <1>7, Zenon DEF SelectTimeout, Time, Least
<1>8. CASE receive_msg
  BY <1>8, Zenon DEF receive_msg
<1>9. CASE EventForward
  <2>1. due' \in BOOLEAN /\ asked' \in BOOLEAN /\ waitFile' \in BOOLEAN
    BY <1>9, NotifyFlags, Zenon DEF EventForward
  <2>2. QED
    BY <1>9, <2>1, Zenon DEF EventForward
<1>10. CASE ForwardTakesTime
  BY <1>10, Zenon DEF ForwardTakesTime, Time, Least
<1>11. CASE Crash
  BY <1>11, Zenon DEF Crash
<1>12. CASE AgentdStart
  <2>1. asked' = TRUE \/ asked' = FALSE
    BY <1>12 DEF AgentdStart, Arrives
  <2>2. QED
    BY <1>12, <2>1 DEF AgentdStart
<1>18. CASE BindQueue
  BY <1>18, Zenon DEF BindQueue
<1>13. CASE Collector
  BY <1>13, Zenon DEF Collector, NotAgentd, ColSend, ColStart,
        ColWake,
               ColStale, ColFull, ColReconnect, ColExit, Connected
<1>14. CASE Answer
  BY <1>14, Zenon DEF Answer, Reply, Delivered, NotNetwork
<1>15. CASE Network
  BY <1>15, Zenon DEF Network, Lose, Order, Flip, Stray, Delivered,
        NotNetwork
<1>16. CASE UNCHANGED agentVars
  BY <1>16, Zenon DEF agentVars
<1>17. QED
  BY <1>1, <1>2, <1>3, <1>4, <1>5, <1>6, <1>7, <1>8, <1>9,
     <1>10, <1>11, <1>12, <1>13, <1>14, <1>15, <1>16, <1>18
  DEF AgentNext, Agentd

(* Every step keeps the messages and the room of the socket.               *)
LEMMA SocketStep ==
  ASSUME Socket, [AgentNext]_agentVars
  PROVE  Socket'
<1> USE AgentAssumption DEF Socket, coll, net
<1>1. CASE HandshakeReads
  BY <1>1 DEF HandshakeReads
<1>2. CASE HandshakeWaits
  BY <1>2 DEF HandshakeWaits, Time, Least
<1>3. CASE HandshakeGivesUp
  BY <1>3 DEF HandshakeGivesUp, Time, Least
<1>4. CASE connect_server
  BY <1>4 DEF connect_server
<1>5. CASE LoopTop
  BY <1>5 DEF LoopTop, run_notify
<1>6. CASE Select
  BY <1>6 DEF Select
<1>7. CASE SelectTimeout
  BY <1>7 DEF SelectTimeout, Time, Least
<1>8. CASE receive_msg
  BY <1>8 DEF receive_msg
<1>9. CASE EventForward
  BY <1>9 DEF EventForward, run_notify
<1>10. CASE ForwardTakesTime
  BY <1>10 DEF ForwardTakesTime, Time, Least
<1>11. CASE Crash
  BY <1>11 DEF Crash
<1>12. CASE AgentdStart
  BY <1>12 DEF AgentdStart
<1>18. CASE BindQueue
  BY <1>18 DEF BindQueue
<1>13. CASE Collector
  BY <1>13 DEF Collector, NotAgentd, ColSend, ColStart, ColWake,
               ColStale, ColFull, ColReconnect, ColExit, Connected
<1>14. CASE Answer
  <2>1. Ack \in Messages
    BY DEF Messages
  <2>2. QED
    BY <1>14, <2>1 DEF Answer, Reply, Delivered, NotNetwork
<1>15. CASE Network
  <2>1. CASE Lose \/ Flip
    BY <1>15, <2>1 DEF Network, Lose, Flip, NotNetwork
  <2>2. CASE Order
    <3>1. PICK k \in 1 .. MaxOrders : k = ordered + 1
      BY <2>2 DEF Order
    <3>2. k \in Messages
      BY DEF Messages, Orders
    <3>3. ordered' \in 0 .. MaxOrders
      BY <2>2 DEF Order
    <3>4. inbox' = Append(inbox, k) \/ inbox' = inbox
      BY <2>2, <3>1 DEF Order, Delivered
    <3>5. inbox' \in Seq(Messages)
      BY <3>2, <3>4
    <3>6. Len(inbox') <= InboxLen
      BY <2>2, <3>1, <3>2 DEF Order, Delivered
    <3>7. QED
      BY <3>3, <3>5, <3>6
  <2>3. CASE Stray
    <3>1. Refused \in Messages
      BY DEF Messages
    <3>2. QED
      BY <2>3, <3>1 DEF Stray
  <2>4. QED
    BY <1>15, <2>1, <2>2, <2>3 DEF Network
<1>16. CASE UNCHANGED agentVars
  BY <1>16 DEF agentVars
<1>17. QED
  BY <1>1, <1>2, <1>3, <1>4, <1>5, <1>6, <1>7, <1>8, <1>9,
     <1>10, <1>11, <1>12, <1>13, <1>14, <1>15, <1>16, <1>18
  DEF AgentNext, Agentd

(* Every step keeps the other types.                                       *)
LEMMA NumbersStep ==
  ASSUME Socket, Numbers, [AgentNext]_agentVars
  PROVE  Numbers'
<1> USE AgentAssumption DEF Socket, Numbers, Servers, coll, net
<1>1. CASE HandshakeReads
  BY <1>1 DEF HandshakeReads
<1>2. CASE HandshakeWaits
  BY <1>2 DEF HandshakeWaits, Time, Least
<1>3. CASE HandshakeGivesUp
  BY <1>3 DEF HandshakeGivesUp, Time, Least
<1>4. CASE connect_server
  BY <1>4 DEF connect_server
<1>5. CASE LoopTop
  BY <1>5 DEF LoopTop, run_notify
<1>6. CASE Select
  BY <1>6 DEF Select
<1>7. CASE SelectTimeout
  BY <1>7 DEF SelectTimeout, Time, Least
<1>8. CASE receive_msg
  BY <1>8 DEF receive_msg
<1>9. CASE EventForward
  BY <1>9 DEF EventForward, run_notify
<1>10. CASE ForwardTakesTime
  BY <1>10 DEF ForwardTakesTime, Time, Least
<1>11. CASE Crash
  BY <1>11 DEF Crash
<1>12. CASE AgentdStart
  BY <1>12 DEF AgentdStart
<1>18. CASE BindQueue
  BY <1>18 DEF BindQueue
<1>13. CASE Collector
  BY <1>13, SMTT(30) DEF Collector, NotAgentd, ColSend, ColStart, ColWake,
               ColStale, ColFull, ColReconnect, ColExit, Connected
<1>14. CASE Answer
  BY <1>14 DEF Answer, Reply, Delivered, NotNetwork
<1>15. CASE Network
  <2>1. up' \subseteq Servers
    BY <1>15, Zenon DEF Network, Lose, Order, Flip, Stray, NotNetwork
  <2>2. heard' \in {0, heard} /\ faults' \in {faults, faults + 1}
    BY <1>15 DEF Network, Lose, Order, Flip, Stray, Delivered,
          NotNetwork
  <2>3. faults' \in 0 .. MaxFaults
    BY <1>15 DEF Network, Lose, Order, Flip, Stray, NotNetwork
  <2>4. QED
    BY <1>15, <2>1, <2>2, <2>3 DEF Network, NotNetwork
<1>16. CASE UNCHANGED agentVars
  BY <1>16 DEF agentVars
<1>17. QED
  BY <1>1, <1>2, <1>3, <1>4, <1>5, <1>6, <1>7, <1>8, <1>9,
     <1>10, <1>11, <1>12, <1>13, <1>14, <1>15, <1>16, <1>18
  DEF AgentNext, Agentd

(* Every step keeps the types.                                             *)
LEMMA TypesStep ==
  ASSUME AgentTypeOK, [AgentNext]_agentVars
  PROVE  AgentTypeOK'
<1>1. Flags /\ Socket /\ Numbers
  BY DEF AgentTypeOK, Flags, Socket, Numbers
<1>2. (Flags /\ Socket /\ Numbers)'
  BY <1>1, FlagsStep, SocketStep, NumbersStep
<1>3. QED
  BY <1>2 DEF AgentTypeOK, Flags, Socket, Numbers

(* Every step keeps what the wait file holds back.                         *)
LEMMA HeldStep ==
  ASSUME AgentTypeOK, CollectorHeld, [AgentNext]_agentVars
  PROVE  CollectorHeld'
<1> USE AgentAssumption DEF AgentTypeOK, CollectorHeld, Arrives, coll, net, Away
<1>1. CASE HandshakeReads
  BY <1>1 DEF HandshakeReads
<1>2. CASE HandshakeWaits
  BY <1>2 DEF HandshakeWaits, Time, Least
<1>3. CASE HandshakeGivesUp
  BY <1>3 DEF HandshakeGivesUp, Time, Least
<1>4. CASE connect_server
  BY <1>4 DEF connect_server
<1>5. CASE LoopTop
  BY <1>5 DEF LoopTop, run_notify
<1>6. CASE Select
  BY <1>6 DEF Select
<1>7. CASE SelectTimeout
  BY <1>7 DEF SelectTimeout, Time, Least
<1>8. CASE receive_msg
  BY <1>8 DEF receive_msg
<1>9. CASE EventForward
  BY <1>9 DEF EventForward, run_notify
<1>10. CASE ForwardTakesTime
  BY <1>10 DEF ForwardTakesTime, Time, Least
<1>11. CASE Crash
  BY <1>11 DEF Crash
<1>12. CASE AgentdStart
  BY <1>12 DEF AgentdStart
<1>18. CASE BindQueue
  BY <1>18 DEF BindQueue
<1>13. CASE Collector
  BY <1>13 DEF Collector, NotAgentd, ColSend, ColStart, ColWake,
        ColStale,
     ColFull, ColReconnect, ColExit, Connected
<1>14. CASE Answer
  BY <1>14 DEF Answer, Reply, Delivered, NotNetwork
<1>15. CASE Network
  BY <1>15 DEF Network, Lose, Order, Flip, Stray, Delivered, NotNetwork
<1>16. CASE UNCHANGED agentVars
  BY <1>16 DEF agentVars
<1>17. QED
  BY <1>1, <1>2, <1>3, <1>4, <1>5, <1>6, <1>7, <1>8, <1>9, <1>10, <1>11,
     <1>12, <1>13, <1>14, <1>15, <1>16, <1>18 DEF AgentNext, Agentd

(* Every step keeps the account of lost events.                            *)
LEMMA LossesStep ==
  ASSUME AgentTypeOK, Losses, [AgentNext]_agentVars
  PROVE  Losses'
<1> USE AgentAssumption DEF AgentTypeOK, Losses, Arrives, coll, net, Away
<1>1. CASE HandshakeReads
  BY <1>1 DEF HandshakeReads
<1>2. CASE HandshakeWaits
  BY <1>2 DEF HandshakeWaits, Time, Least
<1>3. CASE HandshakeGivesUp
  BY <1>3 DEF HandshakeGivesUp, Time, Least
<1>4. CASE connect_server
  BY <1>4 DEF connect_server
<1>5. CASE LoopTop
  BY <1>5 DEF LoopTop, run_notify
<1>6. CASE Select
  BY <1>6 DEF Select
<1>7. CASE SelectTimeout
  BY <1>7 DEF SelectTimeout, Time, Least
<1>8. CASE receive_msg
  BY <1>8 DEF receive_msg
<1>9. CASE EventForward
  BY <1>9 DEF EventForward, run_notify
<1>10. CASE ForwardTakesTime
  BY <1>10 DEF ForwardTakesTime, Time, Least
<1>11. CASE Crash
  BY <1>11 DEF Crash
<1>12. CASE AgentdStart
  BY <1>12 DEF AgentdStart
<1>18. CASE BindQueue
  BY <1>18 DEF BindQueue
<1>13. CASE Collector
  BY <1>13 DEF Collector, NotAgentd, ColSend, ColStart, ColWake,
        ColStale,
     ColFull, ColReconnect, ColExit, Connected
<1>14. CASE Answer
  BY <1>14 DEF Answer, Reply, Delivered, NotNetwork
<1>15. CASE Network
  BY <1>15 DEF Network, Lose, Order, Flip, Stray, Delivered, NotNetwork
<1>16. CASE UNCHANGED agentVars
  BY <1>16 DEF agentVars
<1>17. QED
  BY <1>1, <1>2, <1>3, <1>4, <1>5, <1>6, <1>7, <1>8, <1>9, <1>10, <1>11,
     <1>12, <1>13, <1>14, <1>15, <1>16, <1>18 DEF AgentNext, Agentd

(* Every step keeps the relation of the two ages.                          *)
LEMMA AgesStep ==
  ASSUME AgentTypeOK, Ages, [AgentNext]_agentVars
  PROVE  Ages'
<1> USE AgentAssumption DEF AgentTypeOK, Ages, Arrives, coll, net, Away
<1>0. /\ inbox' = inbox => (Unread' <=> Unread)
      /\ inbox' = <<>> => ~ Unread'
  BY DEF Unread
<1>1. CASE HandshakeReads
  BY <1>0, <1>1 DEF HandshakeReads
<1>2. CASE HandshakeWaits
  BY <1>0, <1>2 DEF HandshakeWaits, Time, Least
<1>3. CASE HandshakeGivesUp
  BY <1>0, <1>3 DEF HandshakeGivesUp, Time, Least
<1>4. CASE connect_server
  BY <1>0, <1>4 DEF connect_server
<1>5. CASE LoopTop
  BY <1>0, <1>5 DEF LoopTop, run_notify
<1>6. CASE Select
  BY <1>0, <1>6 DEF Select
<1>7. CASE SelectTimeout
  BY <1>0, <1>7 DEF SelectTimeout, Time, Least
<1>8. CASE receive_msg
  <2>1. CASE inbox = <<>>
    BY <1>0, <1>8, <2>1 DEF receive_msg
  <2>2. CASE inbox # <<>>
    <3>1. /\ inbox' = Tail(inbox) /\ heard' = heard /\ pc = "receive"
          /\ silence' = IF Head(inbox) = Refused THEN silence ELSE 0
      BY <1>8, <2>2 DEF receive_msg
    <3>2. CASE Head(inbox) # Refused
      BY <3>1, <3>2
    <3>3. CASE Head(inbox) = Refused
      <4>1. SUFFICES ASSUME Unread PROVE Unread'
        BY <3>1, <3>3
      <4>2. PICK i \in 1 .. Len(inbox) : inbox[i] # Refused
        BY <4>1 DEF Unread
      <4>3. inbox[1] = Refused
        BY <2>2, <3>3
      <4>4. i # 1
        BY <4>2, <4>3
      <4>5. i - 1 \in 1 .. Len(inbox') /\ inbox'[i - 1] = inbox[i]
        BY <2>2, <3>1, <4>4
      <4>6. DOMAIN inbox' = 1 .. Len(inbox')
        BY <2>2, <3>1
      <4>7. QED
        BY <4>2, <4>5, <4>6 DEF Unread
    <3>4. QED
      BY <3>2, <3>3
  <2>3. QED
    BY <2>1, <2>2
<1>9. CASE EventForward
  BY <1>0, <1>9 DEF EventForward, run_notify
<1>10. CASE ForwardTakesTime
  BY <1>0, <1>10 DEF ForwardTakesTime, Time, Least
<1>11. CASE Crash
  BY <1>0, <1>11 DEF Crash
<1>12. CASE AgentdStart
  BY <1>0, <1>12 DEF AgentdStart
<1>18. CASE BindQueue
  BY <1>0, <1>18 DEF BindQueue
<1>13. CASE Collector
  BY <1>0, <1>13 DEF Collector, NotAgentd, ColSend, ColStart, ColWake,
        ColStale,
     ColFull, ColReconnect, ColExit, Connected
<1>19. Len(inbox) < InboxLen => \A m : inbox' = Append(inbox, m) => (Unread => Unread')
  BY DEF Unread
<1>20. ASSUME NEW m \in {Ack} \cup Orders, Delivered(m), UNCHANGED <<pc, silence>> PROVE Ages'
  <2>1. CASE Len(inbox) < InboxLen
    <3>1. inbox' = Append(inbox, m) /\ m # Refused
      BY <1>20, <2>1 DEF Delivered, Ack, Orders, Refused
    <3>2. /\ Len(inbox) + 1 \in 1 .. Len(inbox')
          /\ inbox'[Len(inbox) + 1] = m
      BY <3>1
    <3>3. Unread'
      BY <3>1, <3>2 DEF Unread
    <3>4. QED
      BY <3>3
  <2>2. CASE ~ (Len(inbox) < InboxLen)
    BY <1>0, <1>20, <2>2 DEF Delivered
  <2>3. QED
    BY <2>1, <2>2
<1>14. CASE Answer
  BY <1>14, <1>20 DEF Answer, Reply, NotNetwork
<1>15. CASE Network
  <2>1. CASE Order
    <3>1. ordered + 1 \in Orders
      BY <2>1 DEF Order, Orders
    <3>2. QED
      BY <1>15, <1>20, <2>1, <3>1 DEF Network, Order, NotNetwork
  <2>2. CASE Lose \/ Flip
    BY <1>0, <1>15, <2>2 DEF Network, Lose, Flip, NotNetwork
  <2>3. CASE Stray
    BY <1>0, <1>15, <1>19, <2>3 DEF Network, Stray, NotNetwork
  <2>4. QED
    BY <1>15, <2>1, <2>2, <2>3 DEF Network
<1>16. CASE UNCHANGED agentVars
  BY <1>0, <1>16 DEF agentVars
<1>17. QED
  BY <1>0, <1>1, <1>2, <1>3, <1>4, <1>5, <1>6, <1>7, <1>8, <1>9, <1>10, <1>11,
     <1>12, <1>13, <1>14, <1>15, <1>16, <1>18 DEF AgentNext, Agentd

(* The strengthened invariant holds throughout.                            *)
LEMMA AgentInvariance == AgentSpec => []AgentIInv
<1>1. AgentInit => AgentIInv
  <2> SUFFICES ASSUME AgentInit PROVE AgentIInv
    OBVIOUS
  <2>2. Flags
    BY DEF AgentInit, Flags
  <2>3. Socket /\ Numbers
    BY AgentAssumption DEF AgentInit, Socket, Numbers, Servers, Messages,
          Orders, Ack, Refused
  <2>4. AgentTypeOK
    BY <2>2, <2>3 DEF AgentTypeOK, Flags, Socket, Numbers
  <2>5. CollectorHeld /\ Losses /\ Ages
    BY DEF AgentInit, CollectorHeld, Losses, Ages, Away, Unread
  <2>6. QED
    BY <2>4, <2>5 DEF AgentIInv
<1>2. AgentIInv /\ [AgentNext]_agentVars => AgentIInv'
  BY TypesStep, HeldStep, LossesStep, AgesStep DEF AgentIInv
<1>3. QED
  BY <1>1, <1>2, PTL DEF AgentSpec

(* While agentd is away a collector queues one event at most, and it loses *)
(* at most one for each agentd that ends (SendMSG, StartMQ).               *)
THEOREM CollectorsCorrect == AgentSpec => []ConnInv
<1>1. AgentIInv => ConnInv
  BY AgentAssumption DEF AgentIInv, AgentTypeOK, CollectorHeld, Losses, Away, ConnInv,
        HeldBackWhileAway, OneLossPerRestart
<1>2. QED
  BY <1>1, AgentInvariance, PTL

(* A server is left only when nothing came from it for the reconnect time, *)
(* or when what it sent lies unread (run_notify); refused messages do not  *)
(* count.                                                                  *)
THEOREM LeavesOnlySilent == AgentSpec => MissesOnlySilentOrUnread
<1>1. AgentIInv /\ [AgentNext]_agentVars =>
        [Away' /\ pc \in {"loop", "forward"}
           => heard > RECONNECT \/ Unread]_agentVars
  <2> SUFFICES ASSUME AgentIInv, AgentNext, Away', pc \in {"loop", "forward"}
               PROVE  heard > RECONNECT \/ Unread
    OBVIOUS
  <2>1. silence > RECONNECT
    BY DEF AgentNext, Agentd, HandshakeReads, HandshakeWaits, HandshakeGivesUp,
           connect_server, LoopTop, Select, SelectTimeout, receive_msg,
           EventForward, run_notify, ForwardTakesTime, Crash, BindQueue, AgentdStart,
           Collector, NotAgentd, Answer, Network, NotNetwork, Away
  <2>2. QED
    BY <2>1, AgentAssumption DEF AgentIInv, AgentTypeOK, Ages, Away
<1>2. QED
  BY <1>1, AgentInvariance, PTL DEF AgentSpec, MissesOnlySilentOrUnread

-----------------------------------------------------------------------------
(* Enrolment.                                                              *)

USE MaxLinesAssumption, PoolAssumption, SocketsAssumption, NoneAssumption

FileLines == [id : Ids, name : Hosts, removed : BOOLEAN]

(* Where a tool is, and what it remembers of the file.                     *)
Dialogue == {Menu}
              \cup [at : {"add"}, name : Hosts, id : Nat, seen : Nat]
              \cup [at : {"remove", "extract"}, id : Ids, pos : Nat]

(* Ids are given in the order of the lines; every line has its history.    *)
FileInv ==
  /\ file \in Seq(FileLines) /\ Len(file) <= MaxLines
  /\ \A l \in Lines : file[l].id <= l
  /\ unseen \in Seq(Nat) /\ Len(unseen) = Len(file)

(* What a tool is about to add is new among the lines it has seen.         *)
NewAmongSeen(t) ==
  /\ tool[t].seen <= Len(file)
  /\ tool[t].id \in 1 .. tool[t].seen + 1
  /\ \A l \in Lines : l <= tool[t].seen =>
       /\ file[l].id < tool[t].id
       /\ ~ file[l].removed => file[l].name # tool[t].name

(* What a tool is about to overwrite or to read is a line with that id.    *)
LineOfId(t) == tool[t].pos \in Lines /\ file[tool[t].pos].id = tool[t].id

ToolInv ==
  /\ tool \in [Tools -> Dialogue]
  /\ \A t \in Tools :
       /\ tool[t].at = "add" => NewAmongSeen(t)
       /\ tool[t].at \in {"remove", "extract"} => LineOfId(t)

Taken == {i \in Slots : pool[i] # None}

AuthdTypes ==
  /\ authd \in {"reap", "select", "accept", "ended"}
  /\ place \in Slots /\ ready \in 0 .. Sockets
  /\ authd = "accept" => ready >= 1
  /\ authd # "reap" => place = 1
  /\ pool \in [Slots -> Clients \cup {None, Failed}]
  /\ child \in [Clients -> {"none", "waiting", "alive", "served", "refused"}]
  /\ unwaited \subseteq Clients /\ alive \subseteq Clients

Counted == active = Cardinality(Taken) /\ active \in 0 .. POOL_SIZE

(* A child has one place, and a client that waits has none yet.            *)
OnePlace ==
  \A i \in Slots : pool[i] \in Clients =>
    /\ child[pool[i]] # "waiting"
    /\ \A j \in Slots : pool[j] = pool[i] => j = i

(* Who is not waited for has a place.                                      *)
Waited ==
  /\ Living \subseteq unwaited
  /\ \A c \in unwaited : \E i \in Slots : pool[i] = c

(* The places looked at hold children alive when the look began, and once  *)
(* it has begun all the living are among those.                            *)
Looked ==
  /\ \A i \in Slots :
       /\ pool[i] \in Clients
       /\ authd = "reap" => i < place
       => pool[i] \in alive
  /\ (authd = "reap" /\ place = 1) \/ Living \subseteq alive

AuthdInv == AuthdTypes /\ Counted /\ OnePlace /\ Waited /\ Looked /\ EndsOnlyIfPoolWasFull

EnrolIInv == FileInv /\ ToolInv /\ SharedOnlyUnseen /\ AuthdInv

-----------------------------------------------------------------------------
(* A set of naturals that is not empty has a least element.                *)
LEMMA LeastElement ==
  ASSUME NEW S, S \subseteq Nat, S # {}
  PROVE  \E m \in S : \A k \in S : m <= k
<1>1. PICK m \in S : \A k \in S : ~ <<k, m>> \in OpToRel(<, Nat)
  BY NatLessThanWellFounded, WFMin
<1>2. \A k \in S : ~ (k < m)
  BY <1>1 DEF OpToRel
<1>3. QED
  BY <1>2

(* The lines of the file and their types.                                  *)
LEMMA LinesType ==
  ASSUME FileInv
  PROVE  /\ Len(file) \in Nat /\ Lines = 1 .. Len(file)
         /\ \A l \in Lines : /\ l \in Nat /\ l \in 1 .. MaxLines
                             /\ file[l] \in FileLines
                             /\ file[l].id \in Ids /\ file[l].id \in Nat
                             /\ file[l].name \in Hosts /\ file[l].removed \in BOOLEAN
                             /\ unseen[l] \in Nat
<1>1. Len(file) \in Nat /\ Lines = 1 .. Len(file)
  BY DEF FileInv, Lines
<1>2. \A l \in Lines : file[l] \in FileLines /\ unseen[l] \in Nat
  BY <1>1, ElementOfSeq DEF FileInv
<1>3. \A l \in Lines : l \in Nat /\ l \in 1 .. MaxLines
  BY <1>1 DEF FileInv
<1>4. QED
  BY <1>1, <1>2, <1>3 DEF FileLines, Ids

(* The id offered is above every id of the file and at most the number of  *)
(* the next line.                                                          *)
LEMMA DefaultIdIsNew ==
  ASSUME FileInv
  PROVE  /\ DefaultId \in 1 .. Len(file) + 1
         /\ \A l \in Lines : file[l].id < DefaultId
<1> DEFINE above == {i \in Nat \ {0} : \A k \in Ids : IDExist(k) => k < i}
<1>0. Len(file) \in Nat /\ Len(file) <= MaxLines
  BY LinesType DEF FileInv
<1>1. \A k \in Ids : IDExist(k) => k \in Nat /\ k <= Len(file)
  BY LinesType DEF IDExist, FileInv, Ids
<1>2. Len(file) + 1 \in above
  BY <1>0, <1>1
<1>3. PICK m \in above : \A k \in above : m <= k
  <2>1. above \subseteq Nat /\ above # {}
    BY <1>2
  <2> HIDE DEF above
  <2>2. QED
    BY <2>1, LeastElement
<1>4. m \in Nat \ {0} /\ m <= Len(file) + 1
  BY <1>2, <1>3
<1>5. m = 1 \/ IDExist(m - 1)
  <2>1. SUFFICES ASSUME m # 1 PROVE IDExist(m - 1)
    OBVIOUS
  <2>2. m - 1 \in Nat \ {0} /\ m - 1 \notin above
    BY <1>3, <1>4, <2>1
  <2>3. PICK k \in Ids : IDExist(k) /\ ~ (k < m - 1)
    BY <2>2
  <2>4. k < m /\ k \in Nat
    BY <1>1, <2>3
  <2>5. k = m - 1
    BY <1>4, <2>3, <2>4
  <2>6. QED
    BY <2>3, <2>5
<1>6. /\ DefaultId \in 1 .. MaxLines + 1
      /\ \A k \in Ids : IDExist(k) => k < DefaultId
      /\ DefaultId = 1 \/ IDExist(DefaultId - 1)
  <2>1. m \in 1 .. MaxLines + 1
    BY <1>0, <1>4
  <2>2. \A k \in Ids : IDExist(k) => k < m
    BY <1>3
  <2>3. QED
    BY <1>5, <2>1, <2>2 DEF DefaultId
<1>7. \A l \in Lines : file[l].id < DefaultId
  BY <1>6, LinesType DEF IDExist
<1>8. DefaultId <= Len(file) + 1
  <2>1. CASE DefaultId = 1
    BY <1>0, <2>1
  <2>2. CASE IDExist(DefaultId - 1)
    <3>1. PICK l \in Lines : file[l].id = DefaultId - 1
      BY <2>2 DEF IDExist
    <3>2. DefaultId - 1 <= l /\ l <= Len(file) /\ l \in Nat
      BY <3>1, LinesType DEF FileInv
    <3>3. QED
      BY <1>0, <1>6, <3>2
  <2>3. QED
    BY <1>6, <2>1, <2>2
<1>9. QED
  BY <1>0, <1>6, <1>7, <1>8

(* IDExist leaves the place of a line with the id.                         *)
LEMMA PlaceHasId ==
  ASSUME FileInv, NEW id \in Ids, IDExist(id)
  PROVE  Place(id) \in Lines /\ file[Place(id)].id = id
<1> DEFINE with == {l \in Lines : file[l].id = id}
<1>1. with \subseteq Nat /\ with # {}
  BY LinesType DEF IDExist
<1>2. PICK m \in with : \A k \in with : m <= k
  <2> HIDE DEF with
  <2>1. QED
    BY <1>1, LeastElement
<1>3. m \in Lines /\ file[m].id = id /\ \A k \in Lines : file[k].id = id => m <= k
  BY <1>2
<1>4. QED
  BY <1>3 DEF Place

-----------------------------------------------------------------------------
(* client.keys and the tools.                                              *)

(* A line written for a tool is new among the lines the tool has seen.     *)
LEMMA AddKeeps ==
  ASSUME EnrolIInv, NEW t \in Tools, add_agent(t)
  PROVE  /\ FileInv' /\ ToolInv' /\ SharedOnlyUnseen'
         /\ \A l \in Lines : file'[l] = file[l]
<1> DEFINE n == Len(file)
           new == [id |-> tool[t].id, name |-> tool[t].name, removed |-> FALSE]
<1>1. /\ tool[t].at = "add" /\ n < MaxLines
      /\ file' = Append(file, new)
      /\ unseen' = Append(unseen, n - tool[t].seen)
      /\ tool' = [tool EXCEPT ![t] = Menu]
  BY DEF add_agent, AppendLine, GoTo
<1>2. FileInv /\ ToolInv /\ NewAmongSeen(t)
  BY <1>1 DEF EnrolIInv, ToolInv
<1>3. /\ n \in Nat /\ Lines = 1 .. n
      /\ \A l \in Lines : l \in Nat /\ file[l].id \in Nat /\ unseen[l] \in Nat
  BY <1>2, LinesType
<1>4. tool[t] \in [at : {"add"}, name : Hosts, id : Nat, seen : Nat]
  BY <1>1, <1>2, SMTT(30) DEF ToolInv, Dialogue, Menu
<1>5. /\ tool[t].seen \in Nat /\ tool[t].seen <= n
      /\ tool[t].id \in Nat /\ tool[t].id \in 1 .. tool[t].seen + 1
      /\ tool[t].name \in Hosts
  BY <1>2, <1>4 DEF NewAmongSeen
<1>6. new \in FileLines /\ new.id = tool[t].id /\ new.name = tool[t].name
  BY <1>1, <1>3, <1>5 DEF FileLines, Ids
<1>7. /\ file' \in Seq(FileLines) /\ Len(file') = n + 1
      /\ \A l \in 1 .. n : file'[l] = file[l]
      /\ file'[n + 1] = new
  BY <1>1, <1>2, <1>6, AppendProperties DEF FileInv
<1>8. n - tool[t].seen \in Nat
  BY <1>3, <1>5
<1>9. /\ unseen' \in Seq(Nat) /\ Len(unseen') = n + 1
      /\ \A l \in 1 .. n : unseen'[l] = unseen[l]
      /\ unseen'[n + 1] = n - tool[t].seen
  BY <1>1, <1>2, <1>8, AppendProperties DEF FileInv
<1> HIDE DEF new
<1>10. Lines' = 1 .. n + 1
  BY <1>3, <1>7, LenProperties DEF Lines
<1>11. FileInv'
  <2>1. ASSUME NEW l \in Lines'
        PROVE  file'[l].id <= l
    <3>1. CASE l \in Lines
      BY <1>2, <1>3, <1>7, <3>1 DEF FileInv
    <3>2. CASE l = n + 1
      <4>1. file'[l].id = tool[t].id
        BY <1>6, <1>7, <3>2
      <4>2. QED
        BY <1>3, <1>5, <3>2, <4>1
    <3>3. QED
      BY <1>3, <1>10, <3>1, <3>2
  <2>2. Len(file') <= MaxLines
    BY <1>1, <1>3, <1>7
  <2>3. QED
    BY <1>7, <1>9, <2>1, <2>2 DEF FileInv
<1>12. ToolInv'
  <2>1. tool' \in [Tools -> Dialogue]
    BY <1>1, <1>2 DEF ToolInv, Dialogue
  <2>2. ASSUME NEW u \in Tools, tool'[u].at = "add"
        PROVE  NewAmongSeen(u)'
    <3>1. tool'[u] = tool[u] /\ tool[u].at = "add"
      BY <1>1, <1>2, <2>2 DEF ToolInv, Menu
    <3>2. NewAmongSeen(u) /\ tool[u] \in [at : {"add"}, name : Hosts, id : Nat, seen : Nat]
      BY <1>2, <3>1 DEF ToolInv, Dialogue, Menu
    <3>3. tool[u].seen \in Nat /\ tool[u].seen <= n /\ tool[u].id \in 1 .. tool[u].seen + 1
      BY <3>2 DEF NewAmongSeen
    <3>4. \A l \in Lines' : l <= tool[u].seen => l \in Lines /\ file'[l] = file[l]
      BY <1>3, <1>7, <1>10, <3>3
    <3>5. tool[u].seen <= Len(file')
      BY <1>3, <1>7, <3>3
    <3>6. QED
      BY <3>1, <3>2, <3>3, <3>4, <3>5 DEF NewAmongSeen
  <2>3. ASSUME NEW u \in Tools, tool'[u].at \in {"remove", "extract"}
        PROVE  LineOfId(u)'
    <3>1. tool'[u] = tool[u] /\ LineOfId(u)
      BY <1>1, <1>2, <2>3 DEF ToolInv, Menu
    <3>2. QED
      BY <1>3, <1>7, <1>10, <3>1 DEF LineOfId
  <2>4. QED
    BY <2>1, <2>2, <2>3 DEF ToolInv
<1>13. SharedOnlyUnseen'
  <2> SUFFICES ASSUME NEW k \in Lines', NEW l \in Lines', k < l,
                      \/ file'[k].id = file'[l].id
                      \/ /\ ~ file'[k].removed /\ ~ file'[l].removed
                         /\ file'[k].name = file'[l].name
               PROVE  k >= l - unseen'[l]
    BY DEF SharedOnlyUnseen, LiveLines
  <2>1. k \in Lines /\ file'[k] = file[k] /\ k \in Nat /\ l \in Nat
    BY <1>3, <1>7, <1>10
  <2>2. CASE l \in Lines
    <3>1. file'[l] = file[l] /\ unseen'[l] = unseen[l]
      BY <1>3, <1>7, <1>9, <2>2
    <3>2. QED
      BY <2>1, <2>2, <3>1 DEF EnrolIInv, SharedOnlyUnseen, LiveLines
  <2>3. CASE l = n + 1
    <3>0. file'[l].id = tool[t].id /\ file'[l].name = tool[t].name
      BY <1>6, <1>7, <2>3
    <3>1. ~ k <= tool[t].seen
      <4>1. SUFFICES ASSUME k <= tool[t].seen PROVE FALSE
        OBVIOUS
      <4>2. /\ file[k].id < tool[t].id
            /\ ~ file[k].removed => file[k].name # tool[t].name
        BY <1>2, <2>1, <4>1 DEF NewAmongSeen
      <4>3. file[k].id # tool[t].id
        BY <1>3, <1>5, <2>1, <4>2
      <4>4. QED
        BY <2>1, <3>0, <4>2, <4>3
    <3>2. l - unseen'[l] = tool[t].seen + 1
      BY <1>3, <1>5, <1>9, <2>3
    <3>3. QED
      BY <1>5, <2>1, <3>1, <3>2
  <2>4. QED
    BY <1>3, <1>10, <2>2, <2>3
<1>14. QED
  BY <1>3, <1>7, <1>11, <1>12, <1>13

(* A line is overwritten with the id it has: it is only marked removed.    *)
LEMMA RemoveKeeps ==
  ASSUME EnrolIInv, NEW t \in Tools, remove_agent(t)
  PROVE  /\ FileInv' /\ ToolInv' /\ SharedOnlyUnseen'
         /\ \A l \in Lines : /\ file'[l].id = file[l].id
                             /\ file[l].removed => file'[l].removed
<1>1. /\ tool[t].at = "remove" /\ tool' = [tool EXCEPT ![t] = Menu]
      /\ UNCHANGED unseen
  BY DEF remove_agent, GoTo
<1>2. FileInv /\ ToolInv /\ LineOfId(t)
  BY <1>1 DEF EnrolIInv, ToolInv
<1>3. /\ Len(file) \in Nat /\ Lines = 1 .. Len(file)
      /\ \A l \in Lines : /\ l \in Nat /\ file[l] \in FileLines
                          /\ file[l].id \in Nat /\ file[l].removed \in BOOLEAN
  BY <1>2, LinesType
<1>4. /\ file' \in Seq(FileLines) /\ Len(file') = Len(file)
      /\ \A l \in Lines : /\ file'[l].id = file[l].id /\ file'[l].name = file[l].name
                          /\ file[l].removed => file'[l].removed
                          /\ file'[l].removed \in BOOLEAN
  <2>1. CASE UNCHANGED file
    BY <1>2, <1>3, <2>1 DEF FileInv
  <2>2. CASE OverwriteLine(tool[t].pos, tool[t].id)
    <3> DEFINE p == tool[t].pos
               id == tool[t].id
    <3>1. p \in 1 .. Len(file) /\ file[p].id = id /\ file[p] \in FileLines
      BY <1>2, <1>3 DEF LineOfId
    <3>2. file' = [file EXCEPT ![p].id = id, ![p].removed = TRUE]
      BY <2>2 DEF OverwriteLine
    <3> HIDE DEF p, id
    <3> DEFINE line == [file[p] EXCEPT !.id = id, !.removed = TRUE]
    <3>3. file \in Seq(FileLines)
      BY <1>2 DEF FileInv
    <3>4. file' = [file EXCEPT ![p] = line]
      BY <3>1, <3>2, <3>3
    <3>5. line \in FileLines /\ line.id = file[p].id /\ line.name = file[p].name /\ line.removed = TRUE
      BY <3>1 DEF FileLines
    <3> HIDE DEF line
    <3>6. /\ file' \in Seq(FileLines) /\ Len(file') = Len(file)
          /\ \A l \in 1 .. Len(file) : file'[l] = IF l = p THEN line ELSE file[l]
      BY <3>1, <3>3, <3>4, <3>5
    <3>7. QED
      BY <1>3, <3>1, <3>5, <3>6
  <2>3. QED
    BY <2>1, <2>2 DEF remove_agent
<1>5. Lines' = Lines
  BY <1>3, <1>4, LenProperties DEF Lines
<1>6. FileInv'
  BY <1>1, <1>2, <1>3, <1>4, <1>5 DEF FileInv
<1>7. ToolInv'
  <2>1. tool' \in [Tools -> Dialogue]
    BY <1>1, <1>2 DEF ToolInv, Dialogue
  <2>2. ASSUME NEW u \in Tools, tool'[u].at = "add"
        PROVE  NewAmongSeen(u)'
    <3>1. tool'[u] = tool[u] /\ NewAmongSeen(u)
      BY <1>1, <1>2, <2>2 DEF ToolInv, Menu
    <3>2. \A l \in Lines : ~ file'[l].removed => ~ file[l].removed
      BY <1>4
    <3>3. QED
      BY <1>4, <1>5, <3>1, <3>2 DEF NewAmongSeen
  <2>3. ASSUME NEW u \in Tools, tool'[u].at \in {"remove", "extract"}
        PROVE  LineOfId(u)'
    <3>1. tool'[u] = tool[u] /\ LineOfId(u)
      BY <1>1, <1>2, <2>3 DEF ToolInv, Menu
    <3>2. QED
      BY <1>4, <1>5, <3>1 DEF LineOfId
  <2>4. QED
    BY <2>1, <2>2, <2>3 DEF ToolInv
<1>8. SharedOnlyUnseen'
  <2> SUFFICES ASSUME NEW k \in Lines', NEW l \in Lines', k < l,
                      \/ file'[k].id = file'[l].id
                      \/ /\ ~ file'[k].removed /\ ~ file'[l].removed
                         /\ file'[k].name = file'[l].name
               PROVE  k >= l - unseen'[l]
    BY DEF SharedOnlyUnseen, LiveLines
  <2>1. k \in Lines /\ l \in Lines
    BY <1>5
  <2>2. \/ file[k].id = file[l].id
        \/ {k, l} \subseteq LiveLines /\ file[k].name = file[l].name
    BY <1>4, <2>1 DEF LiveLines
  <2>3. k >= l - unseen[l]
    BY <2>1, <2>2 DEF EnrolIInv, SharedOnlyUnseen
  <2>4. QED
    BY <1>1, <2>3
<1>9. QED
  BY <1>4, <1>6, <1>7, <1>8

(* A tool that chooses what to do, or gives up: client.keys stays.         *)
LEMMA DialogueKeeps ==
  ASSUME EnrolIInv, NEW t \in Tools, NEW d \in Dialogue, tool' = [tool EXCEPT ![t] = d],
         UNCHANGED fileVars,
         d.at = "add" =>
           /\ d.seen <= Len(file) /\ d.id \in 1 .. d.seen + 1
           /\ \A l \in Lines : /\ file[l].id < d.id
                               /\ ~ file[l].removed => file[l].name # d.name,
         d.at \in {"remove", "extract"} => d.pos \in Lines /\ file[d.pos].id = d.id
  PROVE  FileInv' /\ ToolInv' /\ SharedOnlyUnseen'
<1>1. FileInv /\ ToolInv /\ SharedOnlyUnseen /\ file' = file /\ unseen' = unseen
  BY DEF EnrolIInv, fileVars
<1>2. FileInv' /\ SharedOnlyUnseen'
  BY <1>1 DEF FileInv, SharedOnlyUnseen, Lines, LiveLines
<1>3. tool' \in [Tools -> Dialogue]
  BY <1>1 DEF ToolInv
<1>4. \A u \in Tools : tool'[u] = IF u = t THEN d ELSE tool[u]
  BY <1>1 DEF ToolInv
<1>5. ASSUME NEW u \in Tools, tool'[u].at = "add"
      PROVE  NewAmongSeen(u)'
  <2>1. CASE u = t
    BY <1>1, <1>4, <1>5, <2>1 DEF NewAmongSeen, Lines
  <2>2. CASE u # t
    BY <1>1, <1>4, <1>5, <2>2 DEF ToolInv, NewAmongSeen, Lines
  <2>3. QED
    BY <2>1, <2>2
<1>6. ASSUME NEW u \in Tools, tool'[u].at \in {"remove", "extract"}
      PROVE  LineOfId(u)'
  <2>1. CASE u = t
    BY <1>1, <1>4, <1>6, <2>1 DEF LineOfId, Lines
  <2>2. CASE u # t
    BY <1>1, <1>4, <1>6, <2>2 DEF ToolInv, LineOfId, Lines
  <2>3. QED
    BY <2>1, <2>2
<1>7. QED
  BY <1>2, <1>3, <1>5, <1>6 DEF ToolInv

(* Every step of a tool.                                                   *)
LEMMA AdministerKeeps ==
  ASSUME EnrolIInv, Administer
  PROVE  /\ FileInv' /\ ToolInv' /\ SharedOnlyUnseen' /\ UNCHANGED authdVars
         /\ \A l \in Lines : /\ file'[l].id = file[l].id
                             /\ file[l].removed => file'[l].removed
<1>1. PICK t \in Tools :
        \/ \E h \in Hosts : ChooseNew(t, h)
        \/ \E id \in Ids, what \in {"remove", "extract"} : ChooseOld(t, id, what)
        \/ add_agent(t) \/ remove_agent(t) \/ k_extract(t)
        \/ Quit(t)
  BY DEF Administer
<1>2. FileInv
  BY DEF EnrolIInv
<1>3. ASSUME NEW h \in Hosts, ChooseNew(t, h)
      PROVE  FileInv' /\ ToolInv' /\ SharedOnlyUnseen' /\ UNCHANGED <<file, authdVars>>
  <2> DEFINE d == [at |-> "add", name |-> h, id |-> DefaultId, seen |-> Len(file)]
  <2>1. /\ tool' = [tool EXCEPT ![t] = d] /\ UNCHANGED fileVars
        /\ UNCHANGED <<file, authdVars>> /\ ~ NameExist(h)
    BY <1>3 DEF ChooseNew, GoTo, fileVars
  <2>2. Len(file) \in Nat /\ DefaultId \in 1 .. Len(file) + 1
    BY <1>2, LinesType, DefaultIdIsNew
  <2>3. d \in Dialogue
    BY <2>2 DEF Dialogue
  <2>4. /\ d.seen <= Len(file) /\ d.id \in 1 .. d.seen + 1
        /\ \A l \in Lines : /\ file[l].id < d.id
                            /\ ~ file[l].removed => file[l].name # d.name
    <3>1. \A l \in Lines : ~ file[l].removed => file[l].name # h
      BY <2>1 DEF NameExist, LiveLines
    <3>2. QED
      BY <1>2, <2>2, <3>1, DefaultIdIsNew
  <2>5. d.at \notin {"remove", "extract"}
    OBVIOUS
  <2> HIDE DEF d
  <2>6. QED
    BY <2>1, <2>3, <2>4, <2>5, DialogueKeeps
<1>4. ASSUME NEW id \in Ids, NEW what \in {"remove", "extract"}, ChooseOld(t, id, what)
      PROVE  FileInv' /\ ToolInv' /\ SharedOnlyUnseen' /\ UNCHANGED <<file, authdVars>>
  <2> DEFINE d == [at |-> what, id |-> id, pos |-> Place(id)]
  <2>1. /\ tool' = [tool EXCEPT ![t] = d] /\ UNCHANGED fileVars
        /\ UNCHANGED <<file, authdVars>> /\ IDExist(id)
    BY <1>4 DEF ChooseOld, GoTo, fileVars, PlaceOf
  <2>2. Place(id) \in Lines /\ file[Place(id)].id = id
    BY <1>2, <2>1, PlaceHasId
  <2>3. d \in Dialogue
    BY <1>2, <2>2, LinesType DEF Dialogue
  <2>4. d.at # "add" /\ d.pos \in Lines /\ file[d.pos].id = d.id
    BY <2>2
  <2> HIDE DEF d
  <2>5. QED
    BY <2>1, <2>3, <2>4, DialogueKeeps
<1>5. CASE k_extract(t) \/ Quit(t)
  <2>1. /\ tool' = [tool EXCEPT ![t] = Menu] /\ UNCHANGED fileVars
        /\ UNCHANGED <<file, authdVars>>
    BY <1>5 DEF k_extract, Quit, GoTo, fileVars
  <2>2. Menu \in Dialogue /\ Menu.at \notin {"add", "remove", "extract"}
    BY DEF Menu, Dialogue
  <2>3. QED
    BY <2>1, <2>2, DialogueKeeps
<1>6. UNCHANGED authdVars
  BY <1>1, <1>3, <1>4, <1>5 DEF add_agent, remove_agent
<1>7. QED
  BY <1>1, <1>3, <1>4, <1>5, <1>6, AddKeeps, RemoveKeeps

-----------------------------------------------------------------------------
(* authd.                                                                  *)

(* The places taken are finitely many; if all are, as many as there are.   *)
LEMMA PlacesFinite ==
  /\ IsFiniteSet(Slots) /\ Cardinality(Slots) = POOL_SIZE
  /\ \A S \in SUBSET Slots :
       /\ IsFiniteSet(S) /\ Cardinality(S) \in Nat /\ Cardinality(S) <= POOL_SIZE
       /\ Cardinality(S) = POOL_SIZE => S = Slots
<1>1. IsFiniteSet(Slots) /\ Cardinality(Slots) = POOL_SIZE
  BY FS_Interval DEF Slots
<1>2. QED
  BY <1>1, FS_Subset, FS_CardinalityType

(* What the code does to the pool and the count.                           *)
LEMMA PlaceLeft ==
  ASSUME Counted, NEW p \in Slots, pool[p] # None,
         pool \in [Slots -> Clients \cup {None, Failed}],
         pool' = [pool EXCEPT ![p] = None], active' = active - 1
  PROVE  Counted'
<1>1. Taken \in SUBSET Slots /\ p \in Taken
  BY DEF Taken
<1>2. Taken' = Taken \ {p}
  BY DEF Taken
<1>3. IsFiniteSet(Taken) /\ Taken' \in SUBSET Slots
  BY <1>1, <1>2, PlacesFinite
<1>4. Cardinality(Taken') = Cardinality(Taken) - 1
  BY <1>1, <1>2, <1>3, FS_RemoveElement
<1>5. active' = Cardinality(Taken') /\ active' \in 0 .. POOL_SIZE
  BY <1>3, <1>4, PlacesFinite DEF Counted
<1>6. QED
  BY <1>5 DEF Counted

LEMMA PlaceTaken ==
  ASSUME Counted, NEW p \in Slots, pool[p] = None, NEW x, x # None,
         pool \in [Slots -> Clients \cup {None, Failed}],
         pool' = [pool EXCEPT ![p] = x], active' = active + 1
  PROVE  Counted'
<1>1. Taken \in SUBSET Slots /\ p \notin Taken
  BY DEF Taken
<1>2. Taken' = Taken \cup {p}
  BY DEF Taken
<1>3. IsFiniteSet(Taken) /\ Taken' \in SUBSET Slots
  BY <1>1, <1>2, PlacesFinite
<1>4. Cardinality(Taken') = Cardinality(Taken) + 1
  BY <1>1, <1>2, <1>3, FS_AddElement
<1>5. active' = Cardinality(Taken') /\ active' \in 0 .. POOL_SIZE
  BY <1>3, <1>4, PlacesFinite DEF Counted
<1>6. QED
  BY <1>5 DEF Counted

(* authd does nothing.                                                     *)
LEMMA AuthdStays ==
  ASSUME AuthdInv, UNCHANGED authdVars
  PROVE  AuthdInv'
<1>1. UNCHANGED <<authd, place, ready, alive, pool, active, child, unwaited>>
  BY DEF authdVars, loopVars
<1>2. Living' = Living /\ Taken' = Taken
  BY <1>1 DEF Living, Taken
<1>3. (AuthdTypes /\ Counted)' /\ OnePlace' /\ Waited' /\ Looked'
  BY <1>1, <1>2 DEF AuthdInv, AuthdTypes, Counted, OnePlace, Waited, Looked
<1>4. QED
  BY <1>1, <1>3 DEF AuthdInv, EndsOnlyIfPoolWasFull

(* The place looked at is left, or it holds a child that lives; what a -1  *)
(* collects keeps its place until that is looked at.                       *)
LEMMA ReapKeeps ==
  ASSUME AuthdInv, Reap
  PROVE  AuthdInv'
<1> USE DEF AuthdInv, AuthdTypes
<1>1. /\ authd = "reap" /\ NextPlace /\ UNCHANGED <<child, ready>>
      /\ Living' = Living
  BY DEF Reap, Living
<1>2. /\ authd' = IF place = POOL_SIZE THEN "select" ELSE "reap"
      /\ place' = IF place = POOL_SIZE THEN 1 ELSE place + 1
      /\ alive' = IF place = 1 THEN Living ELSE alive
  BY <1>1 DEF NextPlace, Slots
<1>3. Living' \subseteq alive' /\ alive' \subseteq Clients
  BY <1>1, <1>2 DEF Looked, Living
<1>4. place' \in Slots /\ (authd' # "reap" => place' = 1)
  BY <1>2 DEF Slots
<1>5. CASE /\ pool[place] # None
           /\ \E w \in Collected(place) :
                /\ pool' = [pool EXCEPT ![place] = None]
                /\ active' = active - 1 /\ unwaited' = unwaited \ w
  <2>1. PICK w \in Collected(place) :
          /\ pool' = [pool EXCEPT ![place] = None]
          /\ active' = active - 1 /\ unwaited' = unwaited \ w
    BY <1>5
  <2>2. \A i \in Slots : pool'[i] = IF i = place THEN None ELSE pool[i]
    BY <2>1
  <2>3. w \cap Living = {} /\ (pool[place] \in unwaited => pool[place] \in w)
    BY <2>1 DEF Collected, Zombies
  <2>4. AuthdTypes'
    BY <1>1, <1>2, <1>3, <1>4, <2>1
  <2>5. Counted'
    BY <1>5, <2>1, PlaceLeft
  <2>6. OnePlace'
    BY <1>1, <2>2 DEF OnePlace
  <2>7. Waited'
    <3>1. Living' \subseteq unwaited'
      BY <1>1, <2>1, <2>3 DEF Waited
    <3>2. ASSUME NEW c \in unwaited' PROVE \E i \in Slots : pool'[i] = c
      <4>1. c \in unwaited /\ c \notin w
        BY <2>1, <3>2
      <4>2. PICK i \in Slots : pool[i] = c
        BY <4>1 DEF Waited
      <4>3. i # place
        BY <2>3, <4>1, <4>2
      <4>4. QED
        BY <2>2, <4>2, <4>3
    <3>3. QED
      BY <3>1, <3>2 DEF Waited
  <2>8. Looked'
    <3>1. ASSUME NEW i \in Slots, pool'[i] \in Clients, authd' = "reap" => i < place'
          PROVE  pool'[i] \in alive'
      <4>1. i # place /\ pool'[i] = pool[i]
        BY <2>2, <3>1
      <4>2. i < place
        BY <1>2, <3>1, <4>1 DEF Slots
      <4>3. pool[i] \in alive /\ place # 1
        BY <3>1, <4>1, <4>2 DEF Looked, Slots
      <4>4. QED
        BY <1>2, <4>1, <4>3
    <3>2. QED
      BY <1>3, <3>1 DEF Looked
  <2>9. QED
    BY <1>2, <2>4, <2>5, <2>6, <2>7, <2>8 DEF EndsOnlyIfPoolWasFull
<1>6. CASE /\ pool[place] = None \/ Collected(place) = {}
           /\ UNCHANGED <<pool, active, unwaited>>
  <2>1. ASSUME pool[place] \in Clients PROVE pool[place] \in Living
    <3> DEFINE meant == unwaited \cap {pool[place]}
    <3>1. Collected(place) = {} /\ pool[place] # Failed
      BY <1>6, <2>1
    <3>2. Collected(place) = IF meant = {} THEN {{}} ELSE {{c} : c \in meant \cap Zombies}
      BY <3>1 DEF Collected
    <3>3. {{}} # {}
      OBVIOUS
    <3>4. meant # {} /\ {{c} : c \in meant \cap Zombies} = {}
      BY <3>1, <3>2, <3>3, Zenon
    <3>5. ASSUME NEW c \in meant PROVE c \notin Zombies
      <4>1. c \in meant \cap Zombies => {c} \in {{d} : d \in meant \cap Zombies}
        OBVIOUS
      <4>2. QED
        BY <3>4, <4>1
    <3>6. pool[place] \in unwaited /\ pool[place] \notin Zombies
      BY <3>4, <3>5
    <3>7. QED
      BY <3>6 DEF Zombies
  <2>2. AuthdTypes'
    BY <1>1, <1>2, <1>3, <1>4, <1>6
  <2>3. Counted' /\ OnePlace' /\ Waited'
    BY <1>1, <1>6 DEF Counted, Taken, OnePlace, Waited
  <2>4. Looked'
    <3>1. ASSUME NEW i \in Slots, pool'[i] \in Clients, authd' = "reap" => i < place'
          PROVE  pool'[i] \in alive'
      <4>1. CASE i = place
        BY <1>1, <1>3, <1>6, <2>1, <3>1, <4>1
      <4>2. CASE i # place
        <5>1. i < place
          BY <1>2, <3>1, <4>2 DEF Slots
        <5>2. pool[i] \in alive /\ place # 1
          BY <1>6, <3>1, <5>1 DEF Looked, Slots
        <5>3. QED
          BY <1>2, <1>6, <5>2
      <4>3. QED
        BY <4>1, <4>2
    <3>2. QED
      BY <1>3, <3>1 DEF Looked
  <2>5. QED
    BY <1>2, <2>2, <2>3, <2>4 DEF EndsOnlyIfPoolWasFull
<1>7. QED
  BY <1>5, <1>6 DEF Reap

(* The wait for connections.                                               *)
LEMMA SelectKeeps ==
  ASSUME AuthdInv, WaitForClients
  PROVE  AuthdInv'
<1>1. /\ authd = "select" /\ authd' = "accept" /\ ready' \in 1 .. Sockets
      /\ UNCHANGED <<place, alive, pool, active, child, unwaited>>
  BY DEF WaitForClients
<1>2. Living' = Living /\ Taken' = Taken
  BY <1>1 DEF Living, Taken
<1>3. AuthdTypes' /\ Counted' /\ OnePlace' /\ Waited' /\ Looked'
  BY <1>1, <1>2 DEF AuthdInv, AuthdTypes, Counted, OnePlace, Waited, Looked
<1>4. QED
  BY <1>1, <1>3 DEF AuthdInv, EndsOnlyIfPoolWasFull

(* authd goes on to the next socket, or to its pool.                       *)
LEMMA NextSocketKeeps ==
  ASSUME AuthdTypes, authd = "accept", NextSocket
  PROVE  /\ authd' \in {"reap", "accept"} /\ place' = 1 /\ 1 \in Slots
         /\ ready' \in 0 .. Sockets /\ (authd' = "accept" => ready' >= 1)
  BY DEF AuthdTypes, NextSocket, Slots

(* A client gets a free place, or a fork that failed does, or authd ends   *)
(* because each place is taken.                                            *)
LEMMA AcceptKeeps ==
  ASSUME AuthdInv, NEW c \in Clients, Accept(c)
  PROVE  AuthdInv'
<1> USE DEF AuthdInv
<1>1. authd = "accept" /\ child[c] = "waiting"
  BY DEF Accept
<1>2. CASE /\ active >= POOL_SIZE /\ authd' = "ended"
           /\ UNCHANGED <<ready, place, alive, pool, active, child, unwaited>>
  <2>1. Taken = Slots
    <3>1. Cardinality(Taken) = POOL_SIZE /\ Taken \in SUBSET Slots
      BY <1>2 DEF Counted, Taken
    <3>2. QED
      BY <3>1, PlacesFinite
  <2>2. \A i \in Slots : pool[i] \in alive \cup {Failed}
    BY <1>1, <2>1 DEF AuthdTypes, Taken, Looked
  <2>3. Living' = Living /\ Taken' = Taken
    BY <1>2 DEF Living, Taken
  <2>4. AuthdTypes' /\ Counted' /\ OnePlace' /\ Waited' /\ Looked'
    BY <1>1, <1>2, <2>3 DEF AuthdTypes, Counted, OnePlace, Waited, Looked
  <2>5. QED
    BY <1>2, <2>2, <2>4 DEF EndsOnlyIfPoolWasFull
<1>3. ASSUME active < POOL_SIZE, NextSocket, active' = active + 1,
             NEW x \in {c, Failed}, InPool(x)
      PROVE  /\ Counted' /\ pool' \in [Slots -> Clients \cup {None, Failed}]
             /\ \E p \in Slots :
                  /\ pool[p] = None
                  /\ \A i \in Slots : pool'[i] = IF i = p THEN x ELSE pool[i]
  <2> DEFINE p == CHOOSE i \in Slots : pool[i] = None
  <2>1. p \in Slots /\ pool[p] = None
    <3>1. Cardinality(Taken) # POOL_SIZE
      BY <1>3 DEF Counted
    <3>2. Taken # Slots
      BY <3>1, PlacesFinite
    <3>3. \E i \in Slots : pool[i] = None
      BY <3>2 DEF Taken
    <3>4. QED
      BY <3>3
  <2>2. pool' = [pool EXCEPT ![p] = x]
    BY <1>3 DEF InPool
  <2> HIDE DEF p
  <2>3. x # None
    OBVIOUS
  <2>4. Counted'
    BY <1>3, <2>1, <2>2, <2>3, PlaceTaken DEF AuthdTypes
  <2>5. QED
    BY <2>1, <2>2, <2>4 DEF AuthdTypes
<1>4. CASE /\ active < POOL_SIZE /\ NextSocket /\ active' = active + 1 /\ InPool(c)
           /\ child' = [child EXCEPT ![c] = "alive"]
           /\ unwaited' = unwaited \cup {c} /\ alive' = alive \cup {c}
  <2>1. /\ Counted' /\ pool' \in [Slots -> Clients \cup {None, Failed}]
        /\ \E p \in Slots :
             /\ pool[p] = None
             /\ \A i \in Slots : pool'[i] = IF i = p THEN c ELSE pool[i]
    BY <1>3, <1>4
  <2>2. PICK p \in Slots : /\ pool[p] = None
                           /\ \A i \in Slots : pool'[i] = IF i = p THEN c ELSE pool[i]
    BY <2>1
  <2>3. /\ child' \in [Clients -> {"none", "waiting", "alive", "served", "refused"}]
        /\ \A d \in Clients : child'[d] = IF d = c THEN "alive" ELSE child[d]
        /\ Living' = Living \cup {c}
    BY <1>4 DEF AuthdTypes, Living
  <2>4. \A i \in Slots : pool[i] # c
    BY <1>1 DEF OnePlace
  <2>5. AuthdTypes'
    BY <1>1, <1>4, <2>1, <2>3, NextSocketKeeps DEF AuthdTypes
  <2>6. OnePlace'
    BY <2>2, <2>3, <2>4 DEF OnePlace
  <2>7. Waited'
    <3>1. ASSUME NEW d \in unwaited' PROVE \E i \in Slots : pool'[i] = d
      <4>1. CASE d = c
        BY <2>2, <4>1
      <4>2. CASE d # c
        <5>1. PICK i \in Slots : pool[i] = d
          BY <1>4, <3>1, <4>2 DEF Waited
        <5>2. i # p
          BY <1>4, <2>2, <3>1, <4>2, <5>1 DEF AuthdTypes
        <5>3. QED
          BY <2>2, <5>1, <5>2
      <4>3. QED
        BY <4>1, <4>2
    <3>2. QED
      BY <1>4, <2>3, <3>1 DEF Waited
  <2>8. Looked'
    BY <1>1, <1>4, <2>2, <2>3 DEF Looked
  <2>9. authd' # "ended"
    BY <1>1, <1>4, NextSocketKeeps
  <2>10. QED
    BY <2>1, <2>5, <2>6, <2>7, <2>8, <2>9 DEF EndsOnlyIfPoolWasFull
<1>5. CASE /\ active < POOL_SIZE /\ NextSocket /\ active' = active + 1 /\ InPool(Failed)
           /\ child' = [child EXCEPT ![c] = "none"] /\ UNCHANGED <<unwaited, alive>>
  <2>1. /\ Counted' /\ pool' \in [Slots -> Clients \cup {None, Failed}]
        /\ \E p \in Slots :
             /\ pool[p] = None
             /\ \A i \in Slots : pool'[i] = IF i = p THEN Failed ELSE pool[i]
    BY <1>3, <1>5
  <2>2. PICK p \in Slots : /\ pool[p] = None
                           /\ \A i \in Slots : pool'[i] = IF i = p THEN Failed ELSE pool[i]
    BY <2>1
  <2>3. /\ child' \in [Clients -> {"none", "waiting", "alive", "served", "refused"}]
        /\ \A d \in Clients : child'[d] = IF d = c THEN "none" ELSE child[d]
        /\ Living' = Living
    BY <1>1, <1>5 DEF AuthdTypes, Living
  <2>4. AuthdTypes'
    BY <1>1, <1>5, <2>1, <2>3, NextSocketKeeps DEF AuthdTypes
  <2>5. OnePlace'
    BY <2>2, <2>3 DEF OnePlace
  <2>6. Waited'
    <3>1. ASSUME NEW d \in unwaited PROVE \E i \in Slots : pool'[i] = d
      <4>1. PICK i \in Slots : pool[i] = d
        BY <3>1 DEF Waited
      <4>2. i # p
        BY <2>2, <3>1, <4>1 DEF AuthdTypes
      <4>3. QED
        BY <2>2, <4>1, <4>2
    <3>2. QED
      BY <1>5, <2>3, <3>1 DEF Waited
  <2>7. Looked'
    BY <1>1, <1>5, <2>2, <2>3 DEF Looked
  <2>8. authd' # "ended"
    BY <1>1, <1>5, NextSocketKeeps
  <2>9. QED
    BY <2>1, <2>4, <2>5, <2>6, <2>7, <2>8 DEF EndsOnlyIfPoolWasFull
<1>6. QED
  BY <1>2, <1>4, <1>5 DEF Accept

(* The client accepted has gone.                                           *)
LEMMA AcceptFailsKeeps ==
  ASSUME AuthdInv, NEW c \in Clients, AcceptFails(c)
  PROVE  AuthdInv'
<1> USE DEF AuthdInv
<1>1. /\ authd = "accept" /\ child[c] = "waiting" /\ NextSocket
      /\ child' = [child EXCEPT ![c] = "none"]
      /\ UNCHANGED <<alive, pool, active, unwaited>>
  BY DEF AcceptFails
<1>2. /\ child' \in [Clients -> {"none", "waiting", "alive", "served", "refused"}]
      /\ \A d \in Clients : child'[d] = IF d = c THEN "none" ELSE child[d]
      /\ Living' = Living /\ Taken' = Taken
  BY <1>1 DEF AuthdTypes, Living, Taken
<1>3. AuthdTypes'
  BY <1>1, <1>2, NextSocketKeeps DEF AuthdTypes
<1>4. Counted' /\ OnePlace' /\ Waited'
  BY <1>1, <1>2 DEF Counted, OnePlace, Waited
<1>5. Looked' /\ authd' # "ended"
  BY <1>1, <1>2, NextSocketKeeps DEF Looked
<1>6. QED
  BY <1>3, <1>4, <1>5 DEF EndsOnlyIfPoolWasFull

(* The session of one client goes on.                                      *)
LEMMA SessionKeeps ==
  ASSUME AuthdInv, NEW c \in Clients, Session(c)
  PROVE  AuthdInv'
<1> USE DEF AuthdInv
<1>1. UNCHANGED <<authd, place, ready, alive, pool, active, unwaited>>
  BY DEF Session, Connect, Serve, Abort, loopVars
<1>2. PICK s \in {"none", "waiting", "served", "refused"} :
        /\ child' = [child EXCEPT ![c] = s]
        /\ s = "waiting" => \A i \in Slots : pool[i] # c
  BY DEF Session, Connect, Serve, Abort
<1>3. /\ child' \in [Clients -> {"none", "waiting", "alive", "served", "refused"}]
      /\ \A d \in Clients : child'[d] = IF d = c THEN s ELSE child[d]
  BY <1>2 DEF AuthdTypes
<1>4. Living' \subseteq Living /\ Taken' = Taken
  BY <1>1, <1>3 DEF Living, Taken
<1>5. AuthdTypes' /\ Counted'
  BY <1>1, <1>3, <1>4 DEF AuthdTypes, Counted
<1>6. OnePlace'
  BY <1>1, <1>2, <1>3 DEF OnePlace
<1>7. Waited' /\ Looked'
  BY <1>1, <1>4 DEF Waited, Looked
<1>8. QED
  BY <1>1, <1>5, <1>6, <1>7 DEF EndsOnlyIfPoolWasFull

-----------------------------------------------------------------------------
(* One line, written for no tool, and an empty pool.                       *)
LEMMA InitEstablishes == EnrolInit => EnrolIInv
<1> SUFFICES ASSUME EnrolInit PROVE EnrolIInv
  OBVIOUS
<1>1. PICK h \in Hosts : file = <<[id |-> 1, name |-> h, removed |-> FALSE]>>
  BY DEF EnrolInit, InitFile
<1> DEFINE line == [id |-> 1, name |-> h, removed |-> FALSE]
<1>2. line \in FileLines /\ line.id = 1
  BY DEF FileLines, Ids
<1> HIDE DEF line
<1>3. file = <<line>>
  BY <1>1 DEF line
<1>4. file \in Seq(FileLines) /\ Len(file) = 1 /\ file[1] = line
  BY <1>2, <1>3
<1>5. Lines = 1 .. 1
  BY <1>4, LenProperties DEF Lines
<1>6. unseen \in Seq(Nat) /\ Len(unseen) = 1
  BY DEF EnrolInit
<1>7. FileInv
  BY <1>2, <1>4, <1>5, <1>6 DEF FileInv
<1>8. ToolInv
  BY DEF EnrolInit, ToolInv, Dialogue, Menu
<1>9. SharedOnlyUnseen
  BY <1>5 DEF SharedOnlyUnseen
<1>10. Taken = {} /\ Living = {}
  BY DEF EnrolInit, Taken, Living
<1>11. Cardinality(Taken) = 0
  BY <1>10, FS_EmptySet
<1>12. AuthdInv
  BY <1>10, <1>11 DEF EnrolInit, AuthdInv, AuthdTypes, Counted, OnePlace, Waited, Looked,
        EndsOnlyIfPoolWasFull, Slots
<1>13. QED
  BY <1>7, <1>8, <1>9, <1>12 DEF EnrolIInv

(* Every step of a tool or of authd.                                       *)
LEMMA StepKeeps ==
  ASSUME EnrolIInv, [EnrolNext]_enrolVars
  PROVE  /\ EnrolIInv'
         /\ \A l \in Lines : /\ file'[l].id = file[l].id
                             /\ file[l].removed => file'[l].removed
<1>1. CASE Administer
  <2>1. AuthdInv'
    BY <1>1, AdministerKeeps, AuthdStays DEF EnrolIInv
  <2>2. QED
    BY <1>1, <2>1, AdministerKeeps DEF EnrolIInv
<1>2. ASSUME UNCHANGED <<fileVars, tool>>
      PROVE  /\ FileInv' /\ ToolInv' /\ SharedOnlyUnseen'
             /\ \A l \in Lines : /\ file'[l].id = file[l].id
                                 /\ file[l].removed => file'[l].removed
  <2>1. file' = file /\ unseen' = unseen /\ tool' = tool
    BY <1>2 DEF fileVars
  <2>2. QED
    BY <2>1 DEF EnrolIInv, FileInv, ToolInv, SharedOnlyUnseen, NewAmongSeen, LineOfId, Lines, LiveLines
<1>3. CASE Authd
  <2>1. UNCHANGED <<fileVars, tool>>
    BY <1>3 DEF Authd, Reap, WaitForClients, Session, Connect, Accept, AcceptFails, Serve, Abort
  <2>2. AuthdInv'
    BY <1>3, ReapKeeps, SelectKeeps, AcceptKeeps, AcceptFailsKeeps, SessionKeeps
       DEF EnrolIInv, Authd
  <2>3. QED
    BY <1>2, <2>1, <2>2 DEF EnrolIInv
<1>4. CASE UNCHANGED enrolVars
  <2>1. UNCHANGED <<fileVars, tool>> /\ UNCHANGED authdVars
    BY <1>4 DEF enrolVars
  <2>2. AuthdInv'
    BY <2>1, AuthdStays DEF EnrolIInv
  <2>3. QED
    BY <1>2, <2>1, <2>2 DEF EnrolIInv
<1>5. QED
  BY <1>1, <1>3, <1>4 DEF EnrolNext

LEMMA EnrolInvariance == EnrolSpec => []EnrolIInv
<1>1. EnrolIInv /\ [EnrolNext]_enrolVars => EnrolIInv'
  BY StepKeeps
<1>2. QED
  BY InitEstablishes, <1>1, PTL DEF EnrolSpec

(* What the inductive invariant says of the run's invariants.              *)
LEMMA Implied == EnrolIInv => EnrolmentInv
<1> SUFFICES ASSUME EnrolIInv PROVE EnrolmentInv
  OBVIOUS
<1>1. FileInv /\ ToolInv /\ AuthdInv
  BY DEF EnrolIInv
<1>2. HandedAsAsked
  BY <1>1 DEF ToolInv, LineOfId, HandedAsAsked
<1>3. FileTypeOK /\ unseen \in [Lines -> Nat]
  <2>1. unseen \in [1 .. Len(file) -> Nat]
    BY <1>1, LenProperties DEF FileInv
  <2>2. QED
    BY <1>1, <2>1, LinesType DEF FileInv, FileTypeOK, FileLines
<1>4. ASSUME NEW t \in Tools
      PROVE  /\ tool[t].at \in {"menu", "add", "remove", "extract"}
             /\ tool[t].at = "add" => tool[t].seen <= Len(file) /\ tool[t].id \in Nat
             /\ tool[t].at \in {"remove", "extract"} => tool[t].pos \in Lines
  <2>1. tool[t] \in Dialogue
    BY <1>1 DEF ToolInv
  <2>2. tool[t].at \in {"menu", "add", "remove", "extract"}
    BY <2>1 DEF Dialogue, Menu
  <2>3. tool[t].at = "add" => tool[t].id \in Nat
    BY <2>1 DEF Dialogue, Menu
  <2>4. QED
    BY <1>1, <2>2, <2>3 DEF ToolInv, NewAmongSeen, LineOfId
<1>5. EnrolTypeOK
  BY <1>1, <1>3, <1>4 DEF EnrolTypeOK, AuthdInv, AuthdTypes, Counted
<1>6. PoolIsAccount
  <2>1. \A c \in unwaited : \E i \in Slots : /\ pool[i] = c
                                         /\ \A j \in Slots : pool[j] = c => j = i
    BY <1>1 DEF AuthdInv, AuthdTypes, OnePlace, Waited
  <2>2. QED
    BY <1>1, <2>1 DEF AuthdInv, Counted, Waited, PoolIsAccount, Taken
<1>7. QED
  BY <1>1, <1>2, <1>5, <1>6 DEF EnrolmentInv, AuthdInv

(* However the tools' dialogues interleave and whatever clients do, a key  *)
(* handed out is that of the agent asked for, and authd has one place for  *)
(* every child it has not waited for, also when forks fail, and ends only  *)
(* when each place is that of a child alive at its last look or forked     *)
(* since, or of a fork that failed.                                        *)
THEOREM EnrolmentIsAccounted == EnrolSpec => []EnrolmentInv
  BY EnrolInvariance, Implied, PTL

(* Two lines share an id, or two agents a name, only if the tool that      *)
(* wrote the second had not seen the first.                                *)
THEOREM SharingNeedsBlindness == EnrolSpec => []SharedOnlyUnseen
<1>1. EnrolIInv => SharedOnlyUnseen
  BY DEF EnrolIInv
<1>2. QED
  BY EnrolInvariance, <1>1, PTL

(* No edit changes the id of a line or brings a removed agent back.        *)
THEOREM LinesAreKept == EnrolSpec => LinesKeepTheirId
<1>1. EnrolIInv /\ [EnrolNext]_enrolVars =>
        [\A l \in Lines : /\ file'[l].id = file[l].id
                          /\ file[l].removed => file'[l].removed]_enrolVars
  BY StepKeeps
<1>2. QED
  BY EnrolInvariance, <1>1, PTL DEF EnrolSpec, LinesKeepTheirId
=============================================================================
