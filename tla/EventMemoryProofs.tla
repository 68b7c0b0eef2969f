------------------------- MODULE EventMemoryProofs -------------------------
(***************************************************************************)
(* Proofs about EventMemory, for every memory size, batch and rule set.    *)
(* An eviction brings the memory below its limit and never reaches the     *)
(* event that is being added; every list holds exactly the nodes of the    *)
(* events in memory; a counting rule fires on as many events as it asks    *)
(* for, within its time and from its source; and alerts counted on one     *)
(* list share no event unless the later one has the higher level.          *)
(***************************************************************************)
EXTENDS EventMemory, SequenceTheorems, FiniteSetTheorems, WellFoundedInduction, TLAPS

Event == [rule : Rules, src : Sources, time : 1 .. MaxTime, matched : Nat]

CoreTypes ==
  /\ c_time \in 1 .. MaxTime
  /\ event \in Seq(Event)
  /\ memory \in Seq(Nat)
  /\ memoryused \in Nat
  /\ time_ignored \in [Rules -> 0 .. MaxTime]
  /\ removed \in Nat
  /\ at \in {"idle", "remember", "evict"}

(* _memoryused counts the nodes but the first.                             *)
UsedIsCount ==
  /\ memory = <<>> => memoryused = 0
  /\ memory # <<>> => memoryused = Len(memory) - 1

(* An eviction started with one node too many and has removed `removed';   *)
(* the newest node is the event that started it.                           *)
Balance ==
  /\ at # "evict" => memoryused <= MemoryMax
  /\ at = "remember" => event # <<>>
  /\ at = "evict" => /\ Len(memory) + removed = MemoryMax + 2
                     /\ memory # <<>>
                     /\ event # <<>>
                     /\ memory[Len(memory)] = Newest

IInv == CoreTypes /\ UsedIsCount /\ Balance

LEMMA MaxFreqType == MaxFreq \in Nat
<1>1. PICK r \in Rules : \A q \in Rules : Frequency[q] <= Frequency[r]
  BY MaxFreqAssumption
<1>2. \E f \in {Frequency[q] : q \in Rules} : \A q \in Rules : Frequency[q] <= f
  BY <1>1
<1>3. MaxFreq \in {Frequency[q] : q \in Rules}
  BY <1>2 DEF MaxFreq
<1>4. QED
  BY <1>3, RulesAssumption

(* The marks change nothing but the level an event is marked with.         *)
LEMMA MarksKeepEvents ==
  ASSUME event \in Seq(Event), NEW c \in Rules, NEW src
  PROVE  /\ WithMarks(c, src) \in Seq(Event)
         /\ Len(WithMarks(c, src)) = Len(event)
<1>1. \A e \in 1 .. Len(event) : event[e] \in Event
  BY ElementOfSeq
<1>2. Level[c] \in Nat
  BY RulesAssumption
<1>3. \A e \in 1 .. Len(event) : [event[e] EXCEPT !.matched = Level[c]] \in Event
  BY <1>1, <1>2 DEF Event
<1>4. \A e \in 1 .. Len(event) :
        (IF e \in Marked(c, src) THEN [event[e] EXCEPT !.matched = Level[c]]
                                 ELSE event[e]) \in Event
  BY <1>1, <1>3
<1>5. Len(event) \in Nat
  BY LenProperties
<1>6. QED
  BY <1>4, <1>5, IsASeq DEF WithMarks

(* Generating an alert, or ignoring it, from any marked events.            *)
LEMMA GenerateKeepsInvariant ==
  ASSUME IInv, at = "idle",
         NEW r \in Rules, NEW src \in Sources, NEW mark \in Nat,
         NEW marked \in Seq(Event),
         Generate(r, src, marked, mark),
         UNCHANGED <<c_time, memory, memoryused, removed>>
  PROVE  IInv'
<1>1. CASE Ignored(r)
  BY <1>1 DEF Generate, IInv, CoreTypes, UsedIsCount, Balance
<1>2. CASE ~ Ignored(r)
  <2> DEFINE new == [rule |-> r, src |-> src, time |-> c_time, matched |-> mark]
  <2>1. new \in Event
    BY DEF Event, IInv, CoreTypes
  <2>2. event' = Append(marked, new) /\ at' = "remember"
    BY <1>2 DEF Generate
  <2>3. event' \in Seq(Event) /\ event' # <<>>
    BY <2>1, <2>2, AppendProperties
  <2>4. time_ignored' \in [Rules -> 0 .. MaxTime]
    <3>1. c_time \in 0 .. MaxTime /\ time_ignored \in [Rules -> 0 .. MaxTime]
      BY BoundsAssumption DEF IInv, CoreTypes
    <3>2. QED
      BY <1>2, <3>1 DEF Generate
  <2>5. QED
    BY <2>2, <2>3, <2>4 DEF IInv, CoreTypes, UsedIsCount, Balance
<1>3. QED
  BY <1>1, <1>2

LEMMA AddKeepsInvariant ==
  ASSUME IInv, OS_AddEvent
  PROVE  IInv'
<1> DEFINE used == IF memory = <<>> THEN memoryused ELSE memoryused + 1
<1>1. /\ at = "remember" /\ event' = event /\ c_time' = c_time
      /\ time_ignored' = time_ignored
      /\ memory' = Append(memory, Newest)
      /\ memoryused' = used
      /\ at' = IF used > MemoryMax THEN "evict" ELSE "idle"
      /\ removed' = 0
  BY DEF OS_AddEvent
<1>2. Newest \in Nat
  BY LenProperties DEF Newest, IInv, CoreTypes
<1>3. /\ memory' \in Seq(Nat) /\ memory' # <<>>
      /\ Len(memory') = Len(memory) + 1
      /\ memory'[Len(memory')] = Newest
  BY <1>1, <1>2, AppendProperties DEF IInv, CoreTypes
<1>4. Len(memory) \in Nat /\ (memory = <<>> <=> Len(memory) = 0)
  BY LenProperties, EmptySeq DEF IInv, CoreTypes
<1>5. used \in Nat /\ used = Len(memory) /\ used <= MemoryMax + 1
  BY <1>1, <1>4, MemoryAssumption DEF IInv, CoreTypes, UsedIsCount, Balance
<1>6. CoreTypes'
  BY <1>1, <1>3, <1>5 DEF IInv, CoreTypes
<1>7. UsedIsCount'
  BY <1>1, <1>3, <1>4, <1>5 DEF UsedIsCount
<1>8. Balance'
  <2>1. event # <<>> /\ Newest' = Newest /\ event' = event
    BY <1>1 DEF IInv, Balance, Newest
  <2>2. CASE used > MemoryMax
    <3>1. used = MemoryMax + 1
      BY <1>5, <2>2, MemoryAssumption
    <3>2. Len(memory') + removed' = MemoryMax + 2
      BY <1>1, <1>3, <1>4, <1>5, <3>1, MemoryAssumption, SMTT(30)
    <3>3. at' = "evict"
      BY <1>1, <2>2
    <3>4. QED
      BY <1>3, <2>1, <3>2, <3>3 DEF Balance
  <2>3. CASE ~ (used > MemoryMax)
    <3>1. at' = "idle" /\ memoryused' <= MemoryMax
      BY <1>1, <1>5, <2>3, MemoryAssumption
    <3>2. QED
      BY <3>1 DEF Balance
  <2>4. QED
    BY <2>2, <2>3
<1>9. QED
  BY <1>6, <1>7, <1>8 DEF IInv

(* The event being added is never removed: by the time it is the only one  *)
(* left, a batch is gone, and it is not older than itself.                 *)
LEMMA RemoveKeepsInvariant ==
  ASSUME IInv, RemoveOldest
  PROVE  IInv'
<1>1. /\ at = "evict" /\ at' = at /\ MoreToRemove
      /\ memory' = Tail(memory)
      /\ memoryused' = memoryused - 1
      /\ removed' = removed + 1
      /\ UNCHANGED <<c_time, event, time_ignored>>
  BY DEF RemoveOldest
<1>2. memory \in Seq(Nat) /\ memory # <<>> /\ Len(memory) \in Nat \ {0}
  BY <1>1, LenProperties, EmptySeq DEF IInv, CoreTypes, Balance
<1>3. Len(memory) # 1
  <2>1. SUFFICES ASSUME Len(memory) = 1 PROVE FALSE
    OBVIOUS
  <2>2. removed = MemoryMax + 1
    BY <1>1, <2>1, MemoryAssumption DEF IInv, CoreTypes, Balance
  <2>3. ~ (removed < Batch)
    BY <2>2, MemoryAssumption
  <2>4. Head(memory) = Newest
    BY <1>1, <1>2, <2>1, HeadTailProperties DEF IInv, Balance
  <2>5. Newest \in 1 .. Len(event)
    BY <1>1, LenProperties, EmptySeq DEF Newest, IInv, CoreTypes, Balance
  <2>6. event[Newest].time \in Nat
    <3>1. event[Newest] \in Event
      BY <2>5, ElementOfSeq DEF IInv, CoreTypes
    <3>2. QED
      BY <3>1 DEF Event
  <2>7. event[Newest].time - event[Head(memory)].time = 0
    <3>1. \A t \in Nat : t - t = 0
      OBVIOUS
    <3>2. event[Head(memory)].time = event[Newest].time
      BY <2>4
    <3>3. QED
      BY <2>6, <3>1, <3>2
  <2>8. QED
    BY <1>1, <2>3, <2>7, MaxFreqType DEF MoreToRemove
<1>4. /\ memory' \in Seq(Nat)
      /\ Len(memory') = Len(memory) - 1
      /\ \A k \in 1 .. Len(memory') : memory'[k] = memory[k + 1]
  BY <1>1, <1>2, HeadTailProperties
<1>5. memory' # <<>>
  BY <1>2, <1>3, <1>4, EmptySeq
<1>6. memory'[Len(memory')] = Newest
  <2>1. Len(memory') \in 1 .. Len(memory')
    BY <1>2, <1>3, <1>4
  <2>2. memory'[Len(memory')] = memory[Len(memory') + 1]
    BY <1>4, <2>1
  <2>3. Len(memory') + 1 = Len(memory)
    BY <1>2, <1>4
  <2>4. QED
    BY <1>1, <2>2, <2>3 DEF IInv, Balance
<1>7. CoreTypes'
  <2>1. memoryused' = Len(memory) - 2
    BY <1>1, <1>2 DEF IInv, UsedIsCount
  <2>2. memoryused' \in Nat
    <3>1. \A n \in Nat \ {0} : n # 1 => n - 2 \in Nat
      OBVIOUS
    <3>2. QED
      BY <1>2, <1>3, <2>1, <3>1
  <2>3. QED
    BY <1>1, <1>4, <2>2 DEF IInv, CoreTypes
<1>8. UsedIsCount'
  BY <1>1, <1>2, <1>4, <1>5 DEF IInv, UsedIsCount
<1>9. Balance'
  <2>1. event' = event /\ event # <<>> /\ Newest' = Newest /\ at' = "evict"
    BY <1>1 DEF IInv, Balance, Newest
  <2>2. Len(memory') + removed' = Len(memory) + removed
    BY <1>1, <1>2, <1>4 DEF IInv, CoreTypes
  <2>3. Len(memory) + removed = MemoryMax + 2
    BY <1>1 DEF IInv, Balance
  <2>4. QED
    BY <1>5, <1>6, <2>1, <2>2, <2>3 DEF Balance
<1>10. QED
  BY <1>7, <1>8, <1>9 DEF IInv

LEMMA DoneKeepsInvariant ==
  ASSUME IInv, EvictionDone
  PROVE  IInv'
<1>1. at = "evict" /\ at' = "idle" /\ ~ MoreToRemove
      /\ UNCHANGED <<c_time, event, memory, memoryused, time_ignored, removed>>
  BY DEF EvictionDone
<1>2. Len(memory) \in Nat /\ removed >= Batch
  BY <1>1, LenProperties, MemoryAssumption DEF MoreToRemove, IInv, CoreTypes
<1>3. memoryused <= MemoryMax
  BY <1>1, <1>2, MemoryAssumption DEF IInv, CoreTypes, UsedIsCount, Balance
<1>4. QED
  BY <1>1, <1>3 DEF IInv, CoreTypes, UsedIsCount, Balance

LEMMA Invariance == Spec => []IInv
<1>1. Init => IInv
  <2>1. ASSUME Init PROVE CoreTypes
    BY <2>1, BoundsAssumption DEF Init, CoreTypes
  <2>2. QED
    BY <2>1, EmptySeq, MemoryAssumption DEF Init, IInv, UsedIsCount, Balance
<1>2. IInv /\ [Next]_vars => IInv'
  <2>1. ASSUME IInv, Tick PROVE IInv'
    <3>1. c_time' \in 1 .. MaxTime
      BY <2>1, BoundsAssumption DEF Tick, IInv, CoreTypes
    <3>2. UNCHANGED <<event, memory, memoryused, time_ignored, at, removed>>
      BY <2>1 DEF Tick
    <3>3. QED
      BY <2>1, <3>1, <3>2 DEF IInv, CoreTypes, UsedIsCount, Balance, Newest
  <2>2. ASSUME IInv, NEW r \in Rules, NEW src \in Sources, ReceiveSingle(r, src)
        PROVE  IInv'
    BY <2>2, GenerateKeepsInvariant DEF ReceiveSingle, IInv, CoreTypes
  <2>3. ASSUME IInv, NEW r \in Rules, NEW src \in Sources, ReceiveCounted(r, src)
        PROVE  IInv'
    <3>1. PICK k \in 1 .. Len(Tried[r]) :
            /\ at = "idle"
            /\ Generate(Tried[r][k], src, WithMarks(Tried[r][k], src),
                        Level[Tried[r][k]])
            /\ UNCHANGED <<c_time, memory, memoryused, removed>>
      BY <2>3 DEF ReceiveCounted
    <3>2. Tried[r] \in Seq(Rules)
      BY RulesAssumption
    <3>3. Tried[r][k] \in Rules
      BY <3>2, ElementOfSeq
    <3>4. Level[Tried[r][k]] \in Nat
      BY <3>3, RulesAssumption
    <3>5. WithMarks(Tried[r][k], src) \in Seq(Event)
      BY <2>3, <3>3, MarksKeepEvents DEF IInv, CoreTypes
    <3>6. QED
      BY <2>3, <3>1, <3>3, <3>4, <3>5, GenerateKeepsInvariant
  <2>4. ASSUME IInv, UNCHANGED vars PROVE IInv'
    BY <2>4 DEF vars, IInv, CoreTypes, UsedIsCount, Balance, Newest
  <2>5. QED
    BY <2>1, <2>2, <2>3, <2>4, AddKeepsInvariant, RemoveKeepsInvariant,
       DoneKeepsInvariant
    DEF Next
<1>3. QED
  BY <1>1, <1>2, PTL DEF Spec

(* The memory never holds more than one event above its configured size    *)
(* between two events, and an eviction never frees the event it makes room *)
(* for.                                                                    *)
THEOREM MemoryKeepsBound == Spec => []MemoryBounded
<1>1. IInv => MemoryBounded
  <2>1. SUFFICES ASSUME IInv PROVE MemoryBounded
    OBVIOUS
  <2>2. Len(memory) \in Nat /\ (memory = <<>> <=> Len(memory) = 0)
    BY <2>1, LenProperties, EmptySeq DEF IInv, CoreTypes
  <2>3. QED
    BY <2>1, <2>2, MemoryAssumption
    DEF IInv, CoreTypes, UsedIsCount, Balance, MemoryBounded
<1>2. QED
  BY <1>1, Invariance, PTL

-----------------------------------------------------------------------------
(* Sets of naturals: least elements, initial segments, ranks.              *)

LEMMA LeastElement ==
  ASSUME NEW S, S \subseteq Nat, S # {}
  PROVE  \E m \in S : \A k \in S : m <= k
<1>1. PICK m \in S : \A k \in S : ~ <<k, m>> \in OpToRel(<, Nat)
  BY NatLessThanWellFounded, WFMin
<1>2. \A k \in S : ~ (k < m)
  BY <1>1 DEF OpToRel
<1>3. QED
  BY <1>2

(* The first so many numbers, if with each of them all smaller ones.       *)
LEMMA InitialSegment ==
  ASSUME NEW n \in Nat, NEW S, S \subseteq 1 .. n,
         \A j, k \in 1 .. n : j <= k /\ k \in S => j \in S
  PROVE  S = 1 .. Cardinality(S) /\ Cardinality(S) \in 0 .. n
<1> DEFINE out == {k \in Nat \ {0} : k \notin S}
<1>1. out \subseteq Nat /\ n + 1 \in out
  OBVIOUS
<1> HIDE DEF out
<1>2. PICK m \in out : \A k \in out : m <= k
  BY <1>1, LeastElement
<1>3. m \in Nat \ {0} /\ m \notin S /\ m <= n + 1
  BY <1>1, <1>2 DEF out
<1>4. S = 1 .. m - 1
  <2>1. ASSUME NEW k \in S PROVE k \in 1 .. m - 1
    <3>1. k \in 1 .. n
      OBVIOUS
    <3>2. ~ (m <= k)
      <4>1. SUFFICES ASSUME m <= k PROVE FALSE
        OBVIOUS
      <4>2. m \in 1 .. n
        BY <1>3, <3>1, <4>1
      <4>3. QED
        BY <1>3, <3>1, <4>1, <4>2
    <3>3. QED
      BY <1>3, <3>1, <3>2
  <2>2. ASSUME NEW k \in 1 .. m - 1 PROVE k \in S
    <3>1. k \in Nat \ {0} /\ ~ (m <= k)
      BY <1>3
    <3>2. k \notin out
      BY <1>2, <3>1
    <3>3. QED
      BY <3>1, <3>2 DEF out
  <2>3. QED
    BY <2>1, <2>2
<1>5. Cardinality(1 .. m - 1) = m - 1
  BY <1>3, FS_Interval
<1>6. QED
  BY <1>3, <1>4, <1>5

(* A set moved along by n has as many elements.                            *)
LEMMA Shifted ==
  ASSUME NEW n \in Nat, NEW S, NEW T, IsFiniteSet(S), S \subseteq Nat, T \subseteq Nat,
         \A k \in T : k + n \in S,
         \A k \in S : \E j \in T : j + n = k
  PROVE  Cardinality(T) = Cardinality(S)
<1> DEFINE f == [k \in T |-> k + n]
<1>1. \A j, k \in T : f[j] = f[k] => j = k
  OBVIOUS
<1>2. f \in [T -> S] /\ \A k \in S : \E j \in T : f[j] = k
  OBVIOUS
<1> HIDE DEF f
<1>3. f \in Bijection(T, S)
  BY <1>1, <1>2 DEF Bijection, Injection, Surjection, IsInjective
<1>4. ExistsBijection(T, S) /\ IsFiniteSet(T)
  BY <1>3, FS_Injection DEF ExistsBijection, Bijection
<1>5. QED
  BY <1>4, FS_Bijection

(* The rank of an element from above.                                      *)
FromOn(S, k) == {j \in S : j >= k}
Rank(S, k)   == Cardinality(FromOn(S, k))

LEMMA RankType ==
  ASSUME NEW S, S \subseteq Nat, IsFiniteSet(S), NEW k \in S
  PROVE  /\ IsFiniteSet(FromOn(S, k))
         /\ Rank(S, k) \in 1 .. Cardinality(S)
<1>1. FromOn(S, k) \in SUBSET S /\ k \in FromOn(S, k)
  BY DEF FromOn
<1>2. /\ IsFiniteSet(FromOn(S, k))
      /\ Rank(S, k) \in Nat /\ Cardinality(S) \in Nat /\ Rank(S, k) <= Cardinality(S)
  BY <1>1, FS_Subset, FS_CardinalityType DEF Rank
<1>3. Rank(S, k) # 0
  BY <1>1, <1>2, FS_EmptySet DEF Rank
<1>4. QED
  BY <1>2, <1>3

LEMMA RankInjective ==
  ASSUME NEW S, S \subseteq Nat, IsFiniteSet(S)
  PROVE  \A j, k \in S : Rank(S, j) = Rank(S, k) => j = k
<1>1. ASSUME NEW j \in S, NEW k \in S, j < k
      PROVE  Rank(S, j) # Rank(S, k)
  <2> DEFINE a == FromOn(S, j)
             b == FromOn(S, k)
  <2>1. j \in Nat /\ k \in Nat /\ \A i \in S : i \in Nat
    OBVIOUS
  <2>2. j \in a /\ j \notin b /\ b \in SUBSET a
    <3>1. j \in a /\ j \notin b
      BY <1>1, <2>1 DEF FromOn
    <3>2. \A i \in b : i \in a
      BY <1>1, <2>1 DEF FromOn
    <3>3. QED
      BY <3>1, <3>2
  <2>3. IsFiniteSet(a)
    BY RankType
  <2> HIDE DEF a, b
  <2>4. Cardinality(a) # Cardinality(b)
    BY <2>2, <2>3, FS_Subset
  <2>5. QED
    BY <2>4 DEF Rank, a, b
<1>2. \A j, k \in S : j < k \/ k < j \/ j = k
  OBVIOUS
<1>3. QED
  BY <1>1, <1>2

LEMMA RankOnto ==
  ASSUME NEW S, S \subseteq Nat, IsFiniteSet(S)
  PROVE  \A i \in 1 .. Cardinality(S) : \E k \in S : Rank(S, k) = i
<1> DEFINE c == Cardinality(S)
           f == [k \in S |-> Rank(S, k)]
<1>1. c \in Nat
  BY FS_CardinalityType
<1>2. IsFiniteSet(1 .. c) /\ Cardinality(1 .. c) = c
  BY <1>1, FS_Interval
<1>3. f \in Injection(S, 1 .. c)
  BY RankType, RankInjective DEF Injection, IsInjective
<1> HIDE DEF f
<1>4. f \in Surjection(S, 1 .. c)
  BY <1>2, <1>3, FS_Injection
<1>5. QED
  BY <1>4 DEF Surjection, f

Top(S, n) == {k \in S : Rank(S, k) <= n}

(* The n greatest elements of a set are n.                                 *)
LEMMA Greatest ==
  ASSUME NEW S, S \subseteq Nat, IsFiniteSet(S), NEW n \in Nat, n <= Cardinality(S)
  PROVE  IsFiniteSet(Top(S, n)) /\ Cardinality(Top(S, n)) = n
<1> DEFINE top == {k \in S : Rank(S, k) <= n}
           f == [k \in top |-> Rank(S, k)]
<1>1. \A k \in top : k \in S /\ Rank(S, k) \in 1 .. n
  <2>1. Cardinality(S) \in Nat
    BY FS_CardinalityType
  <2>2. \A k \in S : Rank(S, k) \in 1 .. Cardinality(S)
    BY RankType
  <2>3. QED
    BY <2>1, <2>2
<1>2. \A i \in 1 .. n : \E k \in top : Rank(S, k) = i
  <2>1. Cardinality(S) \in Nat
    BY FS_CardinalityType
  <2>2. \A i \in 1 .. n : i \in 1 .. Cardinality(S) /\ i <= n
    BY <2>1
  <2>3. QED
    BY <2>2, RankOnto
<1>3. \A j, k \in top : f[j] = f[k] => j = k
  BY RankInjective
<1>4. f \in [top -> 1 .. n] /\ \A i \in 1 .. n : \E k \in top : f[k] = i
  BY <1>1, <1>2
<1>5. top \in SUBSET S
  OBVIOUS
<1> HIDE DEF f, top
<1>6. f \in Bijection(top, 1 .. n)
  BY <1>3, <1>4 DEF Bijection, Injection, Surjection, IsInjective
<1>7. IsFiniteSet(top)
  BY <1>5, FS_Subset
<1>8. Cardinality(1 .. n) = n
  BY FS_Interval
<1>9. Cardinality(1 .. n) = Cardinality(top)
  BY <1>6, <1>7, FS_Bijection DEF ExistsBijection
<1>10. QED
  BY <1>7, <1>8, <1>9 DEF top, Top

-----------------------------------------------------------------------------
(* Lists in the order of their events.                                     *)

Sorted(L)       == \A j, k \in 1 .. Len(L) : j <= k => L[j] <= L[k]
Positions(L, e) == {k \in 1 .. Len(L) : L[k] = e}

LEMMA PositionsFinite ==
  ASSUME NEW L \in Seq(Nat)
  PROVE  /\ Len(L) \in Nat
         /\ \A S \in SUBSET (1 .. Len(L)) : S \subseteq Nat /\ IsFiniteSet(S)
         /\ \A e : /\ Positions(L, e) \in SUBSET (1 .. Len(L))
                  /\ Cardinality(Positions(L, e)) \in Nat
<1>1. Len(L) \in Nat
  BY LenProperties
<1>2. IsFiniteSet(1 .. Len(L))
  BY <1>1, FS_Interval
<1>3. ASSUME NEW S \in SUBSET (1 .. Len(L)) PROVE S \subseteq Nat /\ IsFiniteSet(S)
  <2>1. IsFiniteSet(S)
    BY <1>2, FS_Subset
  <2>2. S \subseteq Nat
    BY <1>1
  <2>3. QED
    BY <2>1, <2>2
<1>4. \A e : Positions(L, e) \in SUBSET (1 .. Len(L))
  BY DEF Positions
<1>5. QED
  BY <1>1, <1>3, <1>4, FS_CardinalityType

Appended(L, n, e) == L \o [k \in 1 .. n |-> e]
Taken(L, n)       == SubSeq(L, n + 1, Len(L))

(* n nodes of the newest event go to the end of a list.                    *)
LEMMA NodesAppended ==
  ASSUME NEW L \in Seq(Nat), Sorted(L), NEW e \in Nat, NEW n \in Nat,
         \A k \in 1 .. Len(L) : L[k] < e
  PROVE  LET M == Appended(L, n, e) IN
         /\ M \in Seq(Nat) /\ Len(M) = Len(L) + n /\ Sorted(M)
         /\ \A k \in 1 .. Len(M) : M[k] = IF k <= Len(L) THEN L[k] ELSE e
         /\ Cardinality(Positions(M, e)) = n
         /\ \A d : d # e => Positions(M, d) = Positions(L, d)
<1> DEFINE t == [k \in 1 .. n |-> e]
           M == Appended(L, n, e)
<1>0. M = L \o t
  BY DEF Appended
<1> HIDE DEF M
<1>1. t \in Seq(Nat) /\ Len(t) = n /\ \A k \in 1 .. n : t[k] = e
  <2>1. t \in [1 .. n -> Nat]
    OBVIOUS
  <2>2. t \in Seq(Nat)
    BY <2>1, SeqDef
  <2>3. QED
    BY <2>2, LenProperties
<1> HIDE DEF t
<1>2. /\ M \in Seq(Nat) /\ Len(M) = Len(L) + n
      /\ \A k \in 1 .. Len(L) + n : M[k] = IF k <= Len(L) THEN L[k] ELSE t[k - Len(L)]
  BY <1>0, <1>1, ConcatProperties
<1>3. Len(L) \in Nat /\ \A k \in 1 .. Len(L) : L[k] \in Nat
  BY LenProperties
<1>4. ASSUME NEW k \in 1 .. Len(M) PROVE M[k] = IF k <= Len(L) THEN L[k] ELSE e
  <2>1. k \in 1 .. Len(L) + n
    BY <1>2
  <2>2. ~ (k <= Len(L)) => k - Len(L) \in 1 .. n
    BY <1>3, <2>1
  <2>3. M[k] = IF k <= Len(L) THEN L[k] ELSE t[k - Len(L)]
    BY <1>2, <2>1
  <2>4. QED
    BY <1>1, <2>2, <2>3
<1>5. Sorted(M)
  <2> SUFFICES ASSUME NEW j \in 1 .. Len(M), NEW k \in 1 .. Len(M), j <= k
               PROVE  M[j] <= M[k]
    BY DEF Sorted
  <2>1. CASE k <= Len(L)
    <3>1. j \in 1 .. Len(L) /\ k \in 1 .. Len(L)
      BY <1>2, <1>3, <2>1
    <3>2. QED
      BY <1>4, <2>1, <3>1 DEF Sorted
  <2>2. CASE ~ (k <= Len(L))
    <3>1. M[k] = e
      BY <1>4, <2>2
    <3>2. CASE j <= Len(L)
      <4>1. j \in 1 .. Len(L)
        BY <1>2, <1>3, <3>2
      <4>2. M[j] = L[j] /\ L[j] < e /\ L[j] \in Nat
        BY <1>3, <1>4, <3>2, <4>1
      <4>3. QED
        BY <3>1, <4>2
    <3>3. CASE ~ (j <= Len(L))
      BY <1>4, <3>1, <3>3
    <3>4. QED
      BY <3>2, <3>3
  <2>3. QED
    BY <2>1, <2>2
<1>6. Cardinality(Positions(M, e)) = n
  <2>1. \A k \in 1 .. Len(L) : L[k] # e
    BY <1>3
  <2>2. Positions(M, e) = Len(L) + 1 .. Len(L) + n
    BY <1>2, <1>3, <1>4, <2>1, SMTT(30) DEF Positions
  <2> DEFINE a == Len(L) + 1
             b == Len(L) + n
  <2>3. a \in Int /\ b \in Int /\ (IF a > b THEN 0 ELSE b - a + 1) = n
    BY <1>3
  <2> HIDE DEF a, b
  <2>4. Cardinality(a .. b) = n
    BY <2>3, FS_Interval
  <2>5. QED
    BY <2>2, <2>4 DEF a, b
<1>7. ASSUME NEW d, d # e
      PROVE  Positions(M, d) = Positions(L, d)
  BY <1>2, <1>3, <1>4, <1>7, SMTT(30) DEF Positions
<1>8. QED
  BY <1>2, <1>4, <1>5, <1>6, <1>7 DEF M

(* In a sorted list the nodes of the oldest event are the first ones:      *)
(* taking as many from the front takes them, and no other.                 *)
LEMMA NodesTaken ==
  ASSUME NEW L \in Seq(Nat), Sorted(L), NEW e \in Nat,
         \A k \in 1 .. Len(L) : e <= L[k],
         NEW n \in Nat, n = Cardinality(Positions(L, e))
  PROVE  LET M == Taken(L, n) IN
         /\ M \in Seq(Nat) /\ Len(M) = Len(L) - n /\ n <= Len(L) /\ Sorted(M)
         /\ \A k \in 1 .. Len(M) : M[k] = L[k + n] /\ e < M[k]
         /\ \A k \in 1 .. Len(L) : L[k] # e => k - n \in 1 .. Len(M)
         /\ Cardinality(Positions(M, e)) = 0
         /\ \A d \in Nat : d # e => Cardinality(Positions(M, d)) = Cardinality(Positions(L, d))
<1> DEFINE S == Positions(L, e)
           M == Taken(L, n)
<1>0. M = SubSeq(L, n + 1, Len(L))
  BY DEF Taken
<1> HIDE DEF M
<1>1. Len(L) \in Nat /\ \A k \in 1 .. Len(L) : L[k] \in Nat
  BY LenProperties
<1>2. S = 1 .. n /\ n <= Len(L)
  <2>1. S \subseteq 1 .. Len(L)
    BY DEF Positions
  <2>2. ASSUME NEW j \in 1 .. Len(L), NEW k \in 1 .. Len(L), j <= k, k \in S
        PROVE  j \in S
    <3>1. L[j] <= L[k] /\ e <= L[j] /\ L[k] = e
      BY <2>2 DEF Sorted, Positions
    <3>2. L[j] = e
      BY <1>1, <3>1
    <3>3. QED
      BY <3>2 DEF Positions
  <2> HIDE DEF S
  <2>3. S = 1 .. Cardinality(S) /\ Cardinality(S) \in 0 .. Len(L)
    BY <1>1, <2>1, <2>2, InitialSegment
  <2>4. Cardinality(S) = n
    BY DEF S
  <2>5. QED
    BY <1>1, <2>3, <2>4
<1>3. /\ M \in Seq(Nat) /\ Len(M) = Len(L) - n
      /\ \A k \in 1 .. Len(M) : M[k] = L[k + n] /\ k + n \in 1 .. Len(L)
  <2>1. \A k \in n + 1 .. Len(L) : L[k] \in Nat
    BY <1>1
  <2> DEFINE a == n + 1
             b == Len(L)
  <2>0. a \in Int /\ b \in Int
    BY <1>1
  <2> HIDE DEF a, b
  <2>2. /\ M \in Seq(Nat)
        /\ Len(M) = IF a <= b THEN b - a + 1 ELSE 0
        /\ \A k \in 1 .. b - a + 1 : M[k] = L[a + k - 1]
    <3>1. M = SubSeq(L, a, b)
      BY <1>0 DEF a, b
    <3>2. \A k \in a .. b : L[k] \in Nat
      BY <2>1 DEF a, b
    <3>3. QED
      BY <2>0, <3>1, <3>2, SubSeqProperties
  <2>3. Len(M) = Len(L) - n
    <3>1. a = n + 1 /\ b = Len(L) /\ b \in Nat /\ n <= b
      BY <1>1, <1>2 DEF a, b
    <3>2. QED
      BY <2>2, <3>1
  <2>4. ASSUME NEW k \in 1 .. Len(M)
        PROVE  M[k] = L[k + n] /\ k + n \in 1 .. Len(L)
    <3>1. a = n + 1 /\ b = Len(L)
      BY DEF a, b
    <3>2. k \in 1 .. Len(L) - n
      BY <2>3
    <3>3. k \in 1 .. b - a + 1
      BY <1>1, <3>1, <3>2
    <3>4. a + k - 1 = k + n /\ k + n \in 1 .. Len(L)
      <4>1. k \in Int /\ 1 <= k /\ k <= Len(L) - n
        BY <1>1, <3>2
      <4>2. (n + 1) + k - 1 = k + n
        BY <4>1
      <4>3. k + n \in 1 .. Len(L)
        BY <1>1, <4>1
      <4>4. QED
        BY <3>1, <4>2, <4>3
    <3>5. QED
      BY <2>2, <3>3, <3>4
  <2>5. QED
    BY <2>2, <2>3, <2>4
<1> HIDE DEF S
<1>4. \A k \in 1 .. Len(L) : k \in S <=> L[k] = e
  BY DEF S, Positions
<1>5. \A k \in 1 .. Len(M) : e < M[k]
  <2> SUFFICES ASSUME NEW k \in 1 .. Len(M) PROVE e < M[k]
    OBVIOUS
  <2>1. k + n \in 1 .. Len(L) /\ k + n \notin S /\ M[k] = L[k + n]
    BY <1>2, <1>3
  <2>2. QED
    BY <1>1, <1>4, <2>1
<1>6. \A k \in 1 .. Len(L) : L[k] # e => k - n \in 1 .. Len(M)
  BY <1>1, <1>2, <1>3, <1>4, SMTT(30)
<1>7. Sorted(M)
  <2> SUFFICES ASSUME NEW j \in 1 .. Len(M), NEW k \in 1 .. Len(M), j <= k
               PROVE  M[j] <= M[k]
    BY DEF Sorted
  <2>1. j + n <= k + n
    BY <1>1, <1>3
  <2>2. QED
    BY <1>3, <2>1 DEF Sorted
<1>8. Cardinality(Positions(M, e)) = 0
  <2>1. Positions(M, e) = {}
    BY <1>1, <1>3, <1>5 DEF Positions
  <2>2. QED
    BY <2>1, FS_EmptySet
<1>9. ASSUME NEW d \in Nat, d # e
      PROVE  Cardinality(Positions(M, d)) = Cardinality(Positions(L, d))
  <2>1. IsFiniteSet(Positions(L, d)) /\ Positions(L, d) \subseteq Nat
    BY PositionsFinite
  <2>2. Positions(M, d) \subseteq Nat
    BY <1>1, <1>3 DEF Positions
  <2>3. \A k \in Positions(M, d) : k + n \in Positions(L, d)
    BY <1>3 DEF Positions
  <2>4. ASSUME NEW k \in Positions(L, d)
        PROVE  \E j \in Positions(M, d) : j + n = k
    <3>1. k \in 1 .. Len(L) /\ L[k] = d
      BY DEF Positions
    <3>2. k - n \in 1 .. Len(M) /\ (k - n) + n = k
      BY <1>6, <1>9, <3>1
    <3>3. M[k - n] = d
      BY <1>3, <3>1, <3>2
    <3>4. QED
      BY <3>2, <3>3 DEF Positions
  <2>5. QED
    BY <2>1, <2>2, <2>3, <2>4, Shifted, ZenonT(60)
<1>10. QED
  BY <1>2, <1>3, <1>5, <1>6, <1>7, <1>8, <1>9 DEF M

-----------------------------------------------------------------------------
(* The lists as the shadow of the memory.                                  *)

(* The event remembered last.                                              *)
Latest == IF at = "remember" THEN Newest - 1 ELSE Newest

(* The memory holds the last events, without a gap.                        *)
MemoryIsRecent ==
  /\ Len(memory) <= Latest
  /\ \A k \in 1 .. Len(memory) : memory[k] = Latest - Len(memory) + k

Shadow ==
  /\ MemoryIsRecent
  /\ lists \in [Lists -> Seq(1 .. Len(event))]
  /\ ListsFollowMemory

LEMMA LatestType ==
  ASSUME IInv
  PROVE  /\ Newest \in Nat /\ Latest \in 0 .. Newest /\ Len(memory) \in Nat
         /\ at = "remember" => Newest >= 1
<1>1. Newest \in Nat /\ Len(memory) \in Nat
  BY LenProperties DEF Newest, IInv, CoreTypes
<1>2. at = "remember" => Newest >= 1
  BY <1>1, EmptySeq DEF IInv, Balance, CoreTypes, Newest
<1>3. QED
  BY <1>1, <1>2 DEF Latest

LEMMA InMemoryIs ==
  ASSUME IInv, MemoryIsRecent
  PROVE  /\ InMemory = Latest - Len(memory) + 1 .. Latest
         /\ Latest - Len(memory) + 1 >= 1
<1>1. Latest \in Nat /\ Len(memory) \in Nat /\ Len(memory) <= Latest
  BY LatestType DEF MemoryIsRecent
<1>2. ASSUME NEW e \in InMemory PROVE e \in Latest - Len(memory) + 1 .. Latest
  BY <1>1 DEF InMemory, MemoryIsRecent
<1>3. ASSUME NEW e \in Latest - Len(memory) + 1 .. Latest PROVE e \in InMemory
  <2> DEFINE k == e - (Latest - Len(memory))
  <2>1. k \in 1 .. Len(memory) /\ Latest - Len(memory) + k = e
    BY <1>1
  <2>2. memory[k] = e
    BY <2>1 DEF MemoryIsRecent
  <2>3. QED
    BY <2>1, <2>2 DEF InMemory
<1>4. InMemory = Latest - Len(memory) + 1 .. Latest
  BY <1>2, <1>3
<1>5. Latest - Len(memory) + 1 >= 1
  BY <1>1
<1>6. QED
  BY <1>4, <1>5

(* The same, a step later.                                                 *)
LEMMA InMemoryIsNext ==
  ASSUME MemoryIsRecent', Latest' \in Nat, Len(memory') \in Nat
  PROVE  InMemory' = Latest' - Len(memory') + 1 .. Latest'
<1>1. Len(memory') <= Latest'
  BY DEF MemoryIsRecent
<1>2. ASSUME NEW e \in InMemory' PROVE e \in Latest' - Len(memory') + 1 .. Latest'
  BY <1>1 DEF InMemory, MemoryIsRecent
<1>3. ASSUME NEW e \in Latest' - Len(memory') + 1 .. Latest' PROVE e \in InMemory'
  <2>1. e - (Latest' - Len(memory')) \in 1 .. Len(memory')
    BY <1>1
  <2>2. Latest' - Len(memory') + (e - (Latest' - Len(memory'))) = e
    BY <1>1
  <2>3. memory'[e - (Latest' - Len(memory'))] = e
    BY <2>1, <2>2 DEF MemoryIsRecent
  <2>4. QED
    BY <2>1, <2>3 DEF InMemory
<1>4. QED
  BY <1>2, <1>3

LEMMA NodesType ==
  ASSUME NEW r \in Rules, NEW l \in Lists
  PROVE  GroupNodes(r, l) \in Nat /\ Nodes(r, l) \in Nat
<1>1. Len(GroupsOf[r]) \in Nat
  BY LenProperties, ListsAssumption
<1> DEFINE all == 1 .. Len(GroupsOf[r])
           S == {k \in all : GroupsOf[r][k] = l}
<1>2. IsFiniteSet(all) /\ S \in SUBSET all
  BY <1>1, FS_Interval
<1> HIDE DEF all
<1>3. IsFiniteSet(S)
  BY <1>2, FS_Subset
<1>4. Cardinality(S) \in Nat
  BY <1>3, FS_CardinalityType
<1>5. QED
  BY <1>4 DEF GroupNodes, Nodes, all

(* What a list says of its events, and that they are naturals.             *)
LEMMA ListProperties ==
  ASSUME IInv, Shadow, NEW l \in Lists
  PROVE  /\ lists[l] \in Seq(Nat) /\ lists[l] \in Seq(1 .. Newest) /\ Sorted(lists[l])
         /\ Len(lists[l]) \in Nat
         /\ \A e \in 1 .. Newest : Cardinality(Positions(lists[l], e))
              = IF e \in InMemory THEN Nodes(event[e].rule, l) ELSE 0
         /\ \A k \in 1 .. Len(lists[l]) : lists[l][k] \in InMemory
<1> DEFINE L == lists[l]
<1>1. Newest \in Nat /\ L \in Seq(1 .. Newest)
  BY LatestType DEF Shadow, Newest
<1>2. 1 .. Newest \subseteq Nat
  BY <1>1
<1>3. L \in Seq(Nat) /\ Len(L) \in Nat
  BY <1>1, <1>2, SeqMonotonic, LenProperties
<1>4. Sorted(L) /\ \A e \in 1 .. Newest : Cardinality(Positions(L, e))
                      = IF e \in InMemory THEN Nodes(event[e].rule, l) ELSE 0
  BY DEF Shadow, ListsFollowMemory, Sorted, Positions, Newest
<1>5. ASSUME NEW k \in 1 .. Len(L)
      PROVE  L[k] \in InMemory
  <2>1. L[k] \in 1 .. Newest
    BY <1>1, ElementOfSeq
  <2>2. k \in Positions(L, L[k]) /\ IsFiniteSet(Positions(L, L[k]))
    BY <1>3, PositionsFinite DEF Positions
  <2> DEFINE S == Positions(L, L[k])
  <2> HIDE DEF S
  <2>3. Cardinality(S) # 0
    <3>1. S # {} /\ IsFiniteSet(S)
      BY <2>2 DEF S
    <3>2. QED
      BY <3>1, FS_EmptySet
  <2>4. Cardinality(Positions(L, L[k])) # 0
    BY <2>3 DEF S
  <2>5. QED
    BY <1>4, <2>1, <2>4
<1>6. QED
  BY <1>1, <1>3, <1>4, <1>5

(* Remembering an event gives every list as many nodes as it should have.  *)
LEMMA RememberedIs ==
  ASSUME IInv, Shadow, NEW r \in Rules, r = event[Newest].rule, NEW l \in Lists
  PROVE  Remembered[l] = lists[l] \o [k \in 1 .. Nodes(r, l) |-> Newest]
<1> DEFINE L == lists[l]
<1>1. L \in Seq(Nat) /\ Newest \in Nat
  BY ListProperties, LatestType
<1>2. l # NoList
  BY ListsAssumption
<1>3. CASE SidOf[r] = NoList
  <2>1. Remembered[l] = L \o [k \in 1 .. GroupNodes(r, l) |-> Newest]
    BY <1>3 DEF Remembered
  <2>2. Nodes(r, l) = GroupNodes(r, l)
    BY <1>2, <1>3 DEF Nodes
  <2>3. QED
    BY <2>1, <2>2
<1>4. CASE SidOf[r] # NoList
  <2>1. Remembered = [lists EXCEPT ![SidOf[r]] = Append(@, Newest)]
    BY <1>4 DEF Remembered
  <2>2. CASE SidOf[r] = l
    <3>1. Remembered[l] = Append(L, Newest)
      BY <2>1, <2>2 DEF Shadow
    <3>2. Append(L, Newest) = L \o <<Newest>>
      BY <1>1, AppendIsConcat
    <3>3. Nodes(r, l) = 1 /\ <<Newest>> = [k \in 1 .. 1 |-> Newest]
      BY <2>2 DEF Nodes
    <3>4. QED
      BY <3>1, <3>2, <3>3
  <2>3. CASE SidOf[r] # l
    <3>1. Remembered[l] = L
      BY <2>1, <2>3 DEF Shadow
    <3>2. Nodes(r, l) = 0 /\ <<>> = [k \in 1 .. 0 |-> Newest]
      BY <1>4, <2>3 DEF Nodes
    <3>3. L \o <<>> = L
      BY <1>1, ConcatEmptySeq
    <3>4. QED
      BY <3>1, <3>2, <3>3
  <2>4. QED
    BY <2>2, <2>3
<1>5. QED
  BY <1>3, <1>4

(* Taking the only node of the oldest event off a sorted list is taking    *)
(* the first one.                                                          *)
LEMMA FirstRemoved ==
  ASSUME NEW L \in Seq(Nat), Sorted(L), NEW e \in Nat,
         \A k \in 1 .. Len(L) : e <= L[k],
         Cardinality(Positions(L, e)) = 1
  PROVE  RemoveFirst(L, e) = SubSeq(L, 2, Len(L))
<1>1. Len(L) \in Nat /\ \A k \in 1 .. Len(L) : L[k] \in Nat
  BY LenProperties
<1> DEFINE P == Positions(L, e)
<1>2. IsFiniteSet(P) /\ P \subseteq 1 .. Len(L)
  BY PositionsFinite
<1>3. PICK p : P = {p}
  <2> HIDE DEF P
  <2>1. Cardinality(P) = 1
    BY DEF P
  <2>2. QED
    BY <1>2, <2>1, FS_Singleton
<1>4. p \in 1 .. Len(L) /\ L[p] = e /\ \A k \in 1 .. Len(L) : L[k] = e => k = p
  BY <1>3 DEF Positions
<1>5. p = 1
  <2>1. 1 \in 1 .. Len(L) /\ 1 <= p
    BY <1>1, <1>4
  <2>2. L[1] <= L[p] /\ e <= L[1]
    BY <1>4, <2>1 DEF Sorted
  <2>3. L[1] = e
    BY <1>1, <1>4, <2>1, <2>2
  <2>4. QED
    BY <1>4, <2>1, <2>3
<1> DEFINE I == {i \in 1 .. Len(L) : L[i] = e}
<1>6. I = {1}
  BY <1>4, <1>5
<1>7. RemoveFirst(L, e) = RemoveAt(L, IF I # {} THEN Min(I) ELSE 0)
  BY <1>4 DEF RemoveFirst, SelectInSeq
<1>8. Min({1}) = 1
  BY DEF Min
<1>9. RemoveFirst(L, e) = RemoveAt(L, 1)
  <2> HIDE DEF I
  <2>1. QED
    BY <1>6, <1>7, <1>8
<1>10. RemoveAt(L, 1) = SubSeq(L, 1, 0) \o SubSeq(L, 2, Len(L))
  BY DEF RemoveAt
<1>11. SubSeq(L, 1, 0) = <<>>
  BY SubSeqEmpty
<1>12. SubSeq(L, 2, Len(L)) \in Seq(Nat)
  <2>1. \A i \in 2 .. Len(L) : L[i] \in Nat
    BY <1>1
  <2>2. QED
    BY <1>1, <2>1, SubSeqProperties
<1>13. <<>> \o SubSeq(L, 2, Len(L)) = SubSeq(L, 2, Len(L))
  BY <1>12, ConcatEmptySeq
<1>14. QED
  BY <1>9, <1>10, <1>11, <1>13

(* Freeing the oldest event takes all its nodes off every list, from the   *)
(* front.                                                                  *)
LEMMA FreedIs ==
  ASSUME IInv, Shadow, NEW e \in 1 .. Newest, e \in InMemory, \A d \in InMemory : e <= d,
         NEW r \in Rules, r = event[e].rule, NEW l \in Lists
  PROVE  Freed(e)[l] = SubSeq(lists[l], Nodes(r, l) + 1, Len(lists[l]))
<1> DEFINE L == lists[l]
<1>1. /\ L \in Seq(Nat) /\ Sorted(L) /\ Cardinality(Positions(L, e)) = Nodes(r, l)
      /\ \A k \in 1 .. Len(L) : e <= L[k]
      /\ e \in Nat
  <2>1. Newest \in Nat
    BY LatestType
  <2>2. L \in Seq(Nat) /\ Sorted(L) /\ \A k \in 1 .. Len(L) : L[k] \in InMemory
    BY ListProperties
  <2>3. Cardinality(Positions(L, e)) = Nodes(r, l)
    BY ListProperties
  <2>4. QED
    BY <2>1, <2>2, <2>3
<1>2. l # NoList
  BY ListsAssumption
<1>3. CASE SidOf[r] = NoList
  <2>1. Freed(e)[l] = SubSeq(L, GroupNodes(r, l) + 1, Len(L))
    BY <1>3 DEF Freed
  <2>2. Nodes(r, l) = GroupNodes(r, l)
    BY <1>2, <1>3 DEF Nodes
  <2>3. QED
    BY <2>1, <2>2
<1>4. CASE SidOf[r] # NoList
  <2>1. Freed(e) = [lists EXCEPT ![SidOf[r]] = RemoveFirst(@, e)]
    BY <1>4 DEF Freed
  <2>2. CASE SidOf[r] = l
    <3>1. Freed(e)[l] = RemoveFirst(L, e)
      BY <2>1, <2>2 DEF Shadow
    <3>2. Nodes(r, l) = 1
      BY <2>2 DEF Nodes
    <3>3. RemoveFirst(L, e) = SubSeq(L, 2, Len(L))
      BY <1>1, <3>2, FirstRemoved
    <3>4. QED
      BY <3>1, <3>2, <3>3
  <2>3. CASE SidOf[r] # l
    <3>1. Freed(e)[l] = L
      BY <2>1, <2>3 DEF Shadow
    <3>2. Nodes(r, l) = 0
      BY <1>4, <2>3 DEF Nodes
    <3>3. SubSeq(L, 1, Len(L)) = L
      BY <1>1, SubSeqFull
    <3>4. QED
      BY <3>1, <3>2, <3>3
  <2>4. QED
    BY <2>2, <2>3
<1>5. QED
  BY <1>3, <1>4

(* A sequence is one of whatever set its elements are in.                  *)
LEMMA SeqOfElements ==
  ASSUME NEW M \in Seq(Nat), NEW S, \A k \in 1 .. Len(M) : M[k] \in S
  PROVE  M \in Seq(S)
<1>1. M \in [1 .. Len(M) -> Nat] /\ Len(M) \in Nat
  BY LenProperties
<1>2. M \in [1 .. Len(M) -> S]
  BY <1>1
<1>3. QED
  BY <1>1, <1>2, SeqDef

(* ListsFollowMemory, of one list.                                         *)
Follows(L, l, E, held, n) ==
  /\ L \in Seq(1 .. n) /\ Sorted(L)
  /\ \A e \in 1 .. n : Cardinality(Positions(L, e)) = IF e \in held THEN Nodes(E[e].rule, l) ELSE 0

LEMMA ShadowOfEach ==
  Shadow <=> /\ MemoryIsRecent
             /\ lists = [l \in Lists |-> lists[l]]
             /\ \A l \in Lists : Follows(lists[l], l, event, InMemory, Newest)
<1>1. Shadow => /\ MemoryIsRecent
                /\ lists = [l \in Lists |-> lists[l]]
                /\ \A l \in Lists : Follows(lists[l], l, event, InMemory, Newest)
  BY DEF Shadow, ListsFollowMemory, Follows, Sorted, Positions, Newest
<1>2. ASSUME MemoryIsRecent, lists = [l \in Lists |-> lists[l]],
             \A l \in Lists : Follows(lists[l], l, event, InMemory, Newest)
      PROVE  Shadow
  <2>1. lists \in [Lists -> Seq(1 .. Len(event))]
    BY <1>2 DEF Follows, Newest
  <2>2. ListsFollowMemory
    BY <1>2 DEF ListsFollowMemory, Follows, Sorted, Positions, Newest
  <2>3. QED
    BY <1>2, <2>1, <2>2 DEF Shadow
<1>3. QED
  BY <1>1, <1>2

(* The same, a step later.                                                 *)
LEMMA ShadowOfEachNext ==
  ASSUME MemoryIsRecent', lists' = [l \in Lists |-> lists'[l]],
         \A l \in Lists : Follows(lists'[l], l, event', InMemory', Newest')
  PROVE  Shadow'
<1>1. lists' \in [Lists -> Seq(1 .. Len(event'))]
  BY DEF Follows, Newest
<1>2. ListsFollowMemory'
  BY DEF ListsFollowMemory, Follows, Sorted, Positions, Newest
<1>3. QED
  BY <1>1, <1>2 DEF Shadow

LEMMA EventType ==
  ASSUME IInv
  PROVE  \A e \in 1 .. Newest : event[e] \in Event /\ event[e].rule \in Rules
<1>1. \A e \in 1 .. Newest : event[e] \in Event
  BY ElementOfSeq DEF IInv, CoreTypes, Newest
<1>2. QED
  BY <1>1 DEF Event

LEMMA AddKeepsShadow ==
  ASSUME IInv, Shadow, OS_AddEvent
  PROVE  Shadow'
<1>1. /\ at = "remember" /\ at' # "remember" /\ event' = event /\ Newest' = Newest
      /\ memory' = Append(memory, Newest) /\ lists' = Remembered
  BY DEF OS_AddEvent, Newest
<1>2. /\ Newest \in Nat /\ Newest >= 1 /\ Latest = Newest - 1 /\ Latest' = Newest
      /\ Len(memory) \in Nat /\ Len(memory) <= Latest
  BY <1>1, LatestType DEF Latest, Shadow, MemoryIsRecent
<1>3. /\ Len(memory') = Len(memory) + 1
      /\ \A k \in 1 .. Len(memory) : memory'[k] = memory[k]
      /\ memory'[Len(memory) + 1] = Newest
  BY <1>1, <1>2, AppendProperties DEF IInv, CoreTypes
<1>4. MemoryIsRecent'
  <2>1. ASSUME NEW k \in 1 .. Len(memory')
        PROVE  memory'[k] = Latest' - Len(memory') + k
    <3>1. CASE k = Len(memory) + 1
      BY <1>2, <1>3, <3>1
    <3>2. CASE k \in 1 .. Len(memory)
      <4>1. memory'[k] = Latest - Len(memory) + k
        BY <1>3, <3>2 DEF Shadow, MemoryIsRecent
      <4>2. QED
        BY <1>2, <1>3, <3>2, <4>1
    <3>3. QED
      BY <1>2, <1>3, <3>1, <3>2
  <2>2. QED
    BY <1>2, <1>3, <2>1 DEF MemoryIsRecent
<1>5. InMemory' = InMemory \cup {Newest} /\ InMemory \subseteq 1 .. Latest
  <2>1. InMemory = Latest - Len(memory) + 1 .. Latest /\ Latest - Len(memory) + 1 >= 1
    BY InMemoryIs DEF Shadow
  <2>2. InMemory' = Latest' - Len(memory') + 1 .. Latest'
    BY <1>1, <1>2, <1>3, <1>4, InMemoryIsNext
  <2>3. Latest' - Len(memory') + 1 = Latest - Len(memory) + 1 /\ Latest' = Latest + 1
    BY <1>2, <1>3
  <2>4. QED
    BY <1>2, <2>1, <2>2, <2>3
<1>6. ASSUME NEW l \in Lists
      PROVE  Follows(Remembered[l], l, event, InMemory \cup {Newest}, Newest)
  <2> DEFINE L == lists[l]
             r == event[Newest].rule
             n == Nodes(r, l)
             M == Appended(L, n, Newest)
  <2>1. r \in Rules /\ n \in Nat
    BY <1>2, EventType, NodesType
  <2>2. Remembered[l] = M
    BY <2>1, RememberedIs DEF Appended
  <2>3. /\ L \in Seq(Nat) /\ Sorted(L) /\ Len(L) \in Nat
        /\ \A k \in 1 .. Len(L) : L[k] \in 1 .. Newest
        /\ \A k \in 1 .. Len(L) : L[k] < Newest
        /\ \A e \in 1 .. Newest : Cardinality(Positions(L, e))
             = IF e \in InMemory THEN Nodes(event[e].rule, l) ELSE 0
    <3>1. \A k \in 1 .. Len(L) : L[k] \in 1 .. Latest
      BY <1>5, ListProperties
    <3>2. QED
      BY <1>2, <3>1, ListProperties
  <2> HIDE DEF r, L, n
  <2>4. /\ M \in Seq(Nat) /\ Len(M) = Len(L) + n /\ Sorted(M)
        /\ \A k \in 1 .. Len(M) : M[k] = IF k <= Len(L) THEN L[k] ELSE Newest
        /\ Cardinality(Positions(M, Newest)) = n
        /\ \A d : d # Newest => Positions(M, d) = Positions(L, d)
    BY <1>2, <2>1, <2>3, NodesAppended
  <2> HIDE DEF M
  <2>5. \A k \in 1 .. Len(M) : M[k] \in 1 .. Newest
    <3>1. ASSUME NEW k \in 1 .. Len(M), k <= Len(L) PROVE k \in 1 .. Len(L)
      BY <2>1, <2>3, <2>4, <3>1
    <3>2. Newest \in 1 .. Newest
      BY <1>2
    <3>3. QED
      BY <2>3, <2>4, <3>1, <3>2
  <2>6. M \in Seq(1 .. Newest)
    BY <2>4, <2>5, SeqOfElements
  <2>7. ASSUME NEW e \in 1 .. Newest
        PROVE  Cardinality(Positions(M, e))
                 = IF e \in InMemory \cup {Newest} THEN Nodes(event[e].rule, l) ELSE 0
    <3>1. CASE e = Newest
      BY <2>4, <3>1 DEF r, n
    <3>2. CASE e # Newest
      BY <2>3, <2>4, <3>2
    <3>3. QED
      BY <3>1, <3>2
  <2>8. QED
    BY <2>2, <2>4, <2>6, <2>7 DEF Follows
<1>7. lists' = [l \in Lists |-> lists'[l]]
  BY <1>1 DEF Remembered, Shadow
<1>8. QED
  BY <1>1, <1>4, <1>5, <1>6, <1>7, ShadowOfEachNext

LEMMA RemoveKeepsShadow ==
  ASSUME IInv, Shadow, RemoveOldest
  PROVE  /\ Shadow'
         /\ InMemory' = InMemory \ {Head(memory)}
         /\ Head(memory) \in InMemory /\ \A d \in InMemory : Head(memory) <= d
<1> DEFINE e == Head(memory)
<1>1. /\ at = "evict" /\ at' = at /\ event' = event /\ Newest' = Newest /\ Latest' = Latest
      /\ memory' = Tail(memory) /\ lists' = Freed(e)
  BY DEF RemoveOldest, Newest, Latest
<1>2. /\ memory \in Seq(Nat) /\ memory # <<>> /\ Len(memory) \in Nat /\ Len(memory) >= 1
      /\ Newest \in Nat /\ Latest = Newest /\ Len(memory) <= Latest
  <2>1. memory \in Seq(Nat) /\ memory # <<>>
    BY <1>1 DEF IInv, CoreTypes, Balance
  <2>2. Len(memory) \in Nat \ {0}
    BY <2>1, EmptySeq
  <2>3. QED
    BY <1>1, <2>1, <2>2, LatestType DEF Latest, Shadow, MemoryIsRecent
<1>3. /\ Len(memory') = Len(memory) - 1
      /\ \A k \in 1 .. Len(memory') : memory'[k] = memory[k + 1]
      /\ e = memory[1]
  BY <1>1, <1>2, HeadTailProperties
<1>4. MemoryIsRecent'
  <2>1. ASSUME NEW k \in 1 .. Len(memory')
        PROVE  memory'[k] = Latest' - Len(memory') + k
    <3>1. memory'[k] = memory[k + 1] /\ k + 1 \in 1 .. Len(memory)
      BY <1>2, <1>3
    <3>2. memory[k + 1] = Latest - Len(memory) + (k + 1)
      BY <3>1 DEF Shadow, MemoryIsRecent
    <3>3. QED
      BY <1>1, <1>2, <1>3, <3>1, <3>2
  <2>2. QED
    BY <1>1, <1>2, <1>3, <2>1 DEF MemoryIsRecent
<1>5. e = Latest - Len(memory) + 1
  BY <1>2, <1>3 DEF Shadow, MemoryIsRecent
<1>6. InMemory = e .. Newest /\ e >= 1
  BY <1>2, <1>5, InMemoryIs DEF Shadow
<1>7. InMemory' = e + 1 .. Newest
  <2>1. InMemory' = Latest' - Len(memory') + 1 .. Latest'
    BY <1>1, <1>2, <1>3, <1>4, InMemoryIsNext
  <2>2. Latest' - Len(memory') + 1 = e + 1
    BY <1>1, <1>2, <1>3, <1>5
  <2>3. QED
    BY <1>1, <1>2, <2>1, <2>2
<1>8. e \in 1 .. Newest /\ e \in Nat
  BY <1>2, <1>5
<1> HIDE DEF e
<1>9. InMemory' = InMemory \ {e} /\ e \in InMemory /\ \A d \in InMemory : e <= d
  BY <1>2, <1>6, <1>7, <1>8
<1>10. ASSUME NEW l \in Lists
       PROVE  Follows(Freed(e)[l], l, event, InMemory \ {e}, Newest)
  <2> DEFINE L == lists[l]
             r == event[e].rule
             n == Nodes(r, l)
             M == Taken(L, n)
  <2>1. r \in Rules /\ n \in Nat
    BY <1>8, EventType, NodesType
  <2>2. Freed(e)[l] = M
    BY <1>8, <1>9, <2>1, FreedIs DEF Taken
  <2>3. /\ L \in Seq(Nat) /\ Sorted(L) /\ Len(L) \in Nat
        /\ \A k \in 1 .. Len(L) : L[k] \in InMemory
        /\ \A d \in 1 .. Newest : Cardinality(Positions(L, d))
             = IF d \in InMemory THEN Nodes(event[d].rule, l) ELSE 0
    BY ListProperties
  <2>4. n = Cardinality(Positions(L, e)) /\ \A k \in 1 .. Len(L) : e <= L[k]
    BY <1>8, <1>9, <2>3
  <2> HIDE DEF r, L, n
  <2>5. /\ M \in Seq(Nat) /\ Sorted(M) /\ Len(M) = Len(L) - n /\ n <= Len(L)
        /\ \A k \in 1 .. Len(M) : M[k] = L[k + n]
        /\ Cardinality(Positions(M, e)) = 0
        /\ \A d \in Nat : d # e => Cardinality(Positions(M, d)) = Cardinality(Positions(L, d))
    <3>1. L \in Seq(Nat) /\ Sorted(L) /\ e \in Nat /\ n \in Nat
      BY <1>8, <2>1, <2>3
    <3>2. /\ M \in Seq(Nat) /\ Len(M) = Len(L) - n /\ n <= Len(L) /\ Sorted(M)
          /\ \A k \in 1 .. Len(M) : M[k] = L[k + n] /\ e < M[k]
          /\ \A k \in 1 .. Len(L) : L[k] # e => k - n \in 1 .. Len(M)
          /\ Cardinality(Positions(M, e)) = 0
          /\ \A d \in Nat : d # e => Cardinality(Positions(M, d)) = Cardinality(Positions(L, d))
      BY <2>4, <3>1, NodesTaken
    <3>3. QED
      BY <3>2
  <2> HIDE DEF M
  <2>6. \A k \in 1 .. Len(M) : M[k] \in 1 .. Newest
    <3>1. \A k \in 1 .. Len(M) : k + n \in 1 .. Len(L)
      BY <2>1, <2>3, <2>5
    <3>2. \A k \in 1 .. Len(M) : M[k] \in InMemory
      BY <2>3, <2>5, <3>1
    <3>3. InMemory \subseteq 1 .. Newest
      BY <1>2, <1>6, <1>8
    <3>4. QED
      BY <3>2, <3>3
  <2>7. M \in Seq(1 .. Newest)
    BY <2>5, <2>6, SeqOfElements
  <2>8. ASSUME NEW d \in 1 .. Newest
        PROVE  Cardinality(Positions(M, d))
                 = IF d \in InMemory \ {e} THEN Nodes(event[d].rule, l) ELSE 0
    <3>1. CASE d = e
      BY <2>5, <3>1
    <3>2. CASE d # e
      BY <1>2, <2>3, <2>5, <3>2
    <3>3. QED
      BY <3>1, <3>2
  <2>9. QED
    BY <2>2, <2>5, <2>7, <2>8 DEF Follows
<1>11. lists' = [l \in Lists |-> lists'[l]]
  BY <1>1 DEF Freed, Shadow
<1>12. Shadow'
  BY <1>1, <1>4, <1>9, <1>10, <1>11, ShadowOfEachNext
<1>13. QED
  BY <1>9, <1>12 DEF e

-----------------------------------------------------------------------------
(* What a search does to the events.                                       *)

(* A counting rule is a rule, and the list it walks is one of the lists.   *)
LEMMA CountingIs ==
  ASSUME NEW c \in Counting
  PROVE  /\ c \in Rules /\ Searched[c] \in Lists \cup {Memory}
         /\ Level[c] \in Nat /\ Frequency[c] \in Nat
<1>1. PICK r \in Rules : \E k \in 1 .. Len(Tried[r]) : c = Tried[r][k]
  BY DEF Counting
<1>2. Tried[r] \in Seq(Rules)
  BY RulesAssumption
<1>3. c \in Rules
  BY <1>1, <1>2, ElementOfSeq
<1>4. QED
  BY <1>3, RulesAssumption

(* The memory is a list as the others are, with one node of each event.    *)
LEMMA ListHolds ==
  ASSUME IInv, Shadow, NEW c \in Counting
  PROVE  /\ List(c) \in Seq(Nat) /\ Sorted(List(c))
         /\ \A k \in 1 .. Len(List(c)) : List(c)[k] \in InMemory
         /\ \A e \in InMemory :
              /\ Cardinality(Positions(List(c), e)) = Copies(c, e)
              /\ Copies(c, e) \in Nat
         /\ InMemory \subseteq 1 .. Newest
<1>1. /\ Newest \in Nat /\ Latest \in Nat /\ Latest <= Newest /\ Len(memory) \in Nat
      /\ InMemory = Latest - Len(memory) + 1 .. Latest /\ Latest - Len(memory) + 1 >= 1
  BY LatestType, InMemoryIs DEF Shadow
<1>2. InMemory \subseteq 1 .. Newest
  BY <1>1
<1>3. CASE Searched[c] = Memory
  <2>1. List(c) = memory /\ memory \in Seq(Nat)
    BY <1>3 DEF List, IInv, CoreTypes
  <2>2. Sorted(memory)
    BY <1>1 DEF Sorted, Shadow, MemoryIsRecent
  <2>3. \A k \in 1 .. Len(memory) : memory[k] \in InMemory
    BY DEF InMemory
  <2>4. ASSUME NEW e \in InMemory
        PROVE  Cardinality(Positions(memory, e)) = 1
    <3>1. PICK p \in 1 .. Len(memory) : memory[p] = e
      BY DEF InMemory
    <3>2. \A k \in 1 .. Len(memory) : memory[k] = e => k = p
      BY <1>1, <3>1 DEF Shadow, MemoryIsRecent
    <3>3. Positions(memory, e) = {p}
      BY <3>1, <3>2 DEF Positions
    <3>4. QED
      BY <3>3, FS_Singleton
  <2>5. \A e : Copies(c, e) = 1
    BY <1>3 DEF Copies
  <2>6. QED
    BY <1>2, <2>1, <2>2, <2>3, <2>4, <2>5
<1>4. CASE Searched[c] # Memory
  <2> DEFINE l == Searched[c]
  <2>1. l \in Lists /\ List(c) = lists[l]
    BY <1>4, CountingIs DEF List
  <2>2. \A e : Copies(c, e) = Nodes(event[e].rule, l)
    BY <1>4 DEF Copies
  <2>3. \A e \in InMemory : Copies(c, e) \in Nat
    BY <1>2, <2>1, <2>2, EventType, NodesType
  <2> HIDE DEF l
  <2>4. \A e \in InMemory : Cardinality(Positions(lists[l], e)) = Nodes(event[e].rule, l)
    BY <1>2, <2>1, ListProperties
  <2>5. /\ lists[l] \in Seq(Nat) /\ Sorted(lists[l])
        /\ \A k \in 1 .. Len(lists[l]) : lists[l][k] \in InMemory
    BY <2>1, ListProperties
  <2>6. QED
    BY <1>2, <2>1, <2>2, <2>3, <2>4, <2>5
<1>5. QED
  BY <1>3, <1>4

(* From the first position a walk reaches, all later ones are reached.     *)
LEMMA ReachedIs ==
  ASSUME IInv, Shadow, NEW c \in Counting
  PROVE  /\ Len(List(c)) \in Nat
         /\ Reached(c) \subseteq 1 .. Len(List(c))
         /\ \A k \in Reached(c), j \in 1 .. Len(List(c)) : k <= j => j \in Reached(c)
         /\ \A k \in Reached(c) :
              /\ List(c)[k] \in 1 .. Newest
              /\ c_time - event[List(c)[k]].time <= Timeframe[c]
              /\ event[List(c)[k]].matched < Level[c]
<1> DEFINE L == List(c)
           ok(j) == /\ c_time - event[L[j]].time <= Timeframe[c]
                    /\ event[L[j]].matched < Level[c]
<1>1. Len(L) \in Nat /\ \A k \in 1 .. Len(L) : L[k] \in 1 .. Newest
  BY ListHolds, LenProperties
<1>2. Reached(c) = {k \in 1 .. Len(L) : \A j \in k .. Len(L) : ok(j)}
  BY DEF Reached
<1> HIDE DEF ok
<1>3. \A k \in Reached(c) : k \in 1 .. Len(L) /\ k \in k .. Len(L)
  BY <1>1, <1>2
<1>4. \A k \in Reached(c) : ok(k)
  BY <1>2, <1>3
<1>5. \A k \in Reached(c), j \in 1 .. Len(L) : k <= j => j \in Reached(c)
  <2> SUFFICES ASSUME NEW k \in Reached(c), NEW j \in 1 .. Len(L), k <= j,
                      NEW i \in j .. Len(L)
               PROVE  ok(i)
    BY <1>2
  <2>1. i \in k .. Len(L)
    BY <1>1, <1>3
  <2>2. QED
    BY <1>2, <2>1
<1>6. QED
  BY <1>1, <1>3, <1>4, <1>5 DEF ok

LEMMA FittingIs ==
  ASSUME IInv, Shadow, NEW c \in Counting, NEW src
  PROVE  /\ Fitting(c, src) \subseteq Reached(c)
         /\ Fitting(c, src) \subseteq 1 .. Len(List(c))
         /\ Fitting(c, src) \subseteq Nat
         /\ IsFiniteSet(Fitting(c, src))
         /\ Counted(c, src) \subseteq Fitting(c, src)
<1>1. Fitting(c, src) \subseteq Reached(c) /\ Counted(c, src) \subseteq Fitting(c, src)
  BY DEF Fitting, Counted
<1>2. Fitting(c, src) \in SUBSET (1 .. Len(List(c)))
  BY <1>1, ReachedIs
<1>3. QED
  BY <1>1, <1>2, ListHolds, PositionsFinite

(* A mark is put only on events that were reached, which carried a lower   *)
(* one.                                                                    *)
LEMMA MarkedIs ==
  ASSUME IInv, Shadow, NEW c \in Counting, NEW src, Found(c, src)
  PROVE  /\ Fitting(c, src) # {}
         /\ Len(List(c)) \in Reached(c)
         /\ \A e \in Marked(c, src) : e \in 1 .. Newest /\ event[e].matched < Level[c]
         /\ List(c)[Len(List(c))] \in Marked(c, src)
<1>1. Fitting(c, src) # {}
  <2>1. SUFFICES ASSUME Fitting(c, src) = {} PROVE FALSE
    OBVIOUS
  <2>2. Cardinality(Fitting(c, src)) = 0
    BY <2>1, FS_EmptySet
  <2>3. QED
    BY <2>2, CountingIs DEF Found
<1>2. PICK k : k \in Reached(c) /\ k \in 1 .. Len(List(c))
  BY <1>1, FittingIs
<1>3. Len(List(c)) \in Reached(c)
  <2>1. Len(List(c)) \in 1 .. Len(List(c)) /\ k <= Len(List(c))
    BY <1>2, ReachedIs
  <2>2. QED
    BY <1>2, <2>1, ReachedIs
<1>4. ASSUME NEW e \in Marked(c, src)
      PROVE  e \in 1 .. Newest /\ event[e].matched < Level[c]
  <2>1. \E i \in Counted(c, src) \cup {Len(List(c))} : e = List(c)[i]
    BY DEF Marked
  <2>2. \E i \in Reached(c) : e = List(c)[i]
    BY <1>3, <2>1, FittingIs
  <2>3. QED
    BY <2>2, ReachedIs
<1>5. List(c)[Len(List(c))] \in Marked(c, src)
  BY DEF Marked
<1>6. QED
  BY <1>1, <1>3, <1>4, <1>5

(* The events keep what they are; a mark only rises.                       *)
Grows(E, F) ==
  /\ Len(E) <= Len(F)
  /\ \A e \in 1 .. Len(E) : /\ F[e].rule = E[e].rule /\ F[e].src = E[e].src
                            /\ F[e].time = E[e].time /\ E[e].matched <= F[e].matched

LEMMA MarksGrow ==
  ASSUME IInv, Shadow, NEW c \in Counting, NEW src, Found(c, src)
  PROVE  /\ WithMarks(c, src) \in Seq(Event)
         /\ Len(WithMarks(c, src)) = Len(event)
         /\ Grows(event, WithMarks(c, src))
         /\ \A e \in Marked(c, src) : WithMarks(c, src)[e].matched = Level[c]
<1>1. WithMarks(c, src) \in Seq(Event) /\ Len(WithMarks(c, src)) = Len(event)
  BY CountingIs, MarksKeepEvents DEF IInv, CoreTypes
<1>2. /\ Len(event) \in Nat /\ Level[c] \in Nat
      /\ \A e \in 1 .. Len(event) : event[e] \in Event
  BY LatestType, CountingIs, EventType DEF Newest
<1>3. \A e \in 1 .. Len(event) :
        WithMarks(c, src)[e] = IF e \in Marked(c, src)
                                 THEN [event[e] EXCEPT !.matched = Level[c]] ELSE event[e]
  BY DEF WithMarks
<1>4. ASSUME NEW e \in 1 .. Len(event), e \in Marked(c, src)
      PROVE  LET w == WithMarks(c, src)[e] IN
             /\ w.rule = event[e].rule /\ w.src = event[e].src /\ w.time = event[e].time
             /\ event[e].matched <= w.matched /\ w.matched = Level[c]
  <2>1. WithMarks(c, src)[e] = [event[e] EXCEPT !.matched = Level[c]]
    BY <1>3, <1>4
  <2>2. event[e] \in Event /\ event[e].matched < Level[c]
    BY <1>2, <1>4, MarkedIs
  <2>3. event[e].matched \in Nat
    BY <2>2 DEF Event
  <2>4. QED
    BY <1>2, <2>1, <2>2, <2>3 DEF Event
<1>5. ASSUME NEW e \in 1 .. Len(event), e \notin Marked(c, src)
      PROVE  LET w == WithMarks(c, src)[e] IN
             /\ w.rule = event[e].rule /\ w.src = event[e].src /\ w.time = event[e].time
             /\ event[e].matched <= w.matched
  <2>1. WithMarks(c, src)[e] = event[e] /\ event[e].matched \in Nat
    BY <1>2, <1>3, <1>5 DEF Event
  <2>2. QED
    BY <2>1
<1>6. Grows(event, WithMarks(c, src))
  BY <1>1, <1>2, <1>4, <1>5 DEF Grows
<1>7. \A e \in Marked(c, src) : WithMarks(c, src)[e].matched = Level[c]
  BY <1>4, MarkedIs DEF Newest
<1>8. QED
  BY <1>1, <1>6, <1>7

(* The lists are untouched by a step that only adds an event, not yet      *)
(* remembered, or a mark.                                                  *)
LEMMA GrowthKeepsShadow ==
  ASSUME IInv, Shadow, UNCHANGED <<memory, lists>>, Latest' = Latest,
         event' \in Seq(Event), Grows(event, event')
  PROVE  Shadow'
<1>1. /\ Newest \in Nat /\ Newest' \in Nat /\ Newest <= Newest' /\ Latest \in Nat
      /\ Latest <= Newest /\ Len(memory) \in Nat
  BY LatestType, LenProperties DEF Newest, Grows
<1>2. MemoryIsRecent'
  BY DEF Shadow, MemoryIsRecent
<1>3. InMemory' = InMemory /\ InMemory \subseteq 1 .. Newest
  <2>1. InMemory' = InMemory
    BY DEF InMemory
  <2>2. InMemory = Latest - Len(memory) + 1 .. Latest /\ Latest - Len(memory) + 1 >= 1
    BY InMemoryIs DEF Shadow
  <2>3. QED
    BY <1>1, <2>1, <2>2
<1>4. ASSUME NEW l \in Lists
      PROVE  Follows(lists[l], l, event', InMemory, Newest')
  <2> DEFINE L == lists[l]
  <2>1. /\ L \in Seq(Nat) /\ L \in Seq(1 .. Newest) /\ Sorted(L)
        /\ \A e \in 1 .. Newest : Cardinality(Positions(L, e))
             = IF e \in InMemory THEN Nodes(event[e].rule, l) ELSE 0
    BY ListProperties
  <2> HIDE DEF L
  <2>2. \A k \in 1 .. Len(L) : L[k] \in 1 .. Newest
    BY <2>1, ElementOfSeq
  <2>3. L \in Seq(1 .. Newest')
    <3>1. \A k \in 1 .. Len(L) : L[k] \in 1 .. Newest'
      BY <1>1, <2>2
    <3>2. QED
      BY <2>1, <3>1, SeqOfElements
  <2>4. ASSUME NEW e \in 1 .. Newest'
        PROVE  Cardinality(Positions(L, e))
                 = IF e \in InMemory THEN Nodes(event'[e].rule, l) ELSE 0
    <3>1. CASE e \in 1 .. Newest
      <4>1. event'[e].rule = event[e].rule
        BY <3>1 DEF Grows, Newest
      <4>2. QED
        BY <2>1, <3>1, <4>1
    <3>2. CASE e \notin 1 .. Newest
      <4>1. Positions(L, e) = {}
        BY <2>2, <3>2 DEF Positions
      <4>2. Cardinality(Positions(L, e)) = 0
        BY <4>1, FS_EmptySet
      <4>3. QED
        BY <1>3, <3>2, <4>2
    <3>3. QED
      BY <3>1, <3>2
  <2>5. QED
    BY <2>1, <2>3, <2>4 DEF Follows, L
<1>5. lists' = [l \in Lists |-> lists'[l]]
  BY DEF Shadow
<1>6. QED
  BY <1>2, <1>3, <1>4, <1>5, ShadowOfEachNext

LEMMA SameGrows ==
  ASSUME IInv
  PROVE  Grows(event, event)
<1>1. \A e \in 1 .. Len(event) : event[e] \in Event
  BY EventType DEF Newest
<1>2. \A e \in 1 .. Len(event) : event[e].matched \in Nat
  BY <1>1 DEF Event
<1>3. Len(event) \in Nat
  BY LatestType DEF Newest
<1>4. QED
  BY <1>2, <1>3 DEF Grows

(* Generating an alert adds it to the events as they are marked.           *)
LEMMA GenerateIs ==
  ASSUME IInv, at = "idle",
         NEW r \in Rules, NEW src \in Sources, NEW mark \in Nat,
         NEW marked \in Seq(Event), Len(marked) = Len(event), Grows(event, marked),
         Generate(r, src, marked, mark)
  PROVE  /\ Grows(event, event') /\ event' \in Seq(Event)
         /\ Latest' = Latest
         /\ \A e \in 1 .. Len(event) : event'[e] = marked[e]
         /\ ~ Ignored(r) => Newest' = Newest + 1
<1>0. Len(event) \in Nat
  BY LatestType DEF Newest
<1>1. CASE Ignored(r)
  <2>1. event' = marked /\ at' = at
    BY <1>1 DEF Generate
  <2>2. QED
    BY <1>1, <2>1 DEF Latest, Newest
<1>2. CASE ~ Ignored(r)
  <2> DEFINE new == [rule |-> r, src |-> src, time |-> c_time, matched |-> mark]
  <2>1. new \in Event
    BY DEF Event, IInv, CoreTypes
  <2>2. event' = Append(marked, new) /\ at' = "remember"
    BY <1>2 DEF Generate
  <2> HIDE DEF new
  <2>3. /\ event' \in Seq(Event) /\ Len(event') = Len(event) + 1
        /\ \A e \in 1 .. Len(event) : event'[e] = marked[e]
    BY <2>1, <2>2, AppendProperties
  <2>4. Grows(event, event')
    BY <1>0, <2>3 DEF Grows
  <2>5. Latest' = Latest
    BY <1>0, <2>2, <2>3 DEF Latest, Newest
  <2>6. QED
    BY <2>3, <2>4, <2>5 DEF Newest
<1>3. QED
  BY <1>1, <1>2

(* Every step lets the events grow and keeps the lists the shadow of the   *)
(* memory.                                                                 *)
LEMMA SingleKeepsShadow ==
  ASSUME IInv, Shadow, NEW r \in Rules, NEW src \in Sources, ReceiveSingle(r, src)
  PROVE  Shadow' /\ Grows(event, event') /\ event' \in Seq(Event)
<1>1. /\ at = "idle" /\ Generate(r, src, event, 0)
      /\ UNCHANGED <<memory, lists>>
  BY DEF ReceiveSingle
<1>2. Grows(event, event) /\ event \in Seq(Event)
  BY SameGrows DEF IInv, CoreTypes
<1>3. Grows(event, event') /\ event' \in Seq(Event) /\ Latest' = Latest
  BY <1>1, <1>2, GenerateIs
<1>4. QED
  BY <1>1, <1>3, GrowthKeepsShadow

(* The rule that fires, and what it leaves.                                *)
LEMMA CountedIs ==
  ASSUME IInv, Shadow, NEW r \in Rules, NEW src \in Sources, ReceiveCounted(r, src)
  PROVE  \E c \in Counting :
           /\ at = "idle" /\ Found(c, src)
           /\ \A e \in 1 .. Len(event) : event'[e] = WithMarks(c, src)[e]
           /\ Grows(event, event') /\ event' \in Seq(Event) /\ Latest' = Latest
           /\ UNCHANGED <<c_time, memory, lists>>
           /\ \/ alerts' = alerts
              \/ /\ Newest' = Newest + 1
                 /\ alerts' = alerts \cup
                      {[rule |-> c, src |-> src, time |-> c_time, last |-> Newest + 1,
                        evidence |-> {List(c)[i] : i \in Counted(c, src)}]}
<1>1. PICK k \in 1 .. Len(Tried[r]) :
        LET c == Tried[r][k] IN
        /\ at = "idle" /\ Found(c, src)
        /\ Generate(c, src, WithMarks(c, src), Level[c])
        /\ alerts' = IF Ignored(c) THEN alerts
                     ELSE alerts \cup {[rule |-> c, src |-> src, time |-> c_time,
                                        last |-> Len(event) + 1,
                                        evidence |-> {List(c)[i] : i \in Counted(c, src)}]}
        /\ UNCHANGED <<c_time, memory, lists>>
  BY DEF ReceiveCounted
<1> DEFINE c == Tried[r][k]
<1>2. c \in Counting
  BY DEF Counting
<1>3. c \in Rules /\ Level[c] \in Nat
  BY <1>2, CountingIs
<1> HIDE DEF c
<1>4. /\ at = "idle" /\ Found(c, src)
      /\ Generate(c, src, WithMarks(c, src), Level[c])
      /\ alerts' = IF Ignored(c) THEN alerts
                   ELSE alerts \cup {[rule |-> c, src |-> src, time |-> c_time,
                                      last |-> Newest + 1,
                                      evidence |-> {List(c)[i] : i \in Counted(c, src)}]}
      /\ UNCHANGED <<c_time, memory, lists>>
  BY <1>1 DEF c, Newest
<1>5. /\ WithMarks(c, src) \in Seq(Event) /\ Len(WithMarks(c, src)) = Len(event)
      /\ Grows(event, WithMarks(c, src))
  BY <1>2, <1>4, MarksGrow
<1>6. /\ Grows(event, event') /\ event' \in Seq(Event)
      /\ Latest' = Latest
      /\ \A e \in 1 .. Len(event) : event'[e] = WithMarks(c, src)[e]
      /\ ~ Ignored(c) => Newest' = Newest + 1
  BY <1>3, <1>4, <1>5, GenerateIs
<1>7. \/ alerts' = alerts
      \/ /\ Newest' = Newest + 1
         /\ alerts' = alerts \cup
              {[rule |-> c, src |-> src, time |-> c_time, last |-> Newest + 1,
                evidence |-> {List(c)[i] : i \in Counted(c, src)}]}
  BY <1>4, <1>6
<1>8. QED
  BY <1>2, <1>4, <1>6, <1>7

LEMMA CountedKeepsShadow ==
  ASSUME IInv, Shadow, NEW r \in Rules, NEW src \in Sources, ReceiveCounted(r, src)
  PROVE  Shadow' /\ Grows(event, event') /\ event' \in Seq(Event)
<1>1. /\ Grows(event, event') /\ event' \in Seq(Event) /\ Latest' = Latest
      /\ UNCHANGED <<memory, lists>>
  BY CountedIs
<1>2. QED
  BY <1>1, GrowthKeepsShadow

(* A step that leaves the events, the memory and the lists.                *)
LEMMA QuietKeepsShadow ==
  ASSUME IInv, Shadow, UNCHANGED <<event, memory, lists>>, Latest' = Latest
  PROVE  Shadow' /\ Grows(event, event') /\ event' \in Seq(Event)
<1>1. Grows(event, event') /\ event' \in Seq(Event)
  BY SameGrows DEF IInv, CoreTypes
<1>2. QED
  BY <1>1, GrowthKeepsShadow

LEMMA ShadowInvariance ==
  IInv /\ Shadow /\ [Next]_vars =>
    Shadow' /\ Grows(event, event') /\ event' \in Seq(Event)
<1>1. ASSUME IInv, Shadow, Tick \/ EvictionDone \/ UNCHANGED vars
      PROVE  Shadow' /\ Grows(event, event') /\ event' \in Seq(Event)
  <2>1. UNCHANGED <<event, memory, lists>> /\ Latest' = Latest
    BY <1>1 DEF Tick, EvictionDone, vars, Latest, Newest
  <2>2. QED
    BY <1>1, <2>1, QuietKeepsShadow
<1>2. ASSUME IInv, Shadow, OS_AddEvent \/ RemoveOldest
      PROVE  Shadow' /\ Grows(event, event') /\ event' \in Seq(Event)
  <2>1. event' = event
    BY <1>2 DEF OS_AddEvent, RemoveOldest
  <2>2. Grows(event, event') /\ event' \in Seq(Event)
    BY <1>2, <2>1, SameGrows DEF IInv, CoreTypes
  <2>3. QED
    BY <1>2, <2>2, AddKeepsShadow, RemoveKeepsShadow
<1>3. QED
  BY <1>1, <1>2, SingleKeepsShadow, CountedKeepsShadow DEF Next

LEMMA ShadowHolds == Spec => [](IInv /\ Shadow)
<1>1. Init => Shadow
  <2>1. SUFFICES ASSUME Init PROVE Shadow
    OBVIOUS
  <2>2. /\ event = <<>> /\ memory = <<>> /\ at = "idle" /\ lists = [l \in Lists |-> <<>>]
        /\ Len(event) = 0 /\ Len(memory) = 0
    BY <2>1, EmptySeq DEF Init
  <2>3. MemoryIsRecent
    BY <2>2 DEF MemoryIsRecent, Latest, Newest
  <2>4. lists \in [Lists -> Seq(1 .. Len(event))]
    BY <2>2, EmptySeq
  <2>5. ListsFollowMemory
    BY <2>2, EmptySeq DEF ListsFollowMemory
  <2>6. QED
    BY <2>3, <2>4, <2>5 DEF Shadow
<1>2. IInv /\ Shadow /\ [Next]_vars => Shadow'
  BY ShadowInvariance
<1>3. QED
  BY <1>1, <1>2, Invariance, PTL DEF Spec

(* No list keeps an event the memory has freed, nor loses one it still     *)
(* has, however an eviction and the alerts alternate: freeing the oldest   *)
(* node of each group of the oldest event frees that event's own nodes.    *)
THEOREM ListsFollow == Spec => []ListsInv
<1>1. IInv /\ Shadow => TypeOK /\ ListsFollowMemory
  <2>1. SUFFICES ASSUME IInv, Shadow PROVE TypeOK
    BY DEF Shadow
  <2>2. memory \in Seq(1 .. Len(event))
    <3>1. InMemory \subseteq 1 .. Newest /\ memory \in Seq(Nat)
      <4>1. /\ Latest \in Nat /\ Latest <= Newest /\ Newest \in Nat /\ Len(memory) \in Nat
            /\ InMemory = Latest - Len(memory) + 1 .. Latest /\ Latest - Len(memory) + 1 >= 1
        BY <2>1, LatestType, InMemoryIs DEF Shadow
      <4>2. QED
        BY <2>1, <4>1 DEF IInv, CoreTypes
    <3>2. \A k \in 1 .. Len(memory) : memory[k] \in 1 .. Len(event)
      BY <3>1 DEF InMemory, Newest
    <3>3. QED
      BY <3>1, <3>2, SeqOfElements
  <2>3. memoryused \in 0 .. MemoryMax + 1
    <3>1. Len(memory) \in Nat /\ (memory = <<>> <=> Len(memory) = 0)
      BY <2>1, LenProperties, EmptySeq DEF IInv, CoreTypes
    <3>2. QED
      BY <2>1, <3>1, MemoryAssumption DEF IInv, CoreTypes, UsedIsCount, Balance
  <2>4. QED
    BY <2>1, <2>2, <2>3 DEF TypeOK, IInv, CoreTypes, Event, Shadow
<1>2. MemoryBounded /\ TypeOK /\ ListsFollowMemory => ListsInv
  BY DEF ListsInv
<1>3. QED
  BY <1>1, <1>2, ShadowHolds, MemoryKeepsBound, PTL

-----------------------------------------------------------------------------
(* What an alert rests on.                                                 *)

(* The newest event of the list an alert was counted on carries its mark,  *)
(* and stays between the evidence of the alert and what a later walk that  *)
(* stops at the mark can reach.                                            *)
Guarded(a) ==
  \E m \in 1 .. Newest : /\ m < a.last
                         /\ \A e \in a.evidence : e <= m
                         /\ Copies(a.rule, m) >= 1
                         /\ Level[a.rule] <= event[m].matched

AlertsInv ==
  \A a \in alerts : /\ a.rule \in Counting
                    /\ a.last \in 1 .. Newest
                    /\ \A e \in a.evidence : e \in 1 .. Newest /\ e < a.last
                    /\ Guarded(a)

(* An event has a node in every list that holds it.                        *)
LEMMA ListedIsCopied ==
  ASSUME IInv, Shadow, NEW c \in Counting
  PROVE  /\ \A k \in 1 .. Len(List(c)) : Copies(c, List(c)[k]) >= 1
         /\ \A e \in InMemory : Copies(c, e) >= 1 =>
              \E k \in 1 .. Len(List(c)) : List(c)[k] = e
<1>1. /\ List(c) \in Seq(Nat)
      /\ \A k \in 1 .. Len(List(c)) : List(c)[k] \in InMemory
      /\ \A e \in InMemory : /\ Cardinality(Positions(List(c), e)) = Copies(c, e)
                             /\ Copies(c, e) \in Nat
  BY ListHolds
<1>2. \A e : IsFiniteSet(Positions(List(c), e))
  BY <1>1, PositionsFinite
<1>3. ASSUME NEW e \in InMemory
      PROVE  Copies(c, e) >= 1 <=> Positions(List(c), e) # {}
  <2> DEFINE P == Positions(List(c), e)
  <2> HIDE DEF P
  <2>1. P = {} <=> Cardinality(P) = 0
    BY <1>2, FS_EmptySet DEF P
  <2>2. Cardinality(P) = Copies(c, e) /\ Copies(c, e) \in Nat
    BY <1>1 DEF P
  <2>3. QED
    BY <2>1, <2>2 DEF P
<1>4. \A e : Positions(List(c), e) # {} <=> \E k \in 1 .. Len(List(c)) : List(c)[k] = e
  BY DEF Positions
<1>5. QED
  BY <1>1, <1>3, <1>4

(* Growth changes neither how often an event is in a list nor the guard.   *)
LEMMA GrowthKeepsCopies ==
  ASSUME Grows(event, event'), NEW c, NEW e \in 1 .. Newest
  PROVE  Copies(c, e)' = Copies(c, e)
BY DEF Grows, Copies, Newest

LEMMA GrowthKeepsAlerts ==
  ASSUME IInv, Grows(event, event'), event' \in Seq(Event),
         NEW a \in alerts, AlertsInv
  PROVE  /\ a.rule \in Counting
         /\ a.last \in 1 .. Newest'
         /\ \A e \in a.evidence : e \in 1 .. Newest' /\ e < a.last
         /\ Guarded(a)'
<1>1. Newest \in Nat /\ Newest' \in Nat /\ Newest <= Newest'
  BY LatestType, LenProperties DEF Newest, Grows
<1>2. /\ a.rule \in Counting /\ a.last \in 1 .. Newest
      /\ \A e \in a.evidence : e \in 1 .. Newest /\ e < a.last
      /\ Guarded(a)
  BY DEF AlertsInv
<1>3. PICK m \in 1 .. Newest : /\ m < a.last
                               /\ \A e \in a.evidence : e <= m
                               /\ Copies(a.rule, m) >= 1
                               /\ Level[a.rule] <= event[m].matched
  BY <1>2 DEF Guarded
<1>4. m \in 1 .. Newest' /\ Copies(a.rule, m)' >= 1
  BY <1>1, <1>3, GrowthKeepsCopies
<1>5. Level[a.rule] <= event'[m].matched
  <2>1. event[m].matched <= event'[m].matched
    BY <1>3 DEF Grows, Newest
  <2>2. event[m] \in Event /\ event'[m] \in Event
    BY <1>3, <1>4, ElementOfSeq, EventType DEF Newest
  <2>3. event[m].matched \in Nat /\ event'[m].matched \in Nat /\ Level[a.rule] \in Nat
    BY <1>2, <2>2, CountingIs DEF Event
  <2>4. QED
    BY <1>3, <2>1, <2>3
<1>6. Guarded(a)'
  BY <1>3, <1>4, <1>5 DEF Guarded
<1>7. QED
  BY <1>1, <1>2, <1>6

(* What a search counts lies before the alert.                             *)
LEMMA EvidenceIs ==
  ASSUME IInv, Shadow, NEW c \in Counting, NEW src, NEW i \in Counted(c, src)
  PROVE  /\ i \in 1 .. Len(List(c)) /\ i \in Reached(c)
         /\ List(c)[i] \in InMemory /\ List(c)[i] \in 1 .. Newest
         /\ List(c)[i] <= List(c)[Len(List(c))]
<1>1. i \in 1 .. Len(List(c)) /\ i \in Reached(c)
  BY FittingIs
<1>2. Len(List(c)) \in 1 .. Len(List(c)) /\ i <= Len(List(c))
  BY <1>1, ReachedIs
<1>3. QED
  BY <1>1, <1>2, ListHolds DEF Sorted

(* The alert a search raises is guarded by the newest event of its list.   *)
LEMMA NewAlertIsGuarded ==
  ASSUME IInv, Shadow, NEW c \in Counting, NEW src, Found(c, src), NEW a,
         a.rule = c, a.last = Newest + 1,
         a.evidence = {List(c)[i] : i \in Counted(c, src)},
         \A e \in 1 .. Len(event) : event'[e] = WithMarks(c, src)[e],
         Grows(event, event'), Newest' = Newest + 1
  PROVE  /\ a.rule \in Counting
         /\ a.last \in 1 .. Newest'
         /\ \A e \in a.evidence : e \in 1 .. Newest' /\ e < a.last
         /\ Guarded(a)'
<1> DEFINE L == List(c)
<1>0. PICK m : m = L[Len(L)]
  OBVIOUS
<1>1. Newest \in Nat
  BY LatestType
<1>2. m \in Marked(c, src) /\ m \in 1 .. Newest /\ Len(L) \in 1 .. Len(L)
  <2>1. m \in Marked(c, src) /\ m \in 1 .. Newest
    BY <1>0, MarkedIs
  <2>2. Len(L) \in Reached(c)
    BY MarkedIs
  <2>3. QED
    BY <2>1, <2>2, ReachedIs
<1>3. Copies(c, m) >= 1
  BY <1>0, <1>2, ListedIsCopied
<1>4. \A e \in a.evidence : e \in 1 .. Newest /\ e <= m
  BY <1>0, EvidenceIs
<1>5. WithMarks(c, src)[m].matched = Level[c]
  BY <1>2, MarksGrow
<1>6. event'[m].matched = Level[c] /\ Level[c] \in Nat
  BY <1>2, <1>5, CountingIs DEF Newest
<1>7. Copies(c, m)' >= 1
  BY <1>2, <1>3, GrowthKeepsCopies
<1>8. Guarded(a)'
  <2>1. m \in 1 .. Newest' /\ m < a.last
    BY <1>1, <1>2
  <2>2. Level[c] <= event'[m].matched
    BY <1>6
  <2>3. QED
    BY <1>4, <1>7, <2>1, <2>2 DEF Guarded
<1>9. QED
  BY <1>1, <1>4, <1>8

(* A walk of a rule of no higher level on the same list stops before the   *)
(* guard of an earlier alert: what it counts is newer.                     *)
LEMMA WalkStopsAtGuard ==
  ASSUME IInv, Shadow, at = "idle", NEW c \in Counting, NEW a, Guarded(a),
         a.rule \in Counting, Searched[a.rule] = Searched[c],
         Level[c] <= Level[a.rule], NEW i \in Reached(c)
  PROVE  \A e \in a.evidence : e \in Nat => e < List(c)[i]
<1> DEFINE L == List(c)
<1>1. PICK m \in 1 .. Newest : /\ \A e \in a.evidence : e <= m
                               /\ Copies(a.rule, m) >= 1
                               /\ Level[a.rule] <= event[m].matched
  BY DEF Guarded
<1>2. /\ Len(L) \in Nat /\ i \in 1 .. Len(L) /\ L[i] \in 1 .. Newest
      /\ L[i] \in InMemory
      /\ Newest \in Nat /\ Latest = Newest /\ Len(memory) \in Nat
      /\ InMemory = Latest - Len(memory) + 1 .. Latest
  BY ReachedIs, ListHolds, LatestType, InMemoryIs DEF Shadow, Latest
<1>3. Level[c] \in Nat /\ Level[a.rule] \in Nat /\ event[m].matched \in Nat
  BY CountingIs, EventType DEF Event
<1>4. Copies(c, m) = Copies(a.rule, m)
  BY DEF Copies
<1>5. m < L[i]
  <2>1. CASE m \in InMemory
    <3>1. PICK p \in 1 .. Len(L) : L[p] = m
      BY <1>1, <1>4, <2>1, ListedIsCopied
    <3>2. p \notin Reached(c)
      <4>1. ~ (event[m].matched < Level[c])
        BY <1>1, <1>3
      <4>2. QED
        BY <3>1, <4>1, ReachedIs
    <3>3. ~ (i <= p)
      BY <3>2, ReachedIs
    <3>4. m <= L[i]
      <4>1. p <= i
        BY <1>2, <3>3
      <4>2. QED
        BY <1>2, <3>1, <4>1, ListHolds DEF Sorted
    <3>5. L[i] # m
      BY <1>1, <1>3, ReachedIs
    <3>6. QED
      BY <1>2, <3>4, <3>5
  <2>2. CASE m \notin InMemory
    BY <1>2, <2>2
  <2>3. QED
    BY <2>1, <2>2
<1>6. QED
  BY <1>1, <1>2, <1>5

LEMMA AlertsStep ==
  ASSUME IInv, Shadow, AlertsInv, AlertsShareNoEvidence, [Next]_vars
  PROVE  AlertsInv' /\ AlertsShareNoEvidence'
<1>1. Grows(event, event') /\ event' \in Seq(Event)
  BY ShadowInvariance
<1>2. ASSUME alerts' = alerts
      PROVE  AlertsInv' /\ AlertsShareNoEvidence'
  <2>1. AlertsInv'
    BY <1>1, <1>2, GrowthKeepsAlerts DEF AlertsInv
  <2>2. AlertsShareNoEvidence'
    BY <1>2 DEF AlertsShareNoEvidence
  <2>3. QED
    BY <2>1, <2>2
<1>3. ASSUME NEW r \in Rules, NEW src \in Sources, ReceiveCounted(r, src), alerts' # alerts
      PROVE  AlertsInv' /\ AlertsShareNoEvidence'
  <2>1. PICK c \in Counting :
          /\ at = "idle" /\ Found(c, src)
          /\ \A e \in 1 .. Len(event) : event'[e] = WithMarks(c, src)[e]
          /\ Newest' = Newest + 1
          /\ alerts' = alerts \cup
               {[rule |-> c, src |-> src, time |-> c_time, last |-> Newest + 1,
                 evidence |-> {List(c)[i] : i \in Counted(c, src)}]}
    BY <1>3, CountedIs
  <2>0. PICK b : b = [rule |-> c, src |-> src, time |-> c_time, last |-> Newest + 1,
                     evidence |-> {List(c)[i] : i \in Counted(c, src)}]
    OBVIOUS
  <2>2. /\ b.rule = c /\ b.last = Newest + 1
        /\ b.evidence = {List(c)[i] : i \in Counted(c, src)}
        /\ alerts' = alerts \cup {b}
    BY <2>0, <2>1
  <2>3. /\ b.rule \in Counting /\ b.last \in 1 .. Newest'
        /\ \A e \in b.evidence : e \in 1 .. Newest' /\ e < b.last
        /\ Guarded(b)'
    BY <1>1, <2>1, <2>2, NewAlertIsGuarded
  <2>4. AlertsInv'
    <3> SUFFICES ASSUME NEW a \in alerts'
                 PROVE  /\ a.rule \in Counting /\ a.last \in 1 .. Newest'
                        /\ \A e \in a.evidence : e \in 1 .. Newest' /\ e < a.last
                        /\ Guarded(a)'
      BY DEF AlertsInv
    <3>1. CASE a = b
      BY <2>3, <3>1
    <3>2. CASE a \in alerts
      BY <1>1, <3>2, GrowthKeepsAlerts
    <3>3. QED
      BY <2>2, <3>1, <3>2
  <2>5. ASSUME NEW a \in alerts,
               Searched[a.rule] = Searched[c], Level[c] <= Level[a.rule]
        PROVE  a.evidence \cap b.evidence = {}
    <3>1. a.rule \in Counting /\ Guarded(a) /\ \A e \in a.evidence : e \in 1 .. Newest
      BY DEF AlertsInv
    <3>2. ASSUME NEW e \in a.evidence, NEW i \in Counted(c, src)
          PROVE  e # List(c)[i]
      <4>1. i \in Reached(c) /\ List(c)[i] \in 1 .. Newest
        BY EvidenceIs
      <4>2. e \in Nat /\ Newest \in Nat
        BY <3>1, LatestType
      <4>3. e < List(c)[i]
        BY <2>1, <2>5, <3>1, <4>1, <4>2, WalkStopsAtGuard
      <4>4. QED
        BY <4>1, <4>2, <4>3
    <3>3. QED
      BY <2>2, <3>2
  <2>6. \A a \in alerts : a.last < Newest + 1
    BY LatestType DEF AlertsInv
  <2>7. AlertsShareNoEvidence'
    <3> SUFFICES ASSUME NEW a \in alerts', NEW d \in alerts', a.last < d.last,
                        Searched[a.rule] = Searched[d.rule],
                        Level[d.rule] <= Level[a.rule]
                 PROVE  a.evidence \cap d.evidence = {}
      BY DEF AlertsShareNoEvidence
    <3>1. CASE a \in alerts /\ d \in alerts
      BY <3>1 DEF AlertsShareNoEvidence
    <3>2. CASE a \in alerts /\ d = b
      BY <2>2, <2>5, <3>2
    <3>3. CASE a = b
      <4>1. d.last <= Newest + 1
        <5>1. d \in alerts \/ d = b
          BY <2>2
        <5>2. \A e \in alerts : e.last \in Nat
          BY LatestType DEF AlertsInv
        <5>3. Newest \in Nat
          BY LatestType
        <5>4. QED
          BY <2>2, <2>6, <5>1, <5>2, <5>3
      <4>2. ~ (Newest + 1 < d.last)
        <5>1. d.last \in Nat /\ Newest \in Nat
          BY <2>4, LatestType DEF AlertsInv
        <5>2. QED
          BY <4>1, <5>1
      <4>3. QED
        BY <2>2, <3>3, <4>2
    <3>4. QED
      BY <2>2, <3>1, <3>2, <3>3
  <2>8. QED
    BY <2>4, <2>7
<1>4. alerts' = alerts \/ \E r \in Rules, src \in Sources : ReceiveCounted(r, src)
  BY DEF Next, vars, Tick, ReceiveSingle, OS_AddEvent, RemoveOldest, EvictionDone
<1>5. QED
  BY <1>2, <1>3, <1>4

-----------------------------------------------------------------------------
(* How much evidence an alert has.                                         *)

(* The nodes of the events E in the list of rule c, by event and copy, as  *)
(* far as the rule needs them.                                             *)
NodesOf(c, E) == {n \in E \X (1 .. Frequency[c] + 1) : n[2] <= Copies(c, n[1])}

Earned(a) ==
  /\ Cardinality(NodesOf(a.rule, a.evidence)) >= Frequency[a.rule] + 1
  /\ \A e \in a.evidence :
       Cardinality(NodesOf(a.rule, {d \in a.evidence : d > e})) < Frequency[a.rule] + 1
  /\ \A e \in a.evidence :
       /\ e < a.last
       /\ a.time - event[e].time <= Timeframe[a.rule]
       /\ a.rule \in SameSource => event[e].src = a.src

LEMMA EarnedOfEach == (\A a \in alerts : Earned(a)) <=> AlertIsEarned
BY DEF AlertIsEarned, Earned, NodesOf

LEMMA EarnedOfEachNext == (\A a \in alerts' : Earned(a)') => AlertIsEarned'
BY DEF AlertIsEarned, Earned, NodesOf

LEMMA NodesOfFinite ==
  ASSUME NEW c \in Counting, NEW n \in Nat, NEW E \in SUBSET (1 .. n)
  PROVE  IsFiniteSet(NodesOf(c, E)) /\ Cardinality(NodesOf(c, E)) \in Nat
<1>1. IsFiniteSet(E)
  <2>1. IsFiniteSet(1 .. n)
    BY FS_Interval
  <2>2. QED
    BY <2>1, FS_Subset
<1> DEFINE f == Frequency[c] + 1
<1>2. IsFiniteSet(1 .. f)
  <2>1. 1 \in Int /\ f \in Int
    BY CountingIs
  <2> HIDE DEF f
  <2>2. QED
    BY <2>1, FS_Interval
<1>3. IsFiniteSet(E \X (1 .. f))
  BY <1>1, <1>2, FS_Product
<1>4. NodesOf(c, E) \in SUBSET (E \X (1 .. f))
  BY DEF NodesOf
<1> HIDE DEF f
<1>5. IsFiniteSet(NodesOf(c, E))
  BY <1>3, <1>4, FS_Subset
<1>6. QED
  BY <1>5, FS_CardinalityType

(* The positions counted are the newest that fit, one more than the        *)
(* frequency.                                                              *)
LEMMA CountedByRank ==
  ASSUME IInv, Shadow, NEW c \in Counting, NEW src, Found(c, src)
  PROVE  /\ \A k \in Fitting(c, src) :
              /\ Rank(Fitting(c, src), k)
                   = Cardinality({j \in Fitting(c, src) : j > k}) + 1
              /\ k \in Counted(c, src) <=> Rank(Fitting(c, src), k) <= Frequency[c] + 1
         /\ IsFiniteSet(Counted(c, src))
         /\ Cardinality(Counted(c, src)) = Frequency[c] + 1
<1> DEFINE F == Fitting(c, src)
           n == Frequency[c] + 1
<1>1. F \subseteq Nat /\ IsFiniteSet(F) /\ Cardinality(F) \in Nat
  BY FittingIs, FS_CardinalityType
<1>2. Frequency[c] \in Nat /\ n \in Nat /\ n <= Cardinality(F)
  BY <1>1, CountingIs DEF Found
<1>3. Counted(c, src) = {k \in F : Cardinality({j \in F : j > k}) <= Frequency[c]}
  BY DEF Counted
<1> HIDE DEF F
<1>4. ASSUME NEW k \in F
      PROVE  /\ Rank(F, k) = Cardinality({j \in F : j > k}) + 1
             /\ Cardinality({j \in F : j > k}) \in Nat
  <2> DEFINE above == {j \in F : j > k}
  <2>1. above \in SUBSET F /\ k \notin above /\ FromOn(F, k) = above \cup {k}
    <3>1. k \in Nat /\ \A j \in F : j \in Nat
      BY <1>1
    <3>2. \A j \in F : j >= k <=> j > k \/ j = k
      BY <3>1
    <3>3. ~ (k > k)
      BY <3>1
    <3> DEFINE later(j) == j > k
    <3>4. above = {j \in F : later(j)} /\ ~ later(k)
      BY <3>3
    <3>5. FromOn(F, k) = {j \in F : later(j) \/ j = k}
      BY <3>2 DEF FromOn
    <3> HIDE DEF above, later
    <3>6. QED
      BY <3>4, <3>5
  <2> HIDE DEF above
  <2>2. IsFiniteSet(above) /\ Cardinality(above) \in Nat
    BY <1>1, <2>1, FS_Subset, FS_CardinalityType
  <2>3. Cardinality(above \cup {k}) = Cardinality(above) + 1
    BY <2>1, <2>2, FS_AddElement
  <2>4. QED
    BY <2>1, <2>2, <2>3 DEF Rank, above
<1>5. \A k \in F : k \in Counted(c, src) <=> Rank(F, k) <= n
  <2> SUFFICES ASSUME NEW k \in F PROVE k \in Counted(c, src) <=> Rank(F, k) <= n
    OBVIOUS
  <2> DEFINE a == Cardinality({j \in F : j > k})
  <2>1. Rank(F, k) = a + 1 /\ a \in Nat
    BY <1>4
  <2>2. k \in Counted(c, src) <=> a <= Frequency[c]
    BY <1>3
  <2> HIDE DEF a
  <2>3. QED
    BY <1>2, <2>1, <2>2
<1>6. Counted(c, src) = Top(F, n)
  <2>1. Counted(c, src) \subseteq F
    BY FittingIs DEF F
  <2>2. QED
    BY <1>5, <2>1 DEF Top
<1> HIDE DEF n
<1>7. IsFiniteSet(Counted(c, src)) /\ Cardinality(Counted(c, src)) = n
  BY <1>1, <1>2, <1>6, Greatest
<1>8. QED
  BY <1>4, <1>5, <1>7 DEF F, n

(* Nodes of one event are reached together, and fit together.              *)
LEMMA FitsWithLater ==
  ASSUME IInv, Shadow, NEW c \in Counting, NEW src,
         NEW i \in Fitting(c, src), NEW p \in 1 .. Len(List(c)), i <= p,
         NEW q \in Fitting(c, src), List(c)[p] = List(c)[q]
  PROVE  p \in Fitting(c, src)
<1>1. p \in Reached(c)
  BY FittingIs, ReachedIs
<1>2. QED
  BY <1>1 DEF Fitting

(* Every position counted is a node of the evidence.                       *)
LEMMA EnoughEvidence ==
  ASSUME IInv, Shadow, NEW c \in Counting, NEW src, Found(c, src)
  PROVE  Cardinality(NodesOf(c, {List(c)[i] : i \in Counted(c, src)})) >= Frequency[c] + 1
<1> DEFINE L == List(c)
           F == Fitting(c, src)
           C == Counted(c, src)
           E == {L[i] : i \in C}
           N == NodesOf(c, E)
           f == [i \in C |-> <<L[i], Rank(Positions(L, L[i]), i)>>]
<1>1. /\ Frequency[c] \in Nat /\ IsFiniteSet(C) /\ Cardinality(C) = Frequency[c] + 1
      /\ L \in Seq(Nat) /\ Len(L) \in Nat
  BY CountedByRank, CountingIs, ListHolds, ReachedIs
<1>2. ASSUME NEW i \in C
      PROVE  /\ i \in Positions(L, L[i]) /\ Positions(L, L[i]) \subseteq Nat
             /\ IsFiniteSet(Positions(L, L[i]))
             /\ Rank(Positions(L, L[i]), i) \in 1 .. Frequency[c] + 1
             /\ Rank(Positions(L, L[i]), i) <= Copies(c, L[i])
  <2> DEFINE P == Positions(L, L[i])
  <2>1. i \in F /\ i \in 1 .. Len(L) /\ L[i] \in InMemory
    BY FittingIs, EvidenceIs
  <2>2. i \in P /\ P \subseteq Nat /\ IsFiniteSet(P)
    BY <1>1, <2>1, PositionsFinite DEF Positions
  <2>3. Cardinality(P) = Copies(c, L[i]) /\ Copies(c, L[i]) \in Nat
    BY <2>1, ListHolds
  <2>4. \A j \in P : j >= i => j \in F
    <3> SUFFICES ASSUME NEW j \in P, j >= i PROVE j \in F
      OBVIOUS
    <3>1. j \in 1 .. Len(L) /\ L[j] = L[i] /\ i <= j
      BY <1>1, <2>1 DEF Positions
    <3>2. QED
      BY <2>1, <3>1, FitsWithLater
  <2>5. Rank(F, i) <= Frequency[c] + 1
    BY <2>1, CountedByRank
  <2>6. F \subseteq Nat /\ IsFiniteSet(F)
    BY FittingIs
  <2> HIDE DEF P, F
  <2>7. Rank(P, i) \in 1 .. Cardinality(P)
    BY <2>2, RankType
  <2>8. Rank(P, i) <= Rank(F, i) /\ Rank(F, i) \in Nat
    <3>1. FromOn(P, i) \in SUBSET FromOn(F, i)
      BY <2>4 DEF FromOn
    <3>2. IsFiniteSet(FromOn(F, i)) /\ Rank(F, i) \in 1 .. Cardinality(F)
      BY <2>1, <2>6, RankType DEF F
    <3>3. Cardinality(F) \in Nat
      BY <2>6, FS_CardinalityType
    <3>4. QED
      BY <3>1, <3>2, <3>3, FS_Subset DEF Rank
  <2>9. Rank(P, i) \in 1 .. Frequency[c] + 1 /\ Rank(P, i) <= Copies(c, L[i])
    BY <1>1, <2>3, <2>5, <2>7, <2>8 DEF P, F
  <2>10. QED
    BY <2>2, <2>9 DEF P
<1>3. ASSUME NEW i \in C PROVE f[i] \in N
  BY <1>2 DEF NodesOf
<1>4. \A i, j \in C : f[i] = f[j] => i = j
  <2> SUFFICES ASSUME NEW i \in C, NEW j \in C, f[i] = f[j] PROVE i = j
    OBVIOUS
  <2>1. L[i] = L[j] /\ Rank(Positions(L, L[i]), i) = Rank(Positions(L, L[j]), j)
    OBVIOUS
  <2> DEFINE P == Positions(L, L[i])
  <2>2. i \in P /\ j \in P /\ P \subseteq Nat /\ IsFiniteSet(P) /\ Rank(P, i) = Rank(P, j)
    BY <1>2, <2>1
  <2> HIDE DEF P
  <2>3. QED
    BY <2>2, RankInjective
<1>5. f \in [C -> N]
  BY <1>3
<1>6. IsFiniteSet(N) /\ Cardinality(N) \in Nat
  <2>1. Newest \in Nat /\ E \in SUBSET (1 .. Newest)
    BY LatestType, EvidenceIs
  <2> HIDE DEF E
  <2>2. QED
    BY <2>1, NodesOfFinite
<1> HIDE DEF f, N, C
<1>7. f \in Injection(C, N)
  BY <1>4, <1>5 DEF Injection, IsInjective
<1>8. Cardinality(C) <= Cardinality(N)
  BY <1>6, <1>7, FS_Injection
<1>9. Cardinality(N) >= Frequency[c] + 1
  BY <1>1, <1>6, <1>8
<1>10. QED
  BY <1>9 DEF N, C

(* Of an event counted, the newer evidence alone would not have been       *)
(* enough: its nodes are positions that fit and come later.                *)
LEMMA NoneToSpare ==
  ASSUME IInv, Shadow, NEW c \in Counting, NEW src, Found(c, src),
         NEW i \in Counted(c, src)
  PROVE  LET E == {List(c)[k] : k \in Counted(c, src)} IN
         Cardinality(NodesOf(c, {d \in E : d > List(c)[i]})) < Frequency[c] + 1
<1> DEFINE L == List(c)
           F == Fitting(c, src)
           C == Counted(c, src)
           E == {L[k] : k \in C}
           D == {d \in E : d > L[i]}
           N == NodesOf(c, D)
           T == {j \in F : j > i}
           f == [n \in N |-> CHOOSE p \in Positions(L, n[1]) :
                                Rank(Positions(L, n[1]), p) = n[2]]
<1>1. /\ i \in F /\ L \in Seq(Nat) /\ Sorted(L) /\ Frequency[c] \in Nat
      /\ F \subseteq Nat /\ IsFiniteSet(F) /\ F \subseteq 1 .. Len(L) /\ C \subseteq F
      /\ Newest \in Nat
  BY FittingIs, ListHolds, CountingIs, LatestType
<1>2. ASSUME NEW n \in N
      PROVE  /\ f[n] \in Positions(L, n[1]) /\ Rank(Positions(L, n[1]), f[n]) = n[2]
             /\ n = <<n[1], n[2]>>
             /\ Positions(L, n[1]) \subseteq Nat /\ IsFiniteSet(Positions(L, n[1]))
             /\ f[n] \in T
  <2> DEFINE P == Positions(L, n[1])
  <2>1. /\ n[1] \in D /\ n[2] \in 1 .. Frequency[c] + 1 /\ n = <<n[1], n[2]>>
        /\ n[2] <= Copies(c, n[1])
    BY DEF NodesOf
  <2>2. PICK q \in C : n[1] = L[q] /\ L[q] > L[i]
    BY <2>1
  <2>3. P \subseteq Nat /\ IsFiniteSet(P) /\ P \subseteq 1 .. Len(L)
    BY <1>1, PositionsFinite DEF Positions
  <2>4. Cardinality(P) = Copies(c, n[1]) /\ Copies(c, n[1]) \in Nat
    BY <2>2, EvidenceIs, ListHolds
  <2>5. n[2] \in 1 .. Cardinality(P)
    BY <1>1, <2>1, <2>4
  <2>6. \E p \in P : Rank(P, p) = n[2]
    <3> HIDE DEF P
    <3>1. QED
      BY <2>3, <2>5, RankOnto
  <2>7. f[n] \in P /\ Rank(P, f[n]) = n[2]
    BY <2>6
  <2> HIDE DEF f, F
  <2>8. f[n] \in 1 .. Len(L) /\ L[f[n]] = L[q]
    BY <2>2, <2>7 DEF Positions
  <2>9. i < f[n]
    <3>1. SUFFICES ASSUME f[n] <= i PROVE FALSE
      BY <1>1, <2>3, <2>7
    <3>2. L[f[n]] <= L[i]
      BY <1>1, <2>8, <3>1 DEF Sorted
    <3>3. L[q] \in Nat /\ L[i] \in Nat
      BY <1>1, ElementOfSeq
    <3>4. QED
      BY <2>2, <2>8, <3>2, <3>3
  <2>10. f[n] \in F
    <3>1. i <= f[n] /\ q \in F
      BY <1>1, <2>3, <2>7, <2>9
    <3>2. QED
      BY <1>1, <2>8, <3>1, FitsWithLater DEF F
  <2>11. QED
    BY <1>1, <2>1, <2>3, <2>7, <2>9, <2>10
<1>3. f \in [N -> T]
  BY <1>2
<1> HIDE DEF f, N
<1>4. \A m, n \in N : f[m] = f[n] => m = n
  <2> SUFFICES ASSUME NEW m \in N, NEW n \in N, f[m] = f[n] PROVE m = n
    OBVIOUS
  <2>1. f[m] \in Positions(L, m[1]) /\ f[n] \in Positions(L, n[1])
    BY <1>2
  <2>2. m[1] = n[1]
    BY <2>1 DEF Positions
  <2>3. m[2] = n[2]
    BY <1>2, <2>2
  <2>4. QED
    BY <1>2, <2>2, <2>3
<1>5. IsFiniteSet(T) /\ Cardinality(T) \in Nat /\ Cardinality(T) <= Frequency[c]
  <2>1. T \in SUBSET F
    OBVIOUS
  <2>2. IsFiniteSet(T) /\ Cardinality(T) \in Nat
    BY <1>1, <2>1, FS_Subset, FS_CardinalityType
  <2>3. Cardinality(T) <= Frequency[c]
    BY DEF Counted
  <2>4. QED
    BY <2>2, <2>3
<1>6. D \in SUBSET (1 .. Newest)
  BY EvidenceIs
<1> HIDE DEF f, T
<1>7. f \in Injection(N, T)
  BY <1>3, <1>4 DEF Injection, IsInjective
<1>8. Cardinality(N) \in Nat
  <2> HIDE DEF D
  <2>1. QED
    BY <1>1, <1>6, NodesOfFinite DEF N
<1>9. Cardinality(N) <= Cardinality(T)
  BY <1>5, <1>7, FS_Injection
<1>10. Cardinality(N) < Frequency[c] + 1
  BY <1>1, <1>5, <1>8, <1>9
<1>11. QED
  BY <1>10 DEF N

(* An alert earned stays so: what its evidence is does not change.         *)
LEMMA GrowthKeepsEarned ==
  ASSUME Grows(event, event'), NEW a \in alerts,
         \A e \in a.evidence : e \in 1 .. Newest, Earned(a)
  PROVE  Earned(a)'
<1>1. \A e \in a.evidence : /\ Copies(a.rule, e)' = Copies(a.rule, e)
                            /\ event'[e].time = event[e].time
                            /\ event'[e].src = event[e].src
  BY GrowthKeepsCopies DEF Grows, Newest
<1>2. ASSUME NEW E \in SUBSET a.evidence
      PROVE  NodesOf(a.rule, E)' = NodesOf(a.rule, E)
  BY <1>1 DEF NodesOf
<1>3. Cardinality(NodesOf(a.rule, a.evidence)') >= Frequency[a.rule] + 1
  BY <1>2 DEF Earned
<1>4. ASSUME NEW e \in a.evidence
      PROVE  Cardinality(NodesOf(a.rule, {d \in a.evidence : d > e})') < Frequency[a.rule] + 1
  <2> DEFINE E == {d \in a.evidence : d > e}
  <2>1. Cardinality(NodesOf(a.rule, E)) < Frequency[a.rule] + 1 /\ E \in SUBSET a.evidence
    BY DEF Earned
  <2> HIDE DEF E
  <2>2. Cardinality(NodesOf(a.rule, E)') < Frequency[a.rule] + 1
    BY <1>2, <2>1
  <2>3. QED
    BY <2>2 DEF E
<1>5. \A e \in a.evidence : /\ e < a.last
                            /\ a.time - event'[e].time <= Timeframe[a.rule]
                            /\ a.rule \in SameSource => event'[e].src = a.src
  BY <1>1 DEF Earned
<1>6. QED
  BY <1>3, <1>4, <1>5 DEF Earned

LEMMA NewAlertIsEarned ==
  ASSUME IInv, Shadow, NEW c \in Counting, NEW src, Found(c, src), NEW a,
         a.rule = c, a.src = src, a.time = c_time, a.last = Newest + 1,
         a.evidence = {List(c)[i] : i \in Counted(c, src)},
         Grows(event, event')
  PROVE  Earned(a)'
<1>1. Newest \in Nat /\ \A e \in a.evidence : e \in 1 .. Newest
  BY LatestType, EvidenceIs
<1>2. Cardinality(NodesOf(c, a.evidence)) >= Frequency[c] + 1
  BY EnoughEvidence
<1>3. ASSUME NEW e \in a.evidence
      PROVE  Cardinality(NodesOf(c, {d \in a.evidence : d > e})) < Frequency[c] + 1
  <2>1. PICK i \in Counted(c, src) : e = List(c)[i]
    OBVIOUS
  <2>2. QED
    BY <2>1, NoneToSpare
<1>4. ASSUME NEW e \in a.evidence
      PROVE  /\ e < a.last
             /\ a.time - event[e].time <= Timeframe[c]
             /\ c \in SameSource => event[e].src = a.src
  <2>1. PICK i \in Counted(c, src) : e = List(c)[i]
    OBVIOUS
  <2>2. i \in Reached(c) /\ i \in Fitting(c, src)
    BY FittingIs
  <2>3. c_time - event[e].time <= Timeframe[c]
    BY <2>1, <2>2, ReachedIs
  <2>4. c \in SameSource => event[e].src = src
    BY <2>1, <2>2 DEF Fitting
  <2>5. e < a.last
    <3>1. e \in Int /\ e <= Newest /\ Newest \in Nat
      BY <1>1
    <3>2. e < Newest + 1
      BY <3>1
    <3>3. QED
      BY <3>2
  <2>6. a.time - event[e].time <= Timeframe[c]
    BY <2>3
  <2>7. QED
    BY <2>4, <2>5, <2>6
<1>5. \A e \in a.evidence : /\ Copies(c, e)' = Copies(c, e)
                            /\ event'[e].time = event[e].time
                            /\ event'[e].src = event[e].src
  BY <1>1, GrowthKeepsCopies DEF Grows, Newest
<1>6. ASSUME NEW E \in SUBSET a.evidence
      PROVE  NodesOf(c, E)' = NodesOf(c, E)
  BY <1>5 DEF NodesOf
<1>7. Cardinality(NodesOf(c, a.evidence)') >= Frequency[c] + 1
  BY <1>2, <1>6
<1>8. ASSUME NEW e \in a.evidence
      PROVE  Cardinality(NodesOf(c, {d \in a.evidence : d > e})') < Frequency[c] + 1
  <2> DEFINE E == {d \in a.evidence : d > e}
  <2>1. Cardinality(NodesOf(c, E)) < Frequency[c] + 1 /\ E \in SUBSET a.evidence
    BY <1>3
  <2> HIDE DEF E
  <2>2. Cardinality(NodesOf(c, E)') < Frequency[c] + 1
    BY <1>6, <2>1
  <2>3. QED
    BY <2>2 DEF E
<1>9. \A e \in a.evidence : /\ e < a.last
                            /\ a.time - event'[e].time <= Timeframe[c]
                            /\ c \in SameSource => event'[e].src = a.src
  BY <1>4, <1>5
<1>10. QED
  BY <1>7, <1>8, <1>9 DEF Earned

LEMMA EarnedStep ==
  ASSUME IInv, Shadow, AlertsInv, AlertIsEarned, [Next]_vars
  PROVE  AlertIsEarned'
<1>1. Grows(event, event')
  BY ShadowInvariance
<1>2. ASSUME NEW a \in alerts PROVE Earned(a)'
  <2>1. Earned(a) /\ \A e \in a.evidence : e \in 1 .. Newest
    BY EarnedOfEach DEF AlertsInv
  <2>2. QED
    BY <1>1, <2>1, GrowthKeepsEarned
<1>3. CASE alerts' = alerts
  BY <1>2, <1>3, EarnedOfEachNext
<1>4. ASSUME NEW r \in Rules, NEW src \in Sources, ReceiveCounted(r, src), alerts' # alerts
      PROVE  AlertIsEarned'
  <2>1. PICK c \in Counting :
          /\ Found(c, src)
          /\ alerts' = alerts \cup
               {[rule |-> c, src |-> src, time |-> c_time, last |-> Newest + 1,
                 evidence |-> {List(c)[i] : i \in Counted(c, src)}]}
    BY <1>4, CountedIs
  <2>2. PICK b : b = [rule |-> c, src |-> src, time |-> c_time, last |-> Newest + 1,
                     evidence |-> {List(c)[i] : i \in Counted(c, src)}]
    OBVIOUS
  <2>3. /\ b.rule = c /\ b.src = src /\ b.time = c_time /\ b.last = Newest + 1
        /\ b.evidence = {List(c)[i] : i \in Counted(c, src)}
        /\ alerts' = alerts \cup {b}
    BY <2>1, <2>2
  <2>4. Earned(b)'
    BY <1>1, <2>1, <2>3, NewAlertIsEarned
  <2>5. \A a \in alerts' : Earned(a)'
    BY <1>2, <2>3, <2>4
  <2>6. QED
    BY <2>5, EarnedOfEachNext
<1>5. alerts' = alerts \/ \E r \in Rules, src \in Sources : ReceiveCounted(r, src)
  BY DEF Next, vars, Tick, ReceiveSingle, OS_AddEvent, RemoveOldest, EvictionDone
<1>6. QED
  BY <1>3, <1>4, <1>5

LEMMA AlertsHold ==
  Spec => [](IInv /\ Shadow /\ AlertsInv /\ AlertsShareNoEvidence /\ AlertIsEarned)
<1>1. Init => AlertsInv /\ AlertsShareNoEvidence /\ AlertIsEarned
  BY DEF Init, AlertsInv, AlertsShareNoEvidence, AlertIsEarned
<1>2. /\ IInv /\ Shadow /\ AlertsInv /\ AlertsShareNoEvidence /\ AlertIsEarned
      /\ [Next]_vars
      => AlertsInv' /\ AlertsShareNoEvidence' /\ AlertIsEarned'
  BY AlertsStep, EarnedStep
<1>3. QED
  BY <1>1, <1>2, ShadowHolds, PTL DEF Spec

(* A counting rule fires on earlier events within its timeframe and, when  *)
(* it asks for that, from the same source: on as many as its frequency     *)
(* asks for and no more, whatever was evicted, marked or ignored between.  *)
THEOREM AlertsAreEarned == Spec => []AlertIsEarned
<1>1. QED
  BY AlertsHold, PTL

(* Two alerts counted on one list share no event, unless the later one has *)
(* the higher level: the mark on the newest event of the list stops every  *)
(* later walk of a rule of no higher level, and once the memory has freed  *)
(* the event that carries it, nothing older is left to reach.              *)
THEOREM AlertsShareNothing == Spec => []AlertsShareNoEvidence
<1>1. QED
  BY AlertsHold, PTL
=============================================================================
