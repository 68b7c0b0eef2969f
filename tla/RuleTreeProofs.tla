--------------------------- MODULE RuleTreeProofs ---------------------------
(***************************************************************************)
(* Proofs about the tree of rules that analysisd reads (RuleTree) and      *)
(* walks for every event, for any rules, categories and responses and any  *)
(* number of rules read.                                                   *)
(*                                                                         *)
(* RulesInv and WalkIsByRules are not inductive.  What reading keeps is    *)
(* that every rule asked for rules read before it (ReadBefore), that every *)
(* node is below one of the rules its own asked for (NodesAsked), that a   *)
(* node without a child for such a rule has been left behind by the search *)
(* (Covered), and the order of the siblings (InOrder), which an            *)
(* overwriting that changes a level gives up.  The recursive functions of  *)
(* the model are shown to satisfy their equations, by induction over sets  *)
(* of numbers (UpTo, DownFrom), before anything is said of their values.   *)
(***************************************************************************)
EXTENDS Analysisd, EventMemoryProofs

(* Induction on the members of a set of naturals.                          *)
LEMMA UpTo ==
  ASSUME NEW n \in Nat, NEW P, 0 \in P, \A k \in 0 .. n - 1 : k \in P => k + 1 \in P
  PROVE  \A k \in 0 .. n : k \in P
<1> DEFINE out == {k \in 0 .. n : k \notin P}
<1>1. SUFFICES ASSUME out # {} PROVE FALSE
  OBVIOUS
<1>0. out \subseteq Nat
  OBVIOUS
<1>2. PICK m \in out : \A k \in out : m <= k
  <2> HIDE DEF out
  <2>1. QED
    BY <1>0, <1>1, LeastElement
<1>3. m \in 1 .. n /\ m - 1 \in 0 .. n - 1
  BY <1>2
<1>4. m - 1 \in P
  BY <1>2, <1>3
<1>5. m - 1 + 1 = m
  BY <1>3
<1>6. QED
  BY <1>2, <1>3, <1>4, <1>5

LEMMA DownFrom ==
  ASSUME NEW n \in Nat, NEW P,
         \A k \in 1 .. n : (\A j \in k + 1 .. n : j \in P) => k \in P
  PROVE  \A k \in 1 .. n : k \in P
<1> DEFINE Q == {d \in 0 .. n : \A j \in (n - d) + 1 .. n : j \in P}
<1>1. 0 \in Q
  OBVIOUS
<1>2. ASSUME NEW d \in 0 .. n - 1, d \in Q PROVE d + 1 \in Q
  <2>1. n - d \in 1 .. n /\ d + 1 \in 0 .. n
    OBVIOUS
  <2>2. \A j \in (n - d) + 1 .. n : j \in P
    BY <1>2
  <2>3. n - d \in P
    BY <2>1, <2>2
  <2>4. \A j \in (n - (d + 1)) + 1 .. n : j = n - d \/ j \in (n - d) + 1 .. n
    OBVIOUS
  <2>5. QED
    BY <2>1, <2>2, <2>3, <2>4
<1> HIDE DEF Q
<1>3. \A d \in 0 .. n : d \in Q
  BY <1>1, <1>2, UpTo
<1>4. n \in Q
  BY <1>3
<1>5. QED
  BY <1>4 DEF Q

LEMMA MinIs ==
  ASSUME NEW n \in Nat, NEW I, I \subseteq 1 .. n, I # {}
  PROVE  Min(I) \in I /\ \A k \in I : Min(I) <= k
<1>1. I \subseteq Nat
  OBVIOUS
<1>2. \E m \in I : \A k \in I : m <= k
  BY <1>1, LeastElement
<1>3. QED
  BY <1>2 DEF Min

LEMMA MaxIs ==
  ASSUME NEW n \in Nat, NEW I, I \subseteq 1 .. n, I # {}
  PROVE  Max(I) \in I /\ \A k \in I : Max(I) >= k
<1> DEFINE J == {d \in Nat : n - d \in I}
<1>1. \A k \in I : n - k \in J
  OBVIOUS
<1>2. J \subseteq Nat /\ J # {}
  BY <1>1
<1>3. PICK d \in J : \A k \in J : d <= k
  <2> HIDE DEF J
  <2>1. QED
    BY <1>2, LeastElement
<1>4. n - d \in I /\ d \in Nat
  OBVIOUS
<1>5. ASSUME NEW k \in I PROVE n - d >= k
  <2>1. d <= n - k
    BY <1>1, <1>3
  <2>2. QED
    BY <1>4, <2>1
<1>6. QED
  BY <1>4, <1>5 DEF Max

-----------------------------------------------------------------------------
(* Placing a node among its siblings.                                      *)

LEMMA InsertIs ==
  ASSUME NEW S, NEW c \in Seq(S), NEW n \in S, NEW k \in 1 .. Len(c)
  PROVE  /\ InsertAt(c, k, n) \in Seq(S)
         /\ Len(InsertAt(c, k, n)) = Len(c) + 1
         /\ \A i \in 1 .. Len(c) + 1 :
              InsertAt(c, k, n)[i] = IF i < k THEN c[i] ELSE IF i = k THEN n ELSE c[i - 1]
<1> DEFINE a == SubSeq(c, 1, k - 1)
           b == SubSeq(c, k, Len(c))
<1>0. Len(c) \in Nat /\ \A i \in 1 .. Len(c) : c[i] \in S
  BY ElementOfSeq, LenProperties
<1>1. a \in Seq(S) /\ Len(a) = k - 1 /\ \A i \in 1 .. k - 1 : a[i] = c[i]
  BY <1>0, SubSeqProperties
<1>2. b \in Seq(S) /\ Len(b) = Len(c) - k + 1 /\ \A i \in 1 .. Len(c) - k + 1 : b[i] = c[k + i - 1]
  BY <1>0, SubSeqProperties
<1>3. <<n>> \in Seq(S) /\ Len(<<n>>) = 1 /\ <<n>>[1] = n
  OBVIOUS
<1> DEFINE d == a \o <<n>>
<1> HIDE DEF a, b
<1>4. d \in Seq(S) /\ Len(d) = k
      /\ \A i \in 1 .. k : d[i] = IF i < k THEN c[i] ELSE n
  <2>1. d \in Seq(S) /\ Len(d) = Len(a) + 1
        /\ \A i \in 1 .. Len(a) + 1 : d[i] = IF i <= Len(a) THEN a[i] ELSE <<n>>[i - Len(a)]
    BY <1>1, <1>3, ConcatProperties
  <2>2. QED
    BY <1>0, <1>1, <1>3, <2>1
<1> HIDE DEF d
<1>5. d \o b \in Seq(S) /\ Len(d \o b) = Len(d) + Len(b)
      /\ \A i \in 1 .. Len(d) + Len(b) : (d \o b)[i] = IF i <= Len(d) THEN d[i] ELSE b[i - Len(d)]
  BY <1>2, <1>4, ConcatProperties
<1>6. InsertAt(c, k, n) = d \o b
  BY DEF InsertAt, a, b, d
<1>7. ASSUME NEW i \in 1 .. Len(c) + 1
      PROVE  (d \o b)[i] = IF i < k THEN c[i] ELSE IF i = k THEN n ELSE c[i - 1]
  <2>1. CASE i <= k
    BY <1>0, <1>2, <1>4, <1>5, <2>1
  <2>2. CASE i > k
    <3>1. (d \o b)[i] = b[i - k] /\ i - k \in 1 .. Len(c) - k + 1
      BY <1>0, <1>2, <1>4, <1>5, <2>2
    <3>2. b[i - k] = c[k + (i - k) - 1]
      BY <1>2, <3>1
    <3>3. k + (i - k) - 1 = i - 1
      BY <1>0
    <3>4. QED
      BY <2>2, <3>1, <3>2, <3>3
  <2>3. i \in Int /\ k \in Int
    BY <1>0
  <2>4. i <= k \/ i > k
    BY <2>3
  <2>5. QED
    BY <2>1, <2>2, <2>4
<1>8. QED
  BY <1>0, <1>2, <1>4, <1>5, <1>6, <1>7

(* Sequence d is c with n at place k.                                      *)
Inserted(c, k, n, d) ==
  /\ Len(d) = Len(c) + 1
  /\ \A i \in 1 .. Len(c) + 1 :
       d[i] = IF i < k THEN c[i] ELSE IF i = k THEN n ELSE c[i - 1]

LEMMA AddRuleIs ==
  ASSUME NEW S, NEW c \in Seq(S), NEW n \in S, NEW rule, NEW levelOf
  PROVE  /\ Tree!OS_AddRule(rule, c, n, levelOf) \in Seq(S)
         /\ \E k \in 1 .. Len(c) + 1 :
              /\ Inserted(c, k, n, Tree!OS_AddRule(rule, c, n, levelOf))
              /\ \A i \in 1 .. k - 1 : ~ (levelOf[rule[n]] > levelOf[rule[c[i]]])
              /\ k <= Len(c) => levelOf[rule[n]] > levelOf[rule[c[k]]]
<1> DEFINE I == {i \in 1 .. Len(c) : levelOf[rule[n]] > levelOf[rule[c[i]]]}
           d == Tree!OS_AddRule(rule, c, n, levelOf)
<1>0. Len(c) \in Nat
  BY LenProperties
<1>1. CASE I = {}
  <2>1. d = Append(c, n)
    BY <1>1 DEF Tree!OS_AddRule, Tree!SelectInSeq
  <2>2. /\ Append(c, n) \in Seq(S)
        /\ Len(Append(c, n)) = Len(c) + 1
        /\ \A i \in 1 .. Len(c) : Append(c, n)[i] = c[i]
        /\ Append(c, n)[Len(c) + 1] = n
    BY AppendProperties
  <2>3. Inserted(c, Len(c) + 1, n, d) /\ d \in Seq(S)
    BY <1>0, <2>1, <2>2 DEF Inserted
  <2>4. \A i \in 1 .. Len(c) : ~ (levelOf[rule[n]] > levelOf[rule[c[i]]])
    BY <1>1
  <2>5. QED
    <3>1. Len(c) + 1 \in 1 .. Len(c) + 1 /\ ~ (Len(c) + 1 <= Len(c)) /\ Len(c) + 1 - 1 = Len(c)
      BY <1>0
    <3>2. QED
      BY <2>3, <2>4, <3>1
<1>2. CASE I # {}
  <2>1. Min(I) \in I /\ \A k \in I : Min(I) <= k
    BY <1>0, <1>2, MinIs
  <2>2. d = Tree!InsertAt(c, Min(I), n)
    <3>1. Min(I) # 0
      BY <2>1
    <3>2. QED
      BY <1>2, <3>1 DEF Tree!OS_AddRule, Tree!SelectInSeq, Tree!Min, Min
  <2>3. PICK k : k = Min(I)
    OBVIOUS
  <2>4. k \in 1 .. Len(c) /\ levelOf[rule[n]] > levelOf[rule[c[k]]]
    BY <2>1, <2>3
  <2>5. Inserted(c, k, n, d) /\ d \in Seq(S)
    <3>1. d = InsertAt(c, k, n)
      BY <2>2, <2>3 DEF Tree!InsertAt, InsertAt
    <3> HIDE DEF d
    <3>2. QED
      BY <2>4, <3>1, InsertIs DEF Inserted
  <2>6. ASSUME NEW i \in 1 .. k - 1 PROVE ~ (levelOf[rule[n]] > levelOf[rule[c[i]]])
    <3>1. i \in 1 .. Len(c) /\ ~ (k <= i)
      BY <1>0, <2>4
    <3>2. QED
      BY <2>1, <2>3, <3>1
  <2>7. k \in 1 .. Len(c) + 1
    BY <1>0, <2>4
  <2>8. QED
    BY <2>4, <2>5, <2>6, <2>7
<1>3. QED
  BY <1>1, <1>2

-----------------------------------------------------------------------------
(* The operators of RuleTree that are copies of those of the libraries.    *)

LEMMA SameCardinality == \A S : Tree!Cardinality(S) = Cardinality(S)
<1>1. ASSUME NEW S PROVE Tree!Cardinality(S) = Cardinality(S)
  BY DEF Tree!Cardinality, Cardinality
<1>2. QED
  BY <1>1

(* A node with those above it: the recursion has a solution, which is      *)
(* built from the top of the tree down.                                    *)
LEMMA PathIs ==
  ASSUME NEW t, NEW N \in Nat, DOMAIN t.rule = 1 .. N, t.up \in [1 .. N -> 0 .. N],
         \A n \in 1 .. N : t.up[n] < n
  PROVE  \A n \in 1 .. N :
           Tree!Path(t)[n] = {n} \cup (IF t.up[n] = 0 THEN {} ELSE Tree!Path(t)[t.up[n]])
<1> DEFINE Step(f, n) == {n} \cup (IF t.up[n] = 0 THEN {} ELSE f[t.up[n]])
           Good(f, k) == /\ f \in [1 .. k -> SUBSET (1 .. N)]
                         /\ \A n \in 1 .. k : f[n] = Step(f, n)
           Has == {k \in 0 .. N : \E f : Good(f, k)}
<1>1. 0 \in Has
  <2> DEFINE g == [n \in 1 .. 0 |-> {}]
  <2>1. Good(g, 0)
    OBVIOUS
  <2> HIDE DEF g, Good
  <2>2. QED
    BY <2>1
<1>2. ASSUME NEW k \in 0 .. N - 1, k \in Has PROVE k + 1 \in Has
  <2>1. PICK f : Good(f, k)
    BY <1>2
  <2> DEFINE g == [n \in 1 .. k + 1 |-> Step(f, n)]
  <2>2. ASSUME NEW n \in 1 .. k + 1
        PROVE  g[n] = Step(g, n) /\ g[n] \in SUBSET (1 .. N)
    <3>1. n \in 1 .. N /\ g[n] = Step(f, n)
      OBVIOUS
    <3>2. CASE t.up[n] = 0
      BY <3>1, <3>2
    <3>3. CASE t.up[n] # 0
      <4>1. t.up[n] \in 1 .. k /\ t.up[n] \in 1 .. k + 1
        BY <3>1, <3>3
      <4>2. f[t.up[n]] = Step(f, t.up[n]) /\ f[t.up[n]] \in SUBSET (1 .. N)
        BY <2>1, <4>1
      <4>3. g[t.up[n]] = Step(f, t.up[n])
        BY <4>1
      <4>4. QED
        BY <3>1, <3>3, <4>2, <4>3
    <3>4. QED
      BY <3>2, <3>3
  <2>3. DOMAIN g = 1 .. k + 1 /\ g = [n \in 1 .. k + 1 |-> g[n]]
    OBVIOUS
  <2> HIDE DEF g
  <2>4. Good(g, k + 1)
    BY <2>2, <2>3
  <2>5. k + 1 \in 0 .. N
    OBVIOUS
  <2> HIDE DEF Good
  <2>6. QED
    BY <2>4, <2>5
<1> HIDE DEF Has
<1>3. \A k \in 0 .. N : k \in Has
  BY <1>1, <1>2, UpTo
<1>4. PICK h : Good(h, N)
  <2>1. N \in Has
    BY <1>3
  <2>2. QED
    BY <2>1 DEF Has
<1>5. h = [n \in 1 .. N |-> Step(h, n)]
  BY <1>4
<1>6. Tree!Path(t) = CHOOSE f : f = [n \in 1 .. N |-> Step(f, n)]
  BY DEF Tree!Path
<1>7. PICK f : f = Tree!Path(t) /\ f = [n \in 1 .. N |-> Step(f, n)]
  BY <1>5, <1>6
<1>8. \A n \in 1 .. N : f[n] = Step(f, n)
  BY <1>7
<1>9. QED
  BY <1>7, <1>8

LEMMA SeqOfLarger ==
  ASSUME NEW S, NEW T, S \subseteq T, NEW c \in Seq(S)
  PROVE  c \in Seq(T)
<1>1. Len(c) \in Nat /\ \A i \in 1 .. Len(c) : c[i] \in T
  BY LenProperties, ElementOfSeq
<1>2. c = [i \in 1 .. Len(c) |-> c[i]]
  BY LenProperties
<1>3. QED
  BY <1>1, <1>2, IsASeq

-----------------------------------------------------------------------------
(* The shape of a tree over the rules K: every node is once among the      *)
(* children of its parent, which is older.                                 *)
Shape(t, K) ==
  /\ t.rule \in Seq(K)
  /\ t.up \in [1 .. Len(t.rule) -> 0 .. Len(t.rule)]
  /\ t.child \in [0 .. Len(t.rule) -> Seq(1 .. Len(t.rule))]
  /\ \A n \in 1 .. Len(t.rule) :
       /\ t.up[n] < n
       /\ \E k \in 1 .. Len(t.child[t.up[n]]) : t.child[t.up[n]][k] = n
  /\ \A m \in 0 .. Len(t.rule) : \A j, k \in 1 .. Len(t.child[m]) :
       /\ t.up[t.child[m][j]] = m
       /\ t.child[m][j] = t.child[m][k] => j = k

(* Tree u is tree t with a node n for rule s below node m.                 *)
HasBelow(t, u, m, n, s, levelOf) ==
  \E k \in 1 .. Len(t.child[m]) + 1 :
    /\ Inserted(t.child[m], k, n, u.child[m])
    /\ \A i \in 1 .. k - 1 : ~ (levelOf[s] > levelOf[t.rule[t.child[m][i]]])
    /\ k <= Len(t.child[m]) => levelOf[s] > levelOf[t.rule[t.child[m][k]]]

GrownBy(t, u, parents, s, levelOf) ==
  /\ Len(t.rule) <= Len(u.rule)
  /\ \A n \in 1 .. Len(t.rule) : u.rule[n] = t.rule[n] /\ u.up[n] = t.up[n]
  /\ \A n \in Len(t.rule) + 1 .. Len(u.rule) :
       /\ u.rule[n] = s /\ u.up[n] \in parents
       /\ u.child[n] = <<>>
       /\ HasBelow(t, u, u.up[n], n, s, levelOf)
  /\ \A n, x \in Len(t.rule) + 1 .. Len(u.rule) : u.up[n] = u.up[x] => n = x
  /\ \A m \in parents : \E n \in Len(t.rule) + 1 .. Len(u.rule) : u.up[n] = m
  /\ \A m \in (0 .. Len(t.rule)) \ parents : u.child[m] = t.child[m]

LEMMA ShapeIs ==
  ASSUME NEW t, NEW K, Shape(t, K)
  PROVE  /\ Len(t.rule) \in Nat
         /\ DOMAIN t.rule = 1 .. Len(t.rule)
         /\ \A n \in 1 .. Len(t.rule) : t.rule[n] \in K /\ t.up[n] \in 0 .. Len(t.rule)
         /\ \A m \in 0 .. Len(t.rule) :
              /\ t.child[m] \in Seq(1 .. Len(t.rule))
              /\ Len(t.child[m]) \in Nat
              /\ DOMAIN t.child[m] = 1 .. Len(t.child[m])
              /\ \A k \in 1 .. Len(t.child[m]) : t.child[m][k] \in 1 .. Len(t.rule)
<1>1. t.rule \in Seq(K)
  BY DEF Shape
<1>2. Len(t.rule) \in Nat /\ DOMAIN t.rule = 1 .. Len(t.rule)
  BY <1>1, LenProperties
<1>3. \A n \in 1 .. Len(t.rule) : t.rule[n] \in K
  BY <1>1, ElementOfSeq
<1>4. \A n \in 1 .. Len(t.rule) : t.up[n] \in 0 .. Len(t.rule)
  BY DEF Shape
<1>5. \A m \in 0 .. Len(t.rule) : t.child[m] \in Seq(1 .. Len(t.rule))
  BY DEF Shape
<1>6. ASSUME NEW m \in 0 .. Len(t.rule)
      PROVE  /\ Len(t.child[m]) \in Nat
             /\ DOMAIN t.child[m] = 1 .. Len(t.child[m])
             /\ \A k \in 1 .. Len(t.child[m]) : t.child[m][k] \in 1 .. Len(t.rule)
  <2>1. t.child[m] \in Seq(1 .. Len(t.rule))
    BY <1>5
  <2>2. QED
    BY <2>1, LenProperties, ElementOfSeq
<1>7. QED
  BY <1>2, <1>3, <1>4, <1>5, <1>6

(* The new nodes are one for each parent.                                  *)
LEMMA NewNodeIs ==
  ASSUME NEW t, NEW N \in Nat, N = Len(t.rule), NEW parents \in SUBSET (0 .. N)
  PROVE  /\ Tree!Cardinality(parents) \in Nat
         /\ \A m \in parents :
              Tree!NewNode(t, parents, m) \in N + 1 .. N + Tree!Cardinality(parents)
         /\ \A m, q \in parents :
              Tree!NewNode(t, parents, m) = Tree!NewNode(t, parents, q) => m = q
         /\ \A n \in N + 1 .. N + Tree!Cardinality(parents) :
              \E m \in parents : Tree!NewNode(t, parents, m) = n
<1>1. IsFiniteSet(parents) /\ parents \subseteq Nat
  <2>1. IsFiniteSet(0 .. N)
    BY FS_Interval
  <2>2. IsFiniteSet(parents)
    BY <2>1, FS_Subset
  <2>3. QED
    BY <2>2
<1>2. Cardinality(parents) \in Nat /\ Tree!Cardinality(parents) = Cardinality(parents)
  BY <1>1, FS_CardinalityType, SameCardinality
<1>3. ASSUME NEW m \in parents
      PROVE  /\ Tree!NewNode(t, parents, m) = N + Rank(parents, m)
             /\ Rank(parents, m) \in 1 .. Cardinality(parents)
  BY <1>1, SameCardinality, RankType DEF Tree!NewNode, Rank, FromOn
<1>4. \A m, q \in parents : Rank(parents, m) = Rank(parents, q) => m = q
  BY <1>1, RankInjective
<1>5. \A i \in 1 .. Cardinality(parents) : \E m \in parents : Rank(parents, m) = i
  BY <1>1, RankOnto
<1>6. \A m \in parents : Tree!NewNode(t, parents, m) \in N + 1 .. N + Cardinality(parents)
  BY <1>2, <1>3
<1>7. \A m, q \in parents :
        Tree!NewNode(t, parents, m) = Tree!NewNode(t, parents, q) => m = q
  BY <1>2, <1>3, <1>4
<1>8. ASSUME NEW n \in N + 1 .. N + Cardinality(parents)
      PROVE  \E m \in parents : Tree!NewNode(t, parents, m) = n
  <2>1. n - N \in 1 .. Cardinality(parents)
    BY <1>2
  <2>2. PICK m \in parents : Rank(parents, m) = n - N
    BY <1>5, <2>1
  <2>3. N + (n - N) = n
    BY <1>2
  <2>4. QED
    BY <1>3, <2>2, <2>3
<1>9. QED
  BY <1>2, <1>6, <1>7, <1>8

LEMMA BelowIs ==
  ASSUME NEW t, NEW K, Shape(t, K), NEW parents \in SUBSET (0 .. Len(t.rule)),
         NEW s, NEW levelOf, NEW u, u = Tree!AddBelow(t, parents, s, levelOf)
  PROVE  /\ GrownBy(t, u, parents, s, levelOf)
         /\ u.rule \in Seq(K \cup {s})
         /\ u.up \in [1 .. Len(u.rule) -> 0 .. Len(u.rule)]
         /\ u.child \in [0 .. Len(u.rule) -> Seq(1 .. Len(u.rule))]
<1> DEFINE N == Len(t.rule)
           M == N + Tree!Cardinality(parents)
           new(m) == Tree!NewNode(t, parents, m)
           rule == [k \in 1 .. M |-> IF k <= N THEN t.rule[k] ELSE s]
<1>1. N \in Nat
  BY ShapeIs
<1>2. /\ M \in Nat /\ N <= M
      /\ \A m \in parents : new(m) \in N + 1 .. M
      /\ \A m, q \in parents : new(m) = new(q) => m = q
      /\ \A n \in N + 1 .. M : \E m \in parents : new(m) = n
  <2> HIDE DEF N
  <2>1. /\ Tree!Cardinality(parents) \in Nat
        /\ \A m \in parents : new(m) \in N + 1 .. M
        /\ \A m, q \in parents : new(m) = new(q) => m = q
        /\ \A n \in N + 1 .. M : \E m \in parents : new(m) = n
    BY <1>1, NewNodeIs, ZenonT(60) DEF N
  <2>2. QED
    BY <1>1, <2>1
<1>3. /\ u.rule = rule
      /\ u.up = [k \in 1 .. M |-> IF k <= N THEN t.up[k]
                                  ELSE CHOOSE m \in parents : new(m) = k]
      /\ u.child = [m \in 0 .. M |->
                      IF m \in parents
                        THEN Tree!OS_AddRule(rule, t.child[m], new(m), levelOf)
                      ELSE IF m <= N THEN t.child[m] ELSE <<>>]
  BY DEF Tree!AddBelow
<1>4. /\ \A n \in 1 .. N : t.rule[n] \in K /\ t.up[n] \in 0 .. N
      /\ \A m \in 0 .. N : t.child[m] \in Seq(1 .. N)
      /\ \A m \in 0 .. N : \A k \in 1 .. Len(t.child[m]) : t.child[m][k] \in 1 .. N
      /\ \A m \in 0 .. N : Len(t.child[m]) \in Nat
  BY ShapeIs
<1> HIDE DEF N, M, new
<1>5. rule \in [1 .. M -> K \cup {s}]
  BY <1>1, <1>2, <1>4
<1>6. u.rule \in Seq(K \cup {s}) /\ Len(u.rule) = M
  <2>1. \A k \in 1 .. M : rule[k] \in K \cup {s}
    BY <1>5
  <2>2. rule = [k \in 1 .. M |-> rule[k]]
    BY <1>5
  <2> HIDE DEF rule
  <2>3. rule \in Seq(K \cup {s}) /\ Len(rule) = M
    BY <1>2, <2>1, <2>2, IsASeq
  <2>4. QED
    BY <1>3, <2>3
<1>7. /\ \A n \in 1 .. N : u.rule[n] = t.rule[n] /\ u.up[n] = t.up[n]
      /\ \A n \in N + 1 .. M : u.rule[n] = s
  BY <1>1, <1>2, <1>3
<1>8. ASSUME NEW n \in N + 1 .. M
      PROVE  u.up[n] \in parents /\ new(u.up[n]) = n
  <2>1. \E m \in parents : new(m) = n
    BY <1>2
  <2>2. u.up[n] = CHOOSE m \in parents : new(m) = n
    BY <1>1, <1>2, <1>3
  <2>3. QED
    BY <2>1, <2>2
<1>9. \A m \in parents : u.up[new(m)] = m
  BY <1>2, <1>8
<1>10. ASSUME NEW m \in parents
       PROVE  /\ u.child[m] \in Seq(1 .. M)
              /\ HasBelow(t, u, m, new(m), s, levelOf)
  <2>1. m \in 0 .. N /\ m \in 0 .. M
    BY <1>1, <1>2 DEF N
  <2>2. t.child[m] \in Seq(1 .. M)
    <3>1. t.child[m] \in Seq(1 .. N) /\ 1 .. N \subseteq 1 .. M
      BY <1>1, <1>2, <1>4, <2>1
    <3>2. QED
      BY <3>1, SeqOfLarger
  <2>3. new(m) \in 1 .. M
    BY <1>1, <1>2
  <2>4. u.child[m] = Tree!OS_AddRule(rule, t.child[m], new(m), levelOf)
    BY <1>3, <2>1
  <2>5. rule[new(m)] = s /\ \A k \in 1 .. N : rule[k] = t.rule[k]
    BY <1>1, <1>2, <1>3, <1>7
  <2> HIDE DEF rule
  <2>6. /\ u.child[m] \in Seq(1 .. M)
        /\ \E k \in 1 .. Len(t.child[m]) + 1 :
             /\ Inserted(t.child[m], k, new(m), u.child[m])
             /\ \A i \in 1 .. k - 1 : ~ (levelOf[rule[new(m)]] > levelOf[rule[t.child[m][i]]])
             /\ k <= Len(t.child[m]) => levelOf[rule[new(m)]] > levelOf[rule[t.child[m][k]]]
    <3>1. PICK n, c, S : n = new(m) /\ c = t.child[m] /\ S = 1 .. M
      OBVIOUS
    <3>2. n \in S /\ c \in Seq(S) /\ u.child[m] = Tree!OS_AddRule(rule, c, n, levelOf)
      BY <2>2, <2>3, <2>4, <3>1
    <3>3. /\ u.child[m] \in Seq(S)
          /\ \E k \in 1 .. Len(c) + 1 :
               /\ Inserted(c, k, n, u.child[m])
               /\ \A i \in 1 .. k - 1 : ~ (levelOf[rule[n]] > levelOf[rule[c[i]]])
               /\ k <= Len(c) => levelOf[rule[n]] > levelOf[rule[c[k]]]
      BY <3>2, AddRuleIs
    <3>4. QED
      BY <3>1, <3>3
  <2>7. PICK k \in 1 .. Len(t.child[m]) + 1 :
             /\ Inserted(t.child[m], k, new(m), u.child[m])
             /\ \A i \in 1 .. k - 1 : ~ (levelOf[rule[new(m)]] > levelOf[rule[t.child[m][i]]])
             /\ k <= Len(t.child[m]) => levelOf[rule[new(m)]] > levelOf[rule[t.child[m][k]]]
    BY <2>6
  <2>8. Len(t.child[m]) \in Nat
    BY <1>4, <2>1
  <2>9. \A i \in 1 .. Len(t.child[m]) : rule[t.child[m][i]] = t.rule[t.child[m][i]]
    BY <1>4, <2>1, <2>5
  <2>10. \A i \in 1 .. k - 1 : ~ (levelOf[s] > levelOf[t.rule[t.child[m][i]]])
    <3>1. \A i \in 1 .. k - 1 : i \in 1 .. Len(t.child[m])
      BY <2>8
    <3>2. QED
      BY <2>5, <2>7, <2>9, <3>1
  <2>11. k <= Len(t.child[m]) => levelOf[s] > levelOf[t.rule[t.child[m][k]]]
    BY <2>5, <2>7, <2>8, <2>9
  <2>12. QED
    BY <2>6, <2>7, <2>10, <2>11 DEF HasBelow
<1>11. \A m \in (0 .. N) \ parents : u.child[m] = t.child[m]
  BY <1>1, <1>2, <1>3
<1>12. \A m \in N + 1 .. M : u.child[m] = <<>>
  <2>1. \A m \in N + 1 .. M : m \notin parents /\ ~ (m <= N) /\ m \in 0 .. M
    BY <1>1, <1>2 DEF N
  <2>2. QED
    BY <1>3, <2>1
<1>13. GrownBy(t, u, parents, s, levelOf)
  <2>1. \A n \in N + 1 .. M : HasBelow(t, u, u.up[n], n, s, levelOf)
    BY <1>8, <1>10
  <2>2. \A m \in parents : \E n \in N + 1 .. M : u.up[n] = m
    BY <1>2, <1>9
  <2>3. \A n, x \in N + 1 .. M : u.up[n] = u.up[x] => n = x
    BY <1>8
  <2>4. QED
    BY <1>2, <1>6, <1>7, <1>8, <1>11, <1>12, <2>1, <2>2, <2>3 DEF GrownBy, N
<1>14. u.up \in [1 .. M -> 0 .. M]
  <2>1. \A n \in 1 .. M : u.up[n] \in 0 .. M
    <3>1. \A n \in 1 .. M : n \in 1 .. N \/ n \in N + 1 .. M
      BY <1>1, <1>2
    <3>2. \A n \in 1 .. N : u.up[n] \in 0 .. M
      <4>1. \A n \in 1 .. N : u.up[n] \in 0 .. N
        BY <1>4, <1>7
      <4>2. 0 .. N \subseteq 0 .. M
        BY <1>1, <1>2
      <4>3. QED
        BY <4>1, <4>2
    <3>3. \A m \in parents : m \in 0 .. M
      BY <1>1, <1>2 DEF N
    <3>4. QED
      BY <1>8, <3>1, <3>2, <3>3
  <2>2. u.up = [k \in 1 .. M |-> u.up[k]]
    BY <1>3
  <2>3. QED
    BY <2>1, <2>2
<1>15. u.child \in [0 .. M -> Seq(1 .. M)]
  <2>1. ASSUME NEW m \in 0 .. M PROVE u.child[m] \in Seq(1 .. M)
    <3>1. CASE m \in parents
      BY <1>10, <3>1
    <3>2. CASE m \in (0 .. N) \ parents
      <4>1. t.child[m] \in Seq(1 .. N) /\ 1 .. N \subseteq 1 .. M
        BY <1>1, <1>2, <1>4, <3>2
      <4>2. t.child[m] \in Seq(1 .. M)
        BY <4>1, SeqOfLarger
      <4>3. QED
        BY <1>11, <3>2, <4>2
    <3>3. CASE m \in N + 1 .. M
      BY <1>12, <3>3, EmptySeq
    <3>4. QED
      BY <1>1, <1>2, <3>1, <3>2, <3>3
  <2>2. u.child = [m \in 0 .. M |-> u.child[m]]
    BY <1>3
  <2>3. QED
    BY <2>1, <2>2
<1>16. QED
  BY <1>6, <1>13, <1>14, <1>15

LEMMA InsertedIs ==
  ASSUME NEW c, NEW d, NEW n, NEW k \in 1 .. Len(c) + 1, Len(c) \in Nat, Inserted(c, k, n, d)
  PROVE  /\ Len(d) = Len(c) + 1 /\ k \in 1 .. Len(d) /\ d[k] = n
         /\ \A i \in 1 .. Len(c) : i < k => i \in 1 .. Len(d) /\ d[i] = c[i]
         /\ \A i \in 1 .. Len(c) : ~ (i < k) => i + 1 \in 1 .. Len(d) /\ d[i + 1] = c[i]
         /\ \A j \in 1 .. Len(d) : \/ j < k /\ j \in 1 .. Len(c) /\ d[j] = c[j]
                                   \/ j = k
                                   \/ j > k /\ j - 1 \in 1 .. Len(c) /\ d[j] = c[j - 1]
<1>1. /\ Len(d) = Len(c) + 1
      /\ \A i \in 1 .. Len(c) + 1 :
           d[i] = IF i < k THEN c[i] ELSE IF i = k THEN n ELSE c[i - 1]
  BY DEF Inserted
<1>2. k \in 1 .. Len(d) /\ d[k] = n
  BY <1>1
<1>3. \A i \in 1 .. Len(c) : i < k => i \in 1 .. Len(d) /\ d[i] = c[i]
  BY <1>1
<1>4. ASSUME NEW i \in 1 .. Len(c), ~ (i < k)
      PROVE  i + 1 \in 1 .. Len(d) /\ d[i + 1] = c[i]
  <2>1. i + 1 \in 1 .. Len(c) + 1 /\ ~ (i + 1 < k) /\ i + 1 # k /\ (i + 1) - 1 = i
    BY <1>4
  <2>2. QED
    BY <1>1, <2>1
<1>5. ASSUME NEW j \in 1 .. Len(d)
      PROVE  \/ j < k /\ j \in 1 .. Len(c) /\ d[j] = c[j]
             \/ j = k
             \/ j > k /\ j - 1 \in 1 .. Len(c) /\ d[j] = c[j - 1]
  <2>1. CASE j < k
    BY <1>1, <2>1
  <2>2. CASE j > k
    BY <1>1, <2>2
  <2>3. QED
    BY <1>1, <2>1, <2>2
<1>6. QED
  BY <1>1, <1>2, <1>3, <1>4, <1>5

(* The children of m in u are those in t and, at place k, n.               *)
PlacedAt(t, u, m, n, s, levelOf, k) ==
  /\ Len(u.child[m]) = Len(t.child[m]) + 1
  /\ u.child[m][k] = n
  /\ \A i \in 1 .. Len(t.child[m]) :
       i < k => i \in 1 .. Len(u.child[m]) /\ u.child[m][i] = t.child[m][i]
  /\ \A i \in 1 .. Len(t.child[m]) :
       ~ (i < k) => i + 1 \in 1 .. Len(u.child[m]) /\ u.child[m][i + 1] = t.child[m][i]
  /\ \A j \in 1 .. Len(u.child[m]) :
       \/ j < k /\ j \in 1 .. Len(t.child[m]) /\ u.child[m][j] = t.child[m][j]
       \/ j = k
       \/ j > k /\ j - 1 \in 1 .. Len(t.child[m]) /\ u.child[m][j] = t.child[m][j - 1]
  /\ \A i \in 1 .. k - 1 : ~ (levelOf[s] > levelOf[t.rule[t.child[m][i]]])
  /\ k <= Len(t.child[m]) => levelOf[s] > levelOf[t.rule[t.child[m][k]]]

LEMMA PlacedBelow ==
  ASSUME NEW t, NEW u, NEW m, NEW n, NEW s, NEW levelOf,
         Len(t.child[m]) \in Nat, HasBelow(t, u, m, n, s, levelOf)
  PROVE  \E k \in 1 .. Len(u.child[m]) : PlacedAt(t, u, m, n, s, levelOf, k)
<1>1. PICK c, d : c = t.child[m] /\ d = u.child[m]
  OBVIOUS
<1>2. PICK k \in 1 .. Len(c) + 1 :
        /\ Inserted(c, k, n, d)
        /\ \A i \in 1 .. k - 1 : ~ (levelOf[s] > levelOf[t.rule[c[i]]])
        /\ k <= Len(c) => levelOf[s] > levelOf[t.rule[c[k]]]
  BY <1>1 DEF HasBelow
<1>3. Len(c) \in Nat
  BY <1>1
<1>4. /\ Len(d) = Len(c) + 1 /\ k \in 1 .. Len(d) /\ d[k] = n
      /\ \A i \in 1 .. Len(c) : i < k => i \in 1 .. Len(d) /\ d[i] = c[i]
      /\ \A i \in 1 .. Len(c) : ~ (i < k) => i + 1 \in 1 .. Len(d) /\ d[i + 1] = c[i]
      /\ \A j \in 1 .. Len(d) : \/ j < k /\ j \in 1 .. Len(c) /\ d[j] = c[j]
                                \/ j = k
                                \/ j > k /\ j - 1 \in 1 .. Len(c) /\ d[j] = c[j - 1]
  BY <1>2, <1>3, InsertedIs
<1>5. PlacedAt(t, u, m, n, s, levelOf, k) /\ k \in 1 .. Len(u.child[m])
  BY <1>1, <1>2, <1>4 DEF PlacedAt
<1>6. QED
  BY <1>5

(* What a tree that has grown is like, whichever parents got a node.       *)
LEMMA GrownIs ==
  ASSUME NEW t, NEW u, NEW K, Shape(t, K), NEW parents \in SUBSET (0 .. Len(t.rule)),
         NEW s, NEW levelOf, GrownBy(t, u, parents, s, levelOf), Len(u.rule) \in Nat
  PROVE  /\ \A m \in parents : \E n \in Len(t.rule) + 1 .. Len(u.rule) :
              u.up[n] = m /\ HasBelow(t, u, m, n, s, levelOf)
         /\ \A m \in 0 .. Len(u.rule) :
              \/ m \in parents
              \/ m \in 0 .. Len(t.rule) /\ u.child[m] = t.child[m]
              \/ m \in Len(t.rule) + 1 .. Len(u.rule) /\ Len(u.child[m]) = 0
         /\ \A n \in 1 .. Len(u.rule) :
              \/ n \in 1 .. Len(t.rule)
              \/ n \in Len(t.rule) + 1 .. Len(u.rule) /\ u.up[n] \in parents
<1>1. Len(t.rule) \in Nat /\ Len(t.rule) <= Len(u.rule)
  BY ShapeIs DEF GrownBy
<1>2. ASSUME NEW m \in parents
      PROVE  \E n \in Len(t.rule) + 1 .. Len(u.rule) :
               u.up[n] = m /\ HasBelow(t, u, m, n, s, levelOf)
  <2>1. PICK n \in Len(t.rule) + 1 .. Len(u.rule) : u.up[n] = m
    BY DEF GrownBy
  <2>2. HasBelow(t, u, u.up[n], n, s, levelOf)
    BY DEF GrownBy
  <2>3. QED
    BY <2>1, <2>2
<1>3. \A m \in Len(t.rule) + 1 .. Len(u.rule) : Len(u.child[m]) = 0
  BY EmptySeq DEF GrownBy
<1>4. \A m \in 0 .. Len(u.rule) : m \in 0 .. Len(t.rule) \/ m \in Len(t.rule) + 1 .. Len(u.rule)
  BY <1>1
<1>5. \A m \in (0 .. Len(t.rule)) \ parents : u.child[m] = t.child[m]
  BY DEF GrownBy
<1>6. \A n \in Len(t.rule) + 1 .. Len(u.rule) : u.up[n] \in parents
  BY DEF GrownBy
<1>7. \A n \in 1 .. Len(u.rule) : n \in 1 .. Len(t.rule) \/ n \in Len(t.rule) + 1 .. Len(u.rule)
  BY <1>1
<1>8. QED
  BY <1>2, <1>3, <1>4, <1>5, <1>6, <1>7

LEMMA GrowthKeepsShape ==
  ASSUME NEW t, NEW u, NEW K, Shape(t, K), NEW parents \in SUBSET (0 .. Len(t.rule)),
         NEW s, NEW levelOf, GrownBy(t, u, parents, s, levelOf),
         u.rule \in Seq(K \cup {s}),
         u.up \in [1 .. Len(u.rule) -> 0 .. Len(u.rule)],
         u.child \in [0 .. Len(u.rule) -> Seq(1 .. Len(u.rule))]
  PROVE  Shape(u, K \cup {s})
<1> DEFINE N == Len(t.rule)
           M == Len(u.rule)
<1>1. M \in Nat
  BY LenProperties
<1>2. /\ N \in Nat
      /\ \A n \in 1 .. N : t.up[n] \in 0 .. N
      /\ \A m \in 0 .. N : Len(t.child[m]) \in Nat
      /\ \A m \in 0 .. N : \A k \in 1 .. Len(t.child[m]) : t.child[m][k] \in 1 .. N
  BY ShapeIs
<1>3. /\ \A n \in 1 .. N : t.up[n] < n
      /\ \A n \in 1 .. N : \E k \in 1 .. Len(t.child[t.up[n]]) : t.child[t.up[n]][k] = n
      /\ \A m \in 0 .. N : \A k \in 1 .. Len(t.child[m]) : t.up[t.child[m][k]] = m
      /\ \A m \in 0 .. N : \A j, k \in 1 .. Len(t.child[m]) :
           t.child[m][j] = t.child[m][k] => j = k
  BY ZenonT(60) DEF Shape
<1>4. /\ \A m \in parents : \E n \in N + 1 .. M :
           u.up[n] = m /\ HasBelow(t, u, m, n, s, levelOf)
      /\ \A m \in 0 .. M : \/ m \in parents
                           \/ m \in 0 .. N /\ u.child[m] = t.child[m]
                           \/ m \in N + 1 .. M /\ Len(u.child[m]) = 0
      /\ \A n \in 1 .. M : n \in 1 .. N \/ (n \in N + 1 .. M /\ u.up[n] \in parents)
  BY <1>1, GrownIs
<1>5. /\ \A n \in 1 .. N : u.up[n] = t.up[n]
      /\ \A n \in N + 1 .. M : HasBelow(t, u, u.up[n], n, s, levelOf)
      /\ \A m \in parents : m \in 0 .. N
      /\ N <= M
  BY DEF GrownBy
<1> HIDE DEF N, M
<1>6. ASSUME NEW n \in 1 .. M
      PROVE  /\ u.up[n] < n
             /\ \E k \in 1 .. Len(u.child[u.up[n]]) : u.child[u.up[n]][k] = n
  <2>1. CASE n \in 1 .. N
    <3>1. u.up[n] = t.up[n] /\ t.up[n] < n /\ t.up[n] \in 0 .. N /\ t.up[n] \in 0 .. M
      BY <1>1, <1>2, <1>3, <1>5, <2>1
    <3>2. PICK m : m = t.up[n]
      OBVIOUS
    <3>3. PICK i \in 1 .. Len(t.child[m]) : t.child[m][i] = n
      BY <1>3, <2>1, <3>2
    <3>4. CASE m \in parents
      <4>1. PICK x \in N + 1 .. M : u.up[x] = m /\ HasBelow(t, u, m, x, s, levelOf)
        BY <1>4, <3>4
      <4>2. Len(t.child[m]) \in Nat
        BY <1>2, <3>1, <3>2
      <4>3. PICK k \in 1 .. Len(u.child[m]) : PlacedAt(t, u, m, x, s, levelOf, k)
        BY <4>1, <4>2, PlacedBelow
      <4>4. \E j \in 1 .. Len(u.child[m]) : u.child[m][j] = n
        BY <3>3, <4>3 DEF PlacedAt
      <4>5. QED
        BY <3>1, <3>2, <4>4
    <3>5. CASE m \notin parents
      <4>1. u.child[m] = t.child[m]
        <5>1. ~ (m \in N + 1 .. M)
          BY <1>2, <3>1, <3>2
        <5>2. QED
          BY <1>4, <3>1, <3>2, <3>5, <5>1
      <4>2. QED
        BY <3>1, <3>2, <3>3, <4>1
    <3>6. QED
      BY <3>4, <3>5
  <2>2. CASE n \in N + 1 .. M
    <3>1. u.up[n] \in parents
      BY <1>2, <1>4, <2>2
    <3>2. PICK m : m = u.up[n]
      OBVIOUS
    <3>3. m \in 0 .. N /\ HasBelow(t, u, m, n, s, levelOf)
      BY <1>5, <2>2, <3>1, <3>2
    <3>4. Len(t.child[m]) \in Nat
      BY <1>2, <3>3
    <3>5. \E k \in 1 .. Len(u.child[m]) : u.child[m][k] = n
      BY <3>3, <3>4, PlacedBelow DEF PlacedAt
    <3>6. m < n
      BY <1>2, <2>2, <3>3
    <3>7. QED
      BY <3>2, <3>5, <3>6
  <2>3. QED
    BY <1>4, <2>1, <2>2
<1>7. ASSUME NEW m \in 0 .. M, NEW j \in 1 .. Len(u.child[m]), NEW k \in 1 .. Len(u.child[m])
      PROVE  /\ u.up[u.child[m][j]] = m
             /\ u.child[m][j] = u.child[m][k] => j = k
  <2>1. CASE m \in parents
    <3>1. m \in 0 .. N /\ Len(t.child[m]) \in Nat
      BY <1>2, <1>5, <2>1
    <3>2. PICK x \in N + 1 .. M : u.up[x] = m /\ HasBelow(t, u, m, x, s, levelOf)
      BY <1>4, <2>1
    <3>3. PICK p \in 1 .. Len(u.child[m]) : PlacedAt(t, u, m, x, s, levelOf, p)
      BY <3>1, <3>2, PlacedBelow
    <3>4. \A i \in 1 .. Len(u.child[m]) :
            \/ i < p /\ i \in 1 .. Len(t.child[m]) /\ u.child[m][i] = t.child[m][i]
            \/ i = p /\ u.child[m][i] = x
            \/ i > p /\ i - 1 \in 1 .. Len(t.child[m]) /\ u.child[m][i] = t.child[m][i - 1]
      BY <3>3 DEF PlacedAt
    <3>5. \A i \in 1 .. Len(t.child[m]) :
            /\ t.child[m][i] \in 1 .. N /\ t.child[m][i] # x
            /\ u.up[t.child[m][i]] = m
      <4>1. \A i \in 1 .. Len(t.child[m]) : t.child[m][i] \in 1 .. N /\ t.up[t.child[m][i]] = m
        BY <1>2, <1>3, <3>1
      <4>2. x \notin 1 .. N
        BY <1>2
      <4>3. QED
        BY <1>5, <4>1, <4>2
    <3>6. u.up[u.child[m][j]] = m
      BY <3>2, <3>4, <3>5, ZenonT(60)
    <3>7. ASSUME u.child[m][j] = u.child[m][k] PROVE j = k
      <4>1. \A a, b \in 1 .. Len(t.child[m]) : t.child[m][a] = t.child[m][b] => a = b
        BY <1>3, <3>1
      <4>2. CASE u.child[m][j] = x
        BY <3>4, <3>5, <3>7, <4>2
      <4>3. CASE u.child[m][j] # x
        <5>1. /\ \/ j < p /\ j \in 1 .. Len(t.child[m]) /\ u.child[m][j] = t.child[m][j]
                 \/ j > p /\ j - 1 \in 1 .. Len(t.child[m]) /\ u.child[m][j] = t.child[m][j - 1]
              /\ \/ k < p /\ k \in 1 .. Len(t.child[m]) /\ u.child[m][k] = t.child[m][k]
                 \/ k > p /\ k - 1 \in 1 .. Len(t.child[m]) /\ u.child[m][k] = t.child[m][k - 1]
          BY <3>4, <3>7, <4>3
        <5>2. \/ j < p /\ k < p /\ j = k
              \/ j < p /\ k > p /\ j = k - 1
              \/ j > p /\ k < p /\ j - 1 = k
              \/ j > p /\ k > p /\ j - 1 = k - 1
          BY <3>7, <4>1, <5>1
        <5>3. j \in Int /\ k \in Int /\ p \in Int
          BY <3>1, <3>3 DEF PlacedAt
        <5>4. QED
          BY <5>2, <5>3
      <4>4. QED
        BY <4>2, <4>3
    <3>8. QED
      BY <3>6, <3>7
  <2>2. CASE m \in 0 .. N /\ u.child[m] = t.child[m]
    <3>1. t.child[m][j] \in 1 .. N /\ t.up[t.child[m][j]] = m
      BY <1>2, <1>3, <2>2
    <3>2. QED
      BY <1>3, <1>5, <2>2, <3>1, SMTT(30)
  <2>3. CASE Len(u.child[m]) = 0
    BY <2>3
  <2>4. QED
    BY <1>4, <2>1, <2>2, <2>3
<1>8. QED
  BY <1>6, <1>7 DEF Shape, M

(* The children of m stand in the order of their levels, and those of one  *)
(* level in the order they were read in.                                   *)
Precedes(a, b) == a.level > b.level \/ (a.level = b.level /\ a.at <= b.at)

SortedBelow(t, m, rank) ==
  \A j, k \in 1 .. Len(t.child[m]) :
    j < k => Precedes(rank[t.rule[t.child[m][j]]], rank[t.rule[t.child[m][k]]])

LEMMA GrowthKeepsOrder ==
  ASSUME NEW t, NEW u, NEW K, Shape(t, K), NEW parents \in SUBSET (0 .. Len(t.rule)),
         NEW s, NEW levelOf, GrownBy(t, u, parents, s, levelOf), Len(u.rule) \in Nat,
         NEW rank, \A q \in K \cup {s} : rank[q] \in [level : Nat, at : Nat],
         \A q \in K : rank[q].at <= rank[s].at,
         NEW m \in 0 .. Len(t.rule), SortedBelow(t, m, rank),
         levelOf[s] = rank[s].level,
         \A k \in 1 .. Len(t.child[m]) :
           levelOf[t.rule[t.child[m][k]]] = rank[t.rule[t.child[m][k]]].level
  PROVE  SortedBelow(u, m, rank)
<1> DEFINE N == Len(t.rule)
           r(k) == rank[t.rule[t.child[m][k]]]
           R(k) == rank[u.rule[u.child[m][k]]]
           L == Len(t.child[m])
<1>1. N \in Nat /\ L \in Nat /\ \A k \in 1 .. L : t.child[m][k] \in 1 .. N
  BY ShapeIs
<1>2. \A k \in 1 .. L : /\ r(k) \in [level : Nat, at : Nat]
                        /\ r(k).at <= rank[s].at
                        /\ levelOf[t.rule[t.child[m][k]]] = r(k).level
  <2>1. \A k \in 1 .. L : t.rule[t.child[m][k]] \in K
    BY ShapeIs
  <2>2. QED
    BY <2>1
<1>3. rank[s] \in [level : Nat, at : Nat]
  OBVIOUS
<1>4. \A j, k \in 1 .. L : j < k => Precedes(r(j), r(k))
  BY DEF SortedBelow
<1>5. CASE m \in parents
  <2>1. PICK x \in N + 1 .. Len(u.rule) : u.up[x] = m /\ HasBelow(t, u, m, x, s, levelOf)
    BY <1>5, GrownIs
  <2>2. PICK p \in 1 .. Len(u.child[m]) : PlacedAt(t, u, m, x, s, levelOf, p)
    BY <1>1, <2>1, PlacedBelow
  <2>3. u.rule[x] = s /\ \A n \in 1 .. N : u.rule[n] = t.rule[n]
    BY <2>1 DEF GrownBy
  <2>4. R(p) = rank[s] /\ Len(u.child[m]) = L + 1
    BY <2>2, <2>3 DEF PlacedAt
  <2>5. ASSUME NEW j \in 1 .. L + 1
        PROVE  \/ j < p /\ j \in 1 .. L /\ R(j) = r(j)
               \/ j = p
               \/ j > p /\ j - 1 \in 1 .. L /\ R(j) = r(j - 1)
    <3>1. \/ j < p /\ j \in 1 .. L /\ u.child[m][j] = t.child[m][j]
          \/ j = p
          \/ j > p /\ j - 1 \in 1 .. L /\ u.child[m][j] = t.child[m][j - 1]
      BY <2>2, <2>4 DEF PlacedAt
    <3>2. \A i \in 1 .. L : u.rule[t.child[m][i]] = t.rule[t.child[m][i]]
      BY <1>1, <2>3
    <3>3. QED
      BY <3>1, <3>2
  <2>6. \A i \in 1 .. L : i < p => ~ (rank[s].level > r(i).level)
    <3>1. \A i \in 1 .. L : i < p => i \in 1 .. p - 1
      BY <1>1, <2>2
    <3>2. QED
      BY <1>2, <2>2, <3>1 DEF PlacedAt
  <2>7. p <= L => rank[s].level > r(p).level /\ p \in 1 .. L
    <3>1. p <= L => levelOf[s] > levelOf[t.rule[t.child[m][p]]]
      BY <2>2 DEF PlacedAt
    <3>2. p <= L => p \in 1 .. L
      BY <1>1, <2>2
    <3>3. p <= L => levelOf[t.rule[t.child[m][p]]] = r(p).level
      BY <1>2, <3>2
    <3>4. QED
      BY <3>1, <3>2, <3>3
  <2>8. p \in 1 .. L + 1
    BY <2>2, <2>4
  <2> HIDE DEF N, L, r, R
  <2>9. ASSUME NEW j \in 1 .. L + 1, NEW k \in 1 .. L + 1, j < k
        PROVE  Precedes(R(j), R(k))
    <3>1. CASE k < p
      BY <1>1, <1>4, <2>5, <2>8, <2>9, <3>1
    <3>2. CASE k = p
      <4>1. j \in 1 .. L /\ j < p /\ R(j) = r(j)
        BY <1>1, <2>5, <2>8, <2>9, <3>2
      <4>2. ~ (rank[s].level > r(j).level) /\ r(j).at <= rank[s].at
        BY <1>2, <2>6, <4>1
      <4>3. r(j).level \in Nat /\ rank[s].level \in Nat
        BY <1>2, <1>3, <4>1
      <4>4. QED
        BY <2>4, <3>2, <4>1, <4>2, <4>3 DEF Precedes
    <3>3. CASE k > p
      <4>1. k - 1 \in 1 .. L /\ R(k) = r(k - 1)
        BY <1>1, <2>5, <2>8, <3>3
      <4>2. CASE j < p
        <5>1. j \in 1 .. L /\ R(j) = r(j) /\ j < k - 1
          BY <1>1, <2>5, <2>8, <3>3, <4>2
        <5>2. QED
          BY <1>4, <4>1, <5>1
      <4>3. CASE j = p
        <5>1. p \in 1 .. L /\ rank[s].level > r(p).level
          BY <1>1, <2>7, <2>8, <3>3
        <5>2. p = k - 1 \/ p < k - 1
          BY <1>1, <2>8, <3>3
        <5>3. p = k - 1 \/ Precedes(r(p), r(k - 1))
          BY <1>4, <4>1, <5>1, <5>2
        <5>4. r(k - 1).level \in Nat /\ r(p).level \in Nat /\ rank[s].level \in Nat
          BY <1>2, <1>3, <4>1, <5>1
        <5>5. rank[s].level > r(k - 1).level
          BY <5>1, <5>3, <5>4 DEF Precedes
        <5>6. QED
          BY <2>4, <4>1, <4>3, <5>5 DEF Precedes
      <4>4. CASE j > p
        <5>1. j - 1 \in 1 .. L /\ R(j) = r(j - 1) /\ j - 1 < k - 1
          BY <1>1, <2>5, <2>8, <2>9, <4>4
        <5>2. QED
          BY <1>4, <4>1, <5>1
      <4>5. QED
        BY <2>8, <4>2, <4>3, <4>4
    <3>4. QED
      BY <2>8, <3>1, <3>2, <3>3
  <2>10. QED
    BY <2>4, <2>9 DEF SortedBelow, R
<1>6. CASE m \notin parents
  <2>1. u.child[m] = t.child[m] /\ \A n \in 1 .. N : u.rule[n] = t.rule[n]
    BY <1>6 DEF GrownBy
  <2>2. QED
    BY <1>1, <2>1, ZenonT(60) DEF SortedBelow
<1>7. QED
  BY <1>5, <1>6

(* A node that a search leaves behind stays behind.                        *)
LEMMA GrowthKeepsBehind ==
  ASSUME NEW t, NEW u, NEW K, Shape(t, K), NEW parents \in SUBSET (0 .. Len(t.rule)),
         NEW s, NEW levelOf, GrownBy(t, u, parents, s, levelOf), Shape(u, K \cup {s}),
         NEW n \in 1 .. Len(t.rule), NEW q, Tree!Behind(t, n, q)
  PROVE  Tree!Behind(u, n, q)
<1> DEFINE N == Len(t.rule)
<1>1. PICK m : m = t.up[n]
  OBVIOUS
<1>2. /\ m \in 0 .. N /\ u.up[n] = m /\ Len(u.rule) \in Nat
      /\ Len(t.child[m]) \in Nat /\ DOMAIN t.child[m] = 1 .. Len(t.child[m])
      /\ \A k \in 1 .. Len(t.child[m]) : t.child[m][k] \in 1 .. N
      /\ \A k \in 1 .. N : u.rule[k] = t.rule[k]
  <2>1. m \in 0 .. N /\ Len(u.rule) \in Nat
    BY <1>1, ShapeIs
  <2>2. u.up[n] = m /\ \A k \in 1 .. N : u.rule[k] = t.rule[k]
    BY <1>1 DEF GrownBy
  <2>3. QED
    BY <2>1, <2>2, ShapeIs
<1>3. DOMAIN u.child[m] = 1 .. Len(u.child[m])
  <2>1. m \in 0 .. Len(u.rule)
    BY <1>2, ShapeIs DEF GrownBy
  <2>2. QED
    BY <2>1, ShapeIs
<1>4. PICK j, k \in 1 .. Len(t.child[m]) :
        j < k /\ t.child[m][k] = n /\ t.rule[t.child[m][j]] = q
  BY <1>1, <1>2 DEF Tree!Behind
<1>5. CASE m \in parents
  <2>1. PICK x \in N + 1 .. Len(u.rule) : u.up[x] = m /\ HasBelow(t, u, m, x, s, levelOf)
    BY <1>2, <1>5, GrownIs
  <2>2. PICK p \in 1 .. Len(u.child[m]) : PlacedAt(t, u, m, x, s, levelOf, p)
    BY <1>2, <2>1, PlacedBelow
  <2>3. PICK a \in 1 .. Len(u.child[m]) :
          u.child[m][a] = t.child[m][j] /\ a = IF j < p THEN j ELSE j + 1
    BY <2>2 DEF PlacedAt
  <2>4. PICK b \in 1 .. Len(u.child[m]) :
          u.child[m][b] = t.child[m][k] /\ b = IF k < p THEN k ELSE k + 1
    BY <2>2 DEF PlacedAt
  <2>5. a < b
    BY <1>2, <1>4, <2>2, <2>3, <2>4
  <2>6. u.child[m][b] = n /\ u.rule[u.child[m][a]] = q
    BY <1>2, <1>4, <2>3, <2>4
  <2>7. QED
    BY <1>2, <1>3, <2>5, <2>6 DEF Tree!Behind
<1>6. CASE m \notin parents
  <2>1. u.child[m] = t.child[m]
    BY <1>2, <1>6 DEF GrownBy
  <2>2. u.rule[t.child[m][j]] = q
    BY <1>2, <1>4
  <2>3. QED
    BY <1>2, <1>3, <1>4, <2>1, <2>2 DEF Tree!Behind
<1>7. QED
  BY <1>5, <1>6

LEMMA PathOfShape ==
  ASSUME NEW t, NEW K, Shape(t, K)
  PROVE  /\ \A n \in 1 .. Len(t.rule) :
              Tree!Path(t)[n] = {n} \cup (IF t.up[n] = 0 THEN {} ELSE Tree!Path(t)[t.up[n]])
         /\ \A n \in 1 .. Len(t.rule) : Tree!Path(t)[n] \in SUBSET (1 .. n)
<1> DEFINE N == Len(t.rule)
           P == {k \in 0 .. N : \A n \in 1 .. k : Tree!Path(t)[n] \in SUBSET (1 .. n)}
<1>1. /\ N \in Nat /\ DOMAIN t.rule = 1 .. N /\ t.up \in [1 .. N -> 0 .. N]
      /\ \A n \in 1 .. N : t.up[n] < n
  BY ShapeIs DEF Shape
<1> HIDE DEF N
<1>2. \A n \in 1 .. N :
        Tree!Path(t)[n] = {n} \cup (IF t.up[n] = 0 THEN {} ELSE Tree!Path(t)[t.up[n]])
  BY <1>1, PathIs
<1>3. 0 \in P
  BY <1>1
<1>4. ASSUME NEW k \in 0 .. N - 1, k \in P PROVE k + 1 \in P
  <2>1. k + 1 \in 1 .. N /\ k + 1 \in 0 .. N /\ k \in Nat
    BY <1>1
  <2>2. \A n \in 1 .. k : Tree!Path(t)[n] \in SUBSET (1 .. n)
    BY <1>4
  <2>3. Tree!Path(t)[k + 1] \in SUBSET (1 .. k + 1)
    <3>1. CASE t.up[k + 1] = 0
      <4>1. Tree!Path(t)[k + 1] = {k + 1}
        BY <1>2, <2>1, <3>1
      <4>2. QED
        BY <2>1, <4>1
    <3>2. CASE t.up[k + 1] # 0
      <4>1. t.up[k + 1] \in 1 .. k
        BY <1>1, <2>1, <3>2
      <4>2. Tree!Path(t)[t.up[k + 1]] \in SUBSET (1 .. t.up[k + 1])
        BY <2>2, <4>1
      <4>3. 1 .. t.up[k + 1] \subseteq 1 .. k + 1
        BY <2>1, <4>1
      <4>4. Tree!Path(t)[k + 1] = {k + 1} \cup Tree!Path(t)[t.up[k + 1]]
        BY <1>2, <2>1, <3>2
      <4>5. k + 1 \in 1 .. k + 1
        BY <2>1
      <4>6. QED
        BY <4>2, <4>3, <4>4, <4>5
    <3>3. QED
      BY <3>1, <3>2
  <2>4. \A n \in 1 .. k + 1 : n \in 1 .. k \/ n = k + 1
    BY <2>1
  <2>5. QED
    BY <2>1, <2>2, <2>3, <2>4
<1> HIDE DEF P
<1>5. \A k \in 0 .. N : k \in P
  BY <1>1, <1>3, <1>4, UpTo
<1>6. N \in P
  BY <1>1, <1>5
<1>7. QED
  BY <1>2, <1>6 DEF N, P

(* The nodes above a node stay the same.                                   *)
LEMMA GrowthKeepsPath ==
  ASSUME NEW t, NEW u, NEW K, Shape(t, K), NEW parents \in SUBSET (0 .. Len(t.rule)),
         NEW s, NEW levelOf, GrownBy(t, u, parents, s, levelOf), Shape(u, K \cup {s})
  PROVE  \A n \in 1 .. Len(t.rule) : Tree!Path(u)[n] = Tree!Path(t)[n]
<1> DEFINE N == Len(t.rule)
           P == {k \in 0 .. N : \A n \in 1 .. k : Tree!Path(u)[n] = Tree!Path(t)[n]}
<1>1. /\ N \in Nat /\ Len(u.rule) \in Nat /\ N <= Len(u.rule)
      /\ \A n \in 1 .. N : u.up[n] = t.up[n] /\ t.up[n] < n /\ t.up[n] \in 0 .. N
  BY ShapeIs DEF Shape, GrownBy
<1>2. \A n \in 1 .. N :
        /\ Tree!Path(t)[n] = {n} \cup (IF t.up[n] = 0 THEN {} ELSE Tree!Path(t)[t.up[n]])
        /\ Tree!Path(u)[n] = {n} \cup (IF u.up[n] = 0 THEN {} ELSE Tree!Path(u)[u.up[n]])
  <2>1. \A n \in 1 .. N : n \in 1 .. Len(u.rule)
    BY <1>1
  <2>2. QED
    BY <2>1, PathOfShape
<1> HIDE DEF N
<1>3. 0 \in P
  BY <1>1
<1>4. ASSUME NEW k \in 0 .. N - 1, k \in P PROVE k + 1 \in P
  <2>1. k + 1 \in 1 .. N /\ k + 1 \in 0 .. N /\ k \in Nat
    BY <1>1
  <2>2. \A n \in 1 .. k : Tree!Path(u)[n] = Tree!Path(t)[n]
    BY <1>4
  <2>3. u.up[k + 1] = t.up[k + 1] /\ (t.up[k + 1] = 0 \/ t.up[k + 1] \in 1 .. k)
    BY <1>1, <2>1
  <2>4. Tree!Path(u)[k + 1] = Tree!Path(t)[k + 1]
    <3>1. CASE t.up[k + 1] = 0
      BY <1>2, <2>1, <2>3, <3>1
    <3>2. CASE t.up[k + 1] \in 1 .. k
      <4>1. Tree!Path(u)[t.up[k + 1]] = Tree!Path(t)[t.up[k + 1]] /\ t.up[k + 1] # 0
        BY <2>2, <3>2
      <4>2. Tree!Path(t)[k + 1] = {k + 1} \cup Tree!Path(t)[t.up[k + 1]]
        BY <1>2, <2>1, <4>1
      <4>3. u.up[k + 1] = t.up[k + 1] /\ u.up[k + 1] # 0
        BY <2>3, <4>1
      <4>4. Tree!Path(u)[k + 1] = {k + 1} \cup Tree!Path(u)[u.up[k + 1]]
        BY <1>2, <2>1, <4>3
      <4>5. QED
        BY <4>1, <4>2, <4>3, <4>4
    <3>3. QED
      BY <2>3, <3>1, <3>2
  <2>5. \A n \in 1 .. k + 1 : n \in 1 .. k \/ n = k + 1
    BY <2>1
  <2>6. QED
    BY <2>1, <2>2, <2>4, <2>5
<1> HIDE DEF P
<1>5. \A k \in 0 .. N : k \in P
  BY <1>1, <1>3, <1>4, UpTo
<1>6. N \in P
  BY <1>1, <1>5
<1>7. QED
  BY <1>6 DEF N, P

LEMMA LargerShape ==
  ASSUME NEW t, NEW K, NEW J, K \subseteq J, Shape(t, K)
  PROVE  Shape(t, J)
<1>1. t.rule \in Seq(J)
  BY SeqOfLarger DEF Shape
<1>2. QED
  BY <1>1 DEF Shape

Ordered(t, rank) == \A m \in 0 .. Len(t.rule) : SortedBelow(t, m, rank)

Agrees(levelOf, rank, K) == \A q \in K : levelOf[q] = rank[q].level

(* rank knows the rules K and s, of which s was read last.                 *)
Ranked(rank, K, s) ==
  /\ \A q \in K \cup {s} : rank[q] \in [level : Nat, at : Nat]
  /\ \A q \in K : rank[q].at <= rank[s].at

LEMMA GrowthKeepsOrdered ==
  ASSUME NEW t, NEW u, NEW K, Shape(t, K), NEW parents \in SUBSET (0 .. Len(t.rule)),
         NEW s, NEW levelOf, GrownBy(t, u, parents, s, levelOf), Len(u.rule) \in Nat,
         NEW rank, Ranked(rank, K, s), Agrees(levelOf, rank, K \cup {s}), Ordered(t, rank)
  PROVE  Ordered(u, rank)
<1>1. ASSUME NEW m \in 0 .. Len(u.rule) PROVE SortedBelow(u, m, rank)
  <2>1. CASE m \in 0 .. Len(t.rule)
    <3>1. SortedBelow(t, m, rank)
      BY <2>1 DEF Ordered
    <3>2. levelOf[s] = rank[s].level
      BY DEF Agrees
    <3>3. \A k \in 1 .. Len(t.child[m]) :
            levelOf[t.rule[t.child[m][k]]] = rank[t.rule[t.child[m][k]]].level
      <4>1. \A k \in 1 .. Len(t.child[m]) : t.rule[t.child[m][k]] \in K
        BY <2>1, ShapeIs
      <4>2. QED
        BY <4>1 DEF Agrees
    <3>4. /\ \A q \in K \cup {s} : rank[q] \in [level : Nat, at : Nat]
          /\ \A q \in K : rank[q].at <= rank[s].at
      BY DEF Ranked
    <3>5. QED
      BY <2>1, <3>1, <3>2, <3>3, <3>4, GrowthKeepsOrder
  <2>2. CASE Len(u.child[m]) = 0
    BY <2>2 DEF SortedBelow
  <2>3. m \in 0 .. Len(t.rule) \/ Len(u.child[m]) = 0
    <3>1. Len(t.rule) \in Nat
      BY ShapeIs
    <3>2. CASE m \in Len(t.rule) + 1 .. Len(u.rule)
      <4>1. u.child[m] = <<>>
        BY <3>2 DEF GrownBy
      <4>2. QED
        BY <4>1
    <3>3. QED
      BY <3>1, <3>2
  <2>4. QED
    BY <2>1, <2>2, <2>3
<1>2. QED
  BY <1>1 DEF Ordered

-----------------------------------------------------------------------------
(* Tree u is tree t, over the rules K, after rule s has asked for the      *)
(* rules Q as parents: every node of such a rule has got a child, or is    *)
(* behind an earlier sibling of that rule, or below such a node.           *)
Grown(t, u, K, s, Q, rank, levelOf) ==
  /\ Shape(u, K \cup {s})
  /\ Len(t.rule) <= Len(u.rule)
  /\ \A n \in 1 .. Len(t.rule) : /\ u.rule[n] = t.rule[n] /\ u.up[n] = t.up[n]
                                 /\ Tree!Path(u)[n] = Tree!Path(t)[n]
                                 /\ \A q : Tree!Behind(t, n, q) => Tree!Behind(u, n, q)
  /\ \A n \in Len(t.rule) + 1 .. Len(u.rule) :
       /\ u.rule[n] = s
       /\ u.up[n] \in 1 .. Len(t.rule) /\ t.rule[u.up[n]] \in Q
  /\ u.child[0] = t.child[0]
  /\ \A n \in 1 .. Len(t.rule) : t.rule[n] \in Q =>
       \/ \E x \in 1 .. Len(u.rule) : u.up[x] = n /\ u.rule[x] = s
       \/ \E m \in Tree!Path(u)[n] : Tree!Behind(u, m, t.rule[n])
  /\ Agrees(levelOf, rank, K \cup {s}) /\ Ordered(t, rank) => Ordered(u, rank)

LEMMA GrownNot ==
  ASSUME NEW t, NEW K, Shape(t, K), NEW s, NEW rank, NEW levelOf
  PROVE  Grown(t, t, K, s, {}, rank, levelOf)
<1>1. Shape(t, K \cup {s})
  BY LargerShape
<1>2. Len(t.rule) \in Nat
  BY ShapeIs
<1>3. QED
  BY <1>1, <1>2 DEF Grown

LEMMA GrownFurther ==
  ASSUME NEW t, NEW u, NEW v, NEW K, NEW s, s \notin K, NEW Q, NEW R \in SUBSET K,
         NEW rank, NEW levelOf, Ranked(rank, K, s),
         Shape(t, K), Grown(t, u, K, s, Q, rank, levelOf),
         NEW parents \in SUBSET (1 .. Len(u.rule)),
         v = Tree!AddBelow(u, parents, s, levelOf),
         \A n \in parents : u.rule[n] \in R,
         \A n \in 1 .. Len(u.rule) : u.rule[n] \in R /\ n \notin parents =>
           \E m \in Tree!Path(u)[n] : Tree!Behind(u, m, u.rule[n])
  PROVE  Grown(t, v, K, s, Q \cup R, rank, levelOf)
<1> DEFINE N == Len(t.rule)
           M == Len(u.rule)
           V == Len(v.rule)
           J == K \cup {s}
<1>1. Shape(u, J) /\ N \in Nat /\ M \in Nat /\ N <= M
  BY ShapeIs DEF Grown
<1>2. parents \in SUBSET (0 .. M) /\ 0 \notin parents
  BY <1>1
<1>3. /\ GrownBy(u, v, parents, s, levelOf)
      /\ v.rule \in Seq(J \cup {s})
      /\ v.up \in [1 .. V -> 0 .. V]
      /\ v.child \in [0 .. V -> Seq(1 .. V)]
  <2> HIDE DEF J
  <2>1. QED
    BY <1>1, <1>2, BelowIs
<1>4. J \cup {s} = J
  OBVIOUS
<1>5. Shape(v, J \cup {s})
  <2> HIDE DEF J
  <2>1. QED
    BY <1>1, <1>2, <1>3, GrowthKeepsShape
<1>6. V \in Nat /\ M <= V
  BY <1>5, ShapeIs, <1>3 DEF GrownBy
<1>7. \A n \in 1 .. M : /\ v.rule[n] = u.rule[n] /\ v.up[n] = u.up[n]
                        /\ Tree!Path(v)[n] = Tree!Path(u)[n]
  <2>1. \A n \in 1 .. M : v.rule[n] = u.rule[n] /\ v.up[n] = u.up[n]
    BY <1>3 DEF GrownBy
  <2>2. \A n \in 1 .. M : Tree!Path(v)[n] = Tree!Path(u)[n]
    <3> HIDE DEF J
    <3>1. QED
      BY <1>1, <1>2, <1>3, <1>5, GrowthKeepsPath
  <2>3. QED
    BY <2>1, <2>2
<1>8. \A n \in 1 .. M : \A q : Tree!Behind(u, n, q) => Tree!Behind(v, n, q)
  <2> HIDE DEF J
  <2>1. QED
    BY <1>1, <1>2, <1>3, <1>5, GrowthKeepsBehind
<1>9. \A n \in 1 .. N : n \in 1 .. M
  BY <1>1
<1>10. parents \subseteq 1 .. N
  <2>1. \A n \in N + 1 .. M : u.rule[n] = s
    BY DEF Grown
  <2>2. \A n \in 1 .. M : n \in 1 .. N \/ n \in N + 1 .. M
    BY <1>1
  <2>3. QED
    BY <2>1, <2>2
<1>11. \A n \in 1 .. N : /\ v.rule[n] = t.rule[n] /\ v.up[n] = t.up[n]
                         /\ Tree!Path(v)[n] = Tree!Path(t)[n]
                         /\ \A q : Tree!Behind(t, n, q) => Tree!Behind(v, n, q)
  BY <1>7, <1>8, <1>9 DEF Grown
<1>12. ASSUME NEW n \in N + 1 .. V
       PROVE  v.rule[n] = s /\ v.up[n] \in 1 .. N /\ t.rule[v.up[n]] \in Q \cup R
  <2>1. CASE n \in N + 1 .. M
    <3>1. u.rule[n] = s /\ u.up[n] \in 1 .. N /\ t.rule[u.up[n]] \in Q
      BY <2>1 DEF Grown
    <3>2. n \in 1 .. M
      BY <1>1, <2>1
    <3>3. QED
      BY <1>7, <3>1, <3>2
  <2>2. CASE n \in M + 1 .. V
    <3>1. v.rule[n] = s /\ v.up[n] \in parents
      BY <1>3, <2>2 DEF GrownBy
    <3>2. v.up[n] \in 1 .. N /\ u.rule[v.up[n]] \in R
      BY <1>10, <3>1
    <3>3. u.rule[v.up[n]] = t.rule[v.up[n]]
      BY <3>2 DEF Grown
    <3>4. QED
      BY <3>1, <3>2, <3>3
  <2>3. QED
    BY <1>1, <1>6, <2>1, <2>2
<1>13. v.child[0] = t.child[0]
  BY <1>1, <1>2, <1>3 DEF GrownBy, Grown
<1>14. ASSUME NEW n \in 1 .. N, t.rule[n] \in Q \cup R
       PROVE  \/ \E x \in 1 .. V : v.up[x] = n /\ v.rule[x] = s
              \/ \E m \in Tree!Path(v)[n] : Tree!Behind(v, m, t.rule[n])
  <2>1. n \in 1 .. M /\ u.rule[n] = t.rule[n] /\ Tree!Path(u)[n] \subseteq 1 .. M
    <3>1. n \in 1 .. M /\ u.rule[n] = t.rule[n]
      BY <1>9 DEF Grown
    <3>2. Tree!Path(u)[n] \in SUBSET (1 .. n)
      BY <1>1, <3>1, PathOfShape
    <3>3. QED
      BY <1>1, <3>1, <3>2
  <2>2. ASSUME \E m \in Tree!Path(u)[n] : Tree!Behind(u, m, t.rule[n])
        PROVE  \E m \in Tree!Path(v)[n] : Tree!Behind(v, m, t.rule[n])
    BY <1>7, <1>8, <2>1, <2>2
  <2>3. CASE t.rule[n] \in Q
    <3>1. \/ \E x \in 1 .. M : u.up[x] = n /\ u.rule[x] = s
          \/ \E m \in Tree!Path(u)[n] : Tree!Behind(u, m, t.rule[n])
      BY <2>3 DEF Grown
    <3>2. ASSUME NEW x \in 1 .. M, u.up[x] = n, u.rule[x] = s
          PROVE  x \in 1 .. V /\ v.up[x] = n /\ v.rule[x] = s
      BY <1>1, <1>6, <1>7, <3>2
    <3>3. QED
      BY <2>2, <3>1, <3>2
  <2>4. CASE t.rule[n] \in R
    <3>1. CASE n \in parents
      <4>1. PICK x \in M + 1 .. V : v.up[x] = n
        BY <1>3, <3>1 DEF GrownBy
      <4>2. v.rule[x] = s /\ x \in 1 .. V
        BY <1>1, <1>3, <1>6 DEF GrownBy
      <4>3. QED
        BY <4>1, <4>2
    <3>2. CASE n \notin parents
      <4>1. \E m \in Tree!Path(u)[n] : Tree!Behind(u, m, t.rule[n])
        BY <2>1, <2>4, <3>2
      <4>2. QED
        BY <2>2, <4>1
    <3>3. QED
      BY <3>1, <3>2
  <2>5. QED
    BY <1>14, <2>3, <2>4
<1>15. ASSUME Agrees(levelOf, rank, J), Ordered(t, rank) PROVE Ordered(v, rank)
  <2>1. Ordered(u, rank)
    BY <1>15 DEF Grown
  <2>2. Ranked(rank, J, s)
    BY DEF Ranked
  <2> HIDE DEF J
  <2>3. QED
    BY <1>1, <1>2, <1>3, <1>4, <1>6, <1>15, <2>1, <2>2, GrowthKeepsOrdered
<1>16. Shape(v, J) /\ N <= V
  <2>1. N <= V
    BY <1>1, <1>6
  <2> HIDE DEF J
  <2>2. QED
    BY <1>4, <1>5, <2>1
<1>17. QED
  BY <1>11, <1>12, <1>13, <1>14, <1>15, <1>16 DEF Grown

-----------------------------------------------------------------------------
(* Reading one rule.                                                       *)

LEMMA BelowSidsIs ==
  ASSUME NEW r, NEW levelOf, Len(Tree!IfSid(r)) \in Nat
  PROVE  /\ Tree!BelowSids(r, levelOf)[0] = tree
         /\ \A k \in 1 .. Len(Tree!IfSid(r)) :
              Tree!BelowSids(r, levelOf)[k] =
                Tree!AddBelow(Tree!BelowSids(r, levelOf)[k - 1],
                              Tree!NodesBySid(Tree!BelowSids(r, levelOf)[k - 1],
                                              Tree!IfSid(r)[k]),
                              r.sid, levelOf)
<1> DEFINE L == Len(Tree!IfSid(r))
           Next1(t, k) == Tree!AddBelow(t, Tree!NodesBySid(t, Tree!IfSid(r)[k]), r.sid, levelOf)
           Step(f, k) == IF k = 0 THEN tree ELSE Next1(f[k - 1], k)
           Good(f, n) == /\ f = [k \in 0 .. n |-> f[k]]
                         /\ \A k \in 0 .. n : f[k] = Step(f, k)
           Has == {n \in 0 .. L : \E f : Good(f, n)}
<1> HIDE DEF Next1
<1>1. 0 \in Has
  <2> DEFINE g == [k \in 0 .. 0 |-> tree]
  <2>1. Good(g, 0)
    OBVIOUS
  <2> HIDE DEF g, Good
  <2>2. QED
    BY <2>1
<1>2. ASSUME NEW n \in 0 .. L - 1, n \in Has PROVE n + 1 \in Has
  <2>1. PICK f : Good(f, n)
    BY <1>2
  <2> DEFINE g == [k \in 0 .. n + 1 |-> Step(f, k)]
  <2>2. ASSUME NEW k \in 0 .. n + 1 PROVE g[k] = Step(g, k)
    <3>1. CASE k = 0
      BY <3>1
    <3>2. CASE k # 0
      <4>1. k - 1 \in 0 .. n /\ k - 1 \in 0 .. n + 1
        BY <3>2
      <4>2. f[k - 1] = g[k - 1]
        BY <2>1, <4>1
      <4>3. QED
        BY <3>2, <4>2
    <3>3. QED
      BY <3>1, <3>2
  <2>3. g = [k \in 0 .. n + 1 |-> g[k]]
    OBVIOUS
  <2> HIDE DEF g
  <2>4. Good(g, n + 1)
    BY <2>2, <2>3
  <2>5. n + 1 \in 0 .. L
    OBVIOUS
  <2> HIDE DEF Good
  <2>6. QED
    BY <2>4, <2>5
<1> HIDE DEF Has
<1>3. \A n \in 0 .. L : n \in Has
  BY <1>1, <1>2, UpTo
<1>4. PICK h : Good(h, L)
  <2>1. L \in Has
    BY <1>3
  <2>2. QED
    BY <2>1 DEF Has
<1>5. h = [k \in 0 .. L |-> Step(h, k)]
  BY <1>4
<1>6. Tree!BelowSids(r, levelOf) = CHOOSE f : f = [k \in 0 .. L |-> Step(f, k)]
  BY DEF Tree!BelowSids, Next1
<1>7. PICK f : f = Tree!BelowSids(r, levelOf) /\ f = [k \in 0 .. L |-> Step(f, k)]
  BY <1>5, <1>6
<1>8. \A k \in 0 .. L : f[k] = Step(f, k)
  BY <1>7
<1>9. f[0] = tree
  BY <1>8
<1>10. \A k \in 1 .. L : f[k] = Next1(f[k - 1], k)
  BY <1>8
<1>11. QED
  BY <1>7, <1>9, <1>10 DEF Next1

LEMMA NodesBySidIs ==
  ASSUME NEW u, NEW K, Shape(u, K), NEW q, \A n \in 1 .. Len(u.rule) :
           \A m \in Tree!Path(u)[n] \ {n} : u.rule[n] = q => u.rule[m] # q
  PROVE  /\ Tree!NodesBySid(u, q) \in SUBSET (1 .. Len(u.rule))
         /\ \A n \in Tree!NodesBySid(u, q) : u.rule[n] = q
         /\ \A n \in 1 .. Len(u.rule) : u.rule[n] = q /\ n \notin Tree!NodesBySid(u, q) =>
              \E m \in Tree!Path(u)[n] : Tree!Behind(u, m, q)
<1>1. DOMAIN u.rule = 1 .. Len(u.rule)
  BY ShapeIs
<1>2. QED
  BY <1>1 DEF Tree!NodesBySid, Tree!NodesOf

-----------------------------------------------------------------------------
(* The inductive invariant of the tree.                                    *)

TreeTypes ==
  /\ phase \in {"reading", "exit", "ready"}
  /\ read \in Seq(Candidates) /\ Len(read) <= MaxRules
  /\ DOMAIN info \subseteq Nat \ {0}
  /\ \A s \in DOMAIN info : /\ info[s].level \in Nat /\ info[s].level <= 9900
                            /\ info[s].category \in Categories
                            /\ info[s].noalert \in BOOLEAN
  /\ sid_lists \subseteq DOMAIN info
  /\ group_lists \in [DOMAIN info -> Seq(1 .. Len(read))]
  /\ below \in [DOMAIN info -> SUBSET DOMAIN info]
  /\ placed \in [DOMAIN info -> [level : Nat, at : Nat]]
  /\ \A s \in DOMAIN info : placed[s].level <= 9900 /\ placed[s].at \in 1 .. Len(read)

(* A rule asks for rules that were read before it.                         *)
ReadBefore ==
  /\ \A s \in DOMAIN info : read[placed[s].at].sid = s
  /\ \A s \in DOMAIN info : \A q \in below[s] : placed[q].at < placed[s].at
  /\ \A k \in 1 .. Len(read) : read[k].overwrite => read[k].sid \in DOMAIN info

(* At the top there is one node of each template; elsewhere every node is  *)
(* below a rule that its own asked for.                                    *)
NodesAsked ==
  /\ \A n \in 1 .. Len(tree.rule) :
       IF tree.up[n] = 0 THEN tree.rule[n] < 10
       ELSE tree.rule[tree.up[n]] \in below[tree.rule[n]]
  /\ \A s \in DOMAIN info : /\ \E n \in 1 .. Len(tree.rule) : tree.rule[n] = s
                            /\ s < 10 => below[s] = {}
  /\ \A n, m \in 1 .. Len(tree.rule) :
       tree.rule[n] = tree.rule[m] /\ tree.rule[n] < 10 => n = m

(* A node without a child for a rule that asked for its rule is one that   *)
(* the search left behind.                                                 *)
Covered ==
  \A c \in DOMAIN info : \A n \in 1 .. Len(tree.rule) :
    tree.rule[n] \in below[c] =>
      \/ \E x \in 1 .. Len(tree.rule) : tree.up[x] = n /\ tree.rule[x] = c
      \/ \E m \in Tree!Path(tree)[n] : Tree!Behind(tree, m, tree.rule[n])

(* Templates, which are not overwritten, always stand in order.            *)
InOrder ==
  /\ SortedBelow(tree, 0, placed)
  /\ Tree!LevelsKept => Ordered(tree, placed)

LevelsPlaced ==
  phase = "reading" =>
    \A s \in DOMAIN info : s < 10 \/ Tree!LevelsKept => info[s].level = placed[s].level

TreeCore ==
  /\ TreeTypes /\ Shape(tree, DOMAIN info) /\ ReadBefore
  /\ NodesAsked /\ Covered /\ InOrder /\ LevelsPlaced

LEMMA AboveIsEarlier ==
  ASSUME Shape(tree, DOMAIN info), TreeTypes, ReadBefore, NodesAsked
  PROVE  \A n \in 1 .. Len(tree.rule) : \A m \in Tree!Path(tree)[n] \ {n} :
           placed[tree.rule[m]].at < placed[tree.rule[n]].at
<1> DEFINE N == Len(tree.rule)
           When(n) == placed[tree.rule[n]].at
           P == {k \in 0 .. N : \A n \in 1 .. k : \A m \in Tree!Path(tree)[n] \ {n} :
                                  When(m) < When(n)}
<1>1. /\ N \in Nat /\ \A n \in 1 .. N : tree.rule[n] \in DOMAIN info
      /\ \A n \in 1 .. N : tree.up[n] \in 0 .. N /\ tree.up[n] < n
  BY ShapeIs DEF Shape
<1>2. \A n \in 1 .. N : When(n) \in Nat
  <2>1. Len(read) \in Nat
    BY LenProperties DEF TreeTypes
  <2>2. QED
    BY <1>1 DEF TreeTypes
<1>3. ASSUME NEW n \in 1 .. N, tree.up[n] # 0 PROVE When(tree.up[n]) < When(n)
  <2>1. PICK q, s : q = tree.rule[tree.up[n]] /\ s = tree.rule[n]
    OBVIOUS
  <2>2. q \in below[s]
    BY <1>3, <2>1 DEF NodesAsked
  <2>3. s \in DOMAIN info
    BY <1>1, <2>1
  <2>4. placed[q].at < placed[s].at
    BY <2>2, <2>3 DEF ReadBefore
  <2>5. QED
    BY <2>1, <2>4
<1>4. \A n \in 1 .. N :
        /\ Tree!Path(tree)[n] =
             {n} \cup (IF tree.up[n] = 0 THEN {} ELSE Tree!Path(tree)[tree.up[n]])
        /\ Tree!Path(tree)[n] \in SUBSET (1 .. n)
  BY PathOfShape
<1> HIDE DEF N, When
<1>5. 0 \in P
  BY <1>1
<1>6. ASSUME NEW k \in 0 .. N - 1, k \in P PROVE k + 1 \in P
  <2>1. k + 1 \in 1 .. N /\ k + 1 \in 0 .. N /\ k \in Nat
    BY <1>1
  <2>2. \A n \in 1 .. k : \A m \in Tree!Path(tree)[n] \ {n} : When(m) < When(n)
    BY <1>6
  <2>3. ASSUME NEW m \in Tree!Path(tree)[k + 1] \ {k + 1} PROVE When(m) < When(k + 1)
    <3>1. PICK p : p = tree.up[k + 1]
      OBVIOUS
    <3>2. p # 0 /\ m \in Tree!Path(tree)[p]
      BY <1>4, <2>1, <3>1
    <3>3. p \in 1 .. k /\ When(p) < When(k + 1)
      BY <1>1, <1>3, <2>1, <3>1, <3>2
    <3>4. m = p \/ When(m) < When(p)
      BY <2>2, <3>2, <3>3
    <3>5. m \in 1 .. N /\ p \in 1 .. N
      <4>1. m \in 1 .. k + 1
        BY <1>4, <2>1
      <4>2. QED
        BY <1>1, <2>1, <3>3, <4>1
    <3>6. When(m) \in Nat /\ When(p) \in Nat /\ When(k + 1) \in Nat
      BY <1>2, <2>1, <3>5
    <3>7. QED
      BY <3>3, <3>4, <3>6
  <2>4. \A n \in 1 .. k + 1 : n \in 1 .. k \/ n = k + 1
    BY <2>1
  <2>5. QED
    BY <2>1, <2>2, <2>3, <2>4
<1> HIDE DEF P
<1>7. \A k \in 0 .. N : k \in P
  BY <1>1, <1>5, <1>6, UpTo
<1>8. N \in P
  BY <1>1, <1>7
<1>9. QED
  BY <1>8 DEF N, P, When

(* The elements of a rule.                                                 *)
LEMMA CandidateIs ==
  ASSUME NEW r \in Candidates
  PROVE  /\ r.sid \in Nat \ {0} /\ r.category \in Categories /\ r.noalert \in BOOLEAN
         /\ Tree!IfSid(r) \in Seq(Nat)
         /\ \A g, h \in Tree!IfGroup(r) : g = h
         /\ Tree!ReadLevel(r) \in Nat /\ Tree!ReadLevel(r) <= 9900
         /\ r.overwrite => ~ (r.sid < 10)
<1>1. Tree!Element(r)
  BY TreeAssumption
<1>2. r.sid \in Nat \ {0} /\ r.category \in Categories
  BY <1>1 DEF Tree!Element
<1>3. r.noalert \in BOOLEAN /\ r.accurate \in BOOLEAN
  BY <1>1 DEF Tree!Element
<1>4. Tree!IfSid(r) \in Seq(Nat)
  BY <1>1 DEF Tree!Element, Tree!IfSid
<1>5. \A g, h \in Tree!IfGroup(r) : g = h
  BY <1>1 DEF Tree!Element, Tree!IfGroup
<1>6. Tree!ReadLevel(r) \in Nat /\ Tree!ReadLevel(r) <= 9900
  <2>1. PICK l \in 0 .. 16 : l = r.level
    BY <1>1 DEF Tree!Element
  <2>2. PICK f \in 1 .. 99 : f = IF l = 0 THEN 99 ELSE l
    OBVIOUS
  <2>3. Tree!ReadLevel(r) = f * (IF r.accurate THEN 100 ELSE 1)
    BY <2>1, <2>2 DEF Tree!ReadLevel
  <2>4. PICK x, y : x = f * 100 /\ y = f * 1
    OBVIOUS
  <2>5. x \in Nat /\ x <= 9900 /\ y \in Nat /\ y <= 9900
    BY <2>4
  <2>6. Tree!ReadLevel(r) = x \/ Tree!ReadLevel(r) = y
    BY <1>3, <2>3, <2>4
  <2>7. QED
    BY <2>5, <2>6
<1>7. r.overwrite => ~ (r.sid < 10)
  BY <1>1 DEF Tree!Element
<1>8. QED
  BY <1>2, <1>3, <1>4, <1>5, <1>6, <1>7

(* No rule is below itself.                                                *)
NoneBelowItself ==
  \A n \in 1 .. Len(tree.rule) : \A m \in Tree!Path(tree)[n] \ {n} :
    tree.rule[m] # tree.rule[n]

LEMMA NoneBelowItselfHolds ==
  ASSUME TreeCore PROVE NoneBelowItself
<1>1. /\ Shape(tree, DOMAIN info) /\ TreeTypes /\ ReadBefore /\ NodesAsked
  BY DEF TreeCore
<1>2. \A n \in 1 .. Len(tree.rule) : \A m \in Tree!Path(tree)[n] \ {n} :
        placed[tree.rule[m]].at < placed[tree.rule[n]].at
  BY <1>1, AboveIsEarlier
<1>3. ASSUME NEW n \in 1 .. Len(tree.rule), NEW m \in Tree!Path(tree)[n] \ {n},
             tree.rule[m] = tree.rule[n]
      PROVE  FALSE
  <2>1. PICK a : a = placed[tree.rule[n]].at
    OBVIOUS
  <2>2. a \in Nat
    <3>1. tree.rule[n] \in DOMAIN info /\ Len(read) \in Nat
      BY <1>1, ShapeIs, LenProperties DEF TreeTypes
    <3>2. QED
      BY <1>1, <2>1, <3>1 DEF TreeTypes
  <2>3. a < a
    BY <1>2, <1>3, <2>1
  <2>4. QED
    BY <2>2, <2>3
<1>4. QED
  BY <1>3 DEF NoneBelowItself

(* The parents named by their ids get their children one after the other.  *)
LEMMA SidsGrown ==
  ASSUME NEW K, Shape(tree, K), NoneBelowItself, NEW r, r.sid \notin K,
         Tree!IfSid(r) \in Seq(Nat), Tree!ToSet(Tree!IfSid(r)) \subseteq K,
         NEW rank, NEW levelOf, Ranked(rank, K, r.sid)
  PROVE  Grown(tree, Tree!BelowSids(r, levelOf)[Len(Tree!IfSid(r))], K, r.sid,
               Tree!ToSet(Tree!IfSid(r)), rank, levelOf)
<1> DEFINE ids == Tree!IfSid(r)
           L == Len(ids)
           B(k) == Tree!BelowSids(r, levelOf)[k]
           Q(k) == {ids[j] : j \in 1 .. k}
           P == {k \in 0 .. L : Grown(tree, B(k), K, r.sid, Q(k), rank, levelOf)}
<1>1. L \in Nat /\ DOMAIN ids = 1 .. L
  BY LenProperties
<1>2. Q(L) = Tree!ToSet(ids)
  BY <1>1 DEF Tree!ToSet
<1>3. /\ B(0) = tree
      /\ \A k \in 1 .. L :
           B(k) = Tree!AddBelow(B(k - 1), Tree!NodesBySid(B(k - 1), ids[k]), r.sid, levelOf)
  BY <1>1, BelowSidsIs
<1>4. \A k \in 1 .. L : ids[k] \in K
  BY <1>2
<1> HIDE DEF B, ids
<1>5. 0 \in P
  <2>1. Q(0) = {}
    OBVIOUS
  <2> HIDE DEF Q
  <2>2. Grown(tree, B(0), K, r.sid, Q(0), rank, levelOf)
    BY <1>3, <2>1, GrownNot
  <2>3. QED
    BY <1>1, <2>2
<1>6. ASSUME NEW k \in 0 .. L - 1, k \in P PROVE k + 1 \in P
  <2>1. k + 1 \in 1 .. L /\ k + 1 - 1 = k
    BY <1>1
  <2>2. PICK u, v, q : u = B(k) /\ v = B(k + 1) /\ q = ids[k + 1]
    OBVIOUS
  <2>3. v = Tree!AddBelow(u, Tree!NodesBySid(u, q), r.sid, levelOf)
    BY <1>3, <2>1, <2>2
  <2>4. Grown(tree, u, K, r.sid, Q(k), rank, levelOf)
    BY <1>6, <2>2
  <2>5. Q(k) \cup {q} = Q(k + 1)
    BY <1>1, <2>1, <2>2
  <2>6. q \in K
    BY <1>4, <2>1, <2>2
  <2> HIDE DEF Q, P
  <2>7. Shape(u, K \cup {r.sid}) /\ Len(tree.rule) <= Len(u.rule)
    BY <2>4 DEF Grown
  <2>8. Len(tree.rule) \in Nat /\ Len(u.rule) \in Nat
    BY <2>7, ShapeIs
  <2>9. ASSUME NEW n \in 1 .. Len(u.rule), NEW m \in Tree!Path(u)[n] \ {n},
               u.rule[n] = q, u.rule[m] = q
        PROVE  FALSE
    <3>1. n \in 1 .. Len(tree.rule)
      <4>1. n \notin Len(tree.rule) + 1 .. Len(u.rule)
        BY <2>4, <2>6, <2>9 DEF Grown
      <4>2. QED
        BY <2>7, <2>8, <4>1
    <3>2. Tree!Path(u)[n] = Tree!Path(tree)[n] /\ u.rule[n] = tree.rule[n]
      BY <2>4, <3>1 DEF Grown
    <3>3. m \in 1 .. n
      <4>1. Tree!Path(tree)[n] \in SUBSET (1 .. n)
        BY <3>1, PathOfShape
      <4>2. QED
        BY <3>2, <4>1
    <3>4. m \in 1 .. Len(tree.rule)
      BY <2>8, <3>1, <3>3
    <3>5. u.rule[m] = tree.rule[m]
      BY <2>4, <3>4 DEF Grown
    <3>6. QED
      BY <2>9, <3>1, <3>2, <3>5 DEF NoneBelowItself
  <2>10. /\ Tree!NodesBySid(u, q) \in SUBSET (1 .. Len(u.rule))
         /\ \A n \in Tree!NodesBySid(u, q) : u.rule[n] = q
         /\ \A n \in 1 .. Len(u.rule) : u.rule[n] = q /\ n \notin Tree!NodesBySid(u, q) =>
              \E m \in Tree!Path(u)[n] : Tree!Behind(u, m, q)
    BY <2>7, <2>9, NodesBySidIs
  <2>11. Grown(tree, v, K, r.sid, Q(k) \cup {q}, rank, levelOf)
    <3>1. /\ \A n \in Tree!NodesBySid(u, q) : u.rule[n] \in {q}
          /\ \A n \in 1 .. Len(u.rule) :
               u.rule[n] \in {q} /\ n \notin Tree!NodesBySid(u, q) =>
                 \E m \in Tree!Path(u)[n] : Tree!Behind(u, m, u.rule[n])
      BY <2>10
    <3>2. {q} \in SUBSET K
      BY <2>6
    <3>3. QED
      BY <2>3, <2>4, <2>10, <3>1, <3>2, GrownFurther
  <2>12. QED
    <3>1. Grown(tree, B(k + 1), K, r.sid, Q(k + 1), rank, levelOf)
      BY <2>2, <2>5, <2>11
    <3>2. k + 1 \in 0 .. L
      BY <1>1, <2>1
    <3>3. QED
      BY <3>1, <3>2 DEF P
<1> HIDE DEF P
<1>7. \A k \in 0 .. L : k \in P
  BY <1>1, <1>5, <1>6, UpTo
<1>8. L \in P
  BY <1>1, <1>7
<1>9. Grown(tree, B(L), K, r.sid, Q(L), rank, levelOf)
  BY <1>8 DEF P
<1>10. QED
  BY <1>2, <1>9 DEF B, ids

(* By level, by group and by category the parents are all the nodes of     *)
(* the rules asked for.                                                    *)
LEMMA AllGrown ==
  ASSUME NEW K, Shape(tree, K), NEW s, s \notin K, NEW R \in SUBSET K,
         NEW rank, NEW levelOf, Ranked(rank, K, s),
         NEW parents, parents = {n \in 1 .. Len(tree.rule) : tree.rule[n] \in R}
  PROVE  Grown(tree, Tree!AddBelow(tree, parents, s, levelOf), K, s, R, rank, levelOf)
<1>1. Grown(tree, tree, K, s, {}, rank, levelOf)
  BY GrownNot
<1>2. parents \in SUBSET (1 .. Len(tree.rule)) /\ \A n \in parents : tree.rule[n] \in R
  OBVIOUS
<1>3. \A n \in 1 .. Len(tree.rule) : tree.rule[n] \in R /\ n \notin parents =>
        \E m \in Tree!Path(tree)[n] : Tree!Behind(tree, m, tree.rule[n])
  OBVIOUS
<1>4. PICK v : v = Tree!AddBelow(tree, parents, s, levelOf)
  OBVIOUS
<1>5. Grown(tree, v, K, s, {} \cup R, rank, levelOf)
  BY <1>1, <1>2, <1>3, <1>4, GrownFurther
<1>6. {} \cup R = R
  OBVIOUS
<1>7. QED
  BY <1>4, <1>5, <1>6

(* The templates stand at the top, each with one node.                     *)
LEMMA TopIs ==
  ASSUME TreeCore
  PROVE  /\ \A k \in 1 .. Len(tree.child[0]) :
              /\ tree.child[0][k] \in 1 .. Len(tree.rule)
              /\ tree.rule[tree.child[0][k]] \in DOMAIN info
              /\ tree.rule[tree.child[0][k]] < 10
         /\ \A s \in DOMAIN info : s < 10 =>
              \E k \in 1 .. Len(tree.child[0]) : tree.rule[tree.child[0][k]] = s
<1>1. Shape(tree, DOMAIN info) /\ NodesAsked
  BY DEF TreeCore
<1>2. 0 \in 0 .. Len(tree.rule)
  BY <1>1, ShapeIs
<1>3. \A k \in 1 .. Len(tree.child[0]) : tree.child[0][k] \in 1 .. Len(tree.rule)
  BY <1>1, <1>2, ShapeIs
<1>4. \A n \in 1 .. Len(tree.rule) : tree.rule[n] \in DOMAIN info
  BY <1>1, ShapeIs
<1>5. ASSUME NEW k \in 1 .. Len(tree.child[0]) PROVE tree.rule[tree.child[0][k]] < 10
  <2>1. tree.up[tree.child[0][k]] = 0
    BY <1>1, <1>2 DEF Shape
  <2>2. QED
    BY <1>1, <1>3, <2>1 DEF NodesAsked
<1>6. ASSUME NEW s \in DOMAIN info, s < 10
      PROVE  \E k \in 1 .. Len(tree.child[0]) : tree.rule[tree.child[0][k]] = s
  <2>1. PICK n \in 1 .. Len(tree.rule) : tree.rule[n] = s
    BY <1>1 DEF NodesAsked
  <2>2. below[s] = {}
    BY <1>1, <1>6 DEF NodesAsked
  <2>3. tree.up[n] = 0
    BY <1>1, <2>1, <2>2 DEF NodesAsked
  <2>4. \E k \in 1 .. Len(tree.child[0]) : tree.child[0][k] = n
    BY <1>1, <2>3 DEF Shape
  <2>5. QED
    BY <2>1, <2>4
<1>7. QED
  BY <1>3, <1>4, <1>5, <1>6

LEMMA PlacedTypes ==
  ASSUME TreeTypes
  PROVE  /\ Len(read) \in Nat
         /\ \A s \in DOMAIN info : placed[s].level \in Nat /\ placed[s].at \in Nat
         /\ \A s \in DOMAIN info : placed[s].level <= 9900 /\ placed[s].at \in 1 .. Len(read)
<1>1. Len(read) \in Nat
  BY LenProperties DEF TreeTypes
<1>2. \A s \in DOMAIN info : placed[s].level \in Nat /\ placed[s].at \in Nat
  BY DEF TreeTypes
<1>3. \A s \in DOMAIN info : placed[s].level <= 9900 /\ placed[s].at \in 1 .. Len(read)
  BY DEF TreeTypes
<1>4. QED
  BY <1>1, <1>2, <1>3

(* Of two rules only one is tried before the other.                        *)
LEMMA TriedIsOrder ==
  ASSUME TreeTypes, ReadBefore, NEW a \in DOMAIN info, NEW b \in DOMAIN info
  PROVE  /\ Tree!TriedBefore(a, b) <=> Precedes(placed[a], placed[b])
         /\ Tree!TriedBefore(a, b) /\ Tree!TriedBefore(b, a) => a = b
         /\ Tree!TriedBefore(a, a)
         /\ Tree!TriedBefore(a, b) \/ Tree!TriedBefore(b, a)
<1>1. PICK la, lb, ta, tb : /\ la = placed[a].level /\ lb = placed[b].level
                            /\ ta = placed[a].at /\ tb = placed[b].at
  OBVIOUS
<1>2. Len(read) \in Nat
  BY PlacedTypes
<1>3. la \in Nat /\ lb \in Nat /\ ta \in Nat /\ tb \in Nat
  <2>1. placed[a].at \in Nat /\ placed[b].at \in Nat
    BY PlacedTypes
  <2>2. placed[a].level \in Nat /\ placed[b].level \in Nat
    BY PlacedTypes
  <2>3. QED
    BY <1>1, <2>1, <2>2
<1>4. ta = tb => a = b
  BY <1>1 DEF ReadBefore
<1>5. Tree!TriedBefore(a, b) <=> (la > lb \/ (la = lb /\ ta <= tb))
  BY <1>1 DEF Tree!TriedBefore
<1>6. Tree!TriedBefore(b, a) <=> (lb > la \/ (lb = la /\ tb <= ta))
  BY <1>1 DEF Tree!TriedBefore
<1>7. Tree!TriedBefore(a, a) <=> (la > la \/ (la = la /\ ta <= ta))
  BY <1>1 DEF Tree!TriedBefore
<1>8. Tree!TriedBefore(a, b) <=> Precedes(placed[a], placed[b])
  BY <1>1, <1>5 DEF Precedes
<1>9. (Tree!TriedBefore(a, b) /\ Tree!TriedBefore(b, a)) => a = b
  BY <1>3, <1>4, <1>5, <1>6
<1>10. Tree!TriedBefore(a, a) /\ (Tree!TriedBefore(a, b) \/ Tree!TriedBefore(b, a))
  BY <1>3, <1>5, <1>6, <1>7
<1>11. QED
  BY <1>8, <1>9, <1>10

(* The first sibling of a category is the template tried first.            *)
LEMMA CategoryIs ==
  ASSUME TreeCore, NEW c
  PROVE  LET Own == {s \in DOMAIN info :
                       /\ s < 10 /\ info[s].category = c
                       /\ \A q \in DOMAIN info :
                            q < 10 /\ info[q].category = c => Tree!TriedBefore(s, q)}
         IN  Tree!NodesByCategory(tree, c) = {n \in 1 .. Len(tree.rule) : tree.rule[n] \in Own}
<1> DEFINE top == tree.child[0]
           I == {i \in 1 .. Len(top) : info[tree.rule[top[i]]].category = c}
           Own == {s \in DOMAIN info :
                     /\ s < 10 /\ info[s].category = c
                     /\ \A q \in DOMAIN info :
                          q < 10 /\ info[q].category = c => Tree!TriedBefore(s, q)}
<1>1. /\ Shape(tree, DOMAIN info) /\ NodesAsked /\ TreeTypes /\ ReadBefore
      /\ SortedBelow(tree, 0, placed)
  BY DEF TreeCore, InOrder
<1>2. Len(top) \in Nat
  BY <1>1, ShapeIs
<1>3. /\ \A k \in 1 .. Len(top) : /\ top[k] \in 1 .. Len(tree.rule)
                                  /\ tree.rule[top[k]] \in DOMAIN info
                                  /\ tree.rule[top[k]] < 10
      /\ \A s \in DOMAIN info : s < 10 => \E k \in 1 .. Len(top) : tree.rule[top[k]] = s
  BY TopIs
<1>4. CASE I = {}
  <2>1. Tree!NodesByCategory(tree, c) = {}
    BY <1>4 DEF Tree!NodesByCategory, Tree!SelectInSeq
  <2>2. \A s \in DOMAIN info : ~ (s < 10 /\ info[s].category = c)
    BY <1>3, <1>4
  <2>3. QED
    BY <2>1, <2>2
<1>5. CASE I # {}
  <2>1. Min(I) \in I /\ \A k \in I : Min(I) <= k
    BY <1>2, <1>5, MinIs
  <2>2. PICK k : k = Min(I)
    OBVIOUS
  <2>3. Tree!NodesByCategory(tree, c) = {top[k]}
    <3>0. 0 \notin I
      OBVIOUS
    <3>1. Min(I) # 0
      BY <2>1, <3>0
    <3>2. QED
      BY <1>5, <2>2, <3>1 DEF Tree!NodesByCategory, Tree!SelectInSeq, Tree!Min, Min
  <2>4. PICK a : a = tree.rule[top[k]]
    OBVIOUS
  <2>5. k \in 1 .. Len(top) /\ a \in DOMAIN info /\ a < 10 /\ info[a].category = c
    BY <1>3, <2>1, <2>2, <2>4
  <2>6. ASSUME NEW q \in DOMAIN info, q < 10, info[q].category = c
        PROVE  Tree!TriedBefore(a, q)
    <3>1. PICK j \in 1 .. Len(top) : tree.rule[top[j]] = q
      BY <1>3, <2>6
    <3>2. k <= j
      BY <2>1, <2>2, <2>6, <3>1
    <3>3. CASE j = k
      BY <1>1, <2>4, <2>5, <3>1, <3>3, TriedIsOrder
    <3>4. CASE j # k
      <4>1. k < j
        BY <2>5, <3>2, <3>4
      <4>2. Precedes(placed[a], placed[q])
        BY <1>1, <2>4, <2>5, <3>1, <4>1 DEF SortedBelow
      <4>3. QED
        BY <1>1, <2>5, <4>2, TriedIsOrder
    <3>5. QED
      BY <3>3, <3>4
  <2>7. \A b \in Own : b = a
    BY <1>1, <2>5, <2>6, TriedIsOrder
  <2>8. a \in Own
    BY <2>5, <2>6
  <2>9. \A n \in 1 .. Len(tree.rule) : tree.rule[n] = a => n = top[k]
    <3>1. top[k] \in 1 .. Len(tree.rule)
      BY <1>3, <2>5
    <3>2. QED
      BY <1>1, <2>4, <2>5, <3>1 DEF NodesAsked
  <2> HIDE DEF Own
  <2>10. {n \in 1 .. Len(tree.rule) : tree.rule[n] \in Own} = {top[k]}
    BY <1>3, <2>4, <2>5, <2>7, <2>8, <2>9
  <2>11. QED
    BY <2>3, <2>10 DEF Own
<1>6. QED
  BY <1>4, <1>5

LEMMA NotBySidIs ==
  ASSUME TreeCore, NEW r \in Candidates, Tree!IfSid(r) = <<>>
  PROVE  /\ Tree!NotBySid(r) = {n \in 1 .. Len(tree.rule) : tree.rule[n] \in Tree!ParentsAsked(r)}
         /\ Tree!ParentsAsked(r) \subseteq DOMAIN info
<1>1. Shape(tree, DOMAIN info)
  BY DEF TreeCore
<1>2. /\ DOMAIN tree.rule = 1 .. Len(tree.rule)
      /\ \A n \in 1 .. Len(tree.rule) : tree.rule[n] \in DOMAIN info
  BY <1>1, ShapeIs
<1>3. Tree!ParentsAsked(r) \subseteq DOMAIN info
  BY DEF Tree!ParentsAsked, Tree!KnownRules
<1>4. CASE r.if_level # {}
  <2>1. Tree!NotBySid(r) = UNION {Tree!NodesByLevel(tree, l) : l \in r.if_level \ {0}}
    BY <1>4 DEF Tree!NotBySid
  <2>2. Tree!ParentsAsked(r) =
          {s \in DOMAIN info : \E l \in r.if_level \ {0} : info[s].level >= 100 * l}
    BY <1>4 DEF Tree!ParentsAsked, Tree!KnownRules
  <2>3. \A l : Tree!NodesByLevel(tree, l) =
                 {n \in 1 .. Len(tree.rule) : info[tree.rule[n]].level >= 100 * l}
    BY <1>2 DEF Tree!NodesByLevel
  <2>4. QED
    BY <1>2, <1>3, <2>1, <2>2, <2>3
<1>5. CASE r.if_level = {} /\ Tree!IfGroup(r) # {}
  <2>1. Tree!NotBySid(r) = UNION {Tree!NodesByGroup(tree, g) : g \in Tree!IfGroup(r)}
    BY <1>5 DEF Tree!NotBySid
  <2>2. Tree!ParentsAsked(r) = {s \in DOMAIN info : Tree!IfGroup(r) \subseteq info[s].groups}
    BY <1>5 DEF Tree!ParentsAsked, Tree!KnownRules
  <2>3. \A g : Tree!NodesByGroup(tree, g) =
                 {n \in 1 .. Len(tree.rule) : g \in info[tree.rule[n]].groups}
    BY <1>2 DEF Tree!NodesByGroup
  <2>4. PICK g : Tree!IfGroup(r) = {g}
    <3>1. PICK h : h \in Tree!IfGroup(r)
      BY <1>5
    <3>2. \A h1, h2 \in Tree!IfGroup(r) : h1 = h2
      BY CandidateIs
    <3>3. QED
      BY <3>1, <3>2
  <2>5. QED
    BY <1>2, <1>3, <2>1, <2>2, <2>3, <2>4
<1>6. CASE r.if_level = {} /\ Tree!IfGroup(r) = {}
  <2>1. Tree!NotBySid(r) = Tree!NodesByCategory(tree, r.category)
    BY <1>6 DEF Tree!NotBySid
  <2>2. Tree!ParentsAsked(r) =
          {s \in DOMAIN info :
             /\ s < 10 /\ info[s].category = r.category
             /\ \A q \in DOMAIN info :
                  q < 10 /\ info[q].category = r.category => Tree!TriedBefore(s, q)}
    BY <1>6 DEF Tree!ParentsAsked, Tree!KnownRules
  <2>3. QED
    BY <1>3, <2>1, <2>2, CategoryIs
<1>7. QED
  BY <1>4, <1>5, <1>6

(* Reading a rule hangs it below the parents it asked for.                 *)
LEMMA ChildGrown ==
  ASSUME TreeCore, NEW r \in Candidates, r.sid \notin DOMAIN info, ~ Tree!ParentMissing(r),
         NEW rank, NEW levelOf, Ranked(rank, DOMAIN info, r.sid)
  PROVE  /\ Grown(tree, Tree!OS_AddChild(r, levelOf), DOMAIN info, r.sid,
                  Tree!ParentsAsked(r), rank, levelOf)
         /\ Tree!ParentsAsked(r) \subseteq DOMAIN info
<1>1. Shape(tree, DOMAIN info) /\ NoneBelowItself
  BY NoneBelowItselfHolds DEF TreeCore
<1>2. CASE Tree!IfSid(r) # <<>>
  <2>1. /\ Tree!ParentsAsked(r) = Tree!ToSet(Tree!IfSid(r))
        /\ Tree!ToSet(Tree!IfSid(r)) \subseteq DOMAIN info
        /\ Tree!OS_AddChild(r, levelOf) = Tree!BelowSids(r, levelOf)[Len(Tree!IfSid(r))]
    BY <1>2 DEF Tree!ParentMissing, Tree!KnownRules, Tree!OS_AddChild, Tree!ParentsAsked
  <2>2. Tree!IfSid(r) \in Seq(Nat)
    BY CandidateIs
  <2>3. QED
    BY <1>1, <2>1, <2>2, SidsGrown
<1>3. CASE Tree!IfSid(r) = <<>>
  <2>1. PICK R, parents : R = Tree!ParentsAsked(r) /\ parents = Tree!NotBySid(r)
    OBVIOUS
  <2>2. R \subseteq DOMAIN info /\ parents = {n \in 1 .. Len(tree.rule) : tree.rule[n] \in R}
    BY <1>3, <2>1, NotBySidIs
  <2>3. Tree!OS_AddChild(r, levelOf) = Tree!AddBelow(tree, parents, r.sid, levelOf)
    BY <1>3, <2>1 DEF Tree!OS_AddChild
  <2>4. R \in SUBSET DOMAIN info
    BY <2>2
  <2>5. QED
    BY <1>1, <2>1, <2>2, <2>3, <2>4, AllGrown
<1>4. QED
  BY <1>2, <1>3

-----------------------------------------------------------------------------
(* What reading rule r, which has not been read, does to the tree.         *)

(* The places with those of rule r.                                        *)
PlacedWith(r) ==
  [s \in DOMAIN info \cup {r.sid} |->
     IF s \in DOMAIN info THEN placed[s]
     ELSE [level |-> Tree!ReadLevel(r), at |-> Len(read) + 1]]

(* Tree u has new nodes only for rule s: one at the top for a template,    *)
(* and otherwise nodes below the rules Q that it asked for.                *)
Extended(u, s, Q, rank) ==
  /\ Shape(u, DOMAIN info \cup {s})
  /\ Len(tree.rule) <= Len(u.rule)
  /\ \A n \in 1 .. Len(tree.rule) :
       /\ u.rule[n] = tree.rule[n] /\ u.up[n] = tree.up[n]
       /\ Tree!Path(u)[n] = Tree!Path(tree)[n]
       /\ \A q : Tree!Behind(tree, n, q) => Tree!Behind(u, n, q)
  /\ \A n \in Len(tree.rule) + 1 .. Len(u.rule) :
       /\ u.rule[n] = s
       /\ IF s < 10 THEN u.up[n] = 0
          ELSE u.up[n] \in 1 .. Len(tree.rule) /\ tree.rule[u.up[n]] \in Q
  /\ s < 10 => \A n, m \in Len(tree.rule) + 1 .. Len(u.rule) : n = m
  /\ \A n \in 1 .. Len(tree.rule) : tree.rule[n] \in Q =>
       \/ \E x \in 1 .. Len(u.rule) : u.up[x] = n /\ u.rule[x] = s
       \/ \E m \in Tree!Path(u)[n] : Tree!Behind(u, m, tree.rule[n])
  /\ SortedBelow(u, 0, rank)
  /\ Tree!LevelsKept => Ordered(u, rank)

LEMMA RankedIs ==
  ASSUME TreeTypes, NEW r \in Candidates, r.sid \notin DOMAIN info
  PROVE  /\ Ranked(PlacedWith(r), DOMAIN info, r.sid)
         /\ PlacedWith(r)[r.sid] = [level |-> Tree!ReadLevel(r), at |-> Len(read) + 1]
         /\ \A q \in DOMAIN info : PlacedWith(r)[q] = placed[q]
<1>1. PICK rank, l : rank = PlacedWith(r) /\ l = Len(read)
  OBVIOUS
<1>2. rank[r.sid] = [level |-> Tree!ReadLevel(r), at |-> l + 1]
  BY <1>1 DEF PlacedWith
<1>3. \A q \in DOMAIN info : rank[q] = placed[q]
  BY <1>1 DEF PlacedWith
<1>4. l \in Nat
  BY <1>1, PlacedTypes
<1>5. rank[r.sid] \in [level : Nat, at : Nat] /\ rank[r.sid].at = l + 1
  <2>1. PICK x : x = Tree!ReadLevel(r)
    OBVIOUS
  <2>2. x \in Nat
    BY <2>1, CandidateIs
  <2>3. x \in Nat /\ l + 1 \in Nat
    BY <1>4, <2>2
  <2>4. QED
    BY <1>2, <2>1, <2>3
<1>6. ASSUME NEW q \in DOMAIN info
      PROVE  rank[q] \in [level : Nat, at : Nat] /\ rank[q].at <= l + 1
  <2>1. placed \in [DOMAIN info -> [level : Nat, at : Nat]]
    BY DEF TreeTypes
  <2>2. placed[q] \in [level : Nat, at : Nat]
    BY <2>1
  <2>3. placed[q].at \in 1 .. l
    BY <1>1, PlacedTypes
  <2>4. PICK a : a = placed[q].at
    OBVIOUS
  <2>5. a <= l + 1
    BY <1>4, <2>3, <2>4
  <2>6. QED
    BY <1>3, <2>2, <2>4, <2>5
<1>7. Ranked(rank, DOMAIN info, r.sid)
  BY <1>5, <1>6 DEF Ranked
<1>8. QED
  BY <1>1, <1>2, <1>3, <1>7

(* The levels by which the tree is sorted are those the rules came with.   *)
LEMMA LevelsAgree ==
  ASSUME TreeTypes, LevelsPlaced, phase = "reading",
         NEW r \in Candidates, r.sid \notin DOMAIN info
  PROVE  /\ \A q \in DOMAIN info \cup {r.sid} : q < 10 =>
              Tree!LevelsWith(r)[q] = PlacedWith(r)[q].level
         /\ Tree!LevelsWith(r)[r.sid] = PlacedWith(r)[r.sid].level
         /\ Tree!LevelsKept =>
              Agrees(Tree!LevelsWith(r), PlacedWith(r), DOMAIN info \cup {r.sid})
<1>1. PICK rank, levelOf : rank = PlacedWith(r) /\ levelOf = Tree!LevelsWith(r)
  OBVIOUS
<1>2. /\ rank[r.sid] = [level |-> Tree!ReadLevel(r), at |-> Len(read) + 1]
      /\ \A q \in DOMAIN info : rank[q] = placed[q]
  BY <1>1, RankedIs
<1>3. /\ levelOf[r.sid] = Tree!ReadLevel(r)
      /\ \A q \in DOMAIN info : levelOf[q] = info[q].level
  BY <1>1 DEF Tree!LevelsWith, Tree!KnownRules
<1>4. levelOf[r.sid] = rank[r.sid].level
  BY <1>2, <1>3
<1>5. ASSUME NEW q \in DOMAIN info, q < 10 \/ Tree!LevelsKept
      PROVE  levelOf[q] = rank[q].level
  BY <1>2, <1>3, <1>5 DEF LevelsPlaced
<1>6. \A q \in DOMAIN info \cup {r.sid} : q < 10 => levelOf[q] = rank[q].level
  BY <1>4, <1>5
<1>7. Tree!LevelsKept => \A q \in DOMAIN info \cup {r.sid} : levelOf[q] = rank[q].level
  BY <1>4, <1>5
<1>8. QED
  BY <1>1, <1>4, <1>6, <1>7 DEF Agrees

LEMMA ChildExtended ==
  ASSUME TreeCore, phase = "reading", NEW r \in Candidates, r.sid \notin DOMAIN info,
         ~ (r.sid < 10), ~ Tree!ParentMissing(r)
  PROVE  /\ Extended(Tree!OS_AddChild(r, Tree!LevelsWith(r)), r.sid,
                     Tree!ParentsAsked(r), PlacedWith(r))
         /\ Tree!ParentsAsked(r) \subseteq DOMAIN info
<1>1. PICK rank, levelOf, Q, u : /\ rank = PlacedWith(r) /\ levelOf = Tree!LevelsWith(r)
                                 /\ Q = Tree!ParentsAsked(r)
                                 /\ u = Tree!OS_AddChild(r, levelOf)
  OBVIOUS
<1>2. /\ TreeTypes /\ LevelsPlaced /\ InOrder
  BY DEF TreeCore
<1>3. Ranked(rank, DOMAIN info, r.sid) /\ \A q \in DOMAIN info : rank[q] = placed[q]
  BY <1>1, <1>2, RankedIs
<1>4. Grown(tree, u, DOMAIN info, r.sid, Q, rank, levelOf) /\ Q \subseteq DOMAIN info
  BY <1>1, <1>3, ChildGrown
<1>5. /\ Shape(u, DOMAIN info \cup {r.sid}) /\ Shape(tree, DOMAIN info)
      /\ Len(tree.rule) <= Len(u.rule) /\ u.child[0] = tree.child[0]
      /\ \A n \in 1 .. Len(tree.rule) : u.rule[n] = tree.rule[n]
  BY <1>4 DEF Grown, TreeCore
<1>6. /\ \A k \in 1 .. Len(tree.child[0]) :
           /\ tree.child[0][k] \in 1 .. Len(tree.rule)
           /\ tree.rule[tree.child[0][k]] \in DOMAIN info
  BY TopIs
<1>7. SortedBelow(u, 0, rank)
  <2>1. SortedBelow(tree, 0, placed)
    BY <1>2 DEF InOrder
  <2>2. ASSUME NEW k \in 1 .. Len(tree.child[0])
        PROVE  rank[u.rule[u.child[0][k]]] = placed[tree.rule[tree.child[0][k]]]
    BY <1>3, <1>5, <1>6
  <2>3. QED
    BY <1>5, <2>1, <2>2 DEF SortedBelow
<1>8. ASSUME Tree!LevelsKept PROVE Ordered(u, rank)
  <2>1. Agrees(levelOf, rank, DOMAIN info \cup {r.sid})
    BY <1>1, <1>2, <1>8, LevelsAgree
  <2>2. Ordered(tree, placed)
    BY <1>2, <1>8 DEF InOrder
  <2>3. Ordered(tree, rank)
    <3>1. ASSUME NEW m \in 0 .. Len(tree.rule) PROVE SortedBelow(tree, m, rank)
      <4>1. SortedBelow(tree, m, placed)
        BY <2>2 DEF Ordered
      <4>2. \A k \in 1 .. Len(tree.child[m]) : tree.rule[tree.child[m][k]] \in DOMAIN info
        BY <1>5, ShapeIs
      <4>3. QED
        BY <1>3, <4>1, <4>2 DEF SortedBelow
    <3>2. QED
      BY <3>1 DEF Ordered
  <2>4. QED
    BY <1>4, <2>1, <2>3 DEF Grown
<1>9. Extended(u, r.sid, Q, rank)
  BY <1>4, <1>7, <1>8 DEF Grown, Extended
<1>10. QED
  BY <1>1, <1>4, <1>9

LEMMA TemplateExtended ==
  ASSUME TreeCore, phase = "reading", NEW r \in Candidates, r.sid \notin DOMAIN info,
         r.sid < 10
  PROVE  /\ Extended(Tree!AddBelow(tree, {0}, r.sid, Tree!LevelsWith(r)), r.sid, {},
                     PlacedWith(r))
<1>1. PICK rank, levelOf, u, s : /\ rank = PlacedWith(r) /\ levelOf = Tree!LevelsWith(r)
                                 /\ s = r.sid
                                 /\ u = Tree!AddBelow(tree, {0}, s, levelOf)
  OBVIOUS
<1>2. PICK K : K = DOMAIN info
  OBVIOUS
<1>3. TreeTypes /\ LevelsPlaced /\ InOrder /\ Shape(tree, K)
  BY <1>2 DEF TreeCore
<1>4. Ranked(rank, K, s) /\ \A q \in K : rank[q] = placed[q]
  BY <1>1, <1>2, <1>3, RankedIs
<1>5. Len(tree.rule) \in Nat /\ {0} \in SUBSET (0 .. Len(tree.rule))
  BY <1>3, ShapeIs
<1>6. /\ GrownBy(tree, u, {0}, s, levelOf)
      /\ u.rule \in Seq(K \cup {s})
      /\ u.up \in [1 .. Len(u.rule) -> 0 .. Len(u.rule)]
      /\ u.child \in [0 .. Len(u.rule) -> Seq(1 .. Len(u.rule))]
  BY <1>1, <1>3, <1>5, BelowIs
<1>7. Shape(u, K \cup {s})
  BY <1>3, <1>5, <1>6, GrowthKeepsShape
<1>8. Len(u.rule) \in Nat
  BY <1>7, ShapeIs
<1>9. ASSUME NEW n \in 1 .. Len(tree.rule)
      PROVE  /\ Tree!Path(u)[n] = Tree!Path(tree)[n]
             /\ \A q : Tree!Behind(tree, n, q) => Tree!Behind(u, n, q)
  BY <1>3, <1>5, <1>6, <1>7, GrowthKeepsPath, GrowthKeepsBehind
<1>10. /\ Len(tree.rule) <= Len(u.rule)
       /\ \A n \in 1 .. Len(tree.rule) : u.rule[n] = tree.rule[n] /\ u.up[n] = tree.up[n]
       /\ \A n \in Len(tree.rule) + 1 .. Len(u.rule) : u.rule[n] = s /\ u.up[n] = 0
       /\ \A n, m \in Len(tree.rule) + 1 .. Len(u.rule) : n = m
  <2>1. /\ Len(tree.rule) <= Len(u.rule)
        /\ \A n \in 1 .. Len(tree.rule) : u.rule[n] = tree.rule[n] /\ u.up[n] = tree.up[n]
    BY <1>6 DEF GrownBy
  <2>2. /\ \A n \in Len(tree.rule) + 1 .. Len(u.rule) : u.rule[n] = s /\ u.up[n] \in {0}
        /\ \A n, m \in Len(tree.rule) + 1 .. Len(u.rule) : u.up[n] = u.up[m] => n = m
    BY <1>6 DEF GrownBy
  <2>3. QED
    BY <2>1, <2>2, SMTT(30)
<1>11. /\ \A q \in K \cup {s} : q < 10 => levelOf[q] = rank[q].level
       /\ Tree!LevelsKept => Agrees(levelOf, rank, K \cup {s})
  BY <1>1, <1>2, <1>3, LevelsAgree
<1>12. SortedBelow(u, 0, rank)
  <2>1. SortedBelow(tree, 0, placed)
    BY <1>3 DEF InOrder
  <2>2. \A k \in 1 .. Len(tree.child[0]) : /\ tree.rule[tree.child[0][k]] \in K
                                           /\ tree.rule[tree.child[0][k]] < 10
    BY <1>2, TopIs
  <2>3. SortedBelow(tree, 0, rank)
    BY <1>4, <2>1, <2>2 DEF SortedBelow
  <2>4. /\ \A q \in K \cup {s} : rank[q] \in [level : Nat, at : Nat]
        /\ \A q \in K : rank[q].at <= rank[s].at
    BY <1>4 DEF Ranked
  <2>5. levelOf[s] = rank[s].level
    BY <1>1, <1>11
  <2>6. \A k \in 1 .. Len(tree.child[0]) :
          levelOf[tree.rule[tree.child[0][k]]] = rank[tree.rule[tree.child[0][k]]].level
    BY <1>11, <2>2
  <2>7. 0 \in 0 .. Len(tree.rule)
    BY <1>5
  <2>8. PICK parents \in SUBSET (0 .. Len(tree.rule)) : parents = {0}
    BY <1>5
  <2>9. GrownBy(tree, u, parents, s, levelOf)
    BY <1>6, <2>8
  <2>10. QED
    BY <1>3, <1>8, <2>3, <2>4, <2>5, <2>6, <2>7, <2>9, GrowthKeepsOrder, SMTT(30)
<1>13. ASSUME Tree!LevelsKept PROVE Ordered(u, rank)
  <2>1. Agrees(levelOf, rank, K \cup {s})
    BY <1>11, <1>13
  <2>2. Ordered(tree, placed)
    BY <1>3, <1>13 DEF InOrder
  <2>3. Ordered(tree, rank)
    <3>1. ASSUME NEW m \in 0 .. Len(tree.rule) PROVE SortedBelow(tree, m, rank)
      <4>1. SortedBelow(tree, m, placed)
        BY <2>2 DEF Ordered
      <4>2. \A k \in 1 .. Len(tree.child[m]) : tree.rule[tree.child[m][k]] \in K
        BY <1>3, ShapeIs
      <4>3. QED
        BY <1>4, <4>1, <4>2 DEF SortedBelow
    <3>2. QED
      BY <3>1 DEF Ordered
  <2>4. QED
    BY <1>3, <1>4, <1>5, <1>6, <1>8, <2>1, <2>3, GrowthKeepsOrdered
<1>14. Extended(u, s, {}, rank)
  <2>1. s < 10
    BY <1>1
  <2>2. QED
    BY <1>2, <1>7, <1>9, <1>10, <1>12, <1>13, <2>1 DEF Extended
<1>15. QED
  BY <1>1, <1>14

-----------------------------------------------------------------------------
(* Every action keeps the tree as it should be.                            *)

LEMMA AddIs ==
  ASSUME TreeTypes, NEW r, NEW t, NEW category, Tree!Add(r, t, category),
         r.sid \notin DOMAIN info
  PROVE  /\ tree' = t /\ phase' = phase /\ read' = Append(read, r)
         /\ DOMAIN info' = IF Tree!NodesOf(t, r.sid) = {} THEN DOMAIN info
                           ELSE DOMAIN info \cup {r.sid}
         /\ DOMAIN below' = DOMAIN info' /\ DOMAIN placed' = DOMAIN info'
         /\ \A q \in DOMAIN info :
              info'[q] = info[q] /\ below'[q] = below[q] /\ placed'[q] = placed[q]
         /\ r.sid \in DOMAIN info' =>
              /\ info'[r.sid] = Tree!RuleInfo(r, category, DOMAIN info', Len(read) + 1)
              /\ below'[r.sid] = IF r.sid < 10 THEN {} ELSE Tree!ParentsAsked(r)
              /\ placed'[r.sid] = [level |-> Tree!ReadLevel(r), at |-> Len(read) + 1]
         /\ below' = [q \in DOMAIN info' |-> below'[q]]
         /\ placed' = [q \in DOMAIN info' |-> placed'[q]]
         /\ Tree!Mark(r, info',
                      [q \in DOMAIN info' |->
                         IF q \in DOMAIN info THEN group_lists[q] ELSE <<>>], t)
<1> DEFINE known == IF Tree!NodesOf(t, r.sid) = {} THEN DOMAIN info
                    ELSE DOMAIN info \cup {r.sid}
           rules == [s \in known |-> IF s \in DOMAIN info THEN info[s]
                       ELSE Tree!RuleInfo(r, category, known, Len(read) + 1)]
<1>1. /\ tree' = t
      /\ info' = rules
      /\ Tree!Mark(r, rules, [s \in known |-> IF s \in DOMAIN info THEN group_lists[s]
                                              ELSE <<>>], t)
      /\ read' = Append(read, r)
      /\ below' = [s \in known |-> IF s \in DOMAIN info THEN below[s]
                     ELSE IF s < 10 THEN {} ELSE Tree!ParentsAsked(r)]
      /\ placed' = [s \in known |-> IF s \in DOMAIN info THEN placed[s]
                      ELSE [level |-> Tree!ReadLevel(r), at |-> Len(read) + 1]]
      /\ phase' = phase
  BY DEF Tree!Add, Tree!KnownRules
<1>2. DOMAIN info' = known /\ DOMAIN info \subseteq known
  BY <1>1
<1>3. known \subseteq DOMAIN info \cup {r.sid}
  OBVIOUS
<1> HIDE DEF known
<1>4. /\ DOMAIN below' = known /\ DOMAIN placed' = known
      /\ below' = [q \in known |-> below'[q]] /\ placed' = [q \in known |-> placed'[q]]
  BY <1>1
<1>5. ASSUME NEW q \in DOMAIN info
      PROVE  info'[q] = info[q] /\ below'[q] = below[q] /\ placed'[q] = placed[q]
  BY <1>1, <1>2
<1>6. ASSUME r.sid \in known
      PROVE  /\ info'[r.sid] = Tree!RuleInfo(r, category, known, Len(read) + 1)
             /\ below'[r.sid] = IF r.sid < 10 THEN {} ELSE Tree!ParentsAsked(r)
             /\ placed'[r.sid] = [level |-> Tree!ReadLevel(r), at |-> Len(read) + 1]
  BY <1>1, <1>6
<1>7. Tree!Mark(r, info', [s \in known |-> IF s \in DOMAIN info THEN group_lists[s]
                                           ELSE <<>>], t)
  BY <1>1
<1>8. QED
  BY <1>1, <1>2, <1>4, <1>5, <1>6, <1>7 DEF known

LEMMA NodesFinite ==
  ASSUME NEW t, NEW K, Shape(t, K), NEW q
  PROVE  /\ IsFiniteSet(Tree!NodesOf(t, q))
         /\ Tree!Cardinality(Tree!NodesOf(t, q)) = Cardinality(Tree!NodesOf(t, q))
         /\ Tree!Cardinality(Tree!NodesOf(t, q)) \in Nat
         /\ Tree!Cardinality(Tree!NodesOf(t, q)) = 0 <=> Tree!NodesOf(t, q) = {}
<1>1. Len(t.rule) \in Nat /\ DOMAIN t.rule = 1 .. Len(t.rule)
  BY ShapeIs
<1>2. PICK l, S : l = Len(t.rule) /\ S = Tree!NodesOf(t, q)
  OBVIOUS
<1>3. S \subseteq 1 .. l
  BY <1>1, <1>2 DEF Tree!NodesOf
<1>4. IsFiniteSet(1 .. l)
  BY <1>1, <1>2, FS_Interval
<1>5. IsFiniteSet(S)
  BY <1>3, <1>4, FS_Subset
<1>6. Cardinality(S) \in Nat /\ (Cardinality(S) = 0 <=> S = {})
  BY <1>5, FS_CardinalityType, FS_EmptySet
<1>7. QED
  BY <1>2, <1>5, <1>6, SameCardinality

(* The lists that a rule read now is marked for.                           *)
LEMMA MarkTypes ==
  ASSUME NEW r, NEW rules, NEW marked, NEW t, NEW K, Shape(t, K), Tree!Mark(r, rules, marked, t),
         Len(read) \in Nat, sid_lists \subseteq DOMAIN rules,
         \A q \in DOMAIN rules : marked[q] \in Seq(1 .. Len(read))
  PROVE  /\ sid_lists' \subseteq DOMAIN rules
         /\ group_lists' \in [DOMAIN rules -> Seq(1 .. Len(read) + 1)]
<1>1. sid_lists' \subseteq DOMAIN rules
  BY DEF Tree!Mark
<1> DEFINE l == Len(read)
           new(q) == IF /\ r.matched_sid = <<>> /\ r.matched_group # {}
                        /\ r.matched_group \subseteq rules[q].groups
                       THEN [n \in 1 .. Tree!Cardinality(Tree!NodesOf(t, q)) |-> l + 1]
                       ELSE <<>>
<1>2. group_lists' = [q \in DOMAIN rules |-> marked[q] \o new(q)]
  BY DEF Tree!Mark
<1> HIDE DEF l
<1>3. ASSUME NEW q \in DOMAIN rules PROVE new(q) \in Seq(1 .. l + 1)
  <2>1. PICK c : c = Tree!Cardinality(Tree!NodesOf(t, q))
    OBVIOUS
  <2>2. c \in Nat
    BY <2>1, NodesFinite
  <2>3. l \in Nat
    BY DEF l
  <2>4. l + 1 \in 1 .. l + 1
    BY <2>3
  <2>5. [n \in 1 .. c |-> l + 1] \in Seq(1 .. l + 1)
    BY <2>2, <2>4, IsASeq
  <2>6. <<>> \in Seq(1 .. l + 1)
    BY EmptySeq
  <2>7. QED
    BY <2>1, <2>5, <2>6
<1> HIDE DEF new
<1>4. ASSUME NEW q \in DOMAIN rules PROVE marked[q] \o new(q) \in Seq(1 .. l + 1)
  <2>1. 1 .. l \subseteq 1 .. l + 1
    BY DEF l
  <2>2. marked[q] \in Seq(1 .. l)
    BY DEF l
  <2>3. marked[q] \in Seq(1 .. l + 1)
    BY <2>1, <2>2, SeqOfLarger
  <2>4. QED
    BY <1>3, <2>3, ConcatProperties
<1>5. group_lists' \in [DOMAIN rules -> Seq(1 .. l + 1)]
  BY <1>2, <1>4
<1>6. QED
  BY <1>1, <1>5 DEF l

LEMMA ReadLonger ==
  ASSUME TreeTypes, NEW r \in Candidates, read' = Append(read, r)
  PROVE  /\ read' \in Seq(Candidates) /\ Len(read') = Len(read) + 1
         /\ \A k \in 1 .. Len(read) : k \in 1 .. Len(read') /\ read'[k] = read[k]
         /\ Len(read) + 1 \in 1 .. Len(read') /\ read'[Len(read) + 1] = r
         /\ \A k \in 1 .. Len(read') : k \in 1 .. Len(read) \/ k = Len(read) + 1
<1>1. PICK l : l = Len(read)
  OBVIOUS
<1>2. read \in Seq(Candidates)
  BY DEF TreeTypes
<1>3. l \in Nat
  BY <1>1, PlacedTypes
<1>4. /\ read' \in Seq(Candidates) /\ Len(read') = l + 1
      /\ \A k \in 1 .. l : read'[k] = read[k]
      /\ read'[l + 1] = r
  BY <1>1, <1>2, AppendProperties
<1>5. QED
  BY <1>1, <1>3, <1>4

(* Only an overwriting decides whether the levels are kept.                *)
LEMMA LevelsStillKept ==
  ASSUME TreeTypes, ReadBefore, NEW r \in Candidates, read' = Append(read, r),
         \A q \in DOMAIN info : placed'[q] = placed[q]
  PROVE  /\ Tree!LevelsKept' => Tree!LevelsKept
         /\ r.overwrite /\ Tree!LevelsKept' =>
              Tree!ReadLevel(r) = placed'[r.sid].level
<1>1. /\ read' \in Seq(Candidates)
      /\ \A k \in 1 .. Len(read) : k \in 1 .. Len(read') /\ read'[k] = read[k]
      /\ Len(read) + 1 \in 1 .. Len(read') /\ read'[Len(read) + 1] = r
  BY ReadLonger
<1>2. DOMAIN read = 1 .. Len(read) /\ DOMAIN read' = 1 .. Len(read')
  BY <1>1, LenProperties DEF TreeTypes
<1>3. ASSUME Tree!LevelsKept', NEW k \in 1 .. Len(read), read[k].overwrite
      PROVE  Tree!ReadLevel(read[k]) = placed[read[k].sid].level
  <2>1. k \in DOMAIN read' /\ read'[k] = read[k]
    BY <1>1, <1>2
  <2>2. Tree!ReadLevel(read'[k]) = placed'[read'[k].sid].level
    BY <1>3, <2>1 DEF Tree!LevelsKept
  <2>3. read[k].sid \in DOMAIN info
    BY <1>3 DEF ReadBefore
  <2>4. QED
    BY <2>1, <2>2, <2>3
<1>4. Tree!LevelsKept' => Tree!LevelsKept
  BY <1>2, <1>3 DEF Tree!LevelsKept
<1>5. ASSUME r.overwrite, Tree!LevelsKept' PROVE Tree!ReadLevel(r) = placed'[r.sid].level
  BY <1>1, <1>2, <1>5 DEF Tree!LevelsKept
<1>6. QED
  BY <1>4, <1>5

LEMMA SortedAlike ==
  ASSUME NEW t, NEW m, NEW rank, NEW other, SortedBelow(t, m, rank),
         \A k \in 1 .. Len(t.child[m]) :
           other[t.rule[t.child[m][k]]] = rank[t.rule[t.child[m][k]]]
  PROVE  SortedBelow(t, m, other)
BY DEF SortedBelow

LEMMA AddKeepsCore ==
  ASSUME TreeCore, phase = "reading", Len(read) < MaxRules,
         NEW r \in Candidates, r.sid \notin DOMAIN info, ~ r.overwrite,
         NEW t, NEW category \in Categories, Tree!Add(r, t, category),
         NEW Q \in SUBSET DOMAIN info,
         Q = IF r.sid < 10 THEN {} ELSE Tree!ParentsAsked(r),
         Extended(t, r.sid, Q, PlacedWith(r))
  PROVE  TreeCore'
<1> DEFINE s == r.sid
           N == Len(tree.rule)
           M == Len(t.rule)
           L == Len(read)
           K == DOMAIN info
           J == DOMAIN info'
           rank == PlacedWith(r)
<1>1. /\ TreeTypes /\ Shape(tree, K) /\ ReadBefore
      /\ NodesAsked /\ Covered /\ InOrder /\ LevelsPlaced
  BY DEF TreeCore
<1>2. /\ tree' = t /\ phase' = phase /\ read' = Append(read, r)
      /\ J = IF Tree!NodesOf(t, s) = {} THEN K ELSE K \cup {s}
      /\ DOMAIN below' = J /\ DOMAIN placed' = J
      /\ \A q \in K : info'[q] = info[q] /\ below'[q] = below[q] /\ placed'[q] = placed[q]
      /\ s \in J => /\ info'[s] = Tree!RuleInfo(r, category, J, L + 1)
                     /\ below'[s] = Q
                     /\ placed'[s] = [level |-> Tree!ReadLevel(r), at |-> L + 1]
      /\ below' = [q \in J |-> below'[q]] /\ placed' = [q \in J |-> placed'[q]]
      /\ Tree!Mark(r, info', [q \in J |-> IF q \in K THEN group_lists[q] ELSE <<>>], t)
  <2>1. /\ tree' = t /\ phase' = phase /\ read' = Append(read, r)
        /\ J = IF Tree!NodesOf(t, s) = {} THEN K ELSE K \cup {s}
        /\ DOMAIN below' = J /\ DOMAIN placed' = J
        /\ \A q \in K :
             info'[q] = info[q] /\ below'[q] = below[q] /\ placed'[q] = placed[q]
    BY <1>1, AddIs
  <2>2. s \in J =>
          /\ info'[s] = Tree!RuleInfo(r, category, J, L + 1)
          /\ below'[s] = IF s < 10 THEN {} ELSE Tree!ParentsAsked(r)
          /\ placed'[s] = [level |-> Tree!ReadLevel(r), at |-> L + 1]
    BY <1>1, AddIs
  <2>3. /\ below' = [q \in J |-> below'[q]] /\ placed' = [q \in J |-> placed'[q]]
        /\ Tree!Mark(r, info', [q \in J |-> IF q \in K THEN group_lists[q] ELSE <<>>], t)
    BY <1>1, AddIs
  <2>4. Q = IF s < 10 THEN {} ELSE Tree!ParentsAsked(r)
    OBVIOUS
  <2> HIDE DEF J, K, s, L
  <2>5. QED
    BY <2>1, <2>2, <2>3, <2>4
<1>3. /\ K \subseteq J /\ J \subseteq K \cup {s}
      /\ \A q \in J : q \in K \/ q = s
  BY <1>2
<1>4. /\ L \in Nat /\ read' \in Seq(Candidates) /\ Len(read') = L + 1
      /\ \A k \in 1 .. L : k \in 1 .. Len(read') /\ read'[k] = read[k]
      /\ L + 1 \in 1 .. Len(read') /\ read'[L + 1] = r
      /\ \A k \in 1 .. Len(read') : k \in 1 .. L \/ k = L + 1
  BY <1>1, <1>2, ReadLonger, PlacedTypes
<1>5. /\ Shape(t, K \cup {s}) /\ N <= M /\ N \in Nat /\ M \in Nat
  BY <1>1, ShapeIs DEF Extended
<1>6. /\ DOMAIN t.rule = 1 .. M
      /\ \A n \in 1 .. M : n \in 1 .. N \/ n \in N + 1 .. M
      /\ \A n \in 1 .. N : n \in 1 .. M
      /\ \A n \in 1 .. N : tree.rule[n] \in K /\ tree.up[n] \in 0 .. N
  BY <1>1, <1>5, ShapeIs
<1>7. /\ \A n \in 1 .. N :
           /\ t.rule[n] = tree.rule[n] /\ t.up[n] = tree.up[n]
           /\ Tree!Path(t)[n] = Tree!Path(tree)[n]
           /\ \A q : Tree!Behind(tree, n, q) => Tree!Behind(t, n, q)
      /\ \A n \in N + 1 .. M :
           /\ t.rule[n] = s
           /\ IF s < 10 THEN t.up[n] = 0
              ELSE t.up[n] \in 1 .. N /\ tree.rule[t.up[n]] \in Q
      /\ s < 10 => \A n, m \in N + 1 .. M : n = m
  BY DEF Extended
<1>8. \A n \in 1 .. M : t.rule[n] \in J
  BY <1>2, <1>3, <1>6, <1>7 DEF Tree!NodesOf
<1>9. /\ Ranked(rank, K, s)
      /\ rank[s] = [level |-> Tree!ReadLevel(r), at |-> L + 1]
      /\ \A q \in K : rank[q] = placed[q]
  BY <1>1, RankedIs
<1>10. \A q \in J : placed'[q] = rank[q]
  BY <1>2, <1>3, <1>9
<1>11. r.sid \in Nat \ {0} /\ r.noalert \in BOOLEAN
  BY CandidateIs
<1>12. Tree!ReadLevel(r) \in Nat /\ Tree!ReadLevel(r) <= 9900
  BY CandidateIs
<1> HIDE DEF J, K, N, M, L, rank, s
<1>13. Shape(t, J)
  <2>1. t.rule \in Seq(J)
    <3>1. t.rule \in [1 .. M -> K \cup {s}]
      <4>1. t.rule \in Seq(K \cup {s})
        BY <1>5 DEF Shape
      <4>2. QED
        BY <4>1, LenProperties DEF M
    <3>2. t.rule = [n \in 1 .. M |-> t.rule[n]]
      BY <3>1
    <3>3. QED
      BY <1>5, <1>8, <3>2, IsASeq
  <2>2. QED
    BY <1>5, <2>1 DEF Shape
<1>14. TreeTypes'
  <2>1. phase' \in {"reading", "exit", "ready"}
    BY <1>2
  <2>2. read' \in Seq(Candidates) /\ Len(read') <= MaxRules
    <3>1. L < MaxRules /\ MaxRules \in Nat
      BY TreeAssumption DEF L
    <3>2. QED
      BY <1>4, <3>1
  <2>3. J \subseteq Nat \ {0}
    <3>1. K \subseteq Nat \ {0}
      BY <1>1 DEF TreeTypes, K
    <3>2. s \in Nat \ {0}
      BY <1>11 DEF s
    <3>3. QED
      BY <1>3, <3>1, <3>2
  <2>4. ASSUME NEW q \in J
        PROVE  /\ info'[q].level \in Nat /\ info'[q].level <= 9900
               /\ info'[q].category \in Categories
               /\ info'[q].noalert \in BOOLEAN
    <3>1. CASE q \in K
      BY <1>1, <1>2, <3>1 DEF TreeTypes, K
    <3>2. CASE q = s
      BY <1>2, <1>11, <1>12, <3>2 DEF Tree!RuleInfo
    <3>3. QED
      BY <1>3, <3>1, <3>2
  <2>5. sid_lists' \subseteq J /\ group_lists' \in [J -> Seq(1 .. L + 1)]
    <3>1. PICK marked : marked = [q \in J |-> IF q \in K THEN group_lists[q] ELSE <<>>]
      OBVIOUS
    <3>2. sid_lists \subseteq J
      BY <1>1, <1>3 DEF TreeTypes, K
    <3>3. ASSUME NEW q \in J PROVE marked[q] \in Seq(1 .. L)
      <4>1. CASE q \in K
        <5>1. group_lists[q] \in Seq(1 .. L)
          BY <1>1, <4>1 DEF TreeTypes, K, L
        <5>2. QED
          BY <3>1, <4>1, <5>1
      <4>2. CASE q \notin K
        <5>1. marked[q] = <<>>
          BY <3>1, <4>2
        <5>2. QED
          BY <5>1, EmptySeq
      <4>3. QED
        BY <4>1, <4>2
    <3>4. PICK rules : rules = info'
      OBVIOUS
    <3>5. Tree!Mark(r, rules, marked, t) /\ DOMAIN rules = J
      BY <1>2, <3>1, <3>4 DEF J
    <3>6. QED
      BY <1>4, <1>13, <3>2, <3>3, <3>5, MarkTypes DEF L
  <2>6. below' \in [J -> SUBSET J]
    <3>1. ASSUME NEW q \in J PROVE below'[q] \in SUBSET J
      <4>1. CASE q \in K
        <5>1. below[q] \in SUBSET K
          BY <1>1, <4>1 DEF TreeTypes, K
        <5>2. QED
          BY <1>2, <1>3, <4>1, <5>1
      <4>2. CASE q = s
        BY <1>2, <1>3, <4>2 DEF K
      <4>3. QED
        BY <1>3, <4>1, <4>2
    <3>2. QED
      BY <1>2, <3>1
  <2>7. placed' \in [J -> [level : Nat, at : Nat]]
    <3>1. ASSUME NEW q \in J PROVE placed'[q] \in [level : Nat, at : Nat]
      BY <1>3, <1>9, <1>10, <3>1 DEF Ranked
    <3>2. QED
      BY <1>2, <3>1
  <2>8. ASSUME NEW q \in J PROVE placed'[q].level <= 9900 /\ placed'[q].at \in 1 .. L + 1
    <3>1. CASE q \in K
      <4>1. placed[q].level <= 9900 /\ placed[q].at \in 1 .. L
        BY <1>1, <3>1, PlacedTypes DEF K, L
      <4>2. PICK a : a = placed[q].at
        OBVIOUS
      <4>3. a \in 1 .. L + 1
        BY <1>4, <4>1, <4>2
      <4>4. QED
        BY <1>2, <3>1, <4>1, <4>2, <4>3
    <3>2. CASE q = s
      <4>1. placed'[q].level = Tree!ReadLevel(r) /\ placed'[q].at = L + 1
        BY <1>2, <3>2
      <4>2. L + 1 \in 1 .. L + 1
        BY <1>4
      <4>3. QED
        BY <1>12, <4>1, <4>2
    <3>3. QED
      BY <1>3, <3>1, <3>2
  <2>9. QED
    BY <1>4, <2>1, <2>2, <2>3, <2>4, <2>5, <2>6, <2>7, <2>8 DEF TreeTypes, J
<1>15. ReadBefore'
  <2>1. ASSUME NEW q \in J PROVE read'[placed'[q].at].sid = q
    <3>1. CASE q \in K
      <4>1. placed[q].at \in 1 .. L /\ read[placed[q].at].sid = q
        BY <1>1, <3>1, PlacedTypes DEF K, L, ReadBefore
      <4>2. QED
        BY <1>2, <1>4, <3>1, <4>1
    <3>2. CASE q = s
      BY <1>2, <1>4, <3>2 DEF s
    <3>3. QED
      BY <1>3, <3>1, <3>2
  <2>2. ASSUME NEW q \in J, NEW p \in below'[q] PROVE placed'[p].at < placed'[q].at
    <3>1. CASE q \in K
      <4>1. p \in below[q] /\ p \in K
        BY <1>1, <1>2, <2>2, <3>1 DEF TreeTypes, K
      <4>2. placed[p].at < placed[q].at
        BY <1>1, <3>1, <4>1 DEF ReadBefore, K
      <4>3. QED
        BY <1>2, <3>1, <4>1, <4>2
    <3>2. CASE q = s
      <4>1. p \in K
        BY <1>2, <2>2, <3>2 DEF K
      <4>2. placed[p].at \in 1 .. L
        BY <1>1, <4>1, PlacedTypes DEF K, L
      <4>3. placed'[q].at = L + 1 /\ placed'[p].at = placed[p].at
        BY <1>2, <2>2, <3>2, <4>1
      <4>4. PICK a : a = placed[p].at
        OBVIOUS
      <4>5. a < L + 1
        BY <1>4, <4>2, <4>4
      <4>6. QED
        BY <4>3, <4>4, <4>5
    <3>3. QED
      BY <1>3, <3>1, <3>2
  <2>3. ASSUME NEW k \in 1 .. Len(read'), read'[k].overwrite PROVE read'[k].sid \in J
    <3>1. k \in 1 .. L /\ read'[k] = read[k]
      BY <1>4, <2>3
    <3>2. read[k].sid \in K
      BY <1>1, <2>3, <3>1 DEF ReadBefore, K, L
    <3>3. QED
      BY <1>3, <3>1, <3>2
  <2>4. QED
    BY <2>1, <2>2, <2>3 DEF ReadBefore, J

<1>16. NodesAsked'
  <2>1. ASSUME NEW n \in 1 .. M
        PROVE  IF t.up[n] = 0 THEN t.rule[n] < 10 ELSE t.rule[t.up[n]] \in below'[t.rule[n]]
    <3>1. CASE n \in 1 .. N
      <4>1. t.rule[n] = tree.rule[n] /\ t.up[n] = tree.up[n]
        BY <1>7, <3>1
      <4>2. IF tree.up[n] = 0 THEN tree.rule[n] < 10
            ELSE tree.rule[tree.up[n]] \in below[tree.rule[n]]
        BY <1>1, <3>1 DEF NodesAsked, N
      <4>3. tree.up[n] # 0 => tree.up[n] \in 1 .. N
        BY <1>5, <1>6, <3>1
      <4>4. below'[tree.rule[n]] = below[tree.rule[n]]
        BY <1>2, <1>6, <3>1
      <4>5. tree.up[n] # 0 => t.rule[tree.up[n]] = tree.rule[tree.up[n]]
        BY <1>7, <4>3
      <4>6. QED
        BY <4>1, <4>2, <4>4, <4>5
    <3>2. CASE n \in N + 1 .. M
      <4>1. t.rule[n] = s /\ s \in J
        BY <1>7, <1>8, <3>2
      <4>2. CASE s < 10
        BY <1>7, <3>2, <4>1, <4>2
      <4>3. CASE ~ (s < 10)
        <5>1. t.up[n] \in 1 .. N /\ tree.rule[t.up[n]] \in Q
          BY <1>7, <3>2, <4>3
        <5>2. t.up[n] # 0 /\ t.rule[t.up[n]] = tree.rule[t.up[n]]
          BY <1>7, <5>1
        <5>3. below'[s] = Q
          BY <1>2, <4>1
        <5>4. QED
          BY <4>1, <5>1, <5>2, <5>3
      <4>4. QED
        BY <4>2, <4>3
    <3>3. QED
      BY <1>6, <3>1, <3>2
  <2>2. ASSUME NEW q \in J
        PROVE  /\ \E n \in 1 .. M : t.rule[n] = q
               /\ q < 10 => below'[q] = {}
    <3>1. CASE q \in K
      <4>1. /\ \E n \in 1 .. N : tree.rule[n] = q
            /\ q < 10 => below[q] = {}
        BY <1>1, <3>1 DEF NodesAsked, K, N
      <4>2. QED
        BY <1>2, <1>6, <1>7, <3>1, <4>1
    <3>2. CASE q = s /\ s \notin K
      <4>1. Tree!NodesOf(t, s) # {}
        BY <1>2, <3>2
      <4>2. \E n \in 1 .. M : t.rule[n] = s
        BY <1>6, <4>1 DEF Tree!NodesOf
      <4>3. s < 10 => Q = {}
        BY DEF s
      <4>4. QED
        BY <1>2, <3>2, <4>2, <4>3
    <3>3. QED
      BY <1>3, <3>1, <3>2
  <2>3. ASSUME NEW n \in 1 .. M, NEW m \in 1 .. M, t.rule[n] = t.rule[m], t.rule[n] < 10
        PROVE  n = m
    <3>1. CASE n \in 1 .. N /\ m \in 1 .. N
      BY <1>1, <1>7, <2>3, <3>1 DEF NodesAsked, N
    <3>2. CASE n \in N + 1 .. M /\ m \in N + 1 .. M
      BY <1>7, <2>3, <3>2
    <3>3. s \notin K
      BY DEF s, K
    <3>4. \A i \in 1 .. N, j \in N + 1 .. M : t.rule[i] # t.rule[j]
      BY <1>6, <1>7, <3>3
    <3>5. QED
      BY <1>6, <2>3, <3>1, <3>2, <3>4
  <2>4. QED
    BY <1>2, <2>1, <2>2, <2>3 DEF NodesAsked, J, M
<1>17. Covered'
  <2>1. ASSUME NEW c \in J, NEW n \in 1 .. M, t.rule[n] \in below'[c]
        PROVE  \/ \E x \in 1 .. M : t.up[x] = n /\ t.rule[x] = c
               \/ \E m \in Tree!Path(t)[n] : Tree!Behind(t, m, t.rule[n])
    <3>1. s \notin K
      BY DEF s, K
    <3>2. below'[c] \subseteq K
      <4>1. CASE c \in K
        BY <1>1, <1>2, <4>1 DEF TreeTypes, K
      <4>2. CASE c = s
        BY <1>2, <2>1, <4>2 DEF K
      <4>3. QED
        BY <1>3, <4>1, <4>2
    <3>3. n \in 1 .. N
      BY <1>6, <1>7, <2>1, <3>1, <3>2
    <3>4. t.rule[n] = tree.rule[n] /\ Tree!Path(t)[n] = Tree!Path(tree)[n]
      BY <1>7, <3>3
    <3>5. CASE c \in K
      <4>1. tree.rule[n] \in below[c]
        BY <1>2, <2>1, <3>4, <3>5
      <4>2. \/ \E x \in 1 .. N : tree.up[x] = n /\ tree.rule[x] = c
            \/ \E m \in Tree!Path(tree)[n] : Tree!Behind(tree, m, tree.rule[n])
        BY <1>1, <3>3, <3>5, <4>1 DEF Covered, K, N
      <4>3. CASE \E x \in 1 .. N : tree.up[x] = n /\ tree.rule[x] = c
        BY <1>6, <1>7, <4>3
      <4>4. CASE \E m \in Tree!Path(tree)[n] : Tree!Behind(tree, m, tree.rule[n])
        <5>1. PICK m \in Tree!Path(tree)[n] : Tree!Behind(tree, m, tree.rule[n])
          BY <4>4
        <5>2. m \in 1 .. N
          <6>1. Tree!Path(tree)[n] \in SUBSET (1 .. n)
            BY <1>1, <3>3, PathOfShape DEF N
          <6>2. QED
            BY <1>5, <3>3, <5>1, <6>1
        <5>3. QED
          BY <1>7, <3>4, <5>1, <5>2
      <4>5. QED
        BY <4>2, <4>3, <4>4
    <3>6. CASE c = s
      <4>1. tree.rule[n] \in Q
        BY <1>2, <2>1, <3>4, <3>6
      <4>2. QED
        BY <3>3, <3>4, <3>6, <4>1 DEF Extended, N, M, s
    <3>7. QED
      BY <1>3, <3>5, <3>6
  <2>2. QED
    BY <1>2, <2>1, SMTT(30) DEF Covered, J, M
<1>18. Tree!LevelsKept' => Tree!LevelsKept
  BY <1>1, <1>2, LevelsStillKept DEF K
<1>19. InOrder'
  <2>1. ASSUME NEW m \in 0 .. M, SortedBelow(t, m, rank) PROVE SortedBelow(t, m, placed')
    <3>1. \A k \in 1 .. Len(t.child[m]) : t.child[m][k] \in 1 .. M
      BY <1>5, ShapeIs DEF M
    <3>2. \A k \in 1 .. Len(t.child[m]) :
            placed'[t.rule[t.child[m][k]]] = rank[t.rule[t.child[m][k]]]
      BY <1>8, <1>10, <3>1
    <3>3. QED
      BY <2>1, <3>2, SortedAlike
  <2>2. SortedBelow(t, 0, placed')
    <3>1. 0 \in 0 .. M
      BY <1>5
    <3>2. SortedBelow(t, 0, rank)
      BY DEF Extended, rank
    <3>3. QED
      BY <2>1, <3>1, <3>2
  <2>3. ASSUME Tree!LevelsKept' PROVE Ordered(t, placed')
    <3>1. Ordered(t, rank)
      BY <1>18, <2>3 DEF Extended, rank
    <3>2. QED
      BY <2>1, <3>1 DEF Ordered, M
  <2>4. QED
    BY <1>2, <2>2, <2>3 DEF InOrder
<1>20. LevelsPlaced'
  <2>1. ASSUME NEW q \in J, q < 10 \/ Tree!LevelsKept'
        PROVE  info'[q].level = placed'[q].level
    <3>1. CASE q \in K
      <4>1. info[q].level = placed[q].level
        BY <1>1, <1>18, <2>1, <3>1 DEF LevelsPlaced, K
      <4>2. QED
        BY <1>2, <3>1, <4>1
    <3>2. CASE q = s
      BY <1>2, <2>1, <3>2 DEF Tree!RuleInfo
    <3>3. QED
      BY <1>3, <3>1, <3>2
  <2>2. QED
    BY <2>1 DEF LevelsPlaced, J
<1>21. Shape(tree', DOMAIN info')
  BY <1>2, <1>13 DEF J
<1>22. QED
  BY <1>14, <1>15, <1>16, <1>17, <1>19, <1>20, <1>21 DEF TreeCore

LEMMA StartCore ==
  ASSUME Tree!Init PROVE TreeCore
<1>1. /\ phase = "reading"
      /\ tree = [rule |-> <<>>, up |-> <<>>, child |-> [m \in {0} |-> <<>>]]
      /\ info = <<>> /\ sid_lists = {} /\ group_lists = <<>>
      /\ read = <<>> /\ below = <<>> /\ placed = <<>>
  BY DEF Tree!Init
<1>2. DOMAIN info = {} /\ Len(read) = 0 /\ Len(tree.rule) = 0 /\ read \in Seq(Candidates)
  BY <1>1, EmptySeq
<1>3. tree.child[0] = <<>> /\ tree.rule = <<>> /\ tree.up = <<>>
  BY <1>1
<1>4. Shape(tree, DOMAIN info)
  <2>1. tree.rule \in Seq(DOMAIN info)
    BY <1>3, EmptySeq
  <2>2. 1 .. Len(tree.rule) = {} /\ 0 .. Len(tree.rule) = {0}
    BY <1>2
  <2>3. tree.up \in [1 .. Len(tree.rule) -> 0 .. Len(tree.rule)]
    BY <1>3, <2>2
  <2>4. tree.child \in [0 .. Len(tree.rule) -> Seq(1 .. Len(tree.rule))]
    <3>1. <<>> \in Seq(1 .. Len(tree.rule))
      BY EmptySeq
    <3>2. QED
      BY <1>1, <2>2, <3>1
  <2>5. \A m \in 0 .. Len(tree.rule) : Len(tree.child[m]) = 0
    BY <1>3, <2>2
  <2>6. QED
    BY <2>1, <2>2, <2>3, <2>4, <2>5 DEF Shape
<1>5. TreeTypes
  <2>1. MaxRules \in Nat
    BY TreeAssumption
  <2>2. group_lists \in [DOMAIN info -> Seq(1 .. Len(read))]
    BY <1>1, <1>2
  <2>3. /\ below \in [DOMAIN info -> SUBSET DOMAIN info]
        /\ placed \in [DOMAIN info -> [level : Nat, at : Nat]]
    BY <1>1, <1>2
  <2>4. QED
    BY <1>1, <1>2, <2>1, <2>2, <2>3 DEF TreeTypes
<1>6. ReadBefore
  BY <1>2 DEF ReadBefore
<1>7. NodesAsked /\ Covered
  BY <1>2 DEF NodesAsked, Covered
<1>8. \A rank : SortedBelow(tree, 0, rank) /\ Ordered(tree, rank)
  <2>1. \A m \in 0 .. Len(tree.rule) : tree.child[m] = <<>>
    BY <1>2, <1>3
  <2>2. QED
    BY <1>2, <1>3, <2>1 DEF SortedBelow, Ordered
<1>9. InOrder /\ LevelsPlaced
  BY <1>2, <1>8 DEF InOrder, LevelsPlaced
<1>10. QED
  BY <1>4, <1>5, <1>6, <1>7, <1>9 DEF TreeCore

(* What an overwriting changes of the rule it overwrites.                  *)
LEMMA OverwriteIs ==
  ASSUME TreeTypes, NEW r \in Candidates, Tree!Overwrite(r)
  PROVE  /\ r.overwrite /\ r.sid \in DOMAIN info /\ read' = Append(read, r)
         /\ phase' = phase /\ tree' = tree /\ below' = below /\ placed' = placed
         /\ DOMAIN info' = DOMAIN info
         /\ \A q \in DOMAIN info : q # r.sid => info'[q] = info[q]
         /\ /\ info'[r.sid].level = Tree!ReadLevel(r)
            /\ info'[r.sid].category = info[r.sid].category
            /\ info'[r.sid].noalert = r.noalert
            /\ info'[r.sid].groups = r.groups
            /\ info'[r.sid].ar = Tree!Rule_AddAR(r)
         /\ Tree!Mark(r, info', group_lists, tree)
<1> DEFINE new == Tree!RuleInfo(r, r.category, DOMAIN info, Len(read) + 1)
           changed == [new EXCEPT !.category = info[r.sid].category,
                                  !.search = info[r.sid].search]
<1>1. /\ r.overwrite /\ r.sid \in DOMAIN info
      /\ info' = Tree!OS_AddRuleInfo(r.sid, new)
      /\ Tree!Mark(r, Tree!OS_AddRuleInfo(r.sid, new), group_lists, tree)
      /\ read' = Append(read, r)
      /\ phase' = phase /\ tree' = tree /\ below' = below /\ placed' = placed
  BY DEF Tree!Overwrite, Tree!KnownRules
<1>2. Tree!OS_AddRuleInfo(r.sid, new) = [info EXCEPT ![r.sid] = changed]
  BY DEF Tree!OS_AddRuleInfo
<1>3. /\ changed.level = Tree!ReadLevel(r) /\ changed.category = info[r.sid].category
      /\ changed.noalert = r.noalert /\ changed.groups = r.groups
      /\ changed.ar = Tree!Rule_AddAR(r)
  BY DEF Tree!RuleInfo
<1> HIDE DEF changed, new
<1>4. /\ DOMAIN info' = DOMAIN info
      /\ \A q \in DOMAIN info : q # r.sid => info'[q] = info[q]
      /\ info'[r.sid] = changed
  BY <1>1, <1>2
<1>5. QED
  BY <1>1, <1>3, <1>4

LEMMA OverwriteKeepsCore ==
  ASSUME TreeCore, Len(read) < MaxRules, NEW r \in Candidates, Tree!Overwrite(r)
  PROVE  TreeCore'
<1> DEFINE s == r.sid
           L == Len(read)
           K == DOMAIN info
<1>1. /\ TreeTypes /\ Shape(tree, K) /\ ReadBefore
      /\ NodesAsked /\ Covered /\ InOrder /\ LevelsPlaced
  BY DEF TreeCore
<1>2. /\ r.overwrite /\ s \in K /\ read' = Append(read, r)
      /\ phase' = phase /\ tree' = tree /\ below' = below /\ placed' = placed
      /\ DOMAIN info' = K
      /\ \A q \in K : q # s => info'[q] = info[q]
      /\ info'[s].level = Tree!ReadLevel(r)
      /\ info'[s].category = info[s].category
      /\ info'[s].noalert = r.noalert
      /\ Tree!Mark(r, info', group_lists, tree)
  BY <1>1, OverwriteIs
<1>3. /\ L \in Nat /\ read' \in Seq(Candidates) /\ Len(read') = L + 1
      /\ \A k \in 1 .. L : k \in 1 .. Len(read') /\ read'[k] = read[k]
      /\ L + 1 \in 1 .. Len(read') /\ read'[L + 1] = r
      /\ \A k \in 1 .. Len(read') : k \in 1 .. L \/ k = L + 1
  BY <1>1, <1>2, ReadLonger, PlacedTypes
<1>4. r.noalert \in BOOLEAN
  BY CandidateIs
<1>5. Tree!ReadLevel(r) \in Nat /\ Tree!ReadLevel(r) <= 9900
  BY CandidateIs
<1>6. r.overwrite => ~ (s < 10)
  BY CandidateIs
<1>7. \A q \in K : placed[q].at \in 1 .. L /\ placed[q].level <= 9900
  BY <1>1, PlacedTypes
<1> HIDE DEF s, L, K
<1>8. TreeTypes'
  <2>1. Len(read') <= MaxRules
    <3>1. L < MaxRules /\ MaxRules \in Nat
      BY TreeAssumption DEF L
    <3>2. QED
      BY <1>3, <3>1
  <2>2. ASSUME NEW q \in K
        PROVE  /\ info'[q].level \in Nat /\ info'[q].level <= 9900
               /\ info'[q].category \in Categories
               /\ info'[q].noalert \in BOOLEAN
    <3>1. /\ info[q].level \in Nat /\ info[q].level <= 9900
          /\ info[q].category \in Categories
          /\ info[q].noalert \in BOOLEAN
      BY <1>1 DEF TreeTypes, K
    <3>2. CASE q = s
      BY <1>2, <1>4, <1>5, <3>1, <3>2
    <3>3. CASE q # s
      BY <1>2, <3>1, <3>3
    <3>4. QED
      BY <3>2, <3>3
  <2>3. sid_lists' \subseteq K /\ group_lists' \in [K -> Seq(1 .. L + 1)]
    <3>1. PICK rules : rules = info'
      OBVIOUS
    <3>2. Tree!Mark(r, rules, group_lists, tree) /\ DOMAIN rules = K
      BY <1>2, <3>1
    <3>3. \A q \in K : group_lists[q] \in Seq(1 .. L)
      BY <1>1 DEF TreeTypes, K, L
    <3>4. sid_lists \subseteq K
      BY <1>1 DEF TreeTypes, K
    <3>5. QED
      BY <1>1, <1>3, <3>2, <3>3, <3>4, MarkTypes DEF L
  <2>4. \A q \in K : placed'[q].level <= 9900 /\ placed'[q].at \in 1 .. Len(read')
    BY <1>2, <1>3, <1>7
  <2>5. /\ K \subseteq Nat \ {0} /\ phase \in {"reading", "exit", "ready"}
        /\ below \in [K -> SUBSET K] /\ placed \in [K -> [level : Nat, at : Nat]]
    BY <1>1 DEF TreeTypes, K
  <2>6. group_lists' \in [K -> Seq(1 .. Len(read'))]
    BY <1>3, <2>3
  <2>7. /\ phase' \in {"reading", "exit", "ready"} /\ sid_lists' \subseteq K
        /\ below' \in [K -> SUBSET K] /\ placed' \in [K -> [level : Nat, at : Nat]]
    BY <1>2, <2>3, <2>5
  <2>8. DOMAIN info' = K /\ read' \in Seq(Candidates)
    BY <1>2, <1>3
  <2>9. /\ phase' \in {"reading", "exit", "ready"}
        /\ read' \in Seq(Candidates) /\ Len(read') <= MaxRules
        /\ DOMAIN info' \subseteq Nat \ {0}
        /\ sid_lists' \subseteq DOMAIN info'
        /\ group_lists' \in [DOMAIN info' -> Seq(1 .. Len(read'))]
        /\ below' \in [DOMAIN info' -> SUBSET DOMAIN info']
        /\ placed' \in [DOMAIN info' -> [level : Nat, at : Nat]]
    BY <2>1, <2>5, <2>6, <2>7, <2>8
  <2>10. \A q \in DOMAIN info' : placed'[q].level <= 9900 /\ placed'[q].at \in 1 .. Len(read')
    BY <2>4, <2>8
  <2>11. \A q \in DOMAIN info' : /\ info'[q].level \in Nat /\ info'[q].level <= 9900
                                  /\ info'[q].category \in Categories
                                  /\ info'[q].noalert \in BOOLEAN
    BY <2>2, <2>8
  <2>12. QED
    BY <2>9, <2>10, <2>11 DEF TreeTypes
<1>9. ReadBefore'
  <2>1. ASSUME NEW q \in K PROVE read'[placed[q].at].sid = q
    BY <1>1, <1>3, <1>7 DEF ReadBefore, K
  <2>2. ASSUME NEW k \in 1 .. Len(read'), read'[k].overwrite PROVE read'[k].sid \in K
    <3>1. CASE k \in 1 .. L
      BY <1>1, <1>3, <2>2, <3>1 DEF ReadBefore, K, L
    <3>2. CASE k = L + 1
      BY <1>2, <1>3, <3>2 DEF s
    <3>3. QED
      BY <1>3, <3>1, <3>2
  <2>3. \A q \in K : \A p \in below[q] : placed[p].at < placed[q].at
    BY <1>1 DEF ReadBefore, K
  <2>4. QED
    BY <1>2, <2>1, <2>2, <2>3 DEF ReadBefore
<1>10. NodesAsked' /\ Covered'
  BY <1>1, <1>2 DEF NodesAsked, Covered, K
<1>11. /\ Tree!LevelsKept' => Tree!LevelsKept
       /\ r.overwrite /\ Tree!LevelsKept' => Tree!ReadLevel(r) = placed'[r.sid].level
  <2>1. \A q \in DOMAIN info : placed'[q] = placed[q]
    BY <1>2
  <2>2. QED
    BY <1>1, <1>2, <2>1, LevelsStillKept
<1>12. InOrder'
  BY <1>1, <1>2, <1>11 DEF InOrder
<1>13. LevelsPlaced'
  <2>1. ASSUME phase = "reading", NEW q \in K, q < 10 \/ Tree!LevelsKept'
        PROVE  info'[q].level = placed'[q].level
    <3>1. CASE q # s
      BY <1>1, <1>2, <1>11, <2>1, <3>1 DEF LevelsPlaced, K
    <3>2. CASE q = s
      <4>1. Tree!LevelsKept'
        BY <1>2, <1>6, <2>1, <3>2
      <4>2. QED
        BY <1>2, <1>11, <3>2, <4>1 DEF s
    <3>3. QED
      BY <3>1, <3>2
  <2>2. QED
    BY <1>2, <2>1 DEF LevelsPlaced
<1>14. Shape(tree', DOMAIN info')
  BY <1>1, <1>2
<1>15. QED
  BY <1>8, <1>9, <1>10, <1>12, <1>13, <1>14 DEF TreeCore

-----------------------------------------------------------------------------
(* _setlevels.                                                             *)

(* The level as it was before 9900 and 100 times the level stood for it.   *)
Final(level) == IF level = 9900 THEN 0
                ELSE IF level >= 100 THEN level \div 100 ELSE level

(* One node is enough to restore a level, and further ones leave it.       *)
LEMMA RestoredIs ==
  ASSUME NEW level \in Nat, level <= 9900, NEW k \in Nat, k # 0
  PROVE  Tree!Restored(level, k) = Final(level)
<1> DEFINE Step(f, j) == IF j = 0 THEN level ELSE Final(f[j - 1])
<1>1. Final(level) \in Nat /\ Final(level) < 100 /\ Final(Final(level)) = Final(level)
  BY DEF Final
<1>2. \E h : h = [j \in Nat |-> h[j]] /\ \A j \in Nat : h[j] = Step(h, j)
  <2> DEFINE g == [j \in Nat |-> IF j = 0 THEN level ELSE Final(level)]
  <2>1. ASSUME NEW j \in Nat PROVE g[j] = Step(g, j)
    <3>1. CASE j = 0
      BY <3>1
    <3>2. CASE j = 1
      <4>1. g[j] = Final(level) /\ g[j - 1] = level
        BY <3>2
      <4>2. QED
        BY <3>2, <4>1
    <3>3. CASE j # 0 /\ j # 1
      <4>1. j - 1 \in Nat /\ j - 1 # 0
        BY <3>3
      <4>2. g[j] = Final(level) /\ g[j - 1] = Final(level)
        BY <3>3, <4>1
      <4>3. QED
        BY <1>1, <3>3, <4>2
    <3>4. QED
      BY <3>1, <3>2, <3>3
  <2>2. g = [j \in Nat |-> g[j]]
    OBVIOUS
  <2> HIDE DEF g, Step
  <2>3. QED
    BY <2>1, <2>2
<1>3. PICK h : h = [j \in Nat |-> h[j]] /\ \A j \in Nat : h[j] = Step(h, j)
  BY <1>2
<1>4. PICK after : /\ after = [j \in Nat |-> Step(after, j)]
                   /\ Tree!Restored(level, k) = after[k]
  <2>1. Tree!Restored(level, k) = (CHOOSE f : f = [j \in Nat |-> Step(f, j)])[k]
    BY DEF Tree!Restored, Final
  <2> HIDE DEF Step
  <2>2. h = [j \in Nat |-> Step(h, j)]
    BY <1>3
  <2>3. PICK c : c = CHOOSE f : f = [j \in Nat |-> Step(f, j)]
    OBVIOUS
  <2>4. c = [j \in Nat |-> Step(c, j)]
    BY <2>2, <2>3
  <2>5. Tree!Restored(level, k) = c[k]
    BY <2>1, <2>3
  <2>6. QED
    BY <2>4, <2>5
<1>5. after[0] = level
  BY <1>4
<1>6. \A j \in Nat : j # 0 => after[j] = Final(after[j - 1])
  BY <1>4
<1> DEFINE P == {j \in 0 .. k : j # 0 => after[j] = Final(level)}
<1>7. 0 \in P
  OBVIOUS
<1>8. ASSUME NEW j \in 0 .. k - 1, j \in P PROVE j + 1 \in P
  <2>1. j + 1 \in 0 .. k /\ j + 1 \in Nat /\ j + 1 # 0 /\ j + 1 - 1 = j
    OBVIOUS
  <2>2. after[j + 1] = Final(after[j])
    BY <1>6, <2>1
  <2>3. CASE j = 0
    BY <1>5, <2>1, <2>2, <2>3
  <2>4. CASE j # 0
    <3>1. after[j] = Final(level)
      BY <1>8, <2>4
    <3>2. QED
      BY <1>1, <2>1, <2>2, <3>1
  <2>5. QED
    BY <2>3, <2>4
<1> HIDE DEF P
<1>9. \A j \in 0 .. k : j \in P
  BY <1>7, <1>8, UpTo
<1>10. k \in P
  BY <1>9
<1>11. QED
  BY <1>4, <1>10 DEF P

LEMMA SetLevelsIs ==
  ASSUME TreeCore, Tree!SetLevels
  PROVE  /\ phase = "reading" /\ phase' = "ready" /\ DOMAIN info' = DOMAIN info
         /\ \A q \in DOMAIN info :
              /\ info'[q].level = Final(info[q].level)
              /\ info'[q].category = info[q].category
              /\ info'[q].noalert = info[q].noalert
              /\ info'[q].groups = info[q].groups
              /\ info'[q].ar = info[q].ar
         /\ tree' = tree /\ sid_lists' = sid_lists /\ group_lists' = group_lists
         /\ read' = read /\ below' = below /\ placed' = placed
<1>1. /\ phase = "reading" /\ phase' = "ready"
      /\ info' = [q \in DOMAIN info |->
                    [info[q] EXCEPT !.level =
                       Tree!Restored(@, Tree!Cardinality(Tree!NodesOf(tree, q)))]]
      /\ tree' = tree /\ sid_lists' = sid_lists /\ group_lists' = group_lists
      /\ read' = read /\ below' = below /\ placed' = placed
  BY DEF Tree!SetLevels, Tree!KnownRules
<1>2. DOMAIN info' = DOMAIN info
  BY <1>1
<1>3. ASSUME NEW q \in DOMAIN info
      PROVE  /\ info'[q].level = Final(info[q].level)
             /\ info'[q].category = info[q].category
             /\ info'[q].noalert = info[q].noalert
             /\ info'[q].groups = info[q].groups
             /\ info'[q].ar = info[q].ar
  <2>1. PICK i, c : i = info[q] /\ c = Tree!Cardinality(Tree!NodesOf(tree, q))
    OBVIOUS
  <2>2. info'[q] = [i EXCEPT !.level = Tree!Restored(i.level, c)]
    BY <1>1, <2>1
  <2>3. Tree!Restored(i.level, c) = Final(i.level)
    <3>1. i.level \in Nat /\ i.level <= 9900
      BY <2>1 DEF TreeCore, TreeTypes
    <3>2. c \in Nat /\ c # 0
      <4>1. Shape(tree, DOMAIN info) /\ \E n \in 1 .. Len(tree.rule) : tree.rule[n] = q
        BY DEF TreeCore, NodesAsked
      <4>2. Tree!NodesOf(tree, q) # {}
        BY <4>1, ShapeIs DEF Tree!NodesOf
      <4>3. QED
        BY <2>1, <4>1, <4>2, NodesFinite
    <3>3. QED
      BY <3>1, <3>2, RestoredIs
  <2>4. PICK e : e = Final(i.level)
    OBVIOUS
  <2>5. info'[q] = [i EXCEPT !.level = e]
    BY <2>2, <2>3, <2>4
  <2>6. QED
    BY <2>1, <2>4, <2>5
<1>4. QED
  BY <1>1, <1>2, <1>3

LEMMA SetLevelsKeepsCore ==
  ASSUME TreeCore, Tree!SetLevels PROVE TreeCore'
<1>1. /\ TreeTypes /\ Shape(tree, DOMAIN info) /\ ReadBefore
      /\ NodesAsked /\ Covered /\ InOrder
  BY DEF TreeCore
<1>2. /\ phase' = "ready" /\ DOMAIN info' = DOMAIN info
      /\ tree' = tree /\ sid_lists' = sid_lists /\ group_lists' = group_lists
      /\ read' = read /\ below' = below /\ placed' = placed
  BY SetLevelsIs
<1>3. ASSUME NEW q \in DOMAIN info
      PROVE  /\ info'[q].level \in Nat /\ info'[q].level <= 9900
             /\ info'[q].category \in Categories
             /\ info'[q].noalert \in BOOLEAN
  <2>1. PICK l : l = info[q].level
    OBVIOUS
  <2>2. l \in Nat /\ l <= 9900
    BY <1>1, <2>1 DEF TreeTypes
  <2>3. Final(l) \in Nat /\ Final(l) <= 9900
    BY <2>2 DEF Final
  <2>4. info'[q].level = Final(l)
    BY <2>1, SetLevelsIs
  <2>5. info'[q].category = info[q].category /\ info'[q].noalert = info[q].noalert
    BY SetLevelsIs
  <2>6. info[q].category \in Categories /\ info[q].noalert \in BOOLEAN
    BY <1>1 DEF TreeTypes
  <2>7. QED
    BY <2>3, <2>4, <2>5, <2>6
<1>4. TreeTypes'
  BY <1>1, <1>2, <1>3 DEF TreeTypes
<1>5. ReadBefore' /\ NodesAsked' /\ Covered' /\ InOrder'
  BY <1>1, <1>2 DEF ReadBefore, NodesAsked, Covered, InOrder, Tree!LevelsKept
<1>6. LevelsPlaced' /\ Shape(tree', DOMAIN info')
  BY <1>1, <1>2 DEF LevelsPlaced
<1>7. QED
  BY <1>4, <1>5, <1>6 DEF TreeCore

(* Both ways to read a rule that is not known hang it into the tree.       *)
LEMMA ReadExtends ==
  ASSUME TreeCore, phase = "reading", NEW r \in Candidates,
         Tree!ReadTemplate(r) \/ Tree!ReadChild(r)
  PROVE  /\ r.sid \notin DOMAIN info /\ ~ r.overwrite
         /\ \E t : \E category \in Categories : \E Q \in SUBSET DOMAIN info :
              /\ Tree!Add(r, t, category)
              /\ Q = IF r.sid < 10 THEN {} ELSE Tree!ParentsAsked(r)
              /\ Extended(t, r.sid, Q, PlacedWith(r))
<1>1. r.category \in Categories /\ (r.overwrite => ~ (r.sid < 10)) /\ r.sid \in Nat
  BY CandidateIs
<1>2. CASE Tree!ReadTemplate(r)
  <2>1. PICK t : t = Tree!AddBelow(tree, {0}, r.sid, Tree!LevelsWith(r))
    OBVIOUS
  <2>2. r.sid < 10 /\ r.sid \notin DOMAIN info /\ Tree!Add(r, t, r.category)
    BY <1>2, <2>1 DEF Tree!ReadTemplate, Tree!KnownRules
  <2>3. Extended(t, r.sid, {}, PlacedWith(r))
    BY <2>1, <2>2, TemplateExtended
  <2>4. {} \in SUBSET DOMAIN info /\ {} = IF r.sid < 10 THEN {} ELSE Tree!ParentsAsked(r)
    BY <2>2
  <2>5. QED
    BY <1>1, <2>2, <2>3, <2>4
<1>3. CASE Tree!ReadChild(r)
  <2>1. PICK t, category : /\ t = Tree!OS_AddChild(r, Tree!LevelsWith(r))
                           /\ category = IF Tree!IfSid(r) = <<>> THEN r.category
                                ELSE info[Tree!IfSid(r)[Len(Tree!IfSid(r))]].category
    OBVIOUS
  <2>2. /\ r.sid >= 10 /\ ~ r.overwrite /\ r.sid \notin DOMAIN info
        /\ ~ Tree!ParentMissing(r) /\ Tree!Add(r, t, category)
    BY <1>3, <2>1 DEF Tree!ReadChild, Tree!KnownRules
  <2>3. ~ (r.sid < 10)
    BY <1>1, <2>2
  <2>4. PICK Q : Q = Tree!ParentsAsked(r)
    OBVIOUS
  <2>5. Extended(t, r.sid, Q, PlacedWith(r)) /\ Q \in SUBSET DOMAIN info
    BY <2>1, <2>2, <2>3, <2>4, ChildExtended
  <2>6. category \in Categories
    <3>1. CASE Tree!IfSid(r) = <<>>
      BY <1>1, <2>1, <3>1
    <3>2. CASE Tree!IfSid(r) # <<>>
      <4>1. PICK ids : ids = Tree!IfSid(r)
        OBVIOUS
      <4>2. ids \in Seq(Nat)
        BY <4>1, CandidateIs
      <4>3. Len(ids) \in 1 .. Len(ids) /\ DOMAIN ids = 1 .. Len(ids)
        <5>1. Len(ids) \in Nat /\ DOMAIN ids = 1 .. Len(ids) /\ Len(ids) # 0
          BY <3>2, <4>1, <4>2, LenProperties, EmptySeq
        <5>2. QED
          BY <5>1
      <4>4. ids[Len(ids)] \in Tree!ToSet(ids)
        BY <4>3 DEF Tree!ToSet
      <4>5. Tree!ToSet(ids) \subseteq DOMAIN info
        BY <2>2, <3>2, <4>1 DEF Tree!ParentMissing, Tree!KnownRules
      <4>6. PICK q : q = ids[Len(ids)]
        OBVIOUS
      <4>7. q \in DOMAIN info /\ category = info[q].category
        BY <2>1, <3>2, <4>1, <4>4, <4>5, <4>6
      <4>8. QED
        BY <4>7 DEF TreeCore, TreeTypes
    <3>3. QED
      BY <3>1, <3>2
  <2>7. QED
    BY <2>2, <2>3, <2>4, <2>5, <2>6
<1>4. QED
  BY <1>2, <1>3

-----------------------------------------------------------------------------
(* The definition that holds of a rule is the last one read.               *)

LastHolds ==
  \A q \in DOMAIN info : \E k \in 1 .. Len(read) :
    /\ read[k].sid = q /\ \A j \in k + 1 .. Len(read) : read[j].sid # q
    /\ info[q].level = IF phase = "ready" THEN Final(Tree!ReadLevel(read[k]))
                       ELSE Tree!ReadLevel(read[k])
    /\ info[q].groups = read[k].groups
    /\ info[q].ar = Tree!Rule_AddAR(read[k])

LEMMA AddKeepsLast ==
  ASSUME TreeCore, LastHolds, phase = "reading", NEW r \in Candidates,
         r.sid \notin DOMAIN info, NEW t, NEW category, Tree!Add(r, t, category)
  PROVE  LastHolds'
<1> DEFINE L == Len(read)
<1>1. TreeTypes
  BY DEF TreeCore
<1>2. /\ phase' = phase /\ read' = Append(read, r)
      /\ \A q \in DOMAIN info' : q \in DOMAIN info \/ q = r.sid
      /\ \A q \in DOMAIN info : info'[q] = info[q]
  <2>1. /\ phase' = phase /\ read' = Append(read, r)
        /\ DOMAIN info' = IF Tree!NodesOf(t, r.sid) = {} THEN DOMAIN info
                          ELSE DOMAIN info \cup {r.sid}
        /\ \A q \in DOMAIN info : info'[q] = info[q]
    BY <1>1, AddIs
  <2>2. QED
    BY <2>1
<1>3. r.sid \in DOMAIN info' =>
        info'[r.sid] = Tree!RuleInfo(r, category, DOMAIN info', L + 1)
  BY <1>1, AddIs, ZenonT(60)
<1>4. /\ L \in Nat /\ Len(read') = L + 1
      /\ \A k \in 1 .. L : k \in 1 .. Len(read') /\ read'[k] = read[k]
      /\ L + 1 \in 1 .. Len(read') /\ read'[L + 1] = r
      /\ \A k \in 1 .. Len(read') : k \in 1 .. L \/ k = L + 1
  BY <1>1, <1>2, ReadLonger, PlacedTypes
<1> HIDE DEF L
<1>5. ASSUME NEW q \in DOMAIN info' 
      PROVE  \E k \in 1 .. Len(read') :
               /\ read'[k].sid = q /\ \A j \in k + 1 .. Len(read') : read'[j].sid # q
               /\ info'[q].level = Tree!ReadLevel(read'[k])
               /\ info'[q].groups = read'[k].groups
               /\ info'[q].ar = Tree!Rule_AddAR(read'[k])
  <2>1. CASE q \in DOMAIN info
    <3>1. PICK k \in 1 .. L :
            /\ read[k].sid = q /\ \A j \in k + 1 .. L : read[j].sid # q
            /\ info[q].level = Tree!ReadLevel(read[k])
            /\ info[q].groups = read[k].groups
            /\ info[q].ar = Tree!Rule_AddAR(read[k])
      BY <2>1 DEF LastHolds, L
    <3>2. ASSUME NEW j \in k + 1 .. Len(read') PROVE read'[j].sid # q
      <4>1. CASE j = L + 1
        BY <1>4, <2>1, <4>1
      <4>2. CASE j # L + 1
        <5>1. j \in k + 1 .. L /\ j \in 1 .. L
          BY <1>4, <4>2
        <5>2. QED
          BY <1>4, <3>1, <5>1
      <4>3. QED
        BY <4>1, <4>2
    <3>3. k \in 1 .. Len(read') /\ read'[k] = read[k] /\ info'[q] = info[q]
      BY <1>2, <1>4, <2>1
    <3>4. QED
      BY <3>1, <3>2, <3>3
  <2>2. CASE q = r.sid
    <3>1. /\ info'[q].level = Tree!ReadLevel(r) /\ info'[q].groups = r.groups
          /\ info'[q].ar = Tree!Rule_AddAR(r)
      BY <1>3, <2>2 DEF Tree!RuleInfo
    <3>2. L + 1 + 1 .. Len(read') = {}
      BY <1>4
    <3>3. QED
      BY <1>4, <2>2, <3>1, <3>2
  <2>3. QED
    BY <1>2, <2>1, <2>2
<1>6. phase' # "ready"
  BY <1>2
<1>7. QED
  BY <1>5, <1>6 DEF LastHolds

LEMMA OverwriteKeepsLast ==
  ASSUME TreeCore, LastHolds, phase = "reading", NEW r \in Candidates, Tree!Overwrite(r)
  PROVE  LastHolds'
<1> DEFINE L == Len(read)
<1>1. TreeTypes
  BY DEF TreeCore
<1>2. /\ phase' = phase /\ read' = Append(read, r) /\ DOMAIN info' = DOMAIN info
      /\ \A q \in DOMAIN info : q # r.sid => info'[q] = info[q]
      /\ info'[r.sid].level = Tree!ReadLevel(r)
      /\ info'[r.sid].groups = r.groups
      /\ info'[r.sid].ar = Tree!Rule_AddAR(r)
  BY <1>1, OverwriteIs
<1>3. /\ L \in Nat /\ Len(read') = L + 1
      /\ \A k \in 1 .. L : k \in 1 .. Len(read') /\ read'[k] = read[k]
      /\ L + 1 \in 1 .. Len(read') /\ read'[L + 1] = r
      /\ \A k \in 1 .. Len(read') : k \in 1 .. L \/ k = L + 1
  BY <1>1, <1>2, ReadLonger, PlacedTypes
<1> HIDE DEF L
<1>4. ASSUME NEW q \in DOMAIN info
      PROVE  \E k \in 1 .. Len(read') :
               /\ read'[k].sid = q /\ \A j \in k + 1 .. Len(read') : read'[j].sid # q
               /\ info'[q].level = Tree!ReadLevel(read'[k])
               /\ info'[q].groups = read'[k].groups
               /\ info'[q].ar = Tree!Rule_AddAR(read'[k])
  <2>1. CASE q # r.sid
    <3>1. PICK k \in 1 .. L :
            /\ read[k].sid = q /\ \A j \in k + 1 .. L : read[j].sid # q
            /\ info[q].level = Tree!ReadLevel(read[k])
            /\ info[q].groups = read[k].groups
            /\ info[q].ar = Tree!Rule_AddAR(read[k])
      BY DEF LastHolds, L
    <3>2. ASSUME NEW j \in k + 1 .. Len(read') PROVE read'[j].sid # q
      <4>1. CASE j = L + 1
        BY <1>3, <2>1, <4>1
      <4>2. CASE j # L + 1
        <5>1. j \in k + 1 .. L /\ j \in 1 .. L
          BY <1>3, <4>2
        <5>2. QED
          BY <1>3, <3>1, <5>1
      <4>3. QED
        BY <4>1, <4>2
    <3>3. k \in 1 .. Len(read') /\ read'[k] = read[k] /\ info'[q] = info[q]
      BY <1>2, <1>3, <2>1
    <3>4. QED
      BY <3>1, <3>2, <3>3
  <2>2. CASE q = r.sid
    <3>1. L + 1 + 1 .. Len(read') = {}
      BY <1>3
    <3>2. QED
      BY <1>2, <1>3, <2>2, <3>1
  <2>3. QED
    BY <2>1, <2>2
<1>5. phase' # "ready" /\ DOMAIN info' = DOMAIN info
  BY <1>2
<1>6. \A q \in DOMAIN info' : \E k \in 1 .. Len(read') :
        /\ read'[k].sid = q /\ \A j \in k + 1 .. Len(read') : read'[j].sid # q
        /\ info'[q].level = Tree!ReadLevel(read'[k])
        /\ info'[q].groups = read'[k].groups
        /\ info'[q].ar = Tree!Rule_AddAR(read'[k])
  BY <1>4, <1>5
<1>7. QED
  BY <1>5, <1>6 DEF LastHolds

LEMMA SetLevelsKeepsLast ==
  ASSUME TreeCore, LastHolds, Tree!SetLevels PROVE LastHolds'
<1>1. /\ phase = "reading" /\ phase' = "ready" /\ DOMAIN info' = DOMAIN info
      /\ \A q \in DOMAIN info : /\ info'[q].level = Final(info[q].level)
                                /\ info'[q].groups = info[q].groups
                                /\ info'[q].ar = info[q].ar
      /\ read' = read
  BY SetLevelsIs
<1>2. ASSUME NEW q \in DOMAIN info
      PROVE  \E k \in 1 .. Len(read) :
               /\ read[k].sid = q /\ \A j \in k + 1 .. Len(read) : read[j].sid # q
               /\ info'[q].level = Final(Tree!ReadLevel(read[k]))
               /\ info'[q].groups = read[k].groups
               /\ info'[q].ar = Tree!Rule_AddAR(read[k])
  <2>1. PICK k \in 1 .. Len(read) :
          /\ read[k].sid = q /\ \A j \in k + 1 .. Len(read) : read[j].sid # q
          /\ info[q].level = Tree!ReadLevel(read[k])
          /\ info[q].groups = read[k].groups
          /\ info[q].ar = Tree!Rule_AddAR(read[k])
    BY <1>1 DEF LastHolds
  <2>2. QED
    BY <1>1, <2>1
<1>3. QED
  BY <1>1, <1>2 DEF LastHolds

(* LastDefinition finds that definition.                                   *)
LEMMA LastIs ==
  ASSUME read \in Seq(Candidates), NEW q, NEW k \in 1 .. Len(read), read[k].sid = q,
         \A j \in k + 1 .. Len(read) : read[j].sid # q
  PROVE  Tree!LastDefinition(q) = read[k]
<1> DEFINE I == {i \in 1 .. Len(read) : read[i].sid = q}
<1>1. PICK l : l = Len(read)
  OBVIOUS
<1>2. l \in Nat /\ I \subseteq 1 .. l /\ k \in I
  BY <1>1, LenProperties
<1>3. Max(I) \in I /\ \A j \in I : Max(I) >= j
  BY <1>2, MaxIs
<1>4. PICK m : m = Max(I)
  OBVIOUS
<1>5. m = k
  <2>1. m \in 1 .. l /\ read[m].sid = q /\ m >= k
    BY <1>1, <1>2, <1>3, <1>4
  <2>2. m \notin k + 1 .. l
    BY <1>1, <2>1
  <2>3. QED
    BY <1>1, <1>2, <2>1, <2>2
<1>6. Tree!LastDefinition(q) = read[m]
  <2>1. I # {}
    BY <1>2
  <2>2. Tree!SelectLastInSeq(read, LAMBDA r : r.sid = q) = Max(I)
    BY <2>1 DEF Tree!SelectLastInSeq, Tree!Max, Max
  <2>3. QED
    BY <1>4, <2>2 DEF Tree!LastDefinition
<1>7. QED
  BY <1>5, <1>6

LEMMA LastGivesDefinitions ==
  ASSUME TreeTypes, LastHolds PROVE Tree!DefinitionsHold
<1>1. SUFFICES ASSUME phase = "ready", NEW q \in DOMAIN info
      PROVE  LET r == Tree!LastDefinition(q) IN
             /\ info[q].level = IF r.level = 0 /\ ~ r.accurate THEN 99 ELSE r.level
             /\ info[q].ar = {a \in ActiveResponses :
                                /\ r.accurate /\ r.level > 0 /\ ~ r.no_ar
                                /\ \/ a.level > 0 /\ info[q].level >= a.level
                                   \/ a.groups \cap info[q].groups # {}
                                   \/ q \in a.rules}
  BY DEF Tree!DefinitionsHold, Tree!KnownRules
<1>2. PICK k \in 1 .. Len(read) :
        /\ read[k].sid = q /\ \A j \in k + 1 .. Len(read) : read[j].sid # q
        /\ info[q].level = Final(Tree!ReadLevel(read[k]))
        /\ info[q].groups = read[k].groups
        /\ info[q].ar = Tree!Rule_AddAR(read[k])
  BY <1>1 DEF LastHolds
<1>3. read \in Seq(Candidates)
  BY DEF TreeTypes
<1>4. PICK r : r = read[k] /\ r = Tree!LastDefinition(q)
  BY <1>2, <1>3, LastIs
<1>5. r \in Candidates
  BY <1>3, <1>4, ElementOfSeq
<1>6. PICK x, y : x = Tree!ReadLevel(r) /\ y = Final(x)
  OBVIOUS
<1>7. PICK l \in 0 .. 16 : l = r.level
  BY <1>5, TreeAssumption DEF Tree!Element
<1>8. r.accurate \in BOOLEAN
  BY <1>5, TreeAssumption DEF Tree!Element
<1>9. /\ y = IF l = 0 /\ ~ r.accurate THEN 99 ELSE l
      /\ Tree!RealLevel(x) = IF r.accurate /\ l > 0 THEN l ELSE 0
  <2>1. x = (IF l = 0 THEN 99 ELSE l) * (IF r.accurate THEN 100 ELSE 1)
    BY <1>6, <1>7 DEF Tree!ReadLevel
  <2>2. CASE r.accurate
    <3>1. x = (IF l = 0 THEN 99 ELSE l) * 100
      BY <2>1, <2>2
    <3>2. CASE l = 0
      <4>1. x = 9900
        BY <3>1, <3>2
      <4>2. QED
        BY <1>6, <2>2, <3>2, <4>1 DEF Final, Tree!RealLevel
    <3>3. CASE l # 0
      <4>1. x = l * 100 /\ l \in 1 .. 16
        BY <3>1, <3>3
      <4>2. x # 9900 /\ x >= 100 /\ ~ (x < 100) /\ x \div 100 = l
        BY <4>1
      <4>3. QED
        BY <1>6, <2>2, <3>3, <4>1, <4>2 DEF Final, Tree!RealLevel
    <3>4. QED
      BY <3>2, <3>3
  <2>3. CASE ~ r.accurate
    <3>1. x = (IF l = 0 THEN 99 ELSE l) * 1
      BY <2>1, <2>3
    <3>2. x = IF l = 0 THEN 99 ELSE l
      BY <3>1
    <3>3. x # 9900 /\ ~ (x >= 100) /\ x < 100
      BY <3>2
    <3>4. QED
      BY <1>6, <2>3, <3>2, <3>3 DEF Final, Tree!RealLevel
  <2>4. QED
    BY <1>8, <2>2, <2>3
<1>10. info[q].level = y /\ info[q].groups = r.groups /\ r.sid = q
  BY <1>2, <1>4, <1>6
<1>11. info[q].ar = {a \in ActiveResponses :
                       /\ r.accurate /\ l > 0 /\ ~ r.no_ar
                       /\ \/ a.level > 0 /\ y >= a.level
                          \/ a.groups \cap r.groups # {}
                          \/ q \in a.rules}
  <2>1. info[q].ar = Tree!Rule_AddAR(r)
    BY <1>2, <1>4
  <2>2. CASE r.accurate /\ l > 0
    <3>1. Tree!RealLevel(x) = l /\ y = l
      BY <1>9, <2>2
    <3>2. QED
      BY <1>6, <1>10, <2>1, <2>2, <3>1 DEF Tree!Rule_AddAR
  <2>3. CASE ~ (r.accurate /\ l > 0)
    <3>1. Tree!RealLevel(x) = 0
      BY <1>9, <2>3
    <3>2. ~ (0 > 0)
      OBVIOUS
    <3>3. Tree!Rule_AddAR(r) = {}
      BY <1>6, <3>1, <3>2 DEF Tree!Rule_AddAR
    <3>4. QED
      BY <2>1, <2>3, <3>3
  <2>4. QED
    BY <2>2, <2>3
<1>12. QED
  BY <1>4, <1>7, <1>9, <1>10, <1>11

-----------------------------------------------------------------------------
(* The lists of the rules that are counted by group.                       *)

MarksOf(e, k) == {j \in DOMAIN e : e[j] = k}

(* What a rule read now adds to the lists of rule q.                       *)
LEMMA MarksAppended ==
  ASSUME NEW l \in Nat, NEW gl, gl \in Seq(1 .. l), NEW c, c \in Nat,
         NEW p, p = l + 1,
         NEW new, new \in Seq(1 .. p), Len(new) = c, \A n \in 1 .. c : new[n] = p
  PROVE  /\ \A k \in 1 .. l : MarksOf(gl \o new, k) = MarksOf(gl, k)
         /\ Cardinality(MarksOf(gl \o new, p)) = c
<1>1. PICK m \in Nat : m = Len(gl)
  BY LenProperties
<1>2. DOMAIN gl = 1 .. m /\ \A j \in 1 .. m : gl[j] \in 1 .. l
  BY <1>1, LenProperties, ElementOfSeq
<1>4. PICK e : e = gl \o new
  OBVIOUS
<1>5. new \in Seq(1 .. l + 1) /\ Len(new) = c /\ \A n \in 1 .. c : new[n] = l + 1
  OBVIOUS
<1>6. gl \in Seq(1 .. l + 1)
  <2>1. 1 .. l \subseteq 1 .. l + 1
    OBVIOUS
  <2>2. QED
    BY <2>1, SeqOfLarger
<1>7. /\ DOMAIN e = 1 .. m + c
      /\ \A j \in 1 .. m : e[j] = gl[j]
      /\ \A j \in m + 1 .. m + c : e[j] = l + 1
  <2>1. /\ e \in Seq(1 .. l + 1) /\ Len(e) = m + c
        /\ \A j \in 1 .. m + c : e[j] = IF j <= m THEN gl[j] ELSE new[j - m]
    <3>1. /\ gl \o new \in Seq(1 .. l + 1) /\ Len(gl \o new) = Len(gl) + Len(new)
          /\ \A j \in 1 .. Len(gl) + Len(new) :
               (gl \o new)[j] = IF j <= Len(gl) THEN gl[j] ELSE new[j - Len(gl)]
      BY <1>5, <1>6, ConcatProperties, ZenonT(60)
    <3>2. QED
      BY <1>1, <1>4, <1>5, <3>1
  <2>2. DOMAIN e = 1 .. m + c
    BY <2>1, LenProperties
  <2>3. ASSUME NEW j \in 1 .. m PROVE e[j] = gl[j]
    <3>1. j \in 1 .. m + c /\ j <= m
      OBVIOUS
    <3>2. QED
      BY <2>1, <3>1
  <2>4. ASSUME NEW j \in m + 1 .. m + c PROVE e[j] = l + 1
    <3>1. j \in 1 .. m + c /\ ~ (j <= m) /\ j - m \in 1 .. c
      OBVIOUS
    <3>2. QED
      BY <1>5, <2>1, <3>1
  <2>5. QED
    BY <2>2, <2>3, <2>4
<1>8. \A j \in 1 .. m + c : j \in 1 .. m \/ j \in m + 1 .. m + c
  OBVIOUS
<1>9. ASSUME NEW k \in 1 .. l
      PROVE  MarksOf(e, k) = MarksOf(gl, k)
  <2>1. k # l + 1
    OBVIOUS
  <2>2. \A j : (j \in 1 .. m + c /\ e[j] = k) <=> (j \in 1 .. m /\ gl[j] = k)
    <3>1. \A j \in 1 .. m : j \in 1 .. m + c
      OBVIOUS
    <3>2. QED
      BY <1>7, <1>8, <2>1, <3>1
  <2>3. \A j : j \in MarksOf(e, k) <=> j \in MarksOf(gl, k)
    BY <1>2, <1>7, <2>2 DEF MarksOf
  <2>4. QED
    BY <2>3 DEF MarksOf
<1>10. MarksOf(e, l + 1) = m + 1 .. m + c
  <2>1. \A j \in 1 .. m : gl[j] # l + 1
    BY <1>2
  <2>2. \A j \in m + 1 .. m + c : j \in 1 .. m + c
    OBVIOUS
  <2>3. QED
    BY <1>7, <1>8, <2>1, <2>2 DEF MarksOf
<1>11. Cardinality(m + 1 .. m + c) = c
  <2>1. Cardinality(m + 1 .. m + c) = IF m + 1 > m + c THEN 0 ELSE m + c - (m + 1) + 1
    BY FS_Interval
  <2>2. QED
    BY <2>1
<1>12. QED
  BY <1>4, <1>9, <1>10, <1>11

Counts(r, groups) ==
  /\ r.matched_sid = <<>> /\ r.matched_group # {}
  /\ r.matched_group \subseteq groups

LEMMA MarkIs ==
  ASSUME NEW r, NEW rules, NEW marked, NEW t, NEW K, Shape(t, K),
         Tree!Mark(r, rules, marked, t), Len(read) \in Nat,
         NEW q \in DOMAIN rules, marked[q] \in Seq(1 .. Len(read))
  PROVE  /\ \A k \in 1 .. Len(read) :
              MarksOf(group_lists'[q], k) = MarksOf(marked[q], k)
         /\ Cardinality(MarksOf(group_lists'[q], Len(read) + 1)) =
              IF Counts(r, rules[q].groups) THEN Cardinality(Tree!NodesOf(t, q)) ELSE 0
<1>1. PICK l, c, gl, e : /\ l = Len(read) /\ c = Cardinality(Tree!NodesOf(t, q))
                         /\ gl = marked[q] /\ e = group_lists'[q]
  OBVIOUS
<1>2. c \in Nat /\ Tree!Cardinality(Tree!NodesOf(t, q)) = c
  BY <1>1, NodesFinite
<1>3. l \in Nat /\ gl \in Seq(1 .. l)
  BY <1>1
<1>4. e = gl \o IF Counts(r, rules[q].groups) THEN [n \in 1 .. c |-> l + 1] ELSE <<>>
  BY <1>1, <1>2 DEF Tree!Mark, Counts
<1>6. CASE Counts(r, rules[q].groups)
  <2>1. PICK new : new = [n \in 1 .. c |-> l + 1]
    OBVIOUS
  <2>2. new \in Seq(1 .. l + 1) /\ DOMAIN new = 1 .. c
    <3>1. l + 1 \in 1 .. l + 1
      BY <1>3
    <3>2. [n \in 1 .. c |-> l + 1] \in Seq(1 .. l + 1)
      BY <1>2, <3>1, IsASeq
    <3>3. QED
      BY <2>1, <3>2
  <2>3. Len(new) = c
    BY <1>2, <2>2, LenProperties
  <2>4. \A n \in 1 .. c : new[n] = l + 1
    BY <2>1
  <2>5. e = gl \o new
    BY <1>4, <1>6, <2>1
  <2>6. /\ \A k \in 1 .. l : MarksOf(gl \o new, k) = MarksOf(gl, k)
        /\ Cardinality(MarksOf(gl \o new, l + 1)) = c
    <3>1. PICK p : p = l + 1
      OBVIOUS
    <3>2. new \in Seq(1 .. p) /\ \A n \in 1 .. c : new[n] = p
      BY <2>2, <2>4, <3>1
    <3>3. c \in Nat /\ l \in Nat /\ gl \in Seq(1 .. l) /\ Len(new) = c
      BY <1>2, <1>3, <2>3
    <3>4. /\ \A k \in 1 .. l : MarksOf(gl \o new, k) = MarksOf(gl, k)
          /\ Cardinality(MarksOf(gl \o new, p)) = c
      BY <3>1, <3>2, <3>3, MarksAppended
    <3>5. QED
      BY <3>1, <3>4
  <2>7. QED
    BY <1>1, <1>6, <2>5, <2>6
<1>7. CASE ~ Counts(r, rules[q].groups)
  <2>1. e = gl
    <3>1. e = gl \o <<>>
      BY <1>4, <1>7
    <3>2. QED
      BY <1>3, <3>1, ConcatEmptySeq
  <2>2. ASSUME NEW j \in DOMAIN gl PROVE gl[j] # l + 1
    <3>1. gl[j] \in 1 .. l
      BY <1>3, ElementOfSeq, LenProperties
    <3>2. QED
      BY <1>3, <3>1
  <2>3. MarksOf(gl, l + 1) = {}
    BY <2>2 DEF MarksOf
  <2>4. QED
    BY <1>1, <1>7, <2>1, <2>3, FS_EmptySet
<1>8. QED
  BY <1>6, <1>7

MarksHold ==
  \A k \in 1 .. Len(read), q \in DOMAIN info :
    ~ Tree!Overwritten(q) =>
      Cardinality(MarksOf(group_lists[q], k)) =
        IF Counts(read[k], info[q].groups) /\ placed[q].at <= k
          THEN Cardinality(Tree!NodesOf(tree, q)) ELSE 0

LEMMA MarksHoldIs ==
  ASSUME TreeTypes, MarksHold PROVE Tree!MarksFollowReading
<1>1. DOMAIN read = 1 .. Len(read)
  BY LenProperties DEF TreeTypes
<1>2. QED
  BY <1>1, SameCardinality DEF MarksHold, MarksOf, Counts, Tree!MarksFollowReading, Tree!KnownRules

(* A rule that has been overwritten stays so.                              *)
LEMMA StillOverwritten ==
  ASSUME TreeTypes, NEW r \in Candidates, read' = Append(read, r), NEW q
  PROVE  /\ Tree!Overwritten(q) => Tree!Overwritten(q)'
         /\ r.overwrite /\ r.sid = q => Tree!Overwritten(q)'
<1>1. /\ read' \in Seq(Candidates)
      /\ \A k \in 1 .. Len(read) : k \in 1 .. Len(read') /\ read'[k] = read[k]
      /\ Len(read) + 1 \in 1 .. Len(read') /\ read'[Len(read) + 1] = r
  BY ReadLonger
<1>2. DOMAIN read = 1 .. Len(read) /\ DOMAIN read' = 1 .. Len(read')
  BY <1>1, LenProperties DEF TreeTypes
<1>3. QED
  BY <1>1, <1>2 DEF Tree!Overwritten

(* The marks of a rule that reading has not changed.                       *)
LEMMA MarkKeepsMarks ==
  ASSUME TreeTypes, MarksHold, NEW r \in Candidates, read' = Append(read, r),
         NEW rules, NEW marked, NEW t, NEW K, Shape(t, K), Tree!Mark(r, rules, marked, t),
         NEW q \in DOMAIN info, q \in DOMAIN rules, marked[q] = group_lists[q],
         Tree!NodesOf(t, q) = Tree!NodesOf(tree, q),
         rules[q].groups = info[q].groups, ~ Tree!Overwritten(q)
  PROVE  \A k \in 1 .. Len(read') :
           Cardinality(MarksOf(group_lists'[q], k)) =
             IF Counts(read'[k], rules[q].groups) /\ placed[q].at <= k
               THEN Cardinality(Tree!NodesOf(t, q)) ELSE 0
<1>1. PICK l : l = Len(read)
  OBVIOUS
<1>2. /\ l \in Nat /\ Len(read') = l + 1
      /\ \A k \in 1 .. l : read'[k] = read[k]
      /\ read'[l + 1] = r
      /\ \A k \in 1 .. Len(read') : k \in 1 .. l \/ k = l + 1
  BY <1>1, ReadLonger, PlacedTypes
<1>3. marked[q] \in Seq(1 .. l)
  BY <1>1 DEF TreeTypes
<1>4. /\ \A k \in 1 .. l : MarksOf(group_lists'[q], k) = MarksOf(marked[q], k)
      /\ Cardinality(MarksOf(group_lists'[q], l + 1)) =
           IF Counts(r, rules[q].groups) THEN Cardinality(Tree!NodesOf(t, q)) ELSE 0
  BY <1>1, <1>2, <1>3, MarkIs
<1>5. ASSUME NEW k \in 1 .. l
      PROVE  Cardinality(MarksOf(group_lists'[q], k)) =
               IF Counts(read'[k], rules[q].groups) /\ placed[q].at <= k
                 THEN Cardinality(Tree!NodesOf(t, q)) ELSE 0
  <2>1. MarksOf(group_lists'[q], k) = MarksOf(group_lists[q], k)
    BY <1>4 DEF MarksOf
  <2>2. Cardinality(MarksOf(group_lists[q], k)) =
          IF Counts(read[k], info[q].groups) /\ placed[q].at <= k
            THEN Cardinality(Tree!NodesOf(tree, q)) ELSE 0
    BY <1>1 DEF MarksHold
  <2>3. QED
    BY <1>2, <2>1, <2>2
<1>6. placed[q].at <= l + 1
  <2>1. placed[q].at \in 1 .. l
    BY <1>1, PlacedTypes
  <2>2. PICK a : a = placed[q].at
    OBVIOUS
  <2>3. a <= l + 1
    BY <1>2, <2>1, <2>2
  <2>4. QED
    BY <2>2, <2>3
<1>7. QED
  BY <1>2, <1>4, <1>5, <1>6

LEMMA AddKeepsMarks ==
  ASSUME TreeCore, TreeCore', MarksHold, NEW r \in Candidates, r.sid \notin DOMAIN info,
         NEW t, NEW category, Tree!Add(r, t, category), NEW Q,
         Extended(t, r.sid, Q, PlacedWith(r))
  PROVE  MarksHold'
<1> DEFINE L == Len(read)
           K == DOMAIN info
           J == DOMAIN info'
           marked == [q \in J |-> IF q \in K THEN group_lists[q] ELSE <<>>]
<1>1. TreeTypes /\ Shape(tree, K) /\ Shape(t, K \cup {r.sid})
  BY DEF TreeCore, Extended
<1>2. /\ tree' = t /\ read' = Append(read, r)
      /\ J = IF Tree!NodesOf(t, r.sid) = {} THEN K ELSE K \cup {r.sid}
      /\ \A q \in K : info'[q] = info[q] /\ placed'[q] = placed[q]
      /\ r.sid \in J => placed'[r.sid] = [level |-> Tree!ReadLevel(r), at |-> L + 1]
  BY <1>1, AddIs
<1>3. Tree!Mark(r, info', marked, t)
  BY <1>1, AddIs
<1>4. \A q \in J : q \in K \/ q = r.sid
  BY <1>2
<1>5. K \subseteq J
  BY <1>2
<1> HIDE DEF J
<1>6. /\ L \in Nat /\ Len(read') = L + 1
      /\ \A k \in 1 .. L : k \in 1 .. Len(read') /\ read'[k] = read[k]
      /\ L + 1 \in 1 .. Len(read') /\ read'[L + 1] = r
      /\ \A k \in 1 .. Len(read') : k \in 1 .. L \/ k = L + 1
  BY <1>1, <1>2, ReadLonger, PlacedTypes
<1>7. ASSUME NEW q \in J, ~ Tree!Overwritten(q)', NEW k \in 1 .. Len(read')
      PROVE  Cardinality(MarksOf(group_lists'[q], k)) =
               IF Counts(read'[k], info'[q].groups) /\ placed'[q].at <= k
                 THEN Cardinality(Tree!NodesOf(t, q)) ELSE 0
  <2>1. CASE q \in K
    <3>1. Tree!NodesOf(t, q) = Tree!NodesOf(tree, q)
      <4>1. /\ DOMAIN t.rule = 1 .. Len(t.rule) /\ DOMAIN tree.rule = 1 .. Len(tree.rule)
            /\ Len(t.rule) \in Nat /\ Len(tree.rule) \in Nat
        BY <1>1, ShapeIs
      <4>2. /\ Len(tree.rule) <= Len(t.rule)
            /\ \A n \in 1 .. Len(tree.rule) : t.rule[n] = tree.rule[n]
            /\ \A n \in Len(tree.rule) + 1 .. Len(t.rule) : t.rule[n] = r.sid
        BY DEF Extended
      <4>3. /\ \A n \in 1 .. Len(t.rule) :
                 n \in 1 .. Len(tree.rule) \/ n \in Len(tree.rule) + 1 .. Len(t.rule)
            /\ \A n \in 1 .. Len(tree.rule) : n \in 1 .. Len(t.rule)
        BY <4>1, <4>2
      <4>4. q # r.sid
        BY <2>1
      <4>5. \A n : (n \in 1 .. Len(t.rule) /\ t.rule[n] = q) <=>
                   (n \in 1 .. Len(tree.rule) /\ tree.rule[n] = q)
        BY <4>2, <4>3, <4>4
      <4>6. QED
        BY <4>1, <4>5 DEF Tree!NodesOf
    <3>2. ~ Tree!Overwritten(q)
      BY <1>1, <1>2, <1>7, StillOverwritten
    <3>3. PICK rules : rules = info'
      OBVIOUS
    <3>4. /\ Tree!Mark(r, rules, marked, t) /\ q \in DOMAIN rules
          /\ marked[q] = group_lists[q] /\ rules[q].groups = info[q].groups
      BY <1>2, <1>3, <2>1, <3>3 DEF J
    <3> HIDE DEF marked
    <3>5. Cardinality(MarksOf(group_lists'[q], k)) =
            IF Counts(read'[k], rules[q].groups) /\ placed[q].at <= k
              THEN Cardinality(Tree!NodesOf(t, q)) ELSE 0
      BY <1>1, <1>2, <1>7, <2>1, <3>1, <3>2, <3>4, MarkKeepsMarks
    <3>6. QED
      BY <1>2, <2>1, <3>3, <3>5
  <2>2. CASE q = r.sid
    <3>1. PICK rules : rules = info'
      OBVIOUS
    <3>2. q \in DOMAIN rules /\ Tree!Mark(r, rules, marked, t) /\ marked[q] = <<>>
      BY <1>3, <2>2, <3>1 DEF J
    <3> HIDE DEF marked
    <3>3. <<>> \in Seq(1 .. L)
      BY EmptySeq
    <3>4. /\ \A i \in 1 .. L : MarksOf(group_lists'[q], i) = MarksOf(marked[q], i)
          /\ Cardinality(MarksOf(group_lists'[q], L + 1)) =
               IF Counts(r, rules[q].groups) THEN Cardinality(Tree!NodesOf(t, q)) ELSE 0
      <4>1. marked[q] \in Seq(1 .. L)
        BY <3>2, <3>3
      <4>2. QED
        <5>1. PICK mk : mk = marked
          OBVIOUS
        <5>2. Tree!Mark(r, rules, mk, t) /\ mk[q] \in Seq(1 .. Len(read)) /\ Len(read) \in Nat
          BY <1>6, <3>2, <4>1, <5>1
        <5>3. PICK U : Shape(t, U)
          BY <1>1
        <5>4. QED
          BY <3>2, <5>1, <5>2, <5>3, MarkIs
    <3>5. placed'[q].at = L + 1
      BY <1>2, <1>7, <2>2
    <3>6. CASE k \in 1 .. L
      <4>1. MarksOf(group_lists'[q], k) = {}
        <5>1. DOMAIN <<>> = {}
          OBVIOUS
        <5>2. MarksOf(<<>>, k) = {}
          BY <5>1 DEF MarksOf
        <5>3. QED
          BY <3>2, <3>4, <3>6, <5>2
      <4>2. ~ (L + 1 <= k)
        BY <1>6, <3>6
      <4>3. QED
        BY <3>5, <4>1, <4>2, FS_EmptySet
    <3>7. CASE k = L + 1
      <4>1. L + 1 <= k
        BY <1>6, <3>7
      <4>2. QED
        BY <1>6, <3>1, <3>4, <3>5, <3>7, <4>1
    <3>8. QED
      BY <1>6, <3>6, <3>7
  <2>3. QED
    BY <1>4, <2>1, <2>2
<1>8. QED
  BY <1>2, <1>7 DEF MarksHold, J

LEMMA OverwriteKeepsMarks ==
  ASSUME TreeCore, MarksHold, NEW r \in Candidates, Tree!Overwrite(r)
  PROVE  MarksHold'
<1>1. TreeTypes /\ Shape(tree, DOMAIN info)
  BY DEF TreeCore
<1>2. /\ r.overwrite /\ read' = Append(read, r) /\ tree' = tree /\ placed' = placed
      /\ DOMAIN info' = DOMAIN info
      /\ \A q \in DOMAIN info : q # r.sid => info'[q] = info[q]
      /\ Tree!Mark(r, info', group_lists, tree)
  BY <1>1, OverwriteIs
<1>3. ASSUME NEW q \in DOMAIN info, ~ Tree!Overwritten(q)', NEW k \in 1 .. Len(read')
      PROVE  Cardinality(MarksOf(group_lists'[q], k)) =
               IF Counts(read'[k], info'[q].groups) /\ placed[q].at <= k
                 THEN Cardinality(Tree!NodesOf(tree, q)) ELSE 0
  <2>1. q # r.sid /\ ~ Tree!Overwritten(q)
    BY <1>1, <1>2, <1>3, StillOverwritten
  <2>2. PICK rules : rules = info'
    OBVIOUS
  <2>3. /\ Tree!Mark(r, rules, group_lists, tree) /\ q \in DOMAIN rules
        /\ rules[q].groups = info[q].groups
    BY <1>2, <2>1, <2>2
  <2>4. Cardinality(MarksOf(group_lists'[q], k)) =
          IF Counts(read'[k], rules[q].groups) /\ placed[q].at <= k
            THEN Cardinality(Tree!NodesOf(tree, q)) ELSE 0
    BY <1>1, <1>2, <1>3, <2>1, <2>3, MarkKeepsMarks
  <2>5. QED
    BY <2>2, <2>4
<1>4. QED
  BY <1>2, <1>3 DEF MarksHold

-----------------------------------------------------------------------------
(* The invariants together.                                                *)

TreeInv == TreeCore /\ LastHolds /\ MarksHold

LEMMA TreeStarts ==
  ASSUME Tree!Init PROVE TreeInv
<1>1. TreeCore
  BY StartCore
<1>2. DOMAIN info = {}
  BY DEF Tree!Init
<1>3. QED
  BY <1>1, <1>2 DEF TreeInv, LastHolds, MarksHold

LEMMA SetLevelsKeepsMarks ==
  ASSUME TreeCore, MarksHold, Tree!SetLevels PROVE MarksHold'
<1>1. /\ DOMAIN info' = DOMAIN info
      /\ \A q \in DOMAIN info : info'[q].groups = info[q].groups
      /\ tree' = tree /\ group_lists' = group_lists
      /\ read' = read /\ placed' = placed
  BY SetLevelsIs
<1>2. \A q : Tree!Overwritten(q)' <=> Tree!Overwritten(q)
  BY <1>1 DEF Tree!Overwritten
<1>3. QED
  BY <1>1, <1>2 DEF MarksHold

(* Nothing is lost when analysisd ends, nor when nothing happens.          *)
LEMMA SameTreeInv ==
  ASSUME TreeInv, phase' = phase \/ (phase = "reading" /\ phase' = "exit"),
         UNCHANGED <<tree, info, sid_lists, group_lists, read, below, placed>>
  PROVE  TreeInv'
<1>1. /\ TreeTypes /\ Shape(tree, DOMAIN info) /\ ReadBefore /\ NodesAsked /\ Covered
      /\ InOrder /\ LevelsPlaced /\ LastHolds /\ MarksHold
  BY DEF TreeInv, TreeCore
<1>2. /\ tree' = tree /\ info' = info /\ sid_lists' = sid_lists
      /\ group_lists' = group_lists /\ read' = read /\ below' = below /\ placed' = placed
  OBVIOUS
<1>3. TreeTypes'
  BY <1>1, <1>2 DEF TreeTypes
<1>4. ReadBefore' /\ NodesAsked' /\ Covered' /\ InOrder'
  BY <1>1, <1>2 DEF ReadBefore, NodesAsked, Covered, InOrder, Tree!LevelsKept
<1>5. Shape(tree', DOMAIN info') /\ LevelsPlaced'
  BY <1>1, <1>2 DEF LevelsPlaced, Tree!LevelsKept
<1>6. LastHolds'
  BY <1>1, <1>2 DEF LastHolds
<1>7. MarksHold'
  BY <1>1, <1>2 DEF MarksHold, Tree!Overwritten
<1>8. QED
  BY <1>3, <1>4, <1>5, <1>6, <1>7 DEF TreeInv, TreeCore

LEMMA ReadKeepsInv ==
  ASSUME TreeInv, NEW r \in Candidates, Tree!Read(r) PROVE TreeInv'
<1>1. TreeCore /\ LastHolds /\ MarksHold
  BY DEF TreeInv
<1>2. phase = "reading" /\ Len(read) < MaxRules
  BY DEF Tree!Read
<1>3. CASE Tree!ReadTemplate(r) \/ Tree!ReadChild(r)
  <2>1. r.sid \notin DOMAIN info /\ ~ r.overwrite
    BY <1>1, <1>2, <1>3, ReadExtends
  <2>2. PICK t : \E category \in Categories : \E Q \in SUBSET DOMAIN info :
          /\ Tree!Add(r, t, category)
          /\ Q = IF r.sid < 10 THEN {} ELSE Tree!ParentsAsked(r)
          /\ Extended(t, r.sid, Q, PlacedWith(r))
    BY <1>1, <1>2, <1>3, ReadExtends
  <2>3. PICK category \in Categories : \E Q \in SUBSET DOMAIN info :
          /\ Tree!Add(r, t, category)
          /\ Q = IF r.sid < 10 THEN {} ELSE Tree!ParentsAsked(r)
          /\ Extended(t, r.sid, Q, PlacedWith(r))
    BY <2>2
  <2>4. PICK Q \in SUBSET DOMAIN info :
          /\ Tree!Add(r, t, category)
          /\ Q = IF r.sid < 10 THEN {} ELSE Tree!ParentsAsked(r)
          /\ Extended(t, r.sid, Q, PlacedWith(r))
    BY <2>3
  <2>5. TreeCore'
    BY <1>1, <1>2, <2>1, <2>4, AddKeepsCore
  <2>6. LastHolds'
    BY <1>1, <1>2, <2>1, <2>4, AddKeepsLast
  <2>7. MarksHold'
    BY <1>1, <2>1, <2>4, <2>5, AddKeepsMarks
  <2>8. QED
    BY <2>5, <2>6, <2>7 DEF TreeInv
<1>4. CASE Tree!Overwrite(r)
  <2>1. TreeCore'
    BY <1>1, <1>2, <1>4, OverwriteKeepsCore
  <2>2. LastHolds'
    BY <1>1, <1>2, <1>4, OverwriteKeepsLast
  <2>3. MarksHold'
    BY <1>1, <1>4, OverwriteKeepsMarks
  <2>4. QED
    BY <2>1, <2>2, <2>3 DEF TreeInv
<1>5. CASE Tree!Refuse(r)
  BY <1>2, <1>5, SameTreeInv DEF Tree!Refuse
<1>6. QED
  BY <1>3, <1>4, <1>5 DEF Tree!Read

LEMMA AllKeepTreeInv ==
  ASSUME TreeInv, [AllNext]_allVars PROVE TreeInv'
<1>1. CASE Start
  <2>1. CASE \E r \in Candidates : Tree!Read(r)
    BY <2>1, ReadKeepsInv
  <2>2. CASE Tree!SetLevels
    <3>1. TreeCore /\ LastHolds /\ MarksHold
      BY DEF TreeInv
    <3>2. TreeCore' /\ LastHolds' /\ MarksHold'
      BY <2>2, <3>1, SetLevelsKeepsCore, SetLevelsKeepsLast, SetLevelsKeepsMarks
    <3>3. QED
      BY <3>2 DEF TreeInv
  <2>3. QED
    BY <1>1, <2>1, <2>2 DEF Start, Tree!Next
<1>2. CASE UNCHANGED treeVars
  BY <1>2, SameTreeInv DEF treeVars
<1>3. QED
  BY <1>1, <1>2 DEF AllNext, Events, allVars

-----------------------------------------------------------------------------
(* What they say of the tree.                                              *)

LEMMA TreeTypesAre ==
  ASSUME TreeTypes, Shape(tree, DOMAIN info) PROVE Tree!TypeOK
<1>1. /\ Len(tree.rule) \in Nat /\ DOMAIN tree.rule = 1 .. Len(tree.rule)
      /\ tree.rule \in Seq(DOMAIN info)
      /\ tree.child \in [0 .. Len(tree.rule) -> Seq(1 .. Len(tree.rule))]
      /\ tree.up \in [1 .. Len(tree.rule) -> 0 .. Len(tree.rule)]
  BY ShapeIs DEF Shape
<1>2. tree.up \in Seq(0 .. Len(tree.rule)) /\ Len(tree.up) = Len(tree.rule)
  <2>1. PICK l, u : l = Len(tree.rule) /\ u = tree.up
    OBVIOUS
  <2>2. l \in Nat /\ u \in [1 .. l -> 0 .. l]
    BY <1>1, <2>1
  <2>3. u = [k \in 1 .. l |-> u[k]] /\ \A k \in 1 .. l : u[k] \in 0 .. l
    BY <2>2
  <2>4. u \in Seq(0 .. l)
    BY <2>2, <2>3, IsASeq
  <2>5. Len(u) = l
    BY <2>2, <2>4, LenProperties
  <2>6. QED
    BY <2>1, <2>4, <2>5
<1>3. QED
  BY <1>1, <1>2 DEF TreeTypes, Tree!TypeOK, Tree!KnownRules, Tree!Node

LEMMA TreeIsWholeHolds ==
  ASSUME TreeCore PROVE Tree!TreeIsWhole
<1>1. Shape(tree, DOMAIN info) /\ NoneBelowItself
  BY NoneBelowItselfHolds DEF TreeCore
<1>2. /\ Len(tree.rule) \in Nat /\ DOMAIN tree.rule = 1 .. Len(tree.rule)
      /\ \A m \in 0 .. Len(tree.rule) : DOMAIN tree.child[m] = 1 .. Len(tree.child[m])
  BY <1>1, ShapeIs
<1>3. ASSUME NEW n \in 1 .. Len(tree.rule), NEW m \in 0 .. Len(tree.rule)
      PROVE  Tree!Cardinality({k \in DOMAIN tree.child[m] : tree.child[m][k] = n})
               = IF m = tree.up[n] THEN 1 ELSE 0
  <2>1. PICK S : S = {k \in 1 .. Len(tree.child[m]) : tree.child[m][k] = n}
    OBVIOUS
  <2>2. CASE m = tree.up[n]
    <3>1. PICK k \in 1 .. Len(tree.child[m]) : tree.child[m][k] = n
      BY <1>1, <2>2 DEF Shape
    <3>2. \A j \in 1 .. Len(tree.child[m]) : tree.child[m][j] = n => j = k
      BY <1>1, <3>1 DEF Shape
    <3>3. S = {k}
      BY <2>1, <3>1, <3>2
    <3>4. Cardinality(S) = 1
      BY <3>3, FS_Singleton
    <3>5. QED
      BY <1>2, <2>1, <2>2, <3>4, SameCardinality
  <2>3. CASE m # tree.up[n]
    <3>1. \A k \in 1 .. Len(tree.child[m]) : tree.child[m][k] # n
      BY <1>1, <2>3 DEF Shape
    <3>2. S = {}
      BY <2>1, <3>1
    <3>3. QED
      BY <1>2, <2>1, <2>3, <3>2, SameCardinality, FS_EmptySet
  <2>4. QED
    BY <2>2, <2>3
<1>4. \A n \in 1 .. Len(tree.rule) : tree.up[n] < n
  BY <1>1 DEF Shape
<1>5. ASSUME NEW n \in 1 .. Len(tree.rule), NEW m \in Tree!Path(tree)[n] \ {n}
      PROVE  tree.rule[m] # tree.rule[n]
  BY <1>1, <1>5 DEF NoneBelowItself
<1>6. QED
  BY <1>2, <1>3, <1>4, <1>5 DEF Tree!TreeIsWhole, Tree!Node

LEMMA TreeInvGivesRulesInv ==
  ASSUME TreeInv PROVE Tree!RulesInv
<1>1. TreeCore /\ TreeTypes /\ Shape(tree, DOMAIN info) /\ LastHolds /\ MarksHold
  BY DEF TreeInv, TreeCore
<1>2. Tree!TypeOK /\ Tree!TreeIsWhole /\ Tree!MarksFollowReading /\ Tree!DefinitionsHold
  BY <1>1, TreeTypesAre, TreeIsWholeHolds, MarksHoldIs, LastGivesDefinitions
<1>3. QED
  BY <1>2 DEF Tree!RulesInv

LEMMA TreeInvariant == AllSpec => []TreeInv
<1>1. AllInit => TreeInv
  BY TreeStarts DEF AllInit
<1>2. TreeInv /\ [AllNext]_allVars => TreeInv'
  BY AllKeepTreeInv
<1>3. QED
  BY <1>1, <1>2, PTL DEF AllSpec

(* Whatever rules are read, in whatever order, up to the last file: every  *)
(* node is once among the children of its parent and no rule below itself, *)
(* the lists of a rule that counts a group are marked once for each node   *)
(* of the rules read no later (OS_MarkGroup), and when reading is over     *)
(* (_setlevels) each rule has the level and the responses of its last      *)
(* definition.                                                             *)
THEOREM TreeIsSound == AllSpec => []RulesInv
<1>1. TreeInv => RulesInv
  BY TreeInvGivesRulesInv DEF RulesInv
<1>2. QED
  BY <1>1, TreeInvariant, PTL

-----------------------------------------------------------------------------
(* The walk through the tree, one node at a time.                          *)

LEMMA FirstIs ==
  ASSUME NEW l \in Nat, NEW f, f = [k \in 1 .. l |-> f[k]]
  PROVE  /\ (\A k \in 1 .. l : f[k] = 0) => Tree!FirstOf(f) = 0
         /\ \A k \in 1 .. l : f[k] # 0 /\ (\A j \in 1 .. l : j < k => f[j] = 0) =>
              Tree!FirstOf(f) = f[k]
<1> DEFINE I == {k \in 1 .. l : f[k] # 0}
<1>1. Len(f) = l
  <2>1. f \in Seq({f[k] : k \in 1 .. l})
    <3>1. \A k \in 1 .. l : f[k] \in {f[j] : j \in 1 .. l}
      OBVIOUS
    <3>2. PICK S : S = {f[j] : j \in 1 .. l}
      OBVIOUS
    <3>3. [k \in 1 .. l |-> f[k]] \in Seq(S)
      BY <3>1, <3>2, IsASeq
    <3>4. QED
      BY <3>2, <3>3
  <2>2. DOMAIN f = 1 .. l
    OBVIOUS
  <2>3. QED
    BY <2>1, <2>2, LenProperties
<1>2. ASSUME \A k \in 1 .. l : f[k] = 0 PROVE Tree!FirstOf(f) = 0
  <2>1. I = {}
    BY <1>2
  <2>2. QED
    BY <1>1, <2>1 DEF Tree!FirstOf, Tree!SelectInSeq
<1>3. ASSUME NEW k \in 1 .. l, f[k] # 0, \A j \in 1 .. l : j < k => f[j] = 0
      PROVE  Tree!FirstOf(f) = f[k]
  <2>1. k \in I /\ I # {} /\ I \subseteq 1 .. l
    BY <1>3
  <2>2. Min(I) \in I /\ \A j \in I : Min(I) <= j
    BY <2>1, MinIs
  <2>3. Min(I) = k
    <3>1. PICK m \in 1 .. l : m = Min(I) /\ f[m] # 0 /\ m <= k
      BY <2>1, <2>2
    <3>2. ~ (m < k)
      BY <1>3, <3>1
    <3>3. QED
      BY <3>1, <3>2
  <2>4. Tree!SelectInSeq(f, LAMBDA x : x # 0) = k
    BY <1>1, <2>1, <2>3 DEF Tree!SelectInSeq, Tree!Min, Min
  <2>5. k # 0
    OBVIOUS
  <2>6. QED
    BY <2>4, <2>5 DEF Tree!FirstOf
<1>4. QED
  BY <1>2, <1>3

(* What is taken below node n, and by node n.                              *)
TakenBelow(f, n) == Tree!FirstOf([k \in DOMAIN tree.child[n] |-> f[tree.child[n][k]]])

TakenAt(f, n, E) ==
  IF tree.rule[n] \notin E THEN 0
  ELSE IF TakenBelow(f, n) # 0 THEN TakenBelow(f, n)
  ELSE IF info[tree.rule[n]].noalert THEN 0 ELSE tree.rule[n]

LEMMA TakenAtAlike ==
  ASSUME NEW K, Shape(tree, K), NEW E, NEW n \in 1 .. Len(tree.rule), NEW f, NEW g,
         \A m \in 1 .. Len(tree.rule) : m > n => f[m] = g[m]
  PROVE  TakenAt(f, n, E) = TakenAt(g, n, E)
<1>1. PICK c : c = tree.child[n]
  OBVIOUS
<1>2. /\ DOMAIN c = 1 .. Len(c) /\ Len(tree.rule) \in Nat
      /\ \A k \in 1 .. Len(c) : c[k] \in 1 .. Len(tree.rule)
  <2>1. Len(tree.rule) \in Nat /\ n \in 0 .. Len(tree.rule)
    BY ShapeIs
  <2>2. c \in Seq(1 .. Len(tree.rule)) /\ DOMAIN c = 1 .. Len(c)
    BY <1>1, <2>1, ShapeIs
  <2>3. \A k \in 1 .. Len(c) : c[k] \in 1 .. Len(tree.rule)
    BY <2>2, ElementOfSeq
  <2>4. QED
    BY <2>1, <2>2, <2>3
<1>3. ASSUME NEW k \in 1 .. Len(c) PROVE f[c[k]] = g[c[k]]
  <2>1. tree.up[c[k]] = n /\ tree.up[c[k]] < c[k]
    BY <1>1, <1>2 DEF Shape
  <2>2. c[k] > n
    BY <1>2, <2>1
  <2>3. QED
    BY <1>2, <2>2
<1>4. [k \in DOMAIN c |-> f[c[k]]] = [k \in DOMAIN c |-> g[c[k]]]
  BY <1>2, <1>3
<1>5. TakenBelow(f, n) = TakenBelow(g, n)
  BY <1>1, <1>4 DEF TakenBelow
<1>6. QED
  BY <1>5 DEF TakenAt

LEMMA WalkIs ==
  ASSUME NEW K, Shape(tree, K), NEW E
  PROVE  \A n \in 1 .. Len(tree.rule) :
           Tree!OS_CheckIfRuleMatch(E)[n] = TakenAt(Tree!OS_CheckIfRuleMatch(E), n, E)
<1> DEFINE N == Len(tree.rule)
           Good(f, d) == /\ f = [n \in 1 .. N |-> f[n]]
                         /\ \A n \in 1 .. N : n > N - d => f[n] = TakenAt(f, n, E)
           Has == {d \in 0 .. N : \E f : Good(f, d)}
<1>1. N \in Nat /\ DOMAIN tree.rule = 1 .. N
  BY ShapeIs
<1>2. 0 \in Has
  <2> DEFINE g == [n \in 1 .. N |-> 0]
  <2>1. Good(g, 0)
    <3>1. \A n \in 1 .. N : ~ (n > N - 0)
      BY <1>1
    <3>2. QED
      BY <3>1
  <2> HIDE DEF g, Good
  <2>2. QED
    BY <1>1, <2>1
<1>3. ASSUME NEW d \in 0 .. N - 1, d \in Has PROVE d + 1 \in Has
  <2>1. PICK f : Good(f, d)
    BY <1>3
  <2>2. PICK k \in 1 .. N : k = N - d
    <3>1. PICK l : l = N
      OBVIOUS
    <3>2. l - d \in 1 .. l
      BY <1>1, <3>1
    <3>3. QED
      BY <3>1, <3>2
  <2>3. PICK v : v = TakenAt(f, k, E)
    OBVIOUS
  <2> DEFINE g == [n \in 1 .. N |-> IF n = k THEN v ELSE f[n]]
  <2>4. \A n \in 1 .. N : n > k => g[n] = f[n]
    BY <1>1
  <2>5. g[k] = v /\ g = [n \in 1 .. N |-> g[n]]
    OBVIOUS
  <2> HIDE DEF g
  <2>6. ASSUME NEW n \in 1 .. N, n > N - (d + 1) PROVE g[n] = TakenAt(g, n, E)
    <3>1. n = k \/ n > k
      BY <1>1, <2>2, <2>6
    <3>2. \A m \in 1 .. N : m > n => g[m] = f[m]
      BY <1>1, <2>4, <3>1
    <3>3. TakenAt(g, n, E) = TakenAt(f, n, E)
      BY <3>2, TakenAtAlike
    <3>4. CASE n = k
      BY <2>3, <2>5, <3>3, <3>4
    <3>5. CASE n > k
      <4>1. f[n] = TakenAt(f, n, E)
        BY <2>1, <2>2, <3>5
      <4>2. QED
        BY <2>4, <3>3, <3>5, <4>1
    <3>6. QED
      BY <3>1, <3>4, <3>5
  <2>7. Good(g, d + 1)
    BY <2>5, <2>6
  <2>8. d + 1 \in 0 .. N
    BY <1>1
  <2> HIDE DEF Good
  <2>9. QED
    BY <2>7, <2>8
<1> HIDE DEF Has
<1>4. \A d \in 0 .. N : d \in Has
  BY <1>1, <1>2, <1>3, UpTo
<1>5. PICK h : Good(h, N)
  <2>1. N \in Has
    BY <1>1, <1>4
  <2>2. QED
    BY <2>1 DEF Has
<1>6. h = [n \in 1 .. N |-> TakenAt(h, n, E)]
  <2>1. \A n \in 1 .. N : n > N - N
    BY <1>1
  <2>2. QED
    BY <1>5, <2>1
<1>7. Tree!OS_CheckIfRuleMatch(E) = CHOOSE f : f = [n \in 1 .. N |-> TakenAt(f, n, E)]
  BY <1>1 DEF Tree!OS_CheckIfRuleMatch, Tree!Fits, TakenAt, TakenBelow
<1>8. PICK c : c = CHOOSE f : f = [n \in 1 .. N |-> TakenAt(f, n, E)]
  OBVIOUS
<1>9. c = [n \in 1 .. N |-> TakenAt(c, n, E)]
  BY <1>6, <1>8
<1>10. \A n \in 1 .. N : c[n] = TakenAt(c, n, E)
  BY <1>9
<1>11. QED
  BY <1>7, <1>8, <1>10

-----------------------------------------------------------------------------
(* The same by rules.                                                      *)

(* Of several rules one is tried first.                                    *)
LEMMA ForemostIs ==
  ASSUME TreeTypes, ReadBefore, NEW S, S \subseteq DOMAIN info, S # {}
  PROVE  /\ Tree!Foremost(S) \in S
         /\ \A a \in S : (\A b \in S : Tree!TriedBefore(a, b)) => a = Tree!Foremost(S)
<1>1. /\ \A a \in S : placed[a].level \in Nat /\ placed[a].at \in Nat
      /\ \A a \in S : placed[a].level <= 9900
  BY PlacedTypes
<1> DEFINE D == {d \in Nat : \E a \in S : placed[a].level + d = 9900}
<1>2. PICK a0 : a0 \in S
  OBVIOUS
<1>3. PICK d \in D : \A e \in D : d <= e
  <2>1. PICK l : l = placed[a0].level
    OBVIOUS
  <2>2. l \in Nat /\ l <= 9900
    BY <1>1, <1>2, <2>1
  <2>3. 9900 - l \in Nat /\ l + (9900 - l) = 9900
    BY <2>2
  <2>4. 9900 - l \in D
    BY <1>2, <2>1, <2>3
  <2>5. D \subseteq Nat /\ D # {}
    BY <2>4
  <2> HIDE DEF D
  <2>6. QED
    BY <2>5, LeastElement
<1>4. PICK a1 \in S : placed[a1].level + d = 9900
  OBVIOUS
<1>5. ASSUME NEW b \in S PROVE placed[b].level <= placed[a1].level
  <2>1. PICK l, m : l = placed[b].level /\ m = placed[a1].level
    OBVIOUS
  <2>2. l \in Nat /\ l <= 9900 /\ m \in Nat /\ m + d = 9900
    BY <1>1, <1>4, <2>1
  <2>3. 9900 - l \in D
    <3>1. 9900 - l \in Nat /\ l + (9900 - l) = 9900
      BY <2>2
    <3>2. QED
      BY <2>1, <3>1
  <2>4. d <= 9900 - l
    BY <1>3, <2>3
  <2>5. d \in Nat
    OBVIOUS
  <2>6. l <= m
    BY <2>2, <2>4, <2>5
  <2>7. QED
    BY <2>1, <2>6
<1> HIDE DEF D
<1> DEFINE A == {t \in Nat : \E b \in S : placed[b].level = placed[a1].level /\ placed[b].at = t}
<1>6. PICK t \in A : \A u \in A : t <= u
  <2>1. placed[a1].at \in A
    BY <1>1
  <2>2. PICK U : U = A
    OBVIOUS
  <2>3. U \subseteq Nat /\ U # {}
    BY <2>1, <2>2
  <2>4. \E u \in U : \A v \in U : u <= v
    BY <2>3, LeastElement
  <2>5. QED
    BY <2>2, <2>4
<1>7. PICK a2 \in S : placed[a2].level = placed[a1].level /\ placed[a2].at = t
  OBVIOUS
<1>8. ASSUME NEW b \in S PROVE Tree!TriedBefore(a2, b)
  <2>1. PICK l, m, x, y : /\ l = placed[b].level /\ m = placed[a2].level
                          /\ x = placed[a2].at /\ y = placed[b].at
    OBVIOUS
  <2>2. l \in Nat /\ m \in Nat /\ l <= m
    BY <1>1, <1>5, <1>7, <2>1
  <2>3. l = m => x <= y
    <3>1. ASSUME l = m PROVE y \in A
      <4>1. placed[b].at \in Nat
        BY <1>1
      <4>2. placed[b].level = placed[a1].level
        BY <1>7, <2>1, <3>1
      <4>3. QED
        BY <2>1, <4>1, <4>2
    <3>2. QED
      BY <1>6, <1>7, <2>1, <3>1
  <2>4. m > l \/ (m = l /\ x <= y)
    BY <2>2, <2>3
  <2>5. QED
    BY <2>1, <2>4 DEF Tree!TriedBefore
<1>9. PICK a3 : a3 = Tree!Foremost(S)
  OBVIOUS
<1>10. a3 \in S /\ \A b \in S : Tree!TriedBefore(a3, b)
  BY <1>7, <1>8, <1>9 DEF Tree!Foremost
<1>11. ASSUME NEW a \in S, \A b \in S : Tree!TriedBefore(a, b) PROVE a = a3
  BY <1>10, <1>11, TriedIsOrder
<1>12. QED
  BY <1>9, <1>10, <1>11

(* What rule s takes.                                                      *)
Takers(f, s) == {c \in DOMAIN info : s \in below[c] /\ f[c] # 0}

TakenFor(f, s, E) ==
  IF s \notin E THEN 0
  ELSE IF Takers(f, s) # {} THEN f[Tree!Foremost(Takers(f, s))]
  ELSE IF info[s].noalert THEN 0 ELSE s

LEMMA TakenForAlike ==
  ASSUME TreeTypes, ReadBefore, NEW E, NEW s \in DOMAIN info, NEW f, NEW g,
         \A c \in DOMAIN info : placed[c].at > placed[s].at => f[c] = g[c]
  PROVE  TakenFor(f, s, E) = TakenFor(g, s, E)
<1>1. ASSUME NEW c \in DOMAIN info, s \in below[c] PROVE f[c] = g[c]
  <2>1. placed[s].at < placed[c].at
    BY <1>1 DEF ReadBefore
  <2>2. placed[s].at \in Nat /\ placed[c].at \in Nat
    BY PlacedTypes
  <2>3. PICK x, y : x = placed[s].at /\ y = placed[c].at
    OBVIOUS
  <2>4. y > x
    BY <2>1, <2>2, <2>3
  <2>5. QED
    BY <2>3, <2>4
<1>2. Takers(f, s) = Takers(g, s)
  BY <1>1 DEF Takers
<1>3. CASE Takers(f, s) = {}
  BY <1>2, <1>3 DEF TakenFor
<1>4. CASE Takers(f, s) # {}
  <2>1. PICK a : a = Tree!Foremost(Takers(f, s))
    OBVIOUS
  <2>2. Takers(f, s) \subseteq DOMAIN info
    BY DEF Takers
  <2>3. a \in Takers(f, s)
    BY <1>4, <2>1, <2>2, ForemostIs
  <2>4. f[a] = g[a]
    BY <1>1, <2>3 DEF Takers
  <2>5. QED
    BY <1>2, <1>4, <2>1, <2>4 DEF TakenFor
<1>5. QED
  BY <1>3, <1>4

LEMMA TakenByRulesIs ==
  ASSUME TreeTypes, ReadBefore, NEW E
  PROVE  \A s \in DOMAIN info : Tree!TakenByRules(E)[s] = TakenFor(Tree!TakenByRules(E), s, E)
<1> DEFINE When(s) == placed[s].at
<1>1. PICK L : L = Len(read)
  OBVIOUS
<1>2. L \in Nat /\ \A s \in DOMAIN info : When(s) \in 1 .. L
  BY <1>1, PlacedTypes
<1>3. ASSUME NEW f, NEW g, NEW s \in DOMAIN info,
             \A c \in DOMAIN info : When(c) > When(s) => f[c] = g[c]
      PROVE  TakenFor(f, s, E) = TakenFor(g, s, E)
  BY <1>3, TakenForAlike
<1> HIDE DEF When
<1> DEFINE Good(f, d) == /\ f = [s \in DOMAIN info |-> f[s]]
                         /\ \A s \in DOMAIN info : When(s) > L - d => f[s] = TakenFor(f, s, E)
           Has == {d \in 0 .. L : \E f : Good(f, d)}
<1>4. 0 \in Has
  <2> DEFINE g == [s \in DOMAIN info |-> 0]
  <2>1. Good(g, 0)
    <3>1. \A s \in DOMAIN info : ~ (When(s) > L - 0)
      BY <1>2
    <3>2. QED
      BY <3>1
  <2> HIDE DEF g, Good
  <2>2. QED
    BY <1>2, <2>1
<1>5. ASSUME NEW d \in 0 .. L - 1, d \in Has PROVE d + 1 \in Has
  <2>1. PICK f : Good(f, d)
    BY <1>5
  <2>2. PICK k \in 1 .. L : k = L - d
    BY <1>2
  <2> DEFINE g == [s \in DOMAIN info |-> IF When(s) = k THEN TakenFor(f, s, E) ELSE f[s]]
  <2>3. \A s \in DOMAIN info : When(s) > k => g[s] = f[s]
    BY <1>2
  <2>4. /\ \A s \in DOMAIN info : When(s) = k => g[s] = TakenFor(f, s, E)
        /\ g = [s \in DOMAIN info |-> g[s]]
    OBVIOUS
  <2> HIDE DEF g
  <2>5. ASSUME NEW s \in DOMAIN info, When(s) > L - (d + 1) PROVE g[s] = TakenFor(g, s, E)
    <3>1. When(s) = k \/ When(s) > k
      BY <1>2, <2>2, <2>5
    <3>2. \A c \in DOMAIN info : When(c) > When(s) => g[c] = f[c]
      BY <1>2, <2>3, <3>1
    <3>3. TakenFor(g, s, E) = TakenFor(f, s, E)
      BY <1>3, <3>2
    <3>4. CASE When(s) = k
      BY <2>4, <3>3, <3>4
    <3>5. CASE When(s) > k
      <4>1. f[s] = TakenFor(f, s, E)
        BY <2>1, <2>2, <3>5
      <4>2. QED
        BY <2>3, <3>3, <3>5, <4>1
    <3>6. QED
      BY <3>1, <3>4, <3>5
  <2>6. Good(g, d + 1)
    BY <2>4, <2>5
  <2>7. d + 1 \in 0 .. L
    BY <1>2
  <2> HIDE DEF Good
  <2>8. QED
    BY <2>6, <2>7
<1> HIDE DEF Has
<1>6. \A d \in 0 .. L : d \in Has
  BY <1>2, <1>4, <1>5, UpTo
<1>7. PICK h : Good(h, L)
  <2>1. L \in Has
    BY <1>2, <1>6
  <2>2. QED
    BY <2>1 DEF Has
<1>8. h = [s \in DOMAIN info |-> TakenFor(h, s, E)]
  <2>1. \A s \in DOMAIN info : When(s) > L - L
    BY <1>2
  <2>2. QED
    BY <1>7, <2>1
<1>9. Tree!TakenByRules(E) = CHOOSE f : f = [s \in DOMAIN info |-> TakenFor(f, s, E)]
  BY DEF Tree!TakenByRules, Tree!KnownRules, TakenFor, Takers
<1>10. PICK c : c = CHOOSE f : f = [s \in DOMAIN info |-> TakenFor(f, s, E)]
  OBVIOUS
<1>11. c = [s \in DOMAIN info |-> TakenFor(c, s, E)]
  BY <1>8, <1>10
<1>12. \A s \in DOMAIN info : c[s] = TakenFor(c, s, E)
  BY <1>11
<1>13. QED
  BY <1>9, <1>10, <1>12

-----------------------------------------------------------------------------
(* Both take the same.                                                     *)

LEMMA ChildrenAre ==
  ASSUME TreeCore, NEW n \in 1 .. Len(tree.rule)
  PROVE  /\ Len(tree.child[n]) \in Nat
         /\ DOMAIN tree.child[n] = 1 .. Len(tree.child[n])
         /\ \A k \in 1 .. Len(tree.child[n]) :
              /\ tree.child[n][k] \in 1 .. Len(tree.rule)
              /\ tree.child[n][k] > n
              /\ tree.up[tree.child[n][k]] = n
              /\ tree.rule[tree.child[n][k]] \in DOMAIN info
              /\ tree.rule[n] \in below[tree.rule[tree.child[n][k]]]
<1>1. Shape(tree, DOMAIN info) /\ NodesAsked
  BY DEF TreeCore
<1>2. PICK c : c = tree.child[n]
  OBVIOUS
<1>3. n \in 0 .. Len(tree.rule) /\ Len(tree.rule) \in Nat
  BY <1>1, ShapeIs
<1>4. c \in Seq(1 .. Len(tree.rule)) /\ DOMAIN c = 1 .. Len(c) /\ Len(c) \in Nat
  BY <1>1, <1>2, <1>3, ShapeIs
<1>5. ASSUME NEW k \in 1 .. Len(c)
      PROVE  /\ c[k] \in 1 .. Len(tree.rule) /\ c[k] > n /\ tree.up[c[k]] = n
             /\ tree.rule[c[k]] \in DOMAIN info /\ tree.rule[n] \in below[tree.rule[c[k]]]
  <2>1. c[k] \in 1 .. Len(tree.rule)
    BY <1>4, ElementOfSeq
  <2>2. tree.up[c[k]] = n /\ tree.up[c[k]] < c[k]
    BY <1>1, <1>2, <1>3, <2>1 DEF Shape
  <2>3. tree.rule[c[k]] \in DOMAIN info
    BY <1>1, <2>1, ShapeIs
  <2>4. n # 0
    OBVIOUS
  <2>5. tree.rule[n] \in below[tree.rule[c[k]]]
    BY <1>1, <2>1, <2>2, <2>4 DEF NodesAsked
  <2>6. c[k] > n
    BY <1>3, <2>1, <2>2
  <2>7. QED
    BY <2>1, <2>2, <2>3, <2>5, <2>6
<1>6. QED
  BY <1>2, <1>4, <1>5

LEMMA TakenBelowIs ==
  ASSUME TreeCore, NEW n \in 1 .. Len(tree.rule), NEW T
  PROVE  /\ (\A k \in 1 .. Len(tree.child[n]) : T[tree.child[n][k]] = 0) => TakenBelow(T, n) = 0
         /\ \A k \in 1 .. Len(tree.child[n]) :
              T[tree.child[n][k]] # 0
              /\ (\A j \in 1 .. Len(tree.child[n]) : j < k => T[tree.child[n][j]] = 0) =>
                TakenBelow(T, n) = T[tree.child[n][k]]
<1>1. PICK c, l : c = tree.child[n] /\ l = Len(c)
  OBVIOUS
<1>2. l \in Nat /\ DOMAIN c = 1 .. l
  BY <1>1, ChildrenAre
<1>3. PICK f : f = [k \in 1 .. l |-> T[c[k]]]
  OBVIOUS
<1>4. f = [k \in 1 .. l |-> f[k]] /\ \A k \in 1 .. l : f[k] = T[c[k]]
  BY <1>3
<1>5. TakenBelow(T, n) = Tree!FirstOf(f)
  BY <1>1, <1>2, <1>3 DEF TakenBelow
<1>6. /\ (\A k \in 1 .. l : f[k] = 0) => Tree!FirstOf(f) = 0
      /\ \A k \in 1 .. l : f[k] # 0 /\ (\A j \in 1 .. l : j < k => f[j] = 0) =>
           Tree!FirstOf(f) = f[k]
  BY <1>2, <1>4, FirstIs, ZenonT(60)
<1>7. QED
  BY <1>1, <1>4, <1>5, <1>6

Walked(T, E) == \A n \in 1 .. Len(tree.rule) : T[n] = TakenAt(T, n, E)
ByRules(R, E) == \A s \in DOMAIN info : R[s] = TakenFor(R, s, E)

(* No node takes what its rule does not.                                   *)
LEMMA NothingTaken ==
  ASSUME TreeCore, NEW E, NEW T, Walked(T, E), NEW R, ByRules(R, E)
  PROVE  \A n \in 1 .. Len(tree.rule) : R[tree.rule[n]] = 0 => T[n] = 0
<1>1. /\ Shape(tree, DOMAIN info) /\ TreeTypes /\ ReadBefore
  BY DEF TreeCore
<1>2. Len(tree.rule) \in Nat /\ \A n \in 1 .. Len(tree.rule) : tree.rule[n] \in DOMAIN info
  BY <1>1, ShapeIs
<1> DEFINE P == {n \in 1 .. Len(tree.rule) : R[tree.rule[n]] = 0 => T[n] = 0}
<1>3. ASSUME NEW n \in 1 .. Len(tree.rule), \A m \in n + 1 .. Len(tree.rule) : m \in P
      PROVE  n \in P
  <2>1. SUFFICES ASSUME R[tree.rule[n]] = 0 PROVE T[n] = 0
    OBVIOUS
  <2>2. PICK s \in DOMAIN info : s = tree.rule[n]
    BY <1>2
  <2>3. T[n] = TakenAt(T, n, E)
    BY DEF Walked
  <2>4. CASE s \notin E
    BY <2>2, <2>3, <2>4 DEF TakenAt
  <2>5. CASE s \in E
    <3>1. TakenFor(R, s, E) = 0
      BY <2>1, <2>2 DEF ByRules
    <3>2. Takers(R, s) = {}
      <4>1. ASSUME Takers(R, s) # {} PROVE FALSE
        <5>1. Takers(R, s) \subseteq DOMAIN info
          BY DEF Takers
        <5>2. Tree!Foremost(Takers(R, s)) \in Takers(R, s)
          BY <1>1, <4>1, <5>1, ForemostIs
        <5>3. R[Tree!Foremost(Takers(R, s))] # 0
          BY <5>2 DEF Takers
        <5>4. QED
          BY <2>5, <3>1, <4>1, <5>3 DEF TakenFor
      <4>2. QED
        BY <4>1
    <3>3. ASSUME NEW k \in 1 .. Len(tree.child[n]) PROVE T[tree.child[n][k]] = 0
      <4>1. PICK x : x = tree.child[n][k]
        OBVIOUS
      <4>2. /\ x \in 1 .. Len(tree.rule) /\ x > n
            /\ tree.rule[x] \in DOMAIN info /\ s \in below[tree.rule[x]]
        BY <2>2, <4>1, ChildrenAre
      <4>3. R[tree.rule[x]] = 0
        BY <3>2, <4>2 DEF Takers
      <4>4. x \in n + 1 .. Len(tree.rule)
        BY <1>2, <4>2
      <4>5. x \in P
        BY <1>3, <4>4
      <4>6. QED
        BY <4>1, <4>3, <4>5
    <3>4. TakenBelow(T, n) = 0
      BY <3>3, TakenBelowIs
    <3>5. info[s].noalert
      <4>1. s # 0
        BY <1>1 DEF TreeTypes
      <4>2. QED
        BY <2>5, <3>1, <3>2, <4>1 DEF TakenFor
    <3>6. QED
      BY <2>2, <2>3, <2>5, <3>4, <3>5 DEF TakenAt
  <2>6. QED
    BY <2>4, <2>5
<1> HIDE DEF P
<1>4. \A n \in 1 .. Len(tree.rule) : n \in P
  BY <1>2, <1>3, DownFrom
<1>5. QED
  BY <1>4 DEF P

(* The walk comes to node n: what stands before it, or before a node above *)
(* it, below the top has taken nothing.                                    *)
WalkReaches(R, n) ==
  \A m \in Tree!Path(tree)[n] : tree.up[m] # 0 =>
    \A j, k \in 1 .. Len(tree.child[tree.up[m]]) :
      j < k /\ tree.child[tree.up[m]][k] = m => R[tree.rule[tree.child[tree.up[m]][j]]] = 0

(* A node of which the search has left the lists behind is never reached   *)
(* with its rule taking something.                                         *)
LEMMA LeftBehind ==
  ASSUME TreeCore, NEW R, NEW n \in 1 .. Len(tree.rule), WalkReaches(R, n),
         NEW m \in Tree!Path(tree)[n], Tree!Behind(tree, m, tree.rule[n])
  PROVE  R[tree.rule[n]] = 0
<1>1. Shape(tree, DOMAIN info) /\ NodesAsked
  BY DEF TreeCore
<1>2. /\ Tree!Path(tree)[n] =
           {n} \cup (IF tree.up[n] = 0 THEN {} ELSE Tree!Path(tree)[tree.up[n]])
      /\ Tree!Path(tree)[n] \in SUBSET (1 .. n) /\ Len(tree.rule) \in Nat
  BY <1>1, PathOfShape, ShapeIs
<1>3. m \in 1 .. Len(tree.rule)
  BY <1>2
<1>4. PICK u : u = tree.up[m]
  OBVIOUS
<1>5. u \in 0 .. Len(tree.rule)
  BY <1>1, <1>3, <1>4, ShapeIs
<1>6. PICK c : c = tree.child[u]
  OBVIOUS
<1>7. /\ DOMAIN c = 1 .. Len(c) /\ Len(c) \in Nat
      /\ \A k \in 1 .. Len(c) : c[k] \in 1 .. Len(tree.rule)
  <2>1. c \in Seq(1 .. Len(tree.rule)) /\ DOMAIN c = 1 .. Len(c) /\ Len(c) \in Nat
    BY <1>1, <1>5, <1>6, ShapeIs
  <2>2. QED
    BY <2>1, ElementOfSeq
<1>8. PICK j, k \in 1 .. Len(c) : j < k /\ c[k] = m /\ tree.rule[c[j]] = tree.rule[n]
  BY <1>4, <1>6, <1>7 DEF Tree!Behind
<1>9. CASE u # 0
  BY <1>4, <1>6, <1>8, <1>9 DEF WalkReaches
<1>10. CASE u = 0
  <2>1. tree.up[c[j]] = 0 /\ c[j] \in 1 .. Len(tree.rule)
    BY <1>1, <1>5, <1>6, <1>7, <1>10 DEF Shape
  <2>2. tree.rule[n] < 10
    BY <1>1, <1>8, <2>1 DEF NodesAsked
  <2>3. c[j] = n
    BY <1>1, <1>8, <2>1, <2>2 DEF NodesAsked
  <2>4. m = n
    BY <1>2, <2>1, <2>3
  <2>5. j = k
    BY <1>1, <1>5, <1>6, <1>8, <2>3, <2>4 DEF Shape
  <2>6. QED
    BY <1>7, <1>8, <2>5
<1>11. QED
  BY <1>9, <1>10

(* The walk stops at the child that the rules would name.                  *)
StopsAt(R, n, k) ==
  /\ tree.rule[tree.child[n][k]] = Tree!Foremost(Takers(R, tree.rule[n]))
  /\ R[tree.rule[tree.child[n][k]]] # 0
  /\ \A j \in 1 .. Len(tree.child[n]) : j < k => R[tree.rule[tree.child[n][j]]] = 0

LEMMA FirstTaker ==
  ASSUME TreeCore, Tree!LevelsKept, NEW R, NEW n \in 1 .. Len(tree.rule),
         Takers(R, tree.rule[n]) # {},
         \A m \in Tree!Path(tree)[n] : ~ Tree!Behind(tree, m, tree.rule[n])
  PROVE  \E k \in 1 .. Len(tree.child[n]) : StopsAt(R, n, k)
<1>1. /\ Shape(tree, DOMAIN info) /\ TreeTypes /\ ReadBefore /\ Covered
      /\ Ordered(tree, placed)
  BY DEF TreeCore, InOrder
<1>0. PICK s : s = tree.rule[n]
  OBVIOUS
<1>2. PICK c, l : c = tree.child[n] /\ l = Len(c)
  OBVIOUS
<1>3. /\ l \in Nat
      /\ \A k \in 1 .. l : tree.rule[c[k]] \in DOMAIN info /\ s \in below[tree.rule[c[k]]]
  BY <1>0, <1>2, ChildrenAre
<1> DEFINE I == {k \in 1 .. l : R[tree.rule[c[k]]] # 0}
<1>4. ASSUME NEW b \in Takers(R, s) PROVE \E k \in I : tree.rule[c[k]] = b
  <2>1. b \in DOMAIN info /\ s \in below[b] /\ R[b] # 0
    BY DEF Takers
  <2>2. PICK x \in 1 .. Len(tree.rule) : tree.up[x] = n /\ tree.rule[x] = b
    BY <1>1, <1>0, <2>1 DEF Covered
  <2>3. PICK k \in 1 .. Len(tree.child[tree.up[x]]) : tree.child[tree.up[x]][k] = x
    BY <1>1 DEF Shape
  <2>4. QED
    BY <1>2, <2>1, <2>2, <2>3
<1>5. I # {} /\ I \subseteq 1 .. l
  BY <1>0, <1>4
<1>6. PICK k \in I : \A j \in I : k <= j
  BY <1>3, <1>5, MinIs
<1>7. PICK a : a = tree.rule[c[k]]
  OBVIOUS
<1>8. a \in Takers(R, s)
  BY <1>3, <1>7 DEF Takers
<1>9. ASSUME NEW b \in Takers(R, s) PROVE Tree!TriedBefore(a, b)
  <2>1. PICK j \in I : tree.rule[c[j]] = b
    BY <1>4
  <2>2. k <= j /\ k \in 1 .. l /\ j \in 1 .. l
    BY <1>6, <2>1
  <2>3. a \in DOMAIN info /\ b \in DOMAIN info
    BY <1>8 DEF Takers
  <2>4. CASE k = j
    BY <1>1, <1>7, <2>1, <2>3, <2>4, TriedIsOrder
  <2>5. CASE k < j
    <3>1. n \in 0 .. Len(tree.rule)
      BY <1>1, ShapeIs
    <3>2. SortedBelow(tree, n, placed)
      BY <1>1, <3>1 DEF Ordered
    <3>3. Precedes(placed[a], placed[b])
      BY <1>2, <1>7, <2>1, <2>2, <2>5, <3>2 DEF SortedBelow
    <3>4. QED
      BY <1>1, <2>3, <3>3, TriedIsOrder
  <2>6. QED
    BY <2>2, <2>4, <2>5
<1>10. a = Tree!Foremost(Takers(R, s))
  <2>1. Takers(R, s) \subseteq DOMAIN info
    BY DEF Takers
  <2>2. QED
    BY <1>1, <1>8, <1>9, <2>1, ForemostIs
<1>11. ASSUME NEW j \in 1 .. l, j < k PROVE R[tree.rule[c[j]]] = 0
  <2>1. k \in 1 .. l
    BY <1>6
  <2>2. ~ (k <= j)
    BY <1>11, <2>1
  <2>3. j \notin I
    BY <1>6, <2>2
  <2>4. QED
    BY <2>3
<1>12. QED
  BY <1>0, <1>2, <1>6, <1>7, <1>10, <1>11 DEF StopsAt

(* Every node that is reached takes what its rule takes.                   *)
LEMMA ReachedTakes ==
  ASSUME TreeCore, Tree!LevelsKept, NEW E, NEW T, Walked(T, E), NEW R, ByRules(R, E)
  PROVE  \A n \in 1 .. Len(tree.rule) : WalkReaches(R, n) => T[n] = R[tree.rule[n]]
<1>1. /\ Shape(tree, DOMAIN info) /\ TreeTypes /\ ReadBefore
  BY DEF TreeCore
<1>2. Len(tree.rule) \in Nat /\ \A n \in 1 .. Len(tree.rule) : tree.rule[n] \in DOMAIN info
  BY <1>1, ShapeIs
<1>3. \A n \in 1 .. Len(tree.rule) : R[tree.rule[n]] = 0 => T[n] = 0
  BY NothingTaken
<1> DEFINE P == {n \in 1 .. Len(tree.rule) : WalkReaches(R, n) => T[n] = R[tree.rule[n]]}
<1>4. ASSUME NEW n \in 1 .. Len(tree.rule), \A m \in n + 1 .. Len(tree.rule) : m \in P
      PROVE  n \in P
  <2>1. SUFFICES ASSUME WalkReaches(R, n) PROVE T[n] = R[tree.rule[n]]
    OBVIOUS
  <2>2. PICK s \in DOMAIN info : s = tree.rule[n]
    BY <1>2
  <2>3. T[n] = TakenAt(T, n, E) /\ R[s] = TakenFor(R, s, E)
    BY DEF Walked, ByRules
  <2>4. CASE \E m \in Tree!Path(tree)[n] : Tree!Behind(tree, m, s)
    <3>1. R[s] = 0
      BY <2>1, <2>2, <2>4, LeftBehind
    <3>2. QED
      BY <1>3, <2>2, <3>1
  <2>5. CASE s \notin E
    BY <2>2, <2>3, <2>5 DEF TakenAt, TakenFor
  <2>6. CASE s \in E /\ Takers(R, s) = {}
    <3>1. ASSUME NEW k \in 1 .. Len(tree.child[n]) PROVE T[tree.child[n][k]] = 0
      <4>1. PICK x : x = tree.child[n][k]
        OBVIOUS
      <4>2. /\ x \in 1 .. Len(tree.rule)
            /\ tree.rule[x] \in DOMAIN info /\ s \in below[tree.rule[x]]
        BY <2>2, <4>1, ChildrenAre
      <4>3. R[tree.rule[x]] = 0
        BY <2>6, <4>2 DEF Takers
      <4>4. QED
        BY <1>3, <4>1, <4>2, <4>3
    <3>2. TakenBelow(T, n) = 0
      BY <3>1, TakenBelowIs
    <3>3. QED
      BY <2>2, <2>3, <2>6, <3>2 DEF TakenAt, TakenFor
  <2>7. CASE /\ s \in E /\ Takers(R, s) # {}
             /\ ~ \E m \in Tree!Path(tree)[n] : Tree!Behind(tree, m, s)
    <3>0. PICK k \in 1 .. Len(tree.child[n]) : StopsAt(R, n, k)
      <4>1. \A m \in Tree!Path(tree)[n] : ~ Tree!Behind(tree, m, tree.rule[n])
        BY <2>2, <2>7
      <4>2. Takers(R, tree.rule[n]) # {}
        BY <2>2, <2>7
      <4>3. QED
        BY <4>1, <4>2, FirstTaker
    <3>1. /\ tree.rule[tree.child[n][k]] = Tree!Foremost(Takers(R, s))
          /\ R[tree.rule[tree.child[n][k]]] # 0
          /\ \A j \in 1 .. Len(tree.child[n]) : j < k => R[tree.rule[tree.child[n][j]]] = 0
      BY <2>2, <3>0 DEF StopsAt
    <3>2. PICK x : x = tree.child[n][k]
      OBVIOUS
    <3>3. x \in 1 .. Len(tree.rule) /\ x > n /\ tree.up[x] = n
      BY <3>2, ChildrenAre
    <3>4. WalkReaches(R, x)
      <4>1. Tree!Path(tree)[x] = {x} \cup Tree!Path(tree)[n]
        <5>1. n # 0
          OBVIOUS
        <5>2. QED
          BY <1>1, <3>3, <5>1, PathOfShape
      <4>2. ASSUME NEW j \in 1 .. Len(tree.child[n]), NEW i \in 1 .. Len(tree.child[n]),
                   j < i, tree.child[n][i] = x
            PROVE  R[tree.rule[tree.child[n][j]]] = 0
        <5>1. n \in 0 .. Len(tree.rule)
          BY <1>2
        <5>2. i = k
          BY <1>1, <3>2, <4>2, <5>1 DEF Shape
        <5>3. QED
          BY <3>1, <4>2, <5>2
      <4>3. QED
        BY <2>1, <3>3, <4>1, <4>2 DEF WalkReaches
    <3>5. T[x] = R[tree.rule[x]]
      <4>1. x \in n + 1 .. Len(tree.rule)
        BY <1>2, <3>3
      <4>2. QED
        BY <1>4, <3>4, <4>1
    <3>6. \A j \in 1 .. Len(tree.child[n]) : j < k => T[tree.child[n][j]] = 0
      BY <1>3, <3>1, ChildrenAre
    <3>7. TakenBelow(T, n) = T[x] /\ T[x] # 0
      BY <3>1, <3>2, <3>5, <3>6, TakenBelowIs
    <3>8. T[n] = T[x]
      BY <2>2, <2>3, <2>7, <3>7 DEF TakenAt
    <3>9. R[s] = R[tree.rule[x]]
      BY <2>3, <2>7, <3>1, <3>2 DEF TakenFor
    <3>10. QED
      BY <2>2, <3>5, <3>8, <3>9
  <2>8. QED
    BY <2>4, <2>5, <2>6, <2>7
<1> HIDE DEF P
<1>5. \A n \in 1 .. Len(tree.rule) : n \in P
  BY <1>2, <1>4, DownFrom
<1>6. QED
  BY <1>5 DEF P

(* An event is taken by the rule that the templates of its category name.  *)
LEMMA EventTaken ==
  ASSUME TreeCore, Tree!LevelsKept, NEW category, NEW E
  PROVE  Tree!OS_ReadMSG(category, E) = Tree!TakenByTemplates(category, E)
<1>1. /\ Shape(tree, DOMAIN info) /\ TreeTypes /\ ReadBefore
      /\ SortedBelow(tree, 0, placed)
  BY DEF TreeCore, InOrder
<1>2. PICK T, R : T = Tree!OS_CheckIfRuleMatch(E) /\ R = Tree!TakenByRules(E)
  OBVIOUS
<1>3. Walked(T, E) /\ ByRules(R, E)
  BY <1>1, <1>2, WalkIs, TakenByRulesIs DEF Walked, ByRules
<1>4. PICK top, l : top = tree.child[0] /\ l = Len(top)
  OBVIOUS
<1>5. l \in Nat /\ DOMAIN top = 1 .. l /\ 0 \in 0 .. Len(tree.rule)
  <2>1. 0 \in 0 .. Len(tree.rule)
    BY <1>1, ShapeIs
  <2>2. QED
    BY <1>1, <1>4, <2>1, ShapeIs
<1>6. /\ \A k \in 1 .. l : /\ top[k] \in 1 .. Len(tree.rule)
                           /\ tree.rule[top[k]] \in DOMAIN info
                           /\ tree.rule[top[k]] < 10
      /\ \A s \in DOMAIN info : s < 10 => \E k \in 1 .. l : tree.rule[top[k]] = s
  BY <1>4, TopIs
<1>7. ASSUME NEW k \in 1 .. l PROVE T[top[k]] = R[tree.rule[top[k]]]
  <2>1. PICK n \in 1 .. Len(tree.rule) : n = top[k]
    BY <1>6
  <2>2. tree.up[n] = 0
    BY <1>1, <1>4, <1>5, <2>1 DEF Shape
  <2>3. Tree!Path(tree)[n] = {n}
    BY <1>1, <2>2, PathOfShape
  <2>4. WalkReaches(R, n)
    BY <2>2, <2>3 DEF WalkReaches
  <2>5. QED
    BY <1>3, <2>1, <2>4, ReachedTakes
<1>8. PICK f : f = [k \in 1 .. l |-> IF info[tree.rule[top[k]]].category = category
                                       THEN T[top[k]] ELSE 0]
  OBVIOUS
<1>9. /\ f = [k \in 1 .. l |-> f[k]]
      /\ \A k \in 1 .. l : f[k] = IF info[tree.rule[top[k]]].category = category
                                    THEN R[tree.rule[top[k]]] ELSE 0
  BY <1>7, <1>8
<1>10. Tree!OS_ReadMSG(category, E) = Tree!FirstOf(f)
  BY <1>2, <1>4, <1>5, <1>8 DEF Tree!OS_ReadMSG
<1>11. /\ (\A k \in 1 .. l : f[k] = 0) => Tree!FirstOf(f) = 0
       /\ \A k \in 1 .. l : f[k] # 0 /\ (\A j \in 1 .. l : j < k => f[j] = 0) =>
            Tree!FirstOf(f) = f[k]
  BY <1>5, <1>9, FirstIs
<1>12. PICK S : S = {s \in DOMAIN info : s < 10 /\ info[s].category = category /\ R[s] # 0}
  OBVIOUS
<1>13. Tree!TakenByTemplates(category, E) = IF S = {} THEN 0 ELSE R[Tree!Foremost(S)]
  BY <1>2, <1>12 DEF Tree!TakenByTemplates, Tree!KnownRules
<1>14. CASE S = {}
  <2>1. \A k \in 1 .. l : f[k] = 0
    BY <1>6, <1>9, <1>12, <1>14
  <2>2. QED
    BY <1>10, <1>11, <1>13, <1>14, <2>1
<1>15. CASE S # {}
  <2> DEFINE I == {k \in 1 .. l : f[k] # 0}
  <2>1. ASSUME NEW b \in S PROVE \E k \in I : tree.rule[top[k]] = b
    <3>1. b \in DOMAIN info /\ b < 10 /\ info[b].category = category /\ R[b] # 0
      BY <1>12
    <3>2. PICK k \in 1 .. l : tree.rule[top[k]] = b
      BY <1>6, <3>1
    <3>3. QED
      BY <1>9, <3>1, <3>2
  <2>2. I # {} /\ I \subseteq 1 .. l
    BY <1>15, <2>1
  <2>3. PICK k \in I : \A j \in I : k <= j
    BY <1>5, <2>2, MinIs
  <2>4. PICK a : a = tree.rule[top[k]]
    OBVIOUS
  <2>5. a \in S /\ f[k] = R[a]
    BY <1>6, <1>9, <1>12, <2>3, <2>4
  <2>6. ASSUME NEW b \in S PROVE Tree!TriedBefore(a, b)
    <3>1. PICK j \in I : tree.rule[top[j]] = b
      BY <2>1
    <3>2. k <= j /\ k \in 1 .. l /\ j \in 1 .. l
      BY <2>3, <3>1
    <3>3. a \in DOMAIN info /\ b \in DOMAIN info
      BY <1>12, <2>5
    <3>4. CASE k = j
      BY <1>1, <2>4, <3>1, <3>3, <3>4, TriedIsOrder
    <3>5. CASE k < j
      <4>1. Precedes(placed[a], placed[b])
        BY <1>1, <1>4, <2>4, <3>1, <3>2, <3>5 DEF SortedBelow
      <4>2. QED
        BY <1>1, <3>3, <4>1, TriedIsOrder
    <3>6. QED
      BY <3>2, <3>4, <3>5
  <2>7. a = Tree!Foremost(S)
    <3>1. S \subseteq DOMAIN info
      BY <1>12
    <3>2. QED
      BY <1>1, <1>15, <2>5, <2>6, <3>1, ForemostIs
  <2>8. ASSUME NEW j \in 1 .. l, j < k PROVE f[j] = 0
    <3>1. k \in 1 .. l
      BY <2>3
    <3>2. ~ (k <= j)
      BY <2>8, <3>1
    <3>3. j \notin I
      BY <2>3, <3>2
    <3>4. QED
      BY <3>3
  <2>9. Tree!FirstOf(f) = f[k]
    BY <1>11, <2>3, <2>8
  <2>10. QED
    BY <1>10, <1>13, <1>15, <2>5, <2>7, <2>9
<1>16. QED
  BY <1>14, <1>15

(* Unless an overwriting has changed a level, OS_ReadMSG takes every event *)
(* by the rule that the levels, the order of reading and the parents asked *)
(* for determine, although the search for parents leaves siblings behind   *)
(* (OS_AddChild) and a rule has as many nodes as its parents.              *)
THEOREM WalkDecidesByRules == AllSpec => []WalkIsByRules
<1>1. TreeInv => WalkIsByRules
  BY EventTaken DEF TreeInv, WalkIsByRules, Tree!WalkIsByRules
<1>2. QED
  BY <1>1, TreeInvariant, PTL

(* analysisd with its rules takes events as EventMemory says: what is      *)
(* proved of EventMemory!Spec holds of it.                                 *)
THEOREM EventsFollowMemory == AllSpec => Spec
<1>1. AllInit => Init
  BY DEF AllInit
<1>2. [AllNext]_allVars => [Next]_vars
  BY DEF AllNext, Start, Events, allVars
<1>3. QED
  BY <1>1, <1>2, PTL DEF AllSpec, Spec
=============================================================================
