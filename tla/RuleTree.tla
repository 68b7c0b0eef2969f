------------------------------ MODULE RuleTree ------------------------------
(***************************************************************************)
(* The rules of analysisd: Rules_OP_ReadRules (analysisd/rules.c) reads    *)
(* them one by one and hangs them into a tree (analysisd/rules_list.c),    *)
(* which OS_CheckIfRuleMatch (analysisd.c) walks for every event.          *)
(*                                                                         *)
(* A rule with several parents has several nodes, which share one          *)
(* RuleInfo.  Siblings stand in the order of their levels.  A rule only    *)
(* finds the parents that have been read before it, and only the rules     *)
(* read before it are marked for the list it counts.                       *)
(*                                                                         *)
(* A candidate is what one <rule> element says: the conditions on the      *)
(* event itself are left out, an event is the set of rules whose own       *)
(* conditions it meets.  Groups are sets of words.                         *)
(***************************************************************************)
EXTENDS Naturals, Sequences, FiniteSets, SequencesExt

CONSTANTS
  Candidates,       \* the <rule> elements there are to read
  Categories,       \* categories of events
  ActiveResponses,  \* [level, groups, rules] of each <active-response>
  MaxRules          \* bound on the rules read

(* Templates are rules with ids below 10.  A rule has at most one if_level *)
(* and if_group, does not name itself, and templates are not overwritten.  *)
Element(r) ==
  /\ r.sid \in Nat \ {0} /\ r.level \in 0 .. 16 /\ r.category \in Categories
  /\ {r.accurate, r.noalert, r.no_ar, r.overwrite, r.matched_regex} \subseteq BOOLEAN
  /\ r.if_sid \in Seq(Nat) /\ r.matched_sid \in Seq(Nat)
  /\ Len(r.matched_sid) <= 1
  /\ \A x, y \in r.if_level : x = y
  /\ \A x, y \in r.if_group : x = y
  /\ \A x, y \in r.matched_group : x = y
  /\ r.sid \notin ToSet(r.if_sid \o r.matched_sid)
  /\ r.sid < 10 => ~ r.overwrite

VARIABLES
  phase,        \* "reading", "exit" (ErrorExit) or "ready"
  tree,         \* [rule, up, child]: rule and parent of each node (0: none),
                \* the children of each node in order, child[0] the top level
  info,         \* RuleInfo of each rule in the tree
  sid_lists,    \* the rules with a list sid_prev_matched
  group_lists,  \* group_prev_matched: the lists of each rule, each named by
                \* the place at which the rule that counts it was read
  read,         \* the rules read so far (history)
  below,        \* below[s]: the parents rule s asked for (history)
  placed        \* placed[s]: the level rule s came into the tree with, and
                \* the place at which it was read then (history)

vars == <<phase, tree, info, sid_lists, group_lists, read, below, placed>>

Init ==
  /\ phase = "reading"
  /\ tree = [rule |-> <<>>, up |-> <<>>, child |-> [m \in {0} |-> <<>>]]
  /\ info = <<>> /\ sid_lists = {} /\ group_lists = <<>>
  /\ read = <<>> /\ below = <<>> /\ placed = <<>>

-----------------------------------------------------------------------------
(* What the elements of a rule amount to.                                  *)

(* Level 0 comes first, accuracy 0 last.                                   *)
ReadLevel(r) == (IF r.level = 0 THEN 99 ELSE r.level) * (IF r.accurate THEN 100 ELSE 1)

(* A rule that counts a group or a rule is below it, if nothing else says  *)
(* where it is.                                                            *)
IfGroup(r) == IF r.if_sid = <<>> /\ r.if_group = {} THEN r.matched_group ELSE r.if_group
IfSid(r)   == IF r.if_sid = <<>> /\ IfGroup(r) = {} THEN r.matched_sid ELSE r.if_sid

RealLevel(level) == IF level = 9900 \/ level < 100 THEN 0 ELSE level \div 100

(* "No AR for ignored rules", nor for those of accuracy 0, nor "when       *)
(* options no_ar is set".                                                  *)
Rule_AddAR(r) ==
  {a \in ActiveResponses :
     /\ RealLevel(ReadLevel(r)) > 0 /\ ~ r.no_ar
     /\ \/ a.level > 0 /\ RealLevel(ReadLevel(r)) >= a.level
        \/ a.groups \cap r.groups # {}
        \/ r.sid \in a.rules}

(* event_search: the list of a rule if one is known, a list of its own, or *)
(* the memory.                                                             *)
Search(r, known, k) ==
  IF r.matched_sid # <<>>
    THEN [by |-> "sid", of |-> IF Head(r.matched_sid) \in known
                                 THEN Head(r.matched_sid) ELSE 0]
  ELSE IF r.matched_group # {} THEN [by |-> "group", of |-> k]
  ELSE [by |-> IF r.matched_regex THEN "memory" ELSE "none", of |-> 0]

RuleInfo(r, category, known, k) ==
  [level |-> ReadLevel(r), category |-> category, groups |-> r.groups,
   noalert |-> r.noalert, ar |-> Rule_AddAR(r),
   context |-> r.matched_sid # <<>> \/ r.matched_group # {} \/ r.matched_regex,
   search |-> Search(r, known, k)]

-----------------------------------------------------------------------------
(* The tree.                                                               *)

KnownRules == DOMAIN info                                     \* doesRuleExist
NodesOf(t, s) == {n \in DOMAIN t.rule : t.rule[n] = s}

(* Fault: the siblings stand in the order of the files.                    *)
ByReading(rule, siblings, n, levelOf) == Append(siblings, n)

(* Before the first sibling of a lower level, behind those of the same.    *)
OS_AddRule(rule, siblings, n, levelOf) ==
  LET k == SelectInSeq(siblings, LAMBDA m : levelOf[rule[n]] > levelOf[rule[m]])
  IN  IF k = 0 THEN Append(siblings, n) ELSE InsertAt(siblings, k, n)

(* The node that a rule gets below node m, of those below the parents.     *)
NewNode(t, parents, m) == Len(t.rule) + Cardinality({q \in parents : q >= m})

(* Rule s gets a node below each of the nodes in parents.                  *)
AddBelow(t, parents, s, levelOf) ==
  LET n    == Len(t.rule)
      new  == n + Cardinality(parents)
      rule == [k \in 1 .. new |-> IF k <= n THEN t.rule[k] ELSE s]
  IN  [rule  |-> rule,
       up    |-> [k \in 1 .. new |->
                    IF k <= n THEN t.up[k]
                    ELSE CHOOSE m \in parents : NewNode(t, parents, m) = k],
       child |-> [m \in 0 .. new |->
                    IF m \in parents
                      THEN OS_AddRule(rule, t.child[m], NewNode(t, parents, m), levelOf)
                    ELSE IF m <= n THEN t.child[m] ELSE <<>>]]

(* A node with the nodes above it.                                         *)
Path(t) ==
  LET path[n \in DOMAIN t.rule] ==
        {n} \cup (IF t.up[n] = 0 THEN {} ELSE path[t.up[n]])
  IN  path

(* Node n has an earlier sibling of rule s.                                *)
Behind(t, n, s) ==
  \E j, k \in DOMAIN t.child[t.up[n]] :
    /\ j < k
    /\ t.child[t.up[n]][k] = n
    /\ t.rule[t.child[t.up[n]][j]] = s

(* Fault: the search ends with the first node of rule s.                   *)
FirstNode(t, s) ==
  {n \in NodesOf(t, s) : \A m \in NodesOf(t, s) : n <= m}

(* The search for a parent by its id goes down the tree, but leaves a list *)
(* of siblings behind the first one it finds.                              *)
NodesBySid(t, s) ==
  {n \in NodesOf(t, s) :
     \A m \in Path(t)[n] : /\ ~ Behind(t, m, s)
                           /\ m # n => t.rule[m] # s}

(* By level and by group it takes all, by category the first template.     *)
NodesByLevel(t, l) == {n \in DOMAIN t.rule : info[t.rule[n]].level >= 100 * l}
NodesByGroup(t, g) == {n \in DOMAIN t.rule : g \in info[t.rule[n]].groups}
NodesByCategory(t, c) ==
  LET k == SelectInSeq(t.child[0], LAMBDA n : info[t.rule[n]].category = c)
  IN  IF k = 0 THEN {} ELSE {t.child[0][k]}

(* OS_AddChild: if_sid goes before if_level and that before if_group; an   *)
(* if_level of 0 is logged and the rule left out of the tree.              *)
NotBySid(r) ==
  IF r.if_level # {}
    THEN UNION {NodesByLevel(tree, l) : l \in r.if_level \ {0}}
  ELSE IF IfGroup(r) # {} THEN UNION {NodesByGroup(tree, g) : g \in IfGroup(r)}
  ELSE NodesByCategory(tree, r.category)

BelowSids(r, levelOf) ==
  LET after[k \in 0 .. Len(IfSid(r))] ==
        IF k = 0 THEN tree
        ELSE AddBelow(after[k - 1], NodesBySid(after[k - 1], IfSid(r)[k]), r.sid, levelOf)
  IN  after

OS_AddChild(r, levelOf) ==
  IF IfSid(r) # <<>> THEN BelowSids(r, levelOf)[Len(IfSid(r))]
  ELSE AddBelow(tree, NotBySid(r), r.sid, levelOf)

ParentMissing(r) ==
  IF IfSid(r) # <<>> THEN ~ (ToSet(IfSid(r)) \subseteq KnownRules)
  ELSE r.if_level # {0} /\ NotBySid(r) = {}

(* Rule a is tried before rule b: its level is higher, or the same and it  *)
(* was read earlier.                                                       *)
TriedBefore(a, b) ==
  \/ placed[a].level > placed[b].level
  \/ placed[a].level = placed[b].level /\ placed[a].at <= placed[b].at

(* The parents rule r asks for, as rules, whatever nodes they have.        *)
ParentsAsked(r) ==
  IF IfSid(r) # <<>> THEN ToSet(IfSid(r))
  ELSE IF r.if_level # {}
    THEN {s \in KnownRules : \E l \in r.if_level \ {0} : info[s].level >= 100 * l}
  ELSE IF IfGroup(r) # {} THEN {s \in KnownRules : IfGroup(r) \subseteq info[s].groups}
  ELSE {s \in KnownRules :
          /\ s < 10 /\ info[s].category = r.category
          /\ \A q \in KnownRules :
               q < 10 /\ info[q].category = r.category => TriedBefore(s, q)}

-----------------------------------------------------------------------------
(* Reading one rule.                                                       *)

(* OS_MarkID and OS_MarkGroup: only the rules that are in the tree now.    *)
Mark(r, rules, marked, t) ==
  /\ sid_lists' = sid_lists \cup (ToSet(r.matched_sid) \cap DOMAIN rules)
  /\ group_lists' =
       [s \in DOMAIN rules |->
          marked[s] \o IF /\ r.matched_sid = <<>> /\ r.matched_group # {}
                          /\ r.matched_group \subseteq rules[s].groups
                         THEN [n \in 1 .. Cardinality(NodesOf(t, s)) |-> Len(read) + 1]
                         ELSE <<>>]

Add(r, t, category) ==
  LET known == IF NodesOf(t, r.sid) = {} THEN KnownRules ELSE KnownRules \cup {r.sid}
      rules == [s \in known |-> IF s \in KnownRules THEN info[s]
                  ELSE RuleInfo(r, category, known, Len(read) + 1)]
  IN
  /\ tree' = t
  /\ info' = rules
  /\ Mark(r, rules, [s \in known |-> IF s \in KnownRules THEN group_lists[s] ELSE <<>>], t)
  /\ read' = Append(read, r)
  /\ below' = [s \in known |-> IF s \in KnownRules THEN below[s]
                 ELSE IF s < 10 THEN {} ELSE ParentsAsked(r)]
  /\ placed' = [s \in known |-> IF s \in KnownRules THEN placed[s]
                  ELSE [level |-> ReadLevel(r), at |-> Len(read) + 1]]
  /\ UNCHANGED phase

LevelsWith(r) == [s \in KnownRules \cup {r.sid} |->
                    IF s \in KnownRules THEN info[s].level ELSE ReadLevel(r)]

ReadTemplate(r) ==
  /\ r.sid < 10 /\ r.sid \notin KnownRules
  /\ Add(r, AddBelow(tree, {0}, r.sid, LevelsWith(r)), r.category)

(* The category of the last parent named, if they are named.               *)
ReadChild(r) ==
  /\ r.sid >= 10 /\ ~ r.overwrite /\ r.sid \notin KnownRules
  /\ ~ ParentMissing(r)
  /\ Add(r, OS_AddChild(r, LevelsWith(r)),
         IF IfSid(r) = <<>> THEN r.category
         ELSE info[IfSid(r)[Len(IfSid(r))]].category)

(* Fault: the responses of the first definition stay.                      *)
WithFirstResponses(s, new) ==
  [info EXCEPT ![s] = [new EXCEPT !.category = info[s].category,
                                  !.search = info[s].search, !.ar = info[s].ar]]

(* OS_AddRuleInfo copies what the rule says into the RuleInfo of the tree: *)
(* neither its place nor its search change.                                *)
OS_AddRuleInfo(s, new) ==
  [info EXCEPT ![s] = [new EXCEPT !.category = info[s].category,
                                  !.search = info[s].search]]

Overwrite(r) ==
  /\ r.overwrite /\ r.sid \in KnownRules
  /\ LET rules == OS_AddRuleInfo(r.sid, RuleInfo(r, r.category, KnownRules, Len(read) + 1))
     IN  info' = rules /\ Mark(r, rules, group_lists, tree)
  /\ read' = Append(read, r)
  /\ UNCHANGED <<phase, tree, below, placed>>

Duplicate(r) == ~ r.overwrite /\ r.sid \in KnownRules

(* A duplicate, nothing to overwrite, or no parent: analysisd ends.        *)
Refuse(r) ==
  /\ \/ Duplicate(r)
     \/ r.overwrite /\ r.sid \notin KnownRules
     \/ r.sid >= 10 /\ ~ r.overwrite /\ ~ Duplicate(r) /\ ParentMissing(r)
  /\ phase' = "exit"
  /\ UNCHANGED <<tree, info, sid_lists, group_lists, read, below, placed>>

Read(r) ==
  /\ phase = "reading" /\ Len(read) < MaxRules
  /\ ReadTemplate(r) \/ ReadChild(r) \/ Overwrite(r) \/ Refuse(r)

(* _setlevels: each of the k nodes of a rule restores its level.           *)
Restored(level, k) ==
  LET after[j \in Nat] == IF j = 0 THEN level
                          ELSE IF after[j - 1] = 9900 THEN 0
                          ELSE IF after[j - 1] >= 100 THEN after[j - 1] \div 100
                          ELSE after[j - 1]
  IN  after[k]

SetLevels ==
  /\ phase = "reading"
  /\ phase' = "ready"
  /\ info' = [s \in KnownRules |->
                [info[s] EXCEPT !.level =
                   Restored(@, Cardinality(NodesOf(tree, s)))]]
  /\ UNCHANGED <<tree, sid_lists, group_lists, read, below, placed>>

Next == (\E r \in Candidates : Read(r)) \/ SetLevels

Spec == Init /\ [][Next]_vars

-----------------------------------------------------------------------------
(* The rule that takes an event which meets the conditions of the rules    *)
(* in E, and 0 if none does.                                               *)

FirstOf(s) == LET k == SelectInSeq(s, LAMBDA x : x # 0)
              IN  IF k = 0 THEN 0 ELSE s[k]

(* Whatever the rule of a node asks of the event itself.                   *)
Fits(n, E) == tree.rule[n] \in E

OS_CheckIfRuleMatch(E) ==
  LET taken[n \in DOMAIN tree.rule] ==
        IF ~ Fits(n, E) THEN 0
        ELSE LET c == tree.child[n]
                 t == FirstOf([k \in DOMAIN c |-> taken[c[k]]])
             IN  IF t # 0 THEN t
                 ELSE IF info[tree.rule[n]].noalert THEN 0 ELSE tree.rule[n]
  IN  taken

OS_ReadMSG(category, E) ==
  LET top   == tree.child[0]
      taken == OS_CheckIfRuleMatch(E)
  IN  FirstOf([k \in DOMAIN top |->
                 IF info[tree.rule[top[k]]].category = category THEN taken[top[k]]
                 ELSE 0])

-----------------------------------------------------------------------------
(* The same by rules: a relation between rules, with no nodes.             *)

Foremost(S) == IF S = {} THEN 0 ELSE CHOOSE a \in S : \A b \in S : TriedBefore(a, b)

TakenByRules(E) ==
  LET taken[s \in KnownRules] ==
        IF s \notin E THEN 0
        ELSE LET C == {c \in KnownRules : s \in below[c] /\ taken[c] # 0}
             IN  IF C # {} THEN taken[Foremost(C)]
                 ELSE IF info[s].noalert THEN 0 ELSE s
  IN  taken

TakenByTemplates(category, E) ==
  LET taken == TakenByRules(E)
      T == {s \in KnownRules : s < 10 /\ info[s].category = category /\ taken[s] # 0}
  IN  IF T = {} THEN 0 ELSE taken[Foremost(T)]

(* No overwriting has changed a level.                                     *)
LevelsKept ==
  \A k \in DOMAIN read : read[k].overwrite => ReadLevel(read[k]) = placed[read[k].sid].level

(* The tree decides as the rules say: whatever nodes a rule has, and       *)
(* wherever the search for parents has stopped, every event is taken by    *)
(* the rule that the levels, the order of reading and the parents asked    *)
(* for determine; except when an overwriting changed a level, since it     *)
(* does not move the rule.                                                 *)
WalkIsByRules ==
  phase = "ready" /\ LevelsKept =>
    \A category \in Categories, E \in SUBSET KnownRules :
      OS_ReadMSG(category, E) = TakenByTemplates(category, E)

-----------------------------------------------------------------------------
Node == DOMAIN tree.rule

TypeOK ==
  /\ phase \in {"reading", "exit", "ready"}
  /\ tree.rule \in Seq(KnownRules) /\ Len(tree.up) = Len(tree.rule)
  /\ tree.up \in Seq(0 .. Len(tree.rule))
  /\ tree.child \in [0 .. Len(tree.rule) -> Seq(Node)]
  /\ \A s \in KnownRules : info[s].level \in Nat /\ info[s].category \in Categories
  /\ sid_lists \subseteq KnownRules
  /\ group_lists \in [KnownRules -> Seq(1 .. Len(read))]
  /\ Len(read) <= MaxRules

(* Every node is once among the children of its parent, and no rule is     *)
(* below itself.                                                           *)
TreeIsWhole ==
  \A n \in Node :
    /\ tree.up[n] < n
    /\ \A m \in 0 .. Len(tree.rule) :
         Cardinality({k \in DOMAIN tree.child[m] : tree.child[m][k] = n})
           = IF m = tree.up[n] THEN 1 ELSE 0
    /\ \A m \in Path(tree)[n] \ {n} : tree.rule[m] # tree.rule[n]

Overwritten(s) == \E k \in DOMAIN read : read[k].sid = s /\ read[k].overwrite

(* The list of a rule that counts a group gets the events of the rules of  *)
(* that group read no later than it, one for each node.                    *)
MarksFollowReading ==
  \A k \in DOMAIN read, s \in KnownRules :
    ~ Overwritten(s) =>
      Cardinality({j \in DOMAIN group_lists[s] : group_lists[s][j] = k})
        = IF /\ read[k].matched_sid = <<>> /\ read[k].matched_group # {}
             /\ read[k].matched_group \subseteq info[s].groups
             /\ placed[s].at <= k
            THEN Cardinality(NodesOf(tree, s)) ELSE 0

LastDefinition(s) == read[SelectLastInSeq(read, LAMBDA r : r.sid = s)]

(* When reading is over each rule has the level of its last definition, or *)
(* 99 for level 0 with accuracy 0, and the responses for what it is now:   *)
(* none if that definition has accuracy 0, level 0 or the option no_ar.    *)
DefinitionsHold ==
  phase = "ready" =>
    \A s \in KnownRules :
      LET r == LastDefinition(s) IN
      /\ info[s].level = IF r.level = 0 /\ ~ r.accurate THEN 99 ELSE r.level
      /\ info[s].ar = {a \in ActiveResponses :
                         /\ r.accurate /\ r.level > 0 /\ ~ r.no_ar
                         /\ \/ a.level > 0 /\ info[s].level >= a.level
                            \/ a.groups \cap info[s].groups # {}
                            \/ s \in a.rules}

(* The tree, the lists and the definitions.                                *)
RulesInv == TypeOK /\ TreeIsWhole /\ MarksFollowReading /\ DefinitionsHold
=============================================================================
