----------------------------- MODULE Analysisd -----------------------------
(***************************************************************************)
(* analysisd from its start: main reads the rules (RuleTree), and then     *)
(* OS_ReadMSG takes events (EventMemory).  What EventMemory has as         *)
(* constants (which counting rules are tried for an event, and the lists   *)
(* that the events of a rule are remembered in) is what the tree says of   *)
(* the rules of one file, File; other files are read and left there.       *)
(***************************************************************************)
EXTENDS EventMemory

CONSTANTS
  Candidates, Categories, ActiveResponses, MaxRules,  \* as in RuleTree
  File,       \* the rules, in order, that the constants of EventMemory tell of
  SidNumber,  \* the id of each rule of EventMemory
  Conditions, \* Conditions[r]: [category, rules], an event of rule r
  ReadLast    \* ReadLast[l]: the place of the rule that counts group list l,
              \* 0 for the list of a rule

VARIABLES phase, tree, info, sid_lists, group_lists, read, below, placed

Tree == INSTANCE RuleTree

ASSUME TreeAssumption == MaxRules \in Nat /\ \A r \in Candidates : Tree!Element(r)

treeVars == <<phase, tree, info, sid_lists, group_lists, read, below, placed>>
allVars  == <<vars, treeVars>>

AllInit == Init /\ Tree!Init

Start  == Tree!Next /\ UNCHANGED vars
Events == phase = "ready" /\ read = File /\ Next /\ UNCHANGED treeVars

AllNext == Start \/ Events

AllSpec == AllInit /\ [][AllNext]_allVars

-----------------------------------------------------------------------------
(* Whatever counting rules find enough, the walk through the tree takes    *)
(* the first of those EventMemory names, or the single rule.               *)
TriedInOrder ==
  \A r \in Rules \ Counting : \A found \in SUBSET Counting :
    LET k == SelectInSeq(Tried[r], LAMBDA c : c \in found) IN
    Tree!OS_ReadMSG(Conditions[r].category,
                    Conditions[r].rules \cup {SidNumber[c] : c \in found})
      = SidNumber[IF k = 0 THEN r ELSE Tried[r][k]]

RememberedWhereMarked ==
  \A r \in Rules :
    /\ Level[r] = info[SidNumber[r]].level
    /\ SidOf[r] # NoList <=> SidNumber[r] \in sid_lists
    /\ group_lists[SidNumber[r]]
         = [k \in DOMAIN GroupsOf[r] |-> ReadLast[GroupsOf[r][k]]]

SearchedIsOwn ==
  \A c \in Counting :
    info[SidNumber[c]].search =
      IF Searched[c] = Memory THEN [by |-> "memory", of |-> 0]
      ELSE IF ReadLast[Searched[c]] > 0
        THEN [by |-> "group", of |-> ReadLast[Searched[c]]]
      ELSE [by |-> "sid", of |-> SidNumber[CHOOSE r \in Rules : SidOf[r] = Searched[c]]]

(* EventMemory starts from what the tree has made of its rules.  This and  *)
(* what follows is about the state before the first event, since no event  *)
(* changes the tree.                                                       *)
MemoryIsOfTree ==
  event = <<>> /\ phase = "ready" /\ read = File =>
    TriedInOrder /\ RememberedWhereMarked /\ SearchedIsOwn

(* The tree, its lists and its definitions (see RuleTree).                 *)
RulesInv == event = <<>> => Tree!RulesInv

(* The tree decides as the rules say (see RuleTree).                       *)
WalkIsByRules == event = <<>> => Tree!WalkIsByRules
=============================================================================
