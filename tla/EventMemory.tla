---------------------------- MODULE EventMemory ----------------------------
(***************************************************************************)
(* The memory of analysisd and the rules that count earlier events.        *)
(* Every event that raised an alert stays in one list of the last events   *)
(* (analysisd/eventinfo_list.c) and, when some rule counts the alerts of   *)
(* its rule or of its groups, in lists of their own as well (analysisd.c). *)
(* A counting rule walks such a list from the newest event back            *)
(* (Search_LastSids, Search_LastGroups, Search_LastEvents) and marks what  *)
(* it used.  When the memory is full its oldest events are freed, and      *)
(* Free_Eventinfo has to take them off the other lists: off the list of a  *)
(* rule by their node, off the lists of groups by taking the oldest node,  *)
(* whichever event that is.                                                *)
(*                                                                         *)
(* An event is its position in `event'; matching one event with one rule   *)
(* is the choice of the rule r in Receive.  The events of one category are *)
(* modelled, and of the options that compare two events (same or different *)
(* address, user, port, location, ...) the one on the source address.      *)
(***************************************************************************)
EXTENDS Naturals, Sequences, FiniteSets, SequencesExt

CONSTANTS
  Rules,        \* rules, single (matched by one event) and counting ones
  Sources,      \* source addresses
  Level,        \* Level[r]: level of rule r
  IgnoreTime,   \* IgnoreTime[r]: the `ignore' time of rule r, 0 if none
  Tried,        \* Tried[r]: counting rules tried before r is taken, in order
  Frequency,    \* Frequency[r], Timeframe[r]: of a counting rule
  Timeframe,
  SameSource,   \* the counting rules with same_source_ip
  Searched,     \* Searched[c]: the list c walks, or Memory
  Lists,        \* the lists of rules and of groups
  SidOf,        \* SidOf[r]: sid_prev_matched of r, or NoList
  GroupsOf,     \* GroupsOf[r]: group_prev_matched of r, in order of marking
  MemoryMax,    \* memory_size
  Batch,        \* events freed at least (10 in the code)
  MaxEvents,    \* bound on the events that raise an alert
  MaxTime       \* the clock stops here (bound)

Memory   == "memory"
NoList   == "none"
Counting == UNION {{Tried[r][k] : k \in 1 .. Len(Tried[r])} : r \in Rules}

ASSUME RulesAssumption ==
  /\ Tried \in [Rules -> Seq(Rules)]
  /\ Level \in [Rules -> Nat] /\ IgnoreTime \in [Rules -> Nat]
  /\ Frequency \in [Rules -> Nat] /\ Timeframe \in [Rules -> Nat]
  /\ SameSource \subseteq Rules
  /\ Searched \in [Counting -> Lists \cup {Memory}]
ASSUME ListsAssumption ==
  /\ {Memory, NoList} \cap Lists = {}
  /\ SidOf \in [Rules -> Lists \cup {NoList}]
  /\ GroupsOf \in [Rules -> Seq(Lists)]
(* There are finitely many rules, and one at least.                        *)
ASSUME MaxFreqAssumption ==
  \E r \in Rules : \A q \in Rules : Frequency[q] <= Frequency[r]
ASSUME MemoryAssumption ==
  MemoryMax \in Nat /\ Batch \in Nat \ {0} /\ Batch <= MemoryMax
ASSUME BoundsAssumption == MaxEvents \in Nat /\ MaxTime \in Nat \ {0}

VARIABLES
  c_time,        \* the clock, read once per event
  event,         \* events that raised an alert: [rule, src, time, matched]
  memory,        \* the events in memory, oldest first
  memoryused,    \* _memoryused
  lists,         \* lists[l]: the events in list l, oldest first
  time_ignored,  \* time_ignored[r], 0 if never
  at,            \* "idle", "remember" or "evict"
  removed,       \* events removed by this eviction, i in OS_AddEvent
  alerts         \* alerts of counting rules, with their evidence (history)

vars == <<c_time, event, memory, memoryused, lists, time_ignored, at, removed,
          alerts>>

Init ==
  /\ c_time = 1
  /\ event = <<>>
  /\ memory = <<>>
  /\ memoryused = 0
  /\ lists = [l \in Lists |-> <<>>]
  /\ time_ignored = [r \in Rules |-> 0]
  /\ at = "idle"
  /\ removed = 0
  /\ alerts = {}

Tick ==
  /\ at = "idle"
  /\ c_time < MaxTime
  /\ c_time' = c_time + 1
  /\ UNCHANGED <<event, memory, memoryused, lists, time_ignored, at, removed, alerts>>

-----------------------------------------------------------------------------
(* The search of a counting rule.                                          *)

List(c) == IF Searched[c] = Memory THEN memory ELSE lists[Searched[c]]

(* Fault: an event outside the timeframe does not end the search.          *)
ReachedAtAnyTime(c) ==
  LET L == List(c) IN
  {k \in 1 .. Len(L) : \A j \in k .. Len(L) : event[L[j]].matched < Level[c]}

(* The walk ends at the first event that is too old, or marked by an alert *)
(* of the same or a higher level.                                          *)
Reached(c) ==
  LET L == List(c) IN
  {k \in 1 .. Len(L) :
     \A j \in k .. Len(L) : /\ c_time - event[L[j]].time <= Timeframe[c]
                            /\ event[L[j]].matched < Level[c]}

(* Of the events reached, those that fit the current one.                  *)
Fitting(c, src) ==
  {k \in Reached(c) : c \in SameSource => event[List(c)[k]].src = src}

(* It takes one event more than the frequency says.                        *)
Found(c, src) == Cardinality(Fitting(c, src)) > Frequency[c]

(* The positions counted: the newest that fit.                             *)
Counted(c, src) ==
  {k \in Fitting(c, src) :
     Cardinality({j \in Fitting(c, src) : j > k}) <= Frequency[c]}

(* Fault: the newest event of the list, first_lf, is not marked.           *)
MarkedWithoutFirst(c, src) ==
  LET L == List(c) IN
  {L[k] : k \in {i \in Counted(c, src) : \A j \in Counted(c, src) : i <= j}}

(* Marked with the rule's level, besides the current event: the oldest one *)
(* counted, and the newest of the list, whether it was counted or not.     *)
Marked(c, src) ==
  LET L == List(c) IN
  {L[k] : k \in {i \in Counted(c, src) : \A j \in Counted(c, src) : i <= j}
                  \cup {Len(L)}}

WithMarks(c, src) ==
  [e \in 1 .. Len(event) |->
     IF e \in Marked(c, src) THEN [event[e] EXCEPT !.matched = Level[c]]
                             ELSE event[e]]

-----------------------------------------------------------------------------
(* An event is received and the rule that takes it found.                  *)

(* Level 0, or the rule's `ignore' time is not over.                       *)
Ignored(r) ==
  \/ Level[r] = 0
  \/ /\ IgnoreTime[r] > 0
     /\ time_ignored[r] # 0
     /\ c_time - time_ignored[r] < IgnoreTime[r]

(* The event is freed, or goes on with the rule that generated the alert;  *)
(* the marks stay in either case.                                          *)
Generate(r, src, marked, mark) ==
  IF Ignored(r)
    THEN /\ event' = marked
         /\ UNCHANGED <<time_ignored, at>>
    ELSE /\ event' = Append(marked, [rule |-> r, src |-> src,
                                     time |-> c_time, matched |-> mark])
         /\ time_ignored' = IF IgnoreTime[r] > 0
                              THEN [time_ignored EXCEPT ![r] = c_time]
                              ELSE time_ignored
         /\ at' = "remember"

(* No counting rule finds enough: the single rule is taken.                *)
ReceiveSingle(r, src) ==
  /\ at = "idle" /\ Len(event) < MaxEvents
  /\ \A k \in 1 .. Len(Tried[r]) : ~ Found(Tried[r][k], src)
  /\ Generate(r, src, event, 0)
  /\ UNCHANGED <<c_time, memory, memoryused, lists, removed, alerts>>

(* The first counting rule that does is.                                   *)
ReceiveCounted(r, src) ==
  \E k \in 1 .. Len(Tried[r]) :
    LET c == Tried[r][k] IN
    /\ at = "idle" /\ Len(event) < MaxEvents
    /\ Found(c, src)
    /\ \A j \in 1 .. k - 1 : ~ Found(Tried[r][j], src)
    /\ Generate(c, src, WithMarks(c, src), Level[c])
    /\ alerts' = IF Ignored(c) THEN alerts
                 ELSE alerts \cup {[rule |-> c, src |-> src, time |-> c_time,
                                    last |-> Len(event) + 1,
                                    evidence |-> {List(c)[i] : i \in Counted(c, src)}]}
    /\ UNCHANGED <<c_time, memory, memoryused, lists, removed>>

-----------------------------------------------------------------------------
(* The event joins the lists and the memory.                               *)

Newest == Len(event)

(* How many nodes an event of rule r has in list l.                        *)
GroupNodes(r, l) == Cardinality({k \in 1 .. Len(GroupsOf[r]) : GroupsOf[r][k] = l})

(* Fault: the lists of groups get the event of a rule with a list, too.    *)
RememberInBoth ==
  LET r == event[Newest].rule IN
  [l \in Lists |->
     (IF l = SidOf[r] THEN Append(lists[l], Newest) ELSE lists[l])
       \o [k \in 1 .. GroupNodes(r, l) |-> Newest]]

(* The list of the event's rule if it has one, else those of its groups.   *)
Remembered ==
  LET r == event[Newest].rule IN
  IF SidOf[r] # NoList
    THEN [lists EXCEPT ![SidOf[r]] = Append(@, Newest)]
    ELSE [l \in Lists |-> lists[l] \o [k \in 1 .. GroupNodes(r, l) |-> Newest]]

(* The first node of the memory is not counted.                            *)
OS_AddEvent ==
  LET used == IF memory = <<>> THEN memoryused ELSE memoryused + 1 IN
  /\ at = "remember"
  /\ lists' = Remembered
  /\ memory' = Append(memory, Newest)
  /\ memoryused' = used
  /\ at' = IF used > MemoryMax THEN "evict" ELSE "idle"
  /\ removed' = 0
  /\ UNCHANGED <<c_time, event, time_ignored, alerts>>

MaxFreq == CHOOSE f \in {Frequency[r] : r \in Rules} :
             \A r \in Rules : Frequency[r] <= f

(* "Remove at least the last 10 events ..."                                *)
MoreToRemove ==
  \/ removed < Batch
  \/ event[Newest].time - event[Head(memory)].time > MaxFreq

(* Free_Eventinfo: the event's own node, or the oldest node of each group. *)
Freed(e) ==
  LET r == event[e].rule IN
  IF SidOf[r] # NoList
    THEN [lists EXCEPT ![SidOf[r]] = RemoveFirst(@, e)]
    ELSE [l \in Lists |->
            SubSeq(lists[l], GroupNodes(r, l) + 1, Len(lists[l]))]

RemoveOldest ==
  /\ at = "evict"
  /\ MoreToRemove
  /\ lists' = Freed(Head(memory))
  /\ memory' = Tail(memory)
  /\ memoryused' = memoryused - 1
  /\ removed' = removed + 1
  /\ UNCHANGED <<c_time, event, time_ignored, at, alerts>>

EvictionDone ==
  /\ at = "evict"
  /\ ~ MoreToRemove
  /\ at' = "idle"
  /\ UNCHANGED <<c_time, event, memory, memoryused, lists, time_ignored, removed, alerts>>

-----------------------------------------------------------------------------
Next ==
  \/ Tick
  \/ \E r \in Rules \ Counting, src \in Sources :
       ReceiveSingle(r, src) \/ ReceiveCounted(r, src)
  \/ OS_AddEvent
  \/ RemoveOldest
  \/ EvictionDone

Spec == Init /\ [][Next]_vars

-----------------------------------------------------------------------------
InMemory == {memory[k] : k \in 1 .. Len(memory)}

TypeOK ==
  /\ c_time \in 1 .. MaxTime
  /\ event \in Seq([rule : Rules, src : Sources, time : 1 .. MaxTime,
                    matched : Nat])
  /\ memory \in Seq(1 .. Len(event))
  /\ memoryused \in 0 .. MemoryMax + 1
  /\ lists \in [Lists -> Seq(1 .. Len(event))]
  /\ time_ignored \in [Rules -> 0 .. MaxTime]
  /\ at \in {"idle", "remember", "evict"}
  /\ removed \in Nat

(* Nodes an event of rule r has in list l: one in the list of its own      *)
(* rule, which excludes the groups, else one per marking.                  *)
Nodes(r, l) == IF SidOf[r] = l THEN 1
               ELSE IF SidOf[r] = NoList THEN GroupNodes(r, l) ELSE 0

(* No list keeps an event the memory has freed, nor loses one it still     *)
(* has: each holds exactly the nodes of its events in memory, in order.    *)
ListsFollowMemory ==
  \A l \in Lists :
    /\ \A j, k \in 1 .. Len(lists[l]) : j <= k => lists[l][j] <= lists[l][k]
    /\ \A e \in 1 .. Len(event) :
         Cardinality({k \in 1 .. Len(lists[l]) : lists[l][k] = e})
           = IF e \in InMemory THEN Nodes(event[e].rule, l) ELSE 0

(* The memory keeps its bound, one more than configured since its first    *)
(* node is not counted, and an eviction never frees the event just added.  *)
MemoryBounded ==
  /\ at = "idle" => Len(memory) <= MemoryMax + 1
  /\ at = "evict" => memory # <<>> /\ memory[Len(memory)] = Newest

(* The types, the bound, and the lists as the shadow of the memory.        *)
ListsInv == TypeOK /\ MemoryBounded /\ ListsFollowMemory

(* How often an event is in the list that rule c walks.                    *)
Copies(c, e) == IF Searched[c] = Memory THEN 1 ELSE Nodes(event[e].rule, Searched[c])

(* An alert of a counting rule rests on earlier events within its          *)
(* timeframe, and from the same source when it says so: as many as its     *)
(* frequency asks for and no more, where an event of a rule with several   *)
(* nodes counts for each of them in the list of a group.                   *)
AlertIsEarned ==
  \A a \in alerts :
    LET enough == Frequency[a.rule] + 1
        counts(E) == Cardinality({n \in E \X (1 .. enough) : n[2] <= Copies(a.rule, n[1])})
    IN
    /\ counts(a.evidence) >= enough
    /\ \A e \in a.evidence : counts({d \in a.evidence : d > e}) < enough
    /\ \A e \in a.evidence :
         /\ e < a.last
         /\ a.time - event[e].time <= Timeframe[a.rule]
         /\ a.rule \in SameSource => event[e].src = a.src

(* "We avoid multiple triggers for the same rule or rules with a lower     *)
(* level": alerts counted on one list share no event, unless the later one *)
(* has the higher level.                                                   *)
AlertsShareNoEvidence ==
  \A a, b \in alerts :
    /\ a.last < b.last
    /\ Searched[a.rule] = Searched[b.rule]
    /\ Level[b.rule] <= Level[a.rule]
    => a.evidence \cap b.evidence = {}
=============================================================================
