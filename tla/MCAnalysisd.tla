---------------------------- MODULE MCAnalysisd ----------------------------
(* Analysisd for TLC.  The file of EventMemory: two single rules, one with  *)
(* a list of its own and one with two parents; a rule that counts the       *)
(* first, one that counts their group and belongs to it, and one that       *)
(* counts whatever is in memory.  The other rules ask for parents in every  *)
(* other way, one of them with a node beside a node above another, or       *)
(* overwrite a rule.                                                        *)
EXTENDS Analysisd, TLC

Rule(sid, level, groups) ==
  [sid |-> sid, level |-> level, accurate |-> TRUE, noalert |-> FALSE,
   no_ar |-> FALSE, overwrite |-> FALSE, category |-> "syslog", groups |-> groups,
   if_sid |-> <<>>, if_level |-> {}, if_group |-> {}, matched_sid |-> <<>>,
   matched_group |-> {}, matched_regex |-> FALSE]

MCFile == <<
  [Rule(1, 0, {}) EXCEPT !.noalert = TRUE],
  [Rule(2, 0, {}) EXCEPT !.noalert = TRUE, !.category = "ids"],
  Rule(10, 1, {"failed"}),                                       \* ssh
  [Rule(11, 1, {"failed"}) EXCEPT !.if_sid = <<1, 2>>],          \* ftp
  [Rule(12, 2, {}) EXCEPT !.matched_sid = <<10>>],               \* brute
  [Rule(13, 1, {"failed"}) EXCEPT !.matched_group = {"failed"}], \* many
  [Rule(14, 2, {}) EXCEPT !.if_sid = <<11>>, !.matched_regex = TRUE]>> \* burst

MCOthers == {
  [Rule(20, 7, {"win"}) EXCEPT !.if_group = {"failed"}, !.noalert = TRUE],
  [Rule(21, 5, {"failed"}) EXCEPT !.if_sid = <<10>>, !.no_ar = TRUE],
  [Rule(22, 0, {"failed"}) EXCEPT !.if_sid = <<20, 10, 20>>, !.accurate = FALSE],
  [Rule(23, 5, {}) EXCEPT !.if_level = {6}, !.matched_group = {"win"}],
  [Rule(24, 1, {}) EXCEPT !.if_level = {0}],
  [Rule(24, 1, {"win"}) EXCEPT !.if_sid = <<10>>],
  [Rule(10, 1, {"win"}) EXCEPT !.overwrite = TRUE, !.noalert = TRUE],
  [Rule(10, 9, {"failed"}) EXCEPT !.overwrite = TRUE, !.matched_sid = <<11>>]}

MCCandidates == ToSet(MCFile) \cup MCOthers

MCActiveResponses == {[level |-> 6, groups |-> {}, rules |-> {}],
                      [level |-> 0, groups |-> {"failed"}, rules |-> {14}]}

MCRules == {"ssh", "ftp", "brute", "many", "burst"}
MCLists == {"sid ssh", "group failed"}

MCSidNumber  == [r \in MCRules |->
                   CASE r = "ssh" -> 10 [] r = "ftp" -> 11 [] r = "brute" -> 12
                     [] r = "many" -> 13 [] r = "burst" -> 14]
MCConditions == [ssh |-> [category |-> "syslog", rules |-> {1, 10}],
                 ftp |-> [category |-> "ids", rules |-> {2, 11}]]
MCReadLast   == [l \in MCLists |-> IF l = "group failed" THEN 6 ELSE 0]

MCTried      == [r \in MCRules |->
                   CASE r = "ssh" -> <<"brute", "many">>
                     [] r = "ftp" -> <<"burst", "many">>
                     [] OTHER -> <<>>]
MCLevel      == [r \in MCRules |-> IF r \in {"brute", "burst"} THEN 2 ELSE 1]
MCIgnoreTime == [r \in MCRules |-> IF r = "brute" THEN 2 ELSE 0]
MCFrequency  == [r \in MCRules |-> IF r = "burst" THEN 2
                                   ELSE IF r \in {"brute", "many"} THEN 1 ELSE 0]
MCTimeframe  == [r \in MCRules |-> IF r = "burst" THEN 1 ELSE 3]
MCSearched   == [c \in {"brute", "many", "burst"} |->
                   CASE c = "brute" -> "sid ssh"
                     [] c = "many" -> "group failed"
                     [] c = "burst" -> "memory"]
MCSidOf      == [r \in MCRules |-> IF r = "ssh" THEN "sid ssh" ELSE "none"]

(* "ftp" has two nodes in the tree, and "many", which is below both rules   *)
(* of the group, three.                                                     *)
MCGroupsOf   == [r \in MCRules |->
                   CASE r = "ssh"  -> <<"group failed">>
                     [] r = "ftp"  -> <<"group failed", "group failed">>
                     [] r = "many" -> <<"group failed", "group failed", "group failed">>
                     [] OTHER -> <<>>]

SourceSymmetry == Permutations(Sources)
=============================================================================
