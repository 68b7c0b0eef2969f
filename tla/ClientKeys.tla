----------------------------- MODULE ClientKeys -----------------------------
(***************************************************************************)
(* client.keys, the file of the agents' keys (addagent/validate.c).  Lines *)
(* are appended; a removed agent keeps its line, overwritten in place by   *)
(* its id and "#*#*".  The key of an agent is made of random numbers: two  *)
(* lines never hold the same key, so the index of the line stands for it.  *)
(***************************************************************************)
EXTENDS Naturals, Sequences, FiniteSets

CONSTANTS
  Hosts,     \* hosts that run an agent; the name is also the fixed address
  MaxLines   \* bound on the lines of the file

ASSUME MaxLinesAssumption == MaxLines \in Nat \ {0}

VARIABLE file    \* the lines: id, name, whether removed

Ids   == 1 .. MaxLines
Lines == DOMAIN file

InitFile == \E h \in Hosts :
  file = <<[id |-> 1, name |-> h, removed |-> FALSE]>>

LiveLines == {l \in Lines : ~ file[l].removed}

NameExist(n) == \E l \in LiveLines : file[l].name = n

(* A removed line still holds its id.                                      *)
IDExist(id) == \E l \in Lines : file[l].id = id

(* IDExist leaves the place of the line in fp_pos.                         *)
Place(id) == CHOOSE l \in Lines :
  file[l].id = id /\ \A k \in Lines : file[k].id = id => l <= k

(* The names of the lines with the id: the first is meant.                 *)
getFullnameById(id) == {file[l].name : l \in {k \in LiveLines : file[k].id = id}}

(* Fault: removed lines do not count.                                      *)
DefaultOfLive == CHOOSE i \in 1 .. MaxLines + 1 :
  /\ \A l \in LiveLines : file[l].id < i
  /\ i = 1 \/ \E l \in LiveLines : file[l].id = i - 1

(* The id offered: one more than the largest there is.                     *)
DefaultId == CHOOSE i \in 1 .. MaxLines + 1 :
  /\ \A k \in Ids : IDExist(k) => k < i
  /\ i = 1 \/ IDExist(i - 1)

AppendLine(h, id) ==
  file' = Append(file, [id |-> id, name |-> h, removed |-> FALSE])

(* "id #*#*#*..." over the start of the line, whatever line it is.         *)
OverwriteLine(pos, id) ==
  file' = [file EXCEPT ![pos].id = id, ![pos].removed = TRUE]

(* The key a host holds: that of the last line written for it, imported    *)
(* when the line was written.                                              *)
Held(h) == {l \in Lines : /\ file[l].name = h
                          /\ \A k \in Lines : file[k].name = h => k <= l}

FileTypeOK == file \in Seq([id : Ids, name : Hosts, removed : BOOLEAN])
=============================================================================
