------------------------------- MODULE Execd -------------------------------
(***************************************************************************)
(* The active-response daemon (os_execd/execd.c).  A request names a       *)
(* command, a user and an address; execd runs the command with "add" and,  *)
(* when it has a timeout, remembers it in timeout_list, to run it with     *)
(* "delete" when the timeout is over.  A request for what is already in    *)
(* the list only restarts the timeout, which grows for repeated offenders. *)
(* The scripts are children execd does not wait for, and SIGTERM runs      *)
(* execd_shutdown wherever the loop happens to be.                         *)
(***************************************************************************)
EXTENDS Integers, Sequences, FiniteSets

CONSTANTS
  Requests,       \* requests: [cmd, user, ip]
  Timeout,        \* Timeout[c]: timeout of command c in ar.conf, 0 if none
  Repeated,       \* repeated_offenders_timeout
  MaxRequests,    \* requests handled at most (bound)
  LastRequest,    \* requests arrive up to this time (bound)
  MaxTime         \* the clock stops here (bound)

NoIP     == "-"
Commands == {r.cmd : r \in Requests}
Keys     == {<<r.cmd, r.ip>> : r \in Requests}
Key(r)   == <<r.cmd, r.ip>>

ASSUME TimeoutAssumption == Timeout \in [Commands -> Nat]
ASSUME RepeatedAssumption == Repeated \in Seq(Nat \ {0})
ASSUME BoundsAssumption == MaxRequests \in Nat /\ LastRequest \in Nat /\ MaxTime \in Nat

VARIABLES
  now,           \* the clock
  timeout_list,  \* entries [req, time_of_addition, time_to_block]
  repeated,      \* repeated_hash: the count of a key, -1 if it has none
  at,            \* where the loop is
  node,          \* timeout_node, the position the loop is at in the list
  request,       \* the request being handled
  served,        \* requests handled so far (bound)
  children,      \* scripts running, in the order of their start
  host,          \* host[r]: rules the scripts have put in force for r
  execs,         \* execs[r]: "add" scripts started less "delete" (history)
  term,          \* term[k]: time_to_block given last to key k (history)
  stray          \* requests whose block nothing need undo (history)

vars == <<now, timeout_list, repeated, at, node, request, served, children,
          host, execs, term, stray>>

Init ==
  /\ now = 0
  /\ timeout_list = <<>>
  /\ repeated = [k \in Keys |-> -1]
  /\ at = "select"
  /\ node = 1
  /\ request \in Requests
  /\ served = 0
  /\ children = <<>>
  /\ host = [r \in Requests |-> 0]
  /\ execs = [r \in Requests |-> 0]
  /\ term = [k \in Keys |-> 0]
  /\ stray = {}

-----------------------------------------------------------------------------
(* ExecCmd forks the script.                                               *)
ExecCmd(action, r) ==
  /\ children' = Append(children, [action |-> action, req |-> r])
  /\ execs' = [execs EXCEPT ![r] = IF action = "add" THEN @ + 1 ELSE @ - 1]

(* A script ends; scripts run side by side and end in any order.           *)
(* firewall-drop.sh inserts one rule, or removes one if there is one: a    *)
(* "delete" that overtakes its "add" finds none.                           *)
ScriptEnds ==
  \E k \in 1 .. Len(children) :
    LET c == children[k] IN
    /\ host' = [host EXCEPT ![c.req] = IF c.action = "add" THEN @ + 1
                                       ELSE IF @ > 0 THEN @ - 1 ELSE 0]
    /\ children' = SubSeq(children, 1, k - 1)
                     \o SubSeq(children, k + 1, Len(children))
    /\ stray' = IF c.action = "delete" /\ (\E j \in 1 .. k - 1 :
                                              children[j] = [c EXCEPT !.action = "add"])
                THEN stray \cup {c.req} ELSE stray
    /\ UNCHANGED <<now, timeout_list, repeated, at, node, request, served,
                   execs, term>>

(* Time passes while select() waits: the loop reads the clock once a round. *)
Tick ==
  /\ at \in {"select", "off"}
  /\ now < MaxTime
  /\ now' = now + 1
  /\ UNCHANGED <<timeout_list, repeated, at, node, request, served,
                 children, host,
                 execs, term, stray>>

-----------------------------------------------------------------------------
(* The head of the loop: run what has timed out.                           *)

(* Fault: the operands of the difference are swapped.                      *)
TimedOutSwapped(e) == e.time_of_addition - now > e.time_to_block

TimedOut(e) == now - e.time_of_addition > e.time_to_block

(* select() returned: the loop walks the list before it selects again.     *)
SelectTimeout ==
  /\ at = "select"
  /\ at' = "expire" /\ node' = 1
  /\ UNCHANGED <<now, timeout_list, repeated, request, served, children, host,
                 execs, term, stray>>

WalkDone ==
  /\ at = "expire" /\ node > Len(timeout_list)
  /\ at' = "select" /\ node' = 1
  /\ UNCHANGED <<now, timeout_list, repeated, request, served, children, host,
                 execs, term, stray>>

KeepEntry ==
  /\ at = "expire" /\ node <= Len(timeout_list)
  /\ ~ TimedOut(timeout_list[node])
  /\ node' = node + 1
  /\ UNCHANGED <<now, timeout_list, repeated, at, request, served, children, host,
                 execs, term, stray>>

ExpireEntry ==
  /\ at = "expire" /\ node <= Len(timeout_list)
  /\ TimedOut(timeout_list[node])
  /\ ExecCmd("delete", timeout_list[node].req)
  /\ at' = "expired"
  /\ UNCHANGED <<now, timeout_list, repeated, node, request, served, host, term, stray>>

(* The current node is deleted; the list's cursor is already on the next.  *)
DeleteEntry ==
  /\ at = "expired"
  /\ timeout_list' = SubSeq(timeout_list, 1, node - 1)
                       \o SubSeq(timeout_list, node + 1, Len(timeout_list))
  /\ at' = "expire"
  /\ UNCHANGED <<now, repeated, node, request, served,
                 children, host, execs, term, stray>>

-----------------------------------------------------------------------------
(* A request.                                                              *)

(* Fault: an entry whose time is over is not looked at.                    *)
SameUnexpired(e, r) == e.req.cmd = r.cmd /\ e.req.ip = r.ip /\ ~ TimedOut(e)

(* "Check if this command was already executed": the address and the       *)
(* command are compared.                                                   *)
Same(e, r) == e.req.cmd = r.cmd /\ e.req.ip = r.ip

(* Fault: the last of the configured timeouts is passed over.              *)
OffenderTimeoutBeyond(n) == IF n > Len(Repeated) THEN Repeated[Len(Repeated)]
                            ELSE IF n = Len(Repeated) THEN 0 ELSE Repeated[n + 1]

(* The timeout of an offender met n times since its first block, and its   *)
(* new count.                                                              *)
OffenderTimeout(n) == IF n >= Len(Repeated) THEN Repeated[Len(Repeated)]
                                            ELSE Repeated[n + 1]
OffenderCount(n)   == IF n >= Len(Repeated) THEN n ELSE n + 1

(* A request is received, within the bounds.                               *)
Arrives(r) ==
  /\ now <= LastRequest /\ served < MaxRequests
  /\ request' = r /\ served' = served + 1

Listed(r) == \E k \in 1 .. Len(timeout_list) : Same(timeout_list[k], r)

(* The first entry for the same target gets a new start, and for a         *)
(* repeated offender a new timeout.                                        *)
RefreshEntry(r) ==
  LET k == CHOOSE j \in 1 .. Len(timeout_list) :
             /\ Same(timeout_list[j], r)
             /\ \A i \in 1 .. j - 1 : ~ Same(timeout_list[i], r)
      n == repeated[Key(r)]
      offender == Repeated # <<>> /\ r.ip # NoIP /\ n # -1
      block == IF offender THEN OffenderTimeout(n)
                           ELSE timeout_list[k].time_to_block
  IN
  /\ at = "select" /\ Arrives(r)
  /\ Listed(r)
  /\ timeout_list' = [timeout_list EXCEPT ![k].time_of_addition = now,
                                          ![k].time_to_block = block]
  /\ repeated' = IF offender THEN [repeated EXCEPT ![Key(r)] = OffenderCount(n)]
                             ELSE repeated
  /\ term' = [term EXCEPT ![Key(r)] = block]
  /\ at' = "expire" /\ node' = 1
  /\ UNCHANGED <<now, children, host, execs, stray>>

(* A new target: the script is started ...                                 *)
Execute(r) ==
  /\ at = "select" /\ Arrives(r)
  /\ ~ Listed(r)
  /\ ExecCmd("add", r)
  /\ at' = "added"
  /\ UNCHANGED <<now, timeout_list, repeated, node, host, term, stray>>

(* ... and, if the command has a timeout, the entry is added.              *)
AddEntry ==
  LET r == request
      n == repeated[Key(r)]
      offender == Repeated # <<>> /\ n # -1
      block == IF offender THEN OffenderTimeout(n) ELSE Timeout[r.cmd]
      entry == [req |-> r, time_of_addition |-> now, time_to_block |-> block]
  IN
  /\ at = "added"
  /\ at' = "expire" /\ node' = 1
  /\ IF Timeout[r.cmd] = 0
       THEN UNCHANGED <<timeout_list, repeated, term, stray>>
       ELSE /\ timeout_list' = Append(timeout_list, entry)
            /\ repeated' = IF Repeated = <<>> THEN repeated
                           ELSE [repeated EXCEPT ![Key(r)] =
                                   IF n = -1 THEN 0 ELSE OffenderCount(n)]
            /\ term' = [term EXCEPT ![Key(r)] = block]
  /\ UNCHANGED <<now, request, served, children, host, execs, stray>>

-----------------------------------------------------------------------------
Count(S) == Cardinality(S)
EntriesOf(r) == {k \in 1 .. Len(timeout_list) : timeout_list[k].req = r}

(* Fault: execd_shutdown leaves without walking the list.                  *)
ShutdownAtOnce ==
  /\ at # "off"
  /\ at' = "off"
  /\ UNCHANGED <<now, timeout_list, repeated, node, request, served,
                 children, host,
                 execs, term, stray>>

(* SIGTERM, wherever the loop is: execd_shutdown runs "delete" for every    *)
(* entry and exits.  A script just started has no entry yet.               *)
execd_shutdown ==
  /\ at # "off"
  /\ at' = "off"
  /\ children' = children \o [k \in 1 .. Len(timeout_list) |->
                                [action |-> "delete", req |-> timeout_list[k].req]]
  /\ execs' = [r \in Requests |-> execs[r] - Count(EntriesOf(r))]
  /\ timeout_list' = <<>>
  /\ stray' = IF at = "added" THEN stray \cup {request} ELSE stray
  /\ UNCHANGED <<now, repeated, node, request, served, host, term>>

Expire == WalkDone \/ KeepEntry \/ ExpireEntry \/ DeleteEntry
Handle == AddEntry \/ \E r \in Requests : RefreshEntry(r) \/ Execute(r)

Next == SelectTimeout \/ Expire \/ Handle \/ execd_shutdown \/ ScriptEnds \/ Tick

Spec == Init /\ [][Next]_vars

(* execd runs, its select() returns at the latest after EXECD_TIMEOUT, its *)
(* scripts end and time passes.                                            *)
FairSpec ==
  /\ Spec
  /\ WF_vars(SelectTimeout) /\ WF_vars(Expire) /\ WF_vars(AddEntry)
  /\ WF_vars(ScriptEnds) /\ SF_vars(Tick)

-----------------------------------------------------------------------------
Blocks == {Timeout[c] : c \in Commands} \cup {Repeated[k] : k \in 1 .. Len(Repeated)}

TypeOK ==
  /\ now \in 0 .. MaxTime
  /\ timeout_list \in Seq([req : Requests, time_of_addition : 0 .. MaxTime,
                           time_to_block : Blocks])
  /\ repeated \in [Keys -> -1 .. Len(Repeated)]
  /\ at \in {"select", "expire", "expired", "added", "off"}
  /\ node \in Nat \ {0}
  /\ at # "off" => node <= Len(timeout_list) + 1
  /\ request \in Requests /\ served \in Nat
  /\ children \in Seq([action : {"add", "delete"}, req : Requests])
  /\ host \in [Requests -> Nat]
  /\ execs \in [Requests -> Int]
  /\ term \in [Keys -> Blocks \cup {0}]
  /\ stray \subseteq Requests

(* A target is in the list once, however often it is reported.             *)
OneEntryPerTarget ==
  \A j, k \in 1 .. Len(timeout_list) :
    Key(timeout_list[j].req) = Key(timeout_list[k].req) => j = k

(* Between two requests the list is the account of what is in force: each  *)
(* "add" that has a timeout and no "delete" yet has one entry, and every   *)
(* entry had its "add".                                                    *)
ListIsAccount ==
  at = "select" =>
    \A r \in Requests :
      Timeout[r.cmd] # 0 => execs[r] = Count(EntriesOf(r))

(* The types, and the list as the account of the blocks: one entry for a   *)
(* target, one for each block in force.                                    *)
AccountInv == TypeOK /\ OneEntryPerTarget /\ ListIsAccount

(* A target blocked again is blocked for as long as before or for longer,  *)
(* given timeouts that do not decrease.                                    *)
TermsEscalate == [][\A k \in Keys : term[k] <= term'[k]]_vars

(* Every block with a timeout is undone, by its timeout or by a shutdown,  *)
(* but for those of ShutdownUndoesAll: the host comes to be free of blocks *)
(* when no more requests come.                                             *)
EveryBlockEnds ==
  []<>(\A r \in Requests : Timeout[r.cmd] # 0 => host[r] = 0 \/ r \in stray)

(* "Remove pending active responses" (execd_shutdown): when execd is gone  *)
(* and its scripts are done, no block that has a timeout is left.  Two     *)
(* are: one whose "add" was overtaken by its "delete", and one whose "add" *)
(* was started and not yet recorded when the signal came.                  *)
ShutdownUndoesAll ==
  at = "off" /\ children = <<>> =>
    \A r \in Requests : Timeout[r.cmd] # 0 => host[r] = 0 \/ r \in stray
=============================================================================
