----------------------------- MODULE Enrolment -----------------------------
(***************************************************************************)
(* The ways an agent gets its key.  Administrators run manage_agents (each *)
(* an instance of its own) to add, extract and remove keys, one by one or  *)
(* from a list; agent-auth asks openarmor-authd over the network.  None of *)
(* them locks client.keys: what was checked may be stale when it is used.  *)
(*                                                                         *)
(* authd forks a child per connection and keeps the children in a pool.    *)
(***************************************************************************)
EXTENDS ClientKeys

CONSTANTS
  Tools,       \* running instances of manage_agents
  Clients,     \* hosts that run agent-auth
  POOL_SIZE,   \* children authd may have
  Sockets,     \* sockets authd listens on, one for each family of addresses
  None,        \* an empty place of the pool
  Failed       \* the -1 of a fork that failed

ASSUME PoolAssumption == POOL_SIZE \in Nat \ {0}
ASSUME SocketsAssumption == Sockets \in Nat \ {0}
ASSUME NoneAssumption == {None, Failed} \cap Clients = {} /\ None # Failed

VARIABLES
  tool,      \* tool[t]: where it is in its dialogue
  unseen,    \* unseen[l]: how many lines the writer of line l had not seen
             \* when it chose what to write (history)
  authd,     \* the loop of authd: "reap", "select", "accept" or "ended"
  place,     \* the place of the pool it looks at next
  ready,     \* the sockets it has still to accept from in this round
  pool,      \* process_pool
  active,    \* active_processes
  child,     \* child[c]: the session of client c
  unwaited,  \* children, living or not, that have not been waited for
  alive      \* children alive when authd last began to look at its pool, or
             \* forked since (history)

fileVars  == <<file, unseen>>
loopVars  == <<authd, place, ready, alive>>
authdVars == <<loopVars, pool, active, child, unwaited>>
enrolVars == <<fileVars, tool, authdVars>>

Menu == [at |-> "menu"]
Slots == 1 .. POOL_SIZE

EnrolInit ==
  /\ InitFile
  /\ tool = [t \in Tools |-> Menu]
  /\ unseen = <<0>>
  /\ authd = "reap" /\ place = 1 /\ ready = 0
  /\ pool = [i \in Slots |-> None]
  /\ active = 0
  /\ child = [c \in Clients |-> "none"]
  /\ unwaited = {} /\ alive = {}

-----------------------------------------------------------------------------
(* manage_agents.                                                          *)

GoTo(t, where) == tool' = [tool EXCEPT ![t] = where]

(* add_agent: a name not in use, and the id offered ...                    *)
ChooseNew(t, h) ==
  /\ tool[t].at = "menu"
  /\ Len(file) < MaxLines
  /\ ~ NameExist(h)
  /\ GoTo(t, [at |-> "add", name |-> h, id |-> DefaultId, seen |-> Len(file)])
  /\ UNCHANGED <<fileVars, authdVars>>

(* ... and a line is appended when the administrator confirms, or at once  *)
(* for each line of a list (k_bulkload).                                   *)
add_agent(t) ==
  /\ tool[t].at = "add"
  /\ Len(file) < MaxLines
  /\ AppendLine(tool[t].name, tool[t].id)
  /\ unseen' = Append(unseen, Len(file) - tool[t].seen)
  /\ GoTo(t, Menu)
  /\ UNCHANGED authdVars

(* Fault: the place is that after the line, as fgets leaves it.            *)
PlaceAfter(id) == IF Place(id) < Len(file) THEN Place(id) + 1 ELSE Place(id)

PlaceOf(id) == Place(id)

(* remove_agent and k_extract: IDExist remembers the place of the line ... *)
ChooseOld(t, id, what) ==
  /\ tool[t].at = "menu"
  /\ IDExist(id)
  /\ GoTo(t, [at |-> what, id |-> id, pos |-> PlaceOf(id)])
  /\ UNCHANGED <<fileVars, authdVars>>

(* ... which is overwritten on confirmation, if the id still has a name.   *)
remove_agent(t) ==
  /\ tool[t].at = "remove"
  /\ IF getFullnameById(tool[t].id) # {}
     THEN OverwriteLine(tool[t].pos, tool[t].id)
     ELSE UNCHANGED file
  /\ GoTo(t, Menu)
  /\ UNCHANGED unseen
  /\ UNCHANGED authdVars

(* ... or is read and handed to the agent.                                 *)
k_extract(t) ==
  /\ tool[t].at = "extract"
  /\ GoTo(t, Menu)
  /\ UNCHANGED <<fileVars, authdVars>>

(* The administrator does not confirm.                                     *)
Quit(t) ==
  /\ tool[t].at \in {"add", "remove"}
  /\ GoTo(t, Menu)
  /\ UNCHANGED <<fileVars, authdVars>>

-----------------------------------------------------------------------------
(* authd.                                                                  *)

(* A client comes back once authd has forgotten its last child.            *)
Connect(c) ==
  /\ child[c] \in {"none", "served", "refused"}
  /\ \A i \in Slots : pool[i] # c
  /\ child' = [child EXCEPT ![c] = "waiting"]
  /\ UNCHANGED <<fileVars, tool, loopVars, pool, active, unwaited>>

Living == {c \in Clients : child[c] = "alive"}
Zombies == unwaited \ Living

(* What waitpid(process_pool[i], WNOHANG) may collect; nothing if the      *)
(* child lives.  A fork that failed left -1, which waits for any child.    *)
(* Without a child to wait for waitpid fails, which counts as an end.      *)
Collected(i) ==
  LET meant == IF pool[i] = Failed THEN unwaited ELSE unwaited \cap {pool[i]}
  IN  IF meant = {} THEN {{}} ELSE {{c} : c \in meant \cap Zombies}

NextPlace ==
  /\ place' = (place % POOL_SIZE) + 1
  /\ authd' = IF place = POOL_SIZE THEN "select" ELSE "reap"
  /\ alive' = IF place = 1 THEN Living ELSE alive

(* Fault: the last place of the pool is not looked at.                     *)
ReapButLast ==
  /\ authd = "reap" /\ NextPlace
  /\ \/ /\ place < POOL_SIZE /\ pool[place] # None
        /\ \E w \in Collected(place) :
             /\ pool' = [pool EXCEPT ![place] = None]
             /\ active' = active - 1 /\ unwaited' = unwaited \ w
     \/ /\ pool[place] = None \/ Collected(place) = {} \/ place = POOL_SIZE
        /\ UNCHANGED <<pool, active, unwaited>>
  /\ UNCHANGED <<fileVars, tool, child, ready>>

(* The head of the loop: one place of the pool after the other is left by  *)
(* a child that has ended.                                                 *)
Reap ==
  /\ authd = "reap" /\ NextPlace
  /\ \/ /\ pool[place] # None
        /\ \E w \in Collected(place) :
             /\ pool' = [pool EXCEPT ![place] = None]
             /\ active' = active - 1 /\ unwaited' = unwaited \ w
     \/ /\ pool[place] = None \/ Collected(place) = {}
        /\ UNCHANGED <<pool, active, unwaited>>
  /\ UNCHANGED <<fileVars, tool, child, ready>>

(* select: clients are waiting at some of the sockets.  The pool was       *)
(* looked at before the wait, however long that was.                       *)
WaitForClients ==
  /\ authd = "select" /\ authd' = "accept"
  /\ ready' \in 1 .. Sockets
  /\ ready' <= Cardinality({c \in Clients : child[c] = "waiting"})
  /\ UNCHANGED <<fileVars, tool, place, alive, pool, active, child, unwaited>>

(* One client at each of these sockets; only then is the pool looked at    *)
(* again.                                                                  *)
NextSocket ==
  /\ ready' = ready - 1
  /\ authd' = IF ready = 1 THEN "reap" ELSE "accept"
  /\ UNCHANGED place

InPool(x) == pool' = [pool EXCEPT ![CHOOSE i \in Slots : pool[i] = None] = x]

(* accept.  If the pool was full, authd ends.  fork() = -1 is taken for    *)
(* the parent's answer: -1 gets a place, and the connection is closed.     *)
Accept(c) ==
  /\ authd = "accept" /\ child[c] = "waiting"
  /\ \/ /\ active >= POOL_SIZE
        /\ authd' = "ended"
        /\ UNCHANGED <<ready, place, alive, pool, active, child, unwaited>>
     \/ /\ active < POOL_SIZE
        /\ NextSocket
        /\ active' = active + 1
        /\ \/ /\ InPool(c)
              /\ child' = [child EXCEPT ![c] = "alive"]
              /\ unwaited' = unwaited \cup {c} /\ alive' = alive \cup {c}
           \/ /\ InPool(Failed)
              /\ child' = [child EXCEPT ![c] = "none"]
              /\ UNCHANGED <<unwaited, alive>>
  /\ UNCHANGED <<fileVars, tool>>

(* The client has gone: accept fails.                                      *)
AcceptFails(c) ==
  /\ authd = "accept" /\ child[c] = "waiting"
  /\ NextSocket
  /\ child' = [child EXCEPT ![c] = "none"]
  /\ UNCHANGED <<fileVars, tool, alive, pool, active, unwaited>>

(* The request of agent-auth is "openarmor A:'name'", thirteen characters  *)
(* before the name.  authd skips as many as it compares, and takes what    *)
(* follows, up to a quote, for the name: " A:" if it skips nine.  A space  *)
(* is not allowed in a name.                                               *)
RequestHeader == 13
Skipped == 9
NameIsValid == Skipped = RequestHeader

(* A child reads the request and answers; without a valid name with an     *)
(* error.                                                                  *)
Serve(c) ==
  /\ child[c] = "alive"
  /\ child' = [child EXCEPT ![c] =
       IF NameIsValid THEN "served" ELSE "refused"]
  /\ UNCHANGED <<fileVars, tool, loopVars, pool, active, unwaited>>

(* The connection breaks, or the agent never asks.                         *)
Abort(c) ==
  /\ child[c] = "alive"
  /\ child' = [child EXCEPT ![c] = "none"]
  /\ UNCHANGED <<fileVars, tool, loopVars, pool, active, unwaited>>

Administer ==
  \E t \in Tools :
     \/ \E h \in Hosts : ChooseNew(t, h)
     \/ \E id \in Ids, what \in {"remove", "extract"} : ChooseOld(t, id, what)
     \/ add_agent(t) \/ remove_agent(t) \/ k_extract(t)
     \/ Quit(t)

Session(c) == Connect(c) \/ Serve(c) \/ Abort(c)

Authd == Reap \/ WaitForClients \/ \E c \in Clients : Session(c) \/ Accept(c) \/ AcceptFails(c)

EnrolNext == Administer \/ Authd

EnrolSpec == EnrolInit /\ [][EnrolNext]_enrolVars
-----------------------------------------------------------------------------
EnrolTypeOK ==
  /\ FileTypeOK
  /\ \A t \in Tools :
       /\ tool[t].at \in {"menu", "add", "remove", "extract"}
       /\ tool[t].at = "add" => tool[t].seen <= Len(file) /\ tool[t].id \in Nat
       /\ tool[t].at \in {"remove", "extract"} => tool[t].pos \in Lines
  /\ unseen \in [Lines -> Nat]
  /\ authd \in {"reap", "select", "accept", "ended"}
  /\ place \in Slots /\ ready \in 0 .. Sockets
  /\ pool \in [Slots -> Clients \cup {None, Failed}]
  /\ active \in 0 .. POOL_SIZE
  /\ child \in [Clients -> {"none", "waiting", "alive", "served", "refused"}]
  /\ unwaited \subseteq Clients /\ alive \subseteq Clients

(* Two lines share an id, or two agents a name, only if the tool that      *)
(* wrote the second had not seen the first: it chose before that line was  *)
(* there.  So with one tool an id is never given twice, not even after a   *)
(* removal.                                                                *)
SharedOnlyUnseen ==
  \A k, l \in Lines :
    /\ k < l
    /\ \/ file[k].id = file[l].id
       \/ {k, l} \subseteq LiveLines /\ file[k].name = file[l].name
    => k >= l - unseen[l]

(* The key handed out is that of the agent asked for, although the file    *)
(* may change between the search and the reading: lines are never moved.   *)
HandedAsAsked ==
  \A t \in Tools : tool[t].at = "extract" => file[tool[t].pos].id = tool[t].id

(* No edit, however late it comes after its search, changes the id of a    *)
(* line or brings a removed one back.                                      *)
LinesKeepTheirId ==
  [][\A l \in Lines : /\ file'[l].id = file[l].id
                      /\ file[l].removed => file'[l].removed]_enrolVars

(* The count is that of the places taken, and every child that lives or    *)
(* has not been waited for has one of them: none is left that would never  *)
(* be waited for, although a -1 in the pool collects the children of other *)
(* places.                                                                 *)
PoolIsAccount ==
  /\ active = Cardinality({i \in Slots : pool[i] # None})
  /\ Living \subseteq unwaited
  /\ \A c \in unwaited : \E i \in Slots : /\ pool[i] = c
                                        /\ \A j \in Slots : pool[j] = c => j = i

(* authd ends for lack of places only if each is taken by a child that was *)
(* alive when authd last began to look, which may be long ago, or was      *)
(* forked since, or by a fork that failed.                                 *)
EndsOnlyIfPoolWasFull ==
  authd = "ended" => \A i \in Slots : pool[i] \in alive \cup {Failed}

(* The types, what is handed out, and the account of the children of authd. *)
EnrolmentInv == EnrolTypeOK /\ HandedAsAsked /\ PoolIsAccount /\ EndsOnlyIfPoolWasFull

(* "Checking for action A (add agent)": the request agent-auth sends for a *)
(* valid name is not refused.                                              *)
ProperRequestIsServed == \A c \in Clients : child[c] # "refused"
=============================================================================
