
# A formal model of openarmor-hids

TLA+ modules for the parts of openarmor-hids whose correctness depends on the
order of things: messages that get lost or repeated, threads and processes that
interleave, daemons that stop and start again, lists that several pieces of
code keep in step. Each module is translated from the C source under `src/`;
`PROJECT.json` gives, for every definition, the lines it stands for.

Contents: [the system](#the-system), [the modules](#the-modules),
[the runs](#the-runs), [bounds](#bounds), [fairness](#fairness),
[proofs](#proofs), [findings](#findings), [observations](#observations), [what is not modelled](#what-is-not-modelled),
[plan](#plan).

## The system

openarmor is a host intrusion detection system: agents on the monitored hosts
read logs, check files and send events to a manager, which decodes them, matches
them with rules, raises alerts and starts active responses, on itself or on an
agent. Each part is a daemon of its own; they talk over Unix datagram sockets
under `queue/`, over files, and, agent to manager, over UDP.

| Component | State it keeps | Operations | Interaction |
|---|---|---|---|
| secure messages (`os_crypto/shared/msgs.c`) | counters of both directions, files under `queue/rids`, a shared count of accepted messages | `CreateSecMSG`, `ReadSecMSG`, `OS_StartCounter` | used by agentd and remoted at the two ends of a UDP channel |
| key store (`os_crypto/shared/keys.c`) | agents' keys, ids, addresses, two hashes, the time of `client.keys` | `OS_ReadKeys`, `OS_FreeKeys`, `OS_UpdateKeys`, lookups | shared by remoted's three threads |
| remoted, control messages (`remoted/manager.c`, `secure.c`) | last message, change flag and agent file per agent, `modified_agentid` | `save_controlmsg`, `wait_for_msgs`, `read_controlmsg` | two threads, a mutex and a condition |
| remoted, sending (`remoted/sendmsg.c`, `ar-forward.c`) | two mutexes, last time heard of each agent | `send_msg`, `check_keyupdate`, `AR_Forward` | three threads send; two reload the keys |
| shared configuration (`remoted/manager.c`, `client-agent/receiver.c`, `notify.c`) | checksums of the shared files; at the agent an open stream, the announced sum, `merged.mg` | `c_files`, `send_file_toagent`, `receive_msg`, `run_notify` | keep-alives one way, file pieces the other |
| agent connection (`client-agent/`) | current server, time of its last answer, the wait file | `connect_server`, `start_agent`, `run_notify`, `EventForward`, `os_setwait` | the wait file stops logcollector and syscheckd |
| analysisd, event memory (`analysisd/eventinfo*.c`) | list of the last events, per-rule and per-group lists of the same events | `OS_AddEvent`, `Search_Last*`, `Free_Eventinfo` | rules refer to events the memory frees |
| analysisd, integrity database (`decoders/syscheck.c`) | a text file per agent, a line per file with marks and checksum | `DB_Search` | reports of syscheckd, through agentd and remoted |
| analysisd, alert log (`alerts/`) | the file of the day | `OS_GetLogLocation`, `OS_Log` | followed by maild, csyslogd, dbd |
| analysisd, rule tree (`analysisd/rules.c`, `rules_list.c`) | a tree of nodes, one rule in several of them; lists each rule remembers its events in | `Rules_OP_ReadRules`, `OS_AddChild`, `OS_AddRuleInfo`, `OS_MarkID`, `OS_MarkGroup`, `_setlevels`, `OS_CheckIfRuleMatch` | read once at the start; walked for every event, searches the event memory |
| analysisd, the rest | decoders, FTS, statistics, accumulator | `OS_ReadMSG` and what it calls | reads one queue, writes alerts and active responses |
| execd (`os_execd/`) | timeout list, counts of repeated offenders, running scripts | `ExecdStart`, `execd_shutdown` | requests from analysisd or agentd; scripts are its children |
| logcollector (`logcollector/`) | per log file: the stream, its inode, position, size, count of errors | the readers, `handle_file`, the check of every `VCHECK_FILES` rounds | follows files other programs write and rotate; writes to the queue |
| syscheckd (`syscheckd/`) | hash table of first checksums, inotify watches | scan, `realtime_checksumfile`, `send_syscheck_msg` | writes to the queue; analysisd keeps its database |
| rootcheck, agentlessd | none between runs | check, send | write to the queue |
| readers of the alert log (`shared/file-queue.c`, `read-alert.c`) | file of the day, position | `Read_FileMon`, `GetAlertData` | inside maild, csyslogd, dbd |
| maild (`os_maild/`) | list of mails, a saved mail, formats of the recipients, counts of the hour, children | `OS_Run`, `OS_RecvMailQ`, `OS_Sendmail`, the mail list | follows the alert log, forks senders |
| csyslogd, dbd, monitord, reportd | position in the alert log, connections | follow the alert log | read what analysisd writes |
| authd, agent-auth, manage_agents | `client.keys`; authd a pool of children | add, remove, extract a key | remoted notices the changed file |

### What is hard here

* UDP: every message between agent and manager may be lost, repeated, late
  or out of order; the counters have to turn this into something usable, across
  restarts and crashes of both ends, from files that lag behind.
* remoted has three threads and three mutexes around state that is partly read
  without them; the key reload renumbers agents under everyone's feet.
* A file transfer to an agent has no acknowledgement; its only feedback is the
  checksum in a later keep-alive.
* execd records what it did after doing it, in a list in memory, with a signal
  handler that walks the list at any moment, and scripts that run in parallel.
* `client.keys` has several writers and no lock; each decides on what it read
  before a dialogue or a network exchange.
* agentd is one thread between two sockets; its handshake can begin in the
  middle of forwarding, and the wait file is how it holds the collectors back.
* logcollector follows files that are renamed, replaced, cut and half written
  while it reads them.
* the alert log is the only link from analysisd to maild: two clocks, two ideas
  of the day, and alerts that reach the file in more than one write.
* the integrity database is rewritten in place, in two writes per change, and
  the agent's table keeps the first checksum of a file for ever.
* a rule finds only the parents and the rules to count that were read before it,
  may have several nodes, and may be overwritten where it stands: what an event
  leads to depends on the order of all rule files.
* analysisd keeps the same event in up to three lists; freeing one means taking
  it off the others, and only the order of the lists says where it is.

### What makes each component correct

* Secure messages: in a session of the receiver each peer's messages are
  delivered in order and at most once; a crash sets neither end back so far
  that it is not heard any more; what reached the counter file is never
  accepted again.
* Control messages: an announced message is read; no announcement falls between
  a test and a wait, or between a copy and a reset.
* Shared files: what an agent unpacks is one whole version; within a session
  versions only go forward, and after a restart whose counter lets older
  messages through again the agent still ends on the current one.
* execd: the list is the account of the blocks in force; each block with a
  timeout ends, by its timeout or at shutdown; repeated offenders are never
  blocked for a shorter time.
* keys in remoted: what is sealed for an agent reaches that agent, across
  reloads; a reload misses nothing but an edit in the second of its date; a new
  agent is heard without a restart.
* enrolment: an id is given twice only behind a tool's back; lines keep their
  id; every child authd has not waited for has one place in the pool.
* agent connection: a server is left only if it is silent, or if agentd let its
  messages lie; collectors are held back while there is none and released after.
* logcollector: each line is given to the queue once, in order, or lost for a
  known reason (refused by the queue, no room in a cache or buffer, closed or cut
  away before it was read); a replacement of a file is opened.
* alert log and maild: every alert is in exactly one place on its way to a mail;
  a mail reaches all its recipients; none waits for ever.
* integrity: a change is stored with an alert; the database ends where the files
  rest; both up to exceptions the properties spell out.
* rule tree: an event is taken by the rule that the parents, the levels and the
  order of reading determine, wherever the nodes of the rules have ended up; each
  rule is what its last definition says; the lists get the events of the rules
  they are for.
* event memory: a rule that counts earlier events finds as many as it asks for,
  still in memory and within its timeframe (an event of a rule with several nodes
  counts once for each in the list of a group); no alert shares its evidence with
  another; no list keeps an event after the memory freed it.

`PROJECT.json` lists the hazards one by one, each at its line, with the property
that covers it or the reason why none does.

## The modules

`A -> B` reads "A extends B", `A => B` "A is shown to implement B".

    OrderedChannel
    SecMsg         => OrderedChannel
    MCSecMsg       -> SecMsg
    ControlMsg
    ClientKeys
    RemotedKeys    -> ClientKeys
    RemotedKeysProofs -> RemotedKeys, TLAPS
    Enrolment      -> ClientKeys
    MCEnrolment    -> Enrolment
    SharedFiles
    ManagerProofs  -> SharedFiles, ControlMsg, TLAPS
    AgentConn
    ConnectionProofs -> SecMsg, AgentConn, Enrolment, TLAPS
    LogReaders
    LogCollector   -> LogReaders
    SyscheckDB
    Syscheckd      -> SyscheckDB
    MCSyscheckd    -> Syscheckd
    SyscheckdProofs -> Syscheckd, TLAPS
    AlertQueue
    Maild          -> AlertQueue
    MCMaild        -> Maild
    MaildProofs    -> Maild, TLAPS
    Execd
    MCExecd        -> Execd
    HostProofs     -> Execd, LogCollector, TLAPS
    EventMemory
    RuleTree
    Analysisd      -> EventMemory, with an instance of RuleTree
    MCAnalysisd    -> Analysisd
    EventMemoryProofs -> EventMemory, TLAPS
    RuleTreeProofs -> Analysisd, EventMemoryProofs

Conventions: a variable or action named like a C identifier is that identifier
(`modified`, `timeout_list`, `OS_StartCounter`); history variables exist for the
properties only and are marked as such; a definition introduced with "Fault:"
is a plausible mistake in the definition that follows it. It is used by no
specification; substituting it makes a named property fail, which shows that
the property looks at that piece of code.

**SecMsg** models `os_crypto/shared/msgs.c`: `CreateSecMSG` increments the
counter of the sender and stores it, `ReadSecMSG` compares counters and stores
the receiver's once every `recv_counter_flush` messages, `OS_StartCounter`
reads the files back. A counter file is a pair: what the file holds and what
the stdio buffer in front of it holds (`Stored`, `Closed`, `Dropped`). The
network is the set of all datagrams ever sent, any of which may arrive at any
time. Actions `SenderExit`, `SenderCrash`, `ReceiverExit`, `ReceiverCrash` and
`OS_UpdateKeys` (reload of `client.keys`) restart an end. **OrderedChannel** is
the abstract specification: per session, in order and at most once.

**ControlMsg** models `save_controlmsg`, `wait_for_msgs` and the part of
`read_controlmsg` that empties the mailbox in `remoted/manager.c`. One action is
one critical section of `lastmsg_mutex`, or what a thread does between two of
them. `rcv` and `wait` are the places of the two threads.

**SharedFiles** models the transfer of `merged.mg`: `c_files`,
`read_controlmsg`, `send_file_toagent` at the manager; `run_notify`,
`receive_msg` (update, data, close) and restarts at the agent. Contents are
sequences of pieces `<<version, k>>`, a checksum is the version of a whole file
or `Other`. The channel is the one SecMsg establishes, and no better: within a
session of the agent losses and no reordering; `net` are the messages above the
counter the agent has *stored*, `passed` of them not above the one in its memory.
`Restart` is an end of the agent, by a signal that goes through `exit()` and
flushes the stream, or by a crash that loses what was buffered; `passed` falls
back, so that copies of messages it had before, those of an older transfer too,
are accepted again. A restart of the manager is not modelled here. The history
`stranded` records the versions an exit left whole and not unpacked, `fresh` that
the agent unpacked its version in this session, `again` the versions whose
headers a restart let through again.

**ClientKeys** is `client.keys` with the functions of `addagent/validate.c` on
it. It has two users. **RemotedKeys** is remoted's copy in memory: `main`, `ar`
and `wait` are the places of its three threads, `keyupdate` and `sendmsg` the
holders of its two mutexes; `check_keyupdate` is five steps (two locks,
`OS_FreeKeys`, the date, the lines), during which the file may be edited. The
date counts the seconds in which the file was edited. **Enrolment** is the
writers: instances of `manage_agents` in their dialogues, and authd: it looks at
one place of its pool after the other (`Reap`), waits, and accepts one client
from each socket that is ready (`Accept`), forking a child for each. A fork that
fails puts `Failed`, the code's -1, into the pool, where `waitpid` later collects
whichever child has ended.

**AgentConn** models agentd: the start in two steps, the queue (`BindQueue`) and
later the wait file (`AgentdStart`), between which collectors send into a queue
nobody reads; `start_agent` and `connect_server` (`handshake`, `closing`), the
loop of `AgentdStart`, `run_notify`, `EventForward`, `receive_msg`; a collector
in `SendMSG` with the wait file before it; servers that stop and start; an end of
agentd at any step. Time is the two ages that the code compares with its limits.
A message of the server that `ReadSecMSG` refuses, or a piece of a file that is
not open, is a `Refused` one: it is read and does not set `available_server`.

**LogReaders** models what one call of nine readers does with the strings
`fgets` finds, as a function of the piece reached: a piece is what one write
added, a line or part of one. `Cache` is the cache of `read_audit`, `HasRoom` the
room in the buffers of the others, `Stale` what `read_syslog` may send behind a
string without its newline. **LogCollector** puts a reader into the loop of
`LogCollectorStart`, with the check every `VCHECK_FILES` rounds, over a file
that is written, renamed, replaced, put back, cut, or has a new name each day.
`SendMSG` may refuse any message of a call, which loses it (`refused`); the queue
is then opened anew, or the program ends within the call (`QueueFatal`).

**AlertQueue** is the alert log: analysisd's `OS_GetLogLocation` and `OS_Log` at
one end, `Read_FileMon` and `GetAlertData` at the other, each with a day of its
own. **Maild** is the loop of `OS_Run` around it: the list and its
`_memoryused`, `gran_set`, the saved mail, the mails of the hour, the children.

**SyscheckDB** is the database file of one agent and `DB_Search` on it, write by
write; **Syscheckd** the scans, notifications and hash table of the agent, over
files that change at any step and a wire that may lose reports.

**Execd** models the loop of `os_execd/execd.c` between two `select()`s: the
walk of `timeout_list`, the request, `repeated_hash`, the scripts as child
processes that end in any order, and `execd_shutdown`, which a
signal starts at any point of the loop. `host` counts the rules the
scripts have put in force (from `active-response/firewall-drop.sh`).

**EventMemory** models the memory of `analysisd` and the rules that count
earlier events. `event` holds every event that raised an alert; `memory` and
`lists` hold positions in it, as the C lists hold pointers. `ReceiveSingle` and
`ReceiveCounted` are the walk through the rule tree (`Tried` names the counting
rules met on the way), the searches and the marks; `OS_AddEvent` adds the event
to the lists and the memory; `RemoveOldest` is one turn of the eviction loop
with `Free_Eventinfo`.

**RuleTree** models what those constants come from. A step of `Read` is one
`<rule>` element through the whole loop of `Rules_OP_ReadRules`: a template
(`ReadTemplate`), a child below every parent it finds (`ReadChild`), an
overwriting (`Overwrite`) or the end of analysisd (`Refuse`), with the active
responses (`Rule_AddAR`, which binds none to a rule with the option `no_ar`) and the marks (`Mark`) that go with it; `SetLevels` is
`_setlevels`. `OS_CheckIfRuleMatch` and `OS_ReadMSG` are the walk, as functions
of the rules whose own conditions an event meets. `TakenByTemplates` is the same
decision by a relation between rules, without nodes, that `WalkIsByRules`
compares it with. **Analysisd** joins the two: `Start` reads rules in any
order, and when they are those of `File`, `Events` is EventMemory; `MemoryIsOfTree`
says that `Tried`, `SidOf`, `GroupsOf` and `Searched` are what the tree gives.
**MCAnalysisd** has the rules.

## The runs

| Run | Result | What it shows |
|---|---|---|
| `agentconn` (`AgentConn.cfg`) | holds | agentd, two servers that stop and start, a network that loses and brings what does not count, a collector, and an end and restart of agentd at any step, also between its queue and its wait file: the handshake finds a server that runs, the collectors are held back while it looks and released after, and the loop serves both sides however busy one of them is. Checks `ConnInv`, `MissesOnlySilentOrUnread`, `CollectorsReleased`, `InboxIsRead`. |
| `maild` (`Maild.cfg`) | holds | analysisd writes three alerts over three days, whole or in halves, and maild follows the log, groups the mails and sends them by children that exit or are killed: where every alert goes, what the list may hold, whom a mail reaches and what do_not_group is worth. Checks `MailInv`, `MatchedAreServed`, `AloneUnlessFirstOrLast`, `NoMailWaitsForEver`. |
| `controlmsg` (`ControlMsg.cfg`) | holds | The receiving and the waiting thread of remoted over three agents that never stop sending keep-alives: no lost announcement as far as the lock goes, only an overtaken one can be slept on, and as long as keep-alives come each is read in the end. Checks `ThreadsInv`, `OverlookedOnlyIfOvertaken`, `EveryChangeIsRead`. |
| `analysisd` (`Analysisd.cfg`) | holds | Every order of reading up to seven of fifteen rules into the tree, and for one file six alerts from two sources through a memory of four: each rule ends where its parents, its level and the order of reading say, the lists get the events they should, no list keeps a freed event, alerts rest on enough recent events (up to an event that counts once for each node of its rule), and none is used twice. Checks `RulesInv`, `MemoryIsOfTree`, `WalkIsByRules`, `ListsInv`, `AlertIsEarned`, `AlertsShareNoEvidence`. |
| `execd` (`Execd.cfg`) | holds | Four requests for three commands on one address, with timeouts and repeated offenders, scripts that end in any order and SIGTERM at any point of the loop: between rounds the list is the exact account of what is in force, blocks end, and a shutdown undoes all but what its signal or an overtaken script leaves. Checks `AccountInv`, `ShutdownUndoesAll`, `TermsEscalate`, `EveryBlockEnds`. |
| `integrity` (`Syscheckd.cfg`) | holds | Two files, one of which changes up to four times under the scans and notifications, with two reports lost, crashes of analysisd or restarts of syscheckd in any order: what the integrity database holds, which changes raise an alert, and where the database ends when the files rest. Checks `DatabaseInv`, `SilentOnlyIfCut`, `DatabaseSettles`. |
| `remotedkeys` (`RemotedKeys.cfg`) | holds | Three threads of remoted over two hosts (one found by address) while an administrator removes and adds agents: what is sent reaches its addressee across reloads, the reload misses nothing but an edit in the second of the date, and a new agent is heard without a restart. Checks `KeysInv`, `FileMovedOnlyByRemoval`, `NewAgentIsHeard`. |
| `enrolment` (`Enrolment.cfg`) | holds | Two administrators add, extract and remove keys with dialogues that interleave, and three clients connect over two sockets to authd with a pool of two, where forks may fail: what a tool checked may be stale only towards lines it had not seen, and the pool accounts for every child. Checks `EnrolmentInv`, `SharedOnlyUnseen`, `LinesKeepTheirId`. |
| `enrolment_refused` (`EnrolmentRefused.cfg`) | *violated* | A request written as agent-auth writes it, with a valid name, is refused by authd: it skips nine of the thirteen characters before the name. Checks `ProperRequestIsServed`. |
| `logcollector` (`LogCollector.cfg`) | holds | Seven kinds of reader over a log of three lines, one of which may be long, written in two parts or too long for what is left of a buffer, while the file is renamed, replaced, put back, truncated, or has a new name for a new day, and while a message may be refused by the queue, which may end the program: which lines are sent, how often, what may be lost, and that in the end the open file is read to its end and a file put in the place of the log is opened. Checks `ReaderInv`, `SentOnceInOrder`, `ReadsToTheEnd`, `ReplacementIsOpened`. |
| `secmsg` (`SecMsg.cfg`) | holds | One peer of this release and one of an older release, counters that wrap after two messages, a network that loses, duplicates, delays and reorders, and every mix of exits and crashes at both ends: a session delivers in order and at most once, and the counter files recover what the comments promise. Checks `CountersInv`, `StoredIsBarrier`, `InOrderOnce`. |
| `sharedfiles` (`SharedFiles.cfg`) | holds | Two edits of the shared directory, files of two pieces, and up to two faults (a lost message, a refused send, an exit or a crash of the agent that takes its counter back over up to eight messages) anywhere: the agent only unpacks whole versions, goes back to an older one only after a restart that lets its header through again, and ends on the current one unless an exit left it whole and not unpacked. Checks `TransferInv`, `NeverRollsBack`, `Converges`. |

A run marked *violated* checks one sentence of the repository against the code;
see [findings](#findings).

## Bounds

* `SecMsg.cfg`: two peers, one of each message format, because the format
  decides whether the counter is stored and both share `rcv_count`; `MaxLocal` 2
  so that the local counter wraps within five messages (`MaxSent`), the wrap
  being where `Succ` changes branch; `RecvFlush` 2, the smallest interval in
  which an accepted message is not stored.
* `ControlMsg.cfg`: three agents, the least with an agent before, at and after
  the scan; two contents, so that a message can be replaced by a new one while
  the old one is answered; no bound on keep-alives.
* `SharedFiles.cfg`: two edits, so that a transfer can be overtaken by a newer
  one; two pieces, so that a prefix is not whole; two faults of any kinds; five
  messages in flight, one more than a transfer, so that two transfers overlap; a
  counter that falls back over up to eight messages (`Window`), two whole
  transfers, so that the older of the two can be unpacked again after the newer
  one (it is: without its hypothesis `NeverRollsBack` is violated).
* `RemotedKeys.cfg`: two hosts, one found by its fixed address and one by its
  id, two lines in the file: enough for a removal that moves the other agent to
  its index, and for an agent registered anew. One reload can overlap another
  thread's send at each of its five steps.
* `Enrolment.cfg`: two tools and three lines, so that two dialogues cross; three
  clients at two sockets against a pool of two, so that the pool is full, within
  one round or over several, with children, failed forks or both. Hosts, tools and
  clients are alike (`HostsAreAlike`).
* `AgentConn.cfg`: two servers; the ages count to 2 and 1, the least that keeps
  the order of the notify and the reconnect time; queues of two and one; one
  fault of the network or a server (a stop, a start, a loss, or a message that
  does not count), two starts of agentd, one active response. The wait file may
  be there before the first start.
* `LogCollector.cfg`: three lines, one of which may be long or written in two
  parts or have no room in the buffer (`Wide`), two inodes, one truncation, two
  days, and seven of the nine readers (the others share their loops); a check
  every round; a cache of two lines, so that three lines of an event fill it; one
  message refused at any time (`MaxRefused`).
* `Maild.cfg`: three alerts over three days, so that a reader may pass over the
  file of a whole day, in orders and kinds chosen in `MCMaild` (unmailed, plain,
  `do_not_group`, `do_not_delay`); a list of one, two with the uncounted mail; one
  killed child allowed; three mails an hour.
* `Syscheckd.cfg`: one file that changes up to four times, the number of changes
  after which it is ignored, and one that does not; two mishaps (a lost report, a
  crash of analysisd, a restart of syscheckd).
* `Execd.cfg`: three commands on one address (two with a timeout, one without),
  four requests until time 2, the clock to 6, which lets the longest timeout
  after the last request run out; two repeated-offender timeouts, so that the
  last one is met twice.
* `Analysisd.cfg`: any seven of fifteen rules in any order; among them a rule with
  two parents, one that names a parent twice, one that asks for an if_level of
  0 and may be read again with a parent, a group and a rule that are counted, one counted rule that belongs to the
  group it counts, and two overwritings. Seven are needed for the file whose
  events follow. Then a memory of three (four with the uncounted node) and a
  batch of two against six alerts, so that an eviction is followed by new events
  that are searched; a clock to 4, past the shortest timeframe and the ignore
  time; two sources, interchangeable (`SourceSymmetry`: no property or constant
  tells them apart).

## Fairness

* `ControlMsg`: weak fairness of the waiting thread and of the second half of
  a save (both threads are scheduled by the kernel and hold locks briefly);
  strong fairness of each agent's keep-alive, because agents send one every
  `NOTIFY_TIME` for as long as they live and the receiving thread, busy or not,
  gets back to `recvfrom`. `EveryChangeIsRead` depends on it, see
  [observations](#observations).
* `SharedFiles`: weak fairness of the steps of both ends, strong fairness of the
  refresh, which the loop makes whenever its interval is over and no answer is
  being sent. Losses are bounded by `MaxFaults`: liveness is claimed for what
  happens once faults stop.
* `RemotedKeys`: strong fairness of each thread and of each host's messages. A
  mutex that is released again and again is obtained in the end: between two
  sections each thread waits for the network, a file or the queue. Nothing is
  assumed of the administrator.
* `AgentConn`: agentd and a collector in the middle of sending run; time passes
  while events are forwarded; a server that is asked again and again answers in
  time at some point (the agent waits 21 seconds and more for it).
* `LogCollector`: the loop goes on until the program ends. Nothing is assumed of
  writers, rotation and the queue.
* `Maild`: maild, its children and the clock run, and `fork` does not fail for
  ever. Nothing is assumed of analysisd.
* `Syscheckd`: the checker goes on scanning, analysisd reads its queue.
* `Execd`: the loop runs (its `select()` has a timeout), scripts end, time
  passes. Nothing is assumed of requests or signals.

## Proofs

`tlapm` checks every proof from nothing. Every invariant and action property of
a run is a theorem, for all values of the constants, but for these, which TLC alone
checks:

* liveness, which needs fairness and `ENABLED`;
* `MemoryIsOfTree` (Analysisd): it compares two sets of constants, those of the rules
  read and those of the rules as EventMemory knows them, and so is about the
  instance of the run;
* the run that refutes something.

What a proof is from is named in the module it is about: an ASSUME on the
constants, which TLC evaluates for the instance of the run. `BoundsAssumption`
(SharedFiles, EventMemory), `NoFileAssumption` (Syscheckd) and that `Formats` is a
sequence (Maild) say only what kind of value a constant is; `CollectorAssumption`
adds that the formats are among those LogReaders knows. ManagerProofs,
ConnectionProofs and HostProofs are about more than one specification each, so
that those of ControlMsg, AgentConn, Enrolment and LogCollector are named after
their module (`ControlSpec`, `AgentSpec`, `EnrolSpec`, `CollectorSpec`).

The inductive invariants were checked by TLC on small instances before they were
proved.

*SecMsg* (in ConnectionProofs), for any peers, any mix of formats, any wrap
(`MaxLocal`), flush interval and bound on the messages. Assumptions: those named
in the module, no more. `IInv` strengthens the three properties with what
relates the parts: every datagram's counter is at most the sender's and its
number at most `sent`; the counters of one peer's datagrams grow with their
numbers; what the receiver saved is the counter of a datagram of that peer (or
none); the file is not ahead of its buffer, the buffer not ahead of `saved`; the
sender's file is at most one message behind. The last is what a crash needs:
`SenderCrash` returns to `disk`, and the next counter after it is at least the
one lost. `AcceptedIsNewest` then gives the refinement: an accepted datagram is
newer than the saved counter, so its number exceeds `last`, and `Deliver` of
OrderedChannel is enabled; sends map to `Create`, starts to `NewSession` or a
stutter.

*ControlMsg* (in ManagerProofs), for any number of agents and messages.
`ThreadsIInv` adds to `ThreadsInv`: while the scan is running, a changed agent
that the scan has passed and no announcement covers (`modified = -1` or smaller)
has an index below `newest`. `OvertakenOnly` is the exact extent of the delay
described under [observations](#observations).


*AgentConn* (in ConnectionProofs), for any servers, limits, numbers of attempts
and queue sizes. `AgentIInv` adds to the types three facts. `CollectorHeld`: while agentd
is away the wait file exists, and the collector that slipped an event past it is
no longer sending; this needs the file to be made before the handshake begins
and removed only after it. `Losses`: an event lost to a queue nobody reads is
counted against the start of agentd the collector was connected to, and that
start is over. `Ages`: outside the handshake, with nothing that counts unread,
agentd believes the server silent for no longer than it is. `CollectorsCorrect` is then
`ConnInv`, and `LeavesOnlySilent` follows because a server is left only in
`run_notify`, either with all that counts read, where `Ages` applies, or with
some of it still in the socket.

*Execd* (in HostProofs), for any requests, timeouts and bounds. `ListIsAccount` speaks of the
moments between two requests; `Account` says the same of every step of the loop
while execd runs: the list is right but for the entry whose "delete" has just
been started and the request whose "add" has. `Place` says where the loop then
is: the node is in the list, and the request being added is not yet. The types
rest on a lemma on the removal of one element of a sequence.
`OffendersWaitLonger` assumes `Ascending`, that the configured
`repeated_offenders` do not decrease and none is below the timeout of a command;
without it the code may shorten a block. Its invariant `Terms` ties an
offender's count to its last timeout and every entry to that timeout.
`ShutdownUndoes` needs to know what the scripts still running will do, in
whatever order they end. `Balance` is the number of "add" less that of "delete"
among the first scripts of the sequence, counted as sets of their places, so
that no fold and no induction is needed. `ScriptsSettle` says, for each request
not in `stray`: while execd runs, what is in force and the balance of all
scripts together make the number of recorded blocks, and no prefix of the
scripts takes what is in force below zero; once execd is gone the sum is at most
zero, and behind a prefix that does go below zero there is no "add". Taking a
script out of the middle keeps this unless it is the "delete" that overtakes,
which puts the request in `stray`.

*RemotedKeys*, for any hosts, any `MaxLines` and any interleaving of the three threads
with the administrator. Assumptions: the kinds of values differ (`KindsAssumption`,
`NoneAssumption`). `IInv` is what the code relies on and nowhere says: the two
mutexes are held exactly at the steps of the reload and of the active-response
thread (`Locks`); what a thread has in hand still fits the entries (`Main`, `Ar`,
`Wait`, `Saved`), which a growing file never disturbs because a line keeps its
name and its id (`Grows`); ids are at most the number of their line, so the id
offered always fits. The reload is exact because the order of a finite set of
numbers is onto its size (`RankOnto`, by the pigeonhole facts of the library, not
by induction). `FilesStayWithoutRemoval` adds that entry `i` is on line `i` exactly
when no line up to `i` is removed.

*SharedFiles* (in ManagerProofs), for any number of pieces, edits and faults, any
capacity of the channel and any distance between the stored counter and the one in
memory. Above the stored counter the versions of the headers are in order and not
newer than the manager's (`HeadersInOrder`); what the agent is about to unpack, and
what a header still to come announces, is not older than what it has, or the agent
has been started since and the header was let through again (`MayFollow`,
`TransferMayFollow`, `HeadersMayFollow`). That is why the older of two overlapping
transfers cannot win within a session, whatever is lost. What is unpacked has the
sum announced, and that is the sum of a version only for that version, whole
(`SumOfWhole`), in whatever order the pieces came.

*Enrolment* (in ConnectionProofs), for any number of tools, clients and hosts, any pool and any length of
`client.keys`. Ids are given in the order of the lines, at most the number of
their line (`FileInv`); what a tool is about to add is new among the lines it had
seen when it chose (`NewAmongSeen`), and what it is about to overwrite or read is a
line with the id it searched for (`LineOfId`), which stays so because lines are
never moved. `AuthdInv` gives each child one place in the pool (`OnePlace`) and each
not waited for a place (`Waited`), which a -1 in another place does not take away
when it collects the child; `Looked`, for every place that authd's look has
passed, says the child there was alive when the look began. `LinesAreKept` is a
property of the steps.

*LogCollector* (in HostProofs), for any number of files and lines, any lines written
in parts, any truncations, any messages refused, any size of the cache, and each of
the seven kinds of reader. A call of a
reader is a recursive function; that it satisfies its equation is shown as for
RuleTree, and `RoundsKept` then carries `Kept` from piece to piece: the messages
sent and what is gathered lie in what was read, in its order (`Core`), and each
piece read is sent, gathered or one the reader may pass over. There is one lemma
for each reader (`SyslogStep` to `MultilineStep`), and `ReadIs` is all the rest
needs of them. `CollectorIInv` is the inductive invariant. `InFiles`: the files
hold the lines in the order they were written, so that all of an older file lies
before all of a newer one, and only the newest ends within a line. `Names`: what
the name of the log leads to is never older than the file that is open or was
last; the clauses differ for a dated log, where the name of yesterday still
leads to yesterday's file. From these two comes the order across a rotation: all
that was sent lies before all that a file opened anew at its beginning holds
(`Ordered`). A check reads nothing, so that what is ahead of the reader then must
have come since the round before (the last clause of `Accounted`): that is what
closing the file costs, and no more. A truncation that was not noticed may leave
the position past the end of the file; until it is noticed all the file holds is
excused, and none of it is sent twice or out of order. `CacheStep` carries the
number of lines gathered of the event in hand, so that what a full cache drops is
behind as many lines of its event (`BeyondCache`). Messages are given to the queue
by `SendIs`, whole calls (`ReadingPollStep`) or the beginning of one that the end
of the program cuts short (`QueueFatalStep`), after which nothing is claimed of
what lies ahead. `StaleLemma` says that the stale text of a call is of an earlier
message: all that was sent lies before what is ahead. `SizesAre` bounds the
length of a file, a piece for each line and one for each split one.

*Syscheckd*, for any files, checksums, marks and mishaps. `Lines`: a file has one line
in the database and the line says what its alerts said, unless analysisd is between
its two writes or was killed there (`Missing`); `Between`: the line about to be
written counts the alert about to be raised. `SilentOnlyIfCut` follows, since a
line is replaced only by way of the first write.

*Maild*, for any alerts, days, recipients, formats and limits.
`EveryAlertAccounted` is far from inductive. It needs the order of three ideas
of the day (`rday <= today <= day`) and that a file belongs to a day that has
come, so that an alert written behind the reader is excused and one written
before it is unread (`LogInv`); that the reader is inside its file, and inside
an alert only if that one is excused already (`ReaderInv`); and that what maild
keeps are mails, each once, no two children sharing one (`KeptInv`). `OnePlace`
states the place of an alert without counting; each step leaves it (`Stays`) or
moves it from one place to another (`Moves`). The attempt found an error in the
model: with more than two days, a reader that was held up passes over the file
of a whole day, and its alerts were in no place (see
[observations](#observations)). `UsedFallsBehind` gives the bound of the list.
`ServedInv` ties `gran_set` to the list it is for; `AloneInv` says where a mail
of `do_not_group` may meet others: alone in the list until it is sent, unless it
is the first in its hour or the mails of the hour are used up.


*EventMemory*, for any memory at least as large as a batch, any batch, any
clock, any sources and any rules among which one has the largest frequency
(`MaxFreqAssumption`; there are finitely many and one at least):
`MemoryBounded`. `IInv` adds that `memoryused` is the length of the memory less
one, because the C code does not count the first node, and a balance: during an
eviction the memory and what was removed make `MemoryMax + 2`, and the newest
node is the event that started it. That event survives because, when it alone is
left, more than a batch is gone (`Batch <= MemoryMax`) and its own age is 0,
which is not more than any frequency. `ListsFollow` rests on `Shadow`: the
memory is the last events without a gap, so the oldest node of the memory is
also the oldest of every list its rule is in, and dropping one from each list is
dropping that event's. For `AlertsAreEarned` the walk of a search is counted
from the newest node: the evidence is the nodes met, and one less would not do.
`AlertsShareNothing` needs what the C code relies on and does not say: it marks
only some of the events of an alert, but the marked ones include the newest of
the list walked, whether it was counted or not. The search of a rule stops at a
mark not below its level, and marks only rise (`Grows`); so every later search
on that list, by a rule of a level not higher, ends before it reaches the
evidence (`Guarded`).

*RuleTree* (in RuleTreeProofs), for any rules an XML file may hold (`Element`), any
categories and active responses, any number of rules read and any tree. The
model is full of recursive functions: the path above a node, the nodes a search
finds, the tree after each `if_sid`, the level after each node has been set back, the
walk itself. That such a function satisfies its equation is not free. It is shown,
for each, by induction in the form of a fact on sets (`UpTo`, `DownFrom`: a set of
numbers that holds the first and the successor of each of its members holds all),
applied to the numbers for which some function up to there exists and any two
agree. What follows is about one step of the recursion only.

`TreeCore` is the inductive invariant of reading. `Shape`: nodes are numbered
as they are made, each once in the list of its parent, which was made before it.
`ReadBefore`: the rules a rule asked for were read before it, so that no rule is
above itself and the relation between rules has no circle. `NodesAsked`: a node is
below a node of a rule its own asked for, and a template has one node.
`Covered` is the heart of it: for a rule that asked for rule `s`, each node of
`s` has a child for it, or is behind (or below a node that is behind) a sibling of
the same rule, where the search that stops at the first sibling never came. The walk
does not come there either unless the earlier sibling has taken nothing, and
then the later one takes nothing: that is the argument of `WalkDecidesByRules`,
by induction over the nodes from the last to the first, comparing the first child
that takes the event (`NothingTaken`, `ReachedTakes`) with the foremost rule by
`TriedBefore`. It needs the siblings in the order of level and reading (`InOrder`),
which holds because a new node goes behind those of its level (`GrowthKeepsOrder`),
as long as the levels in the tree are those the rules were placed by
(`LevelsPlaced`); overwriting ends that, and `LevelsKept` is the condition.
`TreeIsSound` adds `LastHolds`, which points to the last definition of each rule
for its level, its groups and its responses, and `MarksHold`, the number of marks of
a list for each counting rule, kept by counting what is appended.
`EventsFollowMemory` says that analysisd with its tree implements the
specification of EventMemory, so that what is proved of the one holds of the other.

## Findings

* `src/src/os_auth/main-server.c:489` (a defect, run `enrolment_refused`): authd looks for "openarmor A:'" with strncmp(.., 9) and skips nine characters, the length of the header before the program was renamed; agentname is then " A:", which OS_IsValidName refuses for its space, so no agent is ever enrolled. The comment at src/src/os_auth/main-server.c:487 says "Checking for action A (add agent)" and the client sends exactly that (src/src/os_auth/main-client.c:318: "openarmor A:'%s'\n"). The password header (main-server.c:467, twelve of sixteen) and the answer (main-client.c:343, nine of thirteen) are cut in the same way.

## Observations

What the code does and a reader might not expect. No run fails over these: the
properties name them as exceptions, or the text here says where they show.

* `remoted/manager.c:493`: taking the message of agent *i* resets
  `modified_agentid` for all agents up to *i*, also those announced after the
  scan passed them. The thread then sleeps with their changes marked, until any
  agent sends something. `OverlookedOnlyIfOvertaken` is the exact extent, and
  `EveryChangeIsRead` holds because keep-alives go on.
* `client-agent/receiver.c:171`: `merged.mg` is unpacked only by the close
  message of the same run of the agent. An agent stopped by a signal after the
  last piece leaves it whole and not unpacked (`stranded`), and its sum tells
  the manager that nothing is to be sent until the next edit. The other way
  there is two transfers run together that happen to make a whole file.
* `os_execd/execd.c:452`: the script is started some forty lines before its
  entry is recorded, and `execd_shutdown` may run in between; and a "delete"
  may overtake the "add" started just before it, since nothing waits for a
  script. Either leaves a block for good: `stray` in Execd.
* `os_execd/execd.c:402`: the list is searched by command and address, not by
  user; a command that acts on users gets "-" as address, so all users are one
  target, and the second is passed over.
* `os_crypto/shared/msgs.c:264`: the receiving counter is stored once every
  `recv_counter_flush` messages of all peers together, and never for the old
  format: after a restart of the receiver a message accepted before it is
  accepted again. `StoredIsBarrier` is what does hold; OrderedChannel promises
  its order per session only.
* `analysisd/eventinfo_list.c:79`: an overflow of the memory goes on removing
  events whose age in seconds exceeds the largest *frequency*, a number of
  events, and so forgets events that rules with a long timeframe still need.
* `analysisd/analysisd.c:1018`: an event goes to the lists of its groups only if
  its rule has no list of its own; a rule named by some `if_matched_sid` is not
  counted by any `if_matched_group`.
* `analysisd/rules_list.c:380`: `OS_MarkGroup` adds the list of a counting rule once
  for each *node* of a rule, so that one event of a rule with two parents is two
  in that list, and fewer events than `frequency` raise the alert. Rules 40111 and
  40113 of `etc/rules/attack_rules.xml` count groups whose rules may have several
  nodes. `Copies` in EventMemory is the exact extent.
* `analysisd/rules_list.c:281`: an overwriting changes the level of a rule and
  not its place, although `doc/rules.txt:15` says "The rules will be read from
  the highest to the lowest level"; `LevelsKept` excepts it. Nor does it set
  `event_search`: a rule overwritten to count others matches every event its
  conditions fit.
* `analysisd/rules_list.c:171`: a rule with an `if_level` that is not a number is
  reported and left out of the tree, and the reading goes on: its id is free
  again and may be read once more. `analysisd/rules_list.c:99`: a rule without
  parents goes below the first template of its category in the order of levels,
  and below no other.
* `analysisd/rules.c:300`: level 0 becomes 99 and is set back only from 9900: a
  rule of level 0 with accuracy 0 alerts at level 99 (`DefinitionsHold`). An
  `if_level` finds rules of level 0, too, while the rules are read.
* `remoted/sendmsg.c:109`: a piece of a shared file that begins with NUL makes
  `send_msg` return with `sendmsg_mutex` held; `NewAgentIsHeard` excepts it.
* `remoted/secure.c:139`: an agent registered anew under its old fixed address
  finds its old entry; the keys are read again only when a lookup fails.
* `logcollector/read_syslog.c:34`: `strchr(str, '\0')` is never NULL, so the
  branches for long and unfinished lines are never taken; its NUL is overwritten
  instead, and what `str` held of a longer string is sent behind it (`Stale`).
  A message that `SendMSG` gives up is not sent again over the queue that is
  opened anew; a full cache of `read_audit` and a full buffer of the readers of
  several lines drop the line. `read_audit` sends
  events again while a line is unfinished; a file given up whose name is made
  from the date is opened at its beginning at every check.
* `os_maild/os_maild_client.c:316`: SMS mails are composed and never sent. The
  format of a mail is that of the last recipient it matches; `do_not_group`
  mails go out with others when `mailtosend` is 0 or at its limit
  (`AloneUnlessFirstOrLast`); `_memoryused` drifts by one with each batch
  (`UsedFallsBehind`); `n_errs` is never reset, so seven children killed
  in the life of maild end it (one whose dialogue fails exits with 0);
  MAXCHILDPROCESS holds back only the mails of a new hour.
* `shared/file-queue.c:160`: on a new day the readers go to the end of the new
  file: alerts already there, and those still written to the old one, are never
  mailed; nor is the file of a day that passes while the reader has more to read
  or does not run, since it goes from the day it was at to the current one
  (`excused` in AlertQueue).
* `syscheckd/create_db.c:238`: the hash table keeps the first checksum for ever,
  so a change back to it is not reported and the database stays wrong
  (`Agrees`); deletions are noticed only through inotify or a race, since scans
  ask `readdir`. `analysisd/decoders/syscheck.c:379`: a crash between the # and
  the new line loses the entry, and the change reported again looks new. A file
  is ignored after three alerts, its deletion included.

## What is not modelled

* Readers of the alert log: Following the file over the days and over half-written alerts. The fields of an alert are not modelled, nor reading from standard input.
* Alert output of analysisd: The alert log and its file for each day. Not modelled: the other logs, which nobody in the system reads, the JSON output and the text of an alert.
* Event memory and correlation: The memory, the lists of rules and groups, the three searches, the level and ignore-time tests of OS_ReadMSG and the eviction. Matching one event with one rule is a choice; rules below a counting rule, and rule->last_events, are not modelled.
* Active responses on a host (execd): The loop of ExecdStart, the timeout list, repeated offenders, the scripts as processes and execd_shutdown. Not modelled: re-reading ar.conf for an unknown name, requests with too few arguments, the Windows build (win_execd.c).
* Active-response scripts: Only what Execd needs: "add" puts one rule in force, "delete" removes one. Locks and retries of the scripts are not modelled.
* Integrity database of analysisd: One agent: search, comment, append, marks, crash. Not modelled: the table of open files of all agents, the texts of the alerts, the mark of a completed database, which nothing reads.
* Integrity checker of the agent: Scans, notifications, the hash table and the reports. Not modelled: options and restrictions of directories, the diffs of seechanges.c, the registry.
* Enrolment: Adding, extracting, removing by hand, the pool of authd (several sockets in a round, failed forks) and the request it refuses. Not modelled: OS_AddNewAgent and OS_RemoveAgent (nothing reaches the first, the second needs an environment variable), SSL, the import on the agent beyond its effect.
* Log collector: The loop over one file, its opening, rotation and giving up, nine of the readers, the messages the queue refuses and the end of the program that follows. Not modelled: commands, the journal, nmap and alert files, read errors, a message that is itself longer than a buffer (read_multiline and read_audit cut it), the start after ErrorExit, Windows.
* Key store: Only what a reload does to the counters (OS_UpdateKeys). Parsing of client.keys and the lookups by id, name and address are left to a later module.
* Shared configuration files: The transfer of merged.mg from c_files to UnmergeFiles, with losses, refused sends, restarts of the agent and messages that its stored counter lets through again. Agents that list single files instead of merged.mg (read_controlmsg from line 388) and the text format of the merged file (MergeAppendFile, UnmergeFiles) are not modelled.
* Rule tree: Reading the rules one by one: places, levels, overwriting, active responses, marks and searches; the walk for an event. The syntax of the elements is left out, as are the conditions of a rule on the event itself (an event is the set of the rules whose conditions it meets), lists for lookups, last_events and check_diff, and templates that are overwritten.
* Decoders: Text matching over one event at a time, no state between events apart from the order of fields. Nothing for a model checker.
* First time seen, accumulator, statistics: Sets of values and counters per hour; fixed-size lists with eviction. Planned with the containers.
* Active response of analysisd: Configuration and the composition of the request line. The requests are the input of Execd.
* Syslog, database and report output: Each alert is formatted and handed to a socket, a database or a report; the part with state is the reader of the alert log above.
* Monitor daemon: Once a day: rotate, compress and sign logs, report disconnected agents. Sequential; planned last.
* Rootkit checks: Independent checks of the host, no state of their own; a model would restate the operating system.
* Agentless monitoring: Runs scripts in turn and compares their output. Planned last.
* Syslog receiver of remoted: Each line of a permitted address goes to the queue; no state.
* Containers: Linked list, hash table and sorted store. Used through what they return; planned as pure algorithms against sequences and functions.
* Configuration: Reading of openarmor.conf at start-up: string processing, no behaviour over time.
* Networking and local queues: Thin wrappers of system calls; a lost or refused message is a choice in the modules that send.
* Regular expressions and XML: Pure functions of strings, better served by their unit tests.
* Encryption and compression: Assumed correct: in the models a message is readable with the right key and no other.
* Command line tools: Each prints or removes files once.
* Windows agent: A build of its own, with copies of the agent and of execd in one process; the Unix build is modelled.
* Vendored libraries and contributions: Third-party code and packaging, not part of the programs.

In the modelled parts: parsing and formatting of messages and files; the
cryptography, which is assumed to work; memory exhaustion and other fatal
errors, which end the daemon. ControlMsg does not follow the threads into
`send_msg` (RemotedKeys does); SharedFiles has one agent and one file; Execd
does not re-read `ar.conf`; Maild takes grouping to be on. LogCollector leaves
out that `read_multiline` and the sending of an audit event cut a message longer
than its buffer, bytes behind an unfinished string that are no text of the file
(the stack of other functions), the notices about rotations, and the start after
an `ErrorExit`, which begins at the end of the file.

## Plan

Done, in the order of the hazards: OrderedChannel, SecMsg, ControlMsg with
proofs; EventMemory with the bound of its memory proved; Execd, AgentConn and
RemotedKeys (on ClientKeys) with proofs; SharedFiles, Enrolment, LogReaders with
LogCollector, AlertQueue with Maild, SyscheckDB with Syscheckd;
RuleTree and, around it and EventMemory, Analysisd.

1. Agent and manager together: SharedFiles over the abstract channel of
   OrderedChannel in place of its own queue; the start of the log collectors in
   AgentConn joined with LogCollector.
2. Accumulator, FTS and the statistics of analysisd; OSList, OSHash and OSStore
   against sequences, functions and sets.
3. monitord: rotation of the logs under the readers of AlertQueue.

Theorems: all invariants and action properties of the runs are proved but
`MemoryIsOfTree` (see [proofs](#proofs)).
