# MeshAgent: a TLA+ verification project

MeshAgent is the agent of MeshCentral: a C program that keeps a control channel
to a server, runs a JavaScript core that the server sends it, and gives that
core sockets, processes, files and a small database. This directory holds
specifications of its parts, the TLC configurations that check them and the
TLAPS proofs about them. Line numbers are those of the repository beside which
this directory is kept; the POSIX build is the one modelled.

`tlc -config X.cfg M` runs a check, `tlapm M_proofs.tla` checks proofs.
PROJECT.json lists the runs, the mutants that show that each property can fail,
the lines that each definition stands for, the hazards and the theorems.

## 1. Inventory

Almost everything runs on one thread. The chain (microstack/ILibParsers.c) is a
select loop that fires timers and calls the handlers of its links; a handler
runs to its end, and the script engine runs inside handlers. So shared state is
changed by one handler at a time. What is hard is the *order* of handlers,
timers that outlive what they were armed for, pointers kept across the end of
what they point to, calls that come back into their caller, and files that are
partly written when the process ends.

| Component | State it keeps | Operations | Interacts with | What makes it correct |
|---|---|---|---|---|
| Agent database, microstack/ILibSimpleDataStore.c | append-only file, keyTable, cacheTable, dirtySize | Create, Close, Put, PutCompressed, Get, Delete, Compact | everyone who keeps a setting, a certificate or the core | a Get returns the last acknowledged Put, across compactions, crashes and write errors |
| Control channel, meshcore/agentcore.c 2748-3187, 3643-4600 | serverConnectionState, serverAuthState, controlChannel, retryTime, nonces, four timers | connect, retry, proxy lookup, multicast answer, change of address, authentication, ping and pong | web client, timers, database, core | it always tries again, only the server is authenticated, timers act on what they were armed for |
| Message reassembly, microstack/ILibWebClient.c 1397-1475, agentcore.c 3692-3782 | two buffers, their sizes, two flags | a frame arrives, a piece is handed up, a connection starts or ends | web client, control channel | a message is processed once, whole, or not at all |
| Core module, agentcore.c 1719-1753, 2564-2601, 3283-3472, 4933-4963, 5674-5755 | "CoreModule" in the database, the script engine, coreTimeout, localScript | start, CoreModule, CoreModuleHash, CoreOk, the 60 s timeout, restartCore | control channel, database, script engine | the stored core runs once, is verified, and runs even when the server is away |
| Self-update, agentcore.c 2856-2990, 3483-3640, 6552-6630 | the file being written, its hash, the executable | start, block, end, unzip, exchange at exit | control channel, database, update-helper.js | the executable is the old or the verified new one, at every instant |
| Server selection and discovery, agentcore.c 608-700, 4112-4282 | serverIndex, proxy flags, multicast key | choose a server, next server, proxy or direct | control channel | every server is tried |
| Timers and chain, microstack/ILibParsers.c | sorted list of timers, links, queued calls | Add, Remove, Check, RunOnMicrostackThread | everyone | a timer fires once, not after its removal, and in order |
| Sockets, microstack/ILibAsync*.c | queue of pending sends, pause flags, TLS state | Send, Pause, Resume, Disconnect | chain, web client, scripts | bytes leave once and in order, OnDisconnect comes once |
| Web client and server, microstack/ILibWebClient.c, ILibWebServer.c | queue of requests per destination, parser state, idle timers | PipelineRequest, Cancel, OnData | sockets, control channel | every request ends with exactly one final callback |
| Processes and pipes, microstack/ILibProcessPipe.c | pipe buffers, pause flags, exit state | spawn, read, write, pause, exit | chain, ChildProcess | no output is lost, exit comes after the last output |
| Script streams and events, microscript/ILibDuktape_*Stream.c, ILibduktape_EventEmitter.c | pipe lists, buffers, listeners | pipe, pause, write, drain, emit, on, once | all script objects | nothing is lost or reordered by pause and resume |
| WebRTC, microstack/ILibWebRTC.c | ICE, DTLS and SCTP state | offers, STUN, retransmission | UDP sockets, scripts | reliable ordered channels |
| Remote desktop, meshcore/KVM | tiles, input state | capture, input | pipes | |
| Script modules, modules/*.js | promises, service and proxy helpers | | script engine | |
| Service and console entry points | | start, stop | operating system | |

Components that are not modelled, and why, are in PROJECT.json; in short:
Duktape, zlib, OpenSSL and the JPEG library are third-party; remote desktop,
machine information and most scripts are calls of the platform; of WebRTC only
the data transfer of SCTP is modelled. The rest is in the plan of section 7.

## 2. Modules and how they correspond to the code

| Module | Models | Checked by | Proved in |
|---|---|---|---|
| SimpleDataStore | the database on disk and in memory | MCSimpleDataStore | SimpleDataStore_proofs |
| KeyValueMap | what the database promises: a map, changed one key at a time | refinement in SimpleDataStore | |
| ControlChannel | connecting, authentication, keep-alive | MCControlChannel | ControlChannel_proofs |
| MessageReassembly | frames to messages | MCMessageReassembly | MessageReassembly_proofs |
| CoreModule | the life of the core module | MCSelfUpdate | CoreModule_proofs |
| SelfUpdate | the update of the executable, composed with CoreModule | MCSelfUpdate | SelfUpdate_proofs |
| ServerSelection | which server an attempt goes to, and through which proxy | MCServerSelection | ServerSelection_proofs |
| Timers | the timers of the chain, its loop and nested loops, another thread | MCTimers | Timers_proofs |
| Sctp | the data transfer of SCTP, one direction between two ends | MCSctp | Sctp_proofs |

SelfUpdate extends CoreModule and its specification conjoins the two: an unzip
lives in the core's script engine, and what stops the core stops it; the
composition is shown to implement CoreModule (UpdateImplementsCore). The other
modules meet at interfaces: ServerSelection says where an attempt goes,
ControlChannel when it is made and when a channel is open and authenticated,
MessageReassembly what is handed to MeshServer_ProcessCommand on it, CoreModule
and SelfUpdate what those messages do. Timers has the contract that the others
rely on: a timer fires once, AddEx removes the timers with its key, a handler
runs to its end unless it waits in ILibChain_Continue. CoreModule relies on the map that KeyValueMap promises and that
SimpleDataStore is shown to implement for keys stored in one form, as
"CoreModule" is (always compressed).

### SimpleDataStore

`file` and `tmp` are the sequences of records of .db and .db.tmp; `table` is
keyTable (an offset is a record number), `cache` is cacheTable, `dirty` is
dirtySize (every value has size 1; only the comparison with the limit matters),
`mode` says how dataFile is open. A value stands for its hash, so two values
never collide. A compressed value lives under a key of its own, so each key has
two slots. A record may be cut off in its header or in its value; how the
reader reacts (it stops, or, for a compressed record, accepts it) is `Stops`
and `Swallows`.

Put, Delete and Compact are split where the process may die between two writes;
`op` is the call in progress. `Faults` chooses what may go wrong. `expect` is a
history variable: the values that a caller may be shown for each key. The
replay of the file is one step (Create). Left out: two legacy record formats,
enumeration, the size limit, and the lock, which its only user takes around
single calls.

### ControlChannel

`conn`, `auth`, `chan`, `retry` are the fields serverConnectionState,
serverAuthState, controlChannel and retryTime. `net` is the web client's
request as the code can tell it apart. `slot` is the timer stored under the key
"agent", a key that the reconnect timer and the heap's timer share; `req` is
the 20 s timer of a request, `pong` the pong timer. Connections are numbered,
and the number is also the nonce drawn for the connection: a nonce is fresh
because it is random. A signature is what was signed; `Signatures` are those
that exist: the server signs what it is asked to, others sign with their own
keys, and old ones may be delivered again.

Each action is a whole handler. MeshServer_ConnectEx is an operator used by the
timer, the proxy's answer, the multicast answer and the change of address, with
its ways out (GiveUp, AskForProxy, SendRequest, NoAddress) as disjuncts.
OnResponse_Complete is what every end of a request leads to. Left out: what the
commands of an authenticated server do (other modules), which server of a list
is chosen, the Windows locks, the self-test.

### MessageReassembly

`ws` is the web client's ILibWebClient_WebSocketState, `part` the agent's
controlChannelPartial* fields. Buffers are sequences of bytes with an allocated
size, so that what a copy writes can be compared with what was allocated. A
frame is a step; the four ways the code takes with it are ReceiveWhole,
ReceiveFits, ReceiveFlush and ReceiveDirect. `sent` and `got` are histories:
the bytes of the present message and the calls of MeshServer_ProcessCommand for
it. The sizes (4096, 65535, 131072 and 64 MB in the code) are constants; int is
wide enough for them and the code compares in 64 bits, so no width is modelled.
Left out: headers and masks of frames, control frames, which touch neither
buffer, and the mode without reassembly, which the control channel never asks
for.

### CoreModule

`engine` is the list of cores launched in the script engine that exists now:
one core per engine is right, two are a core running beside another. `timer` is
the 60 s timeout in that engine; `handle` is coreTimeout, which may be NULL, a
timeout of this heap or one of a destroyed heap. A core is named by its hash.
A core that throws while it is launched counts as launched, as in the code. The
crash between storing a core and comparing its hash is inside one step here and
is listed as a hazard without a property.

### SelfUpdate

`exe`, `upd` and `unz` are the executable, ".update" and ".update_unzipped", each
a sequence of pieces; a piece is a block of an update, a part of what it unzips
to, or junk. `srv` is what the server on this connection sends next, `jobs` are
the unzips under way in the present script engine, `perform` is
performSelfUpdate, and `stage` is where the exchange at the end of
MeshAgent_Start is. Appending a block may leave nothing, a part, or a part and
the block, and report either; the hash is what tells. The exchange is cut at
every point where the process may be killed. `sound` is a history: what may be
installed. Two faults are named in `Faults`, "overlap" (the server begins
another download while one is being unzipped) and "full" (a script's write is
cut short); both are off in the run, see section 3. Left out: Windows, the
settings forceUpdate and fakeUpdate, and how the service is restarted.

### ServerSelection

`serverIndex`, `triedNoProxy`, `proxyServer` and `proxyFailed` are the fields of
those names. The first index comes from a signed random number with C's
remainder, so it may be 0 or negative; ILibParseString_GetResultIndex takes that
for the first entry. `webProxy` is the proxy that is set: none, one that
http.parseUri reads, or one that it throws on (for which neither proxyServer nor
proxyFailed changes, ProxyUnread). `phase` is the rest of the channel as far as the choice
depends on it; `last` is a history of the choice. Names, addresses and the
cached address of a server are left out: that they may fail is in Direct.

### Timers

`list` is ObjectList, `active` ActiveList, `next` NextTriggerTick, `deletes`
DeleteList. `loops` is the stack of loops: ILibStartChain's and those that
callbacks run in ILibChain_Continue, each with its program counter, its local
queue of due timers and the end of its select. The list and the queues are sets
of timers; their order is `Before`, by tick and, for equal ticks, by age, which
is what inserting before the first later timer and moving due timers from the
head of the list keep. Steps are cut where another
thread can come in: where ILibLifeTime_Check and _Remove do not hold a lock, and,
in AddEx4 on the other thread, between the wake-up (OtherInsert) and the update
of NextTriggerTick (OtherCount), because ILibLifeTime_Check reads
NextTriggerTick without the lock of the list. That lock is taken between those
two steps and nowhere else, so `ListFree` is its state. `missed`, a history, is
the timer that a loop has not taken into account when it decided how long to
sleep. The reads of NextTriggerTick in one test are taken for one read, and a
write of its 64 bits for one write. ILibLifeTime_Destroy frees the lists without
waiting for anyone; the model assumes of the program that other threads have
ended their calls by then and begin no new ones (Destroy, MayCall). Time is a number of milliseconds with a short "second", because the clock
the code reads is right about the second and arbitrary within it. `Settings`
chooses nested loops or another thread. Left out: the other links, queued
calls, Windows handles.

### Sctp

The sender's half of a session is `snd` (pending and holding queue, the two
credits, congestion window, threshold, T3-RTX), the receiver's `rcv` (intsn,
userTSN, the hold buffer, the pause flag). A chunk is a number, a packet holds
one chunk, and sizes are real: credits and the hold buffer, which counts lengths
in network byte order, behave as in the code. Time is only the order in which
packets were sent since T3-RTX was started. The loops of the code, over the
pending queue and the hold buffer, are recursive functions whose step is an
operator of its own (ResendOne, GapOne, ResumeOne, PullOne). A SACK carries its
blocks as pairs of TSNs, and `Wire` is what the sender reads from the 16-bit
offsets that stand for them in the packet. The network loses and reorders; it
does not duplicate, because DTLS drops replays, but retransmission makes second
copies. Left out: association set-up and end, streams, partial reliability,
fragmentation, ICE and DTLS, and packets with several DATA chunks: the code may
merge chunks that are sent together (ILibWebRTC.c:3387-3403), and then
acknowledges the first of a packet before it has looked at the others. The
threshold is 4 MTU on both ends, because ILibStun_DTLS_Success sets it (line
5922) before either end sends INIT; line 5212 sets it again.

## 3. Runs

Runs expected to pass:

| Run | Question | Result |
|---|---|---|
| store_crash | Does every acknowledged change survive crashes between and inside writes, in a put, a delete or a compaction? | Yes (ReadYourWrites); the table in memory is what a restart would read (TableIsReplay); compaction ends (CompactReturns); the store implements KeyValueMap (RefinesMap) |
| store_write_error | Can an acknowledged change be lost silently when fwrite fails? | No: a loss has been reported to the error handler (LossReported) |
| store_all_faults | Can Get return another key's value under any mix of faults? | No (NoForeignValue): the hash check catches it. Values may be lost, never confused |
| channel | Is the state true, a retry pending, the back-off bounded, the authentication sound and fresh, the core told the truth? Does the agent try again for ever, and does every attempt end? | Yes; the liveness under the fairness below |
| reassembly | Is every message processed once and whole, or discarded for its size, with nothing left over and no write beyond a buffer? | Yes |
| core_update | Is the stored core launched exactly once or waited for, verified, truly reported, and does it run in the end? Is what is installed always the old executable or all of an update whose hash was right? | Yes. Outside of a service the executable is missing while it is copied, which ExeSound excludes |
| selection | Does the index stay in the list, is a try through the proxy followed by one without, is every server tried? | Yes, but for five exceptions that EveryServerTried names: a connection that stays, a missing server ID, a "local" server that does not answer, a negative first index with a proxy, and a proxy that parseUri throws on, after which DirectAfterProxy promises nothing either |
| timers | Does every timer fire or get destroyed exactly once, does a removal reach timers about to fire, is no wake-up lost, does no timer stay? | Yes, but: a removal misses the queue of an outer loop after a nested one has run (RemovalReaches), and one wake-up can be lost, that of a timer which another thread has put in and not yet counted (NoOversleep, Hidden); the timer is late, not lost |
| sctp | Are chunks delivered in order and once, is none forgotten, are credits conserved, does a transfer end? | Yes, but: a paused receiver with a full hold buffer acknowledges a chunk it drops (NothingForgotten names it), after a pause a chunk may come twice, and the transfer stops when T3-RTX is off (AllArrive names it) |

Runs that show a disagreement between the code and what the repository says of
it (the quotations are in PROJECT.json):

| Run | What TLC shows |
|---|---|
| store_compact_error | A compaction that fails half way returns 0 and leaves entries that point into the abandoned copy |
| channel_stale_pong | A pong timer of one connection closes the next, which was never pinged |
| sctp_timer | T3-RTX expires just after a SACK caused a retransmission: it is turned off with data in flight |

The models show more of the kind, without runs of their own; each can be seen
with a change of a cfg or a one-line invariant:

* Put compressed, put plain, delete: the compressed record comes back to life
  (ReadYourWrites with Puts that mix the forms).
* The first delayed reconnect removes the heap's garbage-collection timer for
  good, because both use the same key (slot = "gc" never comes back).
* Stopping the core within 60 s of the start leaves coreTimeout pointing into a
  destroyed heap (handle = "stale").
* A download that begins while an update is being unzipped, or a full disk while
  unzipping, leads to an exchange with a wrong file (UpdateConsistent with
  Faults = {"overlap"} and MaxJobs = 2, or Faults = {"full"}).
* A timer removed after its callback's neighbour ran a nested loop still fires.
* A loop that wakes between the two halves of another thread's AddEx4 and skips
  the search sleeps until the old NextTriggerTick (NoOversleep without Hidden).
* With a proxy that parseUri throws on, the agent stays with the proxy and with
  one server (EveryServerTried without its last line).

### Bounds, and why they are enough

* Store: two keys, one plain and one compressed (or one key in both forms), two
  or three values. Two values make an overwrite, two keys make a compaction
  that can be interrupted between them. MaxLog limits the file at the start of
  a call to 5 records (crash), 3 (write error) or 2 (all faults, where every
  record may be damaged in several ways); five records hold an overwrite, a
  delete, a torn record and a rewrite. The property checked with all faults does
  not look at the histories, so that run's VIEW leaves them out.
* Channel: two certificates of the server and one of another, two nonces, three
  connections (one whose nonce and signatures may turn up on the next, and one
  more), two proxy lookups at the same time. Times are small numbers with a cap,
  so that the back-off reaches it and is reset.
* Reassembly: sizes 2 to 3 and 4 to 8 with messages of up to 11 bytes, and
  payloads of 0, 1, 2, 3 and 5 bytes: every way to grow, to reach a limit
  exactly, to exceed it by one, and a frame larger than the whole buffer. Two
  different bytes tell an exchange of pieces from the right order.
* Core and update: three cores, one plain and one zipped update of two blocks.
  Two blocks make a file with one of them missing, cut or repeated; the state is
  finite without a further bound. MaxJobs = 1 is no restriction without
  "overlap".
* Selection: lists of one to four servers, an ID too few, "local" alone, first
  and in the middle; the random numbers -3 .. 3 give every remainder; the proxy's
  setting changes at any time between its three kinds. Finite.
* Timers: two timers added, two keys, delays of 0 and 6 ms with a second of 2
  ms, one deferred removal, loops nested two deep or another thread. Two timers
  are needed for a callback that removes the one due next, and two loops for a
  queue that ActiveList has lost. A delay of three seconds is more than the
  errors of the clock and of the shortest sleep together, so a loop that
  oversleeps is told from one that is merely inexact. Timers are added at time 0
  only (MaxNow), where a reading of the clock is as arbitrary as at any other
  time; time then runs as long as a timer is in the list. Nested loops and the other thread are not
  combined: the state would be too large.
* Sctp: three chunks, two long and one short, so that the hold buffer takes any
  two but the two long ones; one copy of a chunk and two SACKs in flight at a
  time, two pauses. A gap counter of 2 instead of 3 makes fast retransmission
  reachable with three chunks; sctp_timer uses the 3 of the code. TSNs start at
  1: the wrap-around of 2^32 is not reached.

### Fairness

* channel: a pending timer fires (WF of ConnectTimer, NetworkError and
  PongTimeout: the chain polls its timers in every round), the process is
  started (WF of Start), and a server name that can be resolved again and again
  is resolved in the end (SF of the ConnectTimer step that sends a request).
  Nothing is assumed of the server or of the network. EventuallyTries excludes
  an agent that waits for a proxy lookup, which the code does not bound.
* core_update: the 60 s timeout fires while its engine exists (WF of
  ServerTimeout). Nothing is assumed of the server or of the update.
* selection: the retry timer fires (WF), and numbers drawn again and again are
  not all negative (SF of the draw that gives a positive index).
* timers: the loop goes on (WF of its steps taken together), the other thread
  finishes a call it has begun (WF), and time passes however often the loop is
  woken (SF of TimePasses).
* sctp: the application sends what it has, the poll timer runs while the
  session lives, and a chunk or a SACK that is sent again and again arrives
  (SF). The formulas are WF and SF written out with the guards, which TLC
  evaluates faster than ENABLED of the large actions.

Deadlock is checked in every run but timers, where a chain that was stopped has
come to its end, and sctp, where a finished transfer has.

## 4. Proofs

TLAPS proves the following for every value of the constants that satisfies the
named assumptions; the bounds (MaxLog, MaxLinks, MaxAsking, MaxLen, MaxAdds,
MaxDeletes) are arbitrary numbers there, and so are the numbers of keys, cores,
updates, servers, timers and nested loops, and the buffer sizes. OneFormPerKey
says that no key is put both compressed and plain, which is how the agent uses
its database ("CoreModule" is always compressed, the settings never are); without
it ReadYourWrites is false (section 3).

| Theorem | States | Assumes |
|---|---|---|
| SimpleDataStore_proofs!TypeCorrect | TypeOK, under all faults | ValuesAssumption, PutsAssumption, FaultsAssumption, BoundsAssumption |
| SimpleDataStore_proofs!TableCorrect | TableIsReplay and CompactReturns when the faults are crashes and torn plain records | the same, and Faults \subseteq {"crash", "tear"} |
| SimpleDataStore_proofs!ValuesAreOwn | NoForeignValue, under all faults | the assumptions of SimpleDataStore |
| SimpleDataStore_proofs!LossCorrect | LossReported and CompactReturns when fwrite may also fall short | the same, Faults \subseteq {"crash", "tear", "short_write"} and OneFormPerKey |
| SimpleDataStore_proofs!ReadsCorrect | ReadYourWrites | the same, Faults \subseteq {"crash", "tear"} and OneFormPerKey |
| SimpleDataStore_proofs!StoreImplementsMap | RefinesMap: the store implements KeyValueMap | the same, and Faults \subseteq {"crash", "tear"} |
| ControlChannel_proofs!ChannelInvariant | ChannelInv | the assumptions of ControlChannel |
| ControlChannel_proofs!RetryCorrect | TypeOK, StateIsTrue, NoLostRetry, BackoffBounded | the same |
| ControlChannel_proofs!AuthCorrect | AuthSound, AuthFresh, CoreToldTruth | the same |
| MessageReassembly_proofs!ReassemblyInvariant | ReassemblyInv | PayloadsAssumption, SizesAssumption, MaxLenAssumption |
| MessageReassembly_proofs!MessagesIntact | WholeOrTooLarge | the same |
| MessageReassembly_proofs!BuffersCorrect | TypeOK, BuffersFit and NothingLeft | the same |
| CoreModule_proofs!CoreInvariant | CoreInv | CoresAssumption |
| CoreModule_proofs!CoreCorrect | RunsOrWaits, RunsVerified, ToldTruth | the same |
| SelfUpdate_proofs!UpdateImplementsCore | USpec => Spec: the composition implements the core module | UpdatesAssumption |
| SelfUpdate_proofs!CoreCorrectWithUpdate | the properties of the core in the composition | the same, and CoresAssumption |
| SelfUpdate_proofs!UpdateCorrect | UpdateConsistent, ExeSound | the same, and Faults = {} |
| SelfUpdate_proofs!UpdateTypes | UTypeOK, under all faults | the same as CoreCorrectWithUpdate |
| ServerSelection_proofs!SelectionInvariant | SelectionInv | SelectionAssumption |
| ServerSelection_proofs!IndexCorrect | TypeOK, NeverAhead | the same |
| ServerSelection_proofs!ProxyFallsBack | the action property DirectAfterProxy | the same |
| Timers_proofs!TypeCorrect | TypeOK | TimersAssumption |
| Timers_proofs!OnceCorrect | FiresOnce | the same |
| Timers_proofs!RemovalCorrect | RemovalReaches | the same |
| Timers_proofs!SleepCorrect | NoOversleep | the same |
| Sctp_proofs!TypeCorrect | TypeOK | SctpAssumption |
| Sctp_proofs!NeverStuck | NoStuckSend | the same |
| Sctp_proofs!WindowCorrect | WindowConserved | the same, and WholeWords: lengths are multiples of four |
| Sctp_proofs!WindowNeverShrinks | the window is never less than what was offered, for all lengths | SctpAssumption |
| Sctp_proofs!OrderCorrect | NoSkip | the same, and NoWrap: the TSNs of the transfer do not wrap around |
| Sctp_proofs!OnceCorrect | ExactlyOnce | the same |
| Sctp_proofs!NoneForgotten | NothingForgotten | the same, and ShortOffsets: fewer than 65536 chunks |

Each rests on an inductive invariant that TLC has checked as well:

* **TableInv**. TableIsReplay is not inductive: in a delete the table is one
  record ahead of the file, and in a compaction it is partly about .db.tmp.
  TableInv says for each call in progress how the table differs from a replay,
  that an open file has only whole records, and that a closed one may end in
  one torn record. The lemmas say what Replay is of a file with a record
  appended, of one with a torn tail, and of its prefix.
* **OwnInv**. NoForeignValue speaks of what a Get returns; it needs that every
  value in the two files, the table, the cache and the call in progress was put
  under the slot it is kept in. A Get compares the hash in the table with that of
  the value it reads, which is why this survives records that are torn, absent
  or read from the wrong file: the invariant says nothing of offsets.
* **FileInv**. With short writes the table need not be a replay of the file.
  FileInv says how far apart they may be: each entry is that of the file or is
  missing, unless a failed compaction has left entries of .db.tmp; and while no
  error was reported, table and file agree on the value of every key, but for
  the key a deletion is about to record.
* **CopyInv** and **MapInv**. Without write errors the cache stays empty and a
  compaction copies values as they are, so a caller sees in every state what a
  replay of the file would give (ViewIsHolds). ReadYourWrites follows from
  TableInv and CopyInv. StoreImplementsMap uses them in both states of a step:
  a put, a delete or a restart changes what one key holds, each other step
  leaves the map alone; TLC checks the same refinement on store_crash.
* **ChannelInv**. NoLostRetry needs that an attempt always has a positive retry
  time to fall back on, and that an agent that is not started has nothing
  pending; AuthFresh needs that the nonce of an open socket is the one drawn
  for it, and that authentication bits exist only on an open socket.
* **ReassemblyInv**. WholeOrTooLarge looks at ended messages only. Inside a
  message the two buffers, one after the other, hold what was sent so far,
  unless the message is being discarded, and then it is already too large; and
  the agent has pieces only while the web client's flag is set, which is so only
  for messages larger than its buffer.
* **CoreInv**. RunsVerified needs that the stored core is verified, and ToldTruth
  and RunsOrWaits that an agent that is down has nothing pending, that a dangling
  coreTimeout exists only when no core is stored (so that a CoreOk that finds it
  launches nothing twice), and that a queued restart never meets a live one.
* **UpdateInv**. UpdateConsistent needs to know where ".update" may still be
  written. While blocks are downloaded there is a connection, nothing is unzipped
  and the chain is not stopping (DownloadAlone). There is at most one unzip, none
  once the chain is stopping, and its file holds the first pieces of what its
  update unzips to (OneJob, JobOk). A stage of the exchange belongs to a process
  whose chain is down, "mv" to a service and the others not, and connection,
  unzip and stopping chain exist only while the process is up (StagesApart).
  ExeSound rests on UpdateConsistent at the moment of the exchange. That the
  composition implements the core is one case per action. **FilesInv** is the
  inductive form of UTypeOK: a stream that an unzip writes to is linked to a file
  that is there, and the server sends the blocks of an update; it uses what
  CoreInvariant says of the core through the refinement.
* **SelectionInv**. NeverAhead speaks of positive indexes; the induction needs it
  from 0 on: triedNoProxy_Index is an integer not above a serverIndex that is not
  negative (Behind). DirectAfterProxy needs that after a proxy was chosen and read
  proxyServer or proxyFailed is set, or the server has no ID and none was
  contacted, and that triedNoProxy_Index is below a positive index (ProxyNoted).
* **TypeInv, PlaceInv, TimeInv** of Timers. The first says which loops may have
  timers in their queue or in a callback, that only the innermost loop is
  outside of a callback or handler, and that ActiveList points into a loop that
  is inside ILibLifeTime_Check. PlaceInv is FiresOnce in four parts (nothing that
  has ended is anywhere, no timer is in two places, what has not ended is
  somewhere, no removed timer is in the list or in the active queue). TimeInv
  carries the errors of the clock along: a timer's tick is less than a second
  late (TickOK); NextTriggerTick is not later than any timer but during the
  search that recomputes it and for a timer that the other thread has not counted
  yet (NextOK, Uncounted); a loop knows the time to a second and,
  once it has fired what was due, what is left is not due yet (ClockOK); so the
  time for which it sleeps is right unless a wake-up is pending, but for the timer
  it has missed and those that went in behind that one (SleepOK, Hidden).
* **ReceiverInv** of Sctp. NoSkip needs that the TSN of the application is not
  beyond what was delivered (OrderInv); what a step takes from the hold buffer
  it has delivered (Advances). ExactlyOnce needs that, until somebody pauses, the
  chunk after the two TSNs is not held and nothing was refused (OnceInv). What
  the loops do is proved by counting up (CountUp) over the recursive functions:
  each step of ResumeAll and PullAll hands up the head of the buffer or leaves
  all as it is. NoWrap is needed: the code compares TSNs as plain numbers.
* **SenderInv** of Sctp. The two queues hold, in order and without a gap, the
  last chunks sent (Lined); credits and bytes in flight are at least the window
  that was offered, the congestion window is at least one MTU, and with nothing
  in flight there are credits for a packet (Credits). NoStuckSend follows because
  Release then lets the first chunk go. It holds for wrapping TSNs too. One
  lemma per operator of the SACK handler (CumulativeDoes, GapsIs, ReleaseDoes)
  and of the timer (ResentDoes) says what it does to the queues and the credits.
* **SafeInv** of Sctp. NothingForgotten speaks of the sender and the receiver;
  between them are SACKs of any age. SafeInv says of the receiver's intsn, of
  every SACK in flight and of what the sender has dropped or marked that the
  chunks they stand for have arrived, or were refused after a pause. What has
  arrived only grows, so an old SACK stays true. That the sender marks no other
  chunk is InBlock, about offsets modulo 65536: a paused receiver reports blocks
  below its cumulative TSN, which are read 65536 too high. This is what
  ShortOffsets is for; in a longer transfer such a block, in a SACK that comes
  late enough, would mark chunks that were not received.

## 5. What is only model-checked

The liveness properties (EventuallyTries, AttemptEnds, EventuallyRuns,
EveryServerTried, TimersLeave, AllArrive), which are out of the reach of the
prover, and the runs that show a disagreement. Every invariant of a passing run
is stated by a theorem, some of them under the hypotheses named above: of Sctp
with TSNs that wrap around, and of transfers of 65536 chunks or more, only
TypeOK, NoStuckSend and WindowConserved are proved. The type invariants of the
store, the channel and the reassembly are proved and are not run.

## 6. What is not modelled

See the components with status not_modelled in PROJECT.json. Of the modelled
parts: the Windows build, memory exhaustion (the code exits), and what
third-party code does inside. Only Timers has time; elsewhere a timer fires at
any moment once it is armed.

Hazards that were met and that no property states, because nothing in the code
or its texts says what should happen:

* ILibSimpleDataStore.c:1122: when the reopen after a compaction fails, dataFile
  is NULL while keyTable has entries.
* agentcore.c:3952: a response other than 101 whose body never ends removes the
  request timer and leaves serverConnectionState at 1 until the peer closes
  (modelled as AnsweredNot101 and excluded from AttemptEnds and NoLostRetry).
* agentcore.c:4090: a proxy lookup that is never answered ends all retries
  (modelled, excluded from EventuallyTries).
* agentcore.c:3327: a process that ends between the store of a new core and the
  comparison of its hash keeps an unverified core (the handler is one step).
* agentcore.c:3666: with an idle timeout below 5 s the pong timer is pushed back
  by every ping, and a dead peer is never noticed.
* agentcore.c:3619: POSIX sleep(100) is 100 seconds, three times for a block
  that cannot be written, on the chain's thread. agentcore.c:3555: with
  forceUpdate, updates are disabled before the update is installed.
* ILibParsers.c:8146: Flush calls destructors with the list locked.
  ILibDuktape_Polyfills.c:1206: a script timer's token is read after it fired.
* ILibWebRTC.c:4846: TSNs are compared as plain numbers, so that a transfer
  stops when the 32 bits wrap around. ILibWebRTC.c:3873: the check that would
  send a forwarded TSN for abandoned packets is never called.

## 7. Plan

1. The web client's request queue and the socket's send queue, with pause,
   resume and disconnects inside callbacks; shown to implement what
   ControlChannel assumes of the end of a request.
2. ControlChannel with ServerSelection as one composition, and with the idle and
   pong intervals of a timed model.
3. Streams and pipes: ReadableStream, WritableStream and ProcessPipe; promise.js.
4. The end of an SCTP association, partial reliability, and the ICE state
   machine.
5. Proofs: what of NothingForgotten holds in transfers of any length, from a
   bound on the age of a SACK.
