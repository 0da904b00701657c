# Verification of the CS457 programs

TLA+ modules, TLC configurations and TLAPS proofs for the programs of this
repository.

## The system

The repository holds four independent programs. They share no code.

| program | what it is |
|---|---|
| `kv/` | a replicated key-value store: servers (coordinator, replica, write-ahead log, channels) and a command-line client |
| `bank/` | branches that transfer money to each other, and a controller that has them take distributed snapshots |
| `chord/` | a file store on a Chord ring, as a Thrift service |
| `http/` | a static-file HTTP server, one thread per connection |

The first two carry most of the hard behaviour (asynchronous handlers, posted
tasks, crashes, broken connections, a distributed algorithm); the other two
have threads that share files, tables and counters.

### kv: inventory

| component | state | operations |
|---|---|---|
| `Replica` (`kv/server/src/replica.cpp`) | `m_store`, 256 slots of (data, timestamp) | `read`, `write`, `replay_handler` |
| `Log<M>` (`kv/server/include/log.hpp`) | the file, the tasks posted to `m_strand` | `write_update`, `replay_log`, `clear` (tests only) |
| `Coordinator` (`kv/server/src/coordinator.cpp`) | `m_pending_reads`, `m_pending_writes`, `m_hints`, the hint log, `m_channels` | `handle_put`, `handle_get`, `handle_do_write`, `handle_write_complete`, `handle_do_read`, `handle_read_complete`, `handle_read_repair`, `handle_read_repair_response`, `recon_handler`, `unintroduced_msg_handler` |
| `Channel<M>` (`kv/net/channel/include/channel.hpp`) | `m_mq`, socket, reconnect timer | `send_msg`, `connect_cb`, `reconnect`, `do_send`, `do_read_header`, `do_read_message` |
| `Client` (`kv/client/src/client.cpp`) | the command in progress, a timer | `run_cmd`, `message_handler` |

A client sends `PutKey` or `GetKey` to one server, its coordinator. A put is
stamped with the clock, written to the coordinator's replica and broadcast as
`DoWrite`; each peer posts the write and acknowledges it with `WriteComplete`
on its *own* connection to the coordinator. The client is answered when as many
servers as it asked for have it. A get is answered from the coordinator's
replica, for more than one server after enough `ReadComplete`s have come. In
mode `read_repair` every get also asks all peers for their element and spreads
the newest. In mode `hinted_handoff` a put adds a hint for every peer, an
acknowledgement takes it away, and a new connection sends the hinted keys
again.

The server has one thread. What makes it hard is that handlers only *post*
what they do: a write is installed by a task behind the flush of its record,
so every test made before the post is stale when the task runs, and a crash
can fall between any two of these steps. What makes it correct: reads return
only what is in the log; no flushed record is lost; an acknowledged put has
its copies; a request is answered at most once; hints cover every write a peer
missed; servers that can talk converge.

### bank: inventory

| component | state | operations |
|---|---|---|
| `Branch` (`bank/src/branch.cpp`) | `d_money`, `d_channels`, `d_known_peers`, `d_snapshot` | `do_send_money`, `transfer_handler`, `init_snapshot_handler`, `marker_handler`, `retrieve_snapshot_handler`, `init_branch_handler`, `hello_handler` |
| `Snapshot` (`bank/src/snapshot.cpp`) | id, balance, one state per incoming channel (recording, completed) | `record_tx`, `marker`, `to_message` |
| `Controller` (`bank/src/controller.cpp`) | `d_snapshot_id`, timer | `do_init_branches`, `do_snapshot`, `do_retrieve_snapshot`, `return_snapshot_handler` |

The controller asks one branch to begin a snapshot; markers on the FIFO
channels bring in the others (the Chandy-Lamport algorithm); ten seconds later
it asks all of them for what they recorded. It is correct when the recorded
balances and channels add up to all the money, although the branches pay each
other all the time, and when nobody is asked before it is done:
`to_message` throws in that case and the process ends.

### chord and http: inventory

| component | state | operations |
|---|---|---|
| `LocalNode` (`chord/include/chord.h`) | finger table, predecessor; no lock | `set_fingertable`, `set_predecessor`, `is_successor`, `find_successor`, `find_predecessor`, `get_successor` |
| `chord/init` | the sorted list of nodes | computes the tables and hands them out |
| `FileStoreHandler` (`chord/src/FileStore_server.cpp`) | the files, a recursive mutex | `writeFile`, `readFile`, and the ring methods |
| Thrift service (`chord/src/FileStore.cpp`, `chord_types.cpp`, generated) | messages | `send_X` and `recv_X` of the client, `dispatchCall` and `process_X` of the server, `read` and `write` of every struct |
| `HttpServer` (`http/src/server.cpp`, `socket.cpp`, `http.cpp`) | connections, descriptors | `accept_connections`, `conn_acceptor`, `serve_get`, `send_response`, `send_file` |
| `Logger` (`http/src/logger.cpp`) | `d_counts`, a mutex | `log_get` |

Hard in `chord/`: intervals that wrap, keys equal to node ids, tables set while
lookups run, lookups that never end; a file that is read, removed, created and
written in four steps while other threads want it and the process may end; what
a caller is told when a handler throws. Lookups are correct when what they
answer is the neighbour of the key on the ring, and when they end; the file
store, when versions count the writes and a read sees what was acknowledged.
Hard in `http/`: requests that arrive in pieces or together, files that change
while they are sent, clients that stop reading or go, a map that is read outside
of the lock under which it is changed, log lines that are written later than
they are numbered, descriptors that run out. It is correct when a client can tell the
responses apart and match them with its requests, when no connection holds up
another, and when the log gives each number once.

## Modules

| module | what it models |
|---|---|
| `Replica` | elements, `DoWrite` records, the last-writer-wins test, the completion handler of a write. Pure operators |
| `LwwStore` | abstract: a set of committed records and the view that reads see |
| `ReplicaLog` | `Replica` over `Log<DoWrite>` with crashes and restarts |
| `Coordinator` | the cluster: all servers, their logs, connections and clients |
| `CoordinatorProofs` | theorems about `Coordinator`: types, replies and acknowledged copies; hints; read repair |
| `BankStart` | the branches come up: `InitBranch`, dialing, `Hello`, first payments |
| `BankStartProofs` | theorems about `BankStart` |
| `Bank` | branches and controller, from the moment all are connected |
| `BankProofs` | theorems about `Bank` |
| `Chord` | the ring: finger tables, predecessors and lookups |
| `ChordProofs` | theorems about `Chord` |
| `Thrift` | the generated code of the file store's service: structs, arguments, results, `send_` and `recv_`. Pure operators |
| `FileStore` | callers, processor and handler of one node's file store, over `Thrift` |
| `FileStoreProofs` | theorems about `FileStore` |
| `Http` | the web server: accept loop, threads, files, descriptors, logger |
| `HttpProofs` | theorems about `Http` |
| `KvChannel` | the active end of a `Channel`: queue, write, read, reconnect timer |
| `KvClient` | the client on its `KvChannel` |
| `KvProofs` | theorems about `ReplicaLog`, and about `KvClient` and its channel |
| `KvLink` | one server's `KvChannel` to another, with the introduction |
| `Sums` | lemmas that several of the proofs need: induction over finite sets, sums, powers of two |
| `MCReplicaLog`, `MCCoordinator`, `MCFileStore`, `MCHttp` | instances for TLC |

Definitions that end a comment with "Mutant of X" are deliberately wrong
variants of X. No specification uses them; they show that a property would
notice the mistake.

### ReplicaLog

`m_store` and `m_strand` are volatile, `file` is what was flushed. `Write` is
`Replica::write` called by the coordinator, with its early return. `RunAppend`
is the task that `write_update` posts: append, flush, completion handler.
`ReplayRecord` is one turn of the loop in `replay_log`, which calls `write` and
so posts an append behind everything that is on the strand; `ReplayDone` is the
end of the file. While the loop runs no other handler does (one thread):
`Write` is disabled then. The posts of one loop therefore cannot interleave
with calls of the coordinator, but a crash can fall between any two turns.

The file is read through a second stream while nobody writes, so the loop never
sees its own appends, which are posted.

The module assumes nothing about the order of handlers of *different* strands
(asio documents none), so the results also hold for writes that the coordinator
makes before the replay has begun. In that case only ages are promised: such a
write can replace a durable record of the same timestamp. `RecoveredStore`
says so.

### Coordinator

`<<s, t>>` is the connection that `s` opens to `t`. `fwd` holds what `s` sends
on it (`DoWrite`, `DoRead`, `ReadRepair`, `WriteComplete`), `bwd` what `t`
answers on it (`ReadComplete`, `ReadRepairResponse`). One action per handler.

* *Logs.* `server.cpp` runs one thread, and the constructor posts the replay
  before any socket is open: when a server handles its first message the logs
  have been replayed. So the replay is atomic here, `m_store` and `m_hints`
  survive a crash (they are what the flushed logs say), and posted tasks and
  pending maps do not. `ReplicaLog` proves the part this abstraction rests on.
* *Connections.* `Cut` breaks a connection and loses what is on it; `Stop` (a
  crash, or an exception that leaves `io_service::run`) breaks all of a server,
  but what it had sent may still be read: this is how an acknowledgement can
  reach a coordinator that no longer knows the request, and end it too. What is
  sent on a broken connection is lost, because `reconnect` clears `m_mq`.
  `Connect` opens it again and sends the hints; the timer and the connect are
  socket events, and what was posted to the logs in the five seconds before has
  been run by then. What a peer still reads of the old connection after the new
  one is open is taken as lost.
* *Posted sends.* `handle_get` posts the `ReadRepair` it sends; the task runs
  next, and the model sends it with the `DoRead`, behind it.
* *Time.* The stamp of a put is any member of `Stamp`: the clocks of the
  servers are not synchronised and may return one value twice.
* *Integers.* Counters of outstanding answers are unsigned and wrap at
  `Width`, 2^32 in the code and 8 in the runs: larger than any number of
  answers, as in the code.
* *Requests.* Request `i` has uuid `i` and, for a put, value `i`. What a get
  returns is left out: the code answers with the element the coordinator held
  when it was asked, whatever the others return.
* *Clusters.* `m_hints` has three rows in the code and one for each peer here.
  Introductions are taken as done; they are the subject of `KvLink`.

### BankStart

A branch is its place in the controller's list. `HandleInitBranch` is
`init_branch_handler`: it *sets* the balance, computes whom to dial and starts
the paying timer; the controller's connections come up in any order, so it is
enabled once for each branch at any time. `Connected` is the completion of a
dialed connection, which becomes a channel and says `Hello`; `HandleHello`
gives the accepted side its name. What `hello_handler` posts runs before the
next message of the connection is read, so it is one step. A branch that is not
initialised yet can be called and paid. Money that it was paid is then replaced
by its balance: the history variable `overwritten` counts it, and
`MoneyAccounted` says that nothing else is lost. Failing connects end the
process in the code (`connect_cb` throws) and are not modelled.

### Bank

One FIFO queue for each direction between two branches, one from the controller
to each branch. Transfers are handled where they are read, everything else is
posted to `d_strand`; the branch has one thread and begins to read the next
message of a connection behind what the last one posted, so the model handles a
message in the step that takes it from its queue. Returned snapshots are
reduced to the money they account for, as the controller prints them.
`Snapshot::marker` makes the completed state from the recording state that it
replaces (`snapshot.cpp` 37); the model takes it that the recorded amount
survives, as it does in a build, since the destructor of `RecordingState` does nothing.

`DoSnapshot` and `DoRetrieveSnapshot` wait until no message of a snapshot is on
its way (`Settled`): the controller's five and ten seconds are taken to be
longer than a snapshot. That the snapshot is then *complete* at every branch is
not assumed; it is `NoExplosion`.

### Chord

An id is a number of `M` bits, 256 in the code. `Bs`, `FingerId` and
`CreateFing` are the arithmetic of `chord/init` (the addition of hex strings
cut to 64 digits is addition modulo 2^M). The script serves one node at a time
(`todo`, `phase`): `CallSetFingertable`, `AssignFingertable`, then
`SetPredecessor` at the successor before both calls return. One lookup is
followed, begun at any node at any moment; lookups do not change the ring, so
several would not meet. Each of `FindSuccessor`, `FindPredecessor` and
`GetSuccessor` is one handler at one node, with its exceptions.

`LocalNode` has no lock. The predecessor is an optional whose flag is set last,
so a reader sees it or does not. The table is a vector that is assigned and
whose strings are then replaced one by one: `TornRead` lets a lookup that meets
this see any entry as the match, or end the process. Processes also end by
themselves (`Crash`) and are started again with nothing (`Restart`); calls to
them fail meanwhile (`Unreachable`, `ScriptDies`), and calls through them break.
A second run of the script is not modelled.

`NodeIdsAssumption` leaves out the id 2^M - 1 (one hash in 2^256): the script
would give that node the wrong successor.

### FileStore and Thrift

`Thrift` says what the generated classes put on the wire and take from it. An
object is its values and the set of fields that `__isset` marks; `write` of a
class with optional fields writes the marked ones only, so a content that was
assigned and not marked never leaves its caller. Each method has its
arguments, its result, `send_X` and `recv_X`; the names are those of the code.
Field ids and type codes are left out, since both ends are generated from one
file.

In `FileStore` each caller has a connection and with it a thread of the
`TThreadedServer`. `process_X` reads the arguments and calls the handler,
`Finish` is the second half of every `process_X` (its catch clauses and the
reply), `Receive` the caller's `recv_X`. `writeFile` is the steps `WriteCheck`
(is this node the owner), `WriteLock`, `WriteOld` (the call of `readFile`, with
its own check and its own lock), `WriteRemove`, `WriteCreate`, `WriteData`,
`Unlock`; `readFile` is `ReadCheck`, `ReadLock`, `ReadFile`, `Unlock`. `Crash`
can come between any two of them. A file is absent, torn, or whole.

* The ring methods return, throw or fail, as module `Chord` shows they can
  (`LookupOutcomes`);
  only `setPredecessor` has an effect here. That a lookup ends is taken for
  granted: `CallsEnd` therefore does not speak of a lookup that a node passes on
  to itself for ever, which is what `chord_self_finger` finds. It is assigned without a lock:
  while a thread assigns it, `is_successor` may answer either way.
* The id of a file is the hash of filename, colon and owner. The two names of
  the instance share an id because of a colon in them; so do such names in the
  code, and one overwrites the other.
* A torn file stays: `writeFile` begins by reading the old one and fails, so
  that name cannot be written again until somebody removes the file. This is
  what the code does after a crash; the properties make no promise for it.

### Http

`th[c]` is the thread of connection `c` and where it is in `conn_acceptor` and
what that calls. A request is its request line (malformed, relative, a path)
and the rest of it; `Recv` takes any number of what has come, or part of a
line, since `recv_msg`, which would look for the end of a request, is not
called. A rest that is received by itself is parsed as anything (`Parsed`): a
header, or the end of a request line, can have two blanks and be served as a
path. `SendBody` is one `sendfile`, which takes as much as the kernel likes.
`EditFile` changes a file or removes it, under the feet of the threads.
The sockets block and have no timeout: a connection is in `full` when its
buffers have no room, and its thread then stays in `send` or `sendfile` until
the client reads (`ClientReads`) or goes. What a client reads between two turns is
not followed; `Recv` decides what room there is when the next turn begins.

`log_get` is the lookup (`LookUp`), the lock and the insertion (`LockCounts`,
`InsertCount`), the second lookup (`LookUpAgain`) and, later, the writing of the
line (`WriteLine`); a lookup that finds its path increments the count and keeps
the result (`Count`). Between the count and the line others count and write, so
lines can be out of order, and the end of the process leaves a gap. `lines` is
what was given to `d_output_stream`, one line at a time; what a stream that is
shared without a lock does with the characters of two lines is not modelled. A
lookup that meets an insertion can find or miss the
path, or end the process (`LookUpCrashes`): the standard map gives no promise
there, although `http/include/server.hpp:59` says of `serve_get` "MT-Safety:
Safe; Data race: stderr".

Also visible in the model: a failing `accept` ends the process with all
connections, since `main` catches only the `int` of its signal handler; the 400
of a malformed request has no `Content-Length` (`NoLength`), so that a client
can only wait for the end of the connection; a file that becomes shorter after
its size was announced leaves the thread in `send_file` for ever (`Spins`); a
client that goes while it is sent a file can end the process by SIGPIPE, which
`send` asks not to get and `sendfile` cannot (`PipeBreaks`).
The constructor, which tests the path after moving from it and the wrong way
round, is not modelled.

### KvChannel, KvClient and KvLink

`KvChannel` follows one active `Channel` at the level of asio: an operation is
outstanding (`write`, `read`, `socket = "connecting"`, `timer`), completes
(`WriteEnds`, `WriteFails`, `ReadFails`, `Connects`, `Refuses`, `TimerExpires`:
the handler is then among `ready`), and its handler runs (`Run...`).
`RunTimer` clears `m_mq` and calls `async_connect`, which closes the socket: what
is still outstanding on it then fails.

`KvClient` adds the client. `run_cmd` waits in `getline` inside a handler: no
other handler runs while the user thinks, but connections break and timers
expire. The coordinator answers commands in any order or not at all.

`late` records that the reconnect timer's handler ran before everything of the
old connection was over. The client gets there when a connection breaks and the
user then sits at the prompt for five seconds: of the handlers that have
become ready meanwhile that of the timer can be ahead of others. What the code
then does is popping an empty deque, or setting the timer again on a connection that
works, and so reconnecting every five seconds for ever. `ChannelSound` and the
second half of `TimerTracksSocket` exclude these cases and hold in all others.

`KvLink` has the same channel between two servers, with `recon_handler` and the
peer's `unintroduced_msg_handler`. The hinted writes that `recon_handler` sends
behind the introduction are left out (`Coordinator` has them).

## Runs

| run | instance | states | shows |
|---|---|---|---|
| `replica` | 2 keys, 2 values, 2 timestamps, 3 writes, 2 crashes | 151,080 | write-ahead, nothing forgotten, recovery, growth of the log, refinement of `LwwStore`, reads never go back, recovery ends |
| `quorum` | 3 servers, 1 request of level 0 to 4, a crash, a cut | 222,810 | copies of an answered put, one answer, an answer in the end |
| `hints` | 2 servers, 2 puts, a crash, 2 cuts | 469,848 | hint counters, no missed write without a hint, convergence by handoff |
| `read_repair` | 3 servers, 2 puts, 1 get, 2 cuts | 486,000 | convergence by one get |
| `bank_start` | 4 branches, 2 of them pay | 27,597 | one connection for each pair, known payers, money, all connected |
| `bank` | 3 branches, 2 snapshots, 3 payments | 195,945 | both snapshots are complete, account for all the money and are returned |
| `chord_lookup` | 3 bits, rings of 1 to 3 of 5 ids, every lookup, a crash | 343,885 | right answers, hops go forward, lookups end |
| `chord_self_finger` | 3 bits, rings of 1 and 2 nodes | violation | a node that is its own finger asks itself for ever |
| `file_store` | 2 callers, 2 names of one file, 3 calls, a crash | 300,725 | versions, reads after acknowledged writes, what callers are told, every call ends |
| `http` | 2 connections, 1 file of size up to 2, 2 requests, 1 fault (an edit or a cut request), 3 descriptors | 504,932 | whole responses, in step with requests, each number of the log once, a turn ends unless its own client does not read or its file shrank |
| `kv_client` | 3 commands, 2 faults | 317,926 | the channel over broken and refused connections, replies and prompts |
| `kv_intro` | 1 request, no fault | violation | a request overtakes the introduction |

**Finding.** `id_between` leaves both ends out when the interval does not go
past zero and takes both in when it does (`chord.h` 102-103). A node that stands
in its own finger table is then its own closest preceding node for keys below
its id, and calls itself without end. `chord/init` writes such a table when no
other node is in the half of the ring before a node, and also when `bs`, which
never returns index 0, gives the second node its own place for an id that the
first one owns. With two nodes one of them always has such a table, and three times out
of four there are keys it never answers for; with the ten of `chord_test.cpp`, which asks each node and expects an answer, it takes
an uneven ring. `chord_lookup` shows that nothing else goes wrong: for nodes
that are not their own finger the wrong entries of `bs` never overstep the key.

**Finding.** A request overtakes the introduction (`kv_intro`). `connect_cb`
only posts the handler that sends the introduction (`channel.hpp` 79), and
`send_msg` does not wait for it. A put or get that a server passes on while a
connection is being opened is written as soon as the connection is open; the
accepting server has not been told who is calling, and its
`unintroduced_msg_handler` throws "Replica failed to introduce self"
(`coordinator.cpp` 288), which ends its process. One request in the moment of
connecting is enough, at start or after any broken connection.

**Bounds.** Two writes can race on a key and a third can come during a replay;
two crashes make a replay read what an earlier replay appended. Two puts with
two timestamps make every order of a newer, an older and an equal write, at one
or two coordinators. One crash with two servers already gives late
acknowledgements, and the exception they cause is a second one (crashes by
exception are not bounded by `MaxCrashes`). Levels 0 and n+1 are the two
boundaries of a consistency. In `read_repair` three servers are needed so that
two answers can both be newer than what the coordinator has; the run looks at
gets made while nothing else happens (`GetsWhenQuiet`), which is what the
property speaks of. Four branches are the smallest even number where a branch both
dials and is dialed; two that pay suffice for paying an uninitialised branch
and being paid by one that was (`Payers`). Three branches are needed for a marker to overtake another
on a different path; with 20 each a branch pays once, and money that comes back
lets it pay again; three payments can fall before, between and into the two
snapshots (`MaxPayments`).
Three nodes on eight ids give rings with and without wrong entries and self
fingers, and lookups of two hops; half of the rings of three have no self finger,
which is what `LookupEnds` speaks of. Each node in turn is the one whose
table is being assigned. Three calls of the file store are two writes and a
read of one file at once, or two of them around a crash and restart. Two requests
of one path meet in the logger; sizes 1 and 2 with an edit make a file grow,
shrink, become empty or go while it is sent; with three descriptors two
connections can have one file open, and the second is told that the server is
overloaded. One `recv` that ends in the middle of a request leaves a rest, which
becomes a request of its own; a behaviour has one of these or one edit
(`MaxFaults`). Two faults let a connection break and the next be refused, or two
in a row break; the third command is typed on the third connection.

**Deadlock** is not checked: requests, calls, commands, crashes, payments and
snapshots are bounded and one lookup is followed, so all instances come to rest.
That nobody is left waiting is what the liveness properties say.

**Fairness.** `io_service::run` runs what is ready (`RunTask`, `RunLog`,
`RunHintLog`, `Deliver`, `HandleMessage`, `HandleControl`, `HandleHello` or
`HandleTransfer`), dialed connections come up (`Connected`) and `InitBranch`
arrives (`HandleInitBranch`), the reconnect timer
retries for ever (`Connect`), the controller's timers go off (`DoSnapshot`,
`DoRetrieveSnapshot`), and an operator restarts a server that is down
(`Restart`), which only the liveness of recovery uses. The script and the
threads of the chord servers run on (`Script`, `Handle`). In `FileStore` and
`Http` the kernel runs every thread (`Process`, `Handle` and `Return` of each
caller, `Thread` of each connection). A thread of `Http` that waits, in `recv`, for
the logger's lock, or in `send` and `sendfile` for its client to read, is not
enabled, and fairness promises nothing for it: no client need ever read, so
`RequestsEnd` excepts the thread whose own client stays connected and does not.
In `KvClient` the command timer expires, and
each handler is run in the end because the queue of the io_service is first in,
first out; nothing is assumed of the network or of the user. All are weak.
Clients, callers, editors, crashes, restarts of a chord server, cuts and
payments are not fair.

`HandoffConverges` promises nothing after a crash, and `RequestsAnswered`
nothing after a crash or a cut: a server that dies between its acknowledgement and its flush loses a write for
which the hint is gone, and no request is retried. `AckedSurvives` says
precisely what is left: at most one copy is lost with each crash.

## Proofs

`Sums` holds what the proofs below need of finite sets. The induction theorems of
the library speak of an operator, which the provers cannot instantiate;
`SubsetInduction` and `SetInduction` say the same of a set `Good` and follow from
the well-foundedness of the strict subsets of a finite set. With them
`PartialExists` and `PartialsAgree` show that the fold behind `SumFunction` has
one solution, `SumRemove` that it does not matter in which order elements are
added up, and `SumUpdate` and `SumMoves` what a change of one value does to the
sum. `PowerIs` takes a power of two for the number of
subsets of an interval, and `PowerDoubles` follows from that.

`KvProofs` has two parts, which share no state. The first, about `ReplicaLog`,
proves for any sets of keys, values and timestamps (natural numbers) and any
number of writes and crashes:

* `TypeCorrect`, `WriteAhead`, `NoRecordForgotten`, `RecoveryIsComplete`:
  `TypeOK`, `LogBeforeStore`, `NothingForgotten` and `RecoveredStore` are
  invariants;
* `ReadsMonotone`: the action property `ReadsNeverGoBack`;
* `Refinement`: every behaviour is one of `LwwStore`;
* `FileAtMostDoubles`: `LogGrowth`.

The assumptions are `StampAssumption` (timestamps are natural numbers) and
`NullAssumption` (the empty pointer is no element).

The inductive invariant `IInv` is `TypeOK`, `LogBeforeStore`,
`NothingForgotten` and `FromAccepted`. `RecoveredStore` speaks only of an idle
strand and says nothing of how it got there; `NothingForgotten` is its
generalisation to a strand with tasks: each record of the file is covered by
the store, or a posted append will cover it, or a replay has still to read it.
The step that needs it is a turn of the replay loop: the record it passes is
no longer covered by the replay, and is now covered either by the store (the
early return) or by the append just posted. `FromAccepted` ties records of the
file and of the strand to the coordinator's calls, which is what makes a newest
record unique when no timestamp was used twice. `InstallFacts` carries the
last-writer-wins rule: installing a record covers it and uncovers nothing.

`FileAtMostDoubles` has an invariant of its own, `GrowthInv`: `Due` charges the
file in advance with the appends that are posted and with one for each record
that the replay has still to read, and a file without a process with all of its
records once more, since it may be replayed. A crash doubles what is allowed
(`PowerDoubles`) and so pays for that.

`BankStartProofs` proves, for any number of branches (`NAssumption`: at least
one) and any balance:

* `TypeCorrect`: in particular no balance goes below zero;
* `Topology`: `EachPairOnce`. The heart is `DialedOnce`, arithmetic: with
  N = 2h + 1 everybody dials the next h branches, with N = 2h the first half of
  the list dials the next h and the second half the next h - 1; so of two
  branches at distance d one dials if d <= h (or d = h and it is in the first
  half), and otherwise the other does. The inductive invariant is that the calls
  made so far are those of the rule for the branches initialised so far
  (`DialedByRule`);
* `PayersIntroduced`: `PayerKnown`. The inductive invariant `Introduced` says
  that the first waiting message of an unknown sender is its `Hello`, that who
  can send is known or has something waiting, and that who says `Hello` already
  has the other side as a channel;
* `MoneyIsAccounted`: `MoneyAccounted`, by the movements between two sums, what
  the branches hold and what is on the way (`SumUpdate`, `SumAppend`, `SumTail`),
  and by the balance that each `InitBranch` adds and what it overwrites.

`BankProofs` proves, for any number of branches, snapshots and payments
(`BranchAssumption`: the branches are finitely many; `BalanceAssumption`; and
`NoneAssumption`: no snapshot is the empty optional):

* `NoneExplodes`: `NoExplosion`;
* `BooksAlwaysBalance`: `BooksBalance`;
* `ReportsConserve`: `ReportConserves`.

For the first, what is to be shown, that a branch is complete when it
is asked, is about the end of a snapshot; the inductive invariant `BankInv` is
about its course. For each channel from a to b (`Flow`): there is at most one
marker on it, of the current snapshot, and a has begun exactly if that marker is
on the way or b has begun and taken it, never both. `Taking` adds that while a
snapshot is being taken the first branch has been told to begin or somebody has
begun. So when nothing is on its way (`SettledIsComplete`) somebody has begun,
all others have taken its marker, hence begun themselves, and hence each has
taken everybody's marker. The steps that matter are `Begins`: a branch that had
not begun has no marker on any outgoing channel and nobody has taken one, and
now there is one on each.

`BooksBalance` is inductive together with `BankInv` and `Conserved` (balances and
all that is on the way are all the money), which is needed when a new snapshot
begins and the books are opened. Each step moves an amount between the share of
one branch and the way of one channel (`BooksMove`) or nothing (`BooksStay`): a
transfer that is sent before the marker goes from the balance of its sender onto
the way, one that is sent after it does not count; one that arrives is added to
a balance that still counts, or to the state of a channel that is still recorded,
or was behind the marker and did not count. At the end of a snapshot `Flows`
leaves nothing on the way that counts, so what the branches hold in their
snapshots is all the money; `ReportInv` carries this to what the controller
prints (`Printed`), as a complete snapshot does not change before the next one.

`CoordinatorProofs` proves, for any number of servers, keys, requests, crashes
and cuts, for both modes and any width of the counters (`WidthAssumption`: more
than twice the servers):

* `TypeCorrect`;
* `RequestsAnsweredOnce`: `ReplyOnce`;
* `AckedCopiesSurvive`: `AckedSurvives`.

The inductive invariant `Inv` has five parts beside the types. `Addressed`:
every message of a request is on a connection of the server that has the
request. `PendingKnown`: what `m_pending_writes` and `m_pending_reads` hold are
requests of that server. `Once`: a peer is asked at most once, it acknowledges at
most once, and it is not asked any more once it has acknowledged. `AllCounted` is
the core: for a pending request there is a set of servers that have answered, none of
which owes an answer still, and the counter is what that many decrements, in unsigned
arithmetic, make of the first value; for a put they hold the write, or lost it in a
crash, and the client has been answered exactly if they are enough. So the counter passes
the value at which it answers once; acknowledgements beyond it make it wrap, and
after a crash they find no counter. `Recorded`: the history of crashes is in order. `Kept` collects the
facts that no step takes back and spares each handler the same argument. The
other assumptions are `ServerAssumption`, `ModeAssumption`,
`ConsistencyAssumption`, `RequestsAssumption`, `StampAssumption`,
`ValueAssumption` (types of the constants, and that there is a timestamp 0), and
`NullAssumption` and `NoCounterAssumption` (`Null` is neither an element nor a
counter).

For hinted handoff it proves:

* `HintsStayCounted`: `HintsNonNegative`;
* `HandoffForgetsNothing`: `HandoffKeeps`.

Their invariant `HintInv` adds three parts to `Inv`. A hint is changed by a task,
so the counter is only what has been flushed: `Prefixes` says that it stays at
zero or above after every prefix of what is posted. `HintsCover` counts: the puts
of a server on a key that a peer has not answered, or was not sent since the
last crash and does not hold, are no more than its hints, the posted
ones included. `Remembered`: a put that is not waited for any more is older than
a crash, since a counter wraps rather than ending; this is why every
acknowledgement that takes a hint away is one for a hint that was put down.

And for read repair:

* `OneGetRepairs`: `RepairConverges`.

Only timestamps matter here, so for each key the stores, the posted appends and
the messages are reduced to sets of timestamps. The invariant `RepairInv` says of
a key that was read in a quiet cluster that there are a server s and a timestamp
n such that nothing is newer than n, only s asks and writes (`Bounded`), and the
repair is in one of three stages: s has yet to hear from somebody who holds n
(`Unheard`); s has posted n and sent it to all others (`Learned`); or s holds n,
and each of the others holds it, will get it, or has yet to answer s, which will
then send it (`Spreading`). `Learned` is the stage that a test would hardly
reach: s compares further answers with a store in which n is not installed yet,
and may send something older as well, which the last-writer-wins test of the
receiver drops. When the cluster is quiet only `Spreading` with nothing under way
is left, or n is 0 and nobody has anything.

While this proof was planned the property turned out to be false as it had been
stated, at larger bounds than those of the run: a server that has nothing was
told apart from one that holds the empty element with timestamp 0, which a repair
of nothing that was interrupted leaves behind. The code does not tell them apart
(for a key it does not have, `handle_read_repair` answers with an empty value and
timestamp 0, `coordinator.cpp:105-121`), and `Converged` now compares what a client would be
answered.

The second part of `KvProofs`, about `KvClient`, proves for any number of faults
and commands (`FaultsAssumption`, `CommandsAssumption`):

* `ChannelIsSound`: `ChannelSound`;
* `BrokenIsNoticed`: `TimerTracksSocket`;
* `AnswersMatchCommands`: `RepliesMatch`.

The invariant `KvInv` describes which operations can be outstanding and which
handlers ready at the same time (`Operations`, for as long as `late` is false);
that something is under way which ends in a reconnect whenever the socket is
broken (`Watched`); that commands keep the order in which they were typed from
the posted tasks through `m_mq` and the write to the peer (`Ordered`); that what
the peer was sent is with it, on its way back, printed or lost, and in one of these places only
(`Apart`); that the handler given to the first connect prompts once (`Prompts`);
and that without a failed command the replies printed are those of the commands
typed, in order (`Matched`). `late` cannot be left out: `Operations` fails as soon as the timer's
handler overtakes, which is the behaviour described above.

`FileStoreProofs` proves, for any number of callers, names, calls and crashes
(`CallersAssumption`: the mark for a free mutex is no caller):

* `VersionsCounted`: `VersionsCount`;
* `AckedIsRead`: `ReadsAcked`;
* `CallersToldTruth`: `OutcomeFaithful`.

The invariant `FileInv` has the shapes of what is on the wire, one state for each
call (nowhere, on its way, being served, answered, lost) with what is known of it
there, and one for the disk. At most one thread is between `WriteLock` and
`Unlock` (`Critical`), so the version that `WriteOld` read is still that of the
disk when `WriteData` writes the next. Three lemmas carry the conversion: the
marked fields of a file arrive at the handler, what the handler wrote is what it
reads again, and an outcome told by `Answer` is received as that outcome
(`FileArrives`, `FileKept`, `AnswerTold`). A content that was not marked in
`__isset` does not arrive, and the first of them says so.

`HttpProofs` proves, for any number of connections, paths, requests and faults
(`SizeAssumption`: sizes are natural numbers; `PathsAssumption`: a path is none
of the other things that a request line can be):

* `LinesNumbered`: `NumbersOnce`. No two lines of a path have the same number, and
  while the server runs each number up to the count is on a line or with a
  thread that is about to write it. The order of lines, and the absence of gaps
  after the end of the process, are not promised by the code and not claimed;
* `ResponsesWhole`: `FramesWhole`;
* `AnsweredInStep`: `AnswersInStep`.

The inductive invariant for the first, `LogInv`, says that only paths come to
the logger, that a thread at its second lookup has had its path inserted, and
where the numbers are (`Numbers`): besides what `NumbersOnce` says, a number
that a thread holds was counted and is on no line (`HeldApart`), and no two
threads hold the same one (`HeldDiffer`). Without these two a line that is
written late could repeat a number. The steps that matter are `Counting`, where
a number is taken that is above all that are written or held, `LineWritten`,
where a number goes from a thread to a line, and `Inserting`: a thread inserts a
path that another has inserted, and counted, since it looked. `emplace` then
changes nothing; the lock is not needed for this, only for the insertion to be
one step. The end of the process drops the held numbers, and the other parts of
`Numbers` stay.

The other two rest on `ReplyInv`, which says the same thing, `ConnInv`, of each
connection. `Framed` ties the last response to its thread: while the body is
being sent the response has the announced length and as much of a body as the
thread's offset, so that it is complete when the two meet, whatever became of the file.
`InStep` says of a connection on which each `recv` returned one request that
there is a k such that k requests were received, what is left in the stream is
exactly the rest of them, the thread works on the k-th, and there are k
responses when it is between turns or in the body and k - 1 elsewhere. Each
place of a turn, the catch clauses included, is left with one response more or
with none (`TurnGoesOn`, `Answered`). `LogInv` is needed here too: a thread that
comes from the logger asks for a path.

`ChordProofs` proves, for any number of bits (`MAssumption`), any ring
(`NodeIdsAssumption`: no node has the id of all ones, which the script would give
a wrong successor) and any number of crashes:

* `AnswersAreCorrect`: `AnswerCorrect`;
* `HopsGoForward`: the action property `HopForward`.

A lookup decides by two things, the first entry of the table and the predecessor,
and the proof is that both are right whenever they are there. The first half is
about the script. `Bs` is a recursive function over intervals of the sorted list;
`First`, the place in the interval between a smaller neighbour and one that is
not smaller, solves the recursion (`FirstStep`), so that `Bs` is a solution, and every
solution finds that place, because there is no smallest interval for which it
does not (`SearchFinds`). Hence every entry of a table is a node, although some of
them are the wrong ones (the search never looks at the first node of the list),
and the first entry is the next node (`TableFirst`). The second half is the
invariant `ChordInv`: a table is empty or the one made for its node, a
predecessor is unknown or is the node before, and while a node calls its successor
its table is there. Crashes, restarts, a script that dies and torn tables change
none of this. What is left are intervals and distances on the ring: `BetweenOwns`
and `BetweenPrecedes` for the answers, `Nearer` and `FollowerNearer` for the hops,
which need that the node is not in its own table, as `id_between` takes in
both ends when the way goes past zero.

Each of these invariants was checked by TLC on the instance of its run before
it was proved.

Only model-checked are the liveness properties, `EventuallyRecovers`,
`RequestsAnswered`, `HandoffConverges`, `AllConnected`, `SnapshotReturned`,
`LookupEnds`, `CallsEnd`, `RequestsEnd` and `PromptReturns`: fairness is out of
the prover's reach. Every invariant, every action property and the refinement
that the passing runs check is also a theorem.

## Plan

1. Snapshots that overlap, and snapshots during startup, in `Bank`.
2. The values that a get returns, in `Coordinator`.

## Not modelled

* `HunterGate.cmake`, and of the generated Thrift code what nobody calls or
  what only prints and compares: `FileStoreConcurrentClient`,
  `FileStoreMultiface`, `FileStoreNull`, `printTo`, `swap`, `operator==`.
* `kv/server/src/config.cpp`, `bank` `do_read_list`, `http/src/mimedb.cpp`: a
  file read once at start.
* Header layout, dates and mime types of `http/`; the set-up of sockets; the
  members of `socket.cpp` that the server does not use (datagrams, `connect`,
  `recv_msg`).
* The passive end of a `Channel`, which reads until an error and never
  reconnects, and `Channel::connect`, which nobody calls.
* Serialisation of protocol buffers: messages are records. A torn record at the
  end of a log file (`log.hpp` does not check the second `read`) is not
  modelled; the crash is that of the process, and the stream is flushed record
  by record.
