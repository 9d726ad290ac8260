# TLA+ models of TerminalHub

TerminalHub keeps shells alive in a background daemon (Windows, C++20). A `th`
command talks to the daemon over a named pipe; the daemon runs each shell in a
pseudo terminal (ConPTY), keeps its recent output, and sends new output to the
clients that are attached. This directory models the parts of that program where
order, concurrency and failure decide what is right: the pipe server and what it
writes, the broadcast of output, the life of the sessions with their file, the
terminal, the client, the messages, the way a daemon comes to run and is found, the
configuration file, and the ring that holds the output. TLC checks small instances;
TLAPS proves the safety properties of the passing runs for every instance, up to the
exceptions their statements name.

Paths below are relative to the repository's root.

## 1. The system

| Component | State | Operations | Called by, calls |
|---|---|---|---|
| `OutputBuffer` (src/Session) | a vector of lines used as a ring, cursor, count, size | `write`, `clear`, `getRecentLines`, `getAll` | read thread writes; attach and history handlers read |
| `Session` | metadata, client set and its count, output and exit listeners with a mutex, the `ConPty` | add/remove client, add/remove listeners, `broadcastOutput`, `broadcastExit` | handlers on worker threads, read thread, exit thread; calls the server to send |
| `SessionManager` | `m_sessions`, the configuration, the registry | `initialize`, create, get, list, kill, rename, `_handleSessionExit` | handlers, disconnect callback, exit threads |
| `SessionRegistry`, `JsonStorage` | `sessions.json` | `save`, `remove`, `list`, `get`, `cleanup`; read, write, update | `SessionManager`, on any of its threads |
| `ConPty` (src/PTY) | pipe, process and thread handles, `m_running`, two callbacks | `create`, `write`, `resize`, `kill`, destructor; a read thread and an exit watch thread | `SessionManager`, handlers; calls back into `Session` and `SessionManager` |
| `IpcServer` (src/IPC) | completion port, workers, a map of clients, one `OVERLAPPED`, read and line buffer per client, `m_running` | `start`, `stop`, accept, read, framing, dispatch, `sendToClient`, disconnect | handlers, broadcasts; calls handlers and the disconnect callback |
| `DaemonMain` | the server and the manager, PID file, two globals for console events | one handler per command, `consoleCtrlHandler` | `Main` |
| `IpcClient` | pipe handle, pending requests, line buffer, read thread, two callbacks | `connect`, `request`, `disconnect`, `_readThreadFunc`, `isDaemonRunning` | `CliApp` |
| `CliApp` | the configuration; for attach a context with `exiting` | one function per command, `ensureDaemonRunning`, `cmdAttach` | the user |
| `IpcMessage` | none | conversions to and from JSON | server and client |
| `ConfigManager`, `Paths` | a configuration and its file | `init`, `load`, `get`, `validate` | daemon and CLI |
| `Core` | none that matters | `Result`, `Error`, logging | everything |

### How they interact

A client's request is read by some worker of the server's pool, framed by newlines
and given to the handler of its command, which runs on that worker. Handlers change
the `Session` and the map of sessions directly. Every session has two threads of its
own: one reads the pseudo terminal, stores each chunk in the `OutputBuffer` and
broadcasts it; one waits for the shell to end and runs `_handleSessionExit`. Both
send to clients through `IpcServer::sendToClient`. When a client is lost, the worker
that notices runs the disconnect callback, which visits the sessions in the file.

### What is hard

* **Shared state without a lock.** `m_sessions`, `Session::m_clients`,
  `ptyProcess`, `OutputBuffer` and `sessions.json` are used by workers and session
  threads at once.
* **Two locks in two orders.** A broadcast holds `m_listenersMutex` and takes
  `m_clientsMutex`; one disconnect path does the opposite.
* **Ownership by protocol.** A client's `OVERLAPPED` and buffers are used outside
  the lock: only the fact that one operation is outstanding keeps two workers apart.
* **Events that overtake each other.** The exit of a shell against its last output,
  the answer of attach against the first events, an exit against the insertion of
  its session.
* **Losses that are noticed late or never.** A read that fails at once, an accept
  that fails, a daemon that dies during a request, a write that nobody reads.
* **Files without a lock.** Configuration, PID file and registry are truncated and
  written by several processes or threads, any of which may be killed in between.
* **Exceptions that nothing catches.** The JSON library throws on text that is not
  UTF-8, `std::filesystem::remove` on a file that is open.
* **Stops and joins.** `stop` on several threads, destructors that wait 3 s for
  threads, one of them for itself.

### What makes each part correct

* `OutputBuffer`: always the last `maxSize` lines since the last clear, in order.
* `IpcServer`: one user per client context; no byte of a request lost or handled
  out of order; a disconnection told once and never missed; it goes on accepting;
  `stop` returns.
* `Session` and the broadcasts: an attached client misses no output, gets it once
  and in order, hears of the exit last, and hears nothing after it left; requests
  are answered.
* Life of the sessions: a running shell can be reached (but not after a restart); no
  dangling session; the
  exit frees the terminal; the file agrees with the map.
* `IpcClient`: the screen shows the output in order without gaps; the callbacks
  never outlive the command; a request returns; a loss is reported.
* `ConPty`: every handle is closed once, whichever step of `create` fails; the output
  is passed on without a gap; the destructor returns and leaves no thread behind in a
  read (it may, see section 5).
* `DaemonMain`, `CliApp`: a command finds a daemon that listens, whatever the PID file
  says; a file is torn only by the death of its writer, a failed write, or the user.
* `ConfigManager`: what `load` returns was validated, what the user wrote is kept
  (up to a race), and what `init` writes can be loaded (it cannot, see section 3).
* `IpcMessage`: a request arrives as it was made, its outcome comes back, and no line
  is taken for one of another kind.

## 2. Modules

| Module | Models | Kind |
|---|---|---|
| `LineHistory` | the promise of `OutputBuffer`: a bounded sequence of lines | abstract specification |
| `OutputBuffer` | OutputBuffer.cpp, one call at a time | state machine, refines `LineHistory` |
| `HistoryRead` (+`MCOutputBuffer`) | the same with `getRecentLines` beside `write`, access by access | extends `OutputBuffer` |
| `OutputBufferProofs` | | theorems about the two modules above |
| `IpcServer` (+`MC`) | IpcServer.cpp without its writes, the console events of DaemonMain.cpp | state machine |
| `IpcServerSend` (+`MC`) | `sendToClient`, `broadcast`, `_sendRawLocked` and the packets of writes | extends `IpcServer` |
| `IpcServerProofs` | | theorems about the two modules above |
| `SessionOutput` (+`MC`) | Session.cpp with the attach, input, resize, detach and disconnect code of DaemonMain.cpp, the read and exit threads, `sendToClient` | composition of threads around one session |
| `SessionOutputProofs` | | theorems |
| `SessionLifecycle` | SessionManager.cpp, SessionRegistry.cpp, JsonStorage.hpp, the exit thread and destructor of ConPty.cpp | state machine with restarts |
| `SessionLifecycleProofs` | | theorems |
| `ConPty` | ConPty.cpp: `create` with every failure, both threads, the destructor | state machine |
| `ConPtyProofs` | | theorems |
| `IpcClient` | IpcClient.cpp as `cmdAttach` uses it, with the daemon as an environment | state machine |
| `IpcClientProofs` | | theorems |
| `IpcMessage` | IpcMessage.cpp and .hpp, the treatment of a line in IpcServer.cpp and IpcClient.cpp | operators |
| `IpcExchange` | one request from end to end | state machine over `IpcMessage` |
| `IpcExchangeProofs` | | theorems about the two modules above |
| `ConfigStore` | `load`, `validate` and the default of ConfigManager.cpp | operators |
| `DaemonLifecycle` (+`MC`) | `ensureDaemonRunning` and the commands of CliApp.cpp, `DaemonMain::run`, `ConfigManager::init`, the choice in main.cpp | state machine of processes, over `ConfigStore` |
| `DaemonLifecycleProofs` | | theorems |

Conventions: a thread is a member of a set, and `pc[t]` is the statement it is about
to run. A section under a mutex in which nothing can block is one action; where a
thread can block with a mutex held, a variable names the holder. Undefined behaviour
(a use of a freed object, two unlocked accesses that conflict) is a step that may,
but need not, set `crashed`, after which nothing runs. Operators whose comment
starts with "Mutant" are plausible bugs of the operator that follows; they are not
part of any specification and only serve to see that a property depends on it.

### OutputBuffer

`m_buffer`, `m_cursor`, `m_count` are the code's fields; `pending` holds the lines
of a `write` that are still to be stored, so each iteration of its loop is an action
(`PutLine`). `Write` takes a chunk already cut at its newlines; an empty piece is a line
like the others. `RecentLines(n)` is `getRecentLines`. `History == INSTANCE LineHistory`
maps the ring to the sequence of its lines, oldest first.

`HistoryRead` splits both sides, since nothing locks the ring. The writer stores the
line (`StoreLine`) and then moves cursor and count (`MoveOn`); the reader takes the
count, the start, the lines to skip, and copies one slot after the other
(`ReadTarget` ... `Return`). A slot that is stored while it is being copied is
`torn`. `alone` remembers whether a read met no write. `Ring` maps this back to
`OutputBuffer`, so that the refinement of `LineHistory` is checked for the finer
steps too.

### IpcServer

`op[c]` is the state of the client's `OVERLAPPED`: idle, pending in the kernel, or
completed with one packet at the port. A worker takes a packet (`wait`), looks its
client up, and goes through accepting (`markConnected` ... `listen`) or reading
(`append`, `take`, `frame`, `postRead`, `eof`, `failed`). Bytes are numbered per
client; `LineEnds` says which are newlines, so `handled` is the exact sequence of
the bytes that made up whole lines. `Stop(s)` runs on console threads (which hold
`g_shutdownMutex`) and on the threads the shutdown command detaches (which do not).
The client's end of the pipe (`Connect`, `Send`, `Leave`) is external.

### IpcServerSend

The server again, with one more lock holder: `writer` is the thread in
`sendToClient`, `broadcast` or the answer of `_handleRequest`, `targets` the clients it
has still to write to. A write finds room and completes, or is pending, and then the
thread waits (`waiting`) for the client's one event, or for 5 s: which of the two is
free, as it depends on sizes. `EndWait`
after a timeout leaves the write pending, and `Unlock` frees its text; the next write
uses the same `OVERLAPPED` and event. `CanGo` holds back every step of `IpcServer`
that needs `m_clientsMutex`. A completed write leaves a packet, which costs a worker a
search under the mutex (`TakeWritePacket`, `IgnorePacket`) and nothing else: its
address is that of the write of some context, or of none.

### SessionOutput

One session. The worker that serves client `c` is called `c`: two workers never
serve one client, which is `SingleOwner` of `IpcServer`. Chunks are numbered;
`delivered[c]` is what was written to the client's pipe. The variables
`m_listenersMutex` and `m_clientsMutex` name the holder when a section can block.
`FailedReads` says whether a lost connection may show as a failed read (with
`m_clientsMutex` held during the callback) or always as a read of no bytes.

### SessionLifecycle

Workers run `createSession` (`CreatePty`, `SetOnExit`, the update of the file,
`InsertSession`, `AnswerNew`), `killSession` (`Find`, `Terminate`, `EraseSession`,
`JoinExit`, update) and `renameSession`; the exit thread of session `s` is called `s`
and runs `WatchEnds` ... `BroadcastExit`, update. An update is `ReadFile`, `Truncate`,
`Flush`. The file is a set of ids, or `Empty` after a truncation, or `Mixed` when two
threads wrote over each other; reading either of the last two fails, and `update` then
starts from nothing, as in the code. `Restart` is the end of the daemon at any point and
the next start with its `cleanup`; which shells outlive it, and which pids other programs
have then, is free. `earlier` are the shells that outlived their daemon: no map has them,
and `NoOrphanShell` is about the others. `ptyProcess` goes
from none to owned, closing (its destructor runs) and freed.

### ConPty

One terminal, from `create` to the end of its destructor. `open` are the handles of
the system, `m_handles` those the object holds, `twice` those that were closed when
they were not open: the error paths of `create` close handles that the destructor of
the half-made object closes again. `owner` is the thread that creates and destroys,
`reader` and `watcher` are the object's threads, `inside` says that the destructor runs
in the exit callback, on the watch thread, as `_handleSessionExit` makes it. A read is
issued (`IssueRead`) and returns (`ReadFile`) in two steps, and the destructor cancels
(`CancelOut`) and closes (`CloseOut`) in two; `slipped` says that a read was issued
between them, for which `CloseHandle` may wait ("blocked", `Unblock`). `late` are
the threads whose 3 s ran out. Printed bytes are numbered; `Continuations` says which
of them belong to the character begun before, so that a chunk may end inside one.

### IpcMessage and IpcExchange

A JSON value is a pair of a kind and a content, so that the conversions of the code
can be written as they are, with `value` and `get` and the exceptions they throw.
Text is a member of a small set with one member, `Garbled`, that `dump` rejects wherever
it is nested (to `Depth` levels, one more than any message has).
`IpcExchange` takes one request through `Ask` (or `AskOther`: a line of `Lines`),
`Dispatch` or `Refuse`, `Handle`, `SendEvent`/`TakeEvent` and `TakeAnswer`, with the
operators of `IpcMessage` at each end.

### ConfigStore and DaemonLifecycle

A configuration file is absent, empty, or says of each field whether it is valid,
rejected by `validate`, of the wrong type or missing; `load` gives the error that the
code gives. Commands, `th init` and daemons are processes, each at a statement
(`pc`). They share the configuration, the PID file and the name of the pipe, and the user
may write the configuration between any two steps (`Edit`) and delete it while nobody has
it open; a write may not reach the disk. A daemon
is named by its PID, which another program may have after its end (`foreign`).
`listening`, `accepted`, `deaf` say whether an instance of its pipe waits for a client,
none does for the moment, or none will again. `Kill` ends an init or a daemon between
any two steps. `served` and `overtaken` are observations for the properties: the daemons
that have been listening ever since a command began to search, and the processes that looked for the
configuration and had not finished when the user wrote it.

### IpcClient

The main thread runs connect, `attach`, inputs, `detach`, `disconnect`; the read
thread reads a message, sets a promise or calls a callback. The daemon is the handlers of
DaemonMain.cpp (`Subscribe`, `ReadHistory`, `Answer`) and the read thread of the session,
which writes a chunk to the history (`WriteChunk`, `printed`) and then broadcasts it
(`BroadcastChunk`, `told`). It answers in order and may die. Chunks are numbered, `shown`
is the screen. Messages are whole: the line buffer of the client is left out, and so is
the wait of `_sendRaw` for its write.

### How the modules fit

`SessionOutput` assumes of the server what `IpcServer` checks and proves (one worker per
client), and of the ring what `OutputBuffer` proves (the history is the last lines).
`HistoryRead` drops the assumption that a read and a write do not overlap, and
`IpcServerSend` that a write takes no time. `IpcClient` takes from `SessionOutput` the
order in which attach subscribes, reads the history and answers. `SessionLifecycle` and
`SessionOutput` share the exit thread: the first follows the map, the file and the
`ConPty`, the second the listeners and the clients; `ConPty` is the object both speak
of, with its handles. `IpcExchange` fills in what the lines are that `IpcServer` frames
and `IpcClient` waits for. `DaemonLifecycle` ends where `IpcClient` begins, at the
connected pipe.

## 3. Runs

Passing runs:

| Run | Instance | Shows |
|---|---|---|
| `output_buffer` | 3 slots, 3 lines, chunks of up to 4 pieces, reads of 2 lines and of all | `CursorFollowsCount`; a read beside no write is right (`QuietReadIsRecent`), one beside a write while the ring fills is whole (`FillingReadIsWhole`); refinement of `LineHistory` (`RefinesBoundedHistory`) |
| `ipc_server` | 2 workers, 2 clients, 3 bytes, the second a newline | `SingleOwner`, `AtMostOneAcceptor`, `NoByteLost`, `NotifiedOnce`, `AcceptingEndsByFailure`, `ErasedWhenIdle` |
| `ipc_server_live` | 1 worker, 1 client that may not read, 1 session thread, a console event and a shutdown command | `OwnedIsPresent`: no worker finds its client gone, though two threads stop the server; `TextOutlivesWrite`, `FreedWhenWritten` of the writes; `StopTerminates`, `PendingReadNotices`, `RequestsAreHandled`, although a write can hold the mutex |
| `session_output` | 2 clients, 1 chunk, failed reads | `NoOutputMissed`, `ExitIsLast`, `NothingAfterDetach` |
| `session_output_live` | 1 client, 2 chunks, no failed reads | `OutputsInOrder`, `RequestsAnswered`, `ExitAnnounced` |
| `session_lifecycle` | 2 workers, 1 session, exits, 1 restart that the shell may outlive | `NoOrphanShell`, `NoDanglingSession`, `ExitReleasesPty` |
| `ipc_client` | 4 requests, 3 chunks, the daemon may die | `ShownInOrder`, `ReaderIsJoined`, `OnlyCurrentIsPending`, `RequestReturns` |
| `ipc_exchange` | every command, payloads of 3 texts and 2 numbers, every kind of result, lines of other clients with any of 8 members, of their kinds or others, or no objects, 1 event | `RequestArrives`, `ResultIsOutcome`, `OneKindPerLine` |
| `conpty` | 7 bytes, reads of 3, two of them inside a character, any failure of `create` | `NothingLeaks`, `ClosedOnce`, `OutputIsContiguous`, `OnlySlippedReadIsLeft`, `DestructorReturns` |
| `daemon` | 2 commands, 1 init, 2 daemons, 2 attempts, 1 configuration of the user | `ServedCommandFindsIt`, `TornOnlyByDeath`, `UserConfigKept` |

Runs that TLC must refute, each a disagreement between the code and what the
repository says of it (PROJECT.json, "findings", has the lines):

| Run | Refuted | What happens |
|---|---|---|
| `session_output_deadlock` | `RequestsAnswered` | the two mutexes are taken in opposite orders |
| `daemon_init` | `InitMakesLoadable` | `init` writes an empty log level, which `load` rejects; the file is then never replaced |

The type invariants are in the modules and were checked by TLC as they were written;
all but the simple ones of the operators' modules are proved, or part of a proved
invariant, so that no run repeats them.

### Bounds

Every bound is a CONSTANT and is named in its module. Two workers and two clients are
the least with which contexts can be confused and packets reordered; all races of the
code are between two threads of each kind, and a third adds only repetition.
`ipc_server_live` has one worker, to have room for two stops and the writes: what two
workers can do to each other is the question of `ipc_server`. An event and an answer are
the least with which a wait can end by the event of an earlier write. (A safety-only run
with two workers finds 2.2 million states and no error.) A request needs two pieces and
a byte after it for every branch of the framing; the ring wraps with the fourth line
over three slots, and a chunk may hold more lines than the ring. One chunk is enough to
be missed or overtaken by the exit, three to be sent out of order or twice. The races of
`SessionLifecycle` are between two workers and the exit thread of one session; two
sessions are needed for a lost update, and the theorems are for any number. (A
safety-only run with two sessions finds 2.4 million states up to symmetry and no error.)
Two commands that race for one daemon, each able to launch one, with an init beside them
are the least with which files are written over each other and PIDs go stale. A terminal
needs more bytes than one read takes, and a chunk that ends inside a character. Symmetry
is used in safety runs only, over workers, clients, commands and daemons that the
specification does not tell apart. `CHECK_DEADLOCK FALSE` stands where the system may
really stop: the server
has stopped, the clients are gone, the command has returned, or the bounds are used up.

### Fairness

Only the program's own steps and the kernel's are fair. A thread that can go on
does: Windows schedules every ready thread, and no code here waits for anything but
what the guards name (`WF` per thread). A pending read that can complete does, and
posted packets are delivered. A timeout, once armed, expires. Nothing is assumed of
the console, the shell, the user, other clients, or of a
daemon that dies, nor that a client reads what it is sent. In `ConPty` the threads, and
the owner inside `create` and the destructor, are fair; nobody has to destroy a
terminal or end a shell. Fairness stops with `crashed`: after undefined behaviour nothing
is owed. Mutexes have weak fairness, which is enough because every holder
releases them in finitely many steps, except in the deadlock that
`session_output_deadlock` shows; `session_output_live` therefore excludes failed reads.

## 4. Proofs

Eight modules, all checked by TLAPS with SMT, Zenon and, for the last step of each
theorem, LS4. Every safety property and every action property of a passing run but
`ReaderIsJoined` is a theorem, for every value of the constants. Hardly any is inductive
as it stands; what each needs besides is the interesting part.

* **OutputBufferProofs.** `TypeCorrect` (also `CursorFollowsCount`): cursor and count
  stay in range and agree until the ring is full. From it, `ImplementsLineHistory`: each
  step of the ring is a step of `LineHistory` or changes nothing there. The core is what
  one stored line does to the sequence read from the oldest slot (`PutAppends`): it
  appends while the ring is filling, and afterwards drops the head as well.
  For the reader beside the writer, `ReadInv` says where the read stands: while nothing
  is written, the lines copied are those from the start slot on (`QuietSoFar`); while the
  ring is filling, all slots to copy lie below the cursor (`FillingSoFar`), so no store
  meets the copy. `QuietReadsAreRecent` follows since the two `%` of the code subtract
  the size once at most (`SkipsAdd`), `FillingReadsAreWhole` with the start slot as the
  witness. `KeepsHistoryInSteps` is the refinement again for single stores: a line enters
  the history with the store to its slot, and moving the cursor on is a stutter.
* **IpcServerProofs**, without writes: `OverlappedHasOneUser`, `OneThreadAccepts`,
  `WorkersFindTheirClient`. That a thread may take a packet follows from the client being
  owned by nobody else, which follows from an operation being posted only by its owner.
  `Inv` adds what start and the fresh ids look like (`Startup`, `Fresh`), that the owner
  of a client has one (`OwnersHaveClients`), and what the client's phase says of its
  operation (`Phases`). `PresenceInv`: a worker that has not exited is in `m_workers`, so
  `stop` cannot clear the map before every worker has exited, and an operation under way
  belongs to a client in the map. `NoneErasedPending` and `AcceptingGoesOn` are step
  properties from these two. `DisconnectReportedOnce` needs `NoticeInv`: of a client whose
  disconnect is reported, or about to be, nothing is left, and its id is not given out
  again. `BytesStayInOrder` needs `ByteInv`: the read buffer holds bytes only between
  the completion of a read and its append, the line buffer none while a worker splits
  what it took from it, and the concatenation handled, taken, line buffer, read buffer,
  pipe is preserved by each step that moves bytes.
* **IpcServerProofs**, with writes: `ServerWritesSafely` and `WritersKeepClients` carry
  the above over. All steps of the server are steps of `IpcServer`, except that a worker
  that took the packet of a write goes back to the loop (`LeavesPort`), for which the
  invariants are proved again. `TextIsFreedLast` by `WriteInv`: nobody waits without the
  mutex, and a client that no wait was given up for has one pending write at most, whose
  text is there. `NoneFreedInWrite` by `GoneInv`: each statement from which a context is
  erased is reached only once the client has left or `stop` has closed its pipe, and a
  pipe that is not open has no write pending.
* **SessionOutputProofs.** `ChunksInOrder`, `ExitEndsOutput`, `DetachEndsAll`,
  `NothingIsMissed`. The argument rests on `m_listenersMutex`: a broadcast holds it from
  the first listener to the last (`Holding`), so the list it walks stands still and each
  listener is ahead of it or served (`Ahead`, `OutputsAreOld`, `ExitWasSent`). Where a
  request stands says which of the two lists its client is in (`Stages`, `Listening`).
  `NothingMissing` is `NoOutputMissed` for a client whose history is still in the hands
  of its worker. What `removeClientListeners` leaves of a list (`Without`) is a recursive function;
  what it computes is proved with the least number for which it would fail.
* **SessionLifecycleProofs.** For any number of workers, sessions and restarts:
  `ShellsAreReachable`, `EntriesAreAlive`. The strengthening says that an id is created
  and made by one worker (`Creating`, `MadeByOne`), that nothing exists of an id before
  that (`Fresh`, `BusyWithMade`), that a kill which has found its session found it made
  (`FoundIsMade`), and the order inside a kill: shell, entry, Session (`KillOrder`).
  Neither theorem needs that the map is locked, because `crashed` ends the daemon
  where the races would corrupt it; they are about the order of the code's own steps.
* **ConPtyProofs.** `LeakFree`, `ClosesOnce`: from the console on, the open handles are
  those the object holds, or none when `create` closed them (`OpenIsHeld`,
  `PipesOfCreate`), and at each step of the destructor what is left to close is what it
  still holds (`HeldSoFar`). `Contiguous`: a chunk is what was taken last, and nothing is
  delivered before the callback is set (`ChunkIsTaken`). `LeftInSlippedRead`: the
  cancellation ends a pending read and a read after the closing finds no handle, so only
  a callback, or a read issued between the two, can outlast the wait.
* **IpcClientProofs.** `ScreenInOrder`: the outputs on their way, message and pipe, are
  consecutive numbers that end with the last broadcast (`PipeInv`), which is the last in
  the history or the one before it (`WrittenFirst`); the answer to attach carries the
  history, and what is behind it is later but for that one chunk; the callback is set
  after that answer (`ScreenInv`), so what comes goes on where the screen stops.
  `CurrentIsPending`: where the main thread is says which requests it has made, and
  whether the read thread runs (`ThreadsInv`).
* **IpcExchangeProofs.** `RequestsArrive`: `fromJson` undoes `toJson` for each kind of
  payload, optionals left out among them (`PayloadArrives`), and `deserialize` undoes
  `serialize` (`RequestIsRead`). `OutcomeReturns`: no result of a handler has the member
  that the client uses for errors (`OutcomesSettle`), so result and exception both come
  back (`AnswerIsTaken`), and an event settles nothing (`EventIsTaken`). `OneKind`: the
  type member alone decides (`TypeDecides`). Of `dump` only that it gives the value back
  or throws is used.
* **DaemonLifecycleProofs.** For any number of commands, inits and daemons, any bound of
  the wait, any files of the user, and a user who writes at any time: `ServedFound` by
  `ServedInv`, which adds that `served` holds only daemons that listen now and that
  nothing is served before the search begins, so that both looks at the pipe must
  succeed and only the exception of the removal is left (`ServedStep`); `TornByDeath`
  from the types alone, since only a death, a failed write or a longer text of the user
  ends a writing without its text; and `UserFileKept` by
  `OvertakenInv`: while a text of the user is there, every process between its check and
  the end of its write is one that the user overtook.

The type invariants are proved as parts of these (`TypeCorrect`, `TypeInvariant`).
Assumptions on the constants are the named ASSUMEs of each module: sets of threads
are disjoint, bounds are naturals, the values of an unreadable file are not sets
of ids. TLC evaluates them in every run. Each inductive invariant was checked by TLC on
the instance of its run before it was proved.

Model-checked only: all liveness (`StopTerminates`, `PendingReadNotices`,
`RequestsAreHandled`, `RequestsAnswered`, `ExitAnnounced`, `ExitReleasesPty`,
`RequestReturns`, `DestructorReturns`), which with ENABLED and fairness is beyond the
prover. `ReaderIsJoined`, little more than the guard of `JoinReader`, is proved as a part
of `ThreadsInv` and has no theorem of its own. The refuted properties have nothing to prove.

## 5. Stated, refuted, and not repeated as runs

Each module ends with properties that the repository's words ask for and the code
does not keep. Those without a run of their own were refuted by TLC on the instance
given here; the formulas stay in the modules so that a fix can be checked.

| Property | Module | Instance | What happens |
|---|---|---|---|
| `EveryDisconnectNoticed` | `IpcServer` | 1 worker, 1 client, no bytes, no stops, `FairSpec` | a client that leaves between two reads is never noticed, IpcServer.cpp:489 |
| `AlwaysAccepting` | `IpcServer` | 2 clients, no bytes, no stops, `Spec` | one failed accept (a client that leaves before ConnectNamedPipe is enough) and nobody accepts again, IpcServer.cpp:458 |
| `HandlesAreOwned` | `IpcServer` | the same | a context is erased with its pipe handle open, IpcServer.cpp:350 |
| `TextIsThere` | `IpcServerSend` | that of `ipc_server_live` | a wait of 5 s ends and the text is freed while its write is pending, IpcServer.cpp:201 |
| `ConnectedClientsMatches` | `SessionOutput` | 2 clients, no chunks, `Spec` | two workers change the client set and the count at once, Session.cpp:13 |
| `DisconnectedLeavesSession` | `SessionOutput` | 1 client, no failed reads, `FairSpec` | the disconnect callback walks the file, which an exited session has left, DaemonMain.cpp:253 |
| `PtyUsedAlive` | `SessionOutput` | 1 client, no chunks, `Spec` | the exit thread frees the terminal between test and use, DaemonMain.cpp:211 |
| `RegistryMatches` | `SessionLifecycle` | 2 workers, 2 sessions, only `new`, no exits | two sessions are created at once, one is missing from the file, JsonStorage.hpp:101 |
| `DaemonSurvives` | `SessionLifecycle` | 1 worker, 1 session, `new` and `kill`, no exits | a kill races with the exit thread it wakes, SessionManager.cpp:123 |
| `ExitedLeavesRegistry` | `SessionLifecycle` | 1 worker, 1 session, only `new`, `FairSpec` | an exit before createSession has inserted the session is not handled, SessionManager.cpp:85 |
| `StrayShellsAreLoaded` | `SessionLifecycle` | 1 worker, 1 session, exits, 1 restart, `Spec` | a shell outlives its daemon: cleanup keeps its entry, initialize puts nothing in the map, and no kill finds it, SessionManager.cpp:17 |
| `LostRequestReturns` | `IpcClient` | 2 requests, 1 chunk, the daemon may die, `FairSpec` | a request without a timeout waits for a daemon that is gone, IpcClient.cpp:137 |
| `NoOutputDropped` | `IpcClient` | 2 requests, 2 chunks, `Spec` | events that come before the callback is set are dropped, CliApp.cpp:513 |
| `LossIsReported` | `IpcClient` | 2 requests, the daemon may die, `Spec` | the disconnect callback is set after the loss, CliApp.cpp:525 |
| `DisconnectReturns` | `IpcClient` | 2 requests, `FairSpec` | a read is cancelled before it is issued, then joined, IpcClient.cpp:83 |
| `ReadsAreWhole` | `HistoryRead` | that of `output_buffer` | once the ring is full, a line is copied while it is overwritten, OutputBuffer.cpp:66 |
| `EveryTextIsSent` | `IpcExchange` | that of `ipc_exchange` | `dump` throws on text that is not UTF-8, and nothing catches it, IpcMessage.cpp:146 |
| `DaemonSurvivesOutput` | `ConPty` | that of `conpty` | the same for output whose character is cut by the end of a read buffer |
| `FailedCreateIsClean` | `ConPty` | the same | a `create` that fails behind the console closes three handles twice, ConPty.cpp:197 |
| `ReadsAreCancelled` | `ConPty` | the same | a read issued between `CancelIoEx` and `CloseHandle` outlasts the wait for its thread, ConPty.cpp:245 |
| `NotUsedAfterFree` | `ConPty` | the same | a thread the destructor gave up waiting for goes on with the freed object, ConPty.cpp:258 |
| `ExistingConfigKept` | `DaemonLifecycle` | that of `daemon` | `init` truncates what the user has written since it looked for the file, ConfigManager.cpp:198 |
| `RunningDaemonIsFound` | `DaemonLifecycle` | the same | a command takes a PID file that is just being written for stale, and removing it throws, though a daemon listens, CliApp.cpp:116 |

Seen while modelling, and part of the models without a property of their own:

* Two daemons can serve one pipe name: two commands launch one each, or `th` is typed
  in a session, whose shell inherits `TERMINALHUB_DAEMON` (`RunInside`).
* A shutdown stops the server and leaves the process and its PID file
  (DaemonMain.cpp:283, `Stop`).
* A chunk can be shown twice: it is written to the history and then broadcast
  (SessionManager.cpp:70), and an attach that subscribes and reads the history in between
  is sent it both ways. `ShownInOrder` of `IpcClient` admits it right after the history.
* `CloseHandle` on the output pipe may wait for a read that slipped in after
  `CancelIoEx`, until the shell prints again (`CloseOut`, "blocked" in `ConPty`);
  `DestructorReturns` makes that exception.
* Nobody looks whether the text of the configuration or of the PID file reached the disk
  (ConfigManager.cpp:205, DaemonMain.cpp:93): `InitWrite` and `WritePidFile` may leave an
  empty file and go on.
* The commands return an error code that their CLI callbacks ignore, so that the exit
  status is 0.

## 6. Not modelled

* Failures of the operating system in `IpcServer::start` beyond the three outcomes that
  `DaemonLifecycle` distinguishes; that CreateEvent fails in `_sendRawLocked`; the
  connect callback of the server, which is never set.
* Formatting, logging, paths, sizes of terminals (columns and rows are narrowed to 16
  bits in ConPty.cpp without a check, which no other code depends on).
* The wait of the client's `_sendRaw` for its write, without a limit (IpcClient.cpp:345),
  and the client's line buffer (`_handleData`); that two stops may close the completion
  port twice (IpcServer.cpp:125); the Shutdown command as a line in `IpcExchange`, which
  no command of the program asks for.
* `ConPty::write` and `resize`, which change nothing that the program reads, and the
  moves, which nobody uses.
* The attach handler as a user of the map in `SessionLifecycle`: it is one more
  search of the map, like that of a rename. `list` and `get` of the registry, and the
  metadata it keeps beside the ids.
* The command line grammar and the tables that commands print.
* `Core` (results and logging), tests and build files: no state that a property is
  about.

## 7. Plan

Done, in this order: `OutputBuffer` (the small pure core, abstract specification and
refinement), `IpcServer` (the most shared state), `SessionOutput` (the product's
main promise), `IpcClient`, `SessionLifecycle`; then `DaemonLifecycle` with
`ConfigStore`, `ConPty`, `HistoryRead`, `IpcMessage` with `IpcExchange`, and
`IpcServerSend`.

Next, extending the model: `AttachSession`, server, session and client composed over
one pipe, to check the whole way of a chunk from shell to screen; and what remains in
the pipe of a terminal when the shell ends.

Proofs follow the model: every safety property of a run has its theorem (section 4). Next
would be `ServerWritesSafely` for the step properties (`ErasedWhenIdle`,
`AcceptingEndsByFailure`) and, for `SessionOutput`, a specification of what one client is
sent, which the four theorems about it amount to.
