----------------------------- MODULE SessionOutput -----------------------------
(***************************************************************************)
(* One session of the daemon and the clients attached to it: the thread     *)
(* that reads the pseudo terminal and broadcasts each chunk (Session.cpp,   *)
(* SessionManager.cpp, ConPty.cpp), the thread that waits for the shell to  *)
(* exit, and the workers that run the handlers of attach, input, resize,    *)
(* detach and of a lost connection (DaemonMain.cpp).                        *)
(*                                                                          *)
(* A worker serves one client at a time and no two serve the same one       *)
(* (SingleOwner of IpcServer), so the worker of client c is called c.  Two  *)
(* mutexes matter: m_listenersMutex of the session and m_clientsMutex of    *)
(* the server.  A section under one of them is one action when nothing in   *)
(* it can block; otherwise the variable of the mutex names its holder.      *)
(*                                                                          *)
(* Chunks of output are numbered.  The buffer is longer than MaxChunks, so  *)
(* the history of OutputBuffer is the chunks 1 .. written.                  *)
(***************************************************************************)
EXTENDS Integers, Sequences, FiniteSets

CONSTANTS Clients,      \* the clients, and the workers that serve them
          Reader,       \* ConPty::_readThreadFunc
          Exiter,       \* ConPty::_exitWatchThreadFunc
          None,         \* no thread
          MaxChunks,    \* bound on the chunks the shell prints
          Commands,     \* the commands the clients send
          FailedReads   \* whether a lost connection may fail the pending read,
                        \* or always completes it with no bytes

Threads == Clients \cup {Reader, Exiter}

ASSUME ThreadsAssumption ==
    /\ Reader \notin Clients /\ Exiter \notin Clients /\ Reader # Exiter
    /\ None \notin Threads /\ IsFiniteSet(Clients)
ASSUME BoundsAssumption == /\ MaxChunks \in Nat /\ FailedReads \in BOOLEAN
                           /\ Commands \subseteq {"attach", "input", "detach"}

VARIABLES
  m_clients, connectedClients, m_onOutputListeners, m_onExitListeners,
  written,          \* chunks in the output buffer
  ptyProcess,       \* the ConPty: usable, being destroyed, freed
  listed,           \* the session is in sessions.json
  served,           \* the clients IpcServer::sendToClient writes to
  m_listenersMutex, m_clientsMutex,
  pc,
  next,             \* the listener a broadcast calls next
  request,          \* what the worker of each client is doing
  size, history,    \* its local results, 0 when out of scope
  here, cli,        \* the client's end: process alive, last command sent
  delivered,        \* the messages written to its pipe, while it is alive
  crashed           \* undefined behaviour ended the daemon

listeners == <<m_onOutputListeners, m_onExitListeners>>
session == <<m_clients, connectedClients>>
mutexes == <<m_listenersMutex, m_clientsMutex>>
locals == <<next, request, size, history>>
peers == <<here, cli>>
vars == <<session, listeners, written, ptyProcess, listed, served, mutexes, pc, locals,
          peers, delivered, crashed>>

WorkerLabels == {"idle", "insert", "erase", "store", "checkPty", "usePty", "addOutput",
                 "addExit", "history", "respond", "post",
                 "removeListeners", "list", "release", "gone"}
ReaderLabels == {"read", "write", "lock", "send", "ended"}
ExiterLabels == {"watch", "reset", "join", "lock", "send", "unregister", "ended"}

Output(n) == [type |-> "output", chunk |-> n]
Exit == [type |-> "exit", chunk |-> 0]
Attached(n) == [type |-> "attached", chunk |-> n]
Detached == [type |-> "detached", chunk |-> 0]
Messages == [type : {"output", "exit", "attached", "detached"}, chunk : Nat]

TypeOK ==
    /\ m_clients \subseteq Clients /\ served \subseteq Clients
    /\ connectedClients \in 0 .. Cardinality(Clients)
    /\ m_onOutputListeners \in Seq(Clients) /\ m_onExitListeners \in Seq(Clients)
    /\ written \in 0 .. MaxChunks
    /\ ptyProcess \in {"alive", "closing", "freed"}
    /\ listed \in BOOLEAN /\ crashed \in BOOLEAN
    /\ m_listenersMutex \in {Reader, Exiter, None}
    /\ m_clientsMutex \in Clients \cup {None}
    /\ pc \in [Threads -> WorkerLabels \cup ReaderLabels \cup ExiterLabels]
    /\ \A c \in Clients : pc[c] \in WorkerLabels
    /\ pc[Reader] \in ReaderLabels /\ pc[Exiter] \in ExiterLabels
    /\ next \in [{Reader, Exiter} -> Nat]
    /\ request \in [Clients -> {"none", "attach", "input", "detach", "disconnect"}]
    /\ size \in [Clients -> 0 .. Cardinality(Clients)]
    /\ history \in [Clients -> 0 .. MaxChunks]
    /\ here \in [Clients -> BOOLEAN]
    /\ cli \in [Clients -> {"new", "attached", "detached"}]
    /\ delivered \in [Clients -> Seq(Messages)]

\* The session has been created and registered; the clients are connected.
Init ==
    /\ m_clients = {} /\ connectedClients = 0
    /\ m_onOutputListeners = <<>> /\ m_onExitListeners = <<>>
    /\ written = 0 /\ ptyProcess = "alive" /\ listed = TRUE
    /\ served = Clients
    /\ m_listenersMutex = None /\ m_clientsMutex = None
    /\ pc = [t \in Threads |-> CASE t = Reader -> "read" [] t = Exiter -> "watch"
                                 [] OTHER -> "idle"]
    /\ next = [t \in {Reader, Exiter} |-> 0]
    /\ request = [c \in Clients |-> "none"]
    /\ size = [c \in Clients |-> 0] /\ history = size
    /\ here = [c \in Clients |-> TRUE] /\ cli = [c \in Clients |-> "new"]
    /\ delivered = [c \in Clients |-> <<>>]
    /\ crashed = FALSE

-----------------------------------------------------------------------------
Goto(t, label) == pc' = [pc EXCEPT ![t] = label]

\* Undefined behaviour, if the condition holds: the daemon may survive it.
MayCrash(condition) == crashed' \in {FALSE, condition}

\* _sendRawLocked: only a client the server still serves is written to.
Deliver(c, message) ==
    delivered' = IF c \in served /\ here[c]
                 THEN [delivered EXCEPT ![c] = Append(@, message)] ELSE delivered

-----------------------------------------------------------------------------
(* The PTY read thread, and broadcastOutput *)

ReadChunk ==
    /\ pc[Reader] = "read" /\ ptyProcess = "alive" /\ written < MaxChunks
    /\ Goto(Reader, "write")
    /\ UNCHANGED <<session, listeners, written, ptyProcess, listed, served, mutexes,
                   locals, peers, delivered, crashed>>

\* outputBuffer.write has ended.
WriteBuffer ==
    /\ pc[Reader] = "write"
    /\ written' = written + 1
    /\ Goto(Reader, "lock")
    /\ UNCHANGED <<session, listeners, ptyProcess, listed, served, mutexes, locals,
                   peers, delivered, crashed>>

\* The read is cancelled by the destructor, or made on a freed object.
ReadFails ==
    /\ pc[Reader] = "read" /\ ptyProcess # "alive"
    /\ MayCrash(ptyProcess = "freed")
    /\ Goto(Reader, "ended")
    /\ UNCHANGED <<session, listeners, written, ptyProcess, listed, served, mutexes,
                   locals, peers, delivered>>

Listeners(t) == IF t = Reader THEN m_onOutputListeners ELSE m_onExitListeners
Event(t) == IF t = Reader THEN Output(written) ELSE Exit

LockListeners(t) ==
    /\ pc[t] = "lock" /\ m_listenersMutex = None
    /\ m_listenersMutex' = t
    /\ next' = [next EXCEPT ![t] = 1]
    /\ Goto(t, "send")
    /\ UNCHANGED <<session, listeners, written, ptyProcess, listed, served,
                   m_clientsMutex, request, size, history, peers, delivered, crashed>>

\* One listener: sendToClient takes m_clientsMutex with m_listenersMutex held.
SendToListener(t) ==
    /\ pc[t] = "send" /\ next[t] <= Len(Listeners(t)) /\ m_clientsMutex = None
    /\ Deliver(Listeners(t)[next[t]], Event(t))
    /\ next' = [next EXCEPT ![t] = @ + 1]
    /\ UNCHANGED <<session, listeners, written, ptyProcess, listed, served, mutexes, pc,
                   request, size, history, peers, crashed>>

\* Mutant: the mutex is left locked when there was nobody to tell.
UnlockIfAny(t) ==
    /\ pc[t] = "send" /\ next[t] > Len(Listeners(t))
    /\ m_listenersMutex' = IF Listeners(t) = <<>> THEN t ELSE None
    /\ next' = [next EXCEPT ![t] = 0]
    /\ Goto(t, IF t = Reader THEN "read" ELSE "unregister")
    /\ UNCHANGED <<session, listeners, written, ptyProcess, listed, served,
                   m_clientsMutex, request, size, history, peers, delivered, crashed>>

UnlockListeners(t) ==
    /\ pc[t] = "send" /\ next[t] > Len(Listeners(t))
    /\ m_listenersMutex' = None
    /\ next' = [next EXCEPT ![t] = 0]
    /\ Goto(t, IF t = Reader THEN "read" ELSE "unregister")
    /\ UNCHANGED <<session, listeners, written, ptyProcess, listed, served,
                   m_clientsMutex, request, size, history, peers, delivered, crashed>>

-----------------------------------------------------------------------------
(* The exit watch thread: _handleSessionExit *)

\* The process handle is signalled, and the session found in m_sessions.
ShellExits ==
    /\ pc[Exiter] = "watch"
    /\ Goto(Exiter, "reset")
    /\ UNCHANGED <<session, listeners, written, ptyProcess, listed, served, mutexes,
                   locals, peers, delivered, crashed>>

\* ptyProcess.reset(): the pointer is null and the pipes are closed from here on.
ResetPty ==
    /\ pc[Exiter] = "reset"
    /\ ptyProcess' = "closing"
    /\ Goto(Exiter, "join")
    /\ UNCHANGED <<session, listeners, written, listed, served, mutexes, locals, peers,
                   delivered, crashed>>

\* A broadcast to anybody may outlast the two waits of 3 s: each of its writes takes up
\* to 5 s, and waits for m_clientsMutex while others write as slowly.
BroadcastIsSlow == pc[Reader] = "send" /\ m_onOutputListeners # <<>>

\* Mutant: the destructor does not wait for the read thread.
NoJoin == /\ pc[Exiter] = "join"
          /\ ptyProcess' = "freed"
          /\ Goto(Exiter, "lock")
          /\ UNCHANGED <<session, listeners, written, listed, served, mutexes, locals,
                         peers, delivered, crashed>>

\* ~ConPty waits for the read thread, then for itself, and frees the object.
JoinReader ==
    /\ pc[Exiter] = "join" /\ (pc[Reader] = "ended" \/ BroadcastIsSlow)
    /\ ptyProcess' = "freed"
    /\ Goto(Exiter, "lock")
    /\ UNCHANGED <<session, listeners, written, listed, served, mutexes, locals, peers,
                   delivered, crashed>>

\* m_registry.remove(sessionId): the id lived in m_onExit, a member of the freed
\* object, so the call may crash, or remove another id or none.
Unregister ==
    /\ pc[Exiter] = "unregister"
    /\ listed' \in {TRUE, FALSE}
    /\ MayCrash(TRUE)
    /\ Goto(Exiter, "ended")
    /\ UNCHANGED <<session, listeners, written, ptyProcess, served, mutexes, locals,
                   peers, delivered>>

-----------------------------------------------------------------------------
(* The requests of a client: attach, then input and resize, then detach *)

Request(c) ==
    /\ pc[c] = "idle" /\ here[c]
    /\ \E command \in Commands :
          /\ request' = [request EXCEPT ![c] = command]
          /\ \/ /\ command = "attach" /\ cli[c] = "new"
                /\ cli' = [cli EXCEPT ![c] = "attached"] /\ Goto(c, "insert")
             \/ /\ command = "input" /\ cli[c] = "attached"
                /\ UNCHANGED cli /\ Goto(c, "checkPty")
             \/ /\ command = "detach" /\ cli[c] = "attached"
                /\ cli' = [cli EXCEPT ![c] = "detached"] /\ Goto(c, "erase")
    /\ UNCHANGED <<session, listeners, written, ptyProcess, listed, served, mutexes,
                   next, size, history, here, delivered, crashed>>

\* m_clients is a std::unordered_set without a lock: a change that overlaps
\* another use of it is a data race.
ClientsRace(c) == \E d \in Clients \ {c} : pc[d] \in {"insert", "erase"}

\* The set changes and its size is read, to be stored in connectedClients later.
ChangeClients(c, clients) ==
    /\ m_clients' = clients
    /\ size' = [size EXCEPT ![c] = Cardinality(clients)]
    /\ MayCrash(ClientsRace(c))
    /\ Goto(c, "store")
    /\ UNCHANGED <<connectedClients, listeners, written, ptyProcess, listed, served,
                   mutexes, next, request, history, peers, delivered>>

AddClient(c) == pc[c] = "insert" /\ ChangeClients(c, m_clients \cup {c})
RemoveClient(c) == pc[c] = "erase" /\ ChangeClients(c, m_clients \ {c})

StoreSize(c) ==
    /\ pc[c] = "store"
    /\ connectedClients' = size[c]
    /\ size' = [size EXCEPT ![c] = 0]
    /\ Goto(c, IF request[c] = "attach" THEN "checkPty" ELSE "removeListeners")
    /\ UNCHANGED <<m_clients, listeners, written, ptyProcess, listed, served, mutexes,
                   next, request, history, peers, delivered, crashed>>

AfterPty(c) == IF request[c] = "attach" THEN "addOutput" ELSE "post"

CheckPty(c) ==
    /\ pc[c] = "checkPty"
    /\ Goto(c, IF ptyProcess = "alive" THEN "usePty" ELSE AfterPty(c))
    /\ UNCHANGED <<session, listeners, written, ptyProcess, listed, served, mutexes,
                   locals, peers, delivered, crashed>>

\* ptyProcess->resize or ->write: the exit thread may have reset the pointer.
UsePty(c) ==
    /\ pc[c] = "usePty"
    /\ MayCrash(ptyProcess # "alive")
    /\ Goto(c, AfterPty(c))
    /\ UNCHANGED <<session, listeners, written, ptyProcess, listed, served, mutexes,
                   locals, peers, delivered>>

\* Mutant: the client is subscribed twice.
SubscribeTwice(c) ==
    /\ pc[c] = "addOutput" /\ m_listenersMutex = None
    /\ m_onOutputListeners' = m_onOutputListeners \o <<c, c>>
    /\ Goto(c, "addExit")
    /\ UNCHANGED <<session, m_onExitListeners, written, ptyProcess, listed, served,
                   mutexes, locals, peers, delivered, crashed>>

AddOutputListener(c) ==
    /\ pc[c] = "addOutput" /\ m_listenersMutex = None
    /\ m_onOutputListeners' = Append(m_onOutputListeners, c)
    /\ Goto(c, "addExit")
    /\ UNCHANGED <<session, m_onExitListeners, written, ptyProcess, listed, served,
                   mutexes, locals, peers, delivered, crashed>>

\* Mutant: the exit listener is forgotten.
AddNoExitListener(c) ==
    /\ pc[c] = "addExit"
    /\ Goto(c, "history")
    /\ UNCHANGED <<session, listeners, written, ptyProcess, listed, served, mutexes,
                   locals, peers, delivered, crashed>>

AddExitListener(c) ==
    /\ pc[c] = "addExit" /\ m_listenersMutex = None
    /\ m_onExitListeners' = Append(m_onExitListeners, c)
    /\ Goto(c, "history")
    /\ UNCHANGED <<session, m_onOutputListeners, written, ptyProcess, listed, served,
                   mutexes, locals, peers, delivered, crashed>>

\* getRecentLines takes no lock: it races with a write of the read thread.
GetHistory(c) ==
    LET racing == pc[Reader] = "write"
    IN  /\ pc[c] = "history"
        /\ \E n \in IF racing THEN {written, written + 1} ELSE {written} :
              history' = [history EXCEPT ![c] = n]
        /\ MayCrash(racing)
        /\ Goto(c, "respond")
        /\ UNCHANGED <<session, listeners, written, ptyProcess, listed, served, mutexes,
                       next, request, size, peers, delivered>>

Respond(c) ==
    /\ pc[c] = "respond" /\ m_clientsMutex = None
    /\ Deliver(c, IF request[c] = "attach" THEN Attached(history[c]) ELSE Detached)
    /\ history' = [history EXCEPT ![c] = 0]
    /\ Goto(c, "post")
    /\ UNCHANGED <<session, listeners, written, ptyProcess, listed, served, mutexes,
                   next, request, size, peers, crashed>>

\* The next read is posted.  If the client has left it fails at once, and nobody
\* hears of it: the server only stops writing to the client (_postRead).
PostRead(c) ==
    /\ pc[c] = "post" /\ m_clientsMutex = None
    /\ served' = IF here[c] THEN served ELSE served \ {c}
    /\ request' = [request EXCEPT ![c] = "none"]
    /\ Goto(c, IF here[c] THEN "idle" ELSE "gone")
    /\ UNCHANGED <<session, listeners, written, ptyProcess, listed, mutexes, next, size,
                   history, peers, delivered, crashed>>

\* erase of remove_if: the entries of the others, in their order.
Without(s, c) ==
    LET kept[i \in 0 .. Len(s)] ==
            IF i = 0 THEN <<>>
            ELSE IF s[i] = c THEN kept[i - 1] ELSE Append(kept[i - 1], s[i])
    IN  kept[Len(s)]

\* Mutants: the exit listener stays; the listeners are erased without the mutex.
RemoveOutputListener(c) ==
    /\ pc[c] = "removeListeners" /\ m_listenersMutex = None
    /\ m_onOutputListeners' = Without(m_onOutputListeners, c)
    /\ Goto(c, IF request[c] = "detach" THEN "respond" ELSE "release")
    /\ UNCHANGED <<session, m_onExitListeners, written, ptyProcess, listed, served,
                   mutexes, locals, peers, delivered, crashed>>
RemoveWithoutLock(c) ==
    /\ pc[c] = "removeListeners"
    /\ m_onOutputListeners' = Without(m_onOutputListeners, c)
    /\ m_onExitListeners' = Without(m_onExitListeners, c)
    /\ Goto(c, IF request[c] = "detach" THEN "respond" ELSE "release")
    /\ UNCHANGED <<session, written, ptyProcess, listed, served, mutexes, locals, peers,
                   delivered, crashed>>

RemoveClientListeners(c) ==
    /\ pc[c] = "removeListeners" /\ m_listenersMutex = None
    /\ m_onOutputListeners' = Without(m_onOutputListeners, c)
    /\ m_onExitListeners' = Without(m_onExitListeners, c)
    /\ Goto(c, IF request[c] = "detach" THEN "respond" ELSE "release")
    /\ UNCHANGED <<session, written, ptyProcess, listed, served, mutexes, locals, peers,
                   delivered, crashed>>

-----------------------------------------------------------------------------
(* A lost connection, noticed by the pending read: m_onClientDisconnect *)

Leave(c) ==
    /\ here[c]
    /\ here' = [here EXCEPT ![c] = FALSE]
    /\ delivered' = [delivered EXCEPT ![c] = <<>>]
    /\ UNCHANGED <<session, listeners, written, ptyProcess, listed, served, mutexes, pc,
                   locals, cli, crashed>>

\* A read of no bytes runs the callback without a lock, a failed read runs it
\* with m_clientsMutex held.
NoticeLeft(c) ==
    /\ pc[c] = "idle" /\ ~here[c] /\ m_clientsMutex = None
    /\ served' = served \ {c}
    /\ request' = [request EXCEPT ![c] = "disconnect"]
    /\ m_clientsMutex' \in {None} \cup (IF FailedReads THEN {c} ELSE {})
    /\ Goto(c, "list")
    /\ UNCHANGED <<session, listeners, written, ptyProcess, listed, m_listenersMutex,
                   next, size, history, peers, delivered, crashed>>

\* The callback finds the session through the registry.
ListSessions(c) ==
    /\ pc[c] = "list"
    /\ Goto(c, IF listed THEN "erase" ELSE "release")
    /\ UNCHANGED <<session, listeners, written, ptyProcess, listed, served, mutexes,
                   locals, peers, delivered, crashed>>

CallbackReturns(c) ==
    /\ pc[c] = "release"
    /\ m_clientsMutex' = IF m_clientsMutex = c THEN None ELSE m_clientsMutex
    /\ request' = [request EXCEPT ![c] = "none"]
    /\ Goto(c, "gone")
    /\ UNCHANGED <<session, listeners, written, ptyProcess, listed, served,
                   m_listenersMutex, next, size, history, peers, delivered, crashed>>

-----------------------------------------------------------------------------
Broadcast(t) == LockListeners(t) \/ SendToListener(t) \/ UnlockListeners(t)

ReaderStep == WriteBuffer \/ ReadFails \/ Broadcast(Reader)

ExiterStep == ResetPty \/ JoinReader \/ Broadcast(Exiter) \/ Unregister

Worker(c) ==
    \/ AddClient(c) \/ RemoveClient(c) \/ StoreSize(c)
    \/ CheckPty(c) \/ UsePty(c) \/ AddOutputListener(c) \/ AddExitListener(c)
    \/ GetHistory(c) \/ Respond(c) \/ PostRead(c) \/ RemoveClientListeners(c)
    \/ NoticeLeft(c) \/ ListSessions(c) \/ CallbackReturns(c)

Next ==
    /\ ~crashed
    /\ \/ ReadChunk \/ ReaderStep
       \/ ShellExits \/ ExiterStep
       \/ \E c \in Clients : Request(c) \/ Leave(c) \/ Worker(c)

Spec == Init /\ [][Next]_vars

\* A thread runs until it blocks.  What the shell and the clients do is free.
Fairness == /\ WF_vars(~crashed /\ ReaderStep)
            /\ WF_vars(~crashed /\ ExiterStep)
            /\ \A c \in Clients : WF_vars(~crashed /\ Worker(c))

FairSpec == Spec /\ Fairness

-----------------------------------------------------------------------------
(* What a client is told *)

Position(s, c) == CHOOSE i \in DOMAIN s : s[i] = c
Got(c, message) == \E i \in DOMAIN delivered[c] : delivered[c][i] = message

\* The broadcast of the last chunk has not come to client c yet.
StillComing(c) ==
    \/ pc[Reader] = "lock"
    \/ pc[Reader] = "send" /\ next[Reader] <= Position(m_onOutputListeners, c)

\* An attached client misses nothing: every chunk in the buffer was in the
\* history it got with the attach response, or was sent to it since, or is being
\* broadcast.  It depends on attach subscribing before it reads the history, and
\* on the listeners not changing during a broadcast.
NoOutputMissed ==
    \A c \in Clients, h \in 0 .. MaxChunks :
        cli[c] = "attached" /\ here[c] /\ Got(c, Attached(h)) =>
            \A n \in h + 1 .. written :
                Got(c, Output(n)) \/ (n = written /\ StillComing(c))

\* A client is sent each chunk at most once, in the order they were printed.
OutputsInOrder ==
    \A c \in Clients : \A i, j \in DOMAIN delivered[c] :
        i < j /\ delivered[c][i].type = "output" /\ delivered[c][j].type = "output"
            => delivered[c][i].chunk < delivered[c][j].chunk

\* Nothing follows the exit event but the answers to the client's own requests:
\* the output that was read before is broadcast before, even when the wait for
\* the read thread times out.
ExitIsLast ==
    \A c \in Clients : \A i, j \in DOMAIN delivered[c] :
        i < j /\ delivered[c][i] = Exit => delivered[c][j].type \notin {"output", "exit"}

\* Nothing follows the detach response: no broadcast that began earlier still
\* sends to the client.
NothingAfterDetach ==
    \A c \in Clients : \A i \in DOMAIN delivered[c] :
        delivered[c][i] = Detached => i = Len(delivered[c])

-----------------------------------------------------------------------------
(* What must happen *)

\* A request, or a lost connection, is dealt with ("handles CLI client requests",
\* IpcServer.hpp).
RequestsAnswered ==
    \A c \in Clients :
        pc[c] \notin {"idle", "gone"} ~> (pc[c] \in {"idle", "gone"} \/ crashed)

\* Every client that is listening when the shell exits, and stays, is told.
ExitAnnounced ==
    \A c \in Clients :
        pc[Exiter] = "reset" /\ cli[c] = "attached" /\ pc[c] = "idle"
            ~> (Got(c, Exit) \/ cli[c] = "detached" \/ ~here[c] \/ crashed)

-----------------------------------------------------------------------------
(* What the repository says of it, and the code does not keep *)

\* The count of a session is the number of its clients (test_session.cpp).
ConnectedClientsMatches ==
    (\A c \in Clients : request[c] = "none") => connectedClients = Cardinality(m_clients)

\* A lost client is removed from the session: "Remove client from all sessions"
\* (DaemonMain.cpp).
DisconnectedLeavesSession ==
    \A c \in Clients : request[c] = "disconnect" ~> (c \notin m_clients \/ crashed)

\* Input and resize of an exited session are refused: "Session not found or
\* exited" (DaemonMain.cpp).
PtyUsedAlive == \A c \in Clients : pc[c] = "usePty" => ptyProcess = "alive"
=============================================================================
