------------------------------- MODULE IpcServer -------------------------------
(***************************************************************************)
(* The named-pipe server of the daemon (IPC/IpcServer.cpp): a pool of       *)
(* worker threads that serve one I/O completion port, the thread that       *)
(* starts the server, and the threads that stop it.                         *)
(*                                                                          *)
(* Every client instance has one OVERLAPPED for its connect and its reads.  *)
(* op[c] is where that operation is: not issued, pending in the kernel, or  *)
(* completed with its packet queued at the port.  A section of code under   *)
(* m_clientsMutex is one action, except the disconnect path that calls the  *)
(* callback with the mutex held: holder is the thread inside it.            *)
(*                                                                          *)
(* Bytes are numbered per client in the order they are sent; the ones in    *)
(* LineEnds end a request.  Writes and their packets are in IpcServerSend.  *)
(***************************************************************************)
EXTENDS Integers, Sequences, FiniteSets

CONSTANTS Workers,          \* the worker threads
          Main,             \* the thread that calls start
          CtrlThreads,      \* console handlers: stop under g_shutdownMutex
          ShutdownThreads,  \* detached by the shutdown command: stop without it
          MaxClients,       \* bound on the pipe instances created
          MaxSent,          \* bound on the bytes a client sends
          LineEnds,         \* which of its bytes are \n
          None              \* no thread

Stoppers == CtrlThreads \cup ShutdownThreads
Threads == Workers \cup {Main}
Clients == 1 .. MaxClients

ASSUME ThreadsAssumption ==
    /\ Main \notin Workers /\ None \notin Threads \cup Stoppers
    /\ Stoppers \cap Threads = {} /\ CtrlThreads \cap ShutdownThreads = {}
    /\ IsFiniteSet(Workers)
ASSUME BoundsAssumption == MaxClients \in Nat /\ MaxSent \in Nat

VARIABLES
  m_running, m_nextClientId,
  m_workers,        \* the thread objects in the vector
  m_clients,        \* the ids in the map
  connected,        \* ctx->connected
  state,            \* ctx->state
  readBuffer,       \* what the completed read put there, not yet appended
  lineBuffer,       \* ctx->lineBuffer
  op,               \* the client's OVERLAPPED
  peer,             \* the other end of the pipe instance
  handles,          \* the instances whose pipe handle is open
  wire, sent,       \* bytes in the pipe, and how many the client sent
  handled,          \* the bytes of the requests handled, in order
  notified,         \* calls of m_onClientDisconnect
  pc, cur, kind,    \* per thread: where it is, its client, its packet
  local,            \* the lineBuffer of _handleData
  holder,           \* the thread that holds m_clientsMutex across actions
  shutdowns,        \* shutdown packets at the port
  shutdownMutex,    \* holder of g_shutdownMutex
  crashed           \* undefined behaviour ended the process

flags == <<m_running, m_nextClientId, m_workers>>
table == <<m_clients, connected, state, crashed>>
pipes == <<op, peer, handles>>
packet == <<cur, kind>>
data == <<readBuffer, lineBuffer, wire, sent, handled, local>>
calls == <<notified, holder>>
stopping == <<shutdowns, shutdownMutex>>
vars == <<flags, table, pipes, pc, packet, data, calls, stopping>>

Completed == {"connected", "data", "eof", "failed"}
Accepting == {"markConnected", "postFirstRead", "acceptNext", "accept", "insert",
              "listen", "cleanup"}
Reading == {"append", "take", "frame", "postRead", "eof", "notify", "failed",
            "notifyLocked"}
ThreadLabels == {"start", "spawn", "loop", "wait", "lookup", "exited"}
                  \cup Accepting \cup Reading
StopLabels == {"idle", "check", "clear", "post", "join", "close", "done"}

TypeOK ==
    /\ m_running \in BOOLEAN /\ crashed \in BOOLEAN
    /\ m_nextClientId \in 1 .. MaxClients + 1
    /\ m_workers \subseteq Workers
    /\ m_clients \subseteq Clients /\ handles \subseteq Clients
    /\ connected \in [Clients -> BOOLEAN]
    /\ state \in [Clients -> {"Connecting", "Connected"}]
    /\ op \in [Clients -> {"idle", "connecting", "reading"} \cup Completed]
    /\ peer \in [Clients -> {"none", "listening", "open", "gone"}]
    /\ sent \in [Clients -> 0 .. MaxSent]
    /\ \A buffer \in {readBuffer, lineBuffer, wire, handled} :
          buffer \in [Clients -> Seq(Nat)]
    /\ notified \in [Clients -> Nat]
    /\ pc \in [Threads \cup Stoppers -> ThreadLabels \cup StopLabels]
    /\ \A t \in Threads : pc[t] \in ThreadLabels
    /\ \A s \in Stoppers : pc[s] \in StopLabels
    /\ cur \in [Threads -> Clients \cup {0}]
    /\ kind \in [Threads -> Completed \cup {"none"}]
    /\ local \in [Threads -> Seq(Nat)]
    /\ holder \in Threads \cup {None}
    /\ shutdowns \in Nat
    /\ shutdownMutex \in CtrlThreads \cup {None}

Init ==
    /\ m_running = FALSE /\ m_nextClientId = 1
    /\ m_workers = {} /\ m_clients = {}
    /\ connected = [c \in Clients |-> FALSE]
    /\ state = [c \in Clients |-> "Connecting"]
    /\ readBuffer = [c \in Clients |-> <<>>] /\ lineBuffer = readBuffer
    /\ wire = readBuffer /\ handled = readBuffer
    /\ op = [c \in Clients |-> "idle"]
    /\ peer = [c \in Clients |-> "none"]
    /\ handles = {}
    /\ sent = [c \in Clients |-> 0] /\ notified = sent
    /\ pc = [t \in Threads \cup Stoppers |->
               IF t = Main THEN "start" ELSE IF t \in Workers THEN "exited" ELSE "idle"]
    /\ cur = [t \in Threads |-> 0]
    /\ kind = [t \in Threads |-> "none"]
    /\ local = [t \in Threads |-> <<>>]
    /\ holder = None /\ shutdowns = 0 /\ shutdownMutex = None
    /\ crashed = FALSE

-----------------------------------------------------------------------------
Goto(t, label) == pc' = [pc EXCEPT ![t] = label]

\* Mutants: start goes on accepting; a worker serves one packet only.
ReturnToAccept(t) == Goto(t, IF t = Main THEN "accept" ELSE "loop")
ReturnForGood(t) == Goto(t, "exited")

\* Leaving _acceptConnection or an iteration of the worker loop.
Return(t) == Goto(t, IF t = Main THEN "exited" ELSE "loop")

Locked == holder = None

\* m_clients[clientId] in _acceptConnection runs without the mutex: a change of
\* the map that overlaps it is a data race.
MayRace == crashed' \in {FALSE} \cup {pc[t] = "listen" : t \in Threads}

\* Mutants: the context is marked but stays in the map; the map is cleared.
EraseMarksOnly(gone) == /\ UNCHANGED m_clients
                        /\ connected' = [c \in Clients |-> connected[c] /\ c \notin gone]
                        /\ MayRace
EraseAll(gone) == /\ m_clients' = {}
                  /\ connected' = [c \in Clients |-> FALSE]
                  /\ MayRace

\* Contexts leave the map (and nothing closes their handles).
Erase(gone) == /\ m_clients' = m_clients \ gone
               /\ connected' = [c \in Clients |-> connected[c] /\ c \notin gone]
               /\ MayRace

\* A read of client c completes with the first bytes of its pipe.
Transfer(c) == \E n \in 1 .. Len(wire[c]) :
                  /\ readBuffer' = [readBuffer EXCEPT ![c] = SubSeq(wire[c], 1, n)]
                  /\ wire' = [wire EXCEPT ![c] = SubSeq(@, n + 1, Len(@))]
                  /\ op' = [op EXCEPT ![c] = "data"]

-----------------------------------------------------------------------------
(* start *)

Start == /\ pc[Main] = "start"
         /\ m_running' = TRUE
         /\ Goto(Main, "spawn")
         /\ UNCHANGED <<m_nextClientId, m_workers, table, pipes, packet, data, calls,
                        stopping>>

SpawnWorkers ==
    /\ pc[Main] = "spawn"
    /\ m_workers' = Workers
    /\ pc' = [t \in DOMAIN pc |-> IF t \in Workers THEN "loop"
                                  ELSE IF t = Main THEN "accept" ELSE pc[t]]
    /\ UNCHANGED <<m_running, m_nextClientId, table, pipes, packet, data, calls, stopping>>

-----------------------------------------------------------------------------
(* _acceptConnection *)

CreateInstance(t) ==
    /\ pc[t] = "accept" /\ m_nextClientId <= MaxClients
    /\ cur' = [cur EXCEPT ![t] = m_nextClientId]
    /\ m_nextClientId' = m_nextClientId + 1
    /\ peer' = [peer EXCEPT ![m_nextClientId] = "listening"]
    /\ handles' = handles \cup {m_nextClientId}
    /\ Goto(t, "insert")
    /\ UNCHANGED <<m_running, m_workers, table, op, kind, data, calls, stopping>>

\* CreateNamedPipe or its association with the port fails: the thread returns.
CreateInstanceFails(t) ==
    /\ pc[t] = "accept"
    /\ Return(t)
    /\ UNCHANGED <<flags, table, pipes, packet, data, calls, stopping>>

InsertClient(t) ==
    /\ pc[t] = "insert" /\ Locked
    /\ m_clients' = m_clients \cup {cur[t]}
    /\ connected' = [connected EXCEPT ![cur[t]] = TRUE]
    /\ state' = [state EXCEPT ![cur[t]] = "Connecting"]
    /\ Goto(t, "listen")
    /\ UNCHANGED <<crashed, flags, pipes, packet, data, calls, stopping>>

\* The context is looked up again, then ConnectNamedPipe is called: a client may
\* have connected, and even left, since the instance was created.
ListenPending(t) ==
    /\ pc[t] = "listen" /\ cur[t] \in m_clients /\ peer[cur[t]] = "listening"
    /\ op' = [op EXCEPT ![cur[t]] = "connecting"]
    /\ Return(t)
    /\ UNCHANGED <<flags, table, peer, handles, packet, data, calls, stopping>>

ListenDone(t) ==
    /\ pc[t] = "listen" /\ cur[t] \in m_clients /\ peer[cur[t]] # "listening"
    /\ Goto(t, IF peer[cur[t]] = "open" THEN "markConnected" ELSE "cleanup")
    /\ UNCHANGED <<flags, table, pipes, packet, data, calls, stopping>>

\* If stop has cleared the map meanwhile, the lookup makes a null context.
ListenOnNull(t) ==
    /\ pc[t] = "listen" /\ cur[t] \notin m_clients
    /\ crashed' = TRUE
    /\ UNCHANGED <<flags, m_clients, connected, state, pipes, pc, packet, data, calls,
                   stopping>>

\* _cleanupClient
CleanupClient(t) ==
    /\ pc[t] = "cleanup" /\ Locked
    /\ Erase({cur[t]})
    /\ handles' = handles \ {cur[t]}
    /\ Return(t)
    /\ UNCHANGED <<flags, state, op, peer, packet, data, calls, stopping>>

\* The connection is there, by packet or at once.
MarkConnected(t) ==
    /\ pc[t] = "markConnected" /\ Locked
    /\ state' = IF cur[t] \in m_clients
                THEN [state EXCEPT ![cur[t]] = "Connected"] ELSE state
    /\ Goto(t, "postFirstRead")
    /\ UNCHANGED <<flags, m_clients, connected, crashed, pipes, packet, data, calls,
                   stopping>>

\* Mutant: a connection that was there at once is not followed by the next accept.
AcceptAfterPacket(t) ==
    /\ pc[t] = "acceptNext"
    /\ IF m_running /\ kind[t] = "connected" THEN Goto(t, "accept") ELSE Return(t)
    /\ UNCHANGED <<flags, table, pipes, packet, data, calls, stopping>>

AcceptNext(t) ==
    /\ pc[t] = "acceptNext"
    /\ IF m_running THEN Goto(t, "accept") ELSE Return(t)
    /\ UNCHANGED <<flags, table, pipes, packet, data, calls, stopping>>

-----------------------------------------------------------------------------
(* _postRead *)

\* ReadFile takes what is in the pipe, or waits for the client; on a broken pipe
\* it fails at once, without a packet.
PostRead(t) ==
    LET c == cur[t]
        live == c \in m_clients /\ connected[c]
    IN  /\ pc[t] \in {"postFirstRead", "postRead"} /\ Locked
        /\ IF pc[t] = "postRead" THEN Return(t) ELSE Goto(t, "acceptNext")
        /\ IF live /\ wire[c] # <<>>
           THEN Transfer(c)
           ELSE /\ op' = IF live /\ peer[c] = "open"
                         THEN [op EXCEPT ![c] = "reading"] ELSE op
                /\ UNCHANGED <<readBuffer, wire>>
        /\ connected' = IF live /\ wire[c] = <<>> /\ peer[c] = "gone"
                        THEN [connected EXCEPT ![c] = FALSE] ELSE connected
        /\ UNCHANGED <<flags, m_clients, state, crashed, peer, handles, packet,
                       lineBuffer, sent, handled, local, calls, stopping>>

-----------------------------------------------------------------------------
(* _workerThread *)

Loop(w) ==
    /\ pc[w] = "loop"
    /\ Goto(w, IF m_running THEN "wait" ELSE "exited")
    /\ UNCHANGED <<flags, table, pipes, packet, data, calls, stopping>>

\* A packet taken after m_running was reset is dropped with the worker.
TakePacket(w, c) ==
    /\ pc[w] = "wait" /\ op[c] \in Completed
    /\ op' = [op EXCEPT ![c] = "idle"]
    /\ cur' = [cur EXCEPT ![w] = c]
    /\ kind' = [kind EXCEPT ![w] = op[c]]
    /\ Goto(w, IF ~m_running THEN "exited"
               ELSE IF op[c] = "failed" THEN "failed" ELSE "lookup")
    /\ UNCHANGED <<flags, table, peer, handles, data, calls, stopping>>

TakeShutdown(w) ==
    /\ pc[w] = "wait" /\ shutdowns > 0
    /\ shutdowns' = shutdowns - 1
    /\ Goto(w, "exited")
    /\ UNCHANGED <<flags, table, pipes, packet, data, calls, shutdownMutex>>

\* Which client the packet is for and whether it was connecting.
Lookup(w) ==
    /\ pc[w] = "lookup" /\ Locked
    /\ Goto(w, IF cur[w] \notin m_clients THEN "loop"
               ELSE IF state[cur[w]] = "Connecting" THEN "markConnected"
               ELSE IF kind[w] = "eof" THEN "eof" ELSE "append")
    /\ UNCHANGED <<flags, table, pipes, packet, data, calls, stopping>>

\* A read of no bytes: the callback runs after the mutex is released.
ReadEof(w) ==
    /\ pc[w] = "eof" /\ Locked
    /\ Erase({cur[w]})
    /\ Goto(w, "notify")
    /\ UNCHANGED <<flags, state, pipes, packet, data, calls, stopping>>

\* Mutant: the callback is forgotten on this path.
ReadFailedQuietly(w) ==
    /\ pc[w] = "failed" /\ Locked
    /\ IF cur[w] \in m_clients
       THEN Erase({cur[w]}) ELSE UNCHANGED <<m_clients, connected, crashed>>
    /\ Goto(w, "loop")
    /\ UNCHANGED <<flags, state, pipes, packet, data, calls, stopping>>

\* A failed read: the callback runs with the mutex held.
ReadFailed(w) ==
    /\ pc[w] = "failed" /\ Locked
    /\ IF cur[w] \in m_clients
       THEN Erase({cur[w]}) /\ holder' = w /\ Goto(w, "notifyLocked")
       ELSE Goto(w, "loop") /\ UNCHANGED <<m_clients, connected, crashed, holder>>
    /\ UNCHANGED <<flags, state, pipes, packet, data, notified, stopping>>

OnClientDisconnect(w) ==
    /\ pc[w] \in {"notify", "notifyLocked"}
    /\ notified' = [notified EXCEPT ![cur[w]] = @ + 1]
    /\ holder' = IF holder = w THEN None ELSE holder
    /\ Goto(w, "loop")
    /\ UNCHANGED <<flags, table, pipes, packet, data, stopping>>

\* Mutants: the new data replaces the incomplete line; the next read is posted
\* before the data of this one is handled.
AppendOverwrites(w) ==
    /\ pc[w] = "append" /\ Locked
    /\ lineBuffer' = [lineBuffer EXCEPT ![cur[w]] = readBuffer[cur[w]]]
    /\ readBuffer' = [readBuffer EXCEPT ![cur[w]] = <<>>]
    /\ Goto(w, "take")
    /\ UNCHANGED <<flags, table, pipes, packet, wire, sent, handled, local, calls, stopping>>
AppendAndPostRead(w) ==
    /\ pc[w] = "append" /\ Locked
    /\ lineBuffer' = [lineBuffer EXCEPT ![cur[w]] = @ \o readBuffer[cur[w]]]
    /\ readBuffer' = [readBuffer EXCEPT ![cur[w]] = <<>>]
    /\ op' = [op EXCEPT ![cur[w]] = "reading"]
    /\ Goto(w, "take")
    /\ UNCHANGED <<flags, table, peer, handles, packet, wire, sent, handled, local, calls,
                   stopping>>

AppendData(w) ==
    /\ pc[w] = "append" /\ Locked
    /\ IF cur[w] \in m_clients
       THEN /\ lineBuffer' = [lineBuffer EXCEPT ![cur[w]] = @ \o readBuffer[cur[w]]]
            /\ readBuffer' = [readBuffer EXCEPT ![cur[w]] = <<>>]
            /\ Goto(w, "take")
       ELSE Goto(w, "loop") /\ UNCHANGED <<lineBuffer, readBuffer>>
    /\ UNCHANGED <<flags, table, pipes, packet, wire, sent, handled, local, calls, stopping>>

-----------------------------------------------------------------------------
(* _handleData and _handleRequest *)

TakeLineBuffer(w) ==
    /\ pc[w] = "take" /\ Locked
    /\ IF cur[w] \in m_clients
       THEN /\ local' = [local EXCEPT ![w] = lineBuffer[cur[w]]]
            /\ lineBuffer' = [lineBuffer EXCEPT ![cur[w]] = <<>>]
            /\ Goto(w, "frame")
       ELSE Goto(w, "postRead") /\ UNCHANGED <<local, lineBuffer>>
    /\ UNCHANGED <<flags, table, pipes, packet, readBuffer, wire, sent, handled, calls,
                   stopping>>

EndsAt(bytes) == {i \in DOMAIN bytes : bytes[i] \in LineEnds}
FirstEnd(bytes) == CHOOSE i \in EndsAt(bytes) : \A j \in EndsAt(bytes) : i <= j

\* One line of the loop.  The handler of a shutdown request starts the thread
\* that will stop the server; the response goes out under the mutex.
HandleLine(w) ==
    LET end == FirstEnd(local[w])
    IN  /\ pc[w] = "frame" /\ EndsAt(local[w]) # {} /\ Locked
        /\ handled' = [handled EXCEPT ![cur[w]] = @ \o SubSeq(local[w], 1, end)]
        /\ local' = [local EXCEPT ![w] = SubSeq(@, end + 1, Len(@))]
        /\ \/ UNCHANGED pc
           \/ \E s \in ShutdownThreads : pc[s] = "idle" /\ Goto(s, "check")
        /\ UNCHANGED <<flags, table, pipes, packet, readBuffer, lineBuffer, wire, sent,
                       calls, stopping>>

KeepIncompleteLine(w) ==
    /\ pc[w] = "frame" /\ EndsAt(local[w]) = {}
    /\ IF local[w] # <<>>
       THEN /\ Locked
            /\ lineBuffer' = IF cur[w] \in m_clients
                             THEN [lineBuffer EXCEPT ![cur[w]] = local[w]] ELSE lineBuffer
       ELSE UNCHANGED lineBuffer
    /\ local' = [local EXCEPT ![w] = <<>>]
    /\ Goto(w, "postRead")
    /\ UNCHANGED <<flags, table, pipes, packet, readBuffer, wire, sent, handled, calls,
                   stopping>>

-----------------------------------------------------------------------------
(* stop *)

\* A thread made by the shutdown command is already at "check".
CtrlEvent(s) ==
    /\ s \in CtrlThreads /\ pc[s] = "idle" /\ shutdownMutex = None
    /\ shutdownMutex' = s
    /\ Goto(s, "check")
    /\ UNCHANGED <<flags, table, pipes, packet, data, calls, shutdowns>>

StopReturns(s) ==
    /\ Goto(s, "done")
    /\ shutdownMutex' = IF shutdownMutex = s THEN None ELSE shutdownMutex

CheckRunning(s) ==
    /\ pc[s] = "check"
    /\ IF m_running THEN Goto(s, "clear") /\ UNCHANGED shutdownMutex ELSE StopReturns(s)
    /\ UNCHANGED <<flags, table, pipes, packet, data, calls, shutdowns>>

ClearRunning(s) ==
    /\ pc[s] = "clear"
    /\ m_running' = FALSE
    /\ Goto(s, "post")
    /\ UNCHANGED <<m_nextClientId, m_workers, table, pipes, packet, data, calls, stopping>>

\* Mutants: one packet too few; stop does not wait for the workers.
OnePacketShort == Cardinality(m_workers) - 1
NoWait == TRUE

PacketsToPost == Cardinality(m_workers)
Joined == \A w \in m_workers : pc[w] = "exited"

\* m_workers is read while start may still be filling it, and joined and cleared
\* by whichever stop gets there.
WorkersRace(s) == pc[Main] = "spawn" \/ \E r \in Stoppers \ {s} : pc[r] = "join"

PostShutdowns(s) ==
    /\ pc[s] = "post"
    /\ shutdowns' = shutdowns + PacketsToPost
    /\ Goto(s, "join")
    /\ crashed' \in {FALSE, WorkersRace(s)}
    /\ UNCHANGED <<flags, m_clients, connected, state, pipes, packet, data, calls,
                   shutdownMutex>>

JoinWorkers(s) ==
    /\ pc[s] = "join" /\ Joined
    /\ m_workers' = {}
    /\ Goto(s, "close")
    /\ crashed' \in {FALSE, WorkersRace(s)}
    /\ UNCHANGED <<m_running, m_nextClientId, m_clients, connected, state, pipes, packet, data, calls, stopping>>

\* The completion port is closed with the clients; that a second stop may close it once
\* more, or another handle in its place, is left out.
CloseClients(s) ==
    /\ pc[s] = "close" /\ Locked
    /\ Erase(m_clients)
    /\ handles' = handles \ m_clients
    /\ op' = [c \in Clients |-> IF c \in m_clients THEN "idle" ELSE op[c]]
    /\ StopReturns(s)
    /\ UNCHANGED <<flags, state, peer, packet, data, calls, shutdowns>>

-----------------------------------------------------------------------------
(* The clients and the kernel (external) *)

Connect(c) ==
    /\ peer[c] = "listening" /\ c \in handles
    /\ peer' = [peer EXCEPT ![c] = "open"]
    /\ op' = IF op[c] = "connecting" THEN [op EXCEPT ![c] = "connected"] ELSE op
    /\ UNCHANGED <<flags, table, handles, pc, packet, data, calls, stopping>>

Send(c) ==
    /\ peer[c] = "open" /\ c \in handles /\ sent[c] < MaxSent
    /\ sent' = [sent EXCEPT ![c] = @ + 1]
    /\ wire' = [wire EXCEPT ![c] = Append(@, sent[c] + 1)]
    /\ UNCHANGED <<flags, table, pipes, pc, packet, readBuffer, lineBuffer, handled, local,
                   calls, stopping>>

Leave(c) ==
    /\ peer[c] = "open" /\ c \in handles
    /\ peer' = [peer EXCEPT ![c] = "gone"]
    /\ UNCHANGED <<flags, table, op, handles, pc, packet, data, calls, stopping>>

CompleteRead(c) ==
    /\ op[c] = "reading"
    /\ \/ wire[c] # <<>> /\ Transfer(c)
       \/ /\ wire[c] = <<>> /\ peer[c] = "gone"
          /\ \E end \in {"eof", "failed"} : op' = [op EXCEPT ![c] = end]
          /\ UNCHANGED <<readBuffer, wire>>
    /\ UNCHANGED <<flags, table, peer, handles, pc, packet, lineBuffer, sent, handled,
                   local, calls, stopping>>

-----------------------------------------------------------------------------
Accept(t) == \/ CreateInstance(t) \/ CreateInstanceFails(t) \/ InsertClient(t)
             \/ ListenPending(t) \/ ListenDone(t) \/ ListenOnNull(t)
             \/ CleanupClient(t) \/ MarkConnected(t) \/ PostRead(t) \/ AcceptNext(t)

Starter == Start \/ SpawnWorkers \/ Accept(Main)

Worker(w) == \/ Loop(w) \/ TakeShutdown(w) \/ Lookup(w)
             \/ \E c \in Clients : TakePacket(w, c)
             \/ ReadEof(w) \/ ReadFailed(w) \/ OnClientDisconnect(w) \/ AppendData(w)
             \/ TakeLineBuffer(w) \/ HandleLine(w) \/ KeepIncompleteLine(w)
             \/ Accept(w)

Stop(s) == \/ CheckRunning(s) \/ ClearRunning(s) \/ PostShutdowns(s)
           \/ JoinWorkers(s) \/ CloseClients(s)

Next == /\ ~crashed
        /\ \/ Starter
           \/ \E w \in Workers : Worker(w)
           \/ \E s \in Stoppers : CtrlEvent(s) \/ Stop(s)
           \/ \E c \in Clients : Connect(c) \/ Send(c) \/ Leave(c) \/ CompleteRead(c)

Spec == Init /\ [][Next]_vars

\* A thread runs until it blocks, and a read that can complete does.
Fairness == /\ WF_vars(~crashed /\ Starter)
            /\ \A w \in Workers : WF_vars(~crashed /\ Worker(w))
            /\ \A s \in Stoppers : WF_vars(~crashed /\ Stop(s))
            /\ \A c \in Clients : WF_vars(~crashed /\ CompleteRead(c))

FairSpec == Spec /\ Fairness

-----------------------------------------------------------------------------
(* Who may touch a client's OVERLAPPED *)

\* Thread t works on the context of client c.
OwnerLabels == {"insert", "listen", "cleanup", "markConnected", "postFirstRead",
                "lookup", "failed", "eof", "append", "take", "frame", "postRead"}
Owns(t, c) == cur[t] = c /\ pc[t] \in OwnerLabels

\* At most one thread works on a client, and only while no operation of that
\* client is pending or queued: its OVERLAPPED and its buffers are never used
\* twice at once, though no lock protects them between the locked sections.
SingleOwner ==
    \A c \in Clients, t \in Threads :
        Owns(t, c) => /\ op[c] = "idle"
                      /\ \A u \in Threads \ {t} : ~Owns(u, c)

\* At most one thread is accepting, or one connect pending: _acceptConnection
\* increments m_nextClientId without a lock.
Acceptors == {t \in Threads : pc[t] \in Accepting
                                 \/ (pc[t] = "lookup" /\ kind[t] = "connected")}
Awaiting == {c \in Clients : op[c] \in {"connecting", "connected"}}
AtMostOneAcceptor ==
    /\ \A t, u \in Acceptors : t = u
    /\ \A c, d \in Awaiting : c = d
    /\ Acceptors = {} \/ Awaiting = {}

\* A worker's client is in the map: stop clears the map only after it joined the
\* workers, and nobody else erases a client that a worker works on.
OwnedIsPresent ==
    \A w \in Workers, c \in Clients :
        Owns(w, c) /\ pc[w] # "insert" => c \in m_clients

\* Every byte a client has sent is in exactly one place, in order: handled,
\* taken by a worker, kept as an incomplete line, just read, or in the pipe.  Only
\* whole requests reach a handler, however their bytes were split.
Taken(c) == LET takers == {w \in Workers : pc[w] = "frame" /\ cur[w] = c}
            IN  IF takers = {} THEN <<>> ELSE local[CHOOSE w \in takers : TRUE]
NoByteLost ==
    /\ \A c \in m_clients :
          handled[c] \o Taken(c) \o lineBuffer[c] \o readBuffer[c] \o wire[c]
              = [i \in 1 .. sent[c] |-> i]
    /\ \A c \in Clients : handled[c] # <<>> => handled[c][Len(handled[c])] \in LineEnds

\* While the server runs, the chain of accepts ends only where an instance cannot be
\* made or its client has left before it was listened for: each connection, by packet
\* or at once, on whatever thread, is followed by the next accept (_acceptConnection,
\* _workerThread).
AcceptingEndsByFailure ==
    [][m_running /\ Acceptors \cup Awaiting # {} /\ (Acceptors \cup Awaiting)' = {}
           => \E t \in Threads : pc[t] \in {"accept", "cleanup"}]_vars

\* m_onClientDisconnect runs at most once for a client, and only once its
\* context is out of the map.
NotifiedOnce ==
    \A c \in Clients : notified[c] <= 1 /\ (notified[c] = 1 => c \notin m_clients)

\* While no stop has closed the clients, a client leaves the map with no
\* operation outstanding: the kernel never writes to a freed OVERLAPPED.
ErasedWhenIdle ==
    [][\A c \in m_clients \ m_clients' :
          op[c] = "idle" \/ \E s \in Stoppers : pc[s] = "close"]_vars

-----------------------------------------------------------------------------
(* What must happen *)

\* stop returns, whatever the workers are doing when it is called.
StopTerminates ==
    \A s \in Stoppers : pc[s] = "check" ~> (pc[s] = "done" \/ crashed)

\* A client that leaves while its read is pending on an empty pipe is erased and
\* its disconnection notified, unless the server stops first.
PendingReadNotices ==
    \A c \in Clients :
        op[c] = "reading" /\ peer[c] = "gone" /\ wire[c] = <<>>
            ~> (notified[c] = 1 \/ ~m_running \/ crashed)

\* The requests a client has sent in full are handled, even if it has left
\* since, unless the server stops first.
RequestsAreHandled ==
    \A c \in Clients, n \in LineEnds :
        c \in m_clients /\ sent[c] = n /\ state[c] = "Connected" ~>
            ((\E i \in DOMAIN handled[c] : handled[c][i] = n) \/ ~m_running \/ crashed)

-----------------------------------------------------------------------------
(* What the repository says of it, and the code does not keep *)

\* Every client that leaves is removed from the server and its disconnection
\* notified ("Client disconnect handling", DaemonMain.cpp).
EveryDisconnectNoticed ==
    \A c \in Clients :
        c \in m_clients /\ peer[c] = "gone"
            ~> (notified[c] = 1 \/ ~m_running \/ crashed)

\* The server goes on accepting: "Accept next connection" (IpcServer.cpp).
AlwaysAccepting ==
    m_running /\ pc[Main] \notin {"start", "spawn"} => Acceptors \cup Awaiting # {}

\* A pipe handle belongs to a context in the map or to the thread making one
\* (CODE_CONVENTIONS.md asks for RAII wrappers of Windows handles).
HandlesAreOwned ==
    \A c \in handles : c \in m_clients \/ \E t \in Threads : pc[t] = "insert" /\ cur[t] = c
=============================================================================
