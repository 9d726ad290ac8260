----------------------------- MODULE IpcServerSend -----------------------------
(***************************************************************************)
(* The server with what it writes: sendToClient, broadcast and the answers  *)
(* of _handleRequest (IPC/IpcServer.cpp).  A write is done under            *)
(* m_clientsMutex.  If the pipe is full, the thread waits for the client to *)
(* read, 5 s at most, with the mutex held, and then goes on though the      *)
(* write is still pending.  Every completed write also leaves a packet at   *)
(* the port, which a worker takes and ignores.                              *)
(*                                                                          *)
(* A text is written or pending as a whole; whether it finds room in the    *)
(* pipe depends on sizes that are left out.                                 *)
(***************************************************************************)
EXTENDS IpcServer

CONSTANTS Senders,    \* threads of the sessions, which send events
          MaxEvents   \* bound on the events they send

ASSUME SendersAssumption ==
    /\ Senders \cap (Threads \cup Stoppers \cup {None}) = {}
    /\ MaxEvents \in Nat

VARIABLES
  writer,      \* the thread that writes, with m_clientsMutex
  targets,     \* the clients it has still to write to
  waiting,     \* the client whose hWriteEvent it waits for, 0 for none
  signalled,   \* the clients whose hWriteEvent is set
  pending,     \* per client: its pending writes, each with its text "live" or "freed"
  gaveUp,      \* the clients for which a wait ended without its event
  packets,     \* the packets of completed writes at the port
  ignoring,    \* the workers that have taken one
  events       \* how many events were sent

thread == <<writer, targets, waiting, gaveUp, events>>
pipe == <<signalled, pending>>
port == <<packets, ignoring>>
sending == <<thread, pipe, port>>

SendTypeOK ==
    /\ writer \in Workers \cup Senders \cup {None}
    /\ targets \subseteq Clients /\ signalled \subseteq Clients /\ gaveUp \subseteq Clients
    /\ waiting \in Clients \cup {0}
    /\ pending \in [Clients -> Seq({"live", "freed"})]
    /\ packets \in Nat /\ ignoring \subseteq Workers /\ events \in 0 .. MaxEvents

SendInit ==
    /\ Init
    /\ writer = None /\ targets = {} /\ waiting = 0 /\ gaveUp = {} /\ events = 0
    /\ signalled = {} /\ pending = [c \in Clients |-> <<>>]
    /\ packets = 0 /\ ignoring = {}

-----------------------------------------------------------------------------
(* Who may go on *)

NeedsMutex(t) ==
    \/ pc[t] \in {"insert", "cleanup", "markConnected", "postFirstRead", "postRead", "lookup",
                  "eof", "failed", "append", "take", "close"}
    \/ pc[t] = "frame" /\ local[t] # <<>>

CanGo(t) == t \notin ignoring /\ t # writer /\ (NeedsMutex(t) => writer = None)

-----------------------------------------------------------------------------
(* Sending *)

Lock(t, clients) ==
    /\ writer = None /\ Locked
    /\ writer' = t /\ targets' = clients
    /\ UNCHANGED <<waiting, gaveUp, pipe, port>>

SendToClient(s, c) == /\ events < MaxEvents /\ c < m_nextClientId
                      /\ Lock(s, {c})
                      /\ events' = events + 1
                      /\ UNCHANGED vars

Broadcast(s) == /\ events < MaxEvents
                /\ Lock(s, {c \in m_clients : connected[c] /\ state[c] = "Connected"})
                /\ events' = events + 1
                /\ UNCHANGED vars

\* A handled line is answered, unless it was no request.
Answer(w) == \/ Lock(w, {cur[w]}) /\ UNCHANGED events
             \/ UNCHANGED sending

\* Behind a pending write there is no room.
WriteDone(c) == /\ pending[c] = <<>>
                /\ signalled' = signalled \cup {c}
                /\ packets' = packets + 1
                /\ UNCHANGED <<waiting, pending>>

WritePending(c) == /\ pending' = [pending EXCEPT ![c] = Append(@, "live")]
                   /\ waiting' = c
                   /\ UNCHANGED packets

WriteMutant(c) ==       \* the event stays set from the write before
    /\ writer # None /\ waiting = 0 /\ c \in targets
    /\ targets' = targets \ {c}
    /\ IF c \in m_clients /\ connected[c] /\ peer[c] = "open"
       THEN WriteDone(c) \/ (WritePending(c) /\ UNCHANGED signalled)
       ELSE UNCHANGED <<waiting, pipe, packets>>
    /\ UNCHANGED <<vars, writer, gaveUp, events, ignoring>>

\* _sendRawLocked up to WriteFile: a client that is gone from the map is skipped, one
\* that is not there or no longer there makes the write fail at once.
Write(c) ==
    /\ writer # None /\ waiting = 0 /\ c \in targets
    /\ targets' = targets \ {c}
    /\ IF c \in m_clients /\ connected[c] /\ peer[c] = "open"
       THEN WriteDone(c) \/ (WritePending(c) /\ signalled' = signalled \ {c})
       ELSE UNCHANGED <<waiting, pipe, packets>>
    /\ UNCHANGED <<vars, writer, gaveUp, events, ignoring>>

EndWaitMutant ==        \* waits without a limit
    /\ waiting \in signalled
    /\ waiting' = 0
    /\ UNCHANGED <<vars, writer, targets, gaveUp, events, pipe, port>>

DropSlowMutant ==       \* a client that does not read is dropped
    /\ waiting # 0
    /\ waiting' = 0
    /\ IF waiting \in signalled THEN UNCHANGED <<table, gaveUp>>
       ELSE Erase({waiting}) /\ gaveUp' = gaveUp \cup {waiting} /\ UNCHANGED state
    /\ UNCHANGED <<flags, pipes, pc, packet, data, calls, stopping, writer, targets,
                   events, pipe, port>>

\* By the event, or after 5 s.
EndWait ==
    /\ waiting # 0
    /\ waiting' = 0
    /\ gaveUp' = gaveUp \cup ({waiting} \ signalled)
    /\ UNCHANGED <<vars, writer, targets, events, pipe, port>>

\* The mutex is released, and the text freed.
Unlock ==
    /\ writer # None /\ waiting = 0 /\ targets = {}
    /\ writer' = None
    /\ pending' = [c \in Clients |-> [i \in DOMAIN pending[c] |-> "freed"]]
    /\ UNCHANGED <<vars, targets, waiting, gaveUp, events, signalled, port>>

-----------------------------------------------------------------------------
(* The packets of the writes (_workerThread) *)

TakeWritePacket(w) ==
    /\ pc[w] = "wait" /\ w \notin ignoring /\ packets > 0
    /\ packets' = packets - 1
    /\ IF m_running THEN ignoring' = ignoring \cup {w} /\ UNCHANGED pc
       ELSE Goto(w, "exited") /\ UNCHANGED ignoring
    /\ UNCHANGED <<flags, table, pipes, packet, data, calls, stopping, thread, pipe>>

\* The OVERLAPPED is the write's of some client, or of no client any more.
IgnorePacket(w) ==
    /\ w \in ignoring /\ Locked /\ writer = None
    /\ ignoring' = ignoring \ {w}
    /\ Goto(w, "loop")
    /\ UNCHANGED <<flags, table, pipes, packet, data, calls, stopping, thread, pipe, packets>>

-----------------------------------------------------------------------------
(* The clients and the kernel (external) *)

\* A client reads what a pending write has waited for room for.
Receive(c) ==
    /\ peer[c] = "open" /\ pending[c] # <<>>
    /\ pending' = [pending EXCEPT ![c] = Tail(@)]
    /\ signalled' = signalled \cup {c} /\ packets' = packets + 1
    /\ UNCHANGED <<vars, thread, ignoring>>

\* The pipe ends on one side: pending writes fail, which also completes them.
EndPipes(clients) ==
    LET cut == {c \in clients : pending[c] # <<>>}
    IN  /\ pending' = [c \in Clients |-> IF c \in clients THEN <<>> ELSE pending[c]]
        /\ signalled' = signalled \cup cut
        /\ packets' = packets + Cardinality(cut)
        /\ UNCHANGED <<thread, ignoring>>

-----------------------------------------------------------------------------
WorkerGoes(w) ==
    \/ /\ CanGo(w) /\ Worker(w)
       /\ IF handled' = handled THEN UNCHANGED sending ELSE Answer(w)
    \/ TakeWritePacket(w) \/ IgnorePacket(w)

StopGoes(s) ==
    /\ CanGo(s) /\ Stop(s)
    /\ IF pc[s] = "close" THEN EndPipes(m_clients) ELSE UNCHANGED sending

WriterGoes == (\E c \in Clients : Write(c)) \/ EndWait \/ Unlock

SendNext ==
    /\ ~crashed
    /\ \/ CanGo(Main) /\ Starter /\ UNCHANGED sending
       \/ \E w \in Workers : WorkerGoes(w)
       \/ \E s \in Stoppers : StopGoes(s) \/ (CtrlEvent(s) /\ UNCHANGED sending)
       \/ WriterGoes
       \/ \E s \in Senders : Broadcast(s) \/ \E c \in Clients : SendToClient(s, c)
       \/ \E c \in Clients :
             \/ (Connect(c) \/ Send(c) \/ CompleteRead(c)) /\ UNCHANGED sending
             \/ Leave(c) /\ EndPipes({c})
             \/ Receive(c)

SendSpec == SendInit /\ [][SendNext]_<<vars, sending>>

\* As in IpcServer; the 5 s of a wait pass.  No client has to read, nobody has to send.
SendFairness ==
    LET all == <<vars, sending>>
    IN  /\ WF_all(~crashed /\ CanGo(Main) /\ Starter /\ UNCHANGED sending)
        /\ \A w \in Workers : WF_all(~crashed /\ WorkerGoes(w))
        /\ \A s \in Stoppers : WF_all(~crashed /\ StopGoes(s))
        /\ WF_all(~crashed /\ WriterGoes)
        /\ \A c \in Clients : WF_all(~crashed /\ CompleteRead(c) /\ UNCHANGED sending)

SendFairSpec == SendSpec /\ SendFairness

-----------------------------------------------------------------------------
(* What holds *)

\* A text is freed while its write is pending only if, for that client, a thread has
\* given up before: one event and one OVERLAPPED serve all writes to a client, and
\* the wait for it must not end by an earlier write (_sendRawLocked).
TextOutlivesWrite ==
    \A c \in Clients \ gaveUp : \A i \in DOMAIN pending[c] : pending[c][i] = "live"

\* No context is freed with a write pending on it, though nobody cancels the writes
\* that were given up: the client has left before, which ends them (the erasures of
\* _workerThread, stop).
FreedWhenWritten ==
    [][\A c \in m_clients \ m_clients' : pending'[c] = <<>>]_<<vars, sending>>

-----------------------------------------------------------------------------
(* What does not hold *)

\* Text that is being written is there ("Broadcast / Send", IpcServer.cpp).
TextIsThere == \A c \in Clients : \A i \in DOMAIN pending[c] : pending[c][i] = "live"
=============================================================================
