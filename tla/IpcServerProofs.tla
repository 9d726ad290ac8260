---------------------------- MODULE IpcServerProofs ----------------------------
(***************************************************************************)
(* Proofs about the pipe server, for any number of workers, clients, bytes  *)
(* and stopping threads.  First without its writes: an OVERLAPPED has one   *)
(* user at a time, one thread at most accepts, workers find their client,   *)
(* bytes stay in order, a disconnect is told once.  Then with them: the     *)
(* same holds when writes, their waits and their packets come in between; a *)
(* text is freed while its write is pending only for a client that was      *)
(* given up; no context is freed with a write on it.                        *)
(***************************************************************************)
EXTENDS IpcServerSend, SequenceTheorems, WellFoundedInduction, TLAPS

-----------------------------------------------------------------------------
(* The inductive invariant *)

Types ==
    /\ pc \in [Threads \cup Stoppers -> ThreadLabels \cup StopLabels]
    /\ cur \in [Threads -> Clients \cup {0}]
    /\ kind \in [Threads -> Completed \cup {"none"}]
    /\ op \in [Clients -> {"idle", "connecting", "reading"} \cup Completed]
    /\ state \in [Clients -> {"Connecting", "Connected"}]
    /\ m_nextClientId \in 1 .. MaxClients + 1

\* Until start has spawned the workers nobody serves and nothing is accepted.
Startup ==
    pc[Main] \in {"start", "spawn"} =>
        m_nextClientId = 1 /\ \A w \in Workers : pc[w] = "exited"

\* An id that is not given out yet belongs to nobody.
Fresh ==
    /\ \A c \in Clients : c >= m_nextClientId => op[c] = "idle"
    /\ \A t \in Threads : cur[t] < m_nextClientId

OwnersHaveClients == \A t \in Threads : pc[t] \in OwnerLabels => cur[t] \in Clients

\* A connect is outstanding for a context that is Connecting, a read for one that
\* is Connected, and a worker is in the branch that goes with the state.
Phases ==
    /\ \A c \in Clients :
          /\ op[c] \in {"connecting", "connected"} => state[c] = "Connecting"
          /\ op[c] \in {"reading", "data", "eof", "failed"} => state[c] = "Connected"
    /\ \A t \in Threads :
          /\ pc[t] = "lookup" =>
                \/ kind[t] = "connected" /\ state[cur[t]] = "Connecting"
                \/ kind[t] \in {"data", "eof"} /\ state[cur[t]] = "Connected"
          /\ pc[t] = "listen" => state[cur[t]] = "Connecting"
          /\ pc[t] \in {"append", "take", "frame", "postRead"} =>
                state[cur[t]] = "Connected"
          /\ pc[t] = "postFirstRead" /\ cur[t] \in m_clients =>
                state[cur[t]] = "Connected"

Inv == /\ Types /\ Startup /\ Fresh /\ OwnersHaveClients /\ Phases
       /\ SingleOwner /\ AtMostOneAcceptor

LEMMA InvInitially == Init => Inv
BY ThreadsAssumption, BoundsAssumption
   DEF Init, Inv, Types, Startup, Fresh, OwnersHaveClients, Phases, SingleOwner,
       AtMostOneAcceptor, Acceptors, Awaiting, Owns, Threads, Stoppers, Clients,
       Completed, Accepting, Reading, ThreadLabels, StopLabels, OwnerLabels

-----------------------------------------------------------------------------
(* One lemma per group of actions *)

LEMMA StartPreservesInv == Inv /\ (Start \/ SpawnWorkers) => Inv'
<1> USE ThreadsAssumption, BoundsAssumption
    DEF Inv, Types, Startup, Fresh, OwnersHaveClients, Phases, SingleOwner,
       AtMostOneAcceptor, Acceptors, Awaiting, Owns, Threads, Stoppers, Clients,
       Completed, Accepting, Reading, ThreadLabels, StopLabels, OwnerLabels,
       flags, table, pipes, packet, data, calls, stopping, Goto
<1>1. ASSUME Inv, Start PROVE Inv'
  BY <1>1 DEF Start
<1>2. ASSUME Inv, SpawnWorkers PROVE Inv'
  BY <1>2, SMTT(20) DEF SpawnWorkers
<1> QED BY <1>1, <1>2
LEMMA AcceptPreservesInv ==
    ASSUME Inv, NEW t \in Threads,
           CreateInstance(t) \/ CreateInstanceFails(t) \/ InsertClient(t) \/ ListenPending(t) \/ ListenDone(t) \/ ListenOnNull(t) \/ CleanupClient(t) \/ MarkConnected(t) \/ PostRead(t) \/ AcceptNext(t)
    PROVE  Inv'
<1> USE ThreadsAssumption, BoundsAssumption
    DEF Inv, Types, Startup, Fresh, OwnersHaveClients, Phases, SingleOwner,
       AtMostOneAcceptor, Acceptors, Awaiting, Owns, Threads, Stoppers, Clients,
       Completed, Accepting, Reading, ThreadLabels, StopLabels, OwnerLabels,
       flags, table, pipes, packet, data, calls, stopping, Goto, Return, Erase
<1>1. CASE CreateInstance(t)
  <2>1. Types'
    BY <1>1 DEF CreateInstance
  <2>2. Startup'
    BY <1>1 DEF CreateInstance
  <2>3. Fresh'
    BY <1>1 DEF CreateInstance
  <2>4. OwnersHaveClients'
    BY <1>1 DEF CreateInstance
  <2>5. Phases'
    BY <1>1 DEF CreateInstance
  <2>6. SingleOwner'
    BY <1>1 DEF CreateInstance
  <2>7. AtMostOneAcceptor'
    BY <1>1 DEF CreateInstance
  <2> QED BY <2>1, <2>2, <2>3, <2>4, <2>5, <2>6, <2>7
<1>2. CASE CreateInstanceFails(t)
  BY <1>2 DEF CreateInstanceFails
<1>3. CASE InsertClient(t)
  BY <1>3 DEF InsertClient
<1>4. CASE ListenPending(t)
  <2>1. Types'
    BY <1>4 DEF ListenPending
  <2>2. Startup'
    BY <1>4 DEF ListenPending
  <2>3. Fresh'
    BY <1>4 DEF ListenPending
  <2>4. OwnersHaveClients'
    BY <1>4 DEF ListenPending
  <2>5. Phases'
    BY <1>4 DEF ListenPending
  <2>6. SingleOwner'
    BY <1>4 DEF ListenPending
  <2>7. AtMostOneAcceptor'
    <3>1. t \in Acceptors /\ Acceptors = {t} /\ Awaiting = {}
      BY <1>4 DEF ListenPending
    <3>2. Acceptors' = {}
      BY <1>4, <3>1 DEF ListenPending
    <3>3. Awaiting' = {cur[t]}
      BY <1>4, <3>1 DEF ListenPending
    <3> QED BY <3>2, <3>3
  <2> QED BY <2>1, <2>2, <2>3, <2>4, <2>5, <2>6, <2>7
<1>5. CASE ListenDone(t)
  BY <1>5 DEF ListenDone
<1>6. CASE ListenOnNull(t)
  BY <1>6 DEF ListenOnNull
<1>7. CASE CleanupClient(t)
  BY <1>7 DEF CleanupClient
<1>8. CASE MarkConnected(t)
  BY <1>8 DEF MarkConnected
<1>9. CASE PostRead(t)
  <2>1. /\ pc[t] \in {"postFirstRead", "postRead"}
        /\ \E label \in {"acceptNext", "loop", "exited"} :
              /\ pc' = [pc EXCEPT ![t] = label]
              /\ label = "acceptNext" <=> pc[t] = "postFirstRead"
        /\ UNCHANGED <<state, m_clients, cur, kind, m_nextClientId>>
    BY <1>9 DEF PostRead
  <2>2. \/ op' = op
        \/ cur[t] \in m_clients /\ op' = [op EXCEPT ![cur[t]] = "reading"]
        \/ cur[t] \in m_clients /\ op' = [op EXCEPT ![cur[t]] = "data"]
    BY <1>9 DEF PostRead, Transfer
  <2> QED BY <2>1, <2>2
<1>10. CASE AcceptNext(t)
  BY <1>10, SMTT(20) DEF AcceptNext
<1> QED BY <1>1, <1>2, <1>3, <1>4, <1>5, <1>6, <1>7, <1>8, <1>9, <1>10

LEMMA WorkerPreservesInv ==
    ASSUME Inv, NEW w \in Workers,
           Loop(w) \/ TakeShutdown(w) \/ Lookup(w) \/ ReadEof(w) \/ ReadFailed(w) \/ OnClientDisconnect(w) \/ AppendData(w) \/ TakeLineBuffer(w) \/ HandleLine(w) \/ KeepIncompleteLine(w)
    PROVE  Inv'
<1> USE ThreadsAssumption, BoundsAssumption
    DEF Inv, Types, Startup, Fresh, OwnersHaveClients, Phases, SingleOwner,
       AtMostOneAcceptor, Acceptors, Awaiting, Owns, Threads, Stoppers, Clients,
       Completed, Accepting, Reading, ThreadLabels, StopLabels, OwnerLabels,
       flags, table, pipes, packet, data, calls, stopping, Goto, Return, Erase
<1>1. CASE Loop(w)
  BY <1>1 DEF Loop
<1>2. CASE TakeShutdown(w)
  BY <1>2 DEF TakeShutdown
<1>3. CASE Lookup(w)
  BY <1>3 DEF Lookup
<1>4. CASE ReadEof(w)
  BY <1>4 DEF ReadEof
<1>5. CASE ReadFailed(w)
  BY <1>5, SMTT(20) DEF ReadFailed
<1>6. CASE OnClientDisconnect(w)
  BY <1>6 DEF OnClientDisconnect
<1>7. CASE AppendData(w)
  <2>1. /\ pc[w] = "append"
        /\ \E label \in {"take", "loop"} : pc' = [pc EXCEPT ![w] = label]
        /\ UNCHANGED <<op, state, m_clients, cur, kind, m_nextClientId>>
    BY <1>7 DEF AppendData
  <2> QED BY <2>1
<1>8. CASE TakeLineBuffer(w)
  BY <1>8 DEF TakeLineBuffer
<1>9. CASE HandleLine(w)
  <2>1. UNCHANGED <<op, state, m_clients, cur, kind, m_nextClientId>>
    BY <1>9 DEF HandleLine
  <2>2. pc' = pc \/ \E s \in ShutdownThreads : pc' = [pc EXCEPT ![s] = "check"]
    BY <1>9 DEF HandleLine
  <2>3. pc' \in [Threads \cup Stoppers -> ThreadLabels \cup StopLabels]
    BY <2>2, SMTT(20)
  <2>4. \A t \in Threads : pc'[t] = pc[t]
    BY <2>2
  <2> QED BY <2>1, <2>3, <2>4
<1>10. CASE KeepIncompleteLine(w)
  BY <1>10 DEF KeepIncompleteLine
<1> QED BY <1>1, <1>2, <1>3, <1>4, <1>5, <1>6, <1>7, <1>8, <1>9, <1>10

LEMMA TakePreservesInv ==
    ASSUME Inv, NEW w \in Workers, NEW c \in Clients, TakePacket(w, c)
    PROVE  Inv'
<1> USE ThreadsAssumption, BoundsAssumption
    DEF Inv, Types, Startup, Fresh, OwnersHaveClients, Phases, SingleOwner,
       AtMostOneAcceptor, Acceptors, Awaiting, Owns, Threads, Stoppers, Clients,
       Completed, Accepting, Reading, ThreadLabels, StopLabels, OwnerLabels,
       flags, table, pipes, packet, data, calls, stopping, Goto
<1>1. /\ pc[w] = "wait" /\ op[c] \in Completed
      /\ op' = [op EXCEPT ![c] = "idle"] /\ cur' = [cur EXCEPT ![w] = c]
      /\ kind' = [kind EXCEPT ![w] = op[c]]
      /\ UNCHANGED <<state, m_clients, m_nextClientId>>
  BY DEF TakePacket
<1>2. \E label \in {"exited", "failed", "lookup"} :
         /\ pc' = [pc EXCEPT ![w] = label]
         /\ label = "lookup" => op[c] # "failed"
  BY DEF TakePacket
<1> HIDE DEF Goto
<1>3. Types'
  BY <1>1, <1>2
<1>4. Startup' /\ Fresh' /\ OwnersHaveClients'
  BY <1>1, <1>2
<1>5. Phases'
  BY <1>1, <1>2
<1>6. SingleOwner'
  BY <1>1, <1>2
<1>7. AtMostOneAcceptor'
  <2>1. CASE op[c] = "connected"
    <3>1. Acceptors = {} /\ Awaiting = {c}
      BY <2>1
    <3>2. Acceptors' \subseteq {w} /\ Awaiting' = {}
      BY <1>1, <1>2, <2>1, <3>1
    <3> QED BY <3>2
  <2>2. CASE op[c] # "connected"
    <3>1. Acceptors' \subseteq Acceptors /\ Awaiting' = Awaiting
      BY <1>1, <1>2, <2>2
    <3> HIDE DEF Acceptors, Awaiting
    <3> QED BY <3>1
  <2> QED BY <2>1, <2>2
<1> QED BY <1>3, <1>4, <1>5, <1>6, <1>7

LEMMA StopPreservesInv ==
    ASSUME Inv, NEW s \in Stoppers,
           CtrlEvent(s) \/ CheckRunning(s) \/ ClearRunning(s) \/ PostShutdowns(s) \/ JoinWorkers(s) \/ CloseClients(s)
    PROVE  Inv'
<1> USE ThreadsAssumption, BoundsAssumption
    DEF Inv, Types, Startup, Fresh, OwnersHaveClients, Phases, SingleOwner,
       AtMostOneAcceptor, Acceptors, Awaiting, Owns, Threads, Stoppers, Clients,
       Completed, Accepting, Reading, ThreadLabels, StopLabels, OwnerLabels,
       flags, table, pipes, packet, data, calls, stopping, Goto, Return, Erase
<1>1. CASE CtrlEvent(s)
  BY <1>1 DEF CtrlEvent
<1>2. CASE CheckRunning(s)
  BY <1>2 DEF CheckRunning, StopReturns
<1>3. CASE ClearRunning(s)
  BY <1>3 DEF ClearRunning
<1>4. CASE PostShutdowns(s)
  BY <1>4 DEF PostShutdowns
<1>5. CASE JoinWorkers(s)
  BY <1>5 DEF JoinWorkers
<1>6. CASE CloseClients(s)
  BY <1>6 DEF CloseClients, StopReturns
<1> QED BY <1>1, <1>2, <1>3, <1>4, <1>5, <1>6

LEMMA ClientPreservesInv ==
    ASSUME Inv, NEW c \in Clients,
           Connect(c) \/ Send(c) \/ Leave(c) \/ CompleteRead(c)
    PROVE  Inv'
<1> USE ThreadsAssumption, BoundsAssumption
    DEF Inv, Types, Startup, Fresh, OwnersHaveClients, Phases, SingleOwner,
       AtMostOneAcceptor, Acceptors, Awaiting, Owns, Threads, Stoppers, Clients,
       Completed, Accepting, Reading, ThreadLabels, StopLabels, OwnerLabels,
       flags, table, pipes, packet, data, calls, stopping, Goto, Return, Erase
<1>1. CASE Connect(c)
  BY <1>1 DEF Connect
<1>2. CASE Send(c)
  BY <1>2 DEF Send
<1>3. CASE Leave(c)
  BY <1>3 DEF Leave
<1>4. CASE CompleteRead(c)
  <2>1. /\ op[c] = "reading"
        /\ \E end \in {"data", "eof", "failed"} : op' = [op EXCEPT ![c] = end]
        /\ UNCHANGED <<pc, state, m_clients, cur, kind, m_nextClientId>>
    BY <1>4 DEF CompleteRead, Transfer
  <2> QED BY <2>1
<1> QED BY <1>1, <1>2, <1>3, <1>4

LEMMA InvIsInductive == Inv /\ [Next]_vars => Inv'
<1> SUFFICES ASSUME Inv, [Next]_vars
             PROVE  Inv'
  OBVIOUS
<1>1. CASE Starter
  BY <1>1, StartPreservesInv, AcceptPreservesInv DEF Starter, Accept, Threads
<1>2. CASE \E w \in Workers : Worker(w)
  BY <1>2, WorkerPreservesInv, TakePreservesInv, AcceptPreservesInv
     DEF Worker, Accept, Threads
<1>3. CASE \E s \in Stoppers : CtrlEvent(s) \/ Stop(s)
  BY <1>3, StopPreservesInv DEF Stop
<1>4. CASE \E c \in Clients : Connect(c) \/ Send(c) \/ Leave(c) \/ CompleteRead(c)
  BY <1>4, ClientPreservesInv
<1>5. CASE UNCHANGED vars
  BY <1>5 DEF Inv, Types, Startup, Fresh, OwnersHaveClients, Phases, SingleOwner,
              AtMostOneAcceptor, Acceptors, Awaiting, Owns, vars, flags, table, pipes,
              packet
<1> QED BY <1>1, <1>2, <1>3, <1>4, <1>5 DEF Next

-----------------------------------------------------------------------------
\* However many workers take packets, two of them never work on one client, and
\* none does while an operation on the client's OVERLAPPED is pending or queued.
THEOREM OverlappedHasOneUser == Spec => []SingleOwner
<1>1. Inv => SingleOwner
  BY DEF Inv
<1> QED BY <1>1, InvInitially, InvIsInductive, PTL DEF Spec

\* m_nextClientId++ and the lookup that follows the insertion are safe from other
\* accepting threads without a lock: there is never a second one.
THEOREM OneThreadAccepts == Spec => []AtMostOneAcceptor
<1>1. Inv => AtMostOneAcceptor
  BY DEF Inv
<1> QED BY <1>1, InvInitially, InvIsInductive, PTL DEF Spec

-----------------------------------------------------------------------------
(* A worker's client is in the map *)

PTypes == /\ m_workers \subseteq Workers
          /\ m_clients \subseteq Clients
          /\ m_running \in BOOLEAN

\* Before start nothing runs, so no stop gets past its check.
NotStarted ==
    pc[Main] = "start" =>
        /\ ~m_running
        /\ \A s \in Stoppers : pc[s] \in {"idle", "check", "done"}

\* Once a stop has joined the workers, only workers that start spawned too late
\* are left, and they find m_running reset.
Stopped ==
    \A s \in Stoppers :
        /\ pc[s] \in {"post", "join", "close"} => ~m_running
        /\ pc[s] = "close" => \A w \in Workers : pc[w] \in {"exited", "loop"}

WorkersInVector == \A w \in Workers \ m_workers : pc[w] = "exited"

\* An operation is outstanding only for a client in the map.
OpsArePresent == \A c \in Clients : op[c] # "idle" => c \in m_clients

PresenceInv == /\ PTypes /\ NotStarted /\ Stopped /\ WorkersInVector
               /\ OpsArePresent /\ OwnedIsPresent

LEMMA PresenceInitially == Init => PresenceInv
<1> SUFFICES ASSUME Init PROVE PresenceInv
  OBVIOUS
<1> USE ThreadsAssumption, BoundsAssumption DEF Init, Threads, Stoppers, Clients
<1>1. PTypes BY DEF PTypes
<1>2. NotStarted /\ Stopped BY DEF NotStarted, Stopped
<1>3. WorkersInVector BY DEF WorkersInVector
<1>4. OpsArePresent BY DEF OpsArePresent
<1>5. OwnedIsPresent BY DEF OwnedIsPresent, Owns, OwnerLabels
<1> QED BY <1>1, <1>2, <1>3, <1>4, <1>5 DEF PresenceInv

LEMMA StartKeepsPresence ==
    ASSUME Inv, PresenceInv, 
           Start \/ SpawnWorkers
    PROVE  PresenceInv'
<1> USE ThreadsAssumption, BoundsAssumption
    DEF Inv, Types, SingleOwner, OwnersHaveClients, Owns, Startup, PresenceInv, PTypes, NotStarted, Stopped,
       WorkersInVector, OpsArePresent, OwnedIsPresent, Threads, Stoppers, Clients,
       Completed, Accepting, Reading, ThreadLabels, StopLabels, OwnerLabels,
       flags, table, pipes, packet, data, calls, stopping, Goto, Return, Erase
<1>1. CASE Start
  BY <1>1 DEF Start
<1>2. CASE SpawnWorkers
  BY <1>2 DEF SpawnWorkers
<1> QED BY <1>1, <1>2

LEMMA AcceptKeepsPresence ==
    ASSUME Inv, PresenceInv, NEW t \in Threads, 
           CreateInstance(t) \/ CreateInstanceFails(t) \/ InsertClient(t) \/ ListenPending(t) \/ ListenDone(t) \/ ListenOnNull(t) \/ CleanupClient(t) \/ MarkConnected(t) \/ PostRead(t) \/ AcceptNext(t)
    PROVE  PresenceInv'
<1> USE ThreadsAssumption, BoundsAssumption
    DEF Inv, Types, SingleOwner, OwnersHaveClients, Owns, Startup, PresenceInv, PTypes, NotStarted, Stopped,
       WorkersInVector, OpsArePresent, OwnedIsPresent, Threads, Stoppers, Clients,
       Completed, Accepting, Reading, ThreadLabels, StopLabels, OwnerLabels,
       flags, table, pipes, packet, data, calls, stopping, Goto, Return, Erase
<1>1. CASE CreateInstance(t)
  BY <1>1 DEF CreateInstance
<1>2. CASE CreateInstanceFails(t)
  BY <1>2 DEF CreateInstanceFails
<1>3. CASE InsertClient(t)
  <2>1. PTypes'
    <3>1. cur[t] \in Clients
      BY <1>3 DEF InsertClient
    <3>2. m_clients' = m_clients \cup {cur[t]} /\ UNCHANGED <<m_workers, m_running>>
      BY <1>3 DEF InsertClient
    <3>3. m_clients \subseteq Clients /\ m_workers \subseteq Workers /\ m_running \in BOOLEAN
      OBVIOUS
    <3> HIDE DEF Clients, Inv, PresenceInv, NotStarted, Stopped, WorkersInVector, OpsArePresent,
                 OwnedIsPresent, SingleOwner, OwnersHaveClients, Startup, Types
    <3> QED BY <3>1, <3>2, <3>3
  <2>2. NotStarted'
    BY <1>3 DEF InsertClient
  <2>3. Stopped'
    BY <1>3 DEF InsertClient
  <2>4. WorkersInVector'
    BY <1>3 DEF InsertClient
  <2>5. OpsArePresent'
    BY <1>3 DEF InsertClient
  <2>6. OwnedIsPresent'
    BY <1>3 DEF InsertClient
  <2> QED BY <2>1, <2>2, <2>3, <2>4, <2>5, <2>6
<1>4. CASE ListenPending(t)
  BY <1>4 DEF ListenPending
<1>5. CASE ListenDone(t)
  BY <1>5 DEF ListenDone
<1>6. CASE ListenOnNull(t)
  BY <1>6 DEF ListenOnNull
<1>7. CASE CleanupClient(t)
  <2>1. /\ pc[t] = "cleanup" /\ m_clients' = m_clients \ {cur[t]}
        /\ \E label \in {"exited", "loop"} :
              /\ pc' = [pc EXCEPT ![t] = label]
              /\ label = "exited" <=> t = Main
        /\ UNCHANGED <<op, m_running, m_workers, cur>>
    BY <1>7 DEF CleanupClient
  <2>2. PTypes'
    BY <2>1
  <2>3. NotStarted'
    BY <2>1
  <2>4. Stopped'
    BY <2>1
  <2>5. WorkersInVector'
    BY <2>1
  <2>6. OpsArePresent'
    BY <2>1
  <2>7. OwnedIsPresent'
    BY <2>1
  <2> QED BY <2>2, <2>3, <2>4, <2>5, <2>6, <2>7
<1>8. CASE MarkConnected(t)
  BY <1>8 DEF MarkConnected
<1>9. CASE PostRead(t)
  <2>1. /\ UNCHANGED <<m_clients, m_running, m_workers, cur>>
        /\ pc[t] \in {"postFirstRead", "postRead"}
        /\ \E label \in {"acceptNext", "exited", "loop"} :
              /\ pc' = [pc EXCEPT ![t] = label]
              /\ label = "exited" => t = Main
    BY <1>9 DEF PostRead
  <2>2. \A c \in Clients : op'[c] # "idle" => op[c] # "idle" \/ c \in m_clients
    BY <1>9, SMTT(30) DEF PostRead, Transfer
  <2>3. PTypes'
    BY <2>1
  <2>4. NotStarted'
    BY <2>1
  <2>5. Stopped'
    BY <2>1
  <2>6. WorkersInVector'
    BY <2>1
  <2>7. OpsArePresent'
    BY <2>1, <2>2
  <2>8. OwnedIsPresent'
    BY <2>1
  <2> QED BY <2>3, <2>4, <2>5, <2>6, <2>7, <2>8
<1>10. CASE AcceptNext(t)
  BY <1>10 DEF AcceptNext
<1> QED BY <1>1, <1>2, <1>3, <1>4, <1>5, <1>6, <1>7, <1>8, <1>9, <1>10

LEMMA WorkerKeepsPresence ==
    ASSUME Inv, PresenceInv, NEW w \in Workers, 
           Loop(w) \/ TakeShutdown(w) \/ Lookup(w) \/ ReadEof(w) \/ ReadFailed(w) \/ OnClientDisconnect(w) \/ AppendData(w) \/ TakeLineBuffer(w) \/ HandleLine(w) \/ KeepIncompleteLine(w)
    PROVE  PresenceInv'
<1> USE ThreadsAssumption, BoundsAssumption
    DEF Inv, Types, SingleOwner, OwnersHaveClients, Owns, Startup, PresenceInv, PTypes, NotStarted, Stopped,
       WorkersInVector, OpsArePresent, OwnedIsPresent, Threads, Stoppers, Clients,
       Completed, Accepting, Reading, ThreadLabels, StopLabels, OwnerLabels,
       flags, table, pipes, packet, data, calls, stopping, Goto, Return, Erase
<1>1. CASE Loop(w)
  BY <1>1 DEF Loop
<1>2. CASE TakeShutdown(w)
  BY <1>2 DEF TakeShutdown
<1>3. CASE Lookup(w)
  BY <1>3 DEF Lookup
<1>4. CASE ReadEof(w)
  <2>1. /\ pc[w] = "eof" /\ m_clients' = m_clients \ {cur[w]}
        /\ pc' = [pc EXCEPT ![w] = "notify"]
        /\ UNCHANGED <<op, m_running, m_workers, cur>>
    BY <1>4 DEF ReadEof
  <2>2. PTypes'
    BY <2>1
  <2>3. NotStarted'
    BY <2>1
  <2>4. Stopped'
    BY <2>1
  <2>5. WorkersInVector'
    BY <2>1
  <2>6. OpsArePresent'
    BY <2>1
  <2>7. OwnedIsPresent'
    BY <2>1
  <2> QED BY <2>2, <2>3, <2>4, <2>5, <2>6, <2>7
<1>5. CASE ReadFailed(w)
  <2>1. /\ pc[w] = "failed" /\ m_clients' \in {m_clients, m_clients \ {cur[w]}}
        /\ \E label \in {"notifyLocked", "loop"} : pc' = [pc EXCEPT ![w] = label]
        /\ UNCHANGED <<op, m_running, m_workers, cur>>
    BY <1>5 DEF ReadFailed
  <2>2. PTypes'
    BY <2>1
  <2>3. NotStarted'
    BY <2>1
  <2>4. Stopped'
    BY <2>1
  <2>5. WorkersInVector'
    BY <2>1
  <2>6. OpsArePresent'
    BY <2>1
  <2>7. OwnedIsPresent'
    BY <2>1
  <2> QED BY <2>2, <2>3, <2>4, <2>5, <2>6, <2>7
<1>6. CASE OnClientDisconnect(w)
  BY <1>6 DEF OnClientDisconnect
<1>7. CASE AppendData(w)
  <2>1. /\ pc[w] = "append"
        /\ \E label \in {"take", "loop"} : pc' = [pc EXCEPT ![w] = label]
        /\ UNCHANGED <<op, m_running, m_workers, m_clients, cur>>
    BY <1>7 DEF AppendData
  <2> QED BY <2>1
<1>8. CASE TakeLineBuffer(w)
  BY <1>8 DEF TakeLineBuffer
<1>9. CASE HandleLine(w)
  BY <1>9 DEF HandleLine
<1>10. CASE KeepIncompleteLine(w)
  BY <1>10 DEF KeepIncompleteLine
<1> QED BY <1>1, <1>2, <1>3, <1>4, <1>5, <1>6, <1>7, <1>8, <1>9, <1>10

LEMMA TakeKeepsPresence ==
    ASSUME Inv, PresenceInv, NEW w \in Workers, NEW c \in Clients, 
           TakePacket(w, c)
    PROVE  PresenceInv'
<1> USE ThreadsAssumption, BoundsAssumption
    DEF Inv, Types, SingleOwner, OwnersHaveClients, Owns, Startup, PresenceInv, PTypes, NotStarted, Stopped,
       WorkersInVector, OpsArePresent, OwnedIsPresent, Threads, Stoppers, Clients,
       Completed, Accepting, Reading, ThreadLabels, StopLabels, OwnerLabels,
       flags, table, pipes, packet, data, calls, stopping, Goto, Return, Erase
<1>1. CASE TakePacket(w, c)
  BY <1>1 DEF TakePacket
<1> QED BY <1>1

LEMMA StopKeepsPresence ==
    ASSUME Inv, PresenceInv, NEW s \in Stoppers, 
           CtrlEvent(s) \/ CheckRunning(s) \/ ClearRunning(s) \/ PostShutdowns(s) \/ JoinWorkers(s) \/ CloseClients(s)
    PROVE  PresenceInv'
<1> USE ThreadsAssumption, BoundsAssumption
    DEF Inv, Types, SingleOwner, OwnersHaveClients, Owns, Startup, PresenceInv, PTypes, NotStarted, Stopped,
       WorkersInVector, OpsArePresent, OwnedIsPresent, Threads, Stoppers, Clients,
       Completed, Accepting, Reading, ThreadLabels, StopLabels, OwnerLabels,
       flags, table, pipes, packet, data, calls, stopping, Goto, Return, Erase
<1>1. CASE CtrlEvent(s)
  BY <1>1 DEF CtrlEvent
<1>2. CASE CheckRunning(s)
  <2>1. /\ pc[s] = "check"
        /\ \/ pc' = [pc EXCEPT ![s] = "clear"] /\ m_running
           \/ pc' = [pc EXCEPT ![s] = "done"]
        /\ UNCHANGED <<op, m_running, m_workers, m_clients, cur>>
    BY <1>2 DEF CheckRunning, StopReturns
  <2>2. PTypes'
    BY <2>1
  <2>3. NotStarted'
    BY <2>1
  <2>4. Stopped'
    BY <2>1
  <2>5. WorkersInVector'
    BY <2>1
  <2>6. OpsArePresent'
    BY <2>1
  <2>7. OwnedIsPresent'
    BY <2>1
  <2> QED BY <2>2, <2>3, <2>4, <2>5, <2>6, <2>7
<1>3. CASE ClearRunning(s)
  BY <1>3 DEF ClearRunning
<1>4. CASE PostShutdowns(s)
  <2>1. /\ pc[s] = "post"
        /\ pc' = [pc EXCEPT ![s] = "join"]
        /\ UNCHANGED <<op, m_running, m_workers, m_clients, cur>>
    BY <1>4 DEF PostShutdowns
  <2>2. PTypes'
    BY <2>1
  <2>3. NotStarted'
    BY <2>1
  <2>4. Stopped'
    BY <2>1
  <2>5. WorkersInVector'
    BY <2>1
  <2>6. OpsArePresent'
    BY <2>1
  <2>7. OwnedIsPresent'
    BY <2>1
  <2> QED BY <2>2, <2>3, <2>4, <2>5, <2>6, <2>7
<1>5. CASE JoinWorkers(s)
  BY <1>5 DEF JoinWorkers, Joined
<1>6. CASE CloseClients(s)
  <2>1. /\ pc[s] = "close"
        /\ pc' = [pc EXCEPT ![s] = "done"]
        /\ m_clients' = m_clients \ m_clients
        /\ op' = [c \in Clients |-> IF c \in m_clients THEN "idle" ELSE op[c]]
        /\ UNCHANGED <<m_running, m_workers, cur>>
    BY <1>6 DEF CloseClients, StopReturns
  <2>2. PTypes'
    BY <2>1
  <2>3. NotStarted'
    BY <2>1
  <2>4. Stopped'
    BY <2>1
  <2>5. WorkersInVector'
    BY <2>1
  <2>6. OpsArePresent'
    BY <2>1
  <2>7. OwnedIsPresent'
    BY <2>1
  <2> QED BY <2>2, <2>3, <2>4, <2>5, <2>6, <2>7
<1> QED BY <1>1, <1>2, <1>3, <1>4, <1>5, <1>6

LEMMA ClientKeepsPresence ==
    ASSUME Inv, PresenceInv, NEW c \in Clients, 
           Connect(c) \/ Send(c) \/ Leave(c) \/ CompleteRead(c)
    PROVE  PresenceInv'
<1> USE ThreadsAssumption, BoundsAssumption
    DEF Inv, Types, SingleOwner, OwnersHaveClients, Owns, Startup, PresenceInv, PTypes, NotStarted, Stopped,
       WorkersInVector, OpsArePresent, OwnedIsPresent, Threads, Stoppers, Clients,
       Completed, Accepting, Reading, ThreadLabels, StopLabels, OwnerLabels,
       flags, table, pipes, packet, data, calls, stopping, Goto, Return, Erase
<1>1. CASE Connect(c)
  BY <1>1 DEF Connect
<1>2. CASE Send(c)
  BY <1>2 DEF Send
<1>3. CASE Leave(c)
  BY <1>3 DEF Leave
<1>4. CASE CompleteRead(c)
  <2>1. /\ op[c] = "reading"
        /\ \E end \in {"data", "eof", "failed"} : op' = [op EXCEPT ![c] = end]
        /\ UNCHANGED <<pc, m_running, m_workers, m_clients, cur>>
    BY <1>4 DEF CompleteRead, Transfer
  <2> QED BY <2>1
<1> QED BY <1>1, <1>2, <1>3, <1>4

LEMMA PresenceIsInductive == Inv /\ PresenceInv /\ [Next]_vars => PresenceInv'
<1> SUFFICES ASSUME Inv, PresenceInv, [Next]_vars
             PROVE  PresenceInv'
  OBVIOUS
<1>1. CASE Starter
  BY <1>1, StartKeepsPresence, AcceptKeepsPresence DEF Starter, Accept, Threads
<1>2. CASE \E w \in Workers : Worker(w)
  BY <1>2, WorkerKeepsPresence, TakeKeepsPresence, AcceptKeepsPresence
     DEF Worker, Accept, Threads
<1>3. CASE \E s \in Stoppers : CtrlEvent(s) \/ Stop(s)
  BY <1>3, StopKeepsPresence DEF Stop
<1>4. CASE \E c \in Clients : Connect(c) \/ Send(c) \/ Leave(c) \/ CompleteRead(c)
  BY <1>4, ClientKeepsPresence
<1>5. CASE UNCHANGED vars
  BY <1>5 DEF PresenceInv, PTypes, NotStarted, Stopped, WorkersInVector, OpsArePresent,
              OwnedIsPresent, Owns, vars, flags, table, pipes, packet
<1> QED BY <1>1, <1>2, <1>3, <1>4, <1>5 DEF Next

\* A worker always finds its client in the map, whatever stop does and however
\* many stops run at once: the returns on a failed lookup are never taken.
THEOREM WorkersFindTheirClient == Spec => []OwnedIsPresent
<1>1. PresenceInv => OwnedIsPresent
  BY DEF PresenceInv
<1> QED BY <1>1, InvInitially, InvIsInductive, PresenceInitially, PresenceIsInductive,
           PTL DEF Spec

-----------------------------------------------------------------------------
(* What a step may never do *)

\* Who erases a context works on it, except a stop.
LEMMA ErasersOwn ==
    ASSUME NEW t \in Threads, Start \/ SpawnWorkers \/ Accept(t) \/ (t \in Workers /\ Worker(t)),
           NEW c \in m_clients, c \notin m_clients'
    PROVE  cur[t] = c /\ (CleanupClient(t) \/ ReadEof(t) \/ ReadFailed(t))
<1> USE DEF table
<1>1. ~Start /\ ~SpawnWorkers BY DEF Start, SpawnWorkers
<1>2. Accept(t) => CleanupClient(t)
  <2>1. ~CreateInstance(t) /\ ~CreateInstanceFails(t) BY DEF CreateInstance, CreateInstanceFails
  <2>2. ~InsertClient(t) BY DEF InsertClient
  <2>3. ~ListenPending(t) /\ ~ListenDone(t) /\ ~ListenOnNull(t)
    BY DEF ListenPending, ListenDone, ListenOnNull
  <2>4. ~MarkConnected(t) /\ ~PostRead(t) /\ ~AcceptNext(t)
    BY DEF MarkConnected, PostRead, AcceptNext
  <2> QED BY <2>1, <2>2, <2>3, <2>4 DEF Accept
<1>3. Worker(t) => ReadEof(t) \/ ReadFailed(t) \/ Accept(t)
  BY DEF Worker, Loop, TakeShutdown, Lookup, TakePacket, OnClientDisconnect, AppendData,
     TakeLineBuffer, HandleLine, KeepIncompleteLine
<1>4. ASSUME CleanupClient(t) \/ ReadEof(t) \/ ReadFailed(t) PROVE cur[t] = c
  BY <1>4 DEF CleanupClient, ReadEof, ReadFailed, Erase
<1> QED BY <1>1, <1>2, <1>3, <1>4

LEMMA ErasureIsIdle ==
    Inv /\ PresenceInv /\ [Next]_vars =>
        \A c \in m_clients \ m_clients' : op[c] = "idle" \/ \E s \in Stoppers : pc[s] = "close"
<1> SUFFICES ASSUME Inv, PresenceInv, [Next]_vars, NEW c \in m_clients, c \notin m_clients'
             PROVE  op[c] = "idle" \/ \E s \in Stoppers : pc[s] = "close"
  OBVIOUS
<1> USE DEF table
<1>1. c \in Clients BY DEF PresenceInv, PTypes
<1>2. ASSUME NEW t \in Threads, Owns(t, c) PROVE op[c] = "idle"
  BY <1>1, <1>2 DEF Inv, SingleOwner
<1>3. CASE Starter \/ \E w \in Workers : Worker(w)
  <2>1. PICK t \in Threads : \/ Start \/ SpawnWorkers \/ Accept(t) \/ (t \in Workers /\ Worker(t))
    BY <1>3 DEF Starter, Threads
  <2>2. cur[t] = c /\ (CleanupClient(t) \/ ReadEof(t) \/ ReadFailed(t))
    BY <2>1, ErasersOwn
  <2>3. Owns(t, c)
    BY <2>2 DEF CleanupClient, ReadEof, ReadFailed, Owns, OwnerLabels
  <2> QED BY <1>2, <2>3
<1>4. CASE \E s \in Stoppers : CtrlEvent(s) \/ Stop(s)
  BY <1>4 DEF Stop, CtrlEvent, CheckRunning, ClearRunning, PostShutdowns, JoinWorkers, CloseClients
<1>5. CASE \E d \in Clients : Connect(d) \/ Send(d) \/ Leave(d) \/ CompleteRead(d)
  BY <1>5 DEF Connect, Send, Leave, CompleteRead
<1>6. CASE UNCHANGED vars BY <1>6 DEF vars
<1> QED BY <1>3, <1>4, <1>5, <1>6 DEF Next

\* No context is erased with an operation pending on its OVERLAPPED, except by a stop:
\* who erases one works on it (_workerThread, _cleanupClient).
THEOREM NoneErasedPending == Spec => ErasedWhenIdle
<1>1. Inv /\ PresenceInv /\ [Next]_vars =>
         [\A c \in m_clients \ m_clients' :
             op[c] = "idle" \/ \E s \in Stoppers : pc[s] = "close"]_vars
  BY ErasureIsIdle
<1> QED BY <1>1, InvInitially, InvIsInductive, PresenceInitially, PresenceIsInductive, PTL
        DEF Spec, ErasedWhenIdle

\* The next accept follows the last, unless the server stops or an instance fails.
LEMMA ChainOfAccepts ==
    Inv /\ PresenceInv /\ [Next]_vars =>
        (m_running /\ Acceptors \cup Awaiting # {} /\ (Acceptors \cup Awaiting)' = {}
            => \E t \in Threads : pc[t] \in {"accept", "cleanup"})
<1> SUFFICES ASSUME Inv, PresenceInv, [Next]_vars, m_running, Acceptors \cup Awaiting # {},
                    \A t \in Threads : pc[t] \notin {"accept", "cleanup"}
             PROVE  Acceptors' \cup Awaiting' # {}
  OBVIOUS
<1> USE ThreadsAssumption DEF Goto, Return
<1>1. /\ pc \in [Threads \cup Stoppers -> ThreadLabels \cup StopLabels]
      /\ op \in [Clients -> {"idle", "connecting", "reading"} \cup Completed]
      /\ cur \in [Threads -> Clients \cup {0}] /\ kind \in [Threads -> Completed \cup {"none"}]
  BY DEF Inv, Types
<1>2. ASSUME NEW a \in Acceptors PROVE Acceptors' \cup Awaiting' # {}
  <2>1. a \in Threads /\ (pc[a] \in Accepting \/ (pc[a] = "lookup" /\ kind[a] = "connected"))
    BY DEF Acceptors
  <2>2. a \in Threads \cup Stoppers BY <2>1
  <2>3. SUFFICES ASSUME ~(pc'[a] \in Accepting \/ (pc'[a] = "lookup" /\ kind'[a] = "connected"))
                 PROVE  Awaiting' # {}
    BY <2>1 DEF Acceptors
  <2>4. pc'[a] # pc[a] \/ kind'[a] # kind[a] BY <2>1, <2>3
  <2>5. CASE Accept(a)
    <3>1. ListenPending(a)
      BY <1>1, <2>1, <2>2, <2>3, <2>5
      DEF Accept, CreateInstance, CreateInstanceFails, InsertClient, ListenDone, ListenOnNull,
          CleanupClient, MarkConnected, PostRead, AcceptNext, packet, flags, Accepting
    <3>2. cur[a] \in Clients /\ op'[cur[a]] = "connecting"
      BY <1>1, <2>1, <3>1 DEF ListenPending, Inv, OwnersHaveClients, OwnerLabels
    <3> QED BY <3>2 DEF Awaiting
  <2>6. CASE a \in Workers /\ Worker(a) /\ ~Accept(a)
    <3>1. CASE Lookup(a)
      <4>1. pc[a] = "lookup" /\ kind[a] = "connected" BY <2>1, <3>1 DEF Lookup, Accepting
      <4>2. cur[a] \in Clients /\ state[cur[a]] = "Connecting"
        BY <2>1, <4>1 DEF Inv, OwnersHaveClients, OwnerLabels, Phases
      <4>3. cur[a] \in m_clients
        BY <2>6, <4>1, <4>2 DEF PresenceInv, OwnedIsPresent, Owns, OwnerLabels
      <4>4. pc'[a] = "markConnected" BY <1>1, <2>2, <3>1, <4>2, <4>3 DEF Lookup
      <4> QED BY <2>3, <4>4 DEF Accepting
    <3>2. CASE ~Lookup(a)
      BY <2>1, <2>6, <3>2
      DEF Worker, Loop, TakeShutdown, TakePacket, ReadEof, ReadFailed, OnClientDisconnect,
          AppendData, TakeLineBuffer, HandleLine, KeepIncompleteLine, Accepting
    <3> QED BY <3>1, <3>2
  <2>7. ~Start /\ ~SpawnWorkers
    <3>1. ~Start BY <1>1, <2>1, <2>4 DEF Start, packet, Accepting
    <3>2. ~SpawnWorkers
      BY <1>1, <2>1, <2>4 DEF SpawnWorkers, packet, Inv, Startup, Accepting, Threads
    <3> QED BY <3>1, <3>2
  <2>8. ASSUME NEW t \in Threads, t # a, Accept(t) PROVE FALSE
    BY <1>1, <2>2, <2>4, <2>8
    DEF Accept, CreateInstance, CreateInstanceFails, InsertClient, ListenPending, ListenDone,
        ListenOnNull, CleanupClient, MarkConnected, PostRead, AcceptNext, packet
  <2>9. ASSUME NEW w \in Workers, w # a, Worker(w), ~Accept(w) PROVE FALSE
    <3>1. CASE HandleLine(w)
      <4>1. pc' = pc \/ \E s \in ShutdownThreads : pc' = [pc EXCEPT ![s] = "check"]
        BY <3>1 DEF HandleLine
      <4>2. pc'[a] = pc[a] BY <1>1, <2>1, <2>2, <4>1 DEF Stoppers
      <4> QED BY <2>4, <3>1, <4>2 DEF HandleLine, packet
    <3>2. CASE ~HandleLine(w)
      BY <1>1, <2>1, <2>4, <2>9, <3>2
      DEF Worker, Loop, TakeShutdown, Lookup, TakePacket, ReadEof, ReadFailed, OnClientDisconnect,
          AppendData, TakeLineBuffer, KeepIncompleteLine, packet
    <3> QED BY <3>1, <3>2
  <2>10. ASSUME NEW s \in Stoppers, CtrlEvent(s) \/ Stop(s) PROVE FALSE
    BY <1>1, <2>1, <2>4, <2>10
    DEF Stop, CtrlEvent, CheckRunning, ClearRunning, PostShutdowns, JoinWorkers, CloseClients,
        StopReturns, packet
  <2>11. ~ \E c \in Clients : Connect(c) \/ Send(c) \/ Leave(c) \/ CompleteRead(c)
    BY <2>4 DEF Connect, Send, Leave, CompleteRead, packet
  <2>12. ~ UNCHANGED vars BY <2>4 DEF vars, packet
  <2> QED
    BY <2>1, <2>5, <2>6, <2>7, <2>8, <2>9, <2>10, <2>11, <2>12 DEF Next, Starter, Threads
<1>3. ASSUME NEW c \in Awaiting PROVE Acceptors' \cup Awaiting' # {}
  <2>1. c \in Clients /\ op[c] \in {"connecting", "connected"} BY DEF Awaiting
  <2>2. SUFFICES ASSUME op'[c] \notin {"connecting", "connected"} PROVE Acceptors' # {}
    BY <2>1 DEF Awaiting
  <2>4. ASSUME NEW w \in Workers, NEW d \in Clients, TakePacket(w, d) PROVE Acceptors' # {}
    <3>1. d = c BY <1>1, <2>1, <2>2, <2>4 DEF TakePacket
    <3>2. op[c] = "connected" BY <2>1, <2>4, <3>1 DEF TakePacket, Completed
    <3>3. pc'[w] = "lookup" /\ kind'[w] = "connected"
      BY <1>1, <2>4, <3>1, <3>2 DEF TakePacket, Threads
    <3> QED BY <3>3 DEF Acceptors, Threads
  <2>5. ASSUME NEW t \in Threads, Accept(t) PROVE FALSE
    <3>1. PostRead(t) \/ ListenPending(t)
      BY <2>1, <2>2, <2>5
      DEF Accept, CreateInstance, CreateInstanceFails, InsertClient, ListenDone, ListenOnNull,
          CleanupClient, MarkConnected, AcceptNext, pipes
    <3>2. cur[t] = c
      BY <1>1, <2>1, <2>2, <3>1 DEF PostRead, ListenPending, Transfer
    <3>3. Owns(t, c) BY <3>1, <3>2 DEF PostRead, ListenPending, Owns, OwnerLabels
    <3> QED BY <2>1, <3>3 DEF Inv, SingleOwner
  <2>6. ~Start /\ ~SpawnWorkers BY <2>1, <2>2 DEF Start, SpawnWorkers, pipes
  <2>7. ASSUME NEW w \in Workers, Worker(w), ~Accept(w) PROVE Acceptors' # {}
    BY <2>1, <2>2, <2>4, <2>7
    DEF Worker, Loop, TakeShutdown, Lookup, ReadEof, ReadFailed, OnClientDisconnect,
        AppendData, TakeLineBuffer, HandleLine, KeepIncompleteLine, pipes
  <2>8. ASSUME NEW s \in Stoppers, CtrlEvent(s) \/ Stop(s) PROVE FALSE
    <3>1. CloseClients(s)
      BY <2>1, <2>2, <2>8
      DEF Stop, CtrlEvent, CheckRunning, ClearRunning, PostShutdowns, JoinWorkers, pipes
    <3>2. ~m_running BY <3>1 DEF CloseClients, PresenceInv, Stopped
    <3> QED BY <3>2
  <2>9. ASSUME NEW d \in Clients, Connect(d) \/ Send(d) \/ Leave(d) \/ CompleteRead(d) PROVE FALSE
    BY <1>1, <2>1, <2>2, <2>9 DEF Connect, Send, Leave, CompleteRead, Transfer, pipes
  <2>10. ~ UNCHANGED vars BY <2>1, <2>2 DEF vars, pipes
  <2> QED
    BY <2>5, <2>6, <2>7, <2>8, <2>9, <2>10 DEF Next, Starter, Threads
<1> QED BY <1>2, <1>3

\* While the server runs, it stops accepting only where an instance cannot be made or
\* its client has gone (_acceptConnection, _workerThread).
THEOREM AcceptingGoesOn == Spec => AcceptingEndsByFailure
<1>1. Inv /\ PresenceInv /\ [Next]_vars =>
         [m_running /\ Acceptors \cup Awaiting # {} /\ (Acceptors \cup Awaiting)' = {}
             => \E t \in Threads : pc[t] \in {"accept", "cleanup"}]_vars
  BY ChainOfAccepts
<1> QED BY <1>1, InvInitially, InvIsInductive, PresenceInitially, PresenceIsInductive, PTL
        DEF Spec, AcceptingEndsByFailure

-----------------------------------------------------------------------------
(* A disconnection is reported once *)

Notifying(t, c) == pc[t] \in {"notify", "notifyLocked"} /\ cur[t] = c

\* The disconnection of c was reported, or is about to be.
Reported(c) == notified[c] # 0 \/ \E t \in Threads : Notifying(t, c)

\* Nothing is left of a client that is reported, and its id is not given out again.
NoticeInv ==
    /\ notified \in [Clients -> {0, 1}]
    /\ \A t \in Threads : pc[t] \in {"notify", "notifyLocked"} => cur[t] \in Clients
    /\ \A c \in Clients, t \in Threads : Notifying(t, c) =>
          notified[c] = 0 /\ \A u \in Threads \ {t} : ~Notifying(u, c)
    /\ \A c \in Clients : Reported(c) =>
          /\ c \notin m_clients /\ op[c] = "idle" /\ c < m_nextClientId
          /\ \A t \in Threads : ~Owns(t, c)

LEMMA NoticeInitially == Init => NoticeInv
<1> SUFFICES ASSUME Init PROVE NoticeInv
  OBVIOUS
<1>1. notified = [c \in Clients |-> 0] /\ op = [c \in Clients |-> "idle"] BY DEF Init
<1>2. \A t \in Threads : pc[t] \in {"start", "exited", "idle"} BY DEF Init
<1>3. \A c \in Clients : ~Reported(c) BY <1>1, <1>2 DEF Reported, Notifying
<1> QED BY <1>1, <1>2, <1>3 DEF NoticeInv, Notifying

LEMMA AcceptKeepsNotice ==
    ASSUME Inv, PresenceInv, NoticeInv, NEW t \in Threads,
           CreateInstance(t) \/ CreateInstanceFails(t) \/ InsertClient(t) \/ ListenPending(t) \/ ListenDone(t) \/ ListenOnNull(t) \/ CleanupClient(t) \/ MarkConnected(t) \/ PostRead(t) \/ AcceptNext(t)
    PROVE  NoticeInv'
<1> USE ThreadsAssumption DEF Inv, Types, OwnersHaveClients, SingleOwner, Owns, OwnerLabels, NoticeInv,
        Notifying, Reported, PresenceInv, PTypes, Threads, flags, table, pipes, packet, calls, Goto, Return, Erase
<1>1. CASE CreateInstance(t)
  <2> DEFINE n == m_nextClientId
  <2>1. /\ pc[t] = "accept" /\ n \in Clients /\ n + 1 > n
        /\ pc' = [pc EXCEPT ![t] = "insert"] /\ cur' = [cur EXCEPT ![t] = n]
        /\ m_nextClientId' = n + 1 /\ UNCHANGED <<op, m_clients, notified>>
    BY <1>1 DEF CreateInstance, Clients
  <2>2. ~Reported(n) BY <2>1
  <2>3. \A c \in Clients : c < n => c < n + 1 BY <2>1 DEF Clients
  <2> HIDE DEF n
  <2>4. \A c \in Clients, u \in Threads : Notifying(u, c)' => Notifying(u, c) BY <2>1
  <2>5. \A c \in Clients : Reported(c)' => Reported(c) BY <2>1, <2>4
  <2>6. \A c \in Clients, u \in Threads : Reported(c) /\ Owns(u, c)' => FALSE BY <2>1, <2>2
  <2>7. notified \in [Clients -> {0, 1}] OBVIOUS
  <2>8. \A u \in Threads : pc'[u] \in {"notify", "notifyLocked"} => cur'[u] \in Clients
    BY <2>1
  <2>9. \A c \in Clients, u \in Threads : Notifying(u, c)' =>
           notified[c] = 0 /\ \A v \in Threads \ {u} : ~Notifying(v, c)'
    <3> HIDE DEF Notifying
    <3> QED BY <2>4
  <2>10. \A c \in Clients : Reported(c)' =>
            /\ c \notin m_clients /\ op[c] = "idle" /\ c < n + 1
            /\ \A u \in Threads : ~Owns(u, c)'
    <3> SUFFICES ASSUME NEW c \in Clients, Reported(c)'
                 PROVE  /\ c \notin m_clients /\ op[c] = "idle" /\ c < n + 1
                        /\ \A u \in Threads : ~Owns(u, c)'
      OBVIOUS
    <3>1. Reported(c) BY <2>5
    <3>2. \A u \in Threads : ~Owns(u, c)' BY <2>6, <3>1
    <3>3. c \notin m_clients /\ op[c] = "idle" /\ c < n BY <3>1 DEF n
    <3> QED BY <2>3, <3>2, <3>3
  <2> QED BY <2>1, <2>7, <2>8, <2>9, <2>10
<1>2. CASE CreateInstanceFails(t)
  BY <1>2 DEF CreateInstanceFails
<1>3. CASE InsertClient(t)
  BY <1>3 DEF InsertClient
<1>4. CASE ListenPending(t)
  BY <1>4 DEF ListenPending
<1>5. CASE ListenDone(t)
  BY <1>5 DEF ListenDone
<1>6. CASE ListenOnNull(t)
  BY <1>6 DEF ListenOnNull
<1>7. CASE CleanupClient(t)
  BY <1>7 DEF CleanupClient
<1>8. CASE MarkConnected(t)
  BY <1>8 DEF MarkConnected
<1>9. CASE PostRead(t)
  BY <1>9 DEF PostRead, Transfer
<1>10. CASE AcceptNext(t)
  BY <1>10 DEF AcceptNext
<1> QED BY <1>1, <1>2, <1>3, <1>4, <1>5, <1>6, <1>7, <1>8, <1>9, <1>10

\* The worker that erases a client was the only one to work on it.
LEMMA NoticeOfErased ==
    ASSUME Inv, NoticeInv, NEW w \in Workers, cur[w] \in Clients,
           pc[w] \in {"eof", "failed"}, m_clients' = m_clients \ {cur[w]},
           pc' = [pc EXCEPT ![w] = "notify"] \/ pc' = [pc EXCEPT ![w] = "notifyLocked"],
           UNCHANGED <<op, cur, m_nextClientId, notified>>
    PROVE  NoticeInv'
<1> USE ThreadsAssumption DEF Threads
<1> DEFINE c == cur[w]
<1>1. Owns(w, c) /\ w \in Threads BY DEF Owns, OwnerLabels
<1>2. /\ op[c] = "idle" /\ c < m_nextClientId /\ ~Reported(c)
      /\ \A u \in Threads \ {w} : ~Owns(u, c)
  BY <1>1 DEF Inv, SingleOwner, Fresh, NoticeInv
<1>3. /\ pc'[w] \in {"notify", "notifyLocked"} /\ cur'[w] = c
      /\ \A u \in Threads \ {w} : pc'[u] = pc[u] /\ cur'[u] = cur[u]
  BY DEF Inv, Types
<1>4. /\ \A d \in Clients, u \in Threads \ {w} : Notifying(u, d)' <=> Notifying(u, d)
      /\ \A d \in Clients : Notifying(w, d)' <=> d = c
      /\ \A d \in Clients, u \in Threads \ {w} : Owns(u, d)' <=> Owns(u, d)
      /\ \A d \in Clients : ~Owns(w, d)'
  BY <1>3 DEF Notifying, Owns, OwnerLabels
<1>5. \A d \in Clients : Reported(d)' => Reported(d) \/ d = c BY <1>4 DEF Reported
<1>6. \A u \in Threads : pc'[u] \in {"notify", "notifyLocked"} => cur'[u] \in Clients
  BY <1>3 DEF NoticeInv
<1>7. \A d \in Clients, u \in Threads : Notifying(u, d)' =>
         notified'[d] = 0 /\ \A v \in Threads \ {u} : ~Notifying(v, d)'
  BY <1>1, <1>2, <1>4 DEF NoticeInv, Reported
<1>8. \A d \in Clients : Reported(d)' =>
         /\ d \notin m_clients' /\ op'[d] = "idle" /\ d < m_nextClientId'
         /\ \A u \in Threads : ~Owns(u, d)'
  BY <1>2, <1>4, <1>5 DEF NoticeInv
<1> QED BY <1>6, <1>7, <1>8 DEF NoticeInv

LEMMA WorkerKeepsNotice ==
    ASSUME Inv, PresenceInv, NoticeInv, NEW w \in Workers,
           Loop(w) \/ TakeShutdown(w) \/ Lookup(w) \/ ReadEof(w) \/ ReadFailed(w) \/ OnClientDisconnect(w) \/ AppendData(w) \/ TakeLineBuffer(w) \/ HandleLine(w) \/ KeepIncompleteLine(w)
    PROVE  NoticeInv'
<1> USE ThreadsAssumption DEF Inv, Types, OwnersHaveClients, SingleOwner, Owns, OwnerLabels, NoticeInv,
        Notifying, Reported, PresenceInv, PTypes, Threads, flags, table, pipes, packet, calls, Goto, Return, Erase
<1>1. CASE Loop(w)
  BY <1>1 DEF Loop
<1>2. CASE TakeShutdown(w)
  BY <1>2 DEF TakeShutdown
<1>3. CASE Lookup(w)
  BY <1>3 DEF Lookup
<1>4. CASE ReadEof(w)
  <2>1. /\ pc[w] = "eof" /\ cur[w] \in Clients /\ m_clients' = m_clients \ {cur[w]}
        /\ pc' = [pc EXCEPT ![w] = "notify"]
        /\ UNCHANGED <<op, cur, m_nextClientId, notified>>
    BY <1>4 DEF ReadEof
  <2> QED BY <2>1, NoticeOfErased
<1>5. CASE ReadFailed(w)
  <2>1. CASE cur[w] \in m_clients
    <3>1. /\ pc[w] = "failed" /\ cur[w] \in Clients /\ m_clients' = m_clients \ {cur[w]}
          /\ pc' = [pc EXCEPT ![w] = "notifyLocked"]
          /\ UNCHANGED <<op, cur, m_nextClientId, notified>>
      BY <1>5, <2>1 DEF ReadFailed
    <3> QED BY <3>1, NoticeOfErased
  <2>2. CASE cur[w] \notin m_clients BY <1>5, <2>2 DEF ReadFailed
  <2> QED BY <2>1, <2>2
<1>6. CASE OnClientDisconnect(w)
  BY <1>6 DEF OnClientDisconnect
<1>7. CASE AppendData(w)
  <2>1. /\ pc[w] = "append"
        /\ \E label \in {"take", "loop"} : pc' = [pc EXCEPT ![w] = label]
        /\ UNCHANGED <<op, m_clients, cur, m_nextClientId, notified>>
    BY <1>7 DEF AppendData
  <2> QED BY <2>1
<1>8. CASE TakeLineBuffer(w)
  BY <1>8 DEF TakeLineBuffer
<1>9. CASE HandleLine(w)
  BY <1>9 DEF HandleLine
<1>10. CASE KeepIncompleteLine(w)
  BY <1>10 DEF KeepIncompleteLine
<1> QED BY <1>1, <1>2, <1>3, <1>4, <1>5, <1>6, <1>7, <1>8, <1>9, <1>10

LEMMA StopKeepsNotice ==
    ASSUME Inv, PresenceInv, NoticeInv, NEW s \in Stoppers,
           CtrlEvent(s) \/ CheckRunning(s) \/ ClearRunning(s) \/ PostShutdowns(s) \/ JoinWorkers(s) \/ CloseClients(s)
    PROVE  NoticeInv'
<1> USE ThreadsAssumption DEF Inv, Types, OwnersHaveClients, SingleOwner, Owns, OwnerLabels, NoticeInv,
        Notifying, Reported, PresenceInv, PTypes, Threads, flags, table, pipes, packet, calls, Goto, Return, Erase
<1>1. CASE CtrlEvent(s)
  BY <1>1 DEF CtrlEvent
<1>2. CASE CheckRunning(s)
  BY <1>2 DEF CheckRunning, StopReturns
<1>3. CASE ClearRunning(s)
  BY <1>3 DEF ClearRunning
<1>4. CASE PostShutdowns(s)
  BY <1>4 DEF PostShutdowns
<1>5. CASE JoinWorkers(s)
  BY <1>5 DEF JoinWorkers
<1>6. CASE CloseClients(s)
  BY <1>6 DEF CloseClients, StopReturns
<1> QED BY <1>1, <1>2, <1>3, <1>4, <1>5, <1>6

LEMMA ClientKeepsNotice ==
    ASSUME Inv, PresenceInv, NoticeInv, NEW c \in Clients,
           Connect(c) \/ Send(c) \/ Leave(c) \/ CompleteRead(c)
    PROVE  NoticeInv'
<1> USE ThreadsAssumption DEF Inv, Types, OwnersHaveClients, SingleOwner, Owns, OwnerLabels, NoticeInv,
        Notifying, Reported, PresenceInv, PTypes, Threads, flags, table, pipes, packet, calls, Goto, Return, Erase
<1>1. CASE Connect(c)
  BY <1>1 DEF Connect
<1>2. CASE Send(c)
  BY <1>2 DEF Send
<1>3. CASE Leave(c)
  BY <1>3 DEF Leave
<1>4. CASE CompleteRead(c)
  BY <1>4 DEF CompleteRead, Transfer
<1> QED BY <1>1, <1>2, <1>3, <1>4

LEMMA TakeKeepsNotice ==
    ASSUME Inv, NoticeInv, NEW w \in Workers, NEW c \in Clients, TakePacket(w, c)
    PROVE  NoticeInv'
BY ThreadsAssumption
   DEF TakePacket, Inv, Types, OwnersHaveClients, Fresh, SingleOwner, Owns, OwnerLabels, NoticeInv, Notifying,
       Reported, Threads, flags, table, calls, Goto, Completed

LEMMA NoticeIsInductive == Inv /\ PresenceInv /\ NoticeInv /\ [Next]_vars => NoticeInv'
<1> SUFFICES ASSUME Inv, PresenceInv, NoticeInv, [Next]_vars
             PROVE  NoticeInv'
  OBVIOUS
<1>1. CASE Starter
  <2>1. Start \/ SpawnWorkers => NoticeInv'
    BY ThreadsAssumption
    DEF Start, SpawnWorkers, Inv, Types, Startup, NoticeInv, Notifying, Reported, Owns, OwnerLabels,
        Threads, flags, table, pipes, packet, calls, Goto
  <2> QED BY <1>1, <2>1, AcceptKeepsNotice DEF Starter, Accept, Threads
<1>2. CASE \E w \in Workers : Worker(w)
  BY <1>2, WorkerKeepsNotice, TakeKeepsNotice, AcceptKeepsNotice DEF Worker, Accept, Threads
<1>3. CASE \E s \in Stoppers : CtrlEvent(s) \/ Stop(s)
  BY <1>3, StopKeepsNotice DEF Stop
<1>4. CASE \E c \in Clients : Connect(c) \/ Send(c) \/ Leave(c) \/ CompleteRead(c)
  BY <1>4, ClientKeepsNotice
<1>5. CASE UNCHANGED vars
  BY <1>5 DEF NoticeInv, Notifying, Reported, Owns, vars, flags, table, pipes, packet, calls
<1> QED BY <1>1, <1>2, <1>3, <1>4, <1>5 DEF Next

\* m_onClientDisconnect is called once for a client, by one worker, and never while the
\* client can still be found (_workerThread).
THEOREM DisconnectReportedOnce == Spec => []NotifiedOnce
<1>1. NoticeInv => NotifiedOnce BY DEF NoticeInv, NotifiedOnce, Reported
<1> QED BY <1>1, InvInitially, InvIsInductive, PresenceInitially, PresenceIsInductive,
           NoticeInitially, NoticeIsInductive, PTL DEF Spec

-----------------------------------------------------------------------------
(* No byte is lost *)

DataTypes ==
    /\ readBuffer \in [Clients -> Seq(Nat)] /\ lineBuffer \in [Clients -> Seq(Nat)]
    /\ wire \in [Clients -> Seq(Nat)] /\ handled \in [Clients -> Seq(Nat)]
    /\ local \in [Threads -> Seq(Nat)] /\ sent \in [Clients -> Nat]

\* What a read put there is appended before anything else is done with the client.
ReadBuffersEmpty ==
    \A c \in Clients :
        /\ c >= m_nextClientId \/ op[c] \notin {"idle", "data"} => readBuffer[c] = <<>>
        /\ \A t \in Threads :
              Owns(t, c) /\ ~(pc[t] \in {"lookup", "append"} /\ kind[t] = "data")
                  => readBuffer[c] = <<>>

Framing(w, c) == pc[w] = "frame" /\ cur[w] = c

\* The line buffer is empty while a worker splits what it took from it.
LineBuffersEmpty ==
    \A c \in Clients, w \in Workers : Framing(w, c) => lineBuffer[c] = <<>>

\* The bytes of c with the ones that a worker has taken.
Flow(c, taken) == handled[c] \o taken \o lineBuffer[c] \o readBuffer[c] \o wire[c]
InOrder(c, taken) == Flow(c, taken) = [i \in 1 .. sent[c] |-> i]

WholeAt(c) == /\ \A w \in Workers : Framing(w, c) => InOrder(c, local[w])
              /\ (\A w \in Workers : ~Framing(w, c)) => InOrder(c, <<>>)
Whole == \A c \in Clients : WholeAt(c)

EndsInLine(bytes) == bytes # <<>> => bytes[Len(bytes)] \in LineEnds
WholeLines == \A c \in Clients : EndsInLine(handled[c])

ByteInv == DataTypes /\ ReadBuffersEmpty /\ LineBuffersEmpty /\ Whole /\ WholeLines

LEMMA ConcatAssoc ==
    ASSUME NEW s \in Seq(Nat), NEW t \in Seq(Nat), NEW u \in Seq(Nat)
    PROVE  (s \o t) \o u = s \o (t \o u)
BY ConcatAssociative, Z3T(30)

\* The bytes 1 .. n, in the order they were sent.
UpTo(n) == [i \in 1 .. n |-> i]

\* The moves of bytes between the places keep their concatenation: the client sends
\* one, a read completes, the data is appended, the line buffer is taken, a line is
\* handled, and what is left is put back.
LEMMA FlowSent ==
    ASSUME NEW front \in Seq(Nat), NEW w \in Seq(Nat), NEW n \in Nat,
           front \o w = UpTo(n)
    PROVE  front \o Append(w, n + 1) = UpTo(n + 1)
<1>1. Append(w, n + 1) = w \o <<n + 1>> /\ <<n + 1>> \in Seq(Nat)
  <2>1. n + 1 \in Nat /\ <<n + 1>> \in Seq(Nat)
    OBVIOUS
  <2> QED BY <2>1, AppendIsConcat, Zenon
<1>2. front \o (w \o <<n + 1>>) = (front \o w) \o <<n + 1>>
  BY <1>1, ConcatAssoc
<1>3. UpTo(n) \in Seq(Nat) /\ Len(UpTo(n)) = n
  BY DEF UpTo
<1>4. UpTo(n) \o <<n + 1>> = Append(UpTo(n), n + 1)
  BY <1>3, AppendIsConcat
<1>5. Append(UpTo(n), n + 1) = UpTo(n + 1)
  BY <1>3 DEF UpTo
<1> QED BY <1>1, <1>2, <1>4, <1>5

LEMMA SubSeqTypes ==
    ASSUME NEW w \in Seq(Nat), NEW n \in 1 .. Len(w)
    PROVE  SubSeq(w, 1, n) \in Seq(Nat) /\ SubSeq(w, n + 1, Len(w)) \in Seq(Nat)
OBVIOUS

LEMMA FlowRead ==
    ASSUME NEW front \in Seq(Nat), NEW w \in Seq(Nat), NEW n \in 1 .. Len(w)
    PROVE  front \o SubSeq(w, 1, n) \o SubSeq(w, n + 1, Len(w)) = front \o <<>> \o w
<1>1. SubSeq(w, 1, n) \o SubSeq(w, n + 1, Len(w)) = SubSeq(w, 1, Len(w))
  BY ConcatAdjacentSubSeq
<1>2. SubSeq(w, 1, Len(w)) = w BY SubSeqFull
<1>3. SubSeq(w, 1, n) \in Seq(Nat) /\ SubSeq(w, n + 1, Len(w)) \in Seq(Nat)
  BY SubSeqTypes
<1>4. (front \o SubSeq(w, 1, n)) \o SubSeq(w, n + 1, Len(w))
         = front \o (SubSeq(w, 1, n) \o SubSeq(w, n + 1, Len(w)))
  BY <1>3, ConcatAssoc
<1>5. front \o <<>> = front OBVIOUS
<1> QED BY <1>1, <1>2, <1>4, <1>5

LEMMA FlowAppended ==
    ASSUME NEW front \in Seq(Nat), NEW l \in Seq(Nat), NEW r \in Seq(Nat)
    PROVE  front \o (l \o r) \o <<>> = front \o l \o r
<1>1. front \o (l \o r) = front \o l \o r BY ConcatAssoc
<1>2. front \o l \o r \in Seq(Nat) OBVIOUS
<1> QED BY <1>1, <1>2

LEMMA FlowTaken ==
    ASSUME NEW front \in Seq(Nat), NEW t \in Seq(Nat)
    PROVE  front \o t \o <<>> = front \o <<>> \o t
OBVIOUS

LEMMA FlowHandled ==
    ASSUME NEW h \in Seq(Nat), NEW t \in Seq(Nat), NEW e \in 1 .. Len(t)
    PROVE  h \o SubSeq(t, 1, e) \o SubSeq(t, e + 1, Len(t)) = h \o t
<1>1. h \o <<>> = h OBVIOUS
<1> QED BY <1>1, FlowRead


LEMMA BytesInitially == Init => ByteInv
<1> SUFFICES ASSUME Init PROVE ByteInv
  OBVIOUS
<1>1. DataTypes
  BY BoundsAssumption DEF Init, DataTypes
<1>2. ReadBuffersEmpty /\ LineBuffersEmpty /\ WholeLines
  BY DEF Init, ReadBuffersEmpty, LineBuffersEmpty, WholeLines, EndsInLine
<1>3. ASSUME NEW c \in Clients
      PROVE  WholeAt(c)
  <2>1. \A w \in Workers : ~Framing(w, c)
    BY ThreadsAssumption DEF Init, Framing, Threads, Stoppers
  <2>2. handled[c] = <<>> /\ lineBuffer[c] = <<>> /\ readBuffer[c] = <<>> /\ wire[c] = <<>> /\ sent[c] = 0
    BY DEF Init
  <2>3. <<>> \o <<>> \o <<>> \o <<>> \o <<>> = <<>> /\ [i \in 1 .. 0 |-> i] = <<>>
    OBVIOUS
  <2> QED BY <2>1, <2>2, <2>3 DEF WholeAt, InOrder, Flow
<1> QED BY <1>1, <1>2, <1>3 DEF ByteInv, Whole

\* No worker starts or stops splitting lines.
SameFrames == \A w \in Workers, c \in Clients : Framing(w, c)' <=> Framing(w, c)

\* A step that moves no byte.
LEMMA StaticKeepsBytes ==
    ASSUME ByteInv, UNCHANGED data, SameFrames, ReadBuffersEmpty'
    PROVE  ByteInv'
<1>1. DataTypes' BY DEF ByteInv, DataTypes, data
<1>2. LineBuffersEmpty' BY DEF ByteInv, LineBuffersEmpty, data, SameFrames
<1>3. WholeLines' BY DEF ByteInv, WholeLines, EndsInLine, data
<1>4. Whole' BY DEF ByteInv, Whole, WholeAt, InOrder, Flow, SameFrames, data
<1> QED BY <1>1, <1>2, <1>3, <1>4 DEF ByteInv

LEMMA StartIsStatic ==
    ASSUME Inv, ByteInv, Start \/ SpawnWorkers
    PROVE  UNCHANGED data /\ SameFrames /\ ReadBuffersEmpty'
BY ThreadsAssumption
   DEF Start, SpawnWorkers, Inv, Types, Startup, ByteInv, SameFrames, Framing, ReadBuffersEmpty, Owns,
       OwnerLabels, Threads, Goto, pipes, packet, data

LEMMA AcceptIsStatic ==
    ASSUME Inv, ByteInv, NEW t \in Threads, Accept(t), ~PostRead(t)
    PROVE  UNCHANGED data /\ SameFrames /\ ReadBuffersEmpty'
<1> USE ThreadsAssumption DEF Inv, Types, Fresh, OwnersHaveClients, ByteInv, SameFrames, Framing,
        ReadBuffersEmpty, Owns, OwnerLabels, Threads, Goto, Return, pipes, packet, data, flags
<1>1. CASE CreateInstance(t)
  BY <1>1, BoundsAssumption DEF CreateInstance, Clients
<1>2. CASE CreateInstanceFails(t)
  BY <1>2 DEF CreateInstanceFails
<1>3. CASE InsertClient(t)
  BY <1>3 DEF InsertClient
<1>4. CASE ListenPending(t)
  BY <1>4 DEF ListenPending
<1>5. CASE ListenDone(t)
  BY <1>5 DEF ListenDone
<1>6. CASE ListenOnNull(t)
  BY <1>6 DEF ListenOnNull
<1>7. CASE CleanupClient(t)
  BY <1>7 DEF CleanupClient
<1>8. CASE MarkConnected(t)
  BY <1>8 DEF MarkConnected
<1>9. CASE AcceptNext(t)
  BY <1>9 DEF AcceptNext
<1> QED BY <1>1, <1>2, <1>3, <1>4, <1>5, <1>6, <1>7, <1>8, <1>9 DEF Accept

LEMMA WorkerIsStatic ==
    ASSUME Inv, ByteInv, NEW w \in Workers,
           Loop(w) \/ TakeShutdown(w) \/ Lookup(w) \/ ReadEof(w) \/ ReadFailed(w) \/ OnClientDisconnect(w)
    PROVE  UNCHANGED data /\ SameFrames /\ ReadBuffersEmpty'
<1> USE ThreadsAssumption DEF Inv, Types, OwnersHaveClients, ByteInv, SameFrames, Framing,
        ReadBuffersEmpty, Owns, OwnerLabels, Threads, Goto, Return, pipes, packet, data, flags
<1>1. CASE Loop(w)
  BY <1>1 DEF Loop
<1>2. CASE TakeShutdown(w)
  BY <1>2 DEF TakeShutdown
<1>3. CASE Lookup(w)
  BY <1>3 DEF Lookup, Phases
<1>4. CASE ReadEof(w)
  BY <1>4 DEF ReadEof
<1>5. CASE ReadFailed(w)
  BY <1>5 DEF ReadFailed
<1>6. CASE OnClientDisconnect(w)
  BY <1>6 DEF OnClientDisconnect
<1> QED BY <1>1, <1>2, <1>3, <1>4, <1>5, <1>6

LEMMA TakeIsStatic ==
    ASSUME Inv, ByteInv, NEW w \in Workers, NEW c \in Clients, TakePacket(w, c)
    PROVE  UNCHANGED data /\ SameFrames /\ ReadBuffersEmpty'
BY ThreadsAssumption
   DEF TakePacket, Inv, Types, OwnersHaveClients, SingleOwner, Fresh, ByteInv, SameFrames, Framing,
       ReadBuffersEmpty, Owns, OwnerLabels, Threads, Goto, data, flags, Completed

LEMMA StopIsStatic ==
    ASSUME Inv, ByteInv, NEW s \in Stoppers, CtrlEvent(s) \/ Stop(s)
    PROVE  UNCHANGED data /\ SameFrames /\ ReadBuffersEmpty'
<1> USE ThreadsAssumption DEF Inv, Types, OwnersHaveClients, ByteInv, SameFrames, Framing,
        ReadBuffersEmpty, Owns, OwnerLabels, Threads, Goto, pipes, packet, data, flags
<1>1. CASE CtrlEvent(s)
  BY <1>1 DEF CtrlEvent
<1>2. CASE CheckRunning(s)
  BY <1>2 DEF CheckRunning, StopReturns
<1>3. CASE ClearRunning(s)
  BY <1>3 DEF ClearRunning
<1>4. CASE PostShutdowns(s)
  BY <1>4 DEF PostShutdowns
<1>5. CASE JoinWorkers(s)
  BY <1>5 DEF JoinWorkers
<1>6. CASE CloseClients(s)
  BY <1>6 DEF CloseClients, StopReturns
<1> QED BY <1>1, <1>2, <1>3, <1>4, <1>5, <1>6 DEF Stop

LEMMA ConnectIsStatic ==
    ASSUME Inv, ByteInv, NEW c \in Clients,
           \/ Connect(c) \/ Leave(c)
           \/ CompleteRead(c) /\ wire[c] = <<>>
    PROVE  UNCHANGED data /\ SameFrames /\ ReadBuffersEmpty'
<1> USE ThreadsAssumption DEF Inv, Types, OwnersHaveClients, ByteInv, SameFrames, Framing,
        ReadBuffersEmpty, Owns, OwnerLabels, Threads, pipes, packet, data, flags
<1>1. CASE Connect(c)
  BY <1>1 DEF Connect
<1>2. CASE Leave(c)
  BY <1>2 DEF Leave
<1>3. CASE CompleteRead(c) /\ wire[c] = <<>>
  BY <1>3 DEF CompleteRead, Transfer
<1> QED BY <1>1, <1>2, <1>3


\* A step that moves bytes of client c only.
OnlyBytesOf(c) ==
    \A d \in Clients \ {c} :
        /\ handled'[d] = handled[d] /\ lineBuffer'[d] = lineBuffer[d]
        /\ readBuffer'[d] = readBuffer[d] /\ wire'[d] = wire[d] /\ sent'[d] = sent[d]
        /\ \A w \in Workers : /\ Framing(w, d)' <=> Framing(w, d)
                              /\ Framing(w, d) => local'[w] = local[w]

LEMMA OneClientMoves ==
    ASSUME ByteInv, NEW c \in Clients, OnlyBytesOf(c), DataTypes', ReadBuffersEmpty', WholeAt(c)',
           EndsInLine(handled[c])',
           \A w \in Workers : Framing(w, c)' => lineBuffer'[c] = <<>>
    PROVE  ByteInv'
<1>1. ASSUME NEW d \in Clients, d # c
      PROVE  /\ WholeAt(d)' /\ EndsInLine(handled[d])'
             /\ \A w \in Workers : Framing(w, d)' => lineBuffer'[d] = <<>>
  <2>1. /\ handled'[d] = handled[d] /\ lineBuffer'[d] = lineBuffer[d]
        /\ readBuffer'[d] = readBuffer[d] /\ wire'[d] = wire[d] /\ sent'[d] = sent[d]
    BY <1>1 DEF OnlyBytesOf
  <2>2. \A w \in Workers : /\ Framing(w, d)' <=> Framing(w, d)
                           /\ Framing(w, d) => local'[w] = local[w]
    BY <1>1 DEF OnlyBytesOf
  <2>3. WholeAt(d) /\ EndsInLine(handled[d]) BY DEF ByteInv, Whole, WholeLines
  <2>4. WholeAt(d)'
    <3>1. ASSUME NEW w \in Workers, Framing(w, d)' PROVE InOrder(d, local[w])'
      <4>1. InOrder(d, local[w]) /\ local'[w] = local[w]
        BY <2>2, <2>3, <3>1 DEF WholeAt
      <4> QED BY <2>1, <4>1 DEF InOrder, Flow
    <3>2. ASSUME \A w \in Workers : ~Framing(w, d)' PROVE InOrder(d, <<>>)'
      <4>1. InOrder(d, <<>>) BY <2>2, <2>3, <3>2 DEF WholeAt
      <4> QED BY <2>1, <4>1 DEF InOrder, Flow
    <3> QED BY <3>1, <3>2 DEF WholeAt
  <2>5. EndsInLine(handled[d])' BY <2>1, <2>3 DEF EndsInLine
  <2> QED BY <2>1, <2>2, <2>4, <2>5 DEF ByteInv, LineBuffersEmpty
<1>2. Whole' BY <1>1 DEF Whole
<1>3. WholeLines' BY <1>1 DEF WholeLines
<1>4. LineBuffersEmpty' BY <1>1 DEF LineBuffersEmpty
<1> QED BY <1>2, <1>3, <1>4 DEF ByteInv

\* A step that takes nothing from a line buffer and handles nothing keeps the order
\* whatever a worker has taken.
LEMMA AnyTaken ==
    ASSUME ByteInv, NEW c \in Clients, SameFrames, UNCHANGED local,
           \A taken \in Seq(Nat) : InOrder(c, taken) => InOrder(c, taken)'
    PROVE  WholeAt(c)'
<1>1. \A w \in Workers : local'[w] = local[w] /\ local[w] \in Seq(Nat)
  BY DEF ByteInv, DataTypes, Threads
<1>2. WholeAt(c) BY DEF ByteInv, Whole
<1>3. ASSUME NEW w \in Workers, Framing(w, c)' PROVE InOrder(c, local[w])'
  <2>1. InOrder(c, local[w]) BY <1>2, <1>3 DEF WholeAt, SameFrames
  <2> QED BY <1>1, <2>1 DEF InOrder, Flow
<1>4. ASSUME \A w \in Workers : ~Framing(w, c)' PROVE InOrder(c, <<>>)'
  <2>1. InOrder(c, <<>>) BY <1>2, <1>4 DEF WholeAt, SameFrames
  <2>2. <<>> \in Seq(Nat) OBVIOUS
  <2> QED BY <2>1, <2>2 DEF InOrder, Flow
<1> QED BY <1>3, <1>4 DEF WholeAt

LEMMA SendKeepsBytes ==
    ASSUME Inv, ByteInv, NEW c \in Clients, Send(c)
    PROVE  ByteInv'
<1>1. DataTypes BY DEF ByteInv
<1>2. /\ sent' = [sent EXCEPT ![c] = sent[c] + 1]
      /\ wire' = [wire EXCEPT ![c] = Append(wire[c], sent[c] + 1)]
      /\ UNCHANGED <<readBuffer, lineBuffer, handled, local, pc, cur, op, kind, m_nextClientId>>
  BY DEF Send, pipes, packet, flags
<1>3. Append(wire[c], sent[c] + 1) \in Seq(Nat) /\ sent[c] + 1 \in Nat
  BY <1>1 DEF DataTypes
<1>4. DataTypes' BY <1>1, <1>2, <1>3 DEF DataTypes
<1>5. OnlyBytesOf(c) /\ SameFrames
  BY <1>1, <1>2 DEF DataTypes, OnlyBytesOf, SameFrames, Framing
<1>6. ReadBuffersEmpty'
  BY <1>2 DEF ByteInv, ReadBuffersEmpty, Owns
<1>7. EndsInLine(handled[c])' /\ \A w \in Workers : Framing(w, c)' => lineBuffer'[c] = <<>>
  BY <1>2 DEF ByteInv, WholeLines, EndsInLine, LineBuffersEmpty, Framing
<1>8. ASSUME NEW taken \in Seq(Nat), InOrder(c, taken)
      PROVE  InOrder(c, taken)'
  <2> DEFINE front == handled[c] \o taken \o lineBuffer[c] \o readBuffer[c]
  <2>1. front \in Seq(Nat) BY <1>1 DEF DataTypes
  <2>2. front \o wire[c] = [i \in 1 .. sent[c] |-> i]
    BY <1>8 DEF InOrder, Flow
  <2>3. wire[c] \in Seq(Nat) /\ sent[c] \in Nat BY <1>1 DEF DataTypes
  <2>4. front \o Append(wire[c], sent[c] + 1) = [i \in 1 .. sent[c] + 1 |-> i]
    <3> DEFINE w == wire[c]
               n == sent[c]
    <3> HIDE DEF front, w, n
    <3>1. front \o Append(w, n + 1) = [i \in 1 .. n + 1 |-> i]
      <4>1. front \o w = UpTo(n) /\ w \in Seq(Nat) /\ n \in Nat
        BY <2>2, <2>3 DEF w, n, UpTo
      <4>2. front \o Append(w, n + 1) = UpTo(n + 1)
        BY <2>1, <4>1, FlowSent
      <4> QED BY <4>2 DEF UpTo
    <3> QED BY <3>1 DEF w, n
  <2>5. wire'[c] = Append(wire[c], sent[c] + 1) /\ sent'[c] = sent[c] + 1
    BY <1>1, <1>2 DEF DataTypes
  <2>6. handled'[c] = handled[c] /\ lineBuffer'[c] = lineBuffer[c] /\ readBuffer'[c] = readBuffer[c]
    BY <1>2
  <2> QED BY <2>4, <2>5, <2>6 DEF InOrder, Flow
<1>9. WholeAt(c)' BY <1>2, <1>5, <1>8, AnyTaken
<1> QED BY <1>4, <1>5, <1>6, <1>7, <1>9, OneClientMoves

\* A read completes into the buffer of c, posted by its owner or pending before.
LEMMA TransferMovesBytes ==
    ASSUME ByteInv, NEW c \in Clients, Transfer(c), readBuffer[c] = <<>>, SameFrames,
           UNCHANGED <<lineBuffer, handled, local, sent>>
    PROVE  /\ DataTypes' /\ OnlyBytesOf(c) /\ WholeAt(c)' /\ EndsInLine(handled[c])'
           /\ \A w \in Workers : Framing(w, c)' => lineBuffer'[c] = <<>>
<1>1. DataTypes BY DEF ByteInv
<1>2. PICK n \in 1 .. Len(wire[c]) :
        /\ readBuffer' = [readBuffer EXCEPT ![c] = SubSeq(wire[c], 1, n)]
        /\ wire' = [wire EXCEPT ![c] = SubSeq(wire[c], n + 1, Len(wire[c]))]
  BY DEF Transfer
<1>3. SubSeq(wire[c], 1, n) \in Seq(Nat) /\ SubSeq(wire[c], n + 1, Len(wire[c])) \in Seq(Nat)
  <2>1. wire[c] \in Seq(Nat) BY <1>1 DEF DataTypes
  <2> QED BY <2>1, SubSeqTypes
<1>4. DataTypes' BY <1>1, <1>2, <1>3 DEF DataTypes
<1>5. OnlyBytesOf(c)
  BY <1>1, <1>2 DEF DataTypes, OnlyBytesOf, SameFrames, Threads
<1>6. EndsInLine(handled[c])' /\ \A w \in Workers : Framing(w, c)' => lineBuffer'[c] = <<>>
  BY DEF ByteInv, WholeLines, EndsInLine, LineBuffersEmpty, SameFrames
<1>7. ASSUME NEW taken \in Seq(Nat), InOrder(c, taken)
      PROVE  InOrder(c, taken)'
  <2> DEFINE front == handled[c] \o taken \o lineBuffer[c]
  <2>1. front \in Seq(Nat) /\ wire[c] \in Seq(Nat) BY <1>1 DEF DataTypes
  <2>2. front \o <<>> \o wire[c] = [i \in 1 .. sent[c] |-> i]
    BY <1>7 DEF InOrder, Flow
  <2>3. front \o SubSeq(wire[c], 1, n) \o SubSeq(wire[c], n + 1, Len(wire[c]))
           = [i \in 1 .. sent[c] |-> i]
    <3> HIDE DEF front
    <3> QED BY <2>1, <2>2, FlowRead
  <2>4. /\ readBuffer'[c] = SubSeq(wire[c], 1, n)
        /\ wire'[c] = SubSeq(wire[c], n + 1, Len(wire[c]))
    BY <1>1, <1>2 DEF DataTypes
  <2>5. handled'[c] = handled[c] /\ lineBuffer'[c] = lineBuffer[c] /\ sent'[c] = sent[c]
    OBVIOUS
  <2> QED BY <2>3, <2>4, <2>5 DEF InOrder, Flow
<1>8. WholeAt(c)' BY <1>7, AnyTaken
<1> QED BY <1>4, <1>5, <1>6, <1>8

LEMMA ReadKeepsBytes ==
    ASSUME Inv, ByteInv, NEW c \in Clients, CompleteRead(c)
    PROVE  ByteInv'
<1>1. CASE wire[c] = <<>> BY <1>1, ConnectIsStatic, StaticKeepsBytes
<1>2. CASE wire[c] # <<>>
  <2>1. /\ Transfer(c) /\ op[c] = "reading"
        /\ UNCHANGED <<lineBuffer, handled, local, sent, pc, cur, kind, m_nextClientId>>
    BY <1>2 DEF CompleteRead, packet, flags
  <2>2. readBuffer[c] = <<>> BY <2>1 DEF ByteInv, ReadBuffersEmpty
  <2>3. SameFrames BY <2>1 DEF SameFrames, Framing
  <2>4. op' = [op EXCEPT ![c] = "data"] /\ \A d \in Clients : d # c => readBuffer'[d] = readBuffer[d]
    BY <2>1 DEF Transfer, ByteInv, DataTypes
  <2>5. ReadBuffersEmpty'
    BY <2>1, <2>4 DEF Inv, Types, Fresh, SingleOwner, ByteInv, ReadBuffersEmpty, Owns, Clients
  <2> QED BY <2>1, <2>2, <2>3, <2>5, TransferMovesBytes, OneClientMoves
<1> QED BY <1>1, <1>2

LEMMA PostReadKeepsBytes ==
    ASSUME Inv, ByteInv, NEW t \in Threads, PostRead(t)
    PROVE  ByteInv'
<1>1. PICK c \in Clients : c = cur[t] /\ Owns(t, c) /\ pc[t] \in {"postFirstRead", "postRead"}
  BY DEF PostRead, Inv, OwnersHaveClients, Owns, OwnerLabels
<1>2. readBuffer[c] = <<>> /\ op[c] = "idle"
  BY <1>1 DEF Inv, SingleOwner, ByteInv, ReadBuffersEmpty
<1>3. \E label \in {"acceptNext", "exited", "loop"} : pc' = [pc EXCEPT ![t] = label]
  BY DEF PostRead, Return, Goto
<1>4. UNCHANGED <<lineBuffer, handled, local, sent, cur, kind, m_nextClientId>>
  BY DEF PostRead, packet, flags
<1>5. SameFrames
  BY <1>1, <1>3, <1>4, ThreadsAssumption DEF SameFrames, Framing, Inv, Types, Threads
<1>6. c < m_nextClientId BY <1>1 DEF Inv, Fresh
<1>7. ASSUME NEW u \in Threads, NEW d \in Clients, Owns(u, d)'
      PROVE  Owns(u, d) /\ pc'[u] = pc[u] /\ d # c
  BY <1>1, <1>3, <1>4, <1>7 DEF Owns, OwnerLabels, Inv, Types, SingleOwner, Threads
<1>8. CASE Transfer(c)
  <2>1. op' = [op EXCEPT ![c] = "data"] /\ \A d \in Clients : d # c => readBuffer'[d] = readBuffer[d]
    BY <1>1, <1>8 DEF Transfer, ByteInv, DataTypes
  <2>2. ReadBuffersEmpty'
    BY <1>1, <1>4, <1>6, <1>7, <2>1 DEF Inv, Types, ByteInv, ReadBuffersEmpty, Clients
  <2> QED BY <1>1, <1>2, <1>4, <1>5, <1>8, <2>2, TransferMovesBytes, OneClientMoves
<1>9. CASE ~Transfer(c)
  <2>1. /\ op' = op \/ op' = [op EXCEPT ![c] = "reading"]
        /\ UNCHANGED <<readBuffer, wire>>
    BY <1>1, <1>9 DEF PostRead
  <2>2. ReadBuffersEmpty'
    BY <1>1, <1>2, <1>4, <1>7, <2>1 DEF Inv, Types, ByteInv, ReadBuffersEmpty
  <2>3. UNCHANGED data BY <1>4, <2>1 DEF data
  <2> QED BY <1>5, <2>2, <2>3, StaticKeepsBytes
<1> QED BY <1>8, <1>9 DEF PostRead

LEMMA AppendKeepsBytes ==
    ASSUME Inv, ByteInv, NEW w \in Workers, AppendData(w)
    PROVE  ByteInv'
<1>1. PICK c \in Clients : c = cur[w] /\ w \in Threads /\ pc[w] = "append" /\ Owns(w, c)
  BY DEF AppendData, Inv, OwnersHaveClients, Owns, OwnerLabels, Threads
<1>2. /\ UNCHANGED <<wire, sent, handled, local, op, cur, kind, m_nextClientId>>
      /\ \E label \in {"take", "loop"} : pc' = [pc EXCEPT ![w] = label]
  BY DEF AppendData, Goto, pipes, packet, flags
<1>3. SameFrames
  BY <1>1, <1>2, ThreadsAssumption DEF SameFrames, Framing, Inv, Types, Threads
<1>4. ASSUME NEW u \in Threads, NEW d \in Clients, Owns(u, d)'
      PROVE  Owns(u, d) /\ (d # c => pc'[u] = pc[u]) /\ (d = c => u = w)
  BY <1>1, <1>2, <1>4 DEF Owns, OwnerLabels, Inv, Types, SingleOwner
<1>5. DataTypes BY DEF ByteInv
<1>6. CASE c \in m_clients
  <2>1. /\ lineBuffer' = [lineBuffer EXCEPT ![c] = lineBuffer[c] \o readBuffer[c]]
        /\ readBuffer' = [readBuffer EXCEPT ![c] = <<>>]
        /\ pc' = [pc EXCEPT ![w] = "take"]
    BY <1>1, <1>6 DEF AppendData, Goto
  <2>2. lineBuffer[c] \o readBuffer[c] \in Seq(Nat) /\ <<>> \in Seq(Nat)
    BY <1>1, <1>5 DEF DataTypes
  <2>3. DataTypes' BY <1>2, <1>5, <2>1, <2>2 DEF DataTypes
  <2>4. \A d \in Clients \ {c} : readBuffer'[d] = readBuffer[d] /\ lineBuffer'[d] = lineBuffer[d]
    BY <1>5, <2>1 DEF DataTypes
  <2>5. readBuffer'[c] = <<>> /\ lineBuffer'[c] = lineBuffer[c] \o readBuffer[c]
    BY <1>1, <1>5, <2>1 DEF DataTypes
  <2>6. ReadBuffersEmpty'
    BY <1>2, <1>4, <2>4, <2>5 DEF ByteInv, ReadBuffersEmpty
  <2>7. OnlyBytesOf(c)
    BY <1>2, <1>3, <2>4 DEF OnlyBytesOf, SameFrames
  <2>8. \A v \in Workers : ~Framing(v, c)'
    <3>1. \A v \in Workers : ~Framing(v, c)
      BY <1>1 DEF Framing, Inv, SingleOwner, Owns, OwnerLabels, Threads
    <3> QED BY <1>1, <1>3, <3>1 DEF SameFrames
  <2>9. EndsInLine(handled[c])'
    BY <1>1, <1>2 DEF ByteInv, WholeLines, EndsInLine
  <2>10. ASSUME NEW taken \in Seq(Nat), InOrder(c, taken)
         PROVE  InOrder(c, taken)'
    <3> DEFINE front == handled[c] \o taken
               l == lineBuffer[c]
               r == readBuffer[c]
    <3>1. front \in Seq(Nat) /\ l \in Seq(Nat) /\ r \in Seq(Nat)
      BY <1>1, <1>5 DEF DataTypes
    <3>2. front \o (l \o r) \o <<>> = front \o l \o r
      <4> HIDE DEF front, l, r
      <4> QED BY <3>1, FlowAppended, Zenon
    <3>3. Flow(c, taken)' = front \o (l \o r) \o <<>> \o wire[c]
      BY <1>2, <2>5 DEF Flow
    <3>4. Flow(c, taken) = front \o l \o r \o wire[c]
      BY DEF Flow
    <3>5. Flow(c, taken)' = Flow(c, taken) BY <3>2, <3>3, <3>4
    <3>6. sent'[c] = sent[c] BY <1>2
    <3> QED BY <2>10, <3>5, <3>6 DEF InOrder
  <2>11. WholeAt(c)'
    <3> QED BY <1>1, <1>2, <1>3, <2>10, AnyTaken
  <2> QED BY <1>1, <2>3, <2>6, <2>7, <2>8, <2>9, <2>11, OneClientMoves
<1>7. CASE c \notin m_clients
  <2>1. UNCHANGED data BY <1>1, <1>2, <1>7 DEF AppendData, data
  <2>2. pc' = [pc EXCEPT ![w] = "loop"] BY <1>1, <1>7 DEF AppendData, Goto
  <2>3. \A u \in Threads, d \in Clients : Owns(u, d)' => Owns(u, d) /\ pc'[u] = pc[u]
    BY <1>1, <1>2, <2>2 DEF Owns, OwnerLabels, Inv, Types
  <2>4. readBuffer' = readBuffer BY <2>1 DEF data
  <2>5. ReadBuffersEmpty'
    BY <1>2, <2>3, <2>4 DEF ByteInv, ReadBuffersEmpty
  <2> QED BY <1>3, <2>1, <2>5, StaticKeepsBytes
<1> QED BY <1>6, <1>7

LEMMA TakeLineKeepsBytes ==
    ASSUME Inv, ByteInv, NEW w \in Workers, TakeLineBuffer(w)
    PROVE  ByteInv'
<1>1. PICK c \in Clients : c = cur[w] /\ w \in Threads /\ pc[w] = "take" /\ Owns(w, c)
  BY DEF TakeLineBuffer, Inv, OwnersHaveClients, Owns, OwnerLabels, Threads
<1>2. /\ UNCHANGED <<readBuffer, wire, sent, handled, op, cur, kind, m_nextClientId>>
      /\ \E label \in {"frame", "postRead"} : pc' = [pc EXCEPT ![w] = label]
  BY DEF TakeLineBuffer, Goto, pipes, packet, flags
<1>3. DataTypes BY DEF ByteInv
<1>4. \A v \in Workers : ~Framing(v, c)
  BY <1>1 DEF Framing, Inv, SingleOwner, Owns, OwnerLabels, Threads
<1>5. \A u \in Threads, d \in Clients :
         Owns(u, d)' => Owns(u, d) /\ (u # w => pc'[u] = pc[u]) /\ (u = w => d = c)
  BY <1>1, <1>2 DEF Owns, OwnerLabels, Inv, Types
<1>6. readBuffer[c] = <<>>
  BY <1>1 DEF ByteInv, ReadBuffersEmpty
<1>7. ReadBuffersEmpty'
  BY <1>2, <1>5, <1>6 DEF ByteInv, ReadBuffersEmpty
<1>8. CASE c \in m_clients
  <2>1. /\ local' = [local EXCEPT ![w] = lineBuffer[c]]
        /\ lineBuffer' = [lineBuffer EXCEPT ![c] = <<>>]
        /\ pc' = [pc EXCEPT ![w] = "frame"]
    BY <1>1, <1>8 DEF TakeLineBuffer, Goto
  <2>2. lineBuffer[c] \in Seq(Nat) /\ <<>> \in Seq(Nat)
    BY <1>1, <1>3 DEF DataTypes
  <2>3. DataTypes' BY <1>2, <1>3, <2>1, <2>2 DEF DataTypes
  <2>4. /\ \A d \in Clients \ {c} : lineBuffer'[d] = lineBuffer[d]
        /\ \A v \in Threads \ {w} : local'[v] = local[v]
        /\ lineBuffer'[c] = <<>> /\ local'[w] = lineBuffer[c]
    BY <1>1, <1>3, <2>1 DEF DataTypes
  <2>5. \A v \in Workers : /\ Framing(v, c)' <=> v = w
                           /\ \A d \in Clients \ {c} : Framing(v, d)' <=> Framing(v, d)
    BY <1>1, <1>2, <1>4, <2>1 DEF Framing, Inv, Types, Threads
  <2>6. OnlyBytesOf(c)
    BY <1>1, <1>2, <2>4, <2>5 DEF OnlyBytesOf, Framing, Threads
  <2>7. EndsInLine(handled[c])'
    BY <1>1, <1>2 DEF ByteInv, WholeLines, EndsInLine
  <2>8. InOrder(c, <<>>)
    BY <1>1, <1>4 DEF ByteInv, Whole, WholeAt
  <2>9. InOrder(c, local[w])'
    <3>1. handled[c] \in Seq(Nat) /\ lineBuffer[c] \in Seq(Nat) BY <1>1, <1>3 DEF DataTypes
    <3>2. handled[c] \o lineBuffer[c] \o <<>> = handled[c] \o <<>> \o lineBuffer[c]
      BY <3>1, FlowTaken
    <3>3. Flow(c, local[w])' = handled[c] \o lineBuffer[c] \o <<>> \o readBuffer[c] \o wire[c]
      BY <1>2, <2>4 DEF Flow
    <3>4. Flow(c, <<>>) = handled[c] \o <<>> \o lineBuffer[c] \o readBuffer[c] \o wire[c]
      BY DEF Flow
    <3>5. Flow(c, local[w])' = Flow(c, <<>>) BY <3>2, <3>3, <3>4
    <3>6. sent'[c] = sent[c] BY <1>2
    <3> QED BY <2>8, <3>5, <3>6 DEF InOrder
  <2>10. WholeAt(c)'
    BY <2>5, <2>9 DEF WholeAt
  <2> QED BY <1>1, <1>7, <2>3, <2>4, <2>6, <2>7, <2>10, OneClientMoves
<1>9. CASE c \notin m_clients
  <2>1. UNCHANGED data /\ pc' = [pc EXCEPT ![w] = "postRead"]
    BY <1>1, <1>2, <1>9 DEF TakeLineBuffer, data, Goto
  <2>2. SameFrames
    BY <1>1, <1>2, <2>1, ThreadsAssumption DEF SameFrames, Framing, Inv, Types, Threads
  <2> QED BY <1>7, <2>1, <2>2, StaticKeepsBytes
<1> QED BY <1>8, <1>9

LEMMA LeastNumber == \A S \in SUBSET Nat : S # {} => \E n \in S : \A m \in S : n <= m
<1> SUFFICES ASSUME NEW S \in SUBSET Nat, S # {} PROVE \E n \in S : \A m \in S : n <= m
  OBVIOUS
<1> DEFINE Less == {ss \in Nat \X Nat : ss[1] < ss[2]}
<1>1. IsWellFoundedOn(Less, Nat) BY NatLessThanWellFounded DEF OpToRel
<1> HIDE DEF Less
<1>2. PICK n \in S : \A m \in S : ~ (<<m, n>> \in Less) BY <1>1, WFMin
<1>3. \A m \in S : ~ (m < n) BY <1>2 DEF Less
<1> QED BY <1>3

\* The bytes up to the first newline are a line.
LEMMA LineIsCut ==
    ASSUME NEW bytes \in Seq(Nat), EndsAt(bytes) # {}
    PROVE  FirstEnd(bytes) \in 1 .. Len(bytes) /\ bytes[FirstEnd(bytes)] \in LineEnds
<1>1. EndsAt(bytes) \in SUBSET Nat BY DEF EndsAt
<1>2. \E i \in EndsAt(bytes) : \A j \in EndsAt(bytes) : i <= j BY <1>1, LeastNumber
<1>3. FirstEnd(bytes) \in EndsAt(bytes) BY <1>2 DEF FirstEnd
<1> QED BY <1>3 DEF EndsAt

LEMMA LineEndsIt ==
    ASSUME NEW h \in Seq(Nat), NEW t \in Seq(Nat), NEW e \in 1 .. Len(t), t[e] \in LineEnds
    PROVE  h \o SubSeq(t, 1, e) \in Seq(Nat) /\ EndsInLine(h \o SubSeq(t, 1, e))
<1>1. SubSeq(t, 1, e) \in Seq(Nat) /\ Len(SubSeq(t, 1, e)) = e /\ SubSeq(t, 1, e)[e] = t[e]
  OBVIOUS
<1> DEFINE line == SubSeq(t, 1, e)
<1> HIDE DEF line
<1>2. line \in Seq(Nat) /\ Len(line) = e /\ line[e] \in LineEnds BY <1>1 DEF line
<1>3. h \o line \in Seq(Nat) /\ Len(h \o line) = Len(h) + e BY <1>2
<1>4. (h \o line)[Len(h) + e] = line[e] BY <1>2
<1> QED BY <1>2, <1>3, <1>4 DEF EndsInLine, line

LEMMA HandleKeepsBytes ==
    ASSUME Inv, ByteInv, NEW w \in Workers, HandleLine(w)
    PROVE  ByteInv'
<1>1. PICK c \in Clients : c = cur[w] /\ w \in Threads /\ pc[w] = "frame" /\ Owns(w, c)
  BY DEF HandleLine, Inv, OwnersHaveClients, Owns, OwnerLabels, Threads
<1>2. DataTypes BY DEF ByteInv
<1>3. PICK e \in 1 .. Len(local[w]) :
        /\ local[w][e] \in LineEnds
        /\ handled' = [handled EXCEPT ![c] = handled[c] \o SubSeq(local[w], 1, e)]
        /\ local' = [local EXCEPT ![w] = SubSeq(local[w], e + 1, Len(local[w]))]
  <2>1. local[w] \in Seq(Nat) BY <1>1, <1>2 DEF DataTypes
  <2>2. EndsAt(local[w]) # {} BY DEF HandleLine
  <2>3. FirstEnd(local[w]) \in 1 .. Len(local[w]) /\ local[w][FirstEnd(local[w])] \in LineEnds
    BY <2>1, <2>2, LineIsCut
  <2> QED BY <1>1, <2>3 DEF HandleLine
<1>4. UNCHANGED <<readBuffer, lineBuffer, wire, sent, op, cur, kind, m_nextClientId>>
  BY DEF HandleLine, pipes, packet, flags
<1>5. \A u \in Threads : pc'[u] = pc[u]
  <2>1. \/ pc' = pc
        \/ \E s \in ShutdownThreads : pc' = [pc EXCEPT ![s] = "check"]
    BY DEF HandleLine, Goto
  <2> QED BY <2>1, ThreadsAssumption DEF Inv, Types, Threads, Stoppers
<1>6. SameFrames /\ ReadBuffersEmpty'
  BY <1>4, <1>5 DEF SameFrames, Framing, ByteInv, ReadBuffersEmpty, Owns, Threads
<1>7. /\ handled[c] \in Seq(Nat) /\ local[w] \in Seq(Nat) /\ lineBuffer[c] \in Seq(Nat)
      /\ handled[c] \o SubSeq(local[w], 1, e) \in Seq(Nat)
      /\ SubSeq(local[w], e + 1, Len(local[w])) \in Seq(Nat)
  <2>1. handled[c] \in Seq(Nat) /\ local[w] \in Seq(Nat) /\ lineBuffer[c] \in Seq(Nat)
    BY <1>1, <1>2 DEF DataTypes
  <2> QED BY <1>3, <2>1, LineEndsIt, SubSeqTypes
<1>8. DataTypes' BY <1>2, <1>3, <1>4, <1>7 DEF DataTypes
<1>9. /\ \A d \in Clients \ {c} : handled'[d] = handled[d]
      /\ \A v \in Threads \ {w} : local'[v] = local[v]
      /\ handled'[c] = handled[c] \o SubSeq(local[w], 1, e)
      /\ local'[w] = SubSeq(local[w], e + 1, Len(local[w]))
  BY <1>1, <1>2, <1>3 DEF DataTypes
<1>10. \A v \in Workers : Framing(v, c)' <=> v = w
  BY <1>1, <1>6 DEF SameFrames, Framing, Inv, SingleOwner, Owns, OwnerLabels, Threads
<1>11. OnlyBytesOf(c)
  BY <1>1, <1>4, <1>6, <1>9 DEF OnlyBytesOf, SameFrames, Framing, Threads
<1>12. EndsInLine(handled[c])'
  <2>1. EndsInLine(handled[c] \o SubSeq(local[w], 1, e)) BY <1>3, <1>7, LineEndsIt
  <2> QED BY <1>9, <2>1 DEF EndsInLine
<1>13. \A v \in Workers : Framing(v, c)' => lineBuffer'[c] = <<>>
  BY <1>4, <1>6 DEF SameFrames, ByteInv, LineBuffersEmpty
<1>14. WholeAt(c)'
  <2>1. InOrder(c, local[w])
    BY <1>1 DEF ByteInv, Whole, WholeAt, Framing
  <2>2. handled[c] \o SubSeq(local[w], 1, e) \o SubSeq(local[w], e + 1, Len(local[w]))
           = handled[c] \o local[w]
    BY <1>7, FlowHandled
  <2>3. Flow(c, local[w])' = (handled[c] \o SubSeq(local[w], 1, e))
                                \o SubSeq(local[w], e + 1, Len(local[w]))
                                \o lineBuffer[c] \o readBuffer[c] \o wire[c]
    BY <1>4, <1>9 DEF Flow
  <2>4. Flow(c, local[w]) = handled[c] \o local[w] \o lineBuffer[c] \o readBuffer[c] \o wire[c]
    BY DEF Flow
  <2>5. Flow(c, local[w])' = Flow(c, local[w]) BY <2>2, <2>3, <2>4
  <2>6. InOrder(c, local[w])' BY <1>4, <2>1, <2>5 DEF InOrder
  <2> QED BY <1>10, <2>6 DEF WholeAt
<1> QED BY <1>6, <1>8, <1>11, <1>12, <1>13, <1>14, OneClientMoves

LEMMA KeepKeepsBytes ==
    ASSUME Inv, PresenceInv, ByteInv, NEW w \in Workers, KeepIncompleteLine(w)
    PROVE  ByteInv'
<1>1. PICK c \in Clients : c = cur[w] /\ w \in Threads /\ pc[w] = "frame" /\ Owns(w, c)
  BY DEF KeepIncompleteLine, Inv, OwnersHaveClients, Owns, OwnerLabels, Threads
<1>2. /\ DataTypes /\ lineBuffer[c] = <<>> /\ InOrder(c, local[w])
      /\ c \in m_clients
  BY <1>1 DEF ByteInv, LineBuffersEmpty, Whole, WholeAt, Framing, PresenceInv, OwnedIsPresent
<1>3. handled[c] \in Seq(Nat) /\ local[w] \in Seq(Nat)
  BY <1>1, <1>2 DEF DataTypes
<1>4. /\ UNCHANGED <<readBuffer, wire, sent, handled, op, cur, kind, m_nextClientId>>
      /\ pc' = [pc EXCEPT ![w] = "postRead"]
      /\ local' = [local EXCEPT ![w] = <<>>]
  BY DEF KeepIncompleteLine, Goto, pipes, packet, flags
<1>5. lineBuffer' = [lineBuffer EXCEPT ![c] = local[w]]
  BY <1>1, <1>2 DEF KeepIncompleteLine, DataTypes
<1>6. DataTypes'
  <2>1. <<>> \in Seq(Nat) OBVIOUS
  <2> QED BY <1>2, <1>3, <1>4, <1>5, <2>1 DEF DataTypes
<1>7. /\ \A d \in Clients \ {c} : lineBuffer'[d] = lineBuffer[d]
      /\ \A v \in Threads \ {w} : local'[v] = local[v]
      /\ lineBuffer'[c] = local[w]
  BY <1>1, <1>2, <1>4, <1>5 DEF DataTypes
<1>8. \A u \in Threads, d \in Clients :
         Owns(u, d)' => Owns(u, d) /\ (u # w => pc'[u] = pc[u]) /\ (u = w => d = c)
  BY <1>1, <1>4 DEF Owns, OwnerLabels, Inv, Types
<1>9. ReadBuffersEmpty'
  <2>1. readBuffer[c] = <<>> BY <1>1 DEF ByteInv, ReadBuffersEmpty
  <2> QED BY <1>4, <1>8, <2>1 DEF ByteInv, ReadBuffersEmpty
<1>10. \A v \in Workers : /\ ~Framing(v, c)'
                          /\ \A d \in Clients \ {c} : Framing(v, d)' <=> Framing(v, d)
  BY <1>1, <1>4 DEF Framing, Inv, Types, SingleOwner, Owns, OwnerLabels, Threads
<1>11. OnlyBytesOf(c)
  BY <1>1, <1>4, <1>7, <1>10 DEF OnlyBytesOf, Framing, Threads
<1>12. EndsInLine(handled[c])'
  BY <1>4 DEF ByteInv, WholeLines, EndsInLine
<1>13. WholeAt(c)'
  <2>1. handled[c] \o local[w] \o <<>> = handled[c] \o <<>> \o local[w]
    BY <1>3, FlowTaken
  <2>2. Flow(c, local[w]) = handled[c] \o local[w] \o <<>> \o readBuffer[c] \o wire[c]
    BY <1>2 DEF Flow
  <2>3. Flow(c, <<>>)' = handled[c] \o <<>> \o local[w] \o readBuffer[c] \o wire[c]
    BY <1>4, <1>7 DEF Flow
  <2>4. Flow(c, <<>>)' = Flow(c, local[w]) BY <2>1, <2>2, <2>3
  <2>5. InOrder(c, <<>>)' BY <1>2, <1>4, <2>4 DEF InOrder
  <2> QED BY <1>10, <2>5 DEF WholeAt
<1> QED BY <1>6, <1>9, <1>10, <1>11, <1>12, <1>13, OneClientMoves

LEMMA BytesAreInductive == Inv /\ PresenceInv /\ ByteInv /\ [Next]_vars => ByteInv'
<1> SUFFICES ASSUME Inv, PresenceInv, ByteInv, [Next]_vars
             PROVE  ByteInv'
  OBVIOUS
<1>1. ASSUME NEW t \in Threads, Accept(t) PROVE ByteInv'
  BY <1>1, AcceptIsStatic, StaticKeepsBytes, PostReadKeepsBytes
<1>2. CASE Starter
  BY <1>1, <1>2, StartIsStatic, StaticKeepsBytes DEF Starter, Threads
<1>3. CASE \E w \in Workers : Worker(w)
  BY <1>1, <1>3, WorkerIsStatic, TakeIsStatic, StaticKeepsBytes, AppendKeepsBytes, TakeLineKeepsBytes,
     HandleKeepsBytes, KeepKeepsBytes DEF Worker, Threads
<1>4. CASE \E s \in Stoppers : CtrlEvent(s) \/ Stop(s)
  BY <1>4, StopIsStatic, StaticKeepsBytes
<1>5. CASE \E c \in Clients : Connect(c) \/ Send(c) \/ Leave(c) \/ CompleteRead(c)
  BY <1>5, ConnectIsStatic, StaticKeepsBytes, SendKeepsBytes, ReadKeepsBytes
<1>6. CASE UNCHANGED vars
  <2>1. UNCHANGED data /\ SameFrames /\ ReadBuffersEmpty'
    BY <1>6 DEF vars, flags, pipes, packet, data, SameFrames, Framing, ByteInv, ReadBuffersEmpty, Owns
  <2> QED BY <2>1, StaticKeepsBytes
<1> QED BY <1>2, <1>3, <1>4, <1>5, <1>6 DEF Next

LEMMA BytesAreWhole == ByteInv /\ PresenceInv => NoByteLost
<1> SUFFICES ASSUME ByteInv, PresenceInv PROVE NoByteLost
  OBVIOUS
<1>1. ASSUME NEW c \in Clients PROVE InOrder(c, Taken(c))
  <2> DEFINE takers == {w \in Workers : pc[w] = "frame" /\ cur[w] = c}
  <2>1. CASE takers = {}
    BY <2>1 DEF ByteInv, Whole, WholeAt, Framing, Taken
  <2>2. CASE takers # {}
    <3>1. (CHOOSE w \in takers : TRUE) \in takers BY <2>2
    <3>2. Taken(c) = local[CHOOSE w \in takers : TRUE] BY <2>2 DEF Taken
    <3>3. \A w \in takers : InOrder(c, local[w]) BY DEF ByteInv, Whole, WholeAt, Framing
    <3> QED BY <3>1, <3>2, <3>3
  <2> QED BY <2>1, <2>2
<1>2. ASSUME NEW c \in Clients PROVE handled[c] # <<>> => handled[c][Len(handled[c])] \in LineEnds
  BY DEF ByteInv, WholeLines, EndsInLine
<1> QED BY <1>1, <1>2 DEF NoByteLost, InOrder, Flow, PresenceInv, PTypes

\* However the bytes of a client are split over reads and whatever worker serves them,
\* each is in one place, in the order sent, and a handler sees whole lines only
\* (_workerThread, _handleData, _postRead).
THEOREM BytesStayInOrder == Spec => []NoByteLost
BY BytesAreWhole, InvInitially, InvIsInductive, PresenceInitially, PresenceIsInductive,
   BytesInitially, BytesAreInductive, PTL DEF Spec

-----------------------------------------------------------------------------
(* With writes: the invariants of the server *)

\* What was proved by induction over the steps of Next.
ServerInv == Inv /\ PresenceInv /\ NoticeInv /\ ByteInv

\* A worker that took the packet of a write is still where it took it.
IgnoringWait == ignoring \subseteq Workers /\ \A w \in ignoring : pc[w] = "wait"

\* A worker that waits leaves the port for the loop or for good: the packet it took
\* was a write's.  This is no step of the server without writes.
LeavesPort(w) ==
    /\ pc[w] = "wait"
    /\ \E label \in {"loop", "exited"} : pc' = [pc EXCEPT ![w] = label]
    /\ UNCHANGED <<flags, table, pipes, packet, data, calls, stopping>>

LEMMA LeavingKeepsInv ==
    ASSUME Inv, NEW w \in Workers, LeavesPort(w)
    PROVE  Inv'
<1> USE ThreadsAssumption
    DEF LeavesPort, flags, table, pipes, packet, data, calls, stopping
<1>1. Types'
  BY DEF Inv, Types, ThreadLabels, StopLabels
<1>2. Startup'
  BY DEF Inv, Types, Startup, Threads
<1>3. Fresh'
  BY DEF Inv, Fresh
<1>4. OwnersHaveClients' /\ Phases'
  BY DEF Inv, Types, OwnersHaveClients, Phases, OwnerLabels, Threads
<1>5. SingleOwner'
  BY DEF Inv, Types, SingleOwner, Owns, OwnerLabels, Threads
<1>6. AtMostOneAcceptor'
  BY DEF Inv, Types, AtMostOneAcceptor, Acceptors, Awaiting, Accepting, Threads
<1> QED BY <1>1, <1>2, <1>3, <1>4, <1>5, <1>6 DEF Inv

LEMMA LeavingKeepsPresence ==
    ASSUME Inv, PresenceInv, NEW w \in Workers, LeavesPort(w)
    PROVE  PresenceInv'
<1> USE ThreadsAssumption
    DEF LeavesPort, flags, table, pipes, packet, PresenceInv, Inv, Types, Threads, Stoppers
<1>1. PTypes' /\ NotStarted' /\ OpsArePresent'
  BY DEF PTypes, NotStarted, OpsArePresent
<1>2. Stopped'
  BY DEF Stopped
<1>3. WorkersInVector'
  BY DEF WorkersInVector
<1>4. OwnedIsPresent'
  BY DEF OwnedIsPresent, Owns, OwnerLabels
<1> QED BY <1>1, <1>2, <1>3, <1>4

LEMMA LeavingKeepsNotice ==
    ASSUME Inv, NoticeInv, NEW w \in Workers, LeavesPort(w)
    PROVE  NoticeInv'
BY ThreadsAssumption
   DEF LeavesPort, flags, table, pipes, packet, calls, Inv, Types, NoticeInv, Reported, Notifying,
       Owns, OwnerLabels, Threads

LEMMA LeavingKeepsBytes ==
    ASSUME Inv, ByteInv, NEW w \in Workers, LeavesPort(w)
    PROVE  ByteInv'
<1>1. UNCHANGED data /\ SameFrames /\ ReadBuffersEmpty'
  BY ThreadsAssumption
  DEF LeavesPort, flags, pipes, packet, data, Inv, Types, SameFrames, Framing, ByteInv,
      ReadBuffersEmpty, Owns, OwnerLabels, Threads
<1> QED BY <1>1, StaticKeepsBytes

\* A thread moves itself, and at most makes a thread that stops the server.
LEMMA ThreadsMoveAlone ==
    ASSUME Inv, NEW t \in Threads, Accept(t) \/ (t \in Workers /\ Worker(t))
    PROVE  \A u \in Threads \ {t} : pc'[u] = pc[u]
<1> DEFINE Moves == \E u \in {t} \cup ShutdownThreads, label \in ThreadLabels \cup StopLabels :
                       pc' = [pc EXCEPT ![u] = label] \/ pc' = pc
<1> USE DEF Goto, Return, ThreadLabels, StopLabels, Accepting, Reading
<1>1. Accept(t) => Moves
  BY DEF Accept, CreateInstance, CreateInstanceFails, InsertClient, ListenPending, ListenDone,
     ListenOnNull, CleanupClient, MarkConnected, PostRead, AcceptNext
<1>2. t \in Workers /\ Worker(t) => Moves
  <2>1. Loop(t) \/ TakeShutdown(t) \/ Lookup(t) \/ (\E c \in Clients : TakePacket(t, c)) => Moves
    BY DEF Loop, TakeShutdown, Lookup, TakePacket
  <2>2. ReadEof(t) \/ ReadFailed(t) \/ OnClientDisconnect(t) => Moves
    BY DEF ReadEof, ReadFailed, OnClientDisconnect
  <2>3. AppendData(t) \/ TakeLineBuffer(t) \/ HandleLine(t) \/ KeepIncompleteLine(t) => Moves
    BY DEF AppendData, TakeLineBuffer, HandleLine, KeepIncompleteLine
  <2> QED BY <1>1, <2>1, <2>2, <2>3 DEF Worker
<1> QED BY <1>1, <1>2, ThreadsAssumption DEF Inv, Types, Stoppers

LEMMA StoppersMoveAlone ==
    ASSUME Inv, NEW s \in Stoppers, CtrlEvent(s) \/ Stop(s)
    PROVE  \A u \in Threads : pc'[u] = pc[u]
<1>1. \E label \in StopLabels : pc' = [pc EXCEPT ![s] = label]
  BY DEF CtrlEvent, Stop, CheckRunning, ClearRunning, PostShutdowns, JoinWorkers, CloseClients,
     StopReturns, Goto, StopLabels
<1> QED BY <1>1, ThreadsAssumption DEF Inv, Types

\* What a step of the server that writes is to the server: one of its steps, nothing,
\* or a worker that leaves the port with the packet of a write.
LEMMA SendStep ==
    ASSUME IgnoringWait, [SendNext]_<<vars, sending>>
    PROVE  [Next]_vars \/ \E w \in Workers : LeavesPort(w)
<1> USE DEF Next
<1>1. ASSUME SendNext, NEW w \in Workers, WorkerGoes(w)
      PROVE  [Next]_vars \/ LeavesPort(w)
  <2>1. CASE Worker(w)
    BY <1>1, <2>1 DEF SendNext
  <2>2. CASE TakeWritePacket(w)
    BY <2>2 DEF TakeWritePacket, LeavesPort, Goto, vars, flags, table, pipes, packet, data, calls,
               stopping
  <2>3. CASE IgnorePacket(w)
    BY <2>3 DEF IgnorePacket, IgnoringWait, LeavesPort, Goto
  <2> QED BY <1>1, <2>1, <2>2, <2>3 DEF WorkerGoes
<1>2. ASSUME SendNext, NEW s \in Stoppers, StopGoes(s) \/ CtrlEvent(s)
      PROVE  Next
  BY <1>2 DEF SendNext, StopGoes
<1>3. WriterGoes => UNCHANGED vars
  BY DEF WriterGoes, Write, EndWait, Unlock
<1>4. ASSUME NEW s \in Senders, Broadcast(s) \/ \E c \in Clients : SendToClient(s, c)
      PROVE  UNCHANGED vars
  BY <1>4 DEF Broadcast, SendToClient
<1>5. ASSUME SendNext, NEW c \in Clients, Connect(c) \/ Send(c) \/ CompleteRead(c) \/ Leave(c)
      PROVE  Next
  BY <1>5 DEF SendNext
<1>6. ASSUME NEW c \in Clients, Receive(c) PROVE UNCHANGED vars
  BY <1>6 DEF Receive
<1>7. SendNext /\ Starter => Next
  BY DEF SendNext
<1>8. CASE SendNext
  BY <1>1, <1>2, <1>3, <1>4, <1>5, <1>6, <1>7, <1>8 DEF SendNext
<1> QED BY <1>8

LEMMA IgnoringPersists ==
    ASSUME Inv, IgnoringWait, [SendNext]_<<vars, sending>>
    PROVE  IgnoringWait'
<1> USE ThreadsAssumption DEF IgnoringWait, Threads
<1>1. ASSUME UNCHANGED ignoring, \A w \in ignoring : pc'[w] = pc[w]
      PROVE  IgnoringWait'
  BY <1>1
<1>2. UNCHANGED <<vars, ignoring>> => IgnoringWait'
  BY DEF vars
<1>3. CASE CanGo(Main) /\ Starter /\ UNCHANGED sending
  <2>1. UNCHANGED ignoring BY <1>3 DEF sending, port
  <2>2. Start \/ SpawnWorkers => \A w \in ignoring : pc'[w] = pc[w]
    BY DEF Start, SpawnWorkers, Goto, Inv, Types, Startup
  <2>3. Accept(Main) => \A w \in ignoring : pc'[w] = pc[w]
    BY ThreadsMoveAlone
  <2> QED BY <1>1, <1>3, <2>1, <2>2, <2>3 DEF Starter
<1>4. ASSUME NEW w \in Workers, WorkerGoes(w) PROVE IgnoringWait'
  <2>1. CASE CanGo(w) /\ Worker(w) /\ (IF handled' = handled THEN UNCHANGED sending ELSE Answer(w))
    <3>1. UNCHANGED ignoring BY <2>1 DEF Answer, Lock, sending, port
    <3>2. w \notin ignoring BY <2>1 DEF CanGo
    <3>3. \A u \in Threads \ {w} : pc'[u] = pc[u] BY <2>1, ThreadsMoveAlone
    <3> QED BY <1>1, <3>1, <3>2, <3>3
  <2>2. CASE TakeWritePacket(w)
    <3>1. \A u \in Workers : pc'[u] = pc[u] \/ (u = w /\ w \notin ignoring /\ ignoring' = ignoring)
      BY <2>2 DEF TakeWritePacket, Goto, Inv, Types
    <3> QED BY <2>2, <3>1 DEF TakeWritePacket
  <2>3. CASE IgnorePacket(w)
    BY <2>3 DEF IgnorePacket, Goto, Inv, Types
  <2> QED BY <1>4, <2>1, <2>2, <2>3 DEF WorkerGoes
<1>5. ASSUME NEW s \in Stoppers, StopGoes(s) \/ (CtrlEvent(s) /\ UNCHANGED sending)
      PROVE  IgnoringWait'
  <2>1. UNCHANGED ignoring BY <1>5 DEF StopGoes, EndPipes, sending, port
  <2>2. CtrlEvent(s) \/ Stop(s) BY <1>5 DEF StopGoes
  <2>3. \A u \in Threads : pc'[u] = pc[u] BY <2>2, StoppersMoveAlone
  <2> QED BY <1>1, <2>1, <2>3
<1>6. WriterGoes => IgnoringWait'
  BY <1>2 DEF WriterGoes, Write, WriteDone, WritePending, EndWait, Unlock, pipe, port
<1>7. ASSUME NEW s \in Senders, Broadcast(s) \/ \E c \in Clients : SendToClient(s, c)
      PROVE  IgnoringWait'
  BY <1>2, <1>7 DEF Broadcast, SendToClient, Lock, port
<1>8. ASSUME NEW c \in Clients,
             \/ (Connect(c) \/ Send(c) \/ CompleteRead(c)) /\ UNCHANGED sending
             \/ Leave(c) /\ EndPipes({c})
             \/ Receive(c)
      PROVE  IgnoringWait'
  <2>1. UNCHANGED <<pc, ignoring>>
    BY <1>8 DEF Connect, Send, CompleteRead, Leave, EndPipes, Receive, vars, sending, port
  <2> QED BY <1>1, <2>1
<1>9. CASE UNCHANGED <<vars, sending>>
  BY <1>2, <1>9 DEF sending, port
<1>10. CASE SendNext
  BY <1>3, <1>4, <1>5, <1>6, <1>7, <1>8, <1>10 DEF SendNext
<1> QED BY <1>9, <1>10

\* The invariants of the server and where the ignoring workers are, together.
LEMMA ServerInitially == SendInit => ServerInv /\ IgnoringWait
BY InvInitially, PresenceInitially, NoticeInitially, BytesInitially
   DEF SendInit, ServerInv, IgnoringWait

LEMMA ServerIsInductive ==
    ServerInv /\ IgnoringWait /\ [SendNext]_<<vars, sending>> => ServerInv' /\ IgnoringWait'
<1> SUFFICES ASSUME ServerInv, IgnoringWait, [SendNext]_<<vars, sending>>
             PROVE  ServerInv' /\ IgnoringWait'
  OBVIOUS
<1>1. IgnoringWait' BY IgnoringPersists DEF ServerInv
<1>2. CASE [Next]_vars
  <2>1. Inv' BY <1>2, InvIsInductive DEF ServerInv
  <2>2. PresenceInv' BY <1>2, PresenceIsInductive DEF ServerInv
  <2>3. NoticeInv' BY <1>2, NoticeIsInductive DEF ServerInv
  <2>4. ByteInv' BY <1>2, BytesAreInductive DEF ServerInv
  <2> QED BY <1>1, <2>1, <2>2, <2>3, <2>4 DEF ServerInv
<1>3. ASSUME NEW w \in Workers, LeavesPort(w) PROVE ServerInv'
  BY <1>3, LeavingKeepsInv, LeavingKeepsPresence, LeavingKeepsNotice, LeavingKeepsBytes DEF ServerInv
<1> QED BY <1>1, <1>2, <1>3, SendStep

\* What holds of the server without its writes holds of the server that writes: no
\* write, no wait under the mutex and no packet of a write lets two threads at an
\* OVERLAPPED, starts a second accept, loses a byte, erases a client that a worker
\* works on or reports a disconnection twice (sendToClient, broadcast, _workerThread).
THEOREM ServerWritesSafely ==
    SendSpec => [](SingleOwner /\ AtMostOneAcceptor /\ NoByteLost /\ NotifiedOnce)
<1>1. ServerInv => SingleOwner /\ AtMostOneAcceptor /\ NoByteLost /\ NotifiedOnce
  BY BytesAreWhole DEF ServerInv, Inv, NoticeInv, NotifiedOnce, Reported
<1> QED BY <1>1, ServerInitially, ServerIsInductive, PTL DEF SendSpec

\* A worker's client is in the map, also while the server writes (_workerThread, stop).
THEOREM WritersKeepClients == SendSpec => []OwnedIsPresent
<1>1. ServerInv => OwnedIsPresent
  BY DEF ServerInv, PresenceInv
<1> QED BY <1>1, ServerInitially, ServerIsInductive, PTL DEF SendSpec

-----------------------------------------------------------------------------
(* The text of a pending write *)

\* Nobody waits without the mutex.  A client that no wait was given up for has at most
\* one pending write, whose text is there and which the writer waits for.
WriteInv ==
    /\ writer = None => waiting = 0
    /\ \A c \in Clients \ gaveUp :
          pending[c] = <<>> \/ (waiting = c /\ c \notin signalled /\ pending[c] = <<"live">>)

SendTypes == /\ pending \in [Clients -> Seq({"live", "freed"})]
             /\ waiting \in Clients \cup {0}

LEMMA WriteInitially == SendInit => WriteInv /\ SendTypes
BY DEF SendInit, WriteInv, SendTypes

LEMMA WriterKeepsText ==
    ASSUME WriteInv, SendTypes, WriterGoes
    PROVE  WriteInv' /\ SendTypes'
<1> USE DEF WriteInv, SendTypes, pipe, port, thread
<1>1. ASSUME NEW c \in Clients, Write(c) PROVE WriteInv' /\ SendTypes'
  <2>1. writer # None /\ waiting = 0 /\ UNCHANGED <<writer, gaveUp>>
    BY <1>1 DEF Write
  <2>2. \A d \in Clients \ gaveUp : pending[d] = <<>>
    BY <2>1 DEF Clients
  <2>3. CASE UNCHANGED <<waiting, pending>>
    BY <2>1, <2>2, <2>3
  <2>4. CASE WritePending(c) /\ signalled' = signalled \ {c}
    <3>1. Append(pending[c], "live") \in Seq({"live", "freed"}) /\ Append(<<>>, "live") = <<"live">>
      OBVIOUS
    <3>2. /\ pending' = [pending EXCEPT ![c] = Append(pending[c], "live")]
          /\ waiting' = c
      BY <2>4 DEF WritePending
    <3>3. SendTypes' BY <3>1, <3>2
    <3>4. /\ pending'[c] = Append(pending[c], "live")
          /\ \A d \in Clients \ {c} : pending'[d] = pending[d]
      BY <3>2
    <3> QED BY <2>1, <2>2, <2>4, <3>1, <3>2, <3>3, <3>4
  <2> QED BY <1>1, <2>3, <2>4 DEF Write, WriteDone
<1>2. CASE EndWait
  BY <1>2 DEF EndWait
<1>3. CASE Unlock
  <2>1. /\ waiting = 0 /\ UNCHANGED <<waiting, gaveUp>>
        /\ pending' = [c \in Clients |-> [i \in DOMAIN pending[c] |-> "freed"]]
    BY <1>3 DEF Unlock
  <2>2. \A d \in Clients \ gaveUp : pending[d] = <<>>
    BY <2>1 DEF Clients
  <2>3. ASSUME NEW d \in Clients
        PROVE  /\ pending'[d] \in Seq({"live", "freed"})
               /\ pending[d] = <<>> => pending'[d] = <<>>
    <3>1. PICK n \in Nat : DOMAIN pending[d] = 1 .. n /\ (pending[d] = <<>> => n = 0)
      <4>1. pending[d] \in Seq({"live", "freed"}) OBVIOUS
      <4> QED BY <4>1
    <3>2. pending'[d] = [i \in 1 .. n |-> "freed"] BY <2>1, <3>1
    <3>3. [i \in 1 .. n |-> "freed"] \in Seq({"live", "freed"}) OBVIOUS
    <3>4. n = 0 => [i \in 1 .. n |-> "freed"] = <<>> OBVIOUS
    <3> QED BY <3>1, <3>2, <3>3, <3>4
  <2>4. pending' \in [Clients -> Seq({"live", "freed"})] BY <2>1, <2>3
  <2> QED BY <2>1, <2>2, <2>3, <2>4
<1> QED BY <1>1, <1>2, <1>3 DEF WriterGoes

LEMMA OthersKeepText ==
    ASSUME WriteInv, SendTypes, [SendNext]_<<vars, sending>>, ~WriterGoes
    PROVE  WriteInv' /\ SendTypes'
<1> USE DEF WriteInv, SendTypes, pipe, port, thread
<1>1. UNCHANGED <<thread, pipe>> => WriteInv' /\ SendTypes'
  OBVIOUS
<1>2. ASSUME NEW t, NEW clients, Lock(t, clients) PROVE WriteInv' /\ SendTypes'
  BY <1>2, SendersAssumption DEF Lock
<1>3. ASSUME NEW clients, EndPipes(clients) PROVE WriteInv' /\ SendTypes'
  BY <1>3 DEF EndPipes
<1>4. ASSUME NEW w \in Workers, WorkerGoes(w) PROVE WriteInv' /\ SendTypes'
  BY <1>1, <1>2, <1>4 DEF WorkerGoes, Answer, TakeWritePacket, IgnorePacket, sending
<1>5. ASSUME NEW s \in Stoppers, StopGoes(s) PROVE WriteInv' /\ SendTypes'
  <2>1. UNCHANGED sending \/ (pc[s] = "close" /\ EndPipes(m_clients) /\ CloseClients(s))
    BY <1>5 DEF StopGoes, Stop, CheckRunning, ClearRunning, PostShutdowns, JoinWorkers
  <2> QED BY <1>1, <1>3, <2>1 DEF sending
<1>6. ASSUME NEW s \in Senders, Broadcast(s) \/ \E c \in Clients : SendToClient(s, c)
      PROVE  WriteInv' /\ SendTypes'
  BY <1>6, SendersAssumption DEF Broadcast, SendToClient, Lock
<1>7. ASSUME NEW c \in Clients, Receive(c) PROVE WriteInv' /\ SendTypes'
  <2>1. /\ pending[c] # <<>> /\ pending[c] \in Seq({"live", "freed"})
        /\ pending' = [pending EXCEPT ![c] = Tail(pending[c])]
        /\ UNCHANGED <<writer, waiting, gaveUp>> /\ signalled' = signalled \cup {c}
    BY <1>7 DEF Receive
  <2>2. Tail(pending[c]) \in Seq({"live", "freed"}) BY <2>1
  <2>3. Tail(<<"live">>) = <<>> OBVIOUS
  <2>4. SendTypes' BY <2>1, <2>2
  <2>5. /\ pending'[c] = Tail(pending[c])
        /\ \A d \in Clients \ {c} : pending'[d] = pending[d]
    BY <2>1
  <2> QED BY <2>1, <2>3, <2>4, <2>5
<1>8. ASSUME NEW c \in Clients, Leave(c) /\ EndPipes({c}) PROVE WriteInv' /\ SendTypes'
  BY <1>3, <1>8
<1>9. UNCHANGED sending => WriteInv' /\ SendTypes'
  BY <1>1 DEF sending
<1>10. CASE SendNext
  BY <1>4, <1>5, <1>6, <1>7, <1>8, <1>9, <1>10 DEF SendNext
<1> QED BY <1>9, <1>10

\* A text is freed while its write is pending only for a client whose wait ended by the
\* time limit before: one event and one OVERLAPPED serve all writes to a client, and no
\* wait ends by an earlier write (_sendRawLocked).
THEOREM TextIsFreedLast == SendSpec => []TextOutlivesWrite
<1>1. WriteInv => TextOutlivesWrite
  BY DEF WriteInv, TextOutlivesWrite
<1>2. WriteInv /\ SendTypes /\ [SendNext]_<<vars, sending>> => WriteInv' /\ SendTypes'
  BY WriterKeepsText, OthersKeepText
<1> QED BY <1>1, <1>2, WriteInitially, PTL DEF SendSpec

-----------------------------------------------------------------------------
(* No context is freed with a write pending *)

\* A write is pending on an open pipe only.
PendingIsOpen == \A c \in Clients : pending[c] # <<>> => peer[c] = "open"

\* An end of file, a failed read and a listen that came too late mean that the client
\* has left.
Departed(t) == \/ pc[t] \in {"cleanup", "eof", "failed"}
               \/ pc[t] = "lookup" /\ kind[t] = "eof"
GoneInv ==
    /\ peer \in [Clients -> {"none", "listening", "open", "gone"}]
    /\ \A c \in Clients : /\ op[c] \in {"eof", "failed"} => peer[c] = "gone"
                          /\ c >= m_nextClientId => peer[c] = "none"
    /\ \A t \in Threads : /\ Departed(t) => peer[cur[t]] = "gone"
                          /\ pc[t] \in {"insert", "listen"} => peer[cur[t]] # "none"

LEMMA GoneInitially == SendInit => GoneInv /\ PendingIsOpen
BY ThreadsAssumption DEF SendInit, Init, GoneInv, Departed, PendingIsOpen, Threads, Stoppers

LEMMA AcceptKeepsGone ==
    ASSUME Inv, GoneInv, NEW t \in Threads, Accept(t)
    PROVE  GoneInv'
<1> USE ThreadsAssumption
    DEF Inv, Types, Fresh, OwnersHaveClients, OwnerLabels, GoneInv, Departed, Threads, Goto, Return,
        flags, pipes, packet
<1>1. CASE CreateInstance(t)
  <2>1. m_nextClientId \in Clients /\ \A u \in Threads : cur[u] # m_nextClientId
    BY <1>1, BoundsAssumption DEF CreateInstance, Clients
  <2>2. op[m_nextClientId] = "idle" BY <2>1 DEF Clients
  <2> QED BY <1>1, <2>1, <2>2 DEF CreateInstance
<1>2. CASE CreateInstanceFails(t)
  BY <1>2 DEF CreateInstanceFails
<1>3. CASE InsertClient(t)
  BY <1>3 DEF InsertClient
<1>4. CASE ListenPending(t)
  BY <1>4 DEF ListenPending
<1>5. CASE ListenDone(t)
  BY <1>5 DEF ListenDone
<1>6. CASE ListenOnNull(t)
  BY <1>6 DEF ListenOnNull
<1>7. CASE CleanupClient(t)
  BY <1>7 DEF CleanupClient
<1>8. CASE MarkConnected(t)
  BY <1>8 DEF MarkConnected
<1>9. CASE PostRead(t)
  BY <1>9 DEF PostRead, Transfer
<1>10. CASE AcceptNext(t)
  BY <1>10 DEF AcceptNext
<1> QED BY <1>1, <1>2, <1>3, <1>4, <1>5, <1>6, <1>7, <1>8, <1>9, <1>10 DEF Accept

LEMMA WorkerKeepsGone ==
    ASSUME Inv, GoneInv, NEW w \in Workers, Worker(w), ~Accept(w)
    PROVE  GoneInv'
<1> USE ThreadsAssumption
    DEF Inv, Types, OwnersHaveClients, OwnerLabels, GoneInv, Departed, Threads, Stoppers, Goto,
        flags, pipes, packet
<1>1. CASE Loop(w) \/ TakeShutdown(w) \/ Lookup(w)
  BY <1>1 DEF Loop, TakeShutdown, Lookup
<1>2. ASSUME NEW c \in Clients, TakePacket(w, c) PROVE GoneInv'
  BY <1>2 DEF TakePacket, Completed
<1>3. CASE ReadEof(w) \/ ReadFailed(w) \/ OnClientDisconnect(w)
  BY <1>3 DEF ReadEof, ReadFailed, OnClientDisconnect
<1>4. CASE AppendData(w) \/ TakeLineBuffer(w)
  <2>1. /\ \E label \in {"take", "loop", "frame", "postRead"} : pc' = [pc EXCEPT ![w] = label]
        /\ UNCHANGED <<op, peer, cur, kind, m_nextClientId>>
    BY <1>4 DEF AppendData, TakeLineBuffer, flags
  <2> QED BY <2>1
<1>5. CASE HandleLine(w)
  BY <1>5 DEF HandleLine
<1>6. CASE KeepIncompleteLine(w)
  BY <1>6 DEF KeepIncompleteLine
<1> QED BY <1>1, <1>2, <1>3, <1>4, <1>5, <1>6 DEF Worker

LEMMA OthersKeepGone ==
    ASSUME Inv, GoneInv, [Next]_vars, \A t \in Threads : ~Accept(t),
           \A w \in Workers : ~Worker(w)
    PROVE  GoneInv'
<1> USE ThreadsAssumption
    DEF Inv, Types, OwnersHaveClients, OwnerLabels, GoneInv, Departed, Threads, Goto, flags, pipes,
        packet
<1>1. Start \/ SpawnWorkers => GoneInv'
  BY DEF Start, SpawnWorkers, Startup
<1>2. ASSUME NEW s \in Stoppers, CtrlEvent(s) \/ Stop(s) PROVE GoneInv'
  <2>1. \A u \in Threads : pc'[u] = pc[u] BY <1>2, StoppersMoveAlone
  <2>2. UNCHANGED <<peer, cur, kind, m_nextClientId>> /\ \A c \in Clients : op'[c] \in {op[c], "idle"}
    BY <1>2 DEF CtrlEvent, Stop, CheckRunning, ClearRunning, PostShutdowns, JoinWorkers, CloseClients
  <2> QED BY <2>1, <2>2
<1>3. ASSUME NEW c \in Clients, Connect(c) PROVE GoneInv'
  BY <1>3 DEF Connect
<1>4. ASSUME NEW c \in Clients, Send(c) \/ Leave(c) PROVE GoneInv'
  BY <1>4 DEF Send, Leave
<1>5. ASSUME NEW c \in Clients, CompleteRead(c) PROVE GoneInv'
  BY <1>5 DEF CompleteRead, Transfer
<1>6. UNCHANGED vars => GoneInv'
  BY DEF vars
<1> QED BY <1>1, <1>2, <1>3, <1>4, <1>5, <1>6 DEF Next, Starter

LEMMA GoneIsInductive ==
    ASSUME Inv, GoneInv, IgnoringWait, [SendNext]_<<vars, sending>>
    PROVE  GoneInv'
<1>1. ASSUME [Next]_vars PROVE GoneInv'
  <2>1. CASE \E t \in Threads : Accept(t) BY <2>1, AcceptKeepsGone
  <2>2. CASE (\E w \in Workers : Worker(w)) /\ \A t \in Threads : ~Accept(t)
    BY <2>2, WorkerKeepsGone DEF Threads
  <2>3. CASE (\A w \in Workers : ~Worker(w)) /\ \A t \in Threads : ~Accept(t)
    BY <1>1, <2>3, OthersKeepGone
  <2> QED BY <2>1, <2>2, <2>3
<1>2. ASSUME NEW w \in Workers, LeavesPort(w) PROVE GoneInv'
  BY <1>2 DEF LeavesPort, flags, pipes, packet, Inv, Types, GoneInv, Departed, Threads
<1> QED BY <1>1, <1>2, SendStep

\* Only a client that leaves closes its pipe, and that ends what is pending on it.
LEMMA PendingStaysOpen ==
    ASSUME Inv, GoneInv, SendTypes, PendingIsOpen, IgnoringWait, [SendNext]_<<vars, sending>>
    PROVE  PendingIsOpen'
<1> USE DEF SendTypes, PendingIsOpen, thread, pipe, port, sending
<1>1. ASSUME UNCHANGED pending, \A c \in Clients : peer[c] = "open" => peer'[c] = "open"
      PROVE  PendingIsOpen'
  BY <1>1
<1>2. ASSUME NEW clients, EndPipes(clients), UNCHANGED peer PROVE PendingIsOpen'
  BY <1>2 DEF EndPipes
<1>3. ASSUME NEW t \in Threads, Start \/ SpawnWorkers \/ Accept(t) \/ (t \in Workers /\ Worker(t))
      PROVE  \A c \in Clients : peer[c] = "open" => peer'[c] = "open"
  <2>1. Accept(t) => \A c \in Clients : peer[c] = "open" => peer'[c] = "open"
    <3>1. Accept(t) => CreateInstance(t) \/ UNCHANGED peer
      BY DEF Accept, CreateInstanceFails, InsertClient, ListenPending, ListenDone, ListenOnNull,
         CleanupClient, MarkConnected, PostRead, AcceptNext, pipes
    <3>2. CreateInstance(t) =>
             /\ m_nextClientId \in Clients
             /\ peer' = [peer EXCEPT ![m_nextClientId] = "listening"]
      BY BoundsAssumption DEF CreateInstance, Inv, Types, Clients
    <3>3. m_nextClientId \in Clients => peer[m_nextClientId] = "none"
      BY DEF GoneInv, Clients
    <3> QED BY <3>1, <3>2, <3>3 DEF GoneInv
  <2>2. Start \/ SpawnWorkers => UNCHANGED peer
    BY SMTT(20) DEF Start, SpawnWorkers, pipes
  <2>3. Worker(t) => Accept(t) \/ UNCHANGED peer
    BY DEF Worker, Loop, TakeShutdown, Lookup, TakePacket, ReadEof, ReadFailed, OnClientDisconnect,
       AppendData, TakeLineBuffer, HandleLine, KeepIncompleteLine, pipes
  <2> QED BY <1>3, <2>1, <2>2, <2>3
<1>4. CASE CanGo(Main) /\ Starter /\ UNCHANGED sending
  BY <1>1, <1>3, <1>4 DEF Starter, Threads
<1>5. ASSUME NEW w \in Workers, WorkerGoes(w) PROVE PendingIsOpen'
  <2>1. CASE Worker(w) /\ (IF handled' = handled THEN UNCHANGED sending ELSE Answer(w))
    <3>1. UNCHANGED pending BY <2>1 DEF Answer, Lock
    <3> QED BY <1>1, <1>3, <2>1, <3>1 DEF Threads
  <2>2. CASE TakeWritePacket(w) \/ IgnorePacket(w)
    BY <1>1, <2>2 DEF TakeWritePacket, IgnorePacket, pipes
  <2> QED BY <1>5, <2>1, <2>2 DEF WorkerGoes
<1>6. ASSUME NEW s \in Stoppers, StopGoes(s) \/ (CtrlEvent(s) /\ UNCHANGED sending)
      PROVE  PendingIsOpen'
  <2>1. UNCHANGED peer
    BY <1>6 DEF StopGoes, Stop, CtrlEvent, CheckRunning, ClearRunning, PostShutdowns, JoinWorkers,
                CloseClients, pipes
  <2> QED BY <1>1, <1>2, <1>6, <2>1 DEF StopGoes
<1>7. CASE WriterGoes
  <2>1. UNCHANGED peer BY <1>7 DEF WriterGoes, Write, EndWait, Unlock, vars, pipes
  <2>2. ASSUME NEW c \in Clients, Write(c) PROVE PendingIsOpen'
    BY <2>1, <2>2 DEF Write, WriteDone, WritePending
  <2>3. EndWait => PendingIsOpen' BY <2>1 DEF EndWait
  <2>4. CASE Unlock
    <3>1. ASSUME NEW c \in Clients, pending[c] = <<>> PROVE pending'[c] = <<>>
      <4>1. pending'[c] = [i \in DOMAIN pending[c] |-> "freed"] BY <2>4 DEF Unlock
      <4>2. DOMAIN pending[c] = {} BY <3>1
      <4> QED BY <4>1, <4>2
    <3> QED BY <2>1, <3>1
  <2> QED BY <1>7, <2>2, <2>3, <2>4 DEF WriterGoes
<1>8. ASSUME NEW s \in Senders, Broadcast(s) \/ \E c \in Clients : SendToClient(s, c)
      PROVE  PendingIsOpen'
  BY <1>1, <1>8 DEF Broadcast, SendToClient, Lock, vars, pipes
<1>9. ASSUME NEW c \in Clients, (Connect(c) \/ Send(c) \/ CompleteRead(c)) /\ UNCHANGED sending
      PROVE  PendingIsOpen'
  BY <1>1, <1>9 DEF Connect, Send, CompleteRead, pipes, GoneInv
<1>10. ASSUME NEW c \in Clients, Leave(c) /\ EndPipes({c}) PROVE PendingIsOpen'
  BY <1>10 DEF Leave, EndPipes, GoneInv
<1>11. ASSUME NEW c \in Clients, Receive(c) PROVE PendingIsOpen'
  BY <1>11 DEF Receive, vars, pipes
<1>12. UNCHANGED <<vars, sending>> => PendingIsOpen'
  BY <1>1 DEF vars, pipes
<1>13. CASE SendNext
  BY <1>4, <1>5, <1>6, <1>7, <1>8, <1>9, <1>10, <1>11, <1>13 DEF SendNext
<1> QED BY <1>12, <1>13

LEMMA ErasedIsWritten ==
    ASSUME ServerInv, GoneInv, PendingIsOpen, IgnoringWait, SendNext,
           NEW c \in m_clients, c \notin m_clients'
    PROVE  pending'[c] = <<>>
<1> USE DEF sending, pipe
<1>1. c \in Clients BY DEF ServerInv, PresenceInv, PTypes
<1>2. ASSUME peer[c] = "gone", UNCHANGED pending PROVE pending'[c] = <<>>
  BY <1>1, <1>2 DEF PendingIsOpen
<1>3. ASSUME NEW t \in Threads, Start \/ SpawnWorkers \/ Accept(t) \/ (t \in Workers /\ Worker(t))
      PROVE  peer[c] = "gone"
  <2>1. cur[t] = c /\ (CleanupClient(t) \/ ReadEof(t) \/ ReadFailed(t)) BY <1>3, ErasersOwn
  <2>2. Departed(t) BY <2>1 DEF CleanupClient, ReadEof, ReadFailed, Departed
  <2> QED BY <2>1, <2>2 DEF GoneInv
<1>4. CASE Starter /\ UNCHANGED sending
  BY <1>2, <1>3, <1>4 DEF Starter, Threads
<1>5. ASSUME NEW w \in Workers, WorkerGoes(w) PROVE pending'[c] = <<>>
  <2>1. Worker(w) /\ UNCHANGED pending
    BY <1>5 DEF WorkerGoes, TakeWritePacket, IgnorePacket, table, Answer, Lock
  <2> QED BY <1>2, <1>3, <2>1 DEF Threads
<1>6. ASSUME NEW s \in Stoppers, StopGoes(s) \/ CtrlEvent(s) PROVE pending'[c] = <<>>
  <2>1. CloseClients(s) /\ StopGoes(s)
    BY <1>6 DEF StopGoes, Stop, CtrlEvent, CheckRunning, ClearRunning, PostShutdowns, JoinWorkers, table
  <2>2. EndPipes(m_clients) BY <2>1 DEF CloseClients, StopGoes
  <2> QED BY <1>1, <2>2 DEF EndPipes
<1>7. ~WriterGoes
  BY DEF WriterGoes, Write, EndWait, Unlock, vars, table
<1>8. \A s \in Senders : ~Broadcast(s) /\ \A d \in Clients : ~SendToClient(s, d)
  BY DEF Broadcast, SendToClient, vars, table
<1>9. \A d \in Clients : ~Connect(d) /\ ~Send(d) /\ ~CompleteRead(d) /\ ~Leave(d) /\ ~Receive(d)
  BY DEF Connect, Send, CompleteRead, Leave, Receive, vars, table
<1> QED BY <1>4, <1>5, <1>6, <1>7, <1>8, <1>9 DEF SendNext

\* A context leaves the map only when no write to it is pending: whoever erases it has
\* seen the client leave, or ends its pipe, and that ends the writes (_workerThread,
\* _cleanupClient, stop).
THEOREM NoneFreedInWrite == SendSpec => FreedWhenWritten
<1> DEFINE All == /\ ServerInv /\ IgnoringWait /\ WriteInv /\ SendTypes
                  /\ GoneInv /\ PendingIsOpen
<1>1. SendInit => All
  BY ServerInitially, WriteInitially, GoneInitially
<1>2. All /\ [SendNext]_<<vars, sending>> => All'
  <2> SUFFICES ASSUME All, [SendNext]_<<vars, sending>> PROVE All'
    OBVIOUS
  <2>1. ServerInv' /\ IgnoringWait' BY ServerIsInductive
  <2>2. WriteInv' /\ SendTypes' BY WriterKeepsText, OthersKeepText
  <2>3. GoneInv' BY GoneIsInductive DEF ServerInv
  <2>4. PendingIsOpen' BY PendingStaysOpen DEF ServerInv
  <2> QED BY <2>1, <2>2, <2>3, <2>4
<1>3. All /\ [SendNext]_<<vars, sending>> =>
         [\A c \in m_clients \ m_clients' : pending'[c] = <<>>]_<<vars, sending>>
  <2> SUFFICES ASSUME All, SendNext, NEW c \in m_clients, c \notin m_clients'
               PROVE  pending'[c] = <<>>
    OBVIOUS
  <2> QED BY ErasedIsWritten
<1> HIDE DEF All
<1> QED BY <1>1, <1>2, <1>3, PTL DEF SendSpec, FreedWhenWritten

=============================================================================
