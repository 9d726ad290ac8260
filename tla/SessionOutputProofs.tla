-------------------------- MODULE SessionOutputProofs --------------------------
(***************************************************************************)
(* What the clients of a session are sent, for any number of clients and of *)
(* chunks: each chunk once and in order, none that is missed, no output     *)
(* after the exit event and nothing after the answer to detach.  The        *)
(* argument rests on m_listenersMutex: the list that a broadcast walks does *)
(* not change under it.                                                     *)
(***************************************************************************)
EXTENDS SessionOutput, TLAPS, SequenceTheorems, FiniteSetTheorems, WellFoundedInduction

-----------------------------------------------------------------------------
(* The lists of listeners *)

Has(s, d) == \E i \in DOMAIN s : s[i] = d
Once(s) == \A i, j \in DOMAIN s : s[i] = s[j] => i = j

LEMMA LeastNumber == \A S \in SUBSET Nat : S # {} => \E n \in S : \A m \in S : n <= m
<1> SUFFICES ASSUME NEW S \in SUBSET Nat, S # {} PROVE \E n \in S : \A m \in S : n <= m
  OBVIOUS
<1> DEFINE Less == {ss \in Nat \X Nat : ss[1] < ss[2]}
<1>1. IsWellFoundedOn(Less, Nat) BY NatLessThanWellFounded DEF OpToRel
<1> HIDE DEF Less
<1>2. PICK n \in S : \A m \in S : ~ (<<m, n>> \in Less) BY <1>1, WFMin
<1>3. \A m \in S : ~ (m < n) BY <1>2 DEF Less
<1> QED BY <1>3

KeptTo(s, c, n, kept) ==
    kept = [i \in 0 .. n |-> IF i = 0 THEN <<>>
                             ELSE IF s[i] = c THEN kept[i - 1] ELSE Append(kept[i - 1], s[i])]
LEMMA KeptExists == \A s, c : \A n \in Nat : \E kept : KeptTo(s, c, n, kept)
<1> SUFFICES ASSUME NEW s, NEW c PROVE \A n \in Nat : \E kept : KeptTo(s, c, n, kept)
  OBVIOUS
<1> DEFINE Missing == {n \in Nat : ~ \E kept : KeptTo(s, c, n, kept)}
<1> SUFFICES ASSUME Missing # {} PROVE FALSE
  OBVIOUS
<1>1. PICK n \in Missing : \A m \in Missing : n <= m BY LeastNumber
<1>2. n # 0
  <2>1. KeptTo(s, c, 0, [i \in 0 .. 0 |-> <<>>]) BY DEF KeptTo
  <2> QED BY <2>1
<1>3. n - 1 \in Nat /\ n - 1 \notin Missing BY <1>1, <1>2
<1>4. PICK kept : KeptTo(s, c, n - 1, kept) BY <1>3
<1> DEFINE more == [i \in 0 .. n |-> IF i < n THEN kept[i]
                                     ELSE IF s[i] = c THEN kept[i - 1]
                                     ELSE Append(kept[i - 1], s[i])]
<1>5. KeptTo(s, c, n, more)
  <2>1. \A i \in 0 .. n - 1 : more[i] = kept[i] BY <1>3
  <2>2. \A i \in 0 .. n - 1 : kept[i] = IF i = 0 THEN <<>> ELSE IF s[i] = c THEN kept[i - 1] ELSE Append(kept[i - 1], s[i])
    BY <1>4 DEF KeptTo
  <2>3. \A i \in 0 .. n : more[i] = IF i = 0 THEN <<>> ELSE IF s[i] = c THEN more[i - 1] ELSE Append(more[i - 1], s[i])
    <3> TAKE i \in 0 .. n
    <3>1. CASE i = n BY <1>2, <1>3, <2>1, <3>1
    <3>2. CASE i # n /\ i # 0
      <4>1. i \in 0 .. n - 1 /\ i - 1 \in 0 .. n - 1 BY <1>3, <3>2
      <4> HIDE DEF more
      <4> QED BY <2>1, <2>2, <4>1, <3>2
    <3>3. CASE i # n /\ i = 0
      <4>1. i \in 0 .. n - 1 BY <1>3, <3>3
      <4> HIDE DEF more
      <4> QED BY <2>1, <2>2, <4>1, <3>3
    <3> QED BY <3>1, <3>2, <3>3
  <2> QED BY <2>3 DEF KeptTo
<1> QED BY <1>1, <1>5

LEMMA AppendedToList ==
    \A s \in Seq(Clients), c \in Clients :
        /\ Append(s, c) \in Seq(Clients)
        /\ \A d : Has(Append(s, c), d) <=> Has(s, d) \/ d = c
        /\ Once(s) /\ ~Has(s, c) => Once(Append(s, c))
<1> SUFFICES ASSUME NEW s \in Seq(Clients), NEW c \in Clients
             PROVE /\ Append(s, c) \in Seq(Clients)
                   /\ \A d : Has(Append(s, c), d) <=> Has(s, d) \/ d = c
                   /\ Once(s) /\ ~Has(s, c) => Once(Append(s, c))
  OBVIOUS
<1>1. /\ Append(s, c) \in Seq(Clients) /\ Len(s) \in Nat
      /\ DOMAIN s = 1 .. Len(s) /\ DOMAIN Append(s, c) = 1 .. Len(s) + 1
      /\ \A i \in DOMAIN s : Append(s, c)[i] = s[i]
      /\ Append(s, c)[Len(s) + 1] = c
  BY AppendProperties, LenProperties
<1>2. \A i \in DOMAIN Append(s, c) : i \in DOMAIN s \/ i = Len(s) + 1 BY <1>1
<1>3. \A d : Has(Append(s, c), d) <=> Has(s, d) \/ d = c BY <1>1, <1>2 DEF Has
<1>4. Once(s) /\ ~Has(s, c) => Once(Append(s, c)) BY <1>1, <1>2 DEF Has, Once
<1> QED BY <1>1, <1>3, <1>4

LEMMA WithoutClient ==
    \A s \in Seq(Clients), c \in Clients :
        /\ Without(s, c) \in Seq(Clients)
        /\ \A d : Has(Without(s, c), d) <=> Has(s, d) /\ d # c
        /\ Once(s) => Once(Without(s, c))
<1> SUFFICES ASSUME NEW s \in Seq(Clients), NEW c \in Clients
             PROVE /\ Without(s, c) \in Seq(Clients)
                   /\ \A d : Has(Without(s, c), d) <=> Has(s, d) /\ d # c
                   /\ Once(s) => Once(Without(s, c))
  OBVIOUS
<1> DEFINE kept == CHOOSE kept : KeptTo(s, c, Len(s), kept)
<1>1. Len(s) \in Nat /\ DOMAIN s = 1 .. Len(s) /\ \A i \in 1 .. Len(s) : s[i] \in Clients
  BY LenProperties, ElementOfSeq
<1>2. Without(s, c) = kept[Len(s)] BY DEF Without, KeptTo
<1>3. KeptTo(s, c, Len(s), kept) BY <1>1, KeptExists
<1> HIDE DEF kept
<1>4. /\ kept[0] = <<>>
      /\ \A i \in 1 .. Len(s) : kept[i] = IF s[i] = c THEN kept[i - 1] ELSE Append(kept[i - 1], s[i])
  <2>1. \A i \in 0 .. Len(s) :
            kept[i] = IF i = 0 THEN <<>>
                      ELSE IF s[i] = c THEN kept[i - 1] ELSE Append(kept[i - 1], s[i])
    BY <1>3 DEF KeptTo
  <2>2. 0 \in 0 .. Len(s) /\ \A i \in 1 .. Len(s) : i \in 0 .. Len(s) /\ i # 0 BY <1>1
  <2> QED BY <2>1, <2>2
\* The entries kept of the first n are theirs, each as often as there.
<1> DEFINE Right(n) == /\ kept[n] \in Seq(Clients)
                       /\ \A d : Has(kept[n], d) <=> d # c /\ \E i \in 1 .. n : s[i] = d
                       /\ Once(s) => Once(kept[n])
           Wrong == {n \in 0 .. Len(s) : ~Right(n)}
<1>5. Right(0)
  <2>1. ~Has(<<>>, c) /\ (\A d : ~Has(<<>>, d)) /\ Once(<<>>) /\ <<>> \in Seq(Clients)
    BY DEF Has, Once
  <2> QED BY <1>4, <2>1
<1>6. ASSUME NEW n \in 1 .. Len(s), Right(n - 1) PROVE Right(n)
  <2>1. CASE s[n] = c
    <3>1. kept[n] = kept[n - 1] BY <1>4, <2>1
    <3>2. \A d : (d # c /\ \E i \in 1 .. n : s[i] = d) <=> (d # c /\ \E i \in 1 .. n - 1 : s[i] = d)
      BY <1>1, <2>1
    <3> QED BY <1>6, <3>1, <3>2
  <2>2. CASE s[n] # c
    <3>1. kept[n] = Append(kept[n - 1], s[n]) BY <1>4, <2>2
    <3>2. s[n] \in Clients /\ kept[n - 1] \in Seq(Clients) BY <1>1, <1>6
    <3>3. \A d : Has(kept[n], d) <=> Has(kept[n - 1], d) \/ d = s[n]
      BY <3>1, <3>2, AppendedToList
    <3>4. \A d : (\E i \in 1 .. n : s[i] = d) <=> (\E i \in 1 .. n - 1 : s[i] = d) \/ d = s[n]
      BY <1>1
    <3>5. \A d : Has(kept[n], d) <=> d # c /\ \E i \in 1 .. n : s[i] = d
      BY <1>6, <2>2, <3>3, <3>4
    <3>6. Once(s) => ~Has(kept[n - 1], s[n])
      <4>1. Once(s) => ~ \E i \in 1 .. n - 1 : s[i] = s[n] BY <1>1 DEF Once
      <4> QED BY <1>6, <4>1
    <3>7. kept[n] \in Seq(Clients) /\ (Once(s) => Once(kept[n]))
      BY <1>6, <3>1, <3>2, <3>6, AppendedToList
    <3> QED BY <3>5, <3>7
  <2> QED BY <2>1, <2>2
<1> HIDE DEF Right
<1>7. Wrong = {}
  <2> SUFFICES ASSUME Wrong # {} PROVE FALSE
    OBVIOUS
  <2>1. Wrong \in SUBSET Nat BY <1>1
  <2>2. PICK n \in Wrong : \A m \in Wrong : n <= m BY <2>1, LeastNumber
  <2>3. n \in 1 .. Len(s) BY <1>1, <1>5, <2>2
  <2>4. n - 1 \in 0 .. Len(s) /\ n - 1 \notin Wrong BY <1>1, <2>2, <2>3
  <2> QED BY <1>6, <2>2, <2>3, <2>4
<1>8. Right(Len(s)) BY <1>1, <1>7
<1>9. \A d : Has(s, d) <=> \E i \in 1 .. Len(s) : s[i] = d BY <1>1 DEF Has
<1> QED BY <1>2, <1>8, <1>9 DEF Right
-----------------------------------------------------------------------------
(* The inductive invariant *)

Broadcasters == {Reader, Exiter}

\* A broadcast holds m_listenersMutex and has come to some place in the list.
Holding == \A t \in Broadcasters : /\ m_listenersMutex = t <=> pc[t] = "send"
                                   /\ pc[t] = "send" => next[t] # 0

\* The output that was read is broadcast before the exit is.
ExitComesLater ==
    /\ pc[Reader] = "write" => written < MaxChunks
    /\ pc[Exiter] \notin {"watch", "reset"} => ptyProcess # "alive"
    /\ pc[Exiter] \in {"lock", "send", "unregister", "ended"} =>
          pc[Reader] \in {"read", "send", "ended"}
    /\ pc[Exiter] \in {"send", "unregister", "ended"} => pc[Reader] # "send"

\* What each request goes through, and what the client asked before.
Stage(c) ==
    /\ request[c] = "none" => pc[c] \in {"idle", "gone"}
    /\ request[c] = "attach" =>
          /\ pc[c] \in {"insert", "store", "checkPty", "usePty", "addOutput", "addExit",
                        "history", "respond", "post"}
          /\ cli[c] = "attached"
    /\ request[c] = "input" =>
          pc[c] \in {"checkPty", "usePty", "post"} /\ cli[c] = "attached"
    /\ request[c] = "detach" =>
          /\ pc[c] \in {"erase", "store", "removeListeners", "respond", "post"}
          /\ cli[c] = "detached"
    /\ request[c] = "disconnect" =>
          /\ pc[c] \in {"list", "erase", "store", "removeListeners", "release"}
          /\ ~here[c]
Stages == \A c \in Clients : Stage(c)

\* Whether attach has yet to add a listener, or detach to remove them.
BeforeOutput(c) ==
    \/ cli[c] = "new"
    \/ request[c] = "attach" /\ pc[c] \in {"insert", "store", "checkPty", "usePty", "addOutput"}
BeforeExit(c) == BeforeOutput(c) \/ (request[c] = "attach" /\ pc[c] = "addExit")
Leaving(c) == request[c] = "detach" /\ pc[c] \in {"erase", "store", "removeListeners"}

\* Who listens: nobody twice, no client before it is added or after it is removed,
\* and every client that is there in between.
Listens(c) ==
    /\ BeforeOutput(c) => ~Has(m_onOutputListeners, c)
    /\ BeforeExit(c) => ~Has(m_onExitListeners, c)
    /\ cli[c] = "detached" /\ ~Leaving(c) =>
          ~Has(m_onOutputListeners, c) /\ ~Has(m_onExitListeners, c)
    /\ here[c] /\ cli[c] = "attached" /\ ~BeforeOutput(c) => Has(m_onOutputListeners, c)
Listening ==
    /\ Once(m_onOutputListeners) /\ Once(m_onExitListeners)
    /\ \A c \in Clients : Listens(c)

\* The server writes to a client until it is gone, and what a client that is gone
\* was sent does not count.
Served == \A c \in Clients : IF here[c] THEN c \in served ELSE delivered[c] = <<>>

\* The listeners a broadcast has not come to yet.
Ahead(t, c) == \E k \in DOMAIN Listeners(t) : next[t] <= k /\ Listeners(t)[k] = c

\* A chunk that has not come to a client is not in what it was sent.
OutputsAreOld ==
    \A c \in Clients : \A i \in DOMAIN delivered[c] :
        delivered[c][i].type = "output" =>
            /\ delivered[c][i].chunk <= written
            /\ pc[Reader] = "lock" \/ (pc[Reader] = "send" /\ Ahead(Reader, c)) =>
                  delivered[c][i].chunk < written

\* Who was sent the exit event is behind the one broadcast of it.
ExitWasSent ==
    \A c \in Clients : Got(c, Exit) =>
        /\ pc[Exiter] \in {"send", "unregister", "ended"}
        /\ pc[Exiter] = "send" => ~Ahead(Exiter, c)

\* Each answer is sent once, before its request ends.
Answers ==
    \A c \in Clients : \A i \in DOMAIN delivered[c] :
        /\ delivered[c][i].type = "attached" =>
              cli[c] # "new" /\ (request[c] = "attach" => pc[c] = "post")
        /\ delivered[c][i].type = "detached" =>
              cli[c] = "detached" /\ (request[c] = "detach" => pc[c] = "post")

\* Every chunk after the first h was sent to c, or is coming.
Complete(c, h) ==
    \A n \in h + 1 .. written : Got(c, Output(n)) \/ (n = written /\ StillComing(c))

\* Nothing is missing after the history, when it is read and when it is there.
NothingMissing ==
    \A c \in Clients : here[c] =>
        /\ request[c] = "attach" /\ pc[c] = "respond" => Complete(c, history[c])
        /\ cli[c] = "attached" =>
              \A h \in 0 .. MaxChunks : Got(c, Attached(h)) => Complete(c, h)

Inv == /\ TypeOK /\ Holding /\ ExitComesLater /\ Stages /\ Listening /\ Served
       /\ OutputsAreOld /\ OutputsInOrder /\ ExitWasSent /\ ExitIsLast
       /\ Answers /\ NothingAfterDetach /\ NothingMissing

-----------------------------------------------------------------------------
(* Types *)

\* The parts of TypeOK, which the provers take one at a time.
Flags == listed \in BOOLEAN /\ crashed \in BOOLEAN /\ here \in [Clients -> BOOLEAN]

Counts ==
    /\ m_clients \subseteq Clients
    /\ connectedClients \in 0 .. Cardinality(Clients)
    /\ size \in [Clients -> 0 .. Cardinality(Clients)]

Progress ==
    /\ ptyProcess \in {"alive", "closing", "freed"}
    /\ m_listenersMutex \in {Reader, Exiter, None}
    /\ m_clientsMutex \in Clients \cup {None}
    /\ pc \in [Threads -> WorkerLabels \cup ReaderLabels \cup ExiterLabels]
    /\ \A c \in Clients : pc[c] \in WorkerLabels
    /\ pc[Reader] \in ReaderLabels /\ pc[Exiter] \in ExiterLabels
    /\ next \in [{Reader, Exiter} -> Nat]
    /\ request \in [Clients -> {"none", "attach", "input", "detach", "disconnect"}]
    /\ cli \in [Clients -> {"new", "attached", "detached"}]

Data ==
    /\ served \subseteq Clients
    /\ m_onOutputListeners \in Seq(Clients) /\ m_onExitListeners \in Seq(Clients)
    /\ written \in 0 .. MaxChunks /\ history \in [Clients -> 0 .. MaxChunks]
    /\ delivered \in [Clients -> Seq(Messages)]

LEMMA TypeParts == TypeOK <=> Flags /\ Counts /\ Progress /\ Data
  BY DEF TypeOK, Flags, Counts, Progress, Data

LEMMA FlagTypes == Flags /\ [Next]_vars => Flags'
<1> USE DEF Flags, MayCrash, session, listeners, mutexes, locals, peers
<1>1. Flags /\ ReadChunk => Flags' BY DEF ReadChunk
<1>2. Flags /\ WriteBuffer => Flags' BY DEF WriteBuffer
<1>3. Flags /\ ReadFails => Flags' BY DEF ReadFails
<1>4. \A t \in Broadcasters : Flags /\ LockListeners(t) => Flags' BY DEF LockListeners
<1>5. \A t \in Broadcasters : Flags /\ SendToListener(t) => Flags' BY DEF SendToListener
<1>6. \A t \in Broadcasters : Flags /\ UnlockListeners(t) => Flags' BY DEF UnlockListeners
<1>7. Flags /\ ShellExits => Flags' BY DEF ShellExits
<1>8. Flags /\ ResetPty => Flags' BY DEF ResetPty
<1>9. Flags /\ JoinReader => Flags' BY DEF JoinReader
<1>10. Flags /\ Unregister => Flags' BY DEF Unregister
<1>11. ASSUME NEW c \in Clients PROVE Flags /\ (Request(c) \/ Leave(c) \/ Worker(c)) => Flags'
  <2>1. Flags /\ Request(c) => Flags' BY DEF Request
  <2>2. Flags /\ Leave(c) => Flags' BY DEF Leave
  <2>3. Flags /\ (AddClient(c) \/ RemoveClient(c)) => Flags'
    <3>1. ClientsRace(c) \in BOOLEAN BY DEF ClientsRace
    <3> QED BY <3>1 DEF AddClient, RemoveClient, ChangeClients
  <2>4. Flags /\ StoreSize(c) => Flags' BY DEF StoreSize
  <2>5. Flags /\ CheckPty(c) => Flags' BY DEF CheckPty
  <2>6. Flags /\ UsePty(c) => Flags' BY DEF UsePty
  <2>7. Flags /\ AddOutputListener(c) => Flags' BY DEF AddOutputListener
  <2>8. Flags /\ AddExitListener(c) => Flags' BY DEF AddExitListener
  <2>9. Flags /\ GetHistory(c) => Flags' BY DEF GetHistory
  <2>10. Flags /\ Respond(c) => Flags' BY DEF Respond
  <2>11. Flags /\ PostRead(c) => Flags' BY DEF PostRead
  <2>12. Flags /\ RemoveClientListeners(c) => Flags' BY DEF RemoveClientListeners
  <2>13. Flags /\ NoticeLeft(c) => Flags' BY DEF NoticeLeft
  <2>14. Flags /\ ListSessions(c) => Flags' BY DEF ListSessions
  <2>15. Flags /\ CallbackReturns(c) => Flags' BY DEF CallbackReturns
  <2> QED
    BY <2>1, <2>2, <2>3, <2>4, <2>5, <2>6, <2>7, <2>8, <2>9, <2>10, <2>11, <2>12, <2>13, <2>14,
       <2>15 DEF Worker
<1>12. Flags /\ UNCHANGED vars => Flags' BY DEF vars
<1> QED
  BY <1>1, <1>2, <1>3, <1>4, <1>5, <1>6, <1>7, <1>8, <1>9, <1>10, <1>11, <1>12
  DEF Next, ReaderStep, ExiterStep, Broadcast, Broadcasters

\* Only a change of the clients counts them, and only a worker stores the count.
LEMMA CountTypes == Counts /\ [Next]_vars => Counts'
<1> USE DEF Counts
<1>1. Counts /\ UNCHANGED <<m_clients, connectedClients, size>> => Counts'
  OBVIOUS
<1>2. ReadChunk \/ WriteBuffer \/ ReadFails \/ ShellExits \/ ResetPty \/ JoinReader
      \/ Unregister \/ UNCHANGED vars
      => UNCHANGED <<m_clients, connectedClients, size>>
  BY DEF ReadChunk, WriteBuffer, ReadFails, ShellExits, ResetPty, JoinReader, Unregister,
         vars, session, locals
<1>3. \A t \in Broadcasters : Broadcast(t) => UNCHANGED <<m_clients, connectedClients, size>>
  BY DEF Broadcast, LockListeners, SendToListener, UnlockListeners, session
<1>4. ASSUME NEW c \in Clients
      PROVE  Request(c) \/ Leave(c) \/ CheckPty(c) \/ UsePty(c) \/ AddOutputListener(c)
             \/ AddExitListener(c) \/ GetHistory(c) \/ Respond(c) \/ PostRead(c)
             \/ RemoveClientListeners(c) \/ NoticeLeft(c) \/ ListSessions(c) \/ CallbackReturns(c)
             => UNCHANGED <<m_clients, connectedClients, size>>
  BY DEF Request, Leave, CheckPty, UsePty, AddOutputListener, AddExitListener, GetHistory,
         Respond, PostRead, RemoveClientListeners, NoticeLeft, ListSessions, CallbackReturns,
         session, locals
<1>5. ASSUME NEW c \in Clients, NEW clients \in SUBSET Clients, Counts, ChangeClients(c, clients)
      PROVE  Counts'
  <2>1. Cardinality(clients) \in 0 .. Cardinality(Clients)
    BY ThreadsAssumption, FS_Subset, FS_CardinalityType
  <2> QED BY <1>5, <2>1 DEF ChangeClients
<1>6. ASSUME NEW c \in Clients, Counts, AddClient(c) \/ RemoveClient(c) PROVE Counts'
  BY <1>5, <1>6 DEF AddClient, RemoveClient
<1>7. ASSUME NEW c \in Clients, Counts, StoreSize(c) PROVE Counts'
  <2>1. 0 \in 0 .. Cardinality(Clients)
    BY ThreadsAssumption, FS_CardinalityType
  <2> QED BY <1>7, <2>1 DEF StoreSize
<1> QED
  BY <1>1, <1>2, <1>3, <1>4, <1>6, <1>7
  DEF Next, ReaderStep, ExiterStep, Worker, Broadcasters

\* Where the threads are, and what they are about.
LEMMA ProgressTypes == Progress /\ [Next]_vars => Progress'
<1> USE ThreadsAssumption
    DEF Progress, Threads, WorkerLabels, ReaderLabels, ExiterLabels, Goto, mutexes, locals, peers
<1>1. Progress /\ ReadChunk => Progress' BY DEF ReadChunk
<1>2. Progress /\ WriteBuffer => Progress' BY DEF WriteBuffer
<1>3. Progress /\ ReadFails => Progress' BY DEF ReadFails
<1>4. \A t \in Broadcasters : Progress /\ LockListeners(t) => Progress' BY DEF LockListeners, Broadcasters
<1>5. \A t \in Broadcasters : Progress /\ SendToListener(t) => Progress' BY DEF SendToListener, Broadcasters
<1>6. \A t \in Broadcasters : Progress /\ UnlockListeners(t) => Progress' BY DEF UnlockListeners, Broadcasters
<1>7. Progress /\ ShellExits => Progress' BY DEF ShellExits
<1>8. Progress /\ ResetPty => Progress' BY DEF ResetPty
<1>9. Progress /\ JoinReader => Progress' BY DEF JoinReader
<1>10. Progress /\ Unregister => Progress' BY DEF Unregister
<1>11. ASSUME NEW c \in Clients PROVE Progress /\ (Request(c) \/ Leave(c) \/ Worker(c)) => Progress'
  <2>1. Progress /\ Request(c) => Progress' BY DEF Request
  <2>2. Progress /\ Leave(c) => Progress' BY DEF Leave
  <2>3. Progress /\ AddClient(c) => Progress' BY DEF AddClient, ChangeClients
  <2>4. Progress /\ RemoveClient(c) => Progress' BY DEF RemoveClient, ChangeClients
  <2>5. Progress /\ StoreSize(c) => Progress' BY DEF StoreSize
  <2>6. Progress /\ CheckPty(c) => Progress' BY DEF CheckPty, AfterPty
  <2>7. Progress /\ UsePty(c) => Progress' BY DEF UsePty, AfterPty
  <2>8. Progress /\ AddOutputListener(c) => Progress' BY DEF AddOutputListener
  <2>9. Progress /\ AddExitListener(c) => Progress' BY DEF AddExitListener
  <2>10. Progress /\ GetHistory(c) => Progress' BY DEF GetHistory
  <2>11. Progress /\ Respond(c) => Progress' BY DEF Respond
  <2>12. Progress /\ PostRead(c) => Progress' BY DEF PostRead
  <2>13. Progress /\ RemoveClientListeners(c) => Progress' BY DEF RemoveClientListeners
  <2>14. Progress /\ NoticeLeft(c) => Progress' BY DEF NoticeLeft
  <2>15. Progress /\ ListSessions(c) => Progress' BY DEF ListSessions
  <2>16. Progress /\ CallbackReturns(c) => Progress' BY DEF CallbackReturns
  <2> QED
    BY <2>1, <2>2, <2>3, <2>4, <2>5, <2>6, <2>7, <2>8, <2>9, <2>10, <2>11, <2>12, <2>13, <2>14, <2>15, <2>16
    DEF Worker
<1>12. Progress /\ UNCHANGED vars => Progress' BY DEF vars
<1> QED
  BY <1>1, <1>2, <1>3, <1>4, <1>5, <1>6, <1>7, <1>8, <1>9, <1>10, <1>11, <1>12
  DEF Next, ReaderStep, ExiterStep, Broadcast, Broadcasters

\* A message is added to what its client was sent, if the client is there.
LEMMA DeliverAppends ==
    ASSUME Data, NEW c \in Clients, NEW m \in Messages, Deliver(c, m)
    PROVE  /\ delivered' \in [Clients -> Seq(Messages)]
           /\ \A d \in Clients : d # c => delivered'[d] = delivered[d]
           /\ IF c \in served /\ here[c]
              THEN /\ Len(delivered[c]) \in Nat
                   /\ DOMAIN delivered[c] = 1 .. Len(delivered[c])
                   /\ DOMAIN delivered'[c] = 1 .. Len(delivered[c]) + 1
                   /\ Len(delivered'[c]) = Len(delivered[c]) + 1
                   /\ \A i \in DOMAIN delivered[c] : delivered'[c][i] = delivered[c][i]
                   /\ delivered'[c][Len(delivered[c]) + 1] = m
              ELSE delivered' = delivered
<1>1. delivered[c] \in Seq(Messages) BY DEF Data
<1>2. CASE c \in served /\ here[c]
  <2>1. delivered' = [delivered EXCEPT ![c] = Append(delivered[c], m)] BY <1>2 DEF Deliver
  <2>2. /\ Append(delivered[c], m) \in Seq(Messages)
        /\ Len(Append(delivered[c], m)) = Len(delivered[c]) + 1
        /\ \A i \in 1 .. Len(delivered[c]) : Append(delivered[c], m)[i] = delivered[c][i]
        /\ Append(delivered[c], m)[Len(delivered[c]) + 1] = m
        /\ DOMAIN Append(delivered[c], m) = 1 .. Len(delivered[c]) + 1
    BY <1>1, AppendProperties, LenProperties
  <2>3. Len(delivered[c]) \in Nat /\ DOMAIN delivered[c] = 1 .. Len(delivered[c])
    BY <1>1, LenProperties
  <2>4. delivered'[c] = Append(delivered[c], m) BY <2>1 DEF Data
  <2>5. delivered' \in [Clients -> Seq(Messages)] BY <2>1, <2>2 DEF Data
  <2>6. \A d \in Clients : d # c => delivered'[d] = delivered[d] BY <2>1 DEF Data
  <2> QED BY <1>2, <2>2, <2>3, <2>4, <2>5, <2>6
<1>3. CASE ~(c \in served /\ here[c])
  BY <1>3 DEF Deliver, Data
<1> QED BY <1>2, <1>3

\* A broadcast sends to a listener, an answer to the client that asked.
LEMMA MessageTypes ==
    Data => /\ \A t \in Broadcasters : Event(t) \in Messages
            /\ \A c \in Clients : Attached(history[c]) \in Messages
            /\ Detached \in Messages
  BY BoundsAssumption DEF Data, Event, Output, Exit, Attached, Detached, Messages, Broadcasters

LEMMA ListenerTypes ==
    ASSUME Data, Holding, Progress, NEW t \in Broadcasters, SendToListener(t)
    PROVE  /\ next[t] \in DOMAIN Listeners(t)
           /\ Listeners(t)[next[t]] \in Clients
<1>1. Listeners(t) \in Seq(Clients) BY DEF Data, Listeners
<1>2. next[t] \in Nat \ {0} /\ next[t] <= Len(Listeners(t))
  BY DEF SendToListener, Holding, Progress, Broadcasters
<1>3. next[t] \in 1 .. Len(Listeners(t)) BY <1>1, <1>2, LenProperties
<1> QED BY <1>1, <1>3, ElementOfSeq, LenProperties

LEMMA DataTypes == Data /\ Progress /\ Holding /\ ExitComesLater /\ [Next]_vars => Data'
<1>1. Data /\ UNCHANGED <<served, m_onOutputListeners, m_onExitListeners, written, history,
                          delivered>> => Data'
  BY DEF Data
<1>2. ReadChunk \/ ReadFails \/ ShellExits \/ ResetPty \/ JoinReader \/ Unregister
      \/ UNCHANGED vars
      => UNCHANGED <<served, m_onOutputListeners, m_onExitListeners, written, history, delivered>>
  BY DEF ReadChunk, ReadFails, ShellExits, ResetPty, JoinReader, Unregister, vars, listeners,
         locals
<1>3. \A t \in Broadcasters : LockListeners(t) \/ UnlockListeners(t)
      => UNCHANGED <<served, m_onOutputListeners, m_onExitListeners, written, history, delivered>>
  BY DEF LockListeners, UnlockListeners, listeners
<1>4. ASSUME NEW c \in Clients
      PROVE  Request(c) \/ AddClient(c) \/ RemoveClient(c) \/ StoreSize(c) \/ CheckPty(c)
             \/ UsePty(c) \/ ListSessions(c) \/ CallbackReturns(c)
             => UNCHANGED <<served, m_onOutputListeners, m_onExitListeners, written, history,
                            delivered>>
  BY DEF Request, AddClient, RemoveClient, ChangeClients, StoreSize, CheckPty, UsePty,
         ListSessions, CallbackReturns, listeners, locals
<1>5. Data /\ ExitComesLater /\ WriteBuffer => Data'
  BY BoundsAssumption DEF Data, ExitComesLater, WriteBuffer, listeners, locals
<1>6. ASSUME Data, Holding, Progress, NEW t \in Broadcasters, SendToListener(t) PROVE Data'
  <2>1. Deliver(Listeners(t)[next[t]], Event(t)) BY <1>6 DEF SendToListener
  <2>2. delivered' \in [Clients -> Seq(Messages)]
    BY <1>6, <2>1, ListenerTypes, MessageTypes, DeliverAppends
  <2> QED BY <1>6, <2>2 DEF Data, SendToListener, listeners
<1>7. ASSUME Data, NEW c \in Clients, Respond(c) PROVE Data'
  <2>1. delivered' \in [Clients -> Seq(Messages)]
    <3>1. \E m \in Messages : Deliver(c, m) BY <1>7, MessageTypes DEF Respond
    <3> QED BY <1>7, <3>1, DeliverAppends
  <2>2. 0 \in 0 .. MaxChunks BY BoundsAssumption
  <2>3. history' \in [Clients -> 0 .. MaxChunks] BY <1>7, <2>2 DEF Data, Respond
  <2>4. UNCHANGED <<served, m_onOutputListeners, m_onExitListeners, written>>
    BY <1>7 DEF Respond, listeners
  <2> QED BY <1>7, <2>1, <2>3, <2>4 DEF Data
<1>8. ASSUME Data, NEW c \in Clients, Leave(c) PROVE Data'
  BY <1>8 DEF Data, Leave, listeners, locals
<1>9. ASSUME Data, NEW c \in Clients, AddOutputListener(c) \/ AddExitListener(c) PROVE Data'
  <2>1. UNCHANGED <<served, written, history, delivered>>
    BY <1>9 DEF AddOutputListener, AddExitListener, locals
  <2>2. /\ m_onOutputListeners' \in {m_onOutputListeners, Append(m_onOutputListeners, c)}
        /\ m_onExitListeners' \in {m_onExitListeners, Append(m_onExitListeners, c)}
    BY <1>9 DEF AddOutputListener, AddExitListener
  <2>3. m_onOutputListeners \in Seq(Clients) /\ m_onExitListeners \in Seq(Clients)
    BY <1>9 DEF Data
  <2>4. /\ Append(m_onOutputListeners, c) \in Seq(Clients)
        /\ Append(m_onExitListeners, c) \in Seq(Clients)
    BY <2>3, AppendedToList
  <2> QED BY <1>9, <2>1, <2>2, <2>3, <2>4 DEF Data
<1>10. ASSUME Data, NEW c \in Clients, RemoveClientListeners(c) PROVE Data'
  BY <1>10, WithoutClient DEF Data, RemoveClientListeners, locals
<1>11. ASSUME Data, ExitComesLater, NEW c \in Clients, GetHistory(c) PROVE Data'
  <2>1. PICK n \in IF pc[Reader] = "write" THEN {written, written + 1} ELSE {written} :
            history' = [history EXCEPT ![c] = n]
    BY <1>11 DEF GetHistory
  <2>2. n \in 0 .. MaxChunks
    BY <1>11, <2>1, BoundsAssumption DEF Data, ExitComesLater
  <2>3. \E k \in 0 .. MaxChunks : history' = [history EXCEPT ![c] = k] BY <2>1, <2>2
  <2>4. UNCHANGED <<served, m_onOutputListeners, m_onExitListeners, written, delivered>>
    BY <1>11 DEF GetHistory, listeners
  <2>5. history' \in [Clients -> 0 .. MaxChunks] BY <1>11, <2>3 DEF Data
  <2> QED BY <1>11, <2>4, <2>5 DEF Data
<1>12. ASSUME Data, NEW c \in Clients, PostRead(c) \/ NoticeLeft(c) PROVE Data'
  BY <1>12 DEF Data, PostRead, NoticeLeft, listeners
<1> QED
  BY <1>1, <1>2, <1>3, <1>4, <1>5, <1>6, <1>7, <1>8, <1>9, <1>10, <1>11, <1>12
  DEF Next, ReaderStep, ExiterStep, Broadcast, Worker, Broadcasters

LEMMA TypeStep == TypeOK /\ Holding /\ ExitComesLater /\ [Next]_vars => TypeOK'
<1>1. Flags' /\ Counts' /\ Progress' /\ Data' => TypeOK'
  BY DEF TypeOK, Flags, Counts, Progress, Data
<1> QED BY <1>1, TypeParts, FlagTypes, CountTypes, ProgressTypes, DataTypes

-----------------------------------------------------------------------------
(* What the steps of a thread leave alone *)

ClientStep(c) == Request(c) \/ Leave(c) \/ Worker(c)
BroadcasterStep == ReadChunk \/ ReaderStep \/ ShellExits \/ ExiterStep

\* A client and its worker change neither a broadcast nor what is of another client.
Apart(c) ==
    /\ UNCHANGED <<written, next, ptyProcess, m_listenersMutex>>
    /\ pc'[Reader] = pc[Reader] /\ pc'[Exiter] = pc[Exiter]
    /\ \A d \in Clients : d # c =>
          /\ pc'[d] = pc[d] /\ request'[d] = request[d] /\ cli'[d] = cli[d]
          /\ here'[d] = here[d] /\ history'[d] = history[d] /\ delivered'[d] = delivered[d]
          /\ d \in served' <=> d \in served

LEMMA ClientFrame == ASSUME Progress, Data, NEW c \in Clients, ClientStep(c) PROVE Apart(c)
<1> USE ThreadsAssumption DEF Progress, Data, Threads, Apart, Goto, listeners, mutexes, locals, peers
<1>1. CASE Request(c) BY <1>1 DEF Request
<1>2. CASE Leave(c) BY <1>2 DEF Leave
<1>3. CASE AddClient(c) BY <1>3 DEF AddClient, ChangeClients
<1>4. CASE RemoveClient(c) BY <1>4 DEF RemoveClient, ChangeClients
<1>5. CASE StoreSize(c) BY <1>5 DEF StoreSize
<1>6. CASE CheckPty(c) BY <1>6 DEF CheckPty
<1>7. CASE UsePty(c) BY <1>7 DEF UsePty
<1>8. CASE AddOutputListener(c) BY <1>8 DEF AddOutputListener
<1>9. CASE AddExitListener(c) BY <1>9 DEF AddExitListener
<1>10. CASE GetHistory(c) BY <1>10 DEF GetHistory
<1>11. CASE Respond(c)
  <2>1. \A d \in Clients : d # c => delivered'[d] = delivered[d]
    BY <1>11 DEF Respond, Deliver
  <2> QED BY <1>11, <2>1 DEF Respond
<1>12. CASE PostRead(c) BY <1>12 DEF PostRead
<1>13. CASE RemoveClientListeners(c) BY <1>13 DEF RemoveClientListeners
<1>14. CASE NoticeLeft(c) BY <1>14 DEF NoticeLeft
<1>15. CASE ListSessions(c) BY <1>15 DEF ListSessions
<1>16. CASE CallbackReturns(c) BY <1>16 DEF CallbackReturns
<1> QED
  BY <1>1, <1>2, <1>3, <1>4, <1>5, <1>6, <1>7, <1>8, <1>9, <1>10, <1>11, <1>12, <1>13, <1>14,
     <1>15, <1>16 DEF ClientStep, Worker

\* A broadcast changes nothing of a client but what it was sent.
LEMMA BroadcasterFrame ==
    ASSUME Progress, BroadcasterStep
    PROVE  /\ UNCHANGED <<m_onOutputListeners, m_onExitListeners, served, request, history, here, cli>>
           /\ \A c \in Clients : pc'[c] = pc[c]
<1> USE ThreadsAssumption DEF Progress, Threads, Goto, listeners, locals, peers
<1>1. CASE ReadChunk BY <1>1 DEF ReadChunk
<1>2. CASE WriteBuffer BY <1>2 DEF WriteBuffer
<1>3. CASE ReadFails BY <1>3 DEF ReadFails
<1>4. CASE ShellExits BY <1>4 DEF ShellExits
<1>5. CASE ResetPty BY <1>5 DEF ResetPty
<1>6. CASE JoinReader BY <1>6 DEF JoinReader
<1>7. CASE Unregister BY <1>7 DEF Unregister
<1>8. ASSUME NEW t \in Broadcasters, Broadcast(t)
      PROVE  /\ UNCHANGED <<m_onOutputListeners, m_onExitListeners, served, request, history, here, cli>>
             /\ \A c \in Clients : pc'[c] = pc[c]
  BY <1>8 DEF Broadcast, LockListeners, SendToListener, UnlockListeners, Broadcasters
<1> QED
  BY <1>1, <1>2, <1>3, <1>4, <1>5, <1>6, <1>7, <1>8
  DEF BroadcasterStep, ReaderStep, ExiterStep, Broadcasters

LEMMA StepCases ==
    Next \/ UNCHANGED vars <=>
        (~crashed /\ (BroadcasterStep \/ \E c \in Clients : ClientStep(c))) \/ UNCHANGED vars
  BY DEF Next, BroadcasterStep, ClientStep

-----------------------------------------------------------------------------
(* The broadcasts *)

LEMMA HoldingStep == Progress /\ Data /\ Holding /\ [Next]_vars => Holding'
<1> SUFFICES ASSUME Progress, Data, Holding, [Next]_vars PROVE Holding'
  OBVIOUS
<1> USE ThreadsAssumption DEF Progress, Threads, Goto, mutexes, locals, Holding, Broadcasters
<1>1. ASSUME NEW c \in Clients, ClientStep(c) PROVE Holding'
  <2>1. Apart(c) BY <1>1, ClientFrame
  <2> QED BY <2>1 DEF Apart
<1>2. CASE ReadChunk BY <1>2 DEF ReadChunk
<1>3. CASE WriteBuffer BY <1>3 DEF WriteBuffer
<1>4. CASE ReadFails BY <1>4 DEF ReadFails
<1>5. CASE ShellExits BY <1>5 DEF ShellExits
<1>6. CASE ResetPty BY <1>6 DEF ResetPty
<1>7. CASE JoinReader BY <1>7 DEF JoinReader
<1>8. CASE Unregister BY <1>8 DEF Unregister
<1>9. ASSUME NEW t \in Broadcasters, LockListeners(t) PROVE Holding' BY <1>9 DEF LockListeners
<1>10. ASSUME NEW t \in Broadcasters, SendToListener(t) PROVE Holding' BY <1>10 DEF SendToListener
<1>11. ASSUME NEW t \in Broadcasters, UnlockListeners(t) PROVE Holding' BY <1>11 DEF UnlockListeners
<1>12. CASE UNCHANGED vars BY <1>12 DEF vars
<1> QED
  BY <1>1, <1>2, <1>3, <1>4, <1>5, <1>6, <1>7, <1>8, <1>9, <1>10, <1>11, <1>12, StepCases
  DEF BroadcasterStep, ReaderStep, ExiterStep, Broadcast

LEMMA ExitComesLaterStep ==
    Progress /\ Data /\ Holding /\ ExitComesLater /\ [Next]_vars => ExitComesLater'
<1> SUFFICES ASSUME Progress, Data, Holding, ExitComesLater, [Next]_vars PROVE ExitComesLater'
  OBVIOUS
<1> USE ThreadsAssumption, BoundsAssumption
    DEF Progress, Threads, ReaderLabels, ExiterLabels, Goto, mutexes, locals, ExitComesLater, Broadcasters
<1>1. ASSUME NEW c \in Clients, ClientStep(c) PROVE ExitComesLater'
  <2>1. Apart(c) BY <1>1, ClientFrame
  <2> QED BY <2>1 DEF Apart
<1>2. CASE ReadChunk BY <1>2 DEF ReadChunk, Data
<1>3. CASE WriteBuffer BY <1>3 DEF WriteBuffer
<1>4. CASE ReadFails BY <1>4 DEF ReadFails
<1>5. CASE ShellExits BY <1>5 DEF ShellExits
<1>6. CASE ResetPty BY <1>6 DEF ResetPty
<1>7. CASE JoinReader BY <1>7 DEF JoinReader, BroadcastIsSlow
<1>8. CASE Unregister BY <1>8 DEF Unregister
<1>9. ASSUME NEW t \in Broadcasters, LockListeners(t) PROVE ExitComesLater'
  BY <1>9 DEF LockListeners, Holding
<1>10. ASSUME NEW t \in Broadcasters, SendToListener(t) PROVE ExitComesLater'
  BY <1>10 DEF SendToListener
<1>11. ASSUME NEW t \in Broadcasters, UnlockListeners(t) PROVE ExitComesLater'
  BY <1>11 DEF UnlockListeners
<1>12. CASE UNCHANGED vars BY <1>12 DEF vars
<1> QED
  BY <1>1, <1>2, <1>3, <1>4, <1>5, <1>6, <1>7, <1>8, <1>9, <1>10, <1>11, <1>12, StepCases
  DEF BroadcasterStep, ReaderStep, ExiterStep, Broadcast

-----------------------------------------------------------------------------
(* The requests, and the lists *)

LEMMA StagesStep == Progress /\ Data /\ Stages /\ [Next]_vars => Stages'
<1> SUFFICES ASSUME Progress, Data, Stages, [Next]_vars PROVE Stages'
  OBVIOUS
<1>1. ASSUME NEW c \in Clients, ClientStep(c) PROVE Stages'
  <2> USE ThreadsAssumption DEF Progress, Threads, Goto, Stage, mutexes, locals, peers
  <2>1. \A d \in Clients : d # c => Stage(d)'
    <3>1. Apart(c) BY <1>1, ClientFrame
    <3> QED BY <3>1 DEF Apart, Stages
  <2>2. Stage(c) BY DEF Stages
  <2>3. Request(c) => Stage(c)' BY <2>2 DEF Request
  <2>4. Leave(c) => Stage(c)' BY <2>2 DEF Leave
  <2>5. AddClient(c) => Stage(c)' BY <2>2 DEF AddClient, ChangeClients
  <2>6. RemoveClient(c) => Stage(c)' BY <2>2 DEF RemoveClient, ChangeClients
  <2>7. StoreSize(c) => Stage(c)' BY <2>2 DEF StoreSize
  <2>8. CheckPty(c) => Stage(c)' BY <2>2 DEF CheckPty, AfterPty
  <2>9. UsePty(c) => Stage(c)' BY <2>2 DEF UsePty, AfterPty
  <2>10. AddOutputListener(c) => Stage(c)' BY <2>2 DEF AddOutputListener
  <2>11. AddExitListener(c) => Stage(c)' BY <2>2 DEF AddExitListener
  <2>12. GetHistory(c) => Stage(c)' BY <2>2 DEF GetHistory
  <2>13. Respond(c) => Stage(c)' BY <2>2 DEF Respond
  <2>14. PostRead(c) => Stage(c)' BY <2>2 DEF PostRead
  <2>15. RemoveClientListeners(c) => Stage(c)' BY <2>2 DEF RemoveClientListeners
  <2>16. NoticeLeft(c) => Stage(c)' BY <2>2 DEF NoticeLeft
  <2>17. ListSessions(c) => Stage(c)' BY <2>2 DEF ListSessions
  <2>18. CallbackReturns(c) => Stage(c)' BY <2>2 DEF CallbackReturns
  <2>19. Stage(c)'
    BY <1>1, <2>3, <2>4, <2>5, <2>6, <2>7, <2>8, <2>9, <2>10, <2>11, <2>12, <2>13, <2>14, <2>15,
       <2>16, <2>17, <2>18 DEF ClientStep, Worker
  <2> QED BY <2>1, <2>19 DEF Stages
<1>2. CASE BroadcasterStep BY <1>2, BroadcasterFrame DEF Stages, Stage
<1>3. CASE UNCHANGED vars BY <1>3 DEF vars, Stages, Stage, locals, peers
<1> QED BY <1>1, <1>2, <1>3, StepCases

LEMMA ServedStep == Progress /\ Data /\ Holding /\ Served /\ [Next]_vars => Served'
<1> SUFFICES ASSUME Progress, Data, Holding, Served, [Next]_vars PROVE Served'
  OBVIOUS
<1>1. ASSUME NEW c \in Clients, ClientStep(c) PROVE Served'
  <2>1. Apart(c) BY <1>1, ClientFrame
  <2>2. CASE UNCHANGED <<delivered, here, served>> BY <2>2 DEF Served
  <2>3. CASE Leave(c) BY <2>1, <2>3 DEF Leave, Served, Apart, peers, Data
  <2>4. CASE Respond(c) BY <2>1, <2>4 DEF Respond, Served, Apart, peers, Deliver
  <2>5. CASE PostRead(c) \/ NoticeLeft(c)
    BY <2>1, <2>5 DEF PostRead, NoticeLeft, Served, Apart, peers
  <2>6. CASE Request(c) BY <2>2, <2>6 DEF Request
  <2>7. CASE AddClient(c) \/ RemoveClient(c) \/ StoreSize(c) \/ CheckPty(c) \/ UsePty(c)
             \/ AddOutputListener(c) \/ AddExitListener(c) \/ GetHistory(c)
             \/ RemoveClientListeners(c) \/ ListSessions(c) \/ CallbackReturns(c)
    BY <2>2, <2>7 DEF AddClient, RemoveClient, ChangeClients, StoreSize, CheckPty, UsePty,
       AddOutputListener, AddExitListener, GetHistory, RemoveClientListeners, ListSessions,
       CallbackReturns, peers
  <2> QED BY <1>1, <2>3, <2>4, <2>5, <2>6, <2>7 DEF ClientStep, Worker
<1>2. CASE BroadcasterStep
  <2>1. UNCHANGED <<here, served>> BY <1>2, BroadcasterFrame
  <2>2. CASE UNCHANGED delivered BY <2>1, <2>2 DEF Served
  <2>3. ASSUME NEW t \in Broadcasters, SendToListener(t) PROVE Served'
    <3>1. PICK c \in Clients : Deliver(c, Event(t))
      BY <2>3, ListenerTypes DEF SendToListener
    <3> QED BY <2>1, <3>1 DEF Served, Deliver, Data
  <2>4. CASE ReadChunk \/ WriteBuffer \/ ReadFails \/ ShellExits \/ ResetPty \/ JoinReader \/ Unregister
    BY <2>2, <2>4 DEF ReadChunk, WriteBuffer, ReadFails, ShellExits, ResetPty, JoinReader, Unregister
  <2>5. ASSUME NEW t \in Broadcasters, LockListeners(t) \/ UnlockListeners(t) PROVE Served'
    BY <2>2, <2>5 DEF LockListeners, UnlockListeners
  <2> QED
    BY <1>2, <2>3, <2>4, <2>5 DEF BroadcasterStep, ReaderStep, ExiterStep, Broadcast, Broadcasters
<1>3. CASE UNCHANGED vars BY <1>3 DEF vars, Served, peers
<1> QED BY <1>1, <1>2, <1>3, StepCases

\* An unlisted client stays so until the worker adds it, and is listed till it removes it.
LEMMA ListeningStep == Progress /\ Data /\ Stages /\ Listening /\ [Next]_vars => Listening'
<1> SUFFICES ASSUME Progress, Data, Stages, Listening, [Next]_vars PROVE Listening'
  OBVIOUS
<1>1. ASSUME NEW c \in Clients, ClientStep(c) PROVE Listening'
  <2>1. Apart(c) BY <1>1, ClientFrame
  <2>2. Stage(c) /\ Listens(c) /\ Once(m_onOutputListeners) /\ Once(m_onExitListeners)
    BY DEF Stages, Listening
  <2>3. ASSUME Once(m_onOutputListeners)', Once(m_onExitListeners)', Listens(c)',
               \A d \in Clients : d # c =>
                  /\ Has(m_onOutputListeners', d) <=> Has(m_onOutputListeners, d)
                  /\ Has(m_onExitListeners', d) <=> Has(m_onExitListeners, d)
        PROVE  Listening'
    <3>1. \A d \in Clients : d # c => Listens(d)'
      BY <2>1, <2>3 DEF Apart, Listening, Listens, BeforeOutput, BeforeExit, Leaving
    <3> QED BY <2>3, <3>1 DEF Listening
  <2>4. CASE ~(AddOutputListener(c) \/ AddExitListener(c) \/ RemoveClientListeners(c))
    <3>0. UNCHANGED listeners
      BY <1>1, <2>4 DEF ClientStep, Worker, Request, Leave, AddClient, RemoveClient, ChangeClients,
         StoreSize, CheckPty, UsePty, GetHistory, Respond, PostRead, NoticeLeft, ListSessions,
         CallbackReturns
    <3> SUFFICES Listens(c)' BY <2>2, <2>3, <3>0 DEF listeners
    <3> USE ThreadsAssumption
        DEF Progress, Threads, Goto, Stage, Listens, BeforeOutput, BeforeExit, Leaving, mutexes, locals, peers, listeners
    <3>1. Request(c) => Listens(c)' BY <2>2, <3>0 DEF Request
    <3>2. Leave(c) => Listens(c)' BY <2>2, <3>0 DEF Leave
    <3>3. AddClient(c) => Listens(c)' BY <2>2, <3>0 DEF AddClient, ChangeClients
    <3>4. RemoveClient(c) => Listens(c)' BY <2>2, <3>0 DEF RemoveClient, ChangeClients
    <3>5. StoreSize(c) => Listens(c)' BY <2>2, <3>0 DEF StoreSize
    <3>6. CheckPty(c) => Listens(c)' BY <2>2, <3>0 DEF CheckPty, AfterPty
    <3>7. UsePty(c) => Listens(c)' BY <2>2, <3>0 DEF UsePty, AfterPty
    <3>8. GetHistory(c) => Listens(c)' BY <2>2, <3>0 DEF GetHistory
    <3>9. Respond(c) => Listens(c)' BY <2>2, <3>0 DEF Respond
    <3>10. PostRead(c) => Listens(c)' BY <2>2, <3>0 DEF PostRead
    <3>11. NoticeLeft(c) => Listens(c)' BY <2>2, <3>0 DEF NoticeLeft
    <3>12. ListSessions(c) => Listens(c)' BY <2>2, <3>0 DEF ListSessions
    <3>13. CallbackReturns(c) => Listens(c)' BY <2>2, <3>0 DEF CallbackReturns
    <3> QED
      BY <1>1, <2>4, <3>1, <3>2, <3>3, <3>4, <3>5, <3>6, <3>7, <3>8, <3>9, <3>10, <3>11, <3>12,
         <3>13 DEF ClientStep, Worker
  <2>5. CASE AddOutputListener(c)
    <3>1. m_onOutputListeners' = Append(m_onOutputListeners, c) /\ UNCHANGED m_onExitListeners
      BY <2>5 DEF AddOutputListener
    <3>2. request[c] = "attach" /\ pc[c] = "addOutput" /\ ~Has(m_onOutputListeners, c)
      BY <2>2, <2>5 DEF AddOutputListener, Stage, Progress, Listens, BeforeOutput
    <3>3. /\ Once(m_onOutputListeners')
          /\ \A d : Has(m_onOutputListeners', d) <=> Has(m_onOutputListeners, d) \/ d = c
      BY <2>2, <3>1, <3>2, AppendedToList DEF Data
    <3>4. pc'[c] = "addExit" /\ UNCHANGED <<request, cli, here>>
      BY <2>5, ThreadsAssumption DEF AddOutputListener, Goto, Progress, Threads, locals, peers
    <3>5. Listens(c)'
      BY <2>2, <3>1, <3>2, <3>3, <3>4 DEF Listens, BeforeOutput, BeforeExit, Leaving, Stage
    <3> QED BY <2>2, <2>3, <3>1, <3>3, <3>5
  <2>6. CASE AddExitListener(c)
    <3>1. m_onExitListeners' = Append(m_onExitListeners, c) /\ UNCHANGED m_onOutputListeners
      BY <2>6 DEF AddExitListener
    <3>2. request[c] = "attach" /\ pc[c] = "addExit" /\ ~Has(m_onExitListeners, c)
      BY <2>2, <2>6 DEF AddExitListener, Stage, Progress, Listens, BeforeExit
    <3>3. /\ Once(m_onExitListeners')
          /\ \A d : Has(m_onExitListeners', d) <=> Has(m_onExitListeners, d) \/ d = c
      BY <2>2, <3>1, <3>2, AppendedToList DEF Data
    <3>4. pc'[c] = "history" /\ UNCHANGED <<request, cli, here>>
      BY <2>6, ThreadsAssumption DEF AddExitListener, Goto, Progress, Threads, locals, peers
    <3>5. Listens(c)'
      BY <2>2, <3>1, <3>2, <3>3, <3>4 DEF Listens, BeforeOutput, BeforeExit, Leaving, Stage
    <3> QED BY <2>2, <2>3, <3>1, <3>3, <3>5
  <2>7. CASE RemoveClientListeners(c)
    <3>1. /\ m_onOutputListeners' = Without(m_onOutputListeners, c)
          /\ m_onExitListeners' = Without(m_onExitListeners, c)
      BY <2>7 DEF RemoveClientListeners
    <3>2. /\ Once(m_onOutputListeners') /\ Once(m_onExitListeners')
          /\ \A d : Has(m_onOutputListeners', d) <=> Has(m_onOutputListeners, d) /\ d # c
          /\ \A d : Has(m_onExitListeners', d) <=> Has(m_onExitListeners, d) /\ d # c
      BY <2>2, <3>1, WithoutClient DEF Data
    <3>3. pc[c] = "removeListeners" /\ UNCHANGED <<request, cli, here>>
      BY <2>7 DEF RemoveClientListeners, locals, peers
    <3>4. ~(here[c] /\ cli[c] = "attached")
      BY <2>2, <3>3 DEF Stage, Progress
    <3>5. Listens(c)' BY <3>2, <3>3, <3>4 DEF Listens
    <3> QED BY <2>3, <3>2, <3>5
  <2> QED BY <2>4, <2>5, <2>6, <2>7
<1>2. CASE BroadcasterStep
  BY <1>2, BroadcasterFrame DEF Listening, Listens, BeforeOutput, BeforeExit, Leaving
<1>3. CASE UNCHANGED vars
  BY <1>3 DEF vars, Listening, Listens, BeforeOutput, BeforeExit, Leaving, listeners, locals, peers
<1> QED BY <1>1, <1>2, <1>3, StepCases

-----------------------------------------------------------------------------
(* How a broadcast, and a request, go on *)

\* The list a broadcast walks stays as it is: who changes it waits for the mutex.
LEMMA ListsStay ==
    ASSUME Progress, Data, Holding, [Next]_vars, NEW t \in Broadcasters, pc[t] = "send"
    PROVE  UNCHANGED <<m_onOutputListeners, m_onExitListeners>>
<1>1. m_listenersMutex # None
  BY ThreadsAssumption DEF Holding, Broadcasters, Threads
<1>2. ASSUME NEW c \in Clients, ClientStep(c)
      PROVE  UNCHANGED <<m_onOutputListeners, m_onExitListeners>>
  BY <1>1, <1>2
  DEF ClientStep, Worker, Request, Leave, AddClient, RemoveClient, ChangeClients, StoreSize, CheckPty,
      UsePty, AddOutputListener, AddExitListener, GetHistory, Respond, PostRead,
      RemoveClientListeners, NoticeLeft, ListSessions, CallbackReturns, listeners
<1> QED BY <1>2, BroadcasterFrame, StepCases DEF vars, listeners

LEMMA BroadcastGoesOn ==
    ASSUME Progress, Data, [Next]_vars, NEW t \in Broadcasters
    PROVE  \/ LockListeners(t) \/ SendToListener(t) \/ UnlockListeners(t)
           \/ next'[t] = next[t] /\ pc[t] \notin {"lock", "send"} /\ pc'[t] # "send"
           \/ next'[t] = next[t] /\ pc'[t] = pc[t]
<1> USE ThreadsAssumption DEF Progress, Threads, Broadcasters, Goto, locals
<1> DEFINE Stays == next'[t] = next[t] /\ pc'[t] = pc[t]
           Moves == next'[t] = next[t] /\ pc[t] \notin {"lock", "send"} /\ pc'[t] # "send"
<1>1. ASSUME NEW c \in Clients, ClientStep(c) PROVE Stays
  <2>1. Apart(c) BY <1>1, ClientFrame
  <2> QED BY <2>1 DEF Apart
<1>2. ReadChunk \/ WriteBuffer \/ ReadFails \/ ShellExits \/ ResetPty \/ JoinReader \/ Unregister
      => Stays \/ Moves
  BY DEF ReadChunk, WriteBuffer, ReadFails, ShellExits, ResetPty, JoinReader, Unregister
<1>3. ASSUME NEW r \in Broadcasters, r # t, Broadcast(r) PROVE Stays
  BY <1>3 DEF Broadcast, LockListeners, SendToListener, UnlockListeners
<1>4. UNCHANGED vars => Stays BY DEF vars
<1> QED
  BY <1>1, <1>2, <1>3, <1>4, StepCases DEF BroadcasterStep, ReaderStep, ExiterStep, Broadcast

\* Who is ahead of a broadcast was ahead of it before.
LEMMA AheadStep ==
    ASSUME Progress, Data, Holding, [Next]_vars, NEW t \in Broadcasters, NEW c \in Clients,
           pc'[t] = "send", Ahead(t, c)'
    PROVE  pc[t] = "lock" \/ (pc[t] = "send" /\ Ahead(t, c))
<1> SUFFICES ASSUME pc[t] # "lock" PROVE pc[t] = "send" /\ Ahead(t, c)
  OBVIOUS
<1> USE ThreadsAssumption DEF Progress, Threads, Broadcasters, Goto
<1>1. ~LockListeners(t) BY DEF LockListeners
<1>2. ~UnlockListeners(t) BY DEF UnlockListeners
<1>3. pc[t] = "send" /\ next[t] \in Nat /\ next'[t] \in {next[t], next[t] + 1}
  BY <1>1, <1>2, BroadcastGoesOn DEF SendToListener
<1>4. Listeners(t)' = Listeners(t) BY <1>3, ListsStay DEF Listeners
<1>5. DOMAIN Listeners(t) \in SUBSET Nat
  <2>1. Listeners(t) \in Seq(Clients) BY DEF Listeners, Data
  <2> QED BY <2>1, LenProperties
<1>6. PICK k \in DOMAIN Listeners(t) : next'[t] <= k /\ Listeners(t)[k] = c
  BY <1>4 DEF Ahead
<1>7. next[t] <= k BY <1>3, <1>5, <1>6
<1> QED BY <1>3, <1>6, <1>7 DEF Ahead

\* Output is counted when it is written, and broadcast next.
LEMMA ReaderGoesOn ==
    ASSUME Progress, Data, [Next]_vars
    PROVE  WriteBuffer \/ (written' = written /\ (pc'[Reader] = "lock" => pc[Reader] = "lock"))
<1> USE ThreadsAssumption DEF Progress, Threads, Goto
<1> DEFINE Still == written' = written /\ (pc'[Reader] = "lock" => pc[Reader] = "lock")
<1>1. ASSUME NEW c \in Clients, ClientStep(c) PROVE Still
  <2>1. Apart(c) BY <1>1, ClientFrame
  <2> QED BY <2>1 DEF Apart
<1>2. ReadChunk \/ ReadFails \/ ShellExits \/ ResetPty \/ JoinReader \/ Unregister => Still
  BY DEF ReadChunk, ReadFails, ShellExits, ResetPty, JoinReader, Unregister
<1>3. ASSUME NEW r \in Broadcasters, Broadcast(r) PROVE Still
  BY <1>3 DEF Broadcast, LockListeners, SendToListener, UnlockListeners, Broadcasters
<1>4. UNCHANGED vars => Still BY DEF vars
<1> QED
  BY <1>1, <1>2, <1>3, <1>4, StepCases DEF BroadcasterStep, ReaderStep, ExiterStep, Broadcasters

\* The exit is broadcast once.
LEMMA ExiterGoesOn ==
    ASSUME Progress, Data, [Next]_vars, pc[Exiter] \in {"send", "unregister", "ended"}
    PROVE  /\ pc'[Exiter] \in {"send", "unregister", "ended"}
           /\ pc'[Exiter] = "send" => pc[Exiter] = "send"
<1> USE ThreadsAssumption DEF Progress, Threads, Goto
<1> DEFINE Late == /\ pc'[Exiter] \in {"send", "unregister", "ended"}
                   /\ pc'[Exiter] = "send" => pc[Exiter] = "send"
<1>1. ASSUME NEW c \in Clients, ClientStep(c) PROVE Late
  <2>1. Apart(c) BY <1>1, ClientFrame
  <2> QED BY <2>1 DEF Apart
<1>2. ReadChunk \/ WriteBuffer \/ ReadFails \/ ShellExits \/ ResetPty \/ JoinReader \/ Unregister
      => Late
  BY DEF ReadChunk, WriteBuffer, ReadFails, ShellExits, ResetPty, JoinReader, Unregister
<1>3. ASSUME NEW r \in Broadcasters, Broadcast(r) PROVE Late
  BY <1>3 DEF Broadcast, LockListeners, SendToListener, UnlockListeners, Broadcasters
<1>4. UNCHANGED vars => Late BY DEF vars
<1> QED
  BY <1>1, <1>2, <1>3, <1>4, StepCases DEF BroadcasterStep, ReaderStep, ExiterStep, Broadcasters

\* A request is made once, and ends when it was answered.
Onward(c) ==
    /\ cli[c] # "new" => cli'[c] # "new"
    /\ cli[c] = "detached" => cli'[c] = "detached"
    /\ here'[c] => here[c]
    /\ request'[c] = "attach" => request[c] = "attach" \/ cli[c] = "new"
    /\ request'[c] = "detach" => request[c] = "detach" \/ cli[c] = "attached"
    /\ pc[c] = "post" => pc'[c] = "post" \/ request'[c] = "none"
    /\ pc'[c] = "respond" /\ request'[c] = "attach" =>
          GetHistory(c) \/ (pc[c] = "respond" /\ request[c] = "attach" /\ history'[c] = history[c])

LEMMA RequestGoesOn ==
    ASSUME Progress, Data, [Next]_vars, NEW c \in Clients PROVE Onward(c)
<1> USE ThreadsAssumption DEF Progress, Threads, Goto, mutexes, locals, peers, Onward
<1>1. ASSUME NEW d \in Clients, ClientStep(d), d # c PROVE Onward(c)
  <2>1. Apart(d) BY <1>1, ClientFrame
  <2> QED BY <1>1, <2>1 DEF Apart
<1>2. ASSUME ClientStep(c) PROVE Onward(c)
  <2>1. Request(c) => Onward(c) BY DEF Request
  <2>2. Leave(c) => Onward(c) BY DEF Leave
  <2>3. AddClient(c) => Onward(c) BY DEF AddClient, ChangeClients
  <2>4. RemoveClient(c) => Onward(c) BY DEF RemoveClient, ChangeClients
  <2>5. StoreSize(c) => Onward(c) BY DEF StoreSize
  <2>6. CheckPty(c) => Onward(c) BY DEF CheckPty, AfterPty
  <2>7. UsePty(c) => Onward(c) BY DEF UsePty, AfterPty
  <2>8. AddOutputListener(c) => Onward(c) BY DEF AddOutputListener
  <2>9. AddExitListener(c) => Onward(c) BY DEF AddExitListener
  <2>10. GetHistory(c) => Onward(c) BY DEF GetHistory
  <2>11. Respond(c) => Onward(c) BY DEF Respond
  <2>12. PostRead(c) => Onward(c) BY DEF PostRead
  <2>13. RemoveClientListeners(c) => Onward(c) BY DEF RemoveClientListeners
  <2>14. NoticeLeft(c) => Onward(c) BY DEF NoticeLeft
  <2>15. ListSessions(c) => Onward(c) BY DEF ListSessions
  <2>16. CallbackReturns(c) => Onward(c) BY DEF CallbackReturns
  <2> QED
    BY <1>2, <2>1, <2>2, <2>3, <2>4, <2>5, <2>6, <2>7, <2>8, <2>9, <2>10, <2>11, <2>12, <2>13, <2>14,
       <2>15, <2>16 DEF ClientStep, Worker
<1>3. CASE BroadcasterStep BY <1>3, BroadcasterFrame
<1>4. CASE UNCHANGED vars BY <1>4 DEF vars
<1> QED BY <1>1, <1>2, <1>3, <1>4, StepCases

-----------------------------------------------------------------------------
(* What a step adds to what a client was sent *)

\* The message m comes after all that client c was sent.
Sent(c, m) ==
    /\ here[c]
    /\ Len(delivered[c]) \in Nat /\ DOMAIN delivered[c] = 1 .. Len(delivered[c])
    /\ Len(delivered'[c]) = Len(delivered[c]) + 1
    /\ DOMAIN delivered'[c] = 1 .. Len(delivered[c]) + 1
    /\ \A i \in DOMAIN delivered[c] : delivered'[c][i] = delivered[c][i]
    /\ delivered'[c][Len(delivered[c]) + 1] = m

Answer(c) == IF request[c] = "attach" THEN Attached(history[c]) ELSE Detached

Told(c, t) == /\ SendToListener(t)
              /\ next[t] \in DOMAIN Listeners(t) /\ Listeners(t)[next[t]] = c
              /\ Sent(c, Event(t))

Mail(c) == \/ delivered'[c] = delivered[c]
           \/ delivered'[c] = <<>> /\ ~here'[c]
           \/ \E t \in Broadcasters : Told(c, t)
           \/ Respond(c) /\ Sent(c, Answer(c))

LEMMA MailCases ==
    ASSUME Flags, Progress, Data, Holding, [Next]_vars, NEW c \in Clients PROVE Mail(c)
<1>1. ASSUME NEW d \in Clients, ClientStep(d), d # c PROVE Mail(c)
  <2>1. Apart(d) BY <1>1, ClientFrame
  <2> QED BY <1>1, <2>1 DEF Apart, Mail
<1>2. ASSUME ClientStep(c) PROVE Mail(c)
  <2>1. CASE Respond(c)
    <3>1. Deliver(c, Answer(c)) BY <2>1 DEF Respond, Answer
    <3>2. Answer(c) \in Messages BY MessageTypes DEF Answer
    <3>3. Sent(c, Answer(c)) \/ delivered' = delivered BY <3>1, <3>2, DeliverAppends DEF Sent
    <3> QED BY <2>1, <3>3 DEF Mail
  <2>2. CASE Leave(c) BY <2>2 DEF Leave, Mail, Data, Flags
  <2>3. CASE ~Respond(c) /\ ~Leave(c)
    <3>1. UNCHANGED delivered
      BY <1>2, <2>3 DEF ClientStep, Worker, Request, AddClient, RemoveClient, ChangeClients, StoreSize,
         CheckPty, UsePty, AddOutputListener, AddExitListener, GetHistory, PostRead,
         RemoveClientListeners, NoticeLeft, ListSessions, CallbackReturns
    <3> QED BY <3>1 DEF Mail
  <2> QED BY <2>1, <2>2, <2>3
<1>3. ASSUME NEW t \in Broadcasters, SendToListener(t) PROVE Mail(c)
  <2> DEFINE d == Listeners(t)[next[t]]
  <2>1. next[t] \in DOMAIN Listeners(t) /\ d \in Clients BY <1>3, ListenerTypes
  <2>2. Deliver(d, Event(t)) BY <1>3 DEF SendToListener
  <2>3. Event(t) \in Messages BY MessageTypes
  <2>4. CASE d = c
    <3> HIDE DEF d
    <3>1. Sent(c, Event(t)) \/ delivered' = delivered BY <2>2, <2>3, <2>4, DeliverAppends DEF Sent
    <3> QED BY <1>3, <2>1, <2>4, <3>1 DEF Mail, Told, d
  <2>5. CASE d # c
    <3> HIDE DEF d
    <3>1. delivered'[c] = delivered[c] BY <2>1, <2>2, <2>3, <2>5, DeliverAppends
    <3> QED BY <3>1 DEF Mail
  <2> QED BY <2>4, <2>5
<1>4. CASE ReadChunk \/ WriteBuffer \/ ReadFails \/ ShellExits \/ ResetPty \/ JoinReader
           \/ Unregister \/ UNCHANGED vars
  BY <1>4 DEF ReadChunk, WriteBuffer, ReadFails, ShellExits, ResetPty, JoinReader, Unregister, vars, Mail
<1>5. ASSUME NEW t \in Broadcasters, LockListeners(t) \/ UnlockListeners(t) PROVE Mail(c)
  BY <1>5 DEF LockListeners, UnlockListeners, Mail
<1> QED
  BY <1>1, <1>2, <1>3, <1>4, <1>5, StepCases
  DEF BroadcasterStep, ReaderStep, ExiterStep, Broadcast, Broadcasters

\* Where a message that is there after a step comes from.
LEMMA MailBefore ==
    ASSUME NEW c \in Clients, Mail(c), NEW i \in DOMAIN delivered'[c]
    PROVE  \/ i \in DOMAIN delivered[c] /\ delivered'[c][i] = delivered[c][i]
           \/ /\ i = Len(delivered[c]) + 1 /\ Len(delivered[c]) \in Nat
              /\ DOMAIN delivered[c] = 1 .. Len(delivered[c])
              /\ Len(delivered'[c]) = Len(delivered[c]) + 1
              /\ \/ \E t \in Broadcasters : Told(c, t) /\ delivered'[c][i] = Event(t)
                 \/ Respond(c) /\ delivered'[c][i] = Answer(c)
<1>1. delivered'[c] # <<>> BY SMT
<1>2. ASSUME NEW m, Sent(c, m)
      PROVE  \/ i \in DOMAIN delivered[c] /\ delivered'[c][i] = delivered[c][i]
             \/ /\ i = Len(delivered[c]) + 1 /\ Len(delivered[c]) \in Nat
                /\ DOMAIN delivered[c] = 1 .. Len(delivered[c])
                /\ Len(delivered'[c]) = Len(delivered[c]) + 1
                /\ delivered'[c][i] = m
  BY <1>2 DEF Sent
<1> QED BY <1>1, <1>2 DEF Mail, Told

\* A client that stays keeps what it was sent.
LEMMA MailKept ==
    ASSUME Flags, Progress, Data, Holding, [Next]_vars, NEW c \in Clients, here'[c], NEW m, Got(c, m)
    PROVE  Got(c, m)'
<1>1. Mail(c) BY MailCases
<1>2. \A i \in DOMAIN delivered[c] : i \in DOMAIN delivered'[c] /\ delivered'[c][i] = delivered[c][i]
  <2>1. ASSUME NEW n, Sent(c, n)
        PROVE  \A i \in DOMAIN delivered[c] :
                  i \in DOMAIN delivered'[c] /\ delivered'[c][i] = delivered[c][i]
    BY <2>1 DEF Sent
  <2> QED BY <1>1, <2>1 DEF Mail, Told
<1> QED BY <1>2 DEF Got

-----------------------------------------------------------------------------
(* Each chunk once, and in order *)

Coming(c) == pc[Reader] = "lock" \/ (pc[Reader] = "send" /\ Ahead(Reader, c))

\* The types of the messages tell them apart.
LEMMA EventKinds ==
    /\ Event(Reader) = Output(written) /\ Event(Exiter) = Exit
    /\ \A n : Output(n).type = "output" /\ Output(n).chunk = n
    /\ Exit.type = "exit"
    /\ \A n : Attached(n).type = "attached" /\ Attached(n).chunk = n
    /\ Detached.type = "detached"
  BY ThreadsAssumption DEF Event, Output, Exit, Attached, Detached

\* Who is being told is ahead of the broadcast, and is not when it was told.
LEMMA ToldIsAhead ==
    ASSUME Progress, Data, Listening, NEW c \in Clients, NEW t \in Broadcasters, Told(c, t)
    PROVE  /\ pc[t] = "send" /\ Ahead(t, c) /\ ~Ahead(t, c)'
           /\ Has(Listeners(t), c)
<1> DEFINE s == Listeners(t)
<1>1. s \in Seq(Clients) /\ DOMAIN s = 1 .. Len(s) /\ Len(s) \in Nat
  BY LenProperties DEF Data, Listeners
<1>2. Once(s) BY DEF Listening, Listeners
<1>3. next[t] \in DOMAIN s /\ s[next[t]] = c BY DEF Told
<1>4. pc[t] = "send" /\ next'[t] = next[t] + 1
  BY DEF Told, SendToListener, Progress, Broadcasters
<1>5. Listeners(t)' = s BY DEF Told, SendToListener, Listeners, listeners
<1> HIDE DEF s
<1>6. \A k \in DOMAIN s : next'[t] <= k => s[k] # c
  BY <1>1, <1>2, <1>3, <1>4 DEF Once
<1>7. ~Ahead(t, c)' BY <1>5, <1>6 DEF Ahead
<1>8. Ahead(t, c) BY <1>1, <1>3 DEF Ahead, s
<1> QED BY <1>3, <1>4, <1>7, <1>8 DEF Has, s

LEMMA OutputsAreOldStep ==
    ASSUME Flags, Progress, Data, Holding, Listening, OutputsAreOld, [Next]_vars
    PROVE  OutputsAreOld'
<1> SUFFICES ASSUME NEW c \in Clients, NEW i \in DOMAIN delivered'[c],
                    delivered'[c][i].type = "output"
             PROVE  /\ delivered'[c][i].chunk <= written'
                    /\ Coming(c)' => delivered'[c][i].chunk < written'
  BY DEF OutputsAreOld, Coming
<1>0. written \in Int BY BoundsAssumption DEF Data
<1>1. WriteBuffer \/ (written' = written /\ (Coming(c)' => Coming(c)))
  BY ReaderGoesOn, AheadStep DEF Coming, Broadcasters
<1>2. CASE i \in DOMAIN delivered[c] /\ delivered'[c][i] = delivered[c][i]
  <2>1. /\ delivered[c][i].chunk <= written
        /\ Coming(c) => delivered[c][i].chunk < written
    BY <1>2 DEF OutputsAreOld, Coming
  <2>2. delivered[c][i].chunk \in Int
    <3>1. delivered[c] \in Seq(Messages) BY DEF Data
    <3>2. delivered[c][i] \in Messages BY <1>2, <3>1, ElementOfSeq, LenProperties
    <3> QED BY <3>2 DEF Messages
  <2>3. WriteBuffer => written' = written + 1 BY DEF WriteBuffer
  <2> QED BY <1>0, <1>1, <1>2, <2>1, <2>2, <2>3
<1>3. ASSUME NEW t \in Broadcasters, Told(c, t), delivered'[c][i] = Event(t)
      PROVE  /\ delivered'[c][i].chunk <= written'
             /\ Coming(c)' => delivered'[c][i].chunk < written'
  <2>1. t = Reader BY <1>3, EventKinds DEF Broadcasters
  <2>2. delivered'[c][i].chunk = written BY <1>3, <2>1, EventKinds
  <2>3. written' = written /\ pc' = pc BY <1>3 DEF Told, SendToListener
  <2>4. ~Coming(c)' BY <1>3, <2>1, <2>3, ToldIsAhead DEF Coming
  <2> QED BY <1>0, <2>2, <2>3, <2>4
<1>4. delivered'[c][i] # Answer(c) BY EventKinds DEF Answer
<1> QED BY <1>2, <1>3, <1>4, MailCases, MailBefore

LEMMA OutputsInOrderStep ==
    ASSUME Flags, Progress, Data, Holding, Listening, OutputsAreOld, OutputsInOrder, [Next]_vars
    PROVE  OutputsInOrder'
<1> SUFFICES ASSUME NEW c \in Clients, NEW i \in DOMAIN delivered'[c], NEW j \in DOMAIN delivered'[c],
                    i < j, delivered'[c][i].type = "output", delivered'[c][j].type = "output"
             PROVE  delivered'[c][i].chunk < delivered'[c][j].chunk
  BY DEF OutputsInOrder
<1>1. Mail(c) BY MailCases
<1>2. CASE j \in DOMAIN delivered[c] /\ delivered'[c][j] = delivered[c][j]
  <2>1. i \in DOMAIN delivered[c] /\ delivered'[c][i] = delivered[c][i]
    <3>1. delivered[c] \in Seq(Messages) BY DEF Data
    <3>2. DOMAIN delivered[c] = 1 .. Len(delivered[c]) /\ Len(delivered[c]) \in Nat
      BY <3>1, LenProperties
    <3> QED BY <1>1, <1>2, <3>2, MailBefore
  <2> QED BY <1>2, <2>1 DEF OutputsInOrder
<1>3. ASSUME NEW t \in Broadcasters, Told(c, t), delivered'[c][j] = Event(t),
             j = Len(delivered[c]) + 1, Len(delivered[c]) \in Nat
      PROVE  delivered'[c][i].chunk < delivered'[c][j].chunk
  <2>1. i \in DOMAIN delivered[c] /\ delivered'[c][i] = delivered[c][i]
    BY <1>1, <1>3, MailBefore
  <2>2. t = Reader BY <1>3, EventKinds DEF Broadcasters
  <2>3. delivered'[c][j].chunk = written BY <1>3, <2>2, EventKinds
  <2>4. Coming(c) BY <1>3, <2>2, ToldIsAhead DEF Coming
  <2> QED BY <2>1, <2>3, <2>4 DEF OutputsAreOld, Coming
<1>4. delivered'[c][j] # Answer(c) BY EventKinds DEF Answer
<1> QED BY <1>1, <1>2, <1>3, <1>4, MailBefore

-----------------------------------------------------------------------------
(* The exit event, and the answers *)

LEMMA ExitWasSentStep ==
    ASSUME Flags, Progress, Data, Holding, Listening, ExitWasSent, [Next]_vars
    PROVE  ExitWasSent'
<1> SUFFICES ASSUME NEW c \in Clients, NEW i \in DOMAIN delivered'[c], delivered'[c][i] = Exit
             PROVE  /\ pc'[Exiter] \in {"send", "unregister", "ended"}
                    /\ pc'[Exiter] = "send" => ~Ahead(Exiter, c)'
  BY EventKinds DEF ExitWasSent, Got, Exit
<1>1. CASE i \in DOMAIN delivered[c] /\ delivered'[c][i] = delivered[c][i]
  <2>1. Got(c, Exit) BY <1>1 DEF Got
  <2>2. /\ pc[Exiter] \in {"send", "unregister", "ended"}
        /\ pc[Exiter] = "send" => ~Ahead(Exiter, c)
    BY <2>1 DEF ExitWasSent
  <2> QED BY <2>2, ExiterGoesOn, AheadStep DEF Broadcasters
<1>2. ASSUME NEW t \in Broadcasters, Told(c, t), delivered'[c][i] = Event(t)
      PROVE  /\ pc'[Exiter] \in {"send", "unregister", "ended"}
             /\ pc'[Exiter] = "send" => ~Ahead(Exiter, c)'
  <2>1. t = Exiter BY <1>2, EventKinds DEF Broadcasters
  <2>2. pc' = pc BY <1>2 DEF Told, SendToListener
  <2> QED BY <1>2, <2>1, <2>2, ToldIsAhead
<1>3. delivered'[c][i] # Answer(c) BY EventKinds DEF Answer
<1> QED BY <1>1, <1>2, <1>3, MailCases, MailBefore

\* The reader has ended, or is about to, when the exit is broadcast.
LEMMA ExitIsLastStep ==
    ASSUME Flags, Progress, Data, Holding, ExitComesLater, Listening, ExitWasSent, ExitIsLast,
           [Next]_vars
    PROVE  ExitIsLast'
<1> SUFFICES ASSUME NEW c \in Clients, NEW i \in DOMAIN delivered'[c], NEW j \in DOMAIN delivered'[c],
                    i < j, delivered'[c][i] = Exit
             PROVE  delivered'[c][j].type \notin {"output", "exit"}
  BY DEF ExitIsLast, Exit
<1>1. Mail(c) BY MailCases
<1>2. CASE j \in DOMAIN delivered[c] /\ delivered'[c][j] = delivered[c][j]
  <2>1. i \in DOMAIN delivered[c] /\ delivered'[c][i] = delivered[c][i]
    <3>1. delivered[c] \in Seq(Messages) BY DEF Data
    <3>2. DOMAIN delivered[c] = 1 .. Len(delivered[c]) /\ Len(delivered[c]) \in Nat
      BY <3>1, LenProperties
    <3> QED BY <1>1, <1>2, <3>2, MailBefore
  <2> QED BY <1>2, <2>1 DEF ExitIsLast
<1>3. ASSUME NEW t \in Broadcasters, Told(c, t), j = Len(delivered[c]) + 1, Len(delivered[c]) \in Nat
      PROVE  FALSE
  <2>1. i \in DOMAIN delivered[c] /\ delivered'[c][i] = delivered[c][i]
    BY <1>1, <1>3, MailBefore
  <2>2. Got(c, Exit) BY <2>1 DEF Got
  <2>3. /\ pc[Exiter] \in {"send", "unregister", "ended"}
        /\ pc[Exiter] = "send" => ~Ahead(Exiter, c)
    BY <2>2 DEF ExitWasSent
  <2>4. pc[Reader] # "send" BY <2>3 DEF ExitComesLater
  <2> QED BY <1>3, <2>3, <2>4, ToldIsAhead DEF Broadcasters
<1>4. delivered'[c][j] = Answer(c) => delivered'[c][j].type \notin {"output", "exit"}
  BY EventKinds DEF Answer
<1> QED BY <1>1, <1>2, <1>3, <1>4, MailBefore

LEMMA AnswersStep ==
    ASSUME Flags, Progress, Data, Holding, Stages, Answers, [Next]_vars
    PROVE  Answers'
<1> SUFFICES ASSUME NEW c \in Clients, NEW i \in DOMAIN delivered'[c]
             PROVE  /\ delivered'[c][i].type = "attached" =>
                          cli'[c] # "new" /\ (request'[c] = "attach" => pc'[c] = "post")
                    /\ delivered'[c][i].type = "detached" =>
                          cli'[c] = "detached" /\ (request'[c] = "detach" => pc'[c] = "post")
  BY DEF Answers
<1>1. Stage(c) /\ Onward(c) BY RequestGoesOn DEF Stages
<1>2. CASE i \in DOMAIN delivered[c] /\ delivered'[c][i] = delivered[c][i]
  <2>1. /\ delivered[c][i].type = "attached" =>
              cli[c] # "new" /\ (request[c] = "attach" => pc[c] = "post")
        /\ delivered[c][i].type = "detached" =>
              cli[c] = "detached" /\ (request[c] = "detach" => pc[c] = "post")
    BY <1>2 DEF Answers
  <2> QED BY <1>1, <1>2, <2>1 DEF Onward
<1>3. ASSUME NEW t \in Broadcasters, delivered'[c][i] = Event(t)
      PROVE  delivered'[c][i].type \notin {"attached", "detached"}
  BY <1>3, EventKinds DEF Broadcasters
<1>4. CASE Respond(c) /\ delivered'[c][i] = Answer(c)
  <2>1. pc[c] = "respond" /\ pc'[c] = "post" /\ UNCHANGED <<request, cli>>
    BY <1>4 DEF Respond, Goto, Progress, Threads, peers
  <2>2. IF request[c] = "attach" THEN cli[c] = "attached" ELSE cli[c] = "detached"
    BY <1>1, <2>1 DEF Stage, Progress
  <2>3. delivered'[c][i].type = IF request[c] = "attach" THEN "attached" ELSE "detached"
    BY <1>4, EventKinds DEF Answer
  <2> QED BY <2>1, <2>2, <2>3
<1> QED BY <1>2, <1>3, <1>4, MailCases, MailBefore

\* Who was answered its detach listens no more, and asks no more.
LEMMA NothingAfterDetachStep ==
    ASSUME Flags, Progress, Data, Holding, Stages, Listening, Answers, NothingAfterDetach, [Next]_vars
    PROVE  NothingAfterDetach'
<1> SUFFICES ASSUME NEW c \in Clients, NEW i \in DOMAIN delivered'[c], delivered'[c][i] = Detached
             PROVE  i = Len(delivered'[c])
  BY DEF NothingAfterDetach, Detached
<1>1. Mail(c) BY MailCases
<1>2. CASE i \in DOMAIN delivered[c] /\ delivered'[c][i] = delivered[c][i]
  <2>1. i = Len(delivered[c]) BY <1>2 DEF NothingAfterDetach
  <2>2. cli[c] = "detached" /\ (request[c] = "detach" => pc[c] = "post")
    BY <1>2, EventKinds DEF Answers
  <2>3. ASSUME NEW t \in Broadcasters, Told(c, t) PROVE FALSE
    <3>1. Has(Listeners(t), c) BY <2>3, ToldIsAhead
    <3>2. ~Leaving(c) BY <2>2 DEF Leaving
    <3> QED BY <2>2, <3>1, <3>2 DEF Listening, Listens, Listeners
  <2>4. ~Respond(c)
    <3>1. Stage(c) BY DEF Stages
    <3> QED BY <2>2, <3>1 DEF Respond, Stage, Progress
  <2>5. delivered'[c] = delivered[c] \/ delivered'[c] = <<>> BY <1>1, <2>3, <2>4 DEF Mail
  <2>6. delivered'[c] # <<>> BY SMT
  <2> QED BY <2>1, <2>5, <2>6
<1>3. CASE i = Len(delivered[c]) + 1 /\ Len(delivered'[c]) = Len(delivered[c]) + 1 BY <1>3
<1> QED BY <1>1, <1>2, <1>3, MailBefore

-----------------------------------------------------------------------------
(* Nothing is missing *)

\* A broadcast has come to a place in the list, or not.
LEMMA PositionInList ==
    ASSUME Data, NEW c \in Clients, Has(m_onOutputListeners, c)
    PROVE  /\ Position(m_onOutputListeners, c) \in DOMAIN m_onOutputListeners
           /\ m_onOutputListeners[Position(m_onOutputListeners, c)] = c
           /\ DOMAIN m_onOutputListeners = 1 .. Len(m_onOutputListeners)
           /\ Len(m_onOutputListeners) \in Nat
<1>1. \E i \in DOMAIN m_onOutputListeners : m_onOutputListeners[i] = c BY DEF Has
<1> QED BY <1>1, LenProperties DEF Position, Data

\* A chunk that client c, which listens, has or is coming to it, stays so.
LEMMA CompleteStep ==
    ASSUME Flags, Progress, Data, Holding, Listening, Served, [Next]_vars,
           NEW c \in Clients, here'[c], Has(m_onOutputListeners, c),
           NEW h \in 0 .. MaxChunks, Complete(c, h)
    PROVE  Complete(c, h)'
<1>0. written \in Int /\ h \in Int /\ next[Reader] \in Int /\ Reader \in Broadcasters
  BY BoundsAssumption DEF Data, Progress, Broadcasters
<1>1. PICK p \in 1 .. Len(m_onOutputListeners) :
         p = Position(m_onOutputListeners, c) /\ m_onOutputListeners[p] = c
  BY PositionInList
<1>2. Len(m_onOutputListeners) \in Nat BY PositionInList
<1> SUFFICES ASSUME NEW n \in h + 1 .. written'
             PROVE  Got(c, Output(n))' \/ (n = written' /\ StillComing(c)')
  BY DEF Complete, Output
<1>3. Got(c, Output(n)) => Got(c, Output(n))' BY MailKept DEF Output
<1>4. ASSUME n \in h + 1 .. written
      PROVE  Got(c, Output(n)) \/ (n = written /\ StillComing(c))
  BY <1>4 DEF Complete
<1>5. StillComing(c) <=> pc[Reader] = "lock" \/ (pc[Reader] = "send" /\ next[Reader] <= p)
  BY <1>1 DEF StillComing
<1>6. CASE WriteBuffer
  <2>1. pc[Reader] = "write" /\ pc'[Reader] = "lock" /\ written' = written + 1
    BY <1>6 DEF WriteBuffer, Goto, Progress, Threads
  <2>2. StillComing(c)' BY <2>1 DEF StillComing
  <2>3. CASE n = written' BY <2>2, <2>3
  <2>4. CASE n # written'
    <3>1. n \in h + 1 .. written BY <1>0, <2>1, <2>4
    <3> QED BY <1>3, <1>4, <1>5, <2>1, <3>1
  <2> QED BY <2>3, <2>4
<1>7. CASE written' = written /\ ~(n = written /\ StillComing(c))
  <2>1. Got(c, Output(n)) BY <1>4, <1>7
  <2> QED BY <1>3, <2>1
<1>8. CASE written' = written /\ n = written /\ StillComing(c)
  <2>1. CASE LockListeners(Reader)
    <3>1. pc'[Reader] = "send" /\ next'[Reader] = 1 /\ UNCHANGED m_onOutputListeners
      BY <2>1 DEF LockListeners, Goto, Progress, Threads, listeners
    <3>2. StillComing(c)' BY <1>1, <3>1 DEF StillComing
    <3> QED BY <1>8, <3>2
  <2>2. CASE SendToListener(Reader)
    <3>1. /\ pc[Reader] = "send" /\ pc'[Reader] = "send" /\ next'[Reader] = next[Reader] + 1
          /\ UNCHANGED <<m_onOutputListeners, here>>
      BY <2>2 DEF SendToListener, Progress, listeners, peers
    <3>2. next[Reader] <= p BY <1>5, <1>8, <3>1
    <3>3. CASE next[Reader] = p
      <4>1. Deliver(c, Output(n))
        BY <1>1, <1>8, <2>2, <3>3, EventKinds DEF SendToListener, Listeners
      <4>2. Output(n) \in Messages BY <1>0, <1>8, EventKinds, MessageTypes
      <4>3. c \in served /\ here[c] BY <3>1 DEF Served
      <4>4. \E i \in DOMAIN delivered'[c] : delivered'[c][i] = Output(n)
        BY <4>1, <4>2, <4>3, DeliverAppends
      <4> QED BY <4>4 DEF Got, Output
    <3>4. CASE next[Reader] # p
      <4>1. next'[Reader] <= p BY <1>0, <1>1, <1>2, <3>1, <3>2, <3>4
      <4>2. StillComing(c)' BY <1>1, <3>1, <4>1 DEF StillComing
      <4> QED BY <1>8, <4>2
    <3> QED BY <3>3, <3>4
  <2>3. ~UnlockListeners(Reader)
    BY <1>0, <1>1, <1>2, <1>5, <1>8 DEF UnlockListeners, Listeners
  <2>4. CASE next'[Reader] = next[Reader] /\ pc'[Reader] = pc[Reader]
    <3>1. pc[Reader] = "send" => UNCHANGED m_onOutputListeners BY <1>0, ListsStay
    <3>2. StillComing(c)' BY <1>8, <2>4, <3>1 DEF StillComing
    <3> QED BY <1>8, <3>2
  <2>5. pc[Reader] \in {"lock", "send"} BY <1>5, <1>8
  <2> QED BY <1>0, <2>1, <2>2, <2>3, <2>4, <2>5, BroadcastGoesOn
<1> QED BY <1>6, <1>7, <1>8, ReaderGoesOn

LEMMA NothingMissingStep ==
    ASSUME Flags, Progress, Data, Holding, ExitComesLater, Stages, Listening, Served, Answers,
           NothingMissing, [Next]_vars, Data'
    PROVE  NothingMissing'
<1> SUFFICES ASSUME NEW c \in Clients, here'[c]
             PROVE  /\ request'[c] = "attach" /\ pc'[c] = "respond" => Complete(c, history[c])'
                    /\ cli'[c] = "attached" =>
                          \A h \in 0 .. MaxChunks : Got(c, Attached(h))' => Complete(c, h)'
  BY DEF NothingMissing, Attached
<1>1. Stage(c) /\ Listens(c) /\ Onward(c) BY RequestGoesOn DEF Stages, Listening
<1>2. here[c] BY <1>1 DEF Onward
<1>3. ASSUME request'[c] = "attach", pc'[c] = "respond" PROVE Complete(c, history[c])'
  <2>1. CASE GetHistory(c)
    <3>1. history'[c] \in {written, written + 1} /\ written' = written
      BY <2>1 DEF GetHistory, Data
    <3>2. history'[c] + 1 .. written' = {} BY <3>1, BoundsAssumption DEF Data
    <3> QED BY <3>2 DEF Complete
  <2>2. CASE pc[c] = "respond" /\ request[c] = "attach" /\ history'[c] = history[c]
    <3>1. Complete(c, history[c]) BY <1>2, <2>2 DEF NothingMissing
    <3>2. Has(m_onOutputListeners, c) BY <1>1, <1>2, <2>2 DEF Stage, Listens, BeforeOutput
    <3> DEFINE h == history[c]
    <3>3. h \in 0 .. MaxChunks BY DEF Data
    <3>4. \A g \in 0 .. MaxChunks : g = h => Complete(c, g)' BY <3>1, <3>2, CompleteStep
    <3>5. history'[c] \in 0 .. MaxChunks BY <2>2, <3>3
    <3> QED BY <2>2, <3>4, <3>5 DEF Complete
  <2> QED BY <1>1, <1>3, <2>1, <2>2 DEF Onward
<1>4. ASSUME cli'[c] = "attached", NEW h \in 0 .. MaxChunks, Got(c, Attached(h))'
      PROVE  Complete(c, h)'
  <2>1. SUFFICES Has(m_onOutputListeners, c) /\ Complete(c, h) BY CompleteStep
  <2>2. PICK i \in DOMAIN delivered'[c] : delivered'[c][i] = Attached(h)
    BY <1>4 DEF Got, Attached
  <2>3. /\ Attached(h).type = "attached" /\ Attached(h).chunk = h
        /\ Attached(history[c]).chunk = history[c] /\ Detached.type = "detached"
    BY EventKinds
  <2>4. delivered'[c][i].type = "attached" /\ delivered'[c][i].chunk = h BY <2>2, <2>3
  <2>5. CASE i \in DOMAIN delivered[c] /\ delivered'[c][i] = delivered[c][i]
    <3>1. Got(c, Attached(h)) BY <2>2, <2>5 DEF Got
    <3>2. cli[c] # "new" /\ (request[c] = "attach" => pc[c] = "post")
      <4>1. delivered[c][i].type = "attached" BY <2>5, <2>4
      <4> QED BY <2>5, <4>1 DEF Answers
    <3>3. cli[c] = "attached" BY <1>1, <1>4, <3>2 DEF Onward, Progress
    <3>4. Complete(c, h) BY <1>2, <3>1, <3>3 DEF NothingMissing
    <3>5. Has(m_onOutputListeners, c) BY <1>1, <1>2, <3>2, <3>3 DEF Listens, BeforeOutput
    <3> QED BY <3>4, <3>5
  <2>6. CASE Respond(c) /\ delivered'[c][i] = Answer(c)
    <3>1. pc[c] = "respond" BY <2>6 DEF Respond
    <3>2. request[c] = "attach" /\ h = history[c] BY <2>6, <2>3, <2>4 DEF Answer
    <3>3. Complete(c, h) BY <1>2, <3>1, <3>2 DEF NothingMissing
    <3>4. Has(m_onOutputListeners, c) BY <1>1, <1>2, <3>1, <3>2 DEF Stage, Listens, BeforeOutput
    <3> QED BY <3>3, <3>4
  <2>7. ASSUME NEW t \in Broadcasters PROVE delivered'[c][i] # Event(t)
    BY <2>2, EventKinds DEF Broadcasters
  <2> QED BY <2>5, <2>6, <2>7, MailCases, MailBefore
<1> QED BY <1>3, <1>4

-----------------------------------------------------------------------------
(* The theorems *)

LEMMA InitInv == Init => Inv
<1> SUFFICES ASSUME Init PROVE Inv
  OBVIOUS
<1> USE ThreadsAssumption, BoundsAssumption DEF Init, Threads
<1>1. Flags BY DEF Flags
<1>2. Counts BY FS_CardinalityType DEF Counts
<1>3. Progress BY DEF Progress, WorkerLabels, ReaderLabels, ExiterLabels
<1>4. Data BY DEF Data
<1>5. \A c \in Clients : pc[c] = "idle" /\ delivered[c] = <<>> OBVIOUS
<1>6. DOMAIN <<>> = {} /\ \A c : ~Has(<<>>, c) BY DEF Has
<1>7. Holding /\ ExitComesLater BY DEF Holding, ExitComesLater, Broadcasters
<1>8. Stages /\ Served BY DEF Stages, Stage, Served
<1>9. Listening BY <1>6 DEF Listening, Listens, Once
<1>10. \A c \in Clients : DOMAIN delivered[c] = {} BY <1>5, <1>6
<1>11. \A c \in Clients : \A m : ~Got(c, m) BY <1>10 DEF Got
<1>12. OutputsAreOld /\ OutputsInOrder /\ ExitIsLast /\ Answers /\ NothingAfterDetach
  BY <1>10 DEF OutputsAreOld, OutputsInOrder, ExitIsLast, Answers, NothingAfterDetach
<1>13. ExitWasSent /\ NothingMissing BY <1>11 DEF ExitWasSent, NothingMissing
<1> QED BY <1>1, <1>2, <1>3, <1>4, <1>7, <1>8, <1>9, <1>12, <1>13, TypeParts DEF Inv

LEMMA InvStep == Inv /\ [Next]_vars => Inv'
<1> SUFFICES ASSUME Inv, [Next]_vars PROVE Inv'
  OBVIOUS
<1>1. /\ Flags /\ Counts /\ Progress /\ Data
      /\ Holding /\ ExitComesLater /\ Stages /\ Listening /\ Served
      /\ OutputsAreOld /\ OutputsInOrder /\ ExitWasSent /\ ExitIsLast
      /\ Answers /\ NothingAfterDetach /\ NothingMissing
  BY TypeParts DEF Inv
<1>2. TypeOK' BY <1>1, TypeStep, TypeParts
<1>3. Data' BY <1>1, DataTypes
<1>4. Holding' /\ ExitComesLater' BY <1>1, HoldingStep, ExitComesLaterStep
<1>5. Stages' /\ Listening' /\ Served' BY <1>1, StagesStep, ListeningStep, ServedStep
<1>6. OutputsAreOld' /\ OutputsInOrder' BY <1>1, OutputsAreOldStep, OutputsInOrderStep
<1>7. ExitWasSent' /\ ExitIsLast' BY <1>1, ExitWasSentStep, ExitIsLastStep
<1>8. Answers' /\ NothingAfterDetach' BY <1>1, AnswersStep, NothingAfterDetachStep
<1>9. NothingMissing' BY <1>1, <1>3, NothingMissingStep
<1> QED BY <1>2, <1>4, <1>5, <1>6, <1>7, <1>8, <1>9 DEF Inv

\* The invariant holds in every state, for any number of clients and of chunks.
THEOREM InvHolds == Spec => []Inv
  BY InitInv, InvStep, PTL DEF Spec

\* Every variable keeps its type: the count of clients its bound, a list its clients.
THEOREM TypeCorrect == Spec => []TypeOK
<1>1. Inv => TypeOK BY DEF Inv
<1> QED BY <1>1, InvHolds, PTL

\* No client is sent a chunk twice or after a later one (SessionManager::broadcastOutput).
THEOREM ChunksInOrder == Spec => []OutputsInOrder
<1>1. Inv => OutputsInOrder BY DEF Inv
<1> QED BY <1>1, InvHolds, PTL

\* No client is sent output after the exit event, nor the event twice: the read thread
\* has ended, or is in its last broadcast, when ~ConPty returns.
THEOREM ExitEndsOutput == Spec => []ExitIsLast
<1>1. Inv => ExitIsLast BY DEF Inv
<1> QED BY <1>1, InvHolds, PTL

\* No broadcast reaches a client after the answer to its detach: the listeners are
\* removed under the mutex that a broadcast holds (removeClientListeners).
THEOREM DetachEndsAll == Spec => []NothingAfterDetach
<1>1. Inv => NothingAfterDetach BY DEF Inv
<1> QED BY <1>1, InvHolds, PTL

\* Between the history of the attach response and the broadcasts no chunk is lost.
THEOREM NothingIsMissed == Spec => []NoOutputMissed
<1>1. Inv => NoOutputMissed BY DEF Inv, NothingMissing, NoOutputMissed, Complete
<1> QED BY <1>1, InvHolds, PTL

=============================================================================
