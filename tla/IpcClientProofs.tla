----------------------------- MODULE IpcClientProofs -----------------------------
(***************************************************************************)
(* What `th attach' shows is in order, for any number of requests and        *)
(* chunks, however its two threads and the daemon interleave.  The argument: *)
(* the outputs on their way are consecutive numbers; those behind the answer *)
(* to attach are not earlier than the last chunk of the history it carries,  *)
(* since at most one chunk is written and not yet broadcast; and the         *)
(* callback is set only when the history is on the screen.                   *)
(***************************************************************************)
EXTENDS IpcClient, TLAPS, SequenceTheorems

\* Where the main thread is says how many requests it has made, and which.
RequestNumbers ==
    /\ main = "connect" => id = 0 /\ command = "attach"
    /\ main = "register" =>
          \/ command = "attach" /\ id = 0
          \/ command = "input" /\ id \in 1 .. MaxRequests - 2
          \/ command = "detach" /\ id \in 1 .. MaxRequests - 1
    /\ main \in {"send", "getFuture", "wait", "cleanup"} =>
          \/ command = "attach" /\ id = 1
          \/ command = "input" /\ id \in 2 .. MaxRequests - 1
          \/ command = "detach" /\ id \in 2 .. MaxRequests
    /\ main \in {"show", "setEvent", "setDisconnect"} => command = "attach" /\ id = 1
    /\ main \in {"loop", "console"} => id \in 1 .. MaxRequests - 1

\* The read thread starts with the connection; between two messages it holds none.
ReaderHolds ==
    /\ main = "connect" => reader = "off"
    /\ reader # "handle" => message = Nothing

ThreadsInv == RequestNumbers /\ ReaderHolds /\ ReaderIsJoined /\ OnlyCurrentIsPending

-----------------------------------------------------------------------------
(* The answers and events on their way *)

\* What the client will handle, in order: the message it holds, then the pipe.
At(i) == IF i = 0 THEN message ELSE replies[i]
Places == 0 .. Len(replies)

IsOutput(m) == m.type = "output"
IsAttached(m) == m.type = "response" /\ m.id = 1 /\ m.answer = "ok"

OnTheWay == {At(i).chunk : i \in {j \in Places : IsOutput(At(j))}}

AttachOk == promise[1].answer = "ok"

\* attach is the first request, and is sent once.
AttachIsFirst ==
    /\ \A i \in 1 .. Len(requests) : requests[i].command = "attach" <=> requests[i].id = 1
    /\ \A i \in 2 .. Len(requests) : requests[i].command # "attach"

\* Whether attach is still to be sent, or still to be answered.
AttachUnsent == main \in {"connect", "register", "send"} /\ command = "attach"
AttachWaits == requests # <<>> /\ requests[1].command = "attach"

\* Before attach is sent there is no request, before it subscribes no output, and
\* before it is answered no answer.
QuietBefore ==
    /\ AttachUnsent => requests = <<>> /\ ~subscribed
    /\ AttachUnsent \/ AttachWaits =>
          /\ ~AttachOk /\ \A i \in Places : ~IsAttached(At(i))
          /\ ~subscribed => history = -1 /\ OnTheWay = {}

OutputsAscend ==
    \A i, j \in Places : i < j /\ IsOutput(At(i)) /\ IsOutput(At(j)) => At(i).chunk < At(j).chunk

\* The outputs are consecutive, and the last one is the last that was broadcast.
OutputsFollow ==
    /\ OnTheWay \subseteq 1 .. told
    /\ \A a, b \in OnTheWay : a .. b \subseteq OnTheWay
    /\ subscribed /\ OnTheWay # {} => told \in OnTheWay

\* At most one chunk is in the history and not yet broadcast.
WrittenFirst == told <= printed /\ printed <= told + 1 /\ history <= printed

\* The answer to attach carries the history, and nothing behind it is earlier than
\* the last chunk of it.
AnswerIsHistory ==
    \A i \in Places : IsAttached(At(i)) =>
        /\ history >= 0 /\ At(i).chunk = history
        /\ \A j \in Places : i < j /\ IsOutput(At(j)) => history <= At(j).chunk

PipeInv == /\ AttachIsFirst /\ QuietBefore /\ OutputsAscend /\ OutputsFollow
           /\ WrittenFirst /\ AnswerIsHistory

-----------------------------------------------------------------------------
(* The screen *)

\* Once the answer is here the outputs still to come go on from the history.
OutputsAreLater ==
    AttachOk => /\ history >= 0 /\ promise[1].chunk = history
                /\ \A n \in OnTheWay : history <= n

\* Where the main thread is before it sets the callback, and after.
Requesting == {"register", "send", "getFuture", "wait", "cleanup"}
BeforeCallback == \/ main \in {"connect", "show", "setEvent"}
                  \/ main \in Requesting /\ command = "attach"
AfterCallback == \/ main \in {"setDisconnect", "loop", "console"}
                 \/ main \in Requesting /\ command # "attach"

\* The callback is set after the answer, and nothing is shown before the answer.
CallbackAfterAnswer ==
    /\ main \in {"show", "setEvent"} \/ m_onEvent => AttachOk
    /\ BeforeCallback => ~m_onEvent
    /\ AfterCallback => m_onEvent
    /\ ~m_onEvent /\ main # "setEvent" => shown = <<>>

\* First the history, then outputs that follow each other.
HistoryThenOutputs ==
    m_onEvent \/ main = "setEvent" =>
        /\ Len(shown) >= history
        /\ main = "setEvent" => Len(shown) = history
        /\ \A i \in 1 .. history : shown[i] = i
        /\ \A i \in history + 1 .. Len(shown) : history <= shown[i]
        /\ \A i \in history + 2 .. Len(shown) : shown[i] = shown[i - 1] + 1

\* What is on its way goes on where the screen stops.
GoesOn ==
    m_onEvent /\ history < Len(shown) =>
        /\ \A n \in OnTheWay : /\ shown[Len(shown)] < n
                               /\ shown[Len(shown)] + 1 .. n \subseteq OnTheWay
        /\ subscribed /\ OnTheWay = {} => told = shown[Len(shown)]

ScreenInv == OutputsAreLater /\ CallbackAfterAnswer /\ HistoryThenOutputs /\ GoesOn

Inv == TypeOK /\ ThreadsInv /\ PipeInv /\ ScreenInv

-----------------------------------------------------------------------------
(* Types *)

\* The parts of TypeOK, which the provers take one at a time.
Flags == {m_running, m_onEvent, m_onDisconnect, exiting, up, subscribed, exited} \subseteq BOOLEAN

Labels ==
    /\ main \in MainLabels /\ reader \in ReaderLabels
    /\ command \in {"attach", "input", "detach"}
    /\ id \in Ids \cup {0} /\ m_pendingRequests \subseteq Ids

Data ==
    /\ promise \in [Ids -> Messages] /\ message \in Messages /\ replies \in Seq(Messages)
    /\ requests \in Seq([id : Ids, command : {"attach", "input", "detach"}])
    /\ history \in -1 .. MaxChunks /\ printed \in 0 .. MaxChunks /\ told \in 0 .. MaxChunks
    /\ shown \in Seq(1 .. MaxChunks)

LEMMA TypeParts == TypeOK <=> Flags /\ Labels /\ Data
  BY DEF TypeOK, Flags, Labels, Data

LEMMA MessageTypes ==
    /\ Nothing \in Messages /\ ~IsOutput(Nothing) /\ ~IsAttached(Nothing)
    /\ \A i \in Ids, n \in 0 .. MaxChunks, answer \in {"ok", "error", "rejected"} :
          Response(i, answer, n) \in Messages
    /\ \A n \in 0 .. MaxChunks, type \in {"output", "exit"} : Event(type, n) \in Messages
  BY BoundsAssumption DEF Nothing, Event, Response, Messages, IsOutput, IsAttached

\* Only the main thread moves itself, its request and the map, and sets a callback.
LEMMA OthersKeepMain ==
    ReaderStep \/ DaemonStep \/ WriteChunk \/ BroadcastChunk \/ SessionExits \/ Die
    => UNCHANGED <<main, id, command, m_pendingRequests, m_onEvent>>
<1>1. ReaderStep => UNCHANGED <<main, id, command, m_pendingRequests, m_onEvent>>
  BY DEF ReaderStep, CheckRunning, ReadPipe, HandleResponse, HandleEvent, LeaveLoop, NotifyLost,
         state, call
<1>2. DaemonStep => UNCHANGED <<main, id, command, m_pendingRequests, m_onEvent>>
  BY DEF DaemonStep, Subscribe, ReadHistory, Answer, state, call
<1>3. WriteChunk \/ BroadcastChunk \/ SessionExits \/ Die
      => UNCHANGED <<main, id, command, m_pendingRequests, m_onEvent>>
  BY DEF WriteChunk, BroadcastChunk, SessionExits, Die, state, call
<1> QED BY <1>1, <1>2, <1>3

LEMMA FlagTypes == Flags /\ [Next]_vars => Flags'
<1> USE DEF Flags, state, daemon
<1>1. Flags /\ Connect => Flags' BY DEF Connect
<1>2. Flags /\ Register => Flags' BY DEF Register
<1>3. Flags /\ SendRaw => Flags' BY DEF SendRaw
<1>4. Flags /\ GetFuture => Flags' BY DEF GetFuture
<1>5. Flags /\ FutureReady => Flags' BY DEF FutureReady
<1>6. Flags /\ Cleanup => Flags' BY DEF Cleanup
<1>7. Flags /\ Show => Flags' BY DEF Show
<1>8. Flags /\ SetEvent => Flags' BY DEF SetEvent
<1>9. Flags /\ SetDisconnect => Flags' BY DEF SetDisconnect
<1>10. Flags /\ Loop => Flags' BY DEF Loop
<1>11. Flags /\ StopRunning => Flags' BY DEF StopRunning
<1>12. Flags /\ CancelIo => Flags' BY DEF CancelIo
<1>13. Flags /\ JoinReader => Flags' BY DEF JoinReader
<1>14. Flags /\ ClosePipe => Flags' BY DEF ClosePipe
<1>15. Flags /\ TimesOut => Flags' BY DEF TimesOut
<1>16. Flags /\ ConsoleEvent => Flags' BY DEF ConsoleEvent
<1>17. Flags /\ CheckRunning => Flags' BY DEF CheckRunning
<1>18. Flags /\ ReadPipe => Flags' BY DEF ReadPipe
<1>19. Flags /\ HandleResponse => Flags' BY DEF HandleResponse
<1>20. Flags /\ HandleEvent => Flags' BY DEF HandleEvent
<1>21. Flags /\ LeaveLoop => Flags' BY DEF LeaveLoop
<1>22. Flags /\ NotifyLost => Flags' BY DEF NotifyLost
<1>23. Flags /\ Subscribe => Flags' BY DEF Subscribe
<1>24. Flags /\ ReadHistory => Flags' BY DEF ReadHistory
<1>25. Flags /\ Answer => Flags' BY DEF Answer
<1>26. Flags /\ (WriteChunk \/ BroadcastChunk) => Flags' BY DEF WriteChunk, BroadcastChunk
<1>27. Flags /\ SessionExits => Flags' BY DEF SessionExits
<1>28. Flags /\ Die => Flags' BY DEF Die
<1>29. Flags /\ UNCHANGED vars => Flags' BY DEF vars
<1> QED
  BY <1>1, <1>2, <1>3, <1>4, <1>5, <1>6, <1>7, <1>8, <1>9, <1>10, <1>11, <1>12, <1>13, <1>14,
     <1>15, <1>16, <1>17, <1>18, <1>19, <1>20, <1>21, <1>22, <1>23, <1>24, <1>25, <1>26, <1>27,
     <1>28, <1>29
  DEF Next, MainStep, ReaderStep, DaemonStep

LEMMA LabelTypes == Labels /\ RequestNumbers /\ [Next]_vars => Labels'
<1> USE DEF Labels, MainLabels, ReaderLabels, Ids, state, call
<1>1. Labels /\ Connect => Labels' BY DEF Connect
<1>2. Labels /\ RequestNumbers /\ Register => Labels'
  BY BoundsAssumption DEF Register, RequestNumbers
<1>3. Labels /\ SendRaw => Labels' BY DEF SendRaw
<1>4. Labels /\ GetFuture => Labels' BY DEF GetFuture
<1>5. Labels /\ FutureReady => Labels' BY DEF FutureReady
<1>6. Labels /\ Cleanup => Labels' BY DEF Cleanup, AfterRequest
<1>7. Labels /\ Show => Labels' BY DEF Show
<1>8. Labels /\ SetEvent => Labels' BY DEF SetEvent, GotoOrCrash
<1>9. Labels /\ SetDisconnect => Labels' BY DEF SetDisconnect, GotoOrCrash
<1>10. Labels /\ Loop => Labels' BY DEF Loop
<1>11. Labels /\ StopRunning => Labels' BY DEF StopRunning
<1>12. Labels /\ CancelIo => Labels' BY DEF CancelIo
<1>13. Labels /\ JoinReader => Labels' BY DEF JoinReader
<1>14. Labels /\ ClosePipe => Labels' BY DEF ClosePipe
<1>15. Labels /\ TimesOut => Labels' BY DEF TimesOut
<1>16. Labels /\ ConsoleEvent => Labels' BY DEF ConsoleEvent
<1>17. Labels /\ CheckRunning => Labels' BY DEF CheckRunning
<1>18. Labels /\ ReadPipe => Labels' BY DEF ReadPipe, TakeReply
<1>19. Labels /\ HandleResponse => Labels' BY DEF HandleResponse
<1>20. Labels /\ HandleEvent => Labels' BY DEF HandleEvent
<1>21. Labels /\ LeaveLoop => Labels' BY DEF LeaveLoop
<1>22. Labels /\ NotifyLost => Labels' BY DEF NotifyLost
<1>23. Labels /\ Subscribe => Labels' BY DEF Subscribe
<1>24. Labels /\ ReadHistory => Labels' BY DEF ReadHistory
<1>25. Labels /\ Answer => Labels' BY DEF Answer
<1>26. Labels /\ (WriteChunk \/ BroadcastChunk) => Labels' BY DEF WriteChunk, BroadcastChunk
<1>27. Labels /\ SessionExits => Labels' BY DEF SessionExits
<1>28. Labels /\ Die => Labels' BY DEF Die
<1>29. Labels /\ UNCHANGED vars => Labels' BY DEF vars
<1> QED
  BY <1>1, <1>2, <1>3, <1>4, <1>5, <1>6, <1>7, <1>8, <1>9, <1>10, <1>11, <1>12, <1>13, <1>14,
     <1>15, <1>16, <1>17, <1>18, <1>19, <1>20, <1>21, <1>22, <1>23, <1>24, <1>25, <1>26, <1>27,
     <1>28, <1>29
  DEF Next, MainStep, ReaderStep, DaemonStep

LEMMA DataTypes ==
    Data /\ Labels /\ RequestNumbers /\ OutputsFollow /\ WrittenFirst /\ [Next]_vars => Data'
<1> USE DEF Data
<1>1. /\ Data
      /\ UNCHANGED <<promise, message, replies, requests, history, printed, told, shown>>
      => Data'
  OBVIOUS
<1>2. Connect \/ Register \/ GetFuture \/ FutureReady \/ Cleanup \/ SetEvent
      \/ SetDisconnect \/ Loop \/ StopRunning \/ CancelIo \/ JoinReader \/ TimesOut
      \/ ConsoleEvent \/ CheckRunning \/ LeaveLoop \/ NotifyLost \/ Subscribe \/ UNCHANGED vars
      => UNCHANGED <<promise, message, replies, requests, history, printed, told, shown>>
  BY DEF Connect, Register, GetFuture, FutureReady, Cleanup, SetEvent, SetDisconnect, Loop,
         StopRunning, CancelIo, JoinReader, TimesOut, ConsoleEvent, CheckRunning, LeaveLoop,
         NotifyLost, Subscribe, state, pipe, daemon, vars
<1>3. Data /\ Labels /\ RequestNumbers /\ SendRaw => Data'
  <2> SUFFICES ASSUME Data, Labels, RequestNumbers, SendRaw PROVE Data'
    OBVIOUS
  <2>1. [id |-> id, command |-> command] \in [id : Ids, command : {"attach", "input", "detach"}]
    BY BoundsAssumption DEF SendRaw, Labels, RequestNumbers, Ids
  <2>2. requests' \in Seq([id : Ids, command : {"attach", "input", "detach"}])
    BY <2>1, AppendProperties DEF SendRaw
  <2>3. UNCHANGED <<promise, message, replies, history, printed, told, shown>>
    BY DEF SendRaw, state, daemon
  <2> QED BY <2>2, <2>3
<1>4. Data /\ Labels /\ RequestNumbers /\ Show => Data'
  <2> SUFFICES ASSUME Data, RequestNumbers, Show PROVE Data'
    OBVIOUS
  <2>1. promise[id].chunk \in 0 .. MaxChunks
    BY BoundsAssumption DEF Show, RequestNumbers, Ids, Messages
  <2>2. [i \in 1 .. promise[id].chunk |-> i] \in Seq(1 .. MaxChunks)
    BY <2>1, BoundsAssumption
  <2> QED BY <2>2, ConcatProperties DEF Show, state, pipe, daemon
<1>5. Data /\ Labels /\ ClosePipe => Data'
  BY MessageTypes, BoundsAssumption DEF ClosePipe, pipe, daemon
<1>6. Data /\ ReadPipe => Data'
  BY HeadTailProperties DEF ReadPipe, TakeReply, state, daemon
<1>7. Data /\ HandleResponse => Data'
  BY MessageTypes DEF HandleResponse, pipe, daemon
<1>8. Data /\ OutputsFollow /\ HandleEvent => Data'
  <2> SUFFICES ASSUME Data, OutputsFollow, HandleEvent PROVE Data'
    OBVIOUS
  <2>1. IsOutput(message) => message.chunk \in 1 .. MaxChunks
    <3>1. 0 \in Places /\ At(0) = message BY DEF Places, At
    <3>2. IsOutput(message) => message.chunk \in OnTheWay BY <3>1 DEF OnTheWay
    <3>3. \A n \in OnTheWay : n \in 1 .. told BY DEF OutputsFollow
    <3>4. 1 .. told \subseteq 1 .. MaxChunks BY BoundsAssumption
    <3> QED BY <3>2, <3>3, <3>4
  <2>2. shown' \in Seq(1 .. MaxChunks)
    BY <2>1, AppendProperties DEF HandleEvent, IsOutput
  <2>3. UNCHANGED <<promise, replies, requests, history, printed, told>> /\ message' = Nothing
    BY DEF HandleEvent, pipe, daemon
  <2> QED BY <2>2, <2>3, MessageTypes
<1>9. Data /\ ReadHistory => Data'
  BY BoundsAssumption DEF ReadHistory, state, pipe
<1>10. Data /\ Answer => Data'
  <2> SUFFICES ASSUME Data, Answer PROVE Data'
    OBVIOUS
  <2>1. requests # <<>> /\ requests' = Tail(requests) BY DEF Answer, Asked, Reply
  <2>2. Head(requests).id \in Ids
    <3>1. Head(requests) \in [id : Ids, command : {"attach", "input", "detach"}]
      BY <2>1, HeadTailProperties
    <3> QED BY <3>1
  <2>3. \E answer \in {"ok", "error"}, n \in 0 .. MaxChunks :
           replies' = Append(replies, Response(Head(requests).id, answer, n))
    <3>1. 0 \in 0 .. MaxChunks /\ (history # -1 => history \in 0 .. MaxChunks)
      BY BoundsAssumption
    <3>2. \/ history # -1 /\ replies' = Append(replies, Response(Head(requests).id, "ok", history))
          \/ replies' = Append(replies, Response(Head(requests).id, "error", 0))
          \/ replies' = Append(replies, Response(Head(requests).id, "ok", 0))
      BY DEF Answer, Reply
    <3> QED BY <3>1, <3>2
  <2>4. replies' \in Seq(Messages) BY <2>2, <2>3, MessageTypes, AppendProperties
  <2>5. requests' \in Seq([id : Ids, command : {"attach", "input", "detach"}])
    BY <2>1, HeadTailProperties
  <2>6. UNCHANGED <<promise, message, history, printed, told, shown>> BY DEF Answer, state
  <2> QED BY <2>4, <2>5, <2>6
<1>11. Data /\ WriteChunk => Data'
  BY BoundsAssumption DEF WriteChunk, state, pipe
<1>12. Data /\ OutputsFollow /\ WrittenFirst /\ BroadcastChunk => Data'
  BY MessageTypes, BoundsAssumption DEF BroadcastChunk, WrittenFirst, Send, state
<1>13. Data /\ SessionExits => Data'
  BY MessageTypes, BoundsAssumption DEF SessionExits, Send, state
<1>14. Data /\ Die => Data'
  BY DEF Die, state
<1> QED
  BY <1>1, <1>2, <1>3, <1>4, <1>5, <1>6, <1>7, <1>8, <1>9, <1>10, <1>11, <1>12, <1>13,
     <1>14
  DEF Next, MainStep, ReaderStep, DaemonStep

LEMMA TypeStep == TypeOK /\ RequestNumbers /\ OutputsFollow /\ WrittenFirst /\ [Next]_vars => TypeOK'
<1>1. Flags' /\ Labels' /\ Data' => TypeOK' BY DEF TypeOK, Flags, Labels, Data
<1> QED BY <1>1, TypeParts, FlagTypes, LabelTypes, DataTypes

-----------------------------------------------------------------------------
(* The threads and the requests *)

LEMMA ThreadsStep == Labels /\ ThreadsInv /\ [Next]_vars => ThreadsInv'
<1> USE DEF state, call
<1>1. Labels /\ ThreadsInv /\ [Next]_vars => RequestNumbers'
  <2> SUFFICES ASSUME Labels, RequestNumbers, [Next]_vars PROVE RequestNumbers'
    BY DEF ThreadsInv
  <2> USE BoundsAssumption DEF RequestNumbers, Labels, Ids
  <2>1. CASE Connect \/ Register \/ SendRaw \/ GetFuture \/ FutureReady \/ TimesOut
    BY <2>1 DEF Connect, Register, SendRaw, GetFuture, FutureReady, Answered, TimesOut
  <2>2. CASE Cleanup
    BY <2>2 DEF Cleanup, AfterRequest
  <2>3. CASE Show \/ SetEvent \/ SetDisconnect \/ Loop
    BY <2>3 DEF Show, SetEvent, SetDisconnect, GotoOrCrash, Loop
  <2>4. CASE ConsoleEvent
    BY <2>4 DEF ConsoleEvent
  <2>5. CASE StopRunning \/ CancelIo \/ JoinReader \/ ClosePipe
    BY <2>5 DEF StopRunning, CancelIo, JoinReader, ClosePipe
  <2>6. CASE ReaderStep \/ DaemonStep \/ WriteChunk \/ BroadcastChunk \/ SessionExits \/ Die \/ UNCHANGED vars
    <3>1. UNCHANGED <<main, id, command>> BY <2>6, OthersKeepMain DEF vars
    <3> QED BY <3>1
  <2> QED BY <2>1, <2>2, <2>3, <2>4, <2>5, <2>6 DEF Next, MainStep
<1>2. Labels /\ ThreadsInv /\ [Next]_vars => OnlyCurrentIsPending'
  <2> SUFFICES ASSUME Labels, RequestNumbers, OnlyCurrentIsPending, [Next]_vars
               PROVE OnlyCurrentIsPending'
    BY DEF ThreadsInv
  <2> USE DEF OnlyCurrentIsPending
  <2>1. CASE Connect \/ Register \/ SendRaw \/ GetFuture \/ FutureReady \/ TimesOut
    BY <2>1 DEF Connect, Register, SendRaw, GetFuture, FutureReady, Answered, TimesOut
  <2>2. CASE Cleanup
    <3>1. main' \in {"show", "loop", "console", "disconnect"}
      BY <2>2 DEF Cleanup, AfterRequest, Labels
    <3> QED BY <2>2, <3>1 DEF Cleanup
  <2>3. CASE Show \/ SetEvent \/ SetDisconnect \/ Loop
    BY <2>3 DEF Show, SetEvent, SetDisconnect, GotoOrCrash, Loop
  <2>4. CASE ConsoleEvent
    BY <2>4 DEF ConsoleEvent
  <2>5. CASE StopRunning \/ CancelIo \/ JoinReader \/ ClosePipe
    BY <2>5 DEF StopRunning, CancelIo, JoinReader, ClosePipe
  <2>6. CASE ReaderStep \/ DaemonStep \/ WriteChunk \/ BroadcastChunk \/ SessionExits \/ Die \/ UNCHANGED vars
    <3>1. UNCHANGED <<main, id, m_pendingRequests>> BY <2>6, OthersKeepMain DEF vars
    <3> QED BY <3>1
  <2> QED BY <2>1, <2>2, <2>3, <2>4, <2>5, <2>6 DEF Next, MainStep
<1>3. Labels /\ ThreadsInv /\ [Next]_vars => ReaderHolds' /\ ReaderIsJoined'
  <2> SUFFICES ASSUME Labels, ReaderHolds, ReaderIsJoined, [Next]_vars
               PROVE ReaderHolds' /\ ReaderIsJoined'
    BY DEF ThreadsInv
  <2> USE DEF ReaderHolds, ReaderIsJoined
  <2>1. CASE Connect \/ Register \/ SendRaw \/ GetFuture \/ FutureReady \/ TimesOut
    BY <2>1 DEF Connect, Register, SendRaw, GetFuture, FutureReady, Answered, TimesOut
  <2>2. CASE Cleanup
    <3>1. main' \in {"show", "loop", "console", "disconnect"}
      BY <2>2 DEF Cleanup, AfterRequest, Labels
    <3> QED BY <2>2, <3>1 DEF Cleanup
  <2>3. CASE Show \/ SetEvent \/ SetDisconnect \/ Loop
    BY <2>3 DEF Show, SetEvent, SetDisconnect, GotoOrCrash, Loop
  <2>4. CASE ConsoleEvent
    BY <2>4 DEF ConsoleEvent
  <2>5. CASE StopRunning \/ CancelIo \/ JoinReader \/ ClosePipe
    BY <2>5 DEF StopRunning, CancelIo, JoinReader, ClosePipe
  <2>6. CASE ReaderStep
    <3>1. reader \notin {"off", "ended"}
          /\ (reader' # "handle" => message' = Nothing)
      BY <2>6 DEF ReaderStep, CheckRunning, ReadPipe, TakeReply, HandleResponse, HandleEvent,
                  LeaveLoop, NotifyLost
    <3> QED BY <2>6, <3>1, OthersKeepMain
  <2>7. CASE DaemonStep \/ WriteChunk \/ BroadcastChunk \/ SessionExits \/ Die \/ UNCHANGED vars
    <3>1. UNCHANGED <<reader, message>>
      BY <2>7 DEF DaemonStep, Subscribe, ReadHistory, Answer, WriteChunk, BroadcastChunk,
                  SessionExits, Die, vars
    <3> QED BY <2>7, <3>1, OthersKeepMain DEF vars
  <2> QED BY <2>1, <2>2, <2>3, <2>4, <2>5, <2>6, <2>7 DEF Next, MainStep
<1> QED BY <1>1, <1>2, <1>3 DEF ThreadsInv

-----------------------------------------------------------------------------
(* What each step does to the messages on their way *)

\* Taking a message from the pipe moves everything one place on.
LEMMA TakenMovesOn ==
    Data /\ message = Nothing /\ TakeReply =>
        /\ Len(replies') = Len(replies) - 1 /\ Len(replies) \in Nat
        /\ \A i \in 0 .. Len(replies) - 1 : At(i)' = At(i + 1)
        /\ OnTheWay' = OnTheWay
<1> SUFFICES ASSUME Data, message = Nothing, TakeReply
             PROVE /\ Len(replies') = Len(replies) - 1 /\ Len(replies) \in Nat
                   /\ \A i \in 0 .. Len(replies) - 1 : At(i)' = At(i + 1)
                   /\ OnTheWay' = OnTheWay
  OBVIOUS
<1>1. /\ Len(replies) \in Nat \ {0} /\ Len(replies') = Len(replies) - 1
      /\ \A i \in 1 .. Len(replies) - 1 : replies'[i] = replies[i + 1]
      /\ message' = replies[1]
  BY HeadTailProperties DEF TakeReply, Data
<1>2. \A i \in 0 .. Len(replies) - 1 : At(i)' = At(i + 1)
  BY <1>1 DEF At
<1>3. ~IsOutput(At(0)) BY MessageTypes DEF At
<1>4. \A i \in Places : IsOutput(At(i)) => i - 1 \in Places' /\ At(i - 1)' = At(i)
  BY <1>1, <1>2, <1>3 DEF Places
<1>5. \A i \in Places' : i + 1 \in Places /\ At(i)' = At(i + 1)
  BY <1>1, <1>2 DEF Places
<1>6. OnTheWay' = {At(i)'.chunk : i \in {j \in Places' : IsOutput(At(j)')}}
  BY DEF OnTheWay, IsOutput
<1>7. ASSUME NEW n PROVE n \in OnTheWay <=> n \in OnTheWay'
  <2>1. ASSUME n \in OnTheWay PROVE n \in OnTheWay'
    <3>1. PICK i \in Places : IsOutput(At(i)) /\ n = At(i).chunk BY <2>1 DEF OnTheWay
    <3>2. i - 1 \in Places' /\ At(i - 1)' = At(i) BY <1>4, <3>1
    <3> QED BY <1>6, <3>1, <3>2
  <2>2. ASSUME n \in OnTheWay' PROVE n \in OnTheWay
    <3>1. PICK i \in Places' : IsOutput(At(i)') /\ n = At(i)'.chunk BY <1>6, <2>2
    <3>2. i + 1 \in Places /\ At(i)' = At(i + 1) BY <1>5, <3>1
    <3> QED BY <3>1, <3>2 DEF OnTheWay
  <2> QED BY <2>1, <2>2
<1> QED BY <1>1, <1>2, <1>7

\* Handling a message removes it, and an output that is handled is the least.
LEMMA HandledIsFirst ==
    Data /\ OutputsAscend /\ message' = Nothing /\ UNCHANGED replies =>
        IF IsOutput(message)
        THEN /\ message.chunk \in OnTheWay /\ OnTheWay' = OnTheWay \ {message.chunk}
             /\ \A n \in OnTheWay' : message.chunk < n
        ELSE OnTheWay' = OnTheWay
<1> SUFFICES ASSUME Data, OutputsAscend, message' = Nothing, UNCHANGED replies
             PROVE IF IsOutput(message)
                   THEN /\ message.chunk \in OnTheWay /\ OnTheWay' = OnTheWay \ {message.chunk}
                        /\ \A n \in OnTheWay' : message.chunk < n
                   ELSE OnTheWay' = OnTheWay
  OBVIOUS
<1>1. /\ Places' = Places /\ 0 \in Places /\ At(0) = message /\ ~IsOutput(At(0)')
      /\ \A i \in Places \ {0} : At(i)' = At(i)
  BY MessageTypes DEF Data, Places, At
<1>2. OnTheWay' = {At(i).chunk : i \in {j \in Places \ {0} : IsOutput(At(j))}}
  <2>1. OnTheWay' = {At(i)'.chunk : i \in {j \in Places' : IsOutput(At(j)')}}
    BY DEF OnTheWay, IsOutput
  <2> QED BY <1>1, <2>1
<1>3. \A i \in Places : IsOutput(At(i)) => At(i).chunk \in 0 .. MaxChunks
  <2>1. \A i \in Places : At(i) \in Messages BY ElementOfSeq DEF Data, Places, At
  <2> QED BY <2>1 DEF Messages
<1>4. IsOutput(message) => \A n \in OnTheWay' : message.chunk < n
  <2> SUFFICES ASSUME IsOutput(message), NEW i \in Places \ {0}, IsOutput(At(i))
               PROVE message.chunk < At(i).chunk
    BY <1>2
  <2>1. 0 < i BY DEF Places
  <2> QED BY <1>1, <2>1 DEF OutputsAscend
<1>5. IsOutput(message) => message.chunk \notin OnTheWay'
  BY <1>1, <1>3, <1>4
<1>6. OnTheWay = OnTheWay' \cup (IF IsOutput(message) THEN {message.chunk} ELSE {})
  BY <1>1, <1>2 DEF OnTheWay
<1> QED BY <1>4, <1>5, <1>6

\* What is sent comes last.
LEMMA SentIsLast ==
    \A m \in Messages : Data /\ replies' = Append(replies, m) /\ UNCHANGED message =>
        /\ Len(replies') = Len(replies) + 1 /\ Len(replies) \in Nat
        /\ \A i \in Places : At(i)' = At(i)
        /\ \A k \in Nat : k = Len(replies) + 1 => At(k)' = m
        /\ OnTheWay' = OnTheWay \cup (IF IsOutput(m) THEN {m.chunk} ELSE {})
<1> SUFFICES ASSUME NEW m \in Messages, Data, replies' = Append(replies, m), UNCHANGED message
             PROVE /\ Len(replies') = Len(replies) + 1 /\ Len(replies) \in Nat
                   /\ \A i \in Places : At(i)' = At(i)
                   /\ \A k \in Nat : k = Len(replies) + 1 => At(k)' = m
                   /\ OnTheWay' = OnTheWay \cup (IF IsOutput(m) THEN {m.chunk} ELSE {})
  OBVIOUS
<1>1. /\ Len(replies') = Len(replies) + 1 /\ Len(replies) \in Nat
      /\ \A i \in 1 .. Len(replies) : replies'[i] = replies[i]
      /\ replies'[Len(replies) + 1] = m
  BY AppendProperties DEF Data
<1>2. \A i \in Places : At(i)' = At(i) BY <1>1 DEF At, Places
<1>3. \A k \in Nat : k = Len(replies) + 1 => At(k)' = m BY <1>1 DEF At
<1>4. Places' = Places \cup {Len(replies) + 1} BY <1>1 DEF Places
<1>5. OnTheWay' = {At(i)'.chunk : i \in {j \in Places' : IsOutput(At(j)')}}
  BY DEF OnTheWay, IsOutput
<1>6. ASSUME NEW n PROVE n \in OnTheWay' <=> n \in OnTheWay \/ (IsOutput(m) /\ n = m.chunk)
  <2>1. n \in OnTheWay' <=> \E i \in Places' : IsOutput(At(i)') /\ n = At(i)'.chunk BY <1>5
  <2>2. n \in OnTheWay <=> \E i \in Places : IsOutput(At(i)) /\ n = At(i).chunk
    BY DEF OnTheWay
  <2> QED BY <1>2, <1>3, <1>4, <2>1, <2>2
<1> QED BY <1>1, <1>2, <1>3, <1>6

-----------------------------------------------------------------------------
(* What is on its way stays in order *)

LEMMA OutputIsOnTheWay == \A i \in Places : IsOutput(At(i)) => At(i).chunk \in OnTheWay
  BY DEF OnTheWay

\* A step that touches neither the pipe nor what it depends on.
Calm == /\ UNCHANGED <<message, replies, requests, subscribed, history, told>>
        /\ printed' = printed \/ (told = printed /\ printed' = printed + 1)
        /\ promise' = promise /\ (AttachUnsent' => AttachUnsent)

LEMMA CalmPipe == Data /\ PipeInv /\ Calm => PipeInv'
<1> SUFFICES ASSUME Data, PipeInv, Calm PROVE PipeInv'
  OBVIOUS
<1>1. /\ \A i : At(i)' = At(i)
      /\ Places' = Places /\ OnTheWay' = OnTheWay /\ (AttachOk' <=> AttachOk)
      /\ (AttachWaits' <=> AttachWaits)
  BY DEF Calm, At, Places, OnTheWay, AttachOk, AttachWaits
<1>2. AttachIsFirst' BY DEF PipeInv, AttachIsFirst, Calm
<1>3. QuietBefore'
  <2>1. /\ AttachUnsent' => AttachUnsent
        /\ UNCHANGED <<requests, subscribed, history>>
    BY DEF Calm
  <2>2. \A i \in Places' : ~IsAttached(At(i)) => ~IsAttached(At(i)') BY <1>1
  <2> QED BY <1>1, <2>1, <2>2 DEF PipeInv, QuietBefore, IsAttached
<1>4. OutputsAscend' BY <1>1 DEF PipeInv, OutputsAscend, IsOutput
<1>5. OutputsFollow' BY <1>1 DEF PipeInv, OutputsFollow, Calm
<1>6. WrittenFirst' BY DEF PipeInv, WrittenFirst, Calm, Data
<1>7. AnswerIsHistory' BY <1>1 DEF PipeInv, AnswerIsHistory, IsOutput, IsAttached, Calm
<1> QED BY <1>2, <1>3, <1>4, <1>5, <1>6, <1>7 DEF PipeInv

\* The steps that are calm.
LEMMA MainIsCalm ==
    /\ OnlyCurrentIsPending /\ Data
    /\ \/ Connect \/ Register \/ GetFuture \/ FutureReady \/ TimesOut \/ Cleanup \/ Show
       \/ SetEvent \/ SetDisconnect \/ Loop \/ ConsoleEvent \/ StopRunning \/ CancelIo
       \/ JoinReader \/ ClosePipe
    => Calm
<1> USE DEF Calm, AttachUnsent, state, call, pipe, daemon
<1>1. Connect => Calm BY DEF Connect
<1>2. Register => Calm BY DEF Register
<1>3. GetFuture \/ FutureReady \/ TimesOut => Calm BY DEF GetFuture, FutureReady, TimesOut
<1>4. Cleanup => Calm
  <2>1. Cleanup /\ AttachUnsent' => main' \in {"connect", "register", "send"} BY DEF AttachUnsent
  <2>2. Cleanup /\ command = "attach" => main' \in {"show", "disconnect"}
    BY DEF Cleanup, AfterRequest
  <2> QED BY <2>1, <2>2 DEF Cleanup
<1>5. Show \/ SetEvent \/ SetDisconnect => Calm
  BY DEF Show, SetEvent, SetDisconnect, GotoOrCrash
<1>6. Loop \/ ConsoleEvent => Calm BY DEF Loop, ConsoleEvent
<1>7. StopRunning \/ CancelIo \/ JoinReader => Calm BY DEF StopRunning, CancelIo, JoinReader
<1>8. OnlyCurrentIsPending /\ Data /\ ClosePipe => Calm
  <2> SUFFICES ASSUME OnlyCurrentIsPending, Data, ClosePipe PROVE Calm
    OBVIOUS
  <2>1. m_pendingRequests = {} BY DEF OnlyCurrentIsPending, ClosePipe
  <2>2. promise' = promise BY <2>1 DEF ClosePipe, Data
  <2> QED BY <2>2 DEF ClosePipe
<1> QED BY <1>1, <1>2, <1>3, <1>4, <1>5, <1>6, <1>7, <1>8

LEMMA ReaderIsCalm ==
    \/ CheckRunning \/ LeaveLoop \/ NotifyLost \/ UNCHANGED vars \/ (ReadPipe /\ ~TakeReply)
    \/ WriteChunk
    => Calm
<1> USE DEF Calm, AttachUnsent, state, call, pipe, daemon, vars
<1>1. CheckRunning \/ LeaveLoop \/ NotifyLost \/ UNCHANGED vars => Calm
  BY DEF CheckRunning, LeaveLoop, NotifyLost
<1>2. ReadPipe /\ ~TakeReply => Calm BY DEF ReadPipe
<1>3. WriteChunk => Calm BY DEF WriteChunk
<1> QED BY <1>1, <1>2, <1>3

LEMMA SendRawPipe == Data /\ ThreadsInv /\ PipeInv /\ SendRaw => PipeInv'
<1> SUFFICES ASSUME Data, ThreadsInv, PipeInv, SendRaw PROVE PipeInv'
  OBVIOUS
<1>1. /\ UNCHANGED <<message, replies, promise, subscribed, history, printed, told, command>>
      /\ main = "send" /\ main' = "getFuture"
  BY DEF SendRaw, state, call, daemon
<1>2. /\ \A i : At(i)' = At(i)
      /\ Places' = Places /\ OnTheWay' = OnTheWay /\ (AttachOk' <=> AttachOk)
  BY <1>1 DEF At, Places, OnTheWay, AttachOk
<1>3. command = "attach" <=> id = 1
  BY <1>1, BoundsAssumption DEF ThreadsInv, RequestNumbers
<1>4. command = "attach" => requests = <<>>
  BY <1>1 DEF PipeInv, QuietBefore, AttachUnsent
<1>5. CASE requests' = requests
  <2>1. Calm BY <1>1, <1>5 DEF Calm, AttachUnsent
  <2> QED BY <2>1, CalmPipe
<1>6. CASE requests' = Append(requests, [id |-> id, command |-> command])
  <2>1. /\ Len(requests) \in Nat /\ Len(requests') = Len(requests) + 1
        /\ \A i \in 1 .. Len(requests) : requests'[i] = requests[i]
        /\ requests'[Len(requests) + 1] = [id |-> id, command |-> command]
    BY <1>6 DEF Data
  <2>2. AttachIsFirst'
    BY <1>3, <1>4, <2>1 DEF PipeInv, AttachIsFirst
  <2>3. AttachWaits' => AttachWaits \/ AttachUnsent
    <3>1. CASE requests = <<>> BY <1>1, <2>1, <3>1 DEF AttachWaits, AttachUnsent
    <3>2. CASE requests # <<>>
      <4>1. 1 \in 1 .. Len(requests) BY <2>1, <3>2 DEF Data
      <4> QED BY <2>1, <3>2, <4>1 DEF AttachWaits
    <3> QED BY <3>1, <3>2
  <2>4. ~AttachUnsent' BY <1>1 DEF AttachUnsent
  <2>5. QuietBefore'
    BY <1>1, <1>2, <2>3, <2>4 DEF PipeInv, QuietBefore, IsAttached
  <2>6. OutputsAscend' BY <1>2 DEF PipeInv, OutputsAscend, IsOutput
  <2>7. OutputsFollow' BY <1>1, <1>2 DEF PipeInv, OutputsFollow
  <2>8. AnswerIsHistory' BY <1>1, <1>2 DEF PipeInv, AnswerIsHistory, IsOutput, IsAttached
  <2>9. WrittenFirst' BY <1>1 DEF PipeInv, WrittenFirst
  <2> QED BY <2>2, <2>5, <2>6, <2>7, <2>8, <2>9 DEF PipeInv
<1> QED BY <1>5, <1>6 DEF SendRaw

LEMMA TakePipe == Data /\ ThreadsInv /\ PipeInv /\ ReadPipe /\ TakeReply => PipeInv'
<1> SUFFICES ASSUME Data, ThreadsInv, PipeInv, ReadPipe, TakeReply PROVE PipeInv'
  OBVIOUS
<1>1. UNCHANGED <<promise, requests, subscribed, history, printed, told, main, command>>
  BY DEF ReadPipe, state, call, daemon
<1>2. message = Nothing BY DEF ReadPipe, ThreadsInv, ReaderHolds
<1>3. /\ Len(replies') = Len(replies) - 1 /\ Len(replies) \in Nat
      /\ \A i \in 0 .. Len(replies) - 1 : At(i)' = At(i + 1)
      /\ OnTheWay' = OnTheWay
  BY <1>2, TakenMovesOn
<1>4. \A i \in Places' : i + 1 \in Places /\ At(i)' = At(i + 1)
  BY <1>3 DEF Places
<1>5. (AttachOk' <=> AttachOk) /\ (AttachWaits' <=> AttachWaits) /\ (AttachUnsent' <=> AttachUnsent)
  BY <1>1 DEF AttachOk, AttachWaits, AttachUnsent
<1>6. AttachIsFirst' BY <1>1 DEF PipeInv, AttachIsFirst
<1>7. QuietBefore'
  BY <1>1, <1>3, <1>4, <1>5 DEF PipeInv, QuietBefore, IsAttached
<1>8. OutputsAscend'
  <2> SUFFICES ASSUME NEW i \in Places', NEW j \in Places', i < j, IsOutput(At(i)'),
                      IsOutput(At(j)')
               PROVE At(i)'.chunk < At(j)'.chunk
    BY DEF OutputsAscend, IsOutput
  <2>1. i + 1 < j + 1 BY DEF Places
  <2> QED BY <1>4, <2>1 DEF PipeInv, OutputsAscend
<1>9. OutputsFollow' BY <1>1, <1>3 DEF PipeInv, OutputsFollow
<1>10. AnswerIsHistory'
  <2> SUFFICES ASSUME NEW i \in Places', IsAttached(At(i)')
               PROVE /\ history >= 0 /\ At(i)'.chunk = history
                     /\ \A j \in Places' : i < j /\ IsOutput(At(j)') => history <= At(j)'.chunk
    BY <1>1 DEF PipeInv, AnswerIsHistory, IsAttached, IsOutput
  <2>1. \A j \in Places' : i < j => i + 1 < j + 1 BY DEF Places
  <2> QED BY <1>4, <2>1 DEF PipeInv, AnswerIsHistory
<1>11. WrittenFirst' BY <1>1 DEF PipeInv, WrittenFirst
<1> QED BY <1>6, <1>7, <1>8, <1>9, <1>10, <1>11 DEF PipeInv

LEMMA HandlePipe ==
    Data /\ PipeInv /\ (HandleResponse \/ HandleEvent) => PipeInv'
<1> SUFFICES ASSUME Data, PipeInv, HandleResponse \/ HandleEvent PROVE PipeInv'
  OBVIOUS
<1>1. /\ message' = Nothing
      /\ UNCHANGED <<replies, requests, subscribed, history, printed, told, main, command>>
  BY DEF HandleResponse, HandleEvent, call, pipe, daemon
<1>2. AttachOk' => AttachOk \/ IsAttached(message)
  <2>1. HandleEvent => promise' = promise BY DEF HandleEvent
  <2>2. HandleResponse => promise'[1] \in {promise[1], message} /\ message.type = "response"
    BY DEF HandleResponse, Data
  <2>3. HandleResponse /\ message.id # 1 => promise'[1] = promise[1]
    BY DEF HandleResponse, Data
  <2> QED BY <2>1, <2>2, <2>3 DEF AttachOk, IsAttached
<1>3. /\ Places' = Places /\ 0 \in Places /\ At(0) = message /\ At(0)' = Nothing
      /\ \A i \in Places \ {0} : At(i)' = At(i)
  BY <1>1 DEF Data, Places, At
<1>4. \A i \in Places' : IsOutput(At(i)') \/ IsAttached(At(i)') => i # 0
  BY <1>3, MessageTypes
<1>5. (AttachWaits' <=> AttachWaits) /\ (AttachUnsent' <=> AttachUnsent)
  BY <1>1 DEF AttachWaits, AttachUnsent
<1>6. IF IsOutput(message)
      THEN /\ message.chunk \in OnTheWay /\ OnTheWay' = OnTheWay \ {message.chunk}
           /\ \A n \in OnTheWay' : message.chunk < n
      ELSE OnTheWay' = OnTheWay
  BY <1>1, HandledIsFirst DEF PipeInv
<1>7. AttachIsFirst' BY <1>1 DEF PipeInv, AttachIsFirst
<1>8. QuietBefore'
  <2>1. AttachUnsent \/ AttachWaits => ~AttachOk'
    BY <1>2, <1>3 DEF PipeInv, QuietBefore
  <2>2. AttachUnsent \/ AttachWaits => \A i \in Places' : ~IsAttached(At(i)')
    BY <1>3, <1>4 DEF PipeInv, QuietBefore
  <2>3. OnTheWay = {} => OnTheWay' = {} BY <1>6
  <2> QED BY <1>1, <1>5, <2>1, <2>2, <2>3 DEF PipeInv, QuietBefore, IsAttached
<1>9. OutputsAscend' BY <1>3, <1>4 DEF PipeInv, OutputsAscend, IsOutput
<1>10. OutputsFollow'
  <2>1. OnTheWay \subseteq Int BY DEF PipeInv, OutputsFollow
  <2>2. CASE IsOutput(message)
    <3>1. ASSUME NEW a \in OnTheWay', NEW b \in OnTheWay' PROVE a .. b \subseteq OnTheWay'
      <4>1. a \in Int /\ b \in Int /\ message.chunk \in Int /\ message.chunk < a
        BY <1>6, <2>1, <2>2
      <4>2. a .. b \subseteq OnTheWay BY <1>6, <2>2 DEF PipeInv, OutputsFollow
      <4>3. message.chunk \notin a .. b BY <4>1
      <4> QED BY <1>6, <2>2, <4>2, <4>3
    <3>2. ASSUME subscribed, NEW a \in OnTheWay' PROVE told \in OnTheWay'
      <4>1. a \in 1 .. told /\ message.chunk \in Int /\ message.chunk < a
        BY <1>6, <2>1, <2>2 DEF PipeInv, OutputsFollow
      <4>2. told \in OnTheWay BY <1>6, <2>2, <3>2 DEF PipeInv, OutputsFollow
      <4> QED BY <1>6, <2>1, <2>2, <4>1, <4>2
    <3>3. OnTheWay' \subseteq 1 .. told BY <1>6, <2>2 DEF PipeInv, OutputsFollow
    <3> QED BY <1>1, <3>1, <3>2, <3>3 DEF OutputsFollow
  <2>3. CASE ~IsOutput(message) BY <1>1, <1>6, <2>3 DEF PipeInv, OutputsFollow
  <2> QED BY <2>2, <2>3
<1>11. AnswerIsHistory'
  <2> SUFFICES ASSUME NEW i \in Places', IsAttached(At(i)')
               PROVE /\ history >= 0 /\ At(i)'.chunk = history
                     /\ \A j \in Places' : i < j /\ IsOutput(At(j)') => history <= At(j)'.chunk
    BY <1>1 DEF PipeInv, AnswerIsHistory, IsAttached, IsOutput
  <2> QED BY <1>3, <1>4 DEF PipeInv, AnswerIsHistory
<1>12. WrittenFirst' BY <1>1 DEF PipeInv, WrittenFirst
<1> QED BY <1>7, <1>8, <1>9, <1>10, <1>11, <1>12 DEF PipeInv

LEMMA SubscribePipe == PipeInv /\ Subscribe => PipeInv'
<1> SUFFICES ASSUME PipeInv, Subscribe PROVE PipeInv'
  OBVIOUS
<1>1. UNCHANGED <<message, replies, requests, promise, history, printed, told, main, command>>
  BY DEF Subscribe, state, call, pipe
<1>2. requests # <<>> /\ Head(requests).command = "attach" /\ ~subscribed /\ subscribed'
  BY DEF Subscribe, Asked
<1>3. AttachWaits /\ ~AttachUnsent
  BY <1>2 DEF AttachWaits, PipeInv, QuietBefore
<1>4. OnTheWay = {} BY <1>2, <1>3 DEF PipeInv, QuietBefore
<1>5. /\ \A i : At(i)' = At(i)
      /\ Places' = Places /\ OnTheWay' = OnTheWay /\ (AttachOk' <=> AttachOk)
      /\ ~AttachUnsent'
  BY <1>1, <1>3 DEF At, Places, OnTheWay, AttachOk, AttachUnsent
<1>6. AttachIsFirst' BY <1>1 DEF PipeInv, AttachIsFirst
<1>7. QuietBefore' BY <1>2, <1>3, <1>5 DEF PipeInv, QuietBefore, IsAttached
<1>8. OutputsAscend' BY <1>5 DEF PipeInv, OutputsAscend, IsOutput
<1>9. OutputsFollow' BY <1>4, <1>5 DEF OutputsFollow
<1>10. AnswerIsHistory' BY <1>1, <1>5 DEF PipeInv, AnswerIsHistory, IsOutput, IsAttached
<1>11. WrittenFirst' BY <1>1 DEF PipeInv, WrittenFirst
<1> QED BY <1>6, <1>7, <1>8, <1>9, <1>10, <1>11 DEF PipeInv

LEMMA ReadHistoryPipe == Data /\ PipeInv /\ ReadHistory => PipeInv'
<1> SUFFICES ASSUME Data, PipeInv, ReadHistory PROVE PipeInv'
  OBVIOUS
<1>1. UNCHANGED <<message, replies, requests, promise, subscribed, printed, told, main, command>>
  BY DEF ReadHistory, state, call, pipe
<1>2. requests # <<>> /\ Head(requests).command = "attach" /\ subscribed /\ history' = printed
  BY DEF ReadHistory, Asked
<1>3. AttachWaits /\ ~AttachUnsent
  BY <1>2 DEF AttachWaits, PipeInv, QuietBefore
<1>4. \A i \in Places : ~IsAttached(At(i)) BY <1>3 DEF PipeInv, QuietBefore
<1>5. /\ \A i : At(i)' = At(i)
      /\ Places' = Places /\ OnTheWay' = OnTheWay /\ (AttachOk' <=> AttachOk)
      /\ ~AttachUnsent'
  BY <1>1, <1>3 DEF At, Places, OnTheWay, AttachOk, AttachUnsent
<1>6. AttachIsFirst' BY <1>1 DEF PipeInv, AttachIsFirst
<1>7. QuietBefore' BY <1>1, <1>2, <1>3, <1>5 DEF PipeInv, QuietBefore, IsAttached
<1>8. OutputsAscend' BY <1>5 DEF PipeInv, OutputsAscend, IsOutput
<1>9. OutputsFollow' BY <1>1, <1>5 DEF PipeInv, OutputsFollow
<1>10. AnswerIsHistory' BY <1>4, <1>5 DEF AnswerIsHistory, IsAttached
<1>11. WrittenFirst' BY <1>1, <1>2 DEF PipeInv, WrittenFirst, Data
<1> QED BY <1>6, <1>7, <1>8, <1>9, <1>10, <1>11 DEF PipeInv

LEMMA AnswerPipe == Data /\ PipeInv /\ Answer => PipeInv' /\ OnTheWay' = OnTheWay
<1> SUFFICES ASSUME Data, PipeInv, Answer PROVE PipeInv' /\ OnTheWay' = OnTheWay
  OBVIOUS
<1>1. /\ UNCHANGED <<message, promise, history, printed, told, main, command>>
      /\ requests # <<>> /\ requests' = Tail(requests)
      /\ subscribed' = subscribed \/ ~subscribed'
  BY DEF Answer, Asked, Reply, state, call
<1>2. PICK answer \in {"ok", "error"}, n \in 0 .. MaxChunks :
         /\ replies' = Append(replies, Response(Head(requests).id, answer, n))
         /\ Head(requests).command = "attach" /\ answer = "ok" => n = history /\ history >= 0
  <2>1. 0 \in 0 .. MaxChunks /\ (history # -1 => history \in 0 .. MaxChunks)
    BY BoundsAssumption DEF Data
  <2>2. \/ /\ Head(requests).command = "attach" /\ history # -1
           /\ replies' = Append(replies, Response(Head(requests).id, "ok", history))
        \/ replies' = Append(replies, Response(Head(requests).id, "error", 0))
        \/ /\ Head(requests).command # "attach"
           /\ replies' = Append(replies, Response(Head(requests).id, "ok", 0))
    BY DEF Answer, Reply, Asked
  <2> QED BY <2>1, <2>2
<1> DEFINE m == Response(Head(requests).id, answer, n)
<1>3. Len(requests) \in Nat \ {0} /\ Head(requests) = requests[1] /\ requests[1].id \in Ids
  <2>1. Head(requests) \in [id : Ids, command : {"attach", "input", "detach"}]
    BY <1>1, HeadTailProperties DEF Data
  <2>2. Len(requests) \in Nat \ {0} /\ Head(requests) = requests[1] BY <1>1 DEF Data
  <2> QED BY <2>1, <2>2
<1>4. m \in Messages /\ ~IsOutput(m) BY <1>3, MessageTypes DEF Response, IsOutput
<1>5. IsAttached(m) => m.chunk = history /\ history >= 0
  <2>1. IsAttached(m) => Head(requests).id = 1 /\ answer = "ok" BY DEF IsAttached, Response
  <2>2. Head(requests).id = 1 => Head(requests).command = "attach"
    BY <1>3 DEF PipeInv, AttachIsFirst
  <2>3. m.chunk = n BY DEF Response
  <2> QED BY <1>2, <2>1, <2>2, <2>3
<1> HIDE DEF m
<1>6. /\ Len(replies') = Len(replies) + 1 /\ Len(replies) \in Nat
      /\ \A i \in Places : At(i)' = At(i)
      /\ \A k \in Nat : k = Len(replies) + 1 => At(k)' = m
      /\ OnTheWay' = OnTheWay
  BY <1>1, <1>2, <1>4, SentIsLast DEF m
<1>7. \A i \in Places' : IF i \in Places THEN At(i)' = At(i) ELSE At(i)' = m /\ i = Len(replies) + 1
  BY <1>6 DEF Places
<1>8. /\ Len(requests') = Len(requests) - 1
      /\ \A i \in 1 .. Len(requests') : requests'[i] = requests[i + 1]
  BY <1>1, HeadTailProperties DEF Data
<1>9. AttachIsFirst'
  <2>1. \A i \in 1 .. Len(requests') : i + 1 \in 2 .. Len(requests) /\ i + 1 \in 1 .. Len(requests)
    BY <1>3, <1>8
  <2>2. \A i \in 2 .. Len(requests') : i \in 1 .. Len(requests')
    BY <1>3, <1>8
  <2> QED BY <1>8, <2>1, <2>2 DEF PipeInv, AttachIsFirst
<1>10. ~AttachUnsent' /\ ~AttachWaits'
  <2>1. ~AttachUnsent BY <1>1 DEF PipeInv, QuietBefore
  <2>2. \A i \in 1 .. Len(requests') : requests'[i].command # "attach"
    BY <1>3, <1>8 DEF PipeInv, AttachIsFirst
  <2>3. requests' # <<>> => 1 \in 1 .. Len(requests') BY <1>1, <1>3, <1>8 DEF Data
  <2> QED BY <1>1, <2>1, <2>2, <2>3 DEF AttachUnsent, AttachWaits
<1>11. QuietBefore' BY <1>10 DEF QuietBefore
<1>12. OutputsAscend' BY <1>4, <1>7 DEF PipeInv, OutputsAscend, IsOutput
<1>13. OutputsFollow' BY <1>1, <1>6 DEF PipeInv, OutputsFollow
<1>14. AnswerIsHistory'
  <2> SUFFICES ASSUME NEW i \in Places', IsAttached(At(i)')
               PROVE /\ history >= 0 /\ At(i)'.chunk = history
                     /\ \A j \in Places' : i < j /\ IsOutput(At(j)') => history <= At(j)'.chunk
    BY <1>1 DEF PipeInv, AnswerIsHistory, IsAttached, IsOutput
  <2>1. CASE i \in Places BY <1>4, <1>7, <2>1 DEF PipeInv, AnswerIsHistory
  <2>2. CASE i \notin Places
    <3>1. \A j \in Places' : ~(i < j) BY <1>6, <1>7, <2>2 DEF Places
    <3> QED BY <1>5, <1>7, <2>2, <3>1
  <2> QED BY <2>1, <2>2
<1>15. WrittenFirst' BY <1>1 DEF PipeInv, WrittenFirst
<1> QED BY <1>6, <1>9, <1>11, <1>12, <1>13, <1>14, <1>15 DEF PipeInv

LEMMA BroadcastPipe ==
    Data /\ PipeInv /\ BroadcastChunk =>
        PipeInv' /\ OnTheWay' = OnTheWay \cup (IF subscribed THEN {told + 1} ELSE {})
<1> SUFFICES ASSUME Data, PipeInv, BroadcastChunk
             PROVE PipeInv' /\ OnTheWay' = OnTheWay \cup (IF subscribed THEN {told + 1} ELSE {})
  OBVIOUS
<1>1. /\ UNCHANGED <<message, requests, promise, subscribed, history, main, command>>
      /\ printed' = printed /\ told < printed /\ told' = told + 1
  BY DEF BroadcastChunk, state, call
<1>2. /\ (AttachOk' <=> AttachOk) /\ (AttachWaits' <=> AttachWaits)
      /\ (AttachUnsent' <=> AttachUnsent)
  BY <1>1 DEF AttachOk, AttachWaits, AttachUnsent
<1>3. AttachIsFirst' BY <1>1 DEF PipeInv, AttachIsFirst
<1>4. WrittenFirst' BY <1>1 DEF PipeInv, WrittenFirst, Data
<1>5. CASE ~subscribed
  <2>1. replies' = replies BY <1>5 DEF BroadcastChunk, Send
  <2>2. (\A i : At(i)' = At(i)) /\ Places' = Places /\ OnTheWay' = OnTheWay
    BY <1>1, <2>1 DEF At, Places, OnTheWay
  <2>3. QuietBefore' BY <1>1, <1>2, <2>2 DEF PipeInv, QuietBefore, IsAttached
  <2>4. OutputsAscend' BY <2>2 DEF PipeInv, OutputsAscend, IsOutput
  <2>5. OutputsFollow'
    <3>1. 1 .. told \subseteq 1 .. told' BY <1>1 DEF Data
    <3> QED BY <1>1, <1>5, <2>2, <3>1 DEF PipeInv, OutputsFollow
  <2>6. AnswerIsHistory'
    BY <1>1, <2>2 DEF PipeInv, AnswerIsHistory, IsOutput, IsAttached
  <2> QED BY <1>3, <1>5, <1>4, <2>2, <2>3, <2>4, <2>5, <2>6 DEF PipeInv
<1>6. CASE subscribed
  <2> DEFINE m == Event("output", told + 1)
  <2>1. m \in Messages /\ IsOutput(m) /\ ~IsAttached(m) /\ m.chunk = told + 1
    <3>1. told + 1 \in 0 .. MaxChunks BY <1>1, BoundsAssumption DEF Data
    <3>2. m \in Messages BY <3>1, MessageTypes
    <3>3. IsOutput(m) /\ ~IsAttached(m) /\ m.chunk = told + 1
      BY DEF Event, IsOutput, IsAttached
    <3> QED BY <3>2, <3>3
  <2>2. replies' = Append(replies, m) BY <1>6 DEF BroadcastChunk, Send
  <2> HIDE DEF m
  <2>3. /\ Len(replies') = Len(replies) + 1 /\ Len(replies) \in Nat
        /\ \A i \in Places : At(i)' = At(i)
        /\ \A k \in Nat : k = Len(replies) + 1 => At(k)' = m
        /\ OnTheWay' = OnTheWay \cup {told + 1}
    BY <1>1, <2>1, <2>2, SentIsLast
  <2>4. \A i \in Places' : IF i \in Places THEN At(i)' = At(i) ELSE At(i)' = m /\ i = Len(replies) + 1
    BY <2>3 DEF Places
  <2>5. \A n \in OnTheWay : n \in 1 .. told BY DEF PipeInv, OutputsFollow
  <2>6. QuietBefore'
    BY <1>1, <1>2, <1>6, <2>1, <2>4 DEF PipeInv, QuietBefore, IsAttached
  <2>7. OutputsAscend'
    <3> SUFFICES ASSUME NEW i \in Places', NEW j \in Places', i < j, IsOutput(At(i)'),
                        IsOutput(At(j)')
                 PROVE At(i)'.chunk < At(j)'.chunk
      BY DEF OutputsAscend, IsOutput
    <3>1. CASE j \in Places
      <4>1. i \in Places BY <3>1 DEF Places
      <4> QED BY <2>4, <3>1, <4>1 DEF PipeInv, OutputsAscend
    <3>2. CASE j \notin Places
      <4>1. i \in Places BY <2>3, <2>4, <3>2 DEF Places
      <4>2. At(i).chunk \in 1 .. told BY <2>4, <2>5, <4>1, OutputIsOnTheWay
      <4> QED BY <2>1, <2>4, <3>2, <4>1, <4>2 DEF Data
    <3> QED BY <3>1, <3>2
  <2>8. OutputsFollow'
    <3>1. OnTheWay' \subseteq 1 .. told' BY <1>1, <2>3, <2>5 DEF Data
    <3>2. ASSUME NEW a \in OnTheWay', NEW b \in OnTheWay' PROVE a .. b \subseteq OnTheWay'
      <4>1. CASE a \in OnTheWay /\ b \in OnTheWay
        BY <2>3, <4>1 DEF PipeInv, OutputsFollow
      <4>2. CASE a \in OnTheWay /\ b = told + 1
        <5>1. a .. told \subseteq OnTheWay
          BY <1>6, <4>2 DEF PipeInv, OutputsFollow
        <5>2. a \in Int /\ told \in Int /\ a <= told BY <2>5, <4>2 DEF Data
        <5>3. a .. b = (a .. told) \cup {told + 1} BY <4>2, <5>2
        <5> QED BY <2>3, <5>1, <5>3
      <4>3. CASE a = told + 1
        <5>1. a .. b \subseteq {told + 1} BY <2>3, <2>5, <4>3 DEF Data
        <5> QED BY <2>3, <5>1
      <4> QED BY <2>3, <4>1, <4>2, <4>3
    <3> QED BY <1>1, <2>3, <3>1, <3>2 DEF OutputsFollow
  <2>9. AnswerIsHistory'
    <3>1. history <= told + 1 BY <1>1 DEF PipeInv, WrittenFirst, Data
    <3> SUFFICES ASSUME NEW i \in Places', IsAttached(At(i)')
                 PROVE /\ history >= 0 /\ At(i)'.chunk = history
                       /\ \A j \in Places' : i < j /\ IsOutput(At(j)') => history <= At(j)'.chunk
      BY <1>1 DEF AnswerIsHistory, IsAttached, IsOutput
    <3>2. i \in Places /\ At(i)' = At(i) BY <2>1, <2>4
    <3>3. ASSUME NEW j \in Places', i < j, IsOutput(At(j)') PROVE history <= At(j)'.chunk
      <4>1. CASE j \in Places BY <2>4, <3>2, <3>3, <4>1 DEF PipeInv, AnswerIsHistory
      <4>2. CASE j \notin Places
        BY <2>1, <2>4, <3>1, <4>2
      <4> QED BY <4>1, <4>2
    <3> QED BY <3>2, <3>3 DEF PipeInv, AnswerIsHistory
  <2> QED BY <1>3, <1>6, <1>4, <2>3, <2>6, <2>7, <2>8, <2>9 DEF PipeInv
<1> QED BY <1>5, <1>6

LEMMA ExitPipe == Data /\ PipeInv /\ SessionExits => PipeInv' /\ OnTheWay' = OnTheWay
<1> SUFFICES ASSUME Data, PipeInv, SessionExits PROVE PipeInv' /\ OnTheWay' = OnTheWay
  OBVIOUS
<1>1. UNCHANGED <<message, requests, promise, subscribed, history, printed, told, main, command>>
  BY DEF SessionExits, state, call
<1>2. CASE ~subscribed
  <2>1. replies' = replies BY <1>2 DEF SessionExits, Send
  <2>2. Calm BY <1>1, <2>1 DEF Calm, AttachUnsent
  <2>3. OnTheWay' = OnTheWay BY <1>1, <2>1 DEF OnTheWay, At, Places
  <2> QED BY <2>2, <2>3, CalmPipe
<1>3. CASE subscribed
  <2> DEFINE m == Event("exit", 0)
  <2>1. m \in Messages /\ ~IsOutput(m) /\ ~IsAttached(m)
    <3>1. 0 \in 0 .. MaxChunks BY BoundsAssumption
    <3>2. m \in Messages BY <3>1, MessageTypes
    <3>3. ~IsOutput(m) /\ ~IsAttached(m) BY DEF Event, IsOutput, IsAttached
    <3> QED BY <3>2, <3>3
  <2>2. replies' = Append(replies, m) BY <1>3 DEF SessionExits, Send
  <2> HIDE DEF m
  <2>3. /\ Len(replies') = Len(replies) + 1 /\ Len(replies) \in Nat
        /\ \A i \in Places : At(i)' = At(i)
        /\ \A k \in Nat : k = Len(replies) + 1 => At(k)' = m
        /\ OnTheWay' = OnTheWay
    BY <1>1, <2>1, <2>2, SentIsLast
  <2>4. \A i \in Places' : (i \in Places /\ At(i)' = At(i)) \/ At(i)' = m
    BY <2>3 DEF Places
  <2>5. \A i \in Places' : IsOutput(At(i)') \/ IsAttached(At(i)') => i \in Places /\ At(i)' = At(i)
    BY <2>1, <2>4
  <2>6. /\ (AttachOk' <=> AttachOk) /\ (AttachWaits' <=> AttachWaits)
        /\ (AttachUnsent' <=> AttachUnsent)
    BY <1>1 DEF AttachOk, AttachWaits, AttachUnsent
  <2>7. AttachIsFirst' BY <1>1 DEF PipeInv, AttachIsFirst
  <2>8. QuietBefore'
    BY <1>1, <2>3, <2>5, <2>6 DEF PipeInv, QuietBefore, IsAttached
  <2>9. OutputsAscend' BY <2>5 DEF PipeInv, OutputsAscend, IsOutput
  <2>10. OutputsFollow' BY <1>1, <2>3 DEF PipeInv, OutputsFollow
  <2>11. AnswerIsHistory'
    <3> SUFFICES ASSUME NEW i \in Places', IsAttached(At(i)')
                 PROVE /\ history >= 0 /\ At(i)'.chunk = history
                       /\ \A j \in Places' : i < j /\ IsOutput(At(j)') => history <= At(j)'.chunk
      BY <1>1 DEF PipeInv, AnswerIsHistory, IsAttached, IsOutput
    <3> QED BY <2>5 DEF PipeInv, AnswerIsHistory
  <2>12. WrittenFirst' BY <1>1 DEF PipeInv, WrittenFirst
  <2> QED BY <2>3, <2>7, <2>8, <2>9, <2>10, <2>11, <2>12 DEF PipeInv
<1> QED BY <1>2, <1>3

LEMMA DiePipe == Data /\ PipeInv /\ Die => PipeInv' /\ OnTheWay' = OnTheWay
<1> SUFFICES ASSUME Data, PipeInv, Die PROVE PipeInv' /\ OnTheWay' = OnTheWay
  OBVIOUS
<1>1. /\ UNCHANGED <<message, replies, promise, history, printed, told, main, command>>
      /\ requests' = <<>> /\ ~subscribed'
  BY DEF Die, state, call
<1>2. /\ \A i : At(i)' = At(i)
      /\ Places' = Places /\ OnTheWay' = OnTheWay /\ (AttachOk' <=> AttachOk)
      /\ ~AttachWaits' /\ (AttachUnsent' <=> AttachUnsent)
  BY <1>1 DEF At, Places, OnTheWay, AttachOk, AttachWaits, AttachUnsent
<1>3. AttachIsFirst' BY <1>1 DEF AttachIsFirst
<1>4. QuietBefore' BY <1>1, <1>2 DEF PipeInv, QuietBefore, IsAttached
<1>5. OutputsAscend' BY <1>2 DEF PipeInv, OutputsAscend, IsOutput
<1>6. OutputsFollow' BY <1>1, <1>2 DEF PipeInv, OutputsFollow
<1>7. AnswerIsHistory' BY <1>1, <1>2 DEF PipeInv, AnswerIsHistory, IsOutput, IsAttached
<1>8. WrittenFirst' BY <1>1 DEF PipeInv, WrittenFirst
<1> QED BY <1>2, <1>3, <1>4, <1>5, <1>6, <1>7, <1>8 DEF PipeInv

LEMMA PipeStep == Data /\ ThreadsInv /\ PipeInv /\ [Next]_vars => PipeInv'
<1> SUFFICES ASSUME Data, ThreadsInv, PipeInv, [Next]_vars PROVE PipeInv'
  OBVIOUS
<1>1. CASE SendRaw BY <1>1, SendRawPipe
<1>2. CASE ReadPipe /\ TakeReply BY <1>2, TakePipe
<1>3. CASE HandleResponse \/ HandleEvent BY <1>3, HandlePipe
<1>4. CASE DaemonStep BY <1>4, SubscribePipe, ReadHistoryPipe, AnswerPipe DEF DaemonStep
<1>5. CASE BroadcastChunk \/ SessionExits \/ Die BY <1>5, BroadcastPipe, ExitPipe, DiePipe
<1>6. CASE Calm BY <1>6, CalmPipe
<1> QED
  BY <1>1, <1>2, <1>3, <1>4, <1>5, <1>6, MainIsCalm, ReaderIsCalm
  DEF Next, MainStep, ReaderStep, ThreadsInv

-----------------------------------------------------------------------------
(* The screen goes on where the history ends *)

\* A step that leaves the screen and what is on its way alone.
CalmScreen ==
    /\ UNCHANGED <<m_onEvent, shown, promise, history, subscribed, told>>
    /\ OnTheWay' = OnTheWay
    /\ main' = "setEvent" <=> main = "setEvent"
    /\ main' = "show" => AttachOk
    /\ BeforeCallback' => BeforeCallback
    /\ AfterCallback' => AfterCallback

LEMMA CalmScreenStep == ScreenInv /\ CalmScreen => ScreenInv'
<1> SUFFICES ASSUME ScreenInv, CalmScreen PROVE ScreenInv'
  OBVIOUS
<1>1. AttachOk' <=> AttachOk BY DEF CalmScreen, AttachOk
<1>2. OutputsAreLater' BY <1>1 DEF ScreenInv, OutputsAreLater, CalmScreen
<1>3. CallbackAfterAnswer' BY <1>1 DEF ScreenInv, CallbackAfterAnswer, CalmScreen
<1>4. HistoryThenOutputs' BY DEF ScreenInv, HistoryThenOutputs, CalmScreen
<1>5. GoesOn' BY DEF ScreenInv, GoesOn, CalmScreen
<1> QED BY <1>2, <1>3, <1>4, <1>5 DEF ScreenInv

LEMMA CalmKeepsOnTheWay == UNCHANGED <<message, replies>> => OnTheWay' = OnTheWay
  BY DEF OnTheWay, At, Places

LEMMA MainIsCalmScreen ==
    /\ Labels /\ Data /\ ThreadsInv /\ ScreenInv
    /\ \/ Connect \/ Register \/ SendRaw \/ GetFuture \/ FutureReady \/ TimesOut \/ Cleanup
       \/ SetDisconnect \/ Loop \/ ConsoleEvent \/ StopRunning \/ CancelIo
       \/ JoinReader \/ ClosePipe
    => CalmScreen
<1> SUFFICES ASSUME Labels, Data, ThreadsInv, ScreenInv,
                    \/ Connect \/ Register \/ SendRaw \/ GetFuture \/ FutureReady \/ TimesOut
                    \/ Cleanup \/ SetDisconnect \/ Loop \/ ConsoleEvent \/ StopRunning
                    \/ CancelIo \/ JoinReader \/ ClosePipe
             PROVE CalmScreen
  OBVIOUS
<1>1. UNCHANGED <<m_onEvent, shown, history, subscribed, told, message, replies>>
  BY DEF Connect, Register, SendRaw, GetFuture, FutureReady, TimesOut, Cleanup, SetDisconnect,
         Loop, ConsoleEvent, StopRunning, CancelIo, JoinReader, ClosePipe, state, pipe, daemon
<1>2. OnTheWay' = OnTheWay BY <1>1, CalmKeepsOnTheWay
<1>3. promise' = promise
  <2>1. CASE ClosePipe
    <3>1. m_pendingRequests = {} BY <2>1 DEF ThreadsInv, OnlyCurrentIsPending, ClosePipe
    <3> QED BY <2>1, <3>1 DEF ClosePipe, Data
  <2>2. CASE ~ClosePipe
    BY <2>2 DEF Connect, Register, SendRaw, GetFuture, FutureReady, TimesOut, Cleanup,
                SetDisconnect, Loop, ConsoleEvent, StopRunning, CancelIo, JoinReader, state
  <2> QED BY <2>1, <2>2
<1>4. /\ main' = "setEvent" <=> main = "setEvent"
      /\ main' = "show" => AttachOk
      /\ BeforeCallback' => BeforeCallback
      /\ AfterCallback' => AfterCallback
  <2> USE DEF BeforeCallback, AfterCallback, Requesting
  <2>1. CASE Connect \/ Register \/ SendRaw \/ GetFuture \/ FutureReady \/ TimesOut
    BY <2>1 DEF Connect, Register, SendRaw, GetFuture, FutureReady, Answered, TimesOut, call,
                ThreadsInv, RequestNumbers
  <2>2. CASE Cleanup
    <3>1. /\ command' = command /\ main = "cleanup"
          /\ command = "attach" => main' \in {"show", "disconnect"}
          /\ command # "attach" => main' \in {"loop", "console", "disconnect"}
      BY <2>2 DEF Cleanup, AfterRequest, Labels, call
    <3>2. main' = "show" => AttachOk
      <4>1. command = "attach" => id = 1 BY <3>1 DEF ThreadsInv, RequestNumbers
      <4>2. command = "attach" /\ main' = "show" => promise[id].answer = "ok"
        BY <2>2 DEF Cleanup, AfterRequest
      <4> QED BY <3>1, <4>1, <4>2 DEF AttachOk
    <3> QED BY <3>1, <3>2
  <2>3. CASE SetDisconnect \/ Loop \/ ConsoleEvent
    BY <2>3 DEF SetDisconnect, GotoOrCrash, Loop, ConsoleEvent, call
  <2>4. CASE StopRunning \/ CancelIo \/ JoinReader \/ ClosePipe
    BY <2>4 DEF StopRunning, CancelIo, JoinReader, ClosePipe
  <2> QED BY <2>1, <2>2, <2>3, <2>4
<1> QED BY <1>1, <1>2, <1>3, <1>4 DEF CalmScreen

LEMMA OthersAreCalmScreen ==
    /\ Data /\ ThreadsInv /\ PipeInv /\ ScreenInv
    /\ \/ CheckRunning \/ ReadPipe \/ LeaveLoop \/ NotifyLost \/ WriteChunk
       \/ SessionExits \/ UNCHANGED vars
    => CalmScreen
<1> SUFFICES ASSUME Data, ThreadsInv, PipeInv, ScreenInv,
                    \/ CheckRunning \/ ReadPipe \/ LeaveLoop \/ NotifyLost \/ WriteChunk
                    \/ SessionExits \/ UNCHANGED vars
             PROVE CalmScreen
  OBVIOUS
<1>1. UNCHANGED <<main, command, m_onEvent, shown, promise, history, subscribed, told>>
  BY DEF CheckRunning, ReadPipe, LeaveLoop, NotifyLost, WriteChunk, SessionExits, vars, state, call,
         daemon
<1>2. OnTheWay' = OnTheWay
  <2>1. CASE CheckRunning \/ LeaveLoop \/ NotifyLost \/ WriteChunk \/ UNCHANGED vars
    BY <2>1, CalmKeepsOnTheWay DEF CheckRunning, LeaveLoop, NotifyLost, WriteChunk, vars, pipe
  <2>2. CASE ReadPipe /\ TakeReply
    BY <2>2, TakenMovesOn DEF ReadPipe, ThreadsInv, ReaderHolds
  <2>3. CASE ReadPipe /\ ~TakeReply BY <2>3, CalmKeepsOnTheWay DEF ReadPipe
  <2>4. CASE SessionExits BY <2>4, ExitPipe
  <2> QED BY <2>1, <2>2, <2>3, <2>4
<1>3. main' = "show" => AttachOk BY <1>1 DEF ScreenInv, CallbackAfterAnswer
<1> QED BY <1>1, <1>2, <1>3 DEF CalmScreen, BeforeCallback, AfterCallback

LEMMA ShowScreen == Data /\ ThreadsInv /\ ScreenInv /\ Show => ScreenInv'
<1> SUFFICES ASSUME Data, ThreadsInv, ScreenInv, Show PROVE ScreenInv'
  OBVIOUS
<1>1. /\ UNCHANGED <<m_onEvent, promise, history, subscribed, told, message, replies, command>>
      /\ main = "show" /\ main' = "setEvent" /\ ~m_onEvent /\ AttachOk /\ shown = <<>>
  BY DEF Show, state, call, pipe, daemon, ScreenInv, CallbackAfterAnswer, BeforeCallback
<1>2. OnTheWay' = OnTheWay /\ AttachOk' BY <1>1, CalmKeepsOnTheWay DEF AttachOk
<1>3. promise[id].chunk = history /\ history \in Nat
  BY <1>1 DEF ThreadsInv, RequestNumbers, ScreenInv, OutputsAreLater, Data
<1>4. /\ shown' = [i \in 1 .. history |-> i] /\ Len(shown') = history
      /\ \A i \in 1 .. history : shown'[i] = i
  <2>1. [i \in 1 .. history |-> i] \in Seq(Int) BY <1>3
  <2>2. shown' = <<>> \o [i \in 1 .. history |-> i] BY <1>1, <1>3 DEF Show
  <2>3. shown' = [i \in 1 .. history |-> i] BY <2>1, <2>2, ConcatEmptySeq
  <2> QED BY <1>3, <2>3
<1>5. OutputsAreLater' BY <1>1, <1>2 DEF ScreenInv, OutputsAreLater
<1>6. CallbackAfterAnswer'
  BY <1>1, <1>2 DEF CallbackAfterAnswer, BeforeCallback, AfterCallback, Requesting
<1>7. HistoryThenOutputs' BY <1>1, <1>3, <1>4 DEF HistoryThenOutputs
<1>8. GoesOn' BY <1>1 DEF GoesOn
<1> QED BY <1>5, <1>6, <1>7, <1>8 DEF ScreenInv

LEMMA SetEventScreen == Data /\ ScreenInv /\ SetEvent => ScreenInv'
<1> SUFFICES ASSUME Data, ScreenInv, SetEvent PROVE ScreenInv'
  OBVIOUS
<1>1. /\ UNCHANGED <<shown, promise, history, subscribed, told, message, replies, command>>
      /\ main = "setEvent" /\ main' \in {"setDisconnect", "crashed"} /\ m_onEvent' = TRUE
  BY DEF SetEvent, GotoOrCrash, call, pipe, daemon
<1>2. OnTheWay' = OnTheWay /\ (AttachOk' <=> AttachOk) BY <1>1, CalmKeepsOnTheWay DEF AttachOk
<1>3. OutputsAreLater' BY <1>1, <1>2 DEF ScreenInv, OutputsAreLater
<1>4. CallbackAfterAnswer'
  BY <1>1, <1>2 DEF ScreenInv, CallbackAfterAnswer, BeforeCallback, AfterCallback, Requesting
<1>5. HistoryThenOutputs' BY <1>1 DEF ScreenInv, HistoryThenOutputs
<1>6. GoesOn' BY <1>1 DEF ScreenInv, GoesOn, HistoryThenOutputs, Data
<1> QED BY <1>3, <1>4, <1>5, <1>6 DEF ScreenInv

LEMMA HandleResponseScreen ==
    Data /\ ThreadsInv /\ PipeInv /\ ScreenInv /\ HandleResponse => ScreenInv'
<1> SUFFICES ASSUME Data, ThreadsInv, PipeInv, ScreenInv, HandleResponse PROVE ScreenInv'
  OBVIOUS
<1>1. /\ UNCHANGED <<m_onEvent, shown, history, subscribed, told, replies, main, command>>
      /\ message' = Nothing /\ message.type = "response"
  BY DEF HandleResponse, call, pipe, daemon
<1>2. OnTheWay' = OnTheWay BY <1>1, HandledIsFirst DEF PipeInv, IsOutput
<1>3. \/ promise'[1] = promise[1]
      \/ /\ promise'[1] = message /\ message.id = 1
         /\ BeforeCallback /\ main \notin {"show", "setEvent"}
  <2>1. \/ promise'[1] = promise[1]
        \/ promise'[1] = message /\ message.id = 1 /\ 1 \in m_pendingRequests
    BY DEF HandleResponse, Data
  <2>2. 1 \in m_pendingRequests =>
            id = 1 /\ main \in {"send", "getFuture", "wait", "cleanup"}
    BY DEF ThreadsInv, OnlyCurrentIsPending
  <2>3. 1 \in m_pendingRequests => command = "attach"
    BY <2>2, BoundsAssumption DEF ThreadsInv, RequestNumbers
  <2> QED BY <2>1, <2>2, <2>3 DEF BeforeCallback, Requesting
<1>4. (BeforeCallback' <=> BeforeCallback) /\ (AfterCallback' <=> AfterCallback)
  BY <1>1 DEF BeforeCallback, AfterCallback
<1>5. m_onEvent \/ main \in {"show", "setEvent"} => promise'[1] = promise[1]
  BY <1>3 DEF ScreenInv, CallbackAfterAnswer
<1>6. OutputsAreLater'
  <2>1. CASE promise'[1] = promise[1]
    BY <1>1, <1>2, <2>1 DEF ScreenInv, OutputsAreLater, AttachOk
  <2>2. CASE promise'[1] = message /\ message.id = 1
    <3> SUFFICES ASSUME message.answer = "ok"
                 PROVE /\ history >= 0 /\ message.chunk = history
                       /\ \A n \in OnTheWay : history <= n
      BY <1>1, <1>2, <2>2 DEF OutputsAreLater, AttachOk
    <3>1. 0 \in Places /\ At(0) = message /\ ~IsOutput(message)
      BY <1>1 DEF Places, At, Data, IsOutput
    <3>2. IsAttached(At(0)) BY <1>1, <2>2, <3>1 DEF IsAttached
    <3>3. \A i \in Places : IsOutput(At(i)) => 0 < i BY <3>1 DEF Places
    <3> QED BY <3>1, <3>2, <3>3 DEF PipeInv, AnswerIsHistory, OnTheWay
  <2> QED BY <1>3, <2>1, <2>2
<1>7. CallbackAfterAnswer'
  BY <1>1, <1>4, <1>5 DEF ScreenInv, CallbackAfterAnswer, AttachOk
<1>8. HistoryThenOutputs' BY <1>1 DEF ScreenInv, HistoryThenOutputs
<1>9. GoesOn' BY <1>1, <1>2 DEF ScreenInv, GoesOn
<1> QED BY <1>6, <1>7, <1>8, <1>9 DEF ScreenInv

LEMMA HandleEventScreen == Data /\ PipeInv /\ ScreenInv /\ HandleEvent => ScreenInv'
<1> SUFFICES ASSUME Data, PipeInv, ScreenInv, HandleEvent PROVE ScreenInv'
  OBVIOUS
<1>1. /\ UNCHANGED <<m_onEvent, promise, history, subscribed, told, replies, main, command>>
      /\ message' = Nothing
      /\ shown' = IF m_onEvent /\ IsOutput(message) THEN Append(shown, message.chunk) ELSE shown
  BY DEF HandleEvent, call, pipe, daemon, IsOutput
<1>2. IF IsOutput(message)
      THEN /\ message.chunk \in OnTheWay /\ OnTheWay' = OnTheWay \ {message.chunk}
           /\ \A n \in OnTheWay' : message.chunk < n
      ELSE OnTheWay' = OnTheWay
  BY <1>1, HandledIsFirst DEF PipeInv
<1>3. /\ (BeforeCallback' <=> BeforeCallback) /\ (AfterCallback' <=> AfterCallback)
      /\ (AttachOk' <=> AttachOk)
  BY <1>1 DEF BeforeCallback, AfterCallback, AttachOk
<1>4. OutputsAreLater' BY <1>1, <1>2, <1>3 DEF ScreenInv, OutputsAreLater
<1>5. CallbackAfterAnswer' BY <1>1, <1>3 DEF ScreenInv, CallbackAfterAnswer
<1>6. CASE ~m_onEvent
  BY <1>1, <1>4, <1>5, <1>6 DEF ScreenInv, HistoryThenOutputs, GoesOn
<1>7. CASE ~IsOutput(message)
  <2>1. UNCHANGED shown /\ OnTheWay' = OnTheWay BY <1>1, <1>2, <1>7
  <2>2. HistoryThenOutputs' BY <1>1, <2>1 DEF ScreenInv, HistoryThenOutputs
  <2>3. GoesOn' BY <1>1, <2>1 DEF ScreenInv, GoesOn
  <2> QED BY <1>4, <1>5, <2>2, <2>3 DEF ScreenInv
<1>8. CASE m_onEvent /\ IsOutput(message)
  <2> DEFINE c == message.chunk
  <2> HIDE DEF c
  <2>1. /\ shown' = Append(shown, c) /\ c \in OnTheWay /\ OnTheWay' = OnTheWay \ {c}
        /\ \A n \in OnTheWay' : c < n
    BY <1>1, <1>2, <1>8 DEF c
  <2>2. OnTheWay \subseteq Int /\ c \in Int
    BY <2>1 DEF PipeInv, OutputsFollow
  <2>3. AttachOk /\ history \in Nat /\ history <= c /\ main # "setEvent"
    <3>1. AttachOk /\ ~BeforeCallback BY <1>8 DEF ScreenInv, CallbackAfterAnswer
    <3> QED BY <2>1, <3>1 DEF ScreenInv, OutputsAreLater, BeforeCallback, Data
  <2>4. /\ Len(shown) \in Nat /\ Len(shown') = Len(shown) + 1 /\ shown'[Len(shown) + 1] = c
        /\ \A i \in 1 .. Len(shown) : shown'[i] = shown[i]
    BY <2>1, <2>2, AppendProperties DEF Data
  <2>5. /\ Len(shown) >= history
        /\ \A i \in 1 .. history : shown[i] = i
        /\ \A i \in history + 1 .. Len(shown) : history <= shown[i]
        /\ \A i \in history + 2 .. Len(shown) : shown[i] = shown[i - 1] + 1
    BY <1>8 DEF ScreenInv, HistoryThenOutputs
  <2>6. history < Len(shown) => c = shown[Len(shown)] + 1
    <3> SUFFICES ASSUME history < Len(shown) PROVE c = shown[Len(shown)] + 1
      OBVIOUS
    <3>1. /\ shown[Len(shown)] \in Int /\ shown[Len(shown)] < c
          /\ shown[Len(shown)] + 1 .. c \subseteq OnTheWay
      <4>1. Len(shown) \in 1 .. Len(shown) BY <2>3, <2>4
      <4>2. shown[Len(shown)] \in 1 .. MaxChunks BY <4>1, ElementOfSeq DEF Data
      <4>3. shown[Len(shown)] < c /\ shown[Len(shown)] + 1 .. c \subseteq OnTheWay
        BY <1>8, <2>1 DEF ScreenInv, GoesOn
      <4> QED BY <4>2, <4>3
    <3>2. shown[Len(shown)] + 1 \in OnTheWay BY <2>2, <3>1
    <3>3. shown[Len(shown)] + 1 # c => c < shown[Len(shown)] + 1 BY <2>1, <3>2
    <3> QED BY <2>2, <3>1, <3>3
  <2>7. HistoryThenOutputs'
    <3>1. \A i \in 1 .. history : shown'[i] = i BY <2>3, <2>4, <2>5
    <3>2. \A i \in history + 1 .. Len(shown') : history <= shown'[i]
      BY <2>3, <2>4, <2>5
    <3>3. ASSUME NEW i \in history + 2 .. Len(shown') PROVE shown'[i] = shown'[i - 1] + 1
      <4>1. CASE i = Len(shown') BY <2>3, <2>4, <2>6, <4>1
      <4>2. CASE i # Len(shown') BY <2>3, <2>4, <2>5, <4>2
      <4> QED BY <4>1, <4>2
    <3> QED BY <1>1, <2>3, <2>4, <2>5, <3>1, <3>2, <3>3 DEF HistoryThenOutputs
  <2>8. GoesOn'
    <3>1. shown'[Len(shown')] = c BY <2>4
    <3>2. ASSUME NEW n \in OnTheWay' PROVE c < n /\ c + 1 .. n \subseteq OnTheWay'
      <4>1. n \in OnTheWay /\ n \in Int /\ c < n BY <2>1, <2>2
      <4>2. c .. n \subseteq OnTheWay BY <2>1, <4>1 DEF PipeInv, OutputsFollow
      <4>3. c + 1 .. n \subseteq (c .. n) \ {c} BY <2>2, <4>1
      <4> QED BY <2>1, <4>1, <4>2, <4>3
    <3>3. subscribed /\ OnTheWay' = {} => told = c
      BY <2>1 DEF PipeInv, OutputsFollow
    <3> QED BY <1>1, <3>1, <3>2, <3>3 DEF GoesOn
  <2> QED BY <1>4, <1>5, <2>7, <2>8 DEF ScreenInv
<1> QED BY <1>6, <1>7, <1>8

\* While attach waits for its answer nothing is shown and no callback is set.
LEMMA WaitingIsUnshown == PipeInv /\ ScreenInv /\ AttachWaits
    => ~AttachOk /\ ~m_onEvent /\ main \notin {"show", "setEvent"} /\ ~AttachUnsent
  BY DEF PipeInv, QuietBefore, ScreenInv, CallbackAfterAnswer, AttachWaits

LEMMA SubscribeScreen == PipeInv /\ ScreenInv /\ (Subscribe \/ ReadHistory) => ScreenInv'
<1> SUFFICES ASSUME PipeInv, ScreenInv, Subscribe \/ ReadHistory PROVE ScreenInv'
  OBVIOUS
<1>1. UNCHANGED <<m_onEvent, shown, promise, main, command>>
  BY DEF Subscribe, ReadHistory, state, call
<1>2. AttachWaits BY DEF Subscribe, ReadHistory, Asked, AttachWaits
<1>3. /\ ~AttachOk /\ ~m_onEvent /\ main \notin {"show", "setEvent"}
      /\ ~AttachOk' /\ ~m_onEvent' /\ main' \notin {"show", "setEvent"}
  BY <1>1, <1>2, WaitingIsUnshown DEF AttachOk
<1>4. (BeforeCallback' <=> BeforeCallback) /\ (AfterCallback' <=> AfterCallback)
  BY <1>1 DEF BeforeCallback, AfterCallback
<1>5. CallbackAfterAnswer' BY <1>1, <1>3, <1>4 DEF ScreenInv, CallbackAfterAnswer
<1> QED BY <1>3, <1>5 DEF ScreenInv, OutputsAreLater, HistoryThenOutputs, GoesOn

LEMMA UnsubscribeScreen ==
    Data /\ PipeInv /\ ScreenInv /\ (Answer \/ Die) => ScreenInv'
<1> SUFFICES ASSUME Data, PipeInv, ScreenInv, Answer \/ Die PROVE ScreenInv'
  OBVIOUS
<1>1. UNCHANGED <<m_onEvent, shown, promise, main, command, history, told>>
  BY DEF Answer, Die, state, call
<1>2. subscribed' => subscribed BY DEF Answer, Die
<1>3. OnTheWay' = OnTheWay BY AnswerPipe, DiePipe
<1>4. /\ (BeforeCallback' <=> BeforeCallback) /\ (AfterCallback' <=> AfterCallback)
      /\ (AttachOk' <=> AttachOk)
  BY <1>1 DEF BeforeCallback, AfterCallback, AttachOk
<1>5. OutputsAreLater' BY <1>1, <1>3, <1>4 DEF ScreenInv, OutputsAreLater
<1>6. CallbackAfterAnswer' BY <1>1, <1>4 DEF ScreenInv, CallbackAfterAnswer
<1>7. HistoryThenOutputs' BY <1>1 DEF ScreenInv, HistoryThenOutputs
<1>8. GoesOn' BY <1>1, <1>2, <1>3 DEF ScreenInv, GoesOn
<1> QED BY <1>5, <1>6, <1>7, <1>8 DEF ScreenInv

LEMMA BroadcastScreen == Data /\ PipeInv /\ ScreenInv /\ BroadcastChunk => ScreenInv'
<1> SUFFICES ASSUME Data, PipeInv, ScreenInv, BroadcastChunk PROVE ScreenInv'
  OBVIOUS
<1>1. /\ UNCHANGED <<m_onEvent, shown, promise, main, command, history, subscribed>>
      /\ told' = told + 1 /\ told \in Nat /\ history \in Int
  BY BoundsAssumption DEF BroadcastChunk, state, call, Data
<1>2. OnTheWay' = OnTheWay \cup (IF subscribed THEN {told + 1} ELSE {}) BY BroadcastPipe
<1>3. /\ (BeforeCallback' <=> BeforeCallback) /\ (AfterCallback' <=> AfterCallback)
      /\ (AttachOk' <=> AttachOk)
  BY <1>1 DEF BeforeCallback, AfterCallback, AttachOk
<1>4. history <= told + 1 BY <1>1 DEF PipeInv, WrittenFirst, Data
<1>5. OutputsAreLater' BY <1>1, <1>2, <1>3, <1>4 DEF ScreenInv, OutputsAreLater
<1>6. CallbackAfterAnswer' BY <1>1, <1>3 DEF ScreenInv, CallbackAfterAnswer
<1>7. HistoryThenOutputs' BY <1>1 DEF ScreenInv, HistoryThenOutputs
<1>8. GoesOn'
  <2>1. CASE ~subscribed BY <1>1, <1>2, <2>1 DEF ScreenInv, GoesOn
  <2>2. CASE subscribed
    <3> SUFFICES ASSUME m_onEvent, history < Len(shown)
                 PROVE \A n \in OnTheWay' : /\ shown[Len(shown)] < n
                                            /\ shown[Len(shown)] + 1 .. n \subseteq OnTheWay'
      BY <1>1, <1>2, <2>2 DEF GoesOn
    <3>1. shown[Len(shown)] \in Int
      <4>1. AttachOk BY DEF ScreenInv, CallbackAfterAnswer
      <4>2. history >= 0 BY <4>1 DEF ScreenInv, OutputsAreLater
      <4>3. Len(shown) \in 1 .. Len(shown) BY <1>1, <4>2 DEF Data
      <4>4. shown[Len(shown)] \in 1 .. MaxChunks BY <4>3, ElementOfSeq DEF Data
      <4> QED BY <4>4
    <3>2. \A n \in OnTheWay : /\ shown[Len(shown)] < n
                              /\ shown[Len(shown)] + 1 .. n \subseteq OnTheWay
      BY DEF ScreenInv, GoesOn
    <3>3. shown[Len(shown)] <= told /\ shown[Len(shown)] + 1 .. told \subseteq OnTheWay
      <4>1. CASE OnTheWay = {}
        <5>1. told = shown[Len(shown)] BY <2>2, <4>1 DEF ScreenInv, GoesOn
        <5> QED BY <3>1, <5>1
      <4>2. CASE OnTheWay # {}
        <5>1. told \in OnTheWay BY <2>2, <4>2 DEF PipeInv, OutputsFollow
        <5> QED BY <1>1, <3>1, <3>2, <5>1
      <4> QED BY <4>1, <4>2
    <3>4. shown[Len(shown)] + 1 .. told + 1 \subseteq OnTheWay'
      BY <1>1, <1>2, <2>2, <3>1, <3>3
    <3>5. shown[Len(shown)] < told + 1 BY <1>1, <3>1, <3>3
    <3> QED BY <1>2, <2>2, <3>2, <3>4, <3>5
  <2> QED BY <2>1, <2>2
<1> QED BY <1>5, <1>6, <1>7, <1>8 DEF ScreenInv

LEMMA ScreenStep ==
    Labels /\ Data /\ ThreadsInv /\ PipeInv /\ ScreenInv /\ [Next]_vars => ScreenInv'
<1> SUFFICES ASSUME Labels, Data, ThreadsInv, PipeInv, ScreenInv, [Next]_vars PROVE ScreenInv'
  OBVIOUS
<1>1. CASE Show BY <1>1, ShowScreen
<1>2. CASE SetEvent BY <1>2, SetEventScreen
<1>3. CASE HandleResponse BY <1>3, HandleResponseScreen
<1>4. CASE HandleEvent BY <1>4, HandleEventScreen
<1>5. CASE DaemonStep \/ Die BY <1>5, SubscribeScreen, UnsubscribeScreen DEF DaemonStep
<1>6. CASE BroadcastChunk BY <1>6, BroadcastScreen
<1>7. CASE CalmScreen BY <1>7, CalmScreenStep
<1> QED
  BY <1>1, <1>2, <1>3, <1>4, <1>5, <1>6, <1>7, MainIsCalmScreen, OthersAreCalmScreen
  DEF Next, MainStep, ReaderStep

-----------------------------------------------------------------------------
(* The invariant *)

LEMMA InitInv == Init => Inv
<1> SUFFICES ASSUME Init PROVE Inv
  OBVIOUS
<1>1. Flags BY DEF Init, Flags
<1>2. Labels BY DEF Init, Labels, MainLabels, ReaderLabels, Ids
<1>3. Data BY MessageTypes, BoundsAssumption DEF Init, Data
<1>4. ThreadsInv
  BY DEF Init, ThreadsInv, RequestNumbers, ReaderHolds, ReaderIsJoined, OnlyCurrentIsPending
<1>5. Places = {0} /\ OnTheWay = {} /\ ~AttachOk /\ ~AttachWaits
      /\ \A i \in Places : ~IsOutput(At(i)) /\ ~IsAttached(At(i))
  <2>1. Places = {0} /\ At(0) = Nothing BY DEF Init, Places, At
  <2>2. promise[1] = Nothing BY BoundsAssumption DEF Init, Ids
  <2>3. ~AttachOk BY <2>2 DEF AttachOk, Nothing, Event
  <2> QED BY <2>1, <2>3, MessageTypes DEF Init, OnTheWay, AttachWaits
<1>6. PipeInv
  <2>1. AttachIsFirst BY DEF Init, AttachIsFirst
  <2>2. QuietBefore BY <1>5 DEF Init, QuietBefore
  <2>3. OutputsAscend /\ OutputsFollow BY <1>5 DEF OutputsAscend, OutputsFollow
  <2>4. WrittenFirst BY BoundsAssumption DEF Init, WrittenFirst
  <2>5. AnswerIsHistory BY <1>5 DEF AnswerIsHistory
  <2> QED BY <2>1, <2>2, <2>3, <2>4, <2>5 DEF PipeInv
<1>7. ScreenInv
  BY <1>5 DEF Init, ScreenInv, OutputsAreLater, CallbackAfterAnswer, BeforeCallback,
              AfterCallback, Requesting, HistoryThenOutputs, GoesOn
<1> QED BY <1>1, <1>2, <1>3, <1>4, <1>6, <1>7, TypeParts DEF Inv

LEMMA InvStep == Inv /\ [Next]_vars => Inv'
<1> SUFFICES ASSUME Inv, [Next]_vars PROVE Inv'
  OBVIOUS
<1>1. Labels /\ Data BY TypeParts DEF Inv
<1>2. TypeOK' BY TypeStep DEF Inv, ThreadsInv, PipeInv
<1>3. ThreadsInv' BY <1>1, ThreadsStep DEF Inv
<1>4. PipeInv' BY <1>1, PipeStep DEF Inv
<1>5. ScreenInv' BY <1>1, ScreenStep DEF Inv
<1> QED BY <1>2, <1>3, <1>4, <1>5 DEF Inv

\* What is shown follows from the screen's part of the invariant.
LEMMA InvShows == Inv => ShownInOrder
<1> SUFFICES ASSUME Inv, NEW i \in 2 .. Len(shown)
             PROVE \/ shown[i] = shown[i - 1] + 1
                   \/ i = promise[1].chunk + 1 /\ shown[i - 1] <= shown[i]
  BY DEF ShownInOrder
<1>1. shown \in Seq(1 .. MaxChunks) /\ history \in Int BY BoundsAssumption, TypeParts DEF Inv, Data
<1>2. shown # <<>> BY <1>1
<1>3. m_onEvent \/ main = "setEvent" BY <1>2 DEF Inv, ScreenInv, CallbackAfterAnswer
<1>4. AttachOk BY <1>3 DEF Inv, ScreenInv, CallbackAfterAnswer
<1>5. history >= 0 /\ promise[1].chunk = history BY <1>4 DEF Inv, ScreenInv, OutputsAreLater
<1>6. /\ Len(shown) >= history
      /\ \A k \in 1 .. history : shown[k] = k
      /\ \A k \in history + 1 .. Len(shown) : history <= shown[k]
      /\ \A k \in history + 2 .. Len(shown) : shown[k] = shown[k - 1] + 1
  BY <1>3 DEF Inv, ScreenInv, HistoryThenOutputs
<1>7. i \in 1 .. Len(shown) /\ i - 1 \in 1 .. Len(shown) BY <1>1
<1>8. shown[i] \in Int /\ shown[i - 1] \in Int
  <2>1. shown[i] \in 1 .. MaxChunks /\ shown[i - 1] \in 1 .. MaxChunks
    BY <1>1, <1>7, ElementOfSeq
  <2> QED BY <2>1
<1>9. CASE i <= history
  <2>1. shown[i] = i /\ shown[i - 1] = i - 1 BY <1>1, <1>5, <1>6, <1>9
  <2> QED BY <1>8, <2>1
<1>10. CASE i = history + 1
  <2>1. history <= shown[i] BY <1>1, <1>6, <1>10
  <2>2. shown[i - 1] = history BY <1>1, <1>5, <1>6, <1>10
  <2> QED BY <1>5, <1>10, <2>1, <2>2
<1>11. CASE i >= history + 2
  <2>1. shown[i] = shown[i - 1] + 1 BY <1>1, <1>6, <1>11
  <2> QED BY <1>8, <2>1
<1> QED BY <1>1, <1>9, <1>10, <1>11

\* The state is always consistent: the requests, the pipe and the screen.
THEOREM InvHolds == Spec => []Inv
<1>1. Init => Inv BY InitInv
<1>2. Inv /\ [Next]_vars => Inv' BY InvStep
<1> QED BY <1>1, <1>2, PTL DEF Spec

\* Every variable of the client, of the pipe and of the daemon keeps its type.
THEOREM TypeCorrect == Spec => []TypeOK
<1>1. Inv => TypeOK BY DEF Inv
<1> QED BY <1>1, InvHolds, PTL

\* An attached user sees the history, then later output in order and without a gap,
\* though events are handled while cmdAttach is still setting its callback and a chunk
\* may be in the history before it is broadcast.  Only there, right after the history,
\* may chunks be missing or the last one come twice.
THEOREM ScreenInOrder == Spec => []ShownInOrder
<1>1. Inv => ShownInOrder BY InvShows
<1> QED BY <1>1, InvHolds, PTL

\* A request is pending exactly while request waits for it: a late answer is dropped.
THEOREM CurrentIsPending == Spec => []OnlyCurrentIsPending
<1>1. Inv => OnlyCurrentIsPending BY DEF Inv, ThreadsInv
<1> QED BY <1>1, InvHolds, PTL
=============================================================================
