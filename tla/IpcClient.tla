------------------------------- MODULE IpcClient -------------------------------
(***************************************************************************)
(* The client end of a session: IPC/IpcClient.cpp as `th attach' uses it    *)
(* (CLI/CliApp.cpp, cmdAttach).  The main thread connects, sends requests   *)
(* and waits for their answers; the read thread of the client receives      *)
(* answers and events from the pipe.  The daemon answers in order, as its   *)
(* handlers do; it writes a chunk of output to the history and then sends   *)
(* it to a subscribed client; it may die at any time.                       *)
(*                                                                          *)
(* A message is read whole: the lines and what m_lineBuffer holds of them   *)
(* are left out, and so is the wait of _sendRaw for its write.  Chunks of   *)
(* output are numbered in the order they are printed.                       *)
(***************************************************************************)
EXTENDS Integers, Sequences

CONSTANTS MaxRequests,  \* bound on the requests sent: attach, inputs, detach
          MaxChunks,    \* bound on the chunks the session prints
          DaemonDies    \* whether the daemon may go away

ASSUME BoundsAssumption == /\ MaxRequests \in Nat \ {0, 1} /\ MaxChunks \in Nat
                           /\ DaemonDies \in BOOLEAN

VARIABLES
  m_running, m_pendingRequests, m_onEvent, m_onDisconnect,
  promise,      \* per request: the answer that set it, or nothing yet
  exiting,      \* ctx->exiting
  main, reader, \* where the two threads are
  id, command,  \* the request in progress
  message,      \* what the read thread is handling
  shown,        \* the chunks on the screen
  requests, replies,            \* the two directions of the pipe
  up, subscribed, history,      \* the daemon: its listener, what attach read
  printed, told, exited         \* the session: chunks in its history, broadcast

state == <<m_running, m_pendingRequests, m_onEvent, m_onDisconnect, promise, exiting>>
call == <<id, command>>
daemon == <<up, subscribed, history, printed, told, exited>>
pipe == <<requests, replies>>
vars == <<state, main, reader, call, message, shown, pipe, daemon>>

Ids == 1 .. MaxRequests
MainLabels == {"connect", "register", "send", "getFuture", "wait", "cleanup", "show",
               "setEvent", "setDisconnect", "loop", "console", "disconnect", "cancel",
               "join", "close", "returned", "crashed"}
ReaderLabels == {"off", "check", "read", "pending", "handle", "lost", "callback", "ended"}

Response(i, answer, h) == [type |-> "response", id |-> i, answer |-> answer, chunk |-> h]
Event(type, n) == [type |-> type, id |-> 0, answer |-> "none", chunk |-> n]
Nothing == Event("none", 0)
Messages == [type : {"response", "output", "exit", "none"}, id : Ids \cup {0},
             answer : {"ok", "error", "rejected", "none"}, chunk : 0 .. MaxChunks]

TypeOK ==
    /\ m_running \in BOOLEAN /\ m_onEvent \in BOOLEAN /\ m_onDisconnect \in BOOLEAN
    /\ m_pendingRequests \subseteq Ids
    /\ promise \in [Ids -> Messages]
    /\ exiting \in BOOLEAN /\ up \in BOOLEAN /\ subscribed \in BOOLEAN
    /\ history \in -1 .. MaxChunks /\ exited \in BOOLEAN
    /\ main \in MainLabels /\ reader \in ReaderLabels
    /\ id \in Ids \cup {0}
    /\ command \in {"attach", "input", "detach"}
    /\ message \in Messages /\ replies \in Seq(Messages)
    /\ requests \in Seq([id : Ids, command : {"attach", "input", "detach"}])
    /\ shown \in Seq(1 .. MaxChunks)
    /\ printed \in 0 .. MaxChunks /\ told \in 0 .. MaxChunks

Init ==
    /\ m_running = FALSE /\ m_pendingRequests = {}
    /\ m_onEvent = FALSE /\ m_onDisconnect = FALSE
    /\ promise = [i \in Ids |-> Nothing]
    /\ exiting = FALSE
    /\ main = "connect" /\ reader = "off"
    /\ id = 0 /\ command = "attach"
    /\ message = Nothing /\ shown = <<>>
    /\ requests = <<>> /\ replies = <<>>
    /\ up = TRUE /\ subscribed = FALSE /\ history = -1
    /\ printed \in 0 .. MaxChunks /\ told = printed /\ exited \in BOOLEAN

-----------------------------------------------------------------------------
(* request *)

\* Mutant: the callback is set as soon as the client is connected.
ConnectWithCallback ==
    /\ main = "connect" /\ up
    /\ main' = "register" /\ reader' = "check" /\ m_running' = TRUE /\ m_onEvent' = TRUE
    /\ UNCHANGED <<m_pendingRequests, m_onDisconnect, promise, exiting, call, message,
                   shown, pipe, daemon>>

\* connect opens the pipe and starts the read thread.
Connect ==
    /\ main = "connect"
    /\ IF up THEN main' = "register" /\ reader' = "check" /\ m_running' = TRUE
             ELSE main' = "returned" /\ UNCHANGED <<reader, m_running>>
    /\ UNCHANGED <<m_pendingRequests, m_onEvent, m_onDisconnect, promise, exiting, call,
                   message, shown, pipe, daemon>>

Register ==
    /\ main = "register"
    /\ id' = id + 1
    /\ m_pendingRequests' = m_pendingRequests \cup {id + 1}
    /\ main' = "send"
    /\ UNCHANGED <<m_running, m_onEvent, m_onDisconnect, promise, exiting, reader, command,
                   message, shown, pipe, daemon>>

\* _sendRaw: a write to a broken pipe fails, and nobody looks.
SendRaw ==
    /\ main = "send"
    /\ requests' = IF up THEN Append(requests, [id |-> id, command |-> command])
                   ELSE requests
    /\ main' = "getFuture"
    /\ UNCHANGED <<state, reader, call, message, shown, replies, daemon>>

\* The answer may come before the future is taken: the promise keeps it.
GetFuture ==
    /\ main = "getFuture"
    /\ main' = "wait"
    /\ UNCHANGED <<state, reader, call, message, shown, pipe, daemon>>

Answered == main = "wait" /\ promise[id] # Nothing

FutureReady ==
    /\ Answered
    /\ main' = "cleanup"
    /\ UNCHANGED <<state, reader, call, message, shown, pipe, daemon>>

\* Mutant: the request that timed out stays in the map.
TimesOutQuietly ==
    /\ main = "wait" /\ command = "attach"
    /\ main' = "disconnect"
    /\ UNCHANGED <<state, reader, call, message, shown, pipe, daemon>>

\* Only attach has a timeout; the command gives up when it expires.
TimesOut ==
    /\ main = "wait" /\ command = "attach" /\ ~Answered
    /\ m_pendingRequests' = m_pendingRequests \ {id}
    /\ main' = "disconnect"
    /\ UNCHANGED <<m_running, m_onEvent, m_onDisconnect, promise, exiting, reader, call,
                   message, shown, pipe, daemon>>

\* After an input the command may have more of the batch of records that it read.
AfterRequest ==
    CASE command = "attach" -> {IF promise[id].answer = "ok" THEN "show" ELSE "disconnect"}
      [] command = "input"  -> {"loop", "console"}
      [] command = "detach" -> {"disconnect"}

Cleanup ==
    /\ main = "cleanup"
    /\ m_pendingRequests' = m_pendingRequests \ {id}
    /\ main' \in AfterRequest
    /\ UNCHANGED <<m_running, m_onEvent, m_onDisconnect, promise, exiting, reader, call,
                   message, shown, pipe, daemon>>

-----------------------------------------------------------------------------
(* cmdAttach, once the attach request has been answered *)

Show ==
    /\ main = "show"
    /\ shown' = shown \o [i \in 1 .. promise[id].chunk |-> i]
    /\ main' = "setEvent"
    /\ UNCHANGED <<state, reader, call, message, pipe, daemon>>

\* The callbacks are set without a lock: a read thread that is testing or calling
\* one meanwhile races with it.
GotoOrCrash(label, race) == main' \in {label} \cup (IF race THEN {"crashed"} ELSE {})

SetEvent ==
    /\ main = "setEvent"
    /\ m_onEvent' = TRUE
    /\ GotoOrCrash("setDisconnect",
                   reader = "handle" /\ message.type \in {"output", "exit"})
    /\ UNCHANGED <<m_running, m_pendingRequests, m_onDisconnect, promise, exiting, reader,
                   call, message, shown, pipe, daemon>>

SetDisconnect ==
    /\ main = "setDisconnect"
    /\ m_onDisconnect' = TRUE
    /\ GotoOrCrash("loop", reader = "callback")
    /\ UNCHANGED <<m_running, m_pendingRequests, m_onEvent, promise, exiting, reader, call,
                   message, shown, pipe, daemon>>

\* exiting is looked at between batches of console events only.
Loop ==
    /\ main = "loop"
    /\ IF exiting THEN main' = "register" /\ command' = "detach"
                  ELSE main' = "console" /\ UNCHANGED command
    /\ UNCHANGED <<state, reader, id, message, shown, pipe, daemon>>

\* A key, Ctrl+D, the end of a batch that sends nothing more, or a read that fails.
ConsoleEvent ==
    /\ main = "console"
    /\ \/ /\ id < MaxRequests - 1
          /\ main' = "register" /\ command' = "input" /\ UNCHANGED exiting
       \/ main' = "loop" /\ exiting' = TRUE /\ UNCHANGED command
       \/ main' = "loop" /\ UNCHANGED <<exiting, command>>
       \/ main' = "register" /\ command' = "detach" /\ UNCHANGED exiting
    /\ UNCHANGED <<m_running, m_pendingRequests, m_onEvent, m_onDisconnect, promise, reader,
                   id, message, shown, pipe, daemon>>

-----------------------------------------------------------------------------
(* disconnect, called by the command or by the destructor *)

StopRunning ==
    /\ main = "disconnect"
    /\ m_running' = FALSE
    /\ main' = "cancel"
    /\ UNCHANGED <<m_pendingRequests, m_onEvent, m_onDisconnect, promise, exiting, reader,
                   call, message, shown, pipe, daemon>>

\* CancelIoEx reaches only a read that has been issued.
CancelIo ==
    /\ main = "cancel"
    /\ main' = "join"
    /\ reader' = IF reader = "pending" THEN "lost" ELSE reader
    /\ UNCHANGED <<state, call, message, shown, pipe, daemon>>

\* Mutant: the read thread is detached.
DetachReader ==
    /\ main = "join"
    /\ main' = "close"
    /\ UNCHANGED <<state, reader, call, message, shown, pipe, daemon>>

JoinReader ==
    /\ main = "join" /\ reader = "ended"
    /\ main' = "close"
    /\ UNCHANGED <<state, reader, call, message, shown, pipe, daemon>>

\* CloseHandle, then the pending requests are rejected.
ClosePipe ==
    /\ main = "close"
    /\ promise' = [i \in Ids |-> IF i \in m_pendingRequests THEN Response(i, "rejected", 0) ELSE promise[i]]
    /\ m_pendingRequests' = {}
    /\ main' = "returned"
    /\ UNCHANGED <<m_running, m_onEvent, m_onDisconnect, exiting, reader, call, message,
                   shown, pipe, daemon>>

-----------------------------------------------------------------------------
(* _readThreadFunc and _handleData *)

CheckRunning ==
    /\ reader = "check"
    /\ reader' = IF m_running THEN "read" ELSE "lost"
    /\ UNCHANGED <<state, main, call, message, shown, pipe, daemon>>

\* ReadFile completes with a message, fails on a broken pipe, or is pending.
TakeReply ==
    /\ replies # <<>>
    /\ message' = Head(replies) /\ replies' = Tail(replies)
    /\ reader' = "handle"

ReadPipe ==
    /\ reader \in {"read", "pending"}
    /\ \/ TakeReply
       \/ /\ replies = <<>> /\ (~up \/ reader = "read")
          /\ reader' = IF up THEN "pending" ELSE "lost"
          /\ UNCHANGED <<message, replies>>
    /\ UNCHANGED <<state, main, call, shown, requests, daemon>>

\* Mutant: the answer is kept only for a thread that is already waiting for it.
SetIfWaiting ==
    /\ reader = "handle" /\ message.type = "response"
    /\ promise' = IF message.id \in m_pendingRequests /\ main = "wait"
                  THEN [promise EXCEPT ![message.id] = message] ELSE promise
    /\ message' = Nothing
    /\ reader' = "check"
    /\ UNCHANGED <<m_running, m_pendingRequests, m_onEvent, m_onDisconnect, exiting, main,
                   call, shown, pipe, daemon>>

\* An answer to a request that is not pending is dropped.
HandleResponse ==
    /\ reader = "handle" /\ message.type = "response"
    /\ promise' = IF message.id \in m_pendingRequests
                  THEN [promise EXCEPT ![message.id] = message] ELSE promise
    /\ message' = Nothing
    /\ reader' = "check"
    /\ UNCHANGED <<m_running, m_pendingRequests, m_onEvent, m_onDisconnect, exiting, main,
                   call, shown, pipe, daemon>>

\* Without a callback the event is dropped.
HandleEvent ==
    /\ reader = "handle" /\ message.type \in {"output", "exit"}
    /\ shown' = IF m_onEvent /\ message.type = "output"
                THEN Append(shown, message.chunk) ELSE shown
    /\ exiting' = (exiting \/ (m_onEvent /\ message.type = "exit"))
    /\ message' = Nothing
    /\ reader' = "check"
    /\ UNCHANGED <<m_running, m_pendingRequests, m_onEvent, m_onDisconnect, promise, main,
                   call, pipe, daemon>>

LeaveLoop ==
    /\ reader = "lost"
    /\ m_running' = FALSE
    /\ reader' = "callback"
    /\ UNCHANGED <<m_pendingRequests, m_onEvent, m_onDisconnect, promise, exiting, main,
                   call, message, shown, pipe, daemon>>

NotifyLost ==
    /\ reader = "callback"
    /\ exiting' = (exiting \/ m_onDisconnect)
    /\ reader' = "ended"
    /\ UNCHANGED <<m_running, m_pendingRequests, m_onEvent, m_onDisconnect, promise, main,
                   call, message, shown, pipe, daemon>>

-----------------------------------------------------------------------------
(* The daemon: its handlers, and the output of the session *)

\* attach subscribes the client, then reads the history, then answers; an unknown
\* session is an error, for an input too.
Asked(command_) == up /\ requests # <<>> /\ Head(requests).command = command_

Subscribe ==
    /\ Asked("attach") /\ ~subscribed
    /\ subscribed' = TRUE
    /\ UNCHANGED <<state, main, reader, call, message, shown, pipe, up, history, printed,
                   told, exited>>

ReadHistory ==
    /\ Asked("attach") /\ subscribed /\ history = -1
    /\ history' = printed
    /\ UNCHANGED <<state, main, reader, call, message, shown, pipe, up, subscribed,
                   printed, told, exited>>

Reply(answer, chunk) ==
    /\ replies' = Append(replies, Response(Head(requests).id, answer, chunk))
    /\ requests' = Tail(requests)

Answer ==
    /\ \/ Asked("attach") /\ history # -1 /\ Reply("ok", history) /\ UNCHANGED subscribed
       \/ Asked("attach") /\ ~subscribed /\ Reply("error", 0) /\ UNCHANGED subscribed
       \/ Asked("input") /\ (Reply("ok", 0) \/ Reply("error", 0)) /\ UNCHANGED subscribed
       \/ Asked("detach") /\ Reply("ok", 0) /\ subscribed' = FALSE
    /\ UNCHANGED <<state, main, reader, call, message, shown, up, history, printed, told,
                   exited>>

Send(event) == replies' = IF subscribed THEN Append(replies, event) ELSE replies

\* A chunk is written to the history, then broadcast: an attach may come between.
WriteChunk ==
    /\ up /\ ~exited /\ told = printed /\ printed < MaxChunks
    /\ printed' = printed + 1
    /\ UNCHANGED <<state, main, reader, call, message, shown, pipe, up, subscribed, history,
                   told, exited>>

BroadcastChunk ==
    /\ up /\ told < printed
    /\ told' = told + 1
    /\ Send(Event("output", told + 1))
    /\ UNCHANGED <<state, main, reader, call, message, shown, requests, up, subscribed,
                   history, printed, exited>>

SessionExits ==
    /\ up /\ ~exited
    /\ exited' = TRUE
    /\ Send(Event("exit", 0))
    /\ UNCHANGED <<state, main, reader, call, message, shown, requests, up, subscribed,
                   history, printed, told>>

Die ==
    /\ DaemonDies /\ up
    /\ up' = FALSE /\ subscribed' = FALSE /\ requests' = <<>>
    /\ UNCHANGED <<state, main, reader, call, message, shown, replies, history, printed,
                   told, exited>>

-----------------------------------------------------------------------------
MainStep == \/ Connect \/ Register \/ SendRaw \/ GetFuture \/ FutureReady \/ Cleanup
            \/ Show \/ SetEvent \/ SetDisconnect \/ Loop
            \/ StopRunning \/ CancelIo \/ JoinReader \/ ClosePipe

ReaderStep == \/ CheckRunning \/ ReadPipe \/ HandleResponse \/ HandleEvent
              \/ LeaveLoop \/ NotifyLost

DaemonStep == Subscribe \/ ReadHistory \/ Answer

Next == /\ main # "crashed"
        /\ \/ MainStep \/ TimesOut \/ ConsoleEvent \/ ReaderStep
           \/ DaemonStep \/ WriteChunk \/ BroadcastChunk \/ SessionExits \/ Die

Spec == Init /\ [][Next]_vars

\* The threads run until they block, a daemon that is up answers, and a timeout
\* expires.  What the user types and the session prints is free.
Fairness == /\ WF_vars(MainStep) /\ WF_vars(TimesOut)
            /\ WF_vars(main # "crashed" /\ ReaderStep)
            /\ WF_vars(main # "crashed" /\ DaemonStep)

FairSpec == Spec /\ Fairness

-----------------------------------------------------------------------------
(* What holds *)

\* The screen shows the history, then the chunks that came as events, in order: each is
\* the next one, but right after the history.  There chunks may be missing, those whose
\* events came before the callback was set; or the last of the history comes again, its
\* broadcast having been under way while attach subscribed and read it.
ShownInOrder ==
    \A i \in 2 .. Len(shown) :
        \/ shown[i] = shown[i - 1] + 1
        \/ i = promise[1].chunk + 1 /\ shown[i - 1] <= shown[i]

\* When the command returns, or closes the pipe, the read thread has ended: the
\* callbacks it may call refer to the variables of cmdAttach.
ReaderIsJoined == main \in {"close", "returned"} => reader \in {"off", "ended"}

\* Only the request in progress is pending: an answer that comes after a timeout
\* finds nothing, and disconnect has nothing to reject.
OnlyCurrentIsPending ==
    m_pendingRequests = IF main \in {"send", "getFuture", "wait", "cleanup"} THEN {id} ELSE {}

\* A request to a daemon that stays returns, however early the answer comes.
RequestReturns == main = "wait" ~> (main # "wait" \/ ~up)

-----------------------------------------------------------------------------
(* What the repository says of it, and the code does not keep *)

\* A request whose daemon is gone fails ("Response data, or error on failure",
\* IpcClient.hpp).
LostRequestReturns == main = "wait" /\ ~up ~> main # "wait"

\* An attached client sees the history and all the output since ("Subscribe to
\* session output", "Return history output", DaemonMain.cpp).
NoOutputDropped ==
    main = "console" /\ replies = <<>> /\ message = Nothing /\ subscribed =>
        \A n \in 1 .. told : \E i \in DOMAIN shown : shown[i] = n

\* The disconnect callback is "called when connection to daemon is lost"
\* (IpcClient.hpp).
LossIsReported == main = "console" /\ reader = "ended" => exiting

\* disconnect returns: "Cancel IO to let ReadFile exit" (IpcClient.cpp).
DisconnectReturns == main = "disconnect" ~> main = "returned"
=============================================================================
