-------------------------------- MODULE ConPty --------------------------------
(***************************************************************************)
(* One terminal: PTY/ConPty.cpp, and the callbacks SessionManager gives it. *)
(* Its owner creates it, sets the callbacks and destroys it; the read       *)
(* thread passes on what the shell prints; the watch thread waits for the   *)
(* shell to end.  The destructor runs on a thread of the daemon, or inside  *)
(* the exit callback, on the watch thread itself.                           *)
(*                                                                          *)
(* Printed bytes are numbered.  Handles are named; what matters is which    *)
(* are open, which the object holds, and which are closed a second time.    *)
(***************************************************************************)
EXTENDS Integers, Sequences

CONSTANTS MaxBytes,      \* bound on what the shell prints
          BufferSize,    \* what one ReadFile takes (4095 bytes in the code)
          Continuations  \* the bytes that continue a character of more than one byte

ASSUME BytesAssumption == /\ MaxBytes \in Nat /\ BufferSize \in Nat \ {0}
                          /\ Continuations \subseteq 2 .. MaxBytes

VARIABLES
  m_handles,   \* the handles the object holds: the m_h fields that are not null
  m_running, m_onOutput, m_onExit,
  open, twice, \* the handles that are open; those that were closed when they were not
  owner, reader, watcher,   \* where the threads are
  inside,      \* whether the destructor runs inside the exit callback
  failedAt,    \* the step at which create failed
  late,        \* the threads the destructor did not wait for to the end
  slipped,     \* whether a read was issued between the cancellation and the closing
  shell,       \* "none", "runs", "ended"
  printed, taken,           \* the bytes the shell has printed, and those that were read
  chunk, delivered,         \* what ReadFile returned; what the callback was given
  attached     \* whether a client listens to the session

fields == <<m_handles, m_running, m_onOutput, m_onExit>>
handles == <<open, twice>>
output == <<printed, taken, chunk, delivered, attached>>
notes == <<inside, failedAt, late, slipped>>
vars == <<fields, handles, owner, reader, watcher, notes, shell, output>>

OwnHandles == {"pc", "in", "out", "process", "reader", "watcher"}
Handles == OwnHandles \cup {"ptyIn", "ptyOut"}
CreateLabels == {"input pipe", "output pipe", "console", "attribute", "spawn",
                 "start reader", "start watcher"}
OwnerLabels == {"options", "set output", "set exit", "ready", "close in",
                "cancel out", "close out", "blocked", "join reader", "join watcher",
                "close console", "close process", "gone", "crashed"} \cup CreateLabels
Chunks == [first : 1 .. MaxBytes, last : 1 .. MaxBytes]
NoChunk == [first |-> 1, last |-> 0]

TypeOK ==
    /\ m_handles \subseteq OwnHandles /\ open \subseteq Handles /\ twice \subseteq Handles
    /\ {m_running, m_onOutput, m_onExit, inside, slipped, attached} \subseteq BOOLEAN
    /\ owner \in OwnerLabels
    /\ reader \in {"off", "check", "read", "pending", "deliver", "ended"}
    /\ watcher \in {"off", "wait", "notify", "callback", "ended"}
    /\ failedAt \in {"none"} \cup CreateLabels
    /\ late \subseteq {"reader", "watcher"}
    /\ shell \in {"none", "runs", "ended"}
    /\ printed \in 0 .. MaxBytes /\ taken \in 0 .. printed
    /\ chunk \in Chunks \cup {NoChunk}
    /\ delivered \in Seq(Chunks)

Init ==
    /\ m_handles = {} /\ open = {} /\ twice = {}
    /\ m_running = FALSE /\ m_onOutput = FALSE /\ m_onExit = FALSE /\ inside = FALSE
    /\ slipped = FALSE
    /\ owner = "options" /\ reader = "off" /\ watcher = "off"
    /\ failedAt = "none" /\ late = {} /\ shell = "none"
    /\ printed = 0 /\ taken = 0 /\ chunk = NoChunk /\ delivered = <<>>
    /\ attached \in BOOLEAN

Opened(hs) == open' = open \cup hs /\ UNCHANGED twice
Close(hs) == open' = open \ hs /\ twice' = twice \cup (hs \ open)

-----------------------------------------------------------------------------
(* ConPty::create *)

\* The object exists from here on: to return an error is to run its destructor.
Fails == /\ failedAt' = owner /\ owner' = "close in"
         /\ UNCHANGED <<fields, inside, late, slipped, shell>>

CheckOptions ==
    /\ owner = "options"
    /\ owner' \in {"input pipe", "gone"}
    /\ UNCHANGED <<fields, handles, reader, watcher, notes, shell, output>>

CreateInputPipe ==
    /\ owner = "input pipe"
    /\ \/ Fails /\ UNCHANGED handles
       \/ /\ Opened({"ptyIn", "in"})
          /\ owner' = "output pipe"
          /\ UNCHANGED <<fields, notes, shell>>
    /\ UNCHANGED <<reader, watcher, output>>

CreateOutputPipeMutant ==         \* leaves the input pipe open
    /\ owner = "output pipe"
    /\ \/ Fails /\ UNCHANGED handles
       \/ /\ Opened({"ptyOut", "out"})
          /\ owner' = "console"
          /\ UNCHANGED <<fields, notes, shell>>
    /\ UNCHANGED <<reader, watcher, output>>

CreateOutputPipe ==
    /\ owner = "output pipe"
    /\ \/ Fails /\ Close({"ptyIn", "in"})
       \/ /\ Opened({"ptyOut", "out"})
          /\ owner' = "console"
          /\ UNCHANGED <<fields, notes, shell>>
    /\ UNCHANGED <<reader, watcher, output>>

CreateConsoleMutant ==      \* the object has the pipes before the console is there
    /\ owner = "console"
    /\ \/ /\ Close({"ptyIn", "in", "ptyOut", "out"}) /\ m_handles' = {"in", "out"}
          /\ failedAt' = owner /\ owner' = "close in"
          /\ UNCHANGED <<m_running, m_onOutput, m_onExit, inside, late, slipped, shell>>
       \/ /\ open' = (open \cup {"pc"}) \ {"ptyIn", "ptyOut"}
          /\ m_handles' = {"pc", "in", "out"}
          /\ owner' = "attribute"
          /\ UNCHANGED <<twice, m_running, m_onOutput, m_onExit, notes, shell>>
    /\ UNCHANGED <<reader, watcher, output>>

CreateConsole ==
    /\ owner = "console"
    /\ \/ Fails /\ Close({"ptyIn", "in", "ptyOut", "out"})
       \/ /\ open' = (open \cup {"pc"}) \ {"ptyIn", "ptyOut"}
          /\ m_handles' = {"pc", "in", "out"}
          /\ owner' = "attribute"
          /\ UNCHANGED <<twice, m_running, m_onOutput, m_onExit, notes, shell>>
    /\ UNCHANGED <<reader, watcher, output>>

\* These failures close the three handles and leave them in the object.
SetAttribute ==
    /\ owner = "attribute"
    /\ \/ Fails /\ Close({"pc", "in", "out"})
       \/ owner' = "spawn" /\ UNCHANGED <<fields, handles, notes, shell>>
    /\ UNCHANGED <<reader, watcher, output>>

CreateProcess ==
    /\ owner = "spawn"
    /\ \/ Fails /\ Close({"pc", "in", "out"})
       \/ /\ Opened({"process"})
          /\ m_handles' = m_handles \cup {"process"}
          /\ m_running' = TRUE /\ shell' = "runs"
          /\ owner' = "start reader"
          /\ UNCHANGED <<m_onOutput, m_onExit, notes>>
    /\ UNCHANGED <<reader, watcher, output>>

\* _beginthreadex may fail, and create does not look.
Start(thread) ==
    /\ Opened({thread})
    /\ m_handles' = m_handles \cup {thread}

StartReader ==
    /\ owner = "start reader"
    /\ \/ Start("reader") /\ reader' = "check"
       \/ UNCHANGED <<m_handles, handles, reader>>
    /\ owner' = "start watcher"
    /\ UNCHANGED <<m_running, m_onOutput, m_onExit, watcher, notes, shell, output>>

StartWatcher ==
    /\ owner = "start watcher"
    /\ \/ Start("watcher") /\ watcher' = "wait"
       \/ UNCHANGED <<m_handles, handles, watcher>>
    /\ owner' = "set output"
    /\ UNCHANGED <<m_running, m_onOutput, m_onExit, reader, notes, shell, output>>

\* SessionManager::createSession sets both, in this order, with the threads running.
SetOutput ==
    /\ owner = "set output"
    /\ m_onOutput' = TRUE
    /\ owner' = "set exit"
    /\ UNCHANGED <<m_handles, m_running, m_onExit, handles, reader, watcher, notes, shell,
                   output>>

SetExit ==
    /\ owner = "set exit"
    /\ m_onExit' = TRUE
    /\ owner' = "ready"
    /\ UNCHANGED <<m_handles, m_running, m_onOutput, handles, reader, watcher, notes, shell,
                   output>>

-----------------------------------------------------------------------------
(* ~ConPty *)

\* By a request or the end of the daemon, or by the exit callback.
Destroy ==
    /\ owner = "ready"
    /\ owner' = "close in"
    /\ inside' \in {FALSE, watcher = "callback"}
    /\ UNCHANGED <<fields, handles, reader, watcher, failedAt, late, slipped, shell, output>>

\* What the object holds of hs is closed and forgotten.
Release(hs) ==
    /\ Close(hs \cap m_handles)
    /\ m_handles' = m_handles \ hs

CloseIn ==
    /\ owner = "close in"
    /\ m_running' = FALSE
    /\ Release({"in"})
    /\ owner' = "cancel out"
    /\ UNCHANGED <<m_onOutput, m_onExit, reader, watcher, notes, shell, output>>

\* CancelIoEx: a read that is pending ends, unless it has just been given its bytes.
CancelOut ==
    /\ owner = "cancel out"
    /\ reader' \in IF reader # "pending" THEN {reader}
                   ELSE {"ended"} \cup (IF taken < printed THEN {"pending"} ELSE {})
    /\ owner' = "close out"
    /\ UNCHANGED <<fields, handles, watcher, notes, shell, output>>

CloseOutMutant ==           \* leaves the pipe to be closed with the console
    /\ owner = "close out"
    /\ owner' = "join reader"
    /\ UNCHANGED <<fields, handles, reader, watcher, notes, shell, output>>

\* A read that is issued later finds no handle; one that has been issued since the
\* cancellation goes on, and CloseHandle may wait for it.
CloseOut ==
    /\ owner = "close out"
    /\ Release({"out"})
    /\ owner' \in {"join reader"} \cup (IF reader = "pending" THEN {"blocked"} ELSE {})
    /\ UNCHANGED <<m_running, m_onOutput, m_onExit, reader, watcher, notes, shell, output>>

Unblock ==
    /\ owner = "blocked" /\ reader # "pending"
    /\ owner' = "join reader"
    /\ UNCHANGED <<fields, handles, reader, watcher, notes, shell, output>>

\* Three seconds for each thread: enough, unless it waits for something or is in a
\* callback.  It is then left to itself.
Join(thread, ended, waits, next) ==
    /\ ended \/ waits
    /\ late' = late \cup (IF ended THEN {} ELSE {thread})
    /\ Release({thread})
    /\ owner' = next
    /\ UNCHANGED <<m_running, m_onOutput, m_onExit, reader, watcher, inside, failedAt, slipped,
                   shell, output>>

JoinReader ==
    /\ owner = "join reader"
    /\ Join("reader", reader \in {"off", "ended"},
            reader = "deliver" \/ (reader = "pending" /\ taken = printed), "join watcher")

JoinWatcherMutant ==        \* waits without a limit
    /\ owner = "join watcher"
    /\ Join("watcher", watcher \in {"off", "ended"}, FALSE, "close console")

JoinWatcher ==
    /\ owner = "join watcher"
    /\ Join("watcher", watcher \in {"off", "ended"},
            watcher = "callback" \/ shell = "runs", "close console")

CloseConsole ==
    /\ owner = "close console"
    /\ Release({"pc"})
    /\ owner' = "close process"
    /\ shell' = IF shell = "runs" THEN "ended" ELSE shell
    /\ UNCHANGED <<m_running, m_onOutput, m_onExit, reader, watcher, notes, output>>

CloseProcess ==
    /\ owner = "close process"
    /\ Release({"process"})
    /\ owner' = "gone"
    /\ UNCHANGED <<m_running, m_onOutput, m_onExit, reader, watcher, notes, shell, output>>

-----------------------------------------------------------------------------
(* The read thread *)

CheckRunning ==
    /\ reader = "check"
    /\ reader' \in IF owner = "gone" THEN {"read", "ended"}   \* the object is freed
                   ELSE {IF m_running THEN "read" ELSE "ended"}
    /\ UNCHANGED <<fields, handles, owner, watcher, notes, shell, output>>

\* ReadFile is called: on a handle that is closed it fails.
IssueRead ==
    /\ reader = "read"
    /\ reader' = IF "out" \in open THEN "pending" ELSE "ended"
    /\ slipped' = (slipped \/ owner = "close out")
    /\ UNCHANGED <<fields, handles, owner, watcher, inside, failedAt, late, shell, output>>

ReadFileMutant ==           \* the last byte of the buffer is kept for a terminator
    /\ reader = "pending"
    /\ \/ /\ taken < printed
          /\ taken' = IF taken + BufferSize < printed THEN taken + BufferSize ELSE printed
          /\ chunk' = [first |-> taken + 1,
                       last |-> IF taken' = taken + BufferSize THEN taken' - 1 ELSE taken']
          /\ reader' = "deliver"
       \/ /\ "pc" \notin open /\ taken = printed
          /\ reader' = "ended"
          /\ UNCHANGED <<taken, chunk>>
    /\ UNCHANGED <<fields, handles, owner, watcher, notes, shell, printed, delivered, attached>>

\* It returns all there is, up to the size of the buffer, and fails when the console,
\* which has the other end of the pipe, is closed.
ReadFile ==
    /\ reader = "pending"
    /\ \/ /\ taken < printed
          /\ taken' = IF taken + BufferSize < printed THEN taken + BufferSize ELSE printed
          /\ chunk' = [first |-> taken + 1, last |-> taken']
          /\ reader' = "deliver"
       \/ /\ "pc" \notin open /\ taken = printed
          /\ reader' = "ended"
          /\ UNCHANGED <<taken, chunk>>
    /\ UNCHANGED <<fields, handles, owner, watcher, notes, shell, printed, delivered, attached>>

Cut(c) == c.first \in Continuations \/ (c.last + 1) \in Continuations

\* The callback sends the chunk to the clients as JSON; what is no UTF-8 makes dump
\* throw, and nothing on the thread catches it.
Deliver ==
    /\ reader = "deliver"
    /\ delivered' = IF m_onOutput THEN Append(delivered, chunk) ELSE delivered
    /\ owner' = IF m_onOutput /\ attached /\ Cut(chunk) THEN "crashed" ELSE owner
    /\ reader' = "check" /\ chunk' = NoChunk
    /\ UNCHANGED <<fields, handles, watcher, notes, shell, printed, taken, attached>>

-----------------------------------------------------------------------------
(* The watch thread *)

ShellEnded ==
    /\ watcher = "wait" /\ shell = "ended"
    /\ watcher' = "notify"
    /\ UNCHANGED <<fields, handles, owner, reader, notes, shell, output>>

CallOnExit ==
    /\ watcher = "notify"
    /\ watcher' \in IF owner = "gone" THEN {"callback", "ended"}   \* the object is freed
                    ELSE {IF m_onExit THEN "callback" ELSE "ended"}
    /\ UNCHANGED <<fields, handles, owner, reader, notes, shell, output>>

ExitHandled ==
    /\ watcher = "callback" /\ (inside => owner = "gone")
    /\ watcher' = "ended"
    /\ UNCHANGED <<fields, handles, owner, reader, notes, shell, output>>

-----------------------------------------------------------------------------
(* The shell (external) *)

PrintByte ==
    /\ shell = "runs" /\ printed < MaxBytes
    /\ printed' = printed + 1
    /\ UNCHANGED <<fields, handles, owner, reader, watcher, notes, shell, taken, chunk,
                   delivered, attached>>

\* It ends by itself, or by ConPty::kill.
EndShell ==
    /\ shell = "runs"
    /\ shell' = "ended"
    /\ UNCHANGED <<fields, handles, owner, reader, watcher, notes, output>>

-----------------------------------------------------------------------------
Create == \/ CheckOptions \/ CreateInputPipe \/ CreateOutputPipe \/ CreateConsole
          \/ SetAttribute \/ CreateProcess \/ StartReader \/ StartWatcher
          \/ SetOutput \/ SetExit

Destructor == \/ CloseIn \/ CancelOut \/ CloseOut \/ Unblock
              \/ JoinReader \/ JoinWatcher \/ CloseConsole \/ CloseProcess

ReaderStep == CheckRunning \/ IssueRead \/ ReadFile \/ Deliver
WatcherStep == ShellEnded \/ CallOnExit \/ ExitHandled

Next == /\ owner # "crashed"
        /\ \/ Create \/ Destroy \/ Destructor \/ ReaderStep \/ WatcherStep
           \/ PrintByte \/ EndShell

Spec == Init /\ [][Next]_vars

\* Threads run until they block; nobody has to destroy a terminal or end a shell.
FairSpec ==
    /\ Spec
    /\ WF_vars(owner # "crashed" /\ (Create \/ Destructor))
    /\ WF_vars(owner # "crashed" /\ ReaderStep)
    /\ WF_vars(owner # "crashed" /\ WatcherStep)

-----------------------------------------------------------------------------
(* What holds *)

\* Whichever step of create fails, and however the terminal ends, the destructor leaves
\* no handle open (the error paths of create and ~ConPty share the work).
NothingLeaks == owner = "gone" => open = {}

\* No handle is closed twice, unless create failed with the console in place.
ClosedOnce == failedAt \notin {"attribute", "spawn"} => twice = {}

\* The callback is given the output from some byte on, in order and without a gap, up to
\* what has been read: only what came before the callback was set is missing.
OutputIsContiguous ==
    /\ \A i \in 2 .. Len(delivered) : delivered[i].first = delivered[i - 1].last + 1
    /\ delivered # <<>> => delivered[Len(delivered)].last =
                            IF reader = "deliver" THEN chunk.first - 1 ELSE taken

\* The destructor goes on without the read thread only when that is in the callback, or
\* in the one read that was issued between CancelIoEx and CloseHandle: every other read
\* is cancelled or refused.
OnlySlippedReadIsLeft ==
    [][("reader" \in late' \ late) => reader = "deliver" \/ slipped]_vars

\* The destructor returns, even when it runs on the thread it waits for; unless its
\* CloseHandle waits for such a read, to which the shell may never print anything.
DestructorReturns ==
    owner = "close in" ~> owner \in {"gone", "crashed"} \/ (owner = "blocked" /\ slipped)

-----------------------------------------------------------------------------
(* What the repository says of it, and the code does not keep *)

\* create is "unique_ptr on success, error on failure" (ConPty.hpp): an error closes
\* nothing that is not its own.
FailedCreateIsClean == twice = {}

\* The daemon goes on whatever a shell prints: cmdAttach sets the console to UTF-8 so
\* that Chinese, among others, is shown correctly (CliApp.cpp).
DaemonSurvivesOutput == owner # "crashed"

\* "Close read end (cancel IO to let ReadFile exit)" (~ConPty): once the destructor has
\* closed the pipe and goes on, the read thread is in no read.
ReadsAreCancelled == owner \in {"join watcher", "close console", "close process"} =>
                         reader # "pending"

\* The threads use the object while it is there.
NotUsedAfterFree == owner = "gone" => reader \in {"off", "ended"} /\ watcher \in {"off", "ended"}
=============================================================================
