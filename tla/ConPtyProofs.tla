------------------------------ MODULE ConPtyProofs ------------------------------
(***************************************************************************)
(* However a terminal is created, whichever step of create fails and         *)
(* wherever its two threads are when it is destroyed, its destructor leaves  *)
(* no handle open and leaves the read thread in no read but one that slipped *)
(* in between the cancellation and the closing; and the callback is given    *)
(* the output without a gap, for any size of the buffer.  The argument:      *)
(* from the console on, what is open is what the object holds, or nothing    *)
(* when create closed it; and the destructor forgets what it closes.         *)
(***************************************************************************)
EXTENDS ConPty, TLAPS

\* Where create stands before the object holds a handle.
Early == {"options", "input pipe", "output pipe", "console"}
Creating == Early \cup {"attribute", "spawn"}

\* Until create has succeeded nothing has failed, and no thread runs.
NothingStarted ==
    /\ owner \in Creating \cup {"start reader"} => reader = "off"
    /\ owner \in Creating \cup {"start reader", "start watcher", "set output", "set exit", "ready"}
          => failedAt = "none"

\* The handles that create has, and not yet the object.
PipesOfCreate ==
    /\ owner = "output pipe" => open = {"ptyIn", "in"}
    /\ owner = "console" => open = {"ptyIn", "in", "ptyOut", "out"}

\* What is open is what the object holds; after a late failure of create it holds
\* handles that are closed.
OpenIsHeld ==
    owner \notin {"output pipe", "console"} =>
        open = IF failedAt \in {"attribute", "spawn"} THEN {} ELSE m_handles

\* What the object still holds, at each step.
HeldSoFar ==
    /\ owner \in Early => m_handles = {}
    /\ owner \in {"attribute", "spawn"} => m_handles = {"pc", "in", "out"}
    /\ owner \in {"cancel out", "close out"} => m_handles \subseteq OwnHandles \ {"in"}
    /\ owner \in {"blocked", "join reader"} => m_handles \subseteq {"pc", "process", "reader", "watcher"}
    /\ owner = "join watcher" => m_handles \subseteq {"pc", "process", "watcher"}
    /\ owner = "close console" => m_handles \subseteq {"pc", "process"}
    /\ owner = "close process" => m_handles \subseteq {"process"}
    /\ owner = "gone" => m_handles = {}

HandlesInv == NothingStarted /\ PipesOfCreate /\ OpenIsHeld /\ HeldSoFar /\ ClosedOnce

\* A chunk is what was just taken; nothing is delivered before the callback is set.
ChunkIsTaken ==
    /\ reader = "deliver" => chunk \in Chunks /\ chunk.last = taken
    /\ delivered # <<>> => m_onOutput

OutputInv == ChunkIsTaken /\ OutputIsContiguous

Inv == TypeOK /\ HandlesInv /\ OutputInv

\* The parts of TypeOK, which the provers take one at a time.
Flags == {m_running, m_onOutput, m_onExit, inside, slipped, attached} \subseteq BOOLEAN

HandleSets == m_handles \subseteq OwnHandles /\ open \subseteq Handles /\ twice \subseteq Handles

Places ==
    /\ owner \in OwnerLabels
    /\ reader \in {"off", "check", "read", "pending", "deliver", "ended"}
    /\ watcher \in {"off", "wait", "notify", "callback", "ended"}
    /\ failedAt \in {"none"} \cup CreateLabels
    /\ late \subseteq {"reader", "watcher"}
    /\ shell \in {"none", "runs", "ended"}

Bytes ==
    /\ printed \in 0 .. MaxBytes /\ taken \in 0 .. printed
    /\ chunk \in Chunks \cup {NoChunk}
    /\ delivered \in Seq(Chunks)

-----------------------------------------------------------------------------

LEMMA TypeParts == TypeOK <=> Flags /\ HandleSets /\ Places /\ Bytes
  BY DEF TypeOK, Flags, HandleSets, Places, Bytes

LEMMA InitInv == Init => Inv
<1>1. Init => Flags BY DEF Init, Flags
<1>2. Init => HandleSets BY DEF Init, HandleSets
<1>3. Init => Places BY DEF Init, Places, OwnerLabels, CreateLabels
<1>4. Init => Bytes BY BytesAssumption DEF Init, Bytes
<1>5. Init => HandlesInv /\ OutputInv
  BY DEF Init, HandlesInv, OutputInv, NothingStarted, PipesOfCreate, OpenIsHeld, HeldSoFar,
         ClosedOnce, ChunkIsTaken, OutputIsContiguous, Creating, Early
<1> QED BY <1>1, <1>2, <1>3, <1>4, <1>5, TypeParts DEF Inv

LEMMA FlagTypes == Flags /\ [Next]_vars => Flags'
<1> SUFFICES ASSUME Flags, [Next]_vars PROVE Flags'
  OBVIOUS
<1> USE DEF Flags, vars, fields, handles, notes, output, Fails, Join
<1>1. CASE Create
  BY <1>1 DEF Create, CheckOptions, CreateInputPipe, CreateOutputPipe, CreateConsole,
              SetAttribute, CreateProcess, StartReader, StartWatcher, SetOutput, SetExit
<1>2. CASE Destroy \/ Destructor
  BY <1>2 DEF Destroy, Destructor, CloseIn, CancelOut, CloseOut, Unblock, JoinReader, JoinWatcher, CloseConsole,
              CloseProcess
<1>3. CASE ReaderStep \/ WatcherStep \/ PrintByte \/ EndShell
  BY <1>3 DEF ReaderStep, CheckRunning, IssueRead, ReadFile, Deliver, WatcherStep, ShellEnded,
              CallOnExit, ExitHandled, PrintByte, EndShell
<1> QED BY <1>1, <1>2, <1>3 DEF Next

LEMMA HandleTypes == HandleSets /\ [Next]_vars => HandleSets'
<1> SUFFICES ASSUME HandleSets, [Next]_vars PROVE HandleSets'
  OBVIOUS
<1> USE DEF HandleSets, OwnHandles, Handles, vars, fields, handles, Fails, Opened, Close, Release
<1>1. CASE Create
  BY <1>1 DEF Create, CheckOptions, CreateInputPipe, CreateOutputPipe, CreateConsole,
              SetAttribute, CreateProcess, Start, StartReader, StartWatcher, SetOutput, SetExit
<1>2. CASE Destroy \/ Destructor
  BY <1>2 DEF Destroy, Destructor, CloseIn, CancelOut, CloseOut, Unblock, JoinReader, JoinWatcher, Join,
              CloseConsole, CloseProcess
<1>3. CASE ReaderStep \/ WatcherStep \/ PrintByte \/ EndShell
  BY <1>3 DEF ReaderStep, CheckRunning, IssueRead, ReadFile, Deliver, WatcherStep, ShellEnded,
              CallOnExit, ExitHandled, PrintByte, EndShell
<1> QED BY <1>1, <1>2, <1>3 DEF Next

LEMMA PlaceTypes == Places /\ [Next]_vars => Places'
<1> USE DEF Places, OwnerLabels, CreateLabels, notes, Fails
<1>1. Places /\ CheckOptions => Places' BY ZenonT(40) DEF CheckOptions
<1>2. Places /\ CreateInputPipe => Places' BY ZenonT(40) DEF CreateInputPipe
<1>3. Places /\ CreateOutputPipe => Places' BY ZenonT(40) DEF CreateOutputPipe
<1>4. Places /\ CreateConsole => Places' BY ZenonT(40) DEF CreateConsole
<1>5. Places /\ SetAttribute => Places' BY ZenonT(40) DEF SetAttribute
<1>6. Places /\ CreateProcess => Places' BY DEF CreateProcess
<1>7. Places /\ StartReader => Places' BY ZenonT(40) DEF StartReader
<1>8. Places /\ StartWatcher => Places' BY ZenonT(40) DEF StartWatcher
<1>9. Places /\ SetOutput => Places' BY ZenonT(40) DEF SetOutput
<1>10. Places /\ SetExit => Places' BY DEF SetExit
<1>11. Places /\ Destroy => Places' BY DEF Destroy
<1>12. Places /\ CloseIn => Places' BY DEF CloseIn
<1>13. Places /\ CancelOut => Places' BY ZenonT(40) DEF CancelOut
<1>14. Places /\ CloseOut => Places' BY ZenonT(40) DEF CloseOut
<1>15. Places /\ Unblock => Places' BY DEF Unblock
<1>16. Places /\ JoinReader => Places' BY ZenonT(40) DEF JoinReader, Join
<1>17. Places /\ JoinWatcher => Places' BY ZenonT(40) DEF JoinWatcher, Join
<1>18. Places /\ CloseConsole => Places' BY DEF CloseConsole
<1>19. Places /\ CloseProcess => Places' BY ZenonT(40) DEF CloseProcess
<1>20. Places /\ CheckRunning => Places' BY ZenonT(40) DEF CheckRunning
<1>21. Places /\ IssueRead => Places' BY ZenonT(40) DEF IssueRead
<1>22. Places /\ ReadFile => Places' BY ZenonT(40) DEF ReadFile
<1>23. Places /\ Deliver => Places' BY DEF Deliver
<1>24. Places /\ ShellEnded => Places' BY DEF ShellEnded
<1>25. Places /\ CallOnExit => Places' BY ZenonT(40) DEF CallOnExit
<1>26. Places /\ ExitHandled => Places' BY DEF ExitHandled
<1>27. Places /\ PrintByte => Places' BY DEF PrintByte
<1>28. Places /\ EndShell => Places' BY DEF EndShell
<1>29. Places /\ UNCHANGED vars => Places' BY ZenonT(40) DEF vars
<1> QED
  BY <1>1, <1>2, <1>3, <1>4, <1>5, <1>6, <1>7, <1>8, <1>9, <1>10, <1>11, <1>12, <1>13,
     <1>14, <1>15, <1>16, <1>17, <1>18, <1>19, <1>20, <1>21, <1>22, <1>23, <1>24, <1>25, <1>26,
     <1>27, <1>28, <1>29
  DEF Next, Create, Destructor, ReaderStep, WatcherStep

\* Only the read thread moves what was taken and delivered.
LEMMA ByteTypes == Bytes /\ ChunkIsTaken /\ [Next]_vars => Bytes'
<1>1. Create \/ Destroy \/ Destructor \/ WatcherStep \/ EndShell \/ UNCHANGED vars
      => UNCHANGED <<printed, taken, chunk, delivered>>
  <2> USE DEF output, vars
  <2>1. Create => UNCHANGED output
    BY DEF Create, CheckOptions, CreateInputPipe, CreateOutputPipe, CreateConsole, SetAttribute,
           CreateProcess, StartReader, StartWatcher, SetOutput, SetExit
  <2>2. Destroy \/ Destructor => UNCHANGED output
    BY DEF Destroy, Destructor, CloseIn, CancelOut, CloseOut, Unblock, JoinReader,
           JoinWatcher, Join, CloseConsole,
           CloseProcess
  <2>3. WatcherStep \/ EndShell => UNCHANGED output
    BY DEF WatcherStep, ShellEnded, CallOnExit, ExitHandled, EndShell
  <2> QED BY <2>1, <2>2, <2>3
<1>2. Bytes /\ PrintByte => Bytes'
  BY BytesAssumption DEF Bytes, PrintByte
<1>3. Bytes /\ CheckRunning => Bytes'
  BY DEF Bytes, CheckRunning, output
<1>7. Bytes /\ IssueRead => Bytes'
  BY DEF Bytes, IssueRead, output
<1>4. Bytes /\ ReadFile => Bytes'
  BY BytesAssumption DEF Bytes, ReadFile, Chunks
<1>5. Bytes /\ ChunkIsTaken /\ Deliver => Bytes'
  BY DEF Bytes, Deliver, ChunkIsTaken
<1>6. Bytes /\ UNCHANGED <<printed, taken, chunk, delivered>> => Bytes'
  BY DEF Bytes
<1> QED BY <1>1, <1>2, <1>3, <1>4, <1>5, <1>6, <1>7 DEF Next, ReaderStep

LEMMA TypeStep == TypeOK /\ ChunkIsTaken /\ [Next]_vars => TypeOK'
<1>1. Flags' /\ HandleSets' /\ Places' /\ Bytes' => TypeOK'
  BY DEF TypeOK, Flags, HandleSets, Places, Bytes
<1> QED BY <1>1, TypeParts, FlagTypes, HandleTypes, PlaceTypes, ByteTypes

LEMMA CreateHandles == HandlesInv /\ (Create \/ Destroy) => HandlesInv'
<1> SUFFICES ASSUME HandlesInv, Create \/ Destroy PROVE HandlesInv'
  OBVIOUS
<1> USE DEF HandlesInv, NothingStarted, PipesOfCreate, OpenIsHeld, HeldSoFar, ClosedOnce,
            Creating, Early, fields, handles, notes, output, Opened, Close, Fails, Start
<1>1. CASE CheckOptions BY <1>1 DEF CheckOptions
<1>2. CASE CreateInputPipe BY <1>2 DEF CreateInputPipe
<1>3. CASE CreateOutputPipe BY <1>3 DEF CreateOutputPipe
<1>4. CASE CreateConsole BY <1>4 DEF CreateConsole
<1>5. CASE SetAttribute BY <1>5 DEF SetAttribute
<1>6. CASE CreateProcess BY <1>6 DEF CreateProcess
<1>7. CASE StartReader BY <1>7 DEF StartReader
<1>8. CASE StartWatcher BY <1>8 DEF StartWatcher
<1>9. CASE SetOutput BY <1>9 DEF SetOutput
<1>10. CASE SetExit BY <1>10 DEF SetExit
<1>11. CASE Destroy BY <1>11 DEF Destroy
<1> QED
  BY <1>1, <1>2, <1>3, <1>4, <1>5, <1>6, <1>7, <1>8, <1>9, <1>10, <1>11 DEF Create

LEMMA DestructorHandles == HandleSets /\ HandlesInv /\ Destructor => HandlesInv'
<1> SUFFICES ASSUME HandleSets, HandlesInv, Destructor PROVE HandlesInv'
  OBVIOUS
<1> USE DEF HandleSets, OwnHandles, HandlesInv, NothingStarted, PipesOfCreate, OpenIsHeld,
            HeldSoFar, ClosedOnce, Creating, Early, handles, notes, output, Close, Release, Join
<1>1. CASE CloseIn BY <1>1 DEF CloseIn
<1>2. CASE CloseOut BY <1>2 DEF CloseOut
<1>3. CASE JoinReader BY <1>3 DEF JoinReader
<1>4. CASE JoinWatcher BY <1>4 DEF JoinWatcher
<1>5. CASE CloseConsole BY <1>5 DEF CloseConsole
<1>6. CASE CloseProcess BY <1>6 DEF CloseProcess
<1>7. CASE CancelOut BY <1>7 DEF CancelOut, fields
<1>8. CASE Unblock BY <1>8 DEF Unblock, fields
<1> QED BY <1>1, <1>2, <1>3, <1>4, <1>5, <1>6, <1>7, <1>8 DEF Destructor

LEMMA ThreadHandles ==
    HandlesInv /\ (ReaderStep \/ WatcherStep \/ PrintByte \/ EndShell) => HandlesInv'
<1> SUFFICES ASSUME HandlesInv, ReaderStep \/ WatcherStep \/ PrintByte \/ EndShell
             PROVE HandlesInv'
  OBVIOUS
<1> USE DEF HandlesInv, NothingStarted, PipesOfCreate, OpenIsHeld, HeldSoFar, ClosedOnce,
            Creating, Early, fields, handles, notes, output
<1>1. CASE CheckRunning BY <1>1 DEF CheckRunning
<1>2. CASE ReadFile BY <1>2 DEF ReadFile
<1>9. CASE IssueRead BY <1>9 DEF IssueRead
<1>3. CASE Deliver
  <2>1. owner \notin Creating BY <1>3 DEF Deliver
  <2> QED BY <1>3, <2>1 DEF Deliver
<1>4. CASE ShellEnded BY <1>4 DEF ShellEnded
<1>5. CASE CallOnExit BY <1>5 DEF CallOnExit
<1>6. CASE ExitHandled BY <1>6 DEF ExitHandled
<1>7. CASE PrintByte BY <1>7 DEF PrintByte
<1>8. CASE EndShell BY <1>8 DEF EndShell
<1> QED
  BY <1>1, <1>2, <1>3, <1>4, <1>5, <1>6, <1>7, <1>8, <1>9 DEF ReaderStep, WatcherStep

\* Only the read thread moves the output; the owner can set the callback, and does not
\* take it back.
LEMMA OwnerKeepsOutput ==
    /\ Create \/ Destroy \/ Destructor \/ WatcherStep \/ PrintByte \/ EndShell
    => UNCHANGED <<taken, chunk, delivered>> /\ m_onOutput' \in {m_onOutput, TRUE}
<1> USE DEF fields, handles, notes, output, Fails, Join
<1>1. Create => UNCHANGED <<taken, chunk, delivered>> /\ m_onOutput' \in {m_onOutput, TRUE}
  BY DEF Create, CheckOptions, CreateInputPipe, CreateOutputPipe, CreateConsole, SetAttribute,
         CreateProcess, StartReader, StartWatcher, SetOutput, SetExit
<1>2. Destroy \/ Destructor => UNCHANGED <<taken, chunk, delivered>> /\ m_onOutput' \in {m_onOutput, TRUE}
  BY DEF Destroy, Destructor, CloseIn, CancelOut, CloseOut, Unblock, JoinReader, JoinWatcher, CloseConsole,
         CloseProcess
<1>3. WatcherStep \/ PrintByte \/ EndShell
      => UNCHANGED <<taken, chunk, delivered>> /\ m_onOutput' \in {m_onOutput, TRUE}
  BY DEF WatcherStep, ShellEnded, CallOnExit, ExitHandled, PrintByte, EndShell
<1> QED BY <1>1, <1>2, <1>3

\* Nor does it take the read thread to the callback or out of it.
LEMMA OwnerKeepsReader ==
    /\ HandlesInv
    /\ Create \/ Destroy \/ Destructor \/ WatcherStep \/ PrintByte \/ EndShell
    => (reader' = "deliver" <=> reader = "deliver")
<1> USE DEF fields, handles, notes, output, Fails, Join
<1>1. HandlesInv /\ Create => (reader' = "deliver" <=> reader = "deliver")
  BY DEF Create, CheckOptions, CreateInputPipe, CreateOutputPipe, CreateConsole, SetAttribute,
         CreateProcess, StartReader, StartWatcher, SetOutput, SetExit, HandlesInv, NothingStarted
<1>2. Destroy \/ Destructor => (reader' = "deliver" <=> reader = "deliver")
  BY DEF Destroy, Destructor, CloseIn, CancelOut, CloseOut, Unblock, JoinReader, JoinWatcher, CloseConsole,
         CloseProcess
<1>3. WatcherStep \/ PrintByte \/ EndShell => reader' = reader
  BY DEF WatcherStep, ShellEnded, CallOnExit, ExitHandled, PrintByte, EndShell
<1> QED BY <1>1, <1>2, <1>3

LEMMA ReaderOutput == Bytes /\ OutputInv /\ ReaderStep => OutputInv'
<1> SUFFICES ASSUME Bytes, OutputInv, ReaderStep PROVE OutputInv'
  OBVIOUS
<1> USE DEF Bytes, OutputInv, ChunkIsTaken, OutputIsContiguous, fields, output
<1>1. CASE CheckRunning BY <1>1 DEF CheckRunning
<1>2. CASE ReadFile
  <2>1. /\ UNCHANGED <<delivered, m_onOutput>>
        /\ reader' = "deliver" => /\ chunk' = [first |-> taken + 1, last |-> taken']
                                  /\ taken' \in taken + 1 .. printed
        /\ reader' # "deliver" => UNCHANGED taken
    BY <1>2, BytesAssumption DEF ReadFile
  <2>2. reader = "pending" BY <1>2 DEF ReadFile
  <2>3. reader' = "deliver" => chunk' \in Chunks /\ chunk'.last = taken'
    BY <2>1, BytesAssumption DEF Chunks
  <2>4. delivered # <<>> => delivered[Len(delivered)].last = taken BY <2>2
  <2>5. reader' = "deliver" => chunk'.first - 1 = taken BY <2>1
  <2> QED BY <2>1, <2>3, <2>4, <2>5
<1>3. CASE Deliver
  <2>1. reader' = "check" /\ UNCHANGED <<taken, m_onOutput>> /\ reader = "deliver"
    BY <1>3 DEF Deliver
  <2>2. CASE ~m_onOutput
    BY <1>3, <2>1, <2>2 DEF Deliver
  <2>3. CASE m_onOutput
    <3>1. delivered' = Append(delivered, chunk) BY <1>3, <2>3 DEF Deliver
    <3>2. /\ Len(delivered') = Len(delivered) + 1
          /\ delivered'[Len(delivered) + 1] = chunk
          /\ \A i \in 1 .. Len(delivered) : delivered'[i] = delivered[i]
      BY <2>1, <3>1
    <3>3. \A i \in 2 .. Len(delivered') : delivered'[i].first = delivered'[i - 1].last + 1
      <4> TAKE i \in 2 .. Len(delivered')
      <4>1. CASE i \in 2 .. Len(delivered) BY <3>2, <4>1
      <4>2. CASE i = Len(delivered) + 1
        <5>1. delivered # <<>> /\ i - 1 = Len(delivered) BY <4>2
        <5>2. delivered[Len(delivered)].last = chunk.first - 1 BY <2>1, <5>1
        <5> QED BY <2>1, <3>2, <4>2, <5>1, <5>2, SMTT(20) DEF Chunks
      <4> QED BY <3>2, <4>1, <4>2, SMTT(20)
    <3> QED BY <2>1, <2>3, <3>2, <3>3
  <2> QED BY <2>2, <2>3
<1>4. CASE IssueRead
  <2>1. reader = "read" /\ reader' \in {"pending", "ended"} BY <1>4 DEF IssueRead
  <2> QED BY <1>4, <2>1 DEF IssueRead
<1> QED BY <1>1, <1>2, <1>3, <1>4 DEF ReaderStep

LEMMA InvStep == Inv /\ [Next]_vars => Inv'
<1> SUFFICES ASSUME Inv, [Next]_vars PROVE Inv'
  OBVIOUS
<1>1. CASE Create \/ Destroy \/ Destructor \/ WatcherStep \/ PrintByte \/ EndShell
  <2>1. TypeOK' /\ HandlesInv'
    BY <1>1, TypeStep, CreateHandles, DestructorHandles, ThreadHandles, TypeParts
    DEF Inv, OutputInv
  <2>2. OutputInv'
    BY <1>1, OwnerKeepsOutput, OwnerKeepsReader
    DEF Inv, OutputInv, ChunkIsTaken, OutputIsContiguous
  <2> QED BY <2>1, <2>2 DEF Inv
<1>2. CASE ReaderStep
  BY <1>2, TypeStep, ThreadHandles, ReaderOutput, TypeParts DEF Inv, OutputInv, Next
<1>3. CASE UNCHANGED vars
  <2>1. TypeOK' BY <1>3, TypeStep DEF Inv, OutputInv
  <2>2. HandlesInv'
    <3>1. UNCHANGED <<m_handles, open, twice, owner, reader, failedAt>>
      BY <1>3 DEF vars, fields, handles, notes
    <3>2. HandlesInv BY DEF Inv
    <3>3. NothingStarted' /\ ClosedOnce'
      BY <3>1, <3>2 DEF HandlesInv, NothingStarted, ClosedOnce
    <3>4. PipesOfCreate' /\ OpenIsHeld'
      BY <3>1, <3>2 DEF HandlesInv, PipesOfCreate, OpenIsHeld
    <3>5. HeldSoFar' BY <3>1, <3>2 DEF HandlesInv, HeldSoFar
    <3> QED BY <3>3, <3>4, <3>5 DEF HandlesInv
  <2>3. OutputInv'
    BY <1>3 DEF vars, fields, output, Inv, OutputInv, ChunkIsTaken, OutputIsContiguous
  <2> QED BY <2>1, <2>2, <2>3 DEF Inv
<1> QED BY <1>1, <1>2, <1>3 DEF Next

-----------------------------------------------------------------------------

\* The invariant of the whole argument: from the console on, what is open is what the
\* object holds, and at each step of the destructor it holds no more than the handles
\* still to be closed.
THEOREM InvHolds == Spec => []Inv
  BY InitInv, InvStep, PTL DEF Spec

\* Every variable of the terminal keeps its type.
THEOREM TypeCorrect == Spec => []TypeOK
<1>1. Inv => TypeOK BY DEF Inv
<1> QED BY <1>1, InvHolds, PTL

\* The destructor leaves no handle open, whichever step of create failed.
THEOREM LeakFree == Spec => []NothingLeaks
<1>1. Inv => NothingLeaks
  BY DEF Inv, HandlesInv, OpenIsHeld, HeldSoFar, NothingLeaks
<1> QED BY <1>1, InvHolds, PTL

\* No handle is closed twice, unless create fails with the console in place.
THEOREM ClosesOnce == Spec => []ClosedOnce
<1>1. Inv => ClosedOnce BY DEF Inv, HandlesInv
<1> QED BY <1>1, InvHolds, PTL

\* The callback is given the output in order and without a gap.
THEOREM Contiguous == Spec => []OutputIsContiguous
<1>1. Inv => OutputIsContiguous BY DEF Inv, OutputInv
<1> QED BY <1>1, InvHolds, PTL

\* From the cancellation to the wait, a read that gets no bytes is one that slipped in.
SlipInv == owner \in {"close out", "blocked", "join reader"} /\ reader = "pending"
           /\ taken = printed => slipped

LEMMA LessIsOther ==
    \A m \in Nat, n \in Nat : (m < n => m # n) /\ (m <= n => m # n + 1)
  OBVIOUS

LEMMA SlipStep == Inv /\ SlipInv /\ [Next]_vars => SlipInv'
<1> SUFFICES ASSUME Inv, SlipInv, Next PROVE SlipInv'
  BY DEF SlipInv, vars, notes, output
<1>0. taken \in Nat /\ printed \in Nat /\ taken <= printed
  BY BytesAssumption DEF Inv, TypeOK
<1> USE DEF SlipInv, fields, handles, notes, output
<1>1. CASE Create \/ Destroy
  BY <1>1 DEF Create, CheckOptions, CreateInputPipe, CreateOutputPipe, CreateConsole,
              SetAttribute, CreateProcess, StartReader, StartWatcher, SetOutput, SetExit, Fails,
              Destroy
<1>2. CASE Destructor
  <2>1. CASE CloseIn \/ CloseConsole \/ CloseProcess \/ JoinReader \/ JoinWatcher
    BY <2>1 DEF CloseIn, CloseConsole, CloseProcess, JoinReader, JoinWatcher, Join
  <2>2. CASE CancelOut
    <3>1. reader' = "pending" => taken < printed
      BY <2>2 DEF CancelOut
    <3>2. UNCHANGED <<taken, printed>>
      BY <2>2 DEF CancelOut
    <3>3. taken < printed => taken # printed
      BY <1>0, LessIsOther
    <3>4. reader' = "pending" => taken' # printed'
      BY <3>1, <3>2, <3>3
    <3> QED BY <3>4
  <2>3. CASE CloseOut
    <3>1. owner = "close out" /\ UNCHANGED <<reader, slipped, taken, printed>>
      BY <2>3 DEF CloseOut
    <3> QED BY <3>1
  <2>4. CASE Unblock
    <3>1. reader' # "pending"
      BY <2>4 DEF Unblock
    <3> QED BY <3>1
  <2> QED BY <1>2, <2>1, <2>2, <2>3, <2>4 DEF Destructor
<1>3. CASE ReaderStep
  <2>1. CASE IssueRead
    <3>1. owner \in {"blocked", "join reader"} => "out" \notin open
      BY DEF Inv, HandlesInv, OpenIsHeld, HeldSoFar
    <3> QED BY <2>1, <3>1 DEF IssueRead
  <2>2. CASE CheckRunning BY <2>2 DEF CheckRunning
  <2>3. CASE ReadFile BY <2>3 DEF ReadFile
  <2>4. CASE Deliver BY <2>4 DEF Deliver
  <2> QED BY <1>3, <2>1, <2>2, <2>3, <2>4 DEF ReaderStep
<1>4. CASE WatcherStep \/ EndShell
  BY <1>4 DEF WatcherStep, ShellEnded, CallOnExit, ExitHandled, EndShell
<1>5. CASE PrintByte
  <2>1. taken' = taken /\ printed' = printed + 1
    BY <1>5 DEF PrintByte
  <2>2. taken # printed + 1
    BY <1>0, LessIsOther
  <2>3. taken' # printed'
    BY <2>1, <2>2
  <2> QED BY <2>3
<1> QED BY <1>1, <1>2, <1>3, <1>4, <1>5 DEF Next

\* The destructor never goes on while the read thread is in a read, but for one that was
\* issued between CancelIoEx and CloseHandle.
THEOREM LeftInSlippedRead == Spec => OnlySlippedReadIsLeft
<1>1. Init => SlipInv BY DEF Init, SlipInv
<1>2. Inv /\ SlipInv /\ [Next]_vars =>
        [("reader" \in late' \ late) => reader = "deliver" \/ slipped]_vars
  <2> SUFFICES ASSUME SlipInv, Next, "reader" \in late' \ late
               PROVE  reader = "deliver" \/ slipped
    OBVIOUS
  <2> USE DEF fields, handles, notes, output
  <2>1. JoinReader
    <3>1. ~Create /\ ~Destroy
      BY DEF Create, CheckOptions, CreateInputPipe, CreateOutputPipe, CreateConsole,
             SetAttribute, CreateProcess, StartReader, StartWatcher, SetOutput, SetExit, Fails,
             Destroy
    <3>2. ~CloseIn /\ ~CancelOut /\ ~CloseOut /\ ~Unblock /\ ~CloseConsole /\ ~CloseProcess
      BY DEF CloseIn, CancelOut, CloseOut, Unblock, CloseConsole, CloseProcess
    <3>3. ASSUME JoinWatcher PROVE FALSE
      <4>1. late' \in {late \cup {"watcher"}, late \cup {}} BY <3>3 DEF JoinWatcher, Join
      <4> QED BY <4>1
    <3>4. ~ReaderStep /\ ~WatcherStep /\ ~PrintByte /\ ~EndShell
      BY DEF ReaderStep, CheckRunning, IssueRead, ReadFile, Deliver, WatcherStep, ShellEnded,
             CallOnExit, ExitHandled, PrintByte, EndShell
    <3> QED BY <3>1, <3>2, <3>3, <3>4 DEF Next, Destructor
  <2> QED BY <2>1 DEF JoinReader, Join, SlipInv
<1> QED BY <1>1, <1>2, SlipStep, InvHolds, PTL DEF Spec, OnlySlippedReadIsLeft
=============================================================================
