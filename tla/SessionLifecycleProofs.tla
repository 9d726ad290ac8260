------------------------- MODULE SessionLifecycleProofs -------------------------
(***************************************************************************)
(* Though nothing is locked, every shell that runs stays reachable and no   *)
(* entry of the map is a destroyed Session, for any number of workers and   *)
(* sessions.  The argument: an id is made by one worker, which no kill can  *)
(* find before its entry is in the map; a kill ends the shell before it     *)
(* removes the entry, and removes the entry before the Session is           *)
(* destroyed.                                                               *)
(***************************************************************************)
EXTENDS SessionLifecycle, TLAPS

\* An id that is being created is fresh, and nobody else creates it.
Creating ==
    \A w \in Workers : pc[w] = "create" =>
        /\ ptyProcess[cur[w]] = "none" /\ request[w] = "new"
        /\ \A v \in Workers \ {w} : pc[v] = "create" => cur[v] # cur[w]

\* Of a fresh id there is nothing yet.
Fresh ==
    \A s \in Sessions : ptyProcess[s] = "none" =>
        s \notin alive /\ s \notin m_sessions /\ s \notin freed /\ s \notin earlier

\* A worker past the creation works on a session that was made, and so does an
\* exit thread that runs.
BusyWithMade ==
    /\ \A w \in Workers : pc[w] \notin {"idle", "create"} => ptyProcess[cur[w]] # "none"
    /\ \A s \in Sessions : pc[s] # "none" => ptyProcess[s] # "none"

\* Where a worker is says what it was asked.
Asked ==
    \A w \in Workers :
        /\ pc[w] \in {"register", "insert", "answer"} => request[w] = "new"
        /\ pc[w] \in {"find", "retitle", "terminate", "erase", "joinExit"} => request[w] # "new"

\* A session being made is not in the map, not destroyed, and made once.
MadeByOne ==
    \A w \in Workers, s \in Sessions : Making(w, s) =>
        /\ s \notin m_sessions /\ s \notin freed
        /\ \A v \in Workers \ {w} : ~Making(v, s)

\* A session that a kill has found is not being made.
FoundIsMade ==
    \A v \in Workers : pc[v] \in {"terminate", "erase", "joinExit"} =>
        \A w \in Workers : ~Making(w, cur[v])

\* A kill ends the shell, then removes the entry.
KillOrder ==
    \A w \in Workers :
        /\ pc[w] \in {"erase", "joinExit"} => cur[w] \notin alive
        /\ pc[w] = "joinExit" => cur[w] \notin m_sessions

Inv == /\ TypeOK /\ Creating /\ Fresh /\ BusyWithMade /\ Asked
       /\ MadeByOne /\ FoundIsMade /\ KillOrder
       /\ NoOrphanShell /\ NoDanglingSession

USE ThreadsAssumption DEF Threads

\* The labels of the two kinds of threads.
USE DEF Updating, WorkerLabels, ExitLabels, Making, Goto, MayCrash

\* The first start: nothing is there.
LEMMA InitInv == Init => Inv
<1> SUFFICES ASSUME Init PROVE Inv
  OBVIOUS
<1> USE DEF Init, Idle
<1>1. TypeOK
  <2>1. request \in [Workers -> {"new", "kill", "rename"}] /\ cur \in [Workers -> Sessions]
    OBVIOUS
  <2>2. pc \in [Threads -> WorkerLabels \cup ExitLabels]
    OBVIOUS
  <2>3. data \in [Threads -> SUBSET Sessions] /\ file \in (SUBSET Sessions) \cup Unreadable
    OBVIOUS
  <2>4. restarts \in 0 .. MaxRestarts
    BY BoundsAssumption
  <2>5. crashed \in BOOLEAN
    OBVIOUS
  <2> QED
    BY <2>1, <2>2, <2>3, <2>4, <2>5 DEF TypeOK
<1>2. Creating /\ Fresh /\ BusyWithMade /\ Asked
  BY DEF Creating, Fresh, BusyWithMade, Asked
<1>3. MadeByOne /\ FoundIsMade /\ KillOrder /\ NoOrphanShell /\ NoDanglingSession
  BY DEF MadeByOne, FoundIsMade, KillOrder, NoOrphanShell, NoDanglingSession
<1> QED
  BY <1>1, <1>2, <1>3 DEF Inv

\* A thread goes on and nothing that the invariant speaks of changes.
LEMMA QuietStep ==
    ASSUME Inv, NEW t \in Threads, NEW label \in WorkerLabels \cup ExitLabels, TypeOK',
           pc' = [pc EXCEPT ![t] = label],
           UNCHANGED <<m_sessions, ptyProcess, freed, alive, earlier, request, cur>>,
           t \in Sessions => pc[t] # "none",
           t \in Workers => \/ label = "idle" /\ ~Making(t, cur[t])
                            \/ pc[t] \in Updating /\ label \in Updating
                            \/ /\ pc[t] = "flush" /\ label = "insert"
                               /\ request[t] = "new"
    PROVE  Inv'
<1> USE DEF Inv, TypeOK, Creating, Fresh, BusyWithMade, Asked, MadeByOne,
            FoundIsMade, KillOrder, NoOrphanShell, NoDanglingSession
<1>1. Creating'
  OBVIOUS
<1>2. Fresh'
  OBVIOUS
<1>3. BusyWithMade'
  OBVIOUS
<1>4. Asked'
  OBVIOUS
<1>5. MadeByOne'
  OBVIOUS
<1>6. FoundIsMade'
  OBVIOUS
<1>7. KillOrder'
  OBVIOUS
<1>8. NoOrphanShell'
  OBVIOUS
<1>9. NoDanglingSession'
  OBVIOUS
<1> QED
  BY <1>1, <1>2, <1>3, <1>4, <1>5, <1>6, <1>7, <1>8, <1>9

\* The fresh id becomes one that is made, by this worker alone.
LEMMA CreatePtyStep == ASSUME Inv, NEW w \in Workers, CreatePty(w) PROVE Inv'
<1>1. TypeOK'
  BY DEF Inv, TypeOK, CreatePty, objects, work, past
<1>2. (Creating /\ Fresh /\ BusyWithMade /\ Asked)'
  BY DEF Inv, TypeOK, Creating, Fresh, BusyWithMade, Asked, CreatePty, objects, work, past
<1>3. (MadeByOne /\ FoundIsMade /\ KillOrder)'
  BY SMTT(20) DEF Inv, TypeOK, Creating, Fresh, BusyWithMade, Asked, MadeByOne, FoundIsMade, KillOrder,
         CreatePty, objects, work, past
<1>4. (NoOrphanShell /\ NoDanglingSession)'
  BY DEF Inv, TypeOK, Creating, Fresh, BusyWithMade, MadeByOne, FoundIsMade,
         KillOrder, NoOrphanShell, NoDanglingSession, CreatePty, objects, work, past
<1> QED
  BY <1>1, <1>2, <1>3, <1>4 DEF Inv

\* The id stays fresh.
LEMMA CreateFailsStep == ASSUME Inv, NEW w \in Workers, CreateFails(w) PROVE Inv'
<1>1. TypeOK'
  BY DEF Inv, TypeOK, CreateFails, objects, work, past
<1>2. (Creating /\ Fresh /\ BusyWithMade /\ Asked)'
  BY DEF Inv, TypeOK, Creating, Fresh, BusyWithMade, Asked, CreateFails, objects, work, past
<1>3. (MadeByOne /\ FoundIsMade /\ KillOrder)'
  BY DEF Inv, TypeOK, Creating, Fresh, BusyWithMade, Asked, MadeByOne, FoundIsMade, KillOrder,
         CreateFails, objects, work, past
<1>4. (NoOrphanShell /\ NoDanglingSession)'
  BY DEF Inv, TypeOK, Creating, Fresh, BusyWithMade, MadeByOne, FoundIsMade,
         KillOrder, NoOrphanShell, NoDanglingSession, CreateFails, objects, work, past
<1> QED
  BY <1>1, <1>2, <1>3, <1>4 DEF Inv

\* The callback is not part of the invariant.
LEMMA SetOnExitStep == ASSUME Inv, NEW w \in Workers, SetOnExit(w) PROVE Inv'
<1>1. TypeOK'
  BY DEF Inv, TypeOK, SetOnExit, objects, work, past
<1>2. (Creating /\ Fresh /\ BusyWithMade /\ Asked)'
  BY DEF Inv, TypeOK, Creating, Fresh, BusyWithMade, Asked, SetOnExit, objects, work, past
<1>3. (MadeByOne /\ FoundIsMade /\ KillOrder)'
  BY DEF Inv, TypeOK, Creating, Fresh, BusyWithMade, Asked, MadeByOne, FoundIsMade, KillOrder,
         SetOnExit, objects, work, past
<1>4. (NoOrphanShell /\ NoDanglingSession)'
  BY DEF Inv, TypeOK, Creating, Fresh, BusyWithMade, MadeByOne, FoundIsMade,
         KillOrder, NoOrphanShell, NoDanglingSession, SetOnExit, objects, work, past
<1> QED
  BY <1>1, <1>2, <1>3, <1>4 DEF Inv

\* The entry enters the map: no kill has found it yet, and it was never destroyed.
LEMMA InsertSessionStep == ASSUME Inv, NEW w \in Workers, InsertSession(w) PROVE Inv'
<1>1. TypeOK'
  BY DEF Inv, TypeOK, InsertSession, objects, work, past
<1>2. (Creating /\ Fresh /\ BusyWithMade /\ Asked)'
  BY DEF Inv, TypeOK, Creating, Fresh, BusyWithMade, Asked, InsertSession, objects, work, past
<1>3. (MadeByOne /\ FoundIsMade /\ KillOrder)'
  BY DEF Inv, TypeOK, Creating, Fresh, BusyWithMade, Asked, MadeByOne, FoundIsMade, KillOrder,
         InsertSession, objects, work, past
<1>4. NoOrphanShell'
  BY DEF Inv, TypeOK, NoOrphanShell, InsertSession, objects, work, past
<1>5. NoDanglingSession'
  BY DEF Inv, TypeOK, Asked, Fresh, MadeByOne, NoDanglingSession, InsertSession, objects, work, past
<1> QED
  BY <1>1, <1>2, <1>3, <1>4, <1>5 DEF Inv

\* The handler that answers is done.
LEMMA AnswerNewStep == ASSUME Inv, NEW w \in Workers, AnswerNew(w) PROVE Inv'
<1>1. TypeOK'
  BY DEF Inv, TypeOK, AnswerNew, objects, work, past
<1>2. (Creating /\ Fresh /\ BusyWithMade /\ Asked)'
  BY DEF Inv, TypeOK, Creating, Fresh, BusyWithMade, Asked, AnswerNew, objects, work, past
<1>3. (MadeByOne /\ FoundIsMade /\ KillOrder)'
  BY DEF Inv, TypeOK, Creating, Fresh, BusyWithMade, Asked, MadeByOne, FoundIsMade, KillOrder,
         AnswerNew, objects, work, past
<1>4. (NoOrphanShell /\ NoDanglingSession)'
  BY DEF Inv, TypeOK, Creating, Fresh, BusyWithMade, MadeByOne, FoundIsMade,
         KillOrder, NoOrphanShell, NoDanglingSession, AnswerNew, objects, work, past
<1> QED
  BY <1>1, <1>2, <1>3, <1>4 DEF Inv

\* What is found in the map is not being made.
LEMMA FindStep == ASSUME Inv, NEW w \in Workers, Find(w) PROVE Inv'
<1>1. TypeOK'
  BY DEF Inv, TypeOK, Find, objects, work, past
<1>2. (Creating /\ Fresh /\ BusyWithMade /\ Asked)'
  BY DEF Inv, TypeOK, Creating, Fresh, BusyWithMade, Asked, Find, objects, work, past
<1>3. (MadeByOne /\ FoundIsMade /\ KillOrder)'
  BY DEF Inv, TypeOK, Creating, Fresh, BusyWithMade, Asked, MadeByOne, FoundIsMade, KillOrder,
         Find, objects, work, past
<1>4. (NoOrphanShell /\ NoDanglingSession)'
  BY DEF Inv, TypeOK, Creating, Fresh, BusyWithMade, MadeByOne, FoundIsMade,
         KillOrder, NoOrphanShell, NoDanglingSession, Find, objects, work, past
<1> QED
  BY <1>1, <1>2, <1>3, <1>4 DEF Inv

\* The shell ends before the entry goes.
LEMMA TerminateStep == ASSUME Inv, NEW w \in Workers, Terminate(w) PROVE Inv'
<1>1. TypeOK'
  BY DEF Inv, TypeOK, Terminate, objects, work, past
<1>2. (Creating /\ Fresh /\ BusyWithMade /\ Asked)'
  BY DEF Inv, TypeOK, Creating, Fresh, BusyWithMade, Asked, Terminate, objects, work, past
<1>3. (MadeByOne /\ FoundIsMade /\ KillOrder)'
  BY DEF Inv, TypeOK, Creating, Fresh, BusyWithMade, Asked, MadeByOne, FoundIsMade, KillOrder,
         Terminate, objects, work, past
<1>4. (NoOrphanShell /\ NoDanglingSession)'
  BY DEF Inv, TypeOK, Creating, Fresh, BusyWithMade, MadeByOne, FoundIsMade,
         KillOrder, NoOrphanShell, NoDanglingSession, Terminate, objects, work, past
<1> QED
  BY <1>1, <1>2, <1>3, <1>4 DEF Inv

\* The shell has ended: its entry is not needed any more.
LEMMA EraseSessionStep == ASSUME Inv, NEW w \in Workers, EraseSession(w) PROVE Inv'
<1>1. TypeOK'
  BY DEF Inv, TypeOK, EraseSession, objects, work, past
<1>2. (Creating /\ Fresh /\ BusyWithMade /\ Asked)'
  BY DEF Inv, TypeOK, Creating, Fresh, BusyWithMade, Asked, EraseSession, objects, work, past
<1>3. (MadeByOne /\ FoundIsMade /\ KillOrder)'
  BY DEF Inv, TypeOK, Creating, Fresh, BusyWithMade, Asked, MadeByOne, FoundIsMade, KillOrder,
         EraseSession, objects, work, past
<1>4. (NoOrphanShell /\ NoDanglingSession)'
  BY DEF Inv, TypeOK, Creating, Fresh, BusyWithMade, MadeByOne, FoundIsMade,
         KillOrder, NoOrphanShell, NoDanglingSession, EraseSession, objects, work, past
<1> QED
  BY <1>1, <1>2, <1>3, <1>4 DEF Inv

\* The entry is gone already.
LEMMA JoinExitStep == ASSUME Inv, NEW w \in Workers, JoinExit(w) PROVE Inv'
<1>1. TypeOK'
  BY DEF Inv, TypeOK, JoinExit, objects, work, past
<1>2. (Creating /\ Fresh /\ BusyWithMade /\ Asked)'
  BY DEF Inv, TypeOK, Creating, Fresh, BusyWithMade, Asked, JoinExit, objects, work, past
<1>3. (MadeByOne /\ FoundIsMade /\ KillOrder)'
  BY DEF Inv, TypeOK, Creating, Fresh, BusyWithMade, Asked, MadeByOne, FoundIsMade, KillOrder,
         JoinExit, objects, work, past
<1>4. (NoOrphanShell /\ NoDanglingSession)'
  BY DEF Inv, TypeOK, Creating, Fresh, BusyWithMade, MadeByOne, FoundIsMade,
         KillOrder, NoOrphanShell, NoDanglingSession, JoinExit, objects, work, past
<1> QED
  BY <1>1, <1>2, <1>3, <1>4 DEF Inv

\* A rename goes on to save.
LEMMA RetitleStep == ASSUME Inv, NEW w \in Workers, Retitle(w) PROVE Inv'
<1>1. TypeOK'
  BY DEF Inv, TypeOK, Retitle, objects, work, past
<1>2. (Creating /\ Fresh /\ BusyWithMade /\ Asked)'
  BY DEF Inv, TypeOK, Creating, Fresh, BusyWithMade, Asked, Retitle, objects, work, past
<1>3. (MadeByOne /\ FoundIsMade /\ KillOrder)'
  BY DEF Inv, TypeOK, Creating, Fresh, BusyWithMade, Asked, MadeByOne, FoundIsMade, KillOrder,
         Retitle, objects, work, past
<1>4. (NoOrphanShell /\ NoDanglingSession)'
  BY DEF Inv, TypeOK, Creating, Fresh, BusyWithMade, MadeByOne, FoundIsMade,
         KillOrder, NoOrphanShell, NoDanglingSession, Retitle, objects, work, past
<1> QED
  BY <1>1, <1>2, <1>3, <1>4 DEF Inv

\* A new id is fresh and nobody else's; any other one was made.
LEMMA ReceiveStep == ASSUME Inv, NEW w \in Workers, Receive(w) PROVE Inv'
<1>1. TypeOK'
  BY BoundsAssumption DEF Inv, TypeOK, Receive, objects, work, past
<1>2. (Creating /\ Fresh /\ BusyWithMade /\ Asked)'
  BY DEF Inv, TypeOK, Creating, Fresh, BusyWithMade, Asked, Receive, objects, work, past
<1>3. (MadeByOne /\ FoundIsMade /\ KillOrder)'
  BY DEF Inv, TypeOK, Creating, Fresh, BusyWithMade, Asked, MadeByOne, FoundIsMade, KillOrder,
         Receive, objects, work, past
<1>4. (NoOrphanShell /\ NoDanglingSession)'
  BY DEF Inv, TypeOK, Creating, Fresh, BusyWithMade, MadeByOne, FoundIsMade,
         KillOrder, NoOrphanShell, NoDanglingSession, Receive, objects, work, past
<1> QED
  BY <1>1, <1>2, <1>3, <1>4 DEF Inv

\* Fewer shells run.
LEMMA ShellExitsStep == ASSUME Inv, NEW s \in Sessions, ShellExits(s) PROVE Inv'
<1>1. TypeOK'
  BY DEF Inv, TypeOK, ShellExits, objects, work, past
<1>2. (Creating /\ Fresh /\ BusyWithMade /\ Asked)'
  BY DEF Inv, TypeOK, Creating, Fresh, BusyWithMade, Asked, ShellExits, objects, work, past
<1>3. (MadeByOne /\ FoundIsMade /\ KillOrder)'
  BY DEF Inv, TypeOK, Creating, Fresh, BusyWithMade, Asked, MadeByOne, FoundIsMade, KillOrder,
         ShellExits, objects, work, past
<1>4. (NoOrphanShell /\ NoDanglingSession)'
  BY DEF Inv, TypeOK, Creating, Fresh, BusyWithMade, MadeByOne, FoundIsMade,
         KillOrder, NoOrphanShell, NoDanglingSession, ShellExits, objects, work, past
<1> QED
  BY <1>1, <1>2, <1>3, <1>4 DEF Inv

\* The exit thread runs, so its session was made.
LEMMA ResetPtyStep == ASSUME Inv, NEW s \in Sessions, ResetPty(s) PROVE Inv'
<1>1. TypeOK'
  BY DEF Inv, TypeOK, ResetPty, objects, work, past
<1>2. (Creating /\ Fresh /\ BusyWithMade /\ Asked)'
  BY DEF Inv, TypeOK, Creating, Fresh, BusyWithMade, Asked, ResetPty, objects, work, past
<1>3. (MadeByOne /\ FoundIsMade /\ KillOrder)'
  BY DEF Inv, TypeOK, Creating, Fresh, BusyWithMade, Asked, MadeByOne, FoundIsMade, KillOrder,
         ResetPty, objects, work, past
<1>4. (NoOrphanShell /\ NoDanglingSession)'
  BY DEF Inv, TypeOK, Creating, Fresh, BusyWithMade, MadeByOne, FoundIsMade,
         KillOrder, NoOrphanShell, NoDanglingSession, ResetPty, objects, work, past
<1> QED
  BY <1>1, <1>2, <1>3, <1>4 DEF Inv

\* Its ConPty ends as freed, in place of owned or closing.
LEMMA SelfJoinStep == ASSUME Inv, NEW s \in Sessions, SelfJoin(s) PROVE Inv'
<1>1. TypeOK'
  BY DEF Inv, TypeOK, SelfJoin, objects, work, past
<1>2. (Creating /\ Fresh /\ BusyWithMade /\ Asked)'
  BY DEF Inv, TypeOK, Creating, Fresh, BusyWithMade, Asked, SelfJoin, objects, work, past
<1>3. (MadeByOne /\ FoundIsMade /\ KillOrder)'
  BY DEF Inv, TypeOK, Creating, Fresh, BusyWithMade, Asked, MadeByOne, FoundIsMade, KillOrder,
         SelfJoin, objects, work, past
<1>4. (NoOrphanShell /\ NoDanglingSession)'
  BY DEF Inv, TypeOK, Creating, Fresh, BusyWithMade, MadeByOne, FoundIsMade,
         KillOrder, NoOrphanShell, NoDanglingSession, SelfJoin, objects, work, past
<1> QED
  BY <1>1, <1>2, <1>3, <1>4 DEF Inv

\* An update of the file touches nothing else.
LEMMA ReadFileStep == ASSUME Inv, NEW t \in Threads, ReadFile(t) PROVE Inv'
<1>1. TypeOK'
  BY DEF Inv, TypeOK, ReadFile, objects, work, past, Unreadable, Updated, Target
<1> DEFINE label == "truncate"
<1>2. /\ label \in WorkerLabels \cup ExitLabels /\ pc' = [pc EXCEPT ![t] = label]
      /\ UNCHANGED <<m_sessions, ptyProcess, freed, alive, earlier, request, cur>>
  BY DEF ReadFile, objects, work, past
<1>3. t \in Threads /\ (t \in Sessions => pc[t] # "none")
  BY DEF ReadFile
<1>4. t \in Workers => \/ label = "idle" /\ ~Making(t, cur[t])
                       \/ pc[t] \in Updating /\ label \in Updating
                       \/ /\ pc[t] = "flush" /\ label = "insert"
                          /\ request[t] = "new"
  BY DEF ReadFile
<1> HIDE DEF label, Making, Updating, WorkerLabels, ExitLabels
<1> QED
  BY <1>1, <1>2, <1>3, <1>4, QuietStep

\* So does the opening that empties it.
LEMMA TruncateStep == ASSUME Inv, NEW t \in Threads, Truncate(t) PROVE Inv'
<1>1. TypeOK'
  BY DEF Inv, TypeOK, Truncate, objects, work, past, Unreadable
<1> DEFINE label == "flush"
<1>2. /\ label \in WorkerLabels \cup ExitLabels /\ pc' = [pc EXCEPT ![t] = label]
      /\ UNCHANGED <<m_sessions, ptyProcess, freed, alive, earlier, request, cur>>
  BY DEF Truncate, objects, work, past
<1>3. t \in Threads /\ (t \in Sessions => pc[t] # "none")
  BY DEF Truncate
<1>4. t \in Workers => \/ label = "idle" /\ ~Making(t, cur[t])
                       \/ pc[t] \in Updating /\ label \in Updating
                       \/ /\ pc[t] = "flush" /\ label = "insert"
                          /\ request[t] = "new"
  BY DEF Truncate
<1> HIDE DEF label, Making, Updating, WorkerLabels, ExitLabels
<1> QED
  BY <1>1, <1>2, <1>3, <1>4, QuietStep

\* A new session goes on to its entry, any other request ends.
LEMMA FlushStep == ASSUME Inv, NEW t \in Threads, Flush(t) PROVE Inv'
<1>1. TypeOK'
  BY DEF Inv, TypeOK, Flush, objects, work, past, Unreadable, AfterUpdate
<1> DEFINE label == AfterUpdate(t)
<1>2. /\ label \in WorkerLabels \cup ExitLabels /\ pc' = [pc EXCEPT ![t] = label]
      /\ UNCHANGED <<m_sessions, ptyProcess, freed, alive, earlier, request, cur>>
  BY DEF Flush, objects, work, past, AfterUpdate
<1>3. t \in Threads /\ (t \in Sessions => pc[t] # "none")
  BY DEF Flush
<1>4. t \in Workers => \/ label = "idle" /\ ~Making(t, cur[t])
                       \/ pc[t] \in Updating /\ label \in Updating
                       \/ /\ pc[t] = "flush" /\ label = "insert"
                          /\ request[t] = "new"
  <2>1. pc[t] = "flush"
    BY DEF Flush
  <2>2. ASSUME t \in Workers, request[t] = "new" PROVE label = "insert"
    BY <2>2 DEF AfterUpdate
  <2>3. ASSUME t \in Workers, request[t] # "new" PROVE label = "idle" /\ ~Making(t, cur[t])
    BY <2>3 DEF AfterUpdate
  <2> QED
    BY <2>1, <2>2, <2>3
<1> HIDE DEF label, Making, Updating, WorkerLabels, ExitLabels
<1> QED
  BY <1>1, <1>2, <1>3, <1>4, QuietStep

\* The steps of the exit thread outside the map and the ConPty.
LEMMA WatchEndsStep == ASSUME Inv, NEW s \in Sessions, WatchEnds(s) PROVE Inv'
<1>1. TypeOK'
  BY DEF Inv, TypeOK, WatchEnds, objects, work, past
<1> DEFINE label == "callback"
<1>2. /\ label \in WorkerLabels \cup ExitLabels /\ pc' = [pc EXCEPT ![s] = label]
      /\ UNCHANGED <<m_sessions, ptyProcess, freed, alive, earlier, request, cur>>
  BY DEF WatchEnds, objects, work, past
<1>3. s \in Threads /\ (s \in Sessions => pc[s] # "none")
  BY DEF WatchEnds
<1>4. s \notin Workers
  OBVIOUS
<1> HIDE DEF label, Making, Updating, WorkerLabels, ExitLabels
<1> QED
  BY <1>1, <1>2, <1>3, <1>4, QuietStep

\* The exit thread reads the callback.
LEMMA CallOnExitStep == ASSUME Inv, NEW s \in Sessions, CallOnExit(s) PROVE Inv'
<1>1. TypeOK'
  BY DEF Inv, TypeOK, CallOnExit, objects, work, past
<1> DEFINE label == IF s \in m_onExit THEN "find" ELSE "ended"
<1>2. /\ label \in WorkerLabels \cup ExitLabels /\ pc' = [pc EXCEPT ![s] = label]
      /\ UNCHANGED <<m_sessions, ptyProcess, freed, alive, earlier, request, cur>>
  BY DEF CallOnExit, objects, work, past
<1>3. s \in Threads /\ (s \in Sessions => pc[s] # "none")
  BY DEF CallOnExit
<1>4. s \notin Workers
  OBVIOUS
<1> HIDE DEF label, Making, Updating, WorkerLabels, ExitLabels
<1> QED
  BY <1>1, <1>2, <1>3, <1>4, QuietStep

\* The exit thread looks the session up.
LEMMA FindExitedStep == ASSUME Inv, NEW s \in Sessions, FindExited(s) PROVE Inv'
<1>1. TypeOK'
  BY DEF Inv, TypeOK, FindExited, objects, work, past
<1> DEFINE label == IF s \in m_sessions THEN "reset" ELSE "ended"
<1>2. /\ label \in WorkerLabels \cup ExitLabels /\ pc' = [pc EXCEPT ![s] = label]
      /\ UNCHANGED <<m_sessions, ptyProcess, freed, alive, earlier, request, cur>>
  BY DEF FindExited, objects, work, past
<1>3. s \in Threads /\ (s \in Sessions => pc[s] # "none")
  BY DEF FindExited
<1>4. s \notin Workers
  OBVIOUS
<1> HIDE DEF label, Making, Updating, WorkerLabels, ExitLabels
<1> QED
  BY <1>1, <1>2, <1>3, <1>4, QuietStep

\* The exit thread tells the clients.
LEMMA BroadcastExitStep == ASSUME Inv, NEW s \in Sessions, BroadcastExit(s) PROVE Inv'
<1>1. TypeOK'
  BY DEF Inv, TypeOK, BroadcastExit, objects, work, past
<1> DEFINE label == "read"
<1>2. /\ label \in WorkerLabels \cup ExitLabels /\ pc' = [pc EXCEPT ![s] = label]
      /\ UNCHANGED <<m_sessions, ptyProcess, freed, alive, earlier, request, cur>>
  BY DEF BroadcastExit, objects, work, past
<1>3. s \in Threads /\ (s \in Sessions => pc[s] # "none")
  BY DEF BroadcastExit
<1>4. s \notin Workers
  OBVIOUS
<1> HIDE DEF label, Making, Updating, WorkerLabels, ExitLabels
<1> QED
  BY <1>1, <1>2, <1>3, <1>4, QuietStep

\* A start: nothing runs, and what was made is gone.
LEMMA RestartStep == ASSUME Inv, Restart PROVE Inv'
<1> USE DEF Inv, TypeOK, Restart
<1>1. TypeOK'
  <2>1. file' \in (SUBSET Sessions) \cup Unreadable
    BY DEF Unreadable
  <2>2. restarts' \in 0 .. MaxRestarts
    BY BoundsAssumption
  <2>3. crashed' = FALSE
    OBVIOUS
  <2>4. /\ (m_sessions \subseteq Sessions /\ m_onExit \subseteq Sessions)'
        /\ (alive \subseteq Sessions /\ freed \subseteq Sessions /\ earlier \subseteq Sessions)'
        /\ (ptyProcess \in [Sessions -> {"none", "owned", "closing", "freed"}])'
    OBVIOUS
  <2>5. /\ (pc \in [Threads -> WorkerLabels \cup ExitLabels])'
        /\ (\A w \in Workers : pc[w] \in WorkerLabels)'
        /\ (\A s \in Sessions : pc[s] \in ExitLabels)'
        /\ (data \in [Threads -> SUBSET Sessions])'
    BY DEF Idle
  <2> QED
    BY <2>1, <2>2, <2>3, <2>4, <2>5 DEF work
<1>2. (Creating /\ Fresh /\ BusyWithMade /\ Asked)'
  BY DEF Creating, Fresh, BusyWithMade, Asked, Idle, work
<1>3. (MadeByOne /\ FoundIsMade /\ KillOrder /\ NoOrphanShell /\ NoDanglingSession)'
  BY DEF MadeByOne, FoundIsMade, KillOrder, NoOrphanShell, NoDanglingSession, Idle, work
<1> QED
  BY <1>1, <1>2, <1>3

\* Every step preserves the invariant.
LEMMA NextInv == Inv /\ [Next]_vars => Inv'
<1> SUFFICES ASSUME Inv, [Next]_vars PROVE Inv'
  OBVIOUS
<1>1. ASSUME NEW t \in Threads, Update(t) PROVE Inv'
  BY <1>1, ReadFileStep, TruncateStep, FlushStep DEF Update
<1>2. ASSUME NEW w \in Workers, Worker(w) PROVE Inv'
  BY <1>1, <1>2, CreatePtyStep, CreateFailsStep, SetOnExitStep, InsertSessionStep,
     AnswerNewStep, FindStep, TerminateStep, EraseSessionStep, JoinExitStep, RetitleStep
  DEF Worker
<1>3. ASSUME NEW s \in Sessions, ExitThread(s) PROVE Inv'
  BY <1>1, <1>3, WatchEndsStep, CallOnExitStep, FindExitedStep, ResetPtyStep,
     SelfJoinStep, BroadcastExitStep
  DEF ExitThread
<1>4. CASE UNCHANGED vars
  <2>1. UNCHANGED <<objects, alive, file, pc, work, data, past, crashed>>
    BY <1>4 DEF vars
  <2>2. UNCHANGED <<m_sessions, ptyProcess, m_onExit, freed, request, cur, restarts, earlier>>
    BY <2>1 DEF objects, work, past
  <2> QED
    BY <2>1, <2>2 DEF Inv, TypeOK, Creating, Fresh, BusyWithMade, Asked, MadeByOne,
                      FoundIsMade, KillOrder, NoOrphanShell, NoDanglingSession
<1> QED
  BY <1>2, <1>3, <1>4, ReceiveStep, ShellExitsStep, RestartStep DEF Next

\* The strengthened invariant of SessionManager's handlers and exit threads.
THEOREM InvHolds == Spec => []Inv
  BY InitInv, NextInv, PTL DEF Spec

\* The variables of the life cycle keep their types, whatever the threads do.
THEOREM TypeCorrect == Spec => []TypeOK
<1>1. Inv => TypeOK
  BY DEF Inv
<1> QED
  BY <1>1, InvHolds, PTL

\* Every shell that ConPty::create of this daemon started and that still runs is in
\* m_sessions, where killSession finds it, or createSession is about to put it there.
THEOREM ShellsAreReachable == Spec => []NoOrphanShell
<1>1. Inv => NoOrphanShell
  BY DEF Inv
<1> QED
  BY <1>1, InvHolds, PTL

\* killSession erases the entry before ~Session, and createSession inserts an id once:
\* what m_sessions.find returns is a Session that has not been destroyed.
THEOREM EntriesAreAlive == Spec => []NoDanglingSession
<1>1. Inv => NoDanglingSession
  BY DEF Inv
<1> QED
  BY <1>1, InvHolds, PTL

=============================================================================
