---------------------------- MODULE SessionLifecycle ----------------------------
(***************************************************************************)
(* The life of the sessions: SessionManager.cpp creates, kills and renames  *)
(* them on the worker threads of the server; SessionRegistry.cpp keeps      *)
(* their metadata in sessions.json through JsonStorage.hpp; each ConPty has *)
(* a thread that waits for its shell to exit (ConPty.cpp).                  *)
(*                                                                          *)
(* Nothing here is protected by a lock: not m_sessions, not ptyProcess, not *)
(* the file.  A use of m_sessions that overlaps a change of it, and a use   *)
(* of a freed object, may crash the daemon.  An update of the file is a     *)
(* read, an opening that truncates it, and a write.                         *)
(*                                                                          *)
(* The exit watch thread of session s is called s.  The file is the set of  *)
(* the ids it lists, or Empty, or Mixed: two texts over each other.         *)
(***************************************************************************)
EXTENDS Integers, FiniteSets

CONSTANTS Sessions,     \* the ids there will ever be: generateSessionId never repeats
          Workers,      \* the worker threads of the server
          Requests,     \* what clients ask for: a subset of new, kill, rename
          CanExit,      \* whether a shell may exit by itself
          MaxRestarts,  \* bound on the ends of the daemon
          Empty, Mixed  \* what JsonStorage::read cannot parse

Threads == Workers \cup Sessions

ASSUME ThreadsAssumption == Workers \cap Sessions = {} /\ IsFiniteSet(Sessions)
ASSUME BoundsAssumption == /\ Requests \subseteq {"new", "kill", "rename"}
                           /\ CanExit \in BOOLEAN /\ MaxRestarts \in Nat

Unreadable == {Empty, Mixed}

ASSUME FileAssumption == /\ Empty # Mixed
                         /\ \A ids \in SUBSET Sessions : ids # Empty /\ ids # Mixed

VARIABLES
  m_sessions,       \* the ids in the map
  ptyProcess,       \* per session: no ConPty yet, owned, being destroyed, freed
  m_onExit,         \* the sessions whose exit callback is set
  alive,            \* the sessions whose shell runs
  freed,            \* the Session objects destroyed
  file,             \* sessions.json
  pc,
  request, cur,     \* what a worker does, and to which session
  data,             \* what a thread is about to write to the file
  restarts,
  earlier,          \* the shells that have outlived the daemon that started them
  crashed           \* undefined behaviour ended the daemon

objects == <<m_sessions, ptyProcess, m_onExit, freed>>
work == <<request, cur>>
past == <<restarts, earlier>>
vars == <<objects, alive, file, pc, work, data, past, crashed>>

Updating == {"read", "truncate", "flush"}
WorkerLabels == Updating \cup {"idle", "create", "register", "insert", "find",
                               "terminate", "erase", "joinExit", "retitle", "answer"}
ExitLabels == Updating \cup {"none", "watch", "callback", "find", "reset", "join",
                             "broadcast", "ended"}

TypeOK ==
    /\ m_sessions \subseteq Sessions /\ m_onExit \subseteq Sessions
    /\ alive \subseteq Sessions /\ freed \subseteq Sessions /\ earlier \subseteq Sessions
    /\ ptyProcess \in [Sessions -> {"none", "owned", "closing", "freed"}]
    /\ file \in (SUBSET Sessions) \cup Unreadable
    /\ pc \in [Threads -> WorkerLabels \cup ExitLabels]
    /\ \A w \in Workers : pc[w] \in WorkerLabels
    /\ \A s \in Sessions : pc[s] \in ExitLabels
    /\ request \in [Workers -> {"new", "kill", "rename"}]
    /\ cur \in [Workers -> Sessions]
    /\ data \in [Threads -> SUBSET Sessions]
    /\ restarts \in 0 .. MaxRestarts
    /\ crashed \in BOOLEAN

Idle == [t \in Threads |-> IF t \in Workers THEN "idle" ELSE "none"]

\* The first start: there is no file yet, which reads like one without sessions.
Init ==
    /\ m_sessions = {} /\ m_onExit = {} /\ alive = {} /\ freed = {} /\ file = {}
    /\ ptyProcess = [s \in Sessions |-> "none"]
    /\ pc = Idle
    /\ request \in [Workers -> {"new"}] /\ cur \in [Workers -> Sessions]
    /\ data = [t \in Threads |-> {}]
    /\ restarts = 0 /\ earlier = {} /\ crashed = FALSE

-----------------------------------------------------------------------------
Goto(t, label) == pc' = [pc EXCEPT ![t] = label]

MayCrash(condition) == crashed' \in BOOLEAN /\ (crashed' => condition)

\* Another thread is about to use the map that this one changes, or to change
\* the map that this one uses.
MapChangers == {t \in Threads : pc[t] \in {"insert", "erase"}}
MapUsers == {t \in Threads : pc[t] \in {"insert", "erase", "find"}}
UseRaces(t) == MapChangers \ {t} # {}
ChangeRaces(t) == MapUsers \ {t} # {}

-----------------------------------------------------------------------------
(* JsonStorage::update, called by save and remove *)

\* Whose entry thread t saves or removes.
Target(t) == IF t \in Workers THEN cur[t] ELSE t
Saves(t) == t \in Workers /\ request[t] \in {"new", "rename"}

Updated(t, ids, current) == IF Saves(t) THEN current \cup ids ELSE current \ ids

\* A read that fails gives no current data.  The exit thread's id lived in the
\* ConPty that it has destroyed: it may name no session any more, or crash.
ReadFile(t) ==
    /\ pc[t] = "read"
    /\ LET current == IF file \in Unreadable THEN {} ELSE file
       IN  \E ids \in {{Target(t)}} \cup (IF t \in Sessions THEN {{}} ELSE {}) :
              data' = [data EXCEPT ![t] = Updated(t, ids, current)]
    /\ MayCrash(t \in Sessions \/ (Saves(t) /\ Target(t) \in freed))
    /\ Goto(t, "truncate")
    /\ UNCHANGED <<objects, alive, file, work, past>>

Truncate(t) ==
    /\ pc[t] = "truncate"
    /\ file' = Empty
    /\ Goto(t, "flush")
    /\ UNCHANGED <<objects, alive, work, data, past, crashed>>

AfterUpdate(t) == IF t \in Sessions THEN "ended"
                  ELSE IF request[t] = "new" THEN "insert" ELSE "idle"

\* If another thread has written since the truncation, this text may be shorter
\* and leave the tail of the other one behind.
Flush(t) ==
    /\ pc[t] = "flush"
    /\ file' \in {data[t]} \cup (IF file = Empty THEN {} ELSE {Mixed})
    /\ data' = [data EXCEPT ![t] = {}]
    /\ Goto(t, AfterUpdate(t))
    /\ UNCHANGED <<objects, alive, work, past, crashed>>

-----------------------------------------------------------------------------
(* createSession *)

\* A request for a new session, or about any id a client may have seen.
Receive(w) ==
    /\ pc[w] = "idle"
    /\ \E r \in Requests, s \in Sessions :
          /\ IF r = "new" THEN /\ ptyProcess[s] = "none"
                               /\ \A v \in Workers \ {w} : pc[v] # "create" \/ cur[v] # s
                          ELSE ptyProcess[s] # "none"
          /\ request' = [request EXCEPT ![w] = r]
          /\ cur' = [cur EXCEPT ![w] = s]
          /\ Goto(w, IF r = "new" THEN "create" ELSE "find")
    /\ UNCHANGED <<objects, alive, file, data, past, crashed>>

\* ConPty::create starts the shell and the two threads.
CreatePty(w) ==
    /\ pc[w] = "create"
    /\ ptyProcess' = [ptyProcess EXCEPT ![cur[w]] = "owned"]
    /\ alive' = alive \cup {cur[w]}
    /\ pc' = [pc EXCEPT ![w] = "register", ![cur[w]] = "watch"]
    /\ UNCHANGED <<m_sessions, m_onExit, freed, file, work, data, past, crashed>>

CreateFails(w) ==
    /\ pc[w] = "create"
    /\ Goto(w, "idle")
    /\ UNCHANGED <<objects, alive, file, work, data, past, crashed>>

\* onExit: the exit thread may be testing or calling the callback already.
SetOnExit(w) ==
    /\ pc[w] = "register"
    /\ m_onExit' = m_onExit \cup {cur[w]}
    /\ MayCrash(pc[cur[w]] = "callback")
    /\ Goto(w, "read")
    /\ UNCHANGED <<m_sessions, ptyProcess, freed, alive, file, work, data, past>>

InsertSession(w) ==
    /\ pc[w] = "insert"
    /\ m_sessions' = m_sessions \cup {cur[w]}
    /\ MayCrash(ChangeRaces(w))
    /\ Goto(w, "answer")
    /\ UNCHANGED <<ptyProcess, m_onExit, freed, alive, file, work, data, past>>

\* The handler reads the id and the title from the Session.
AnswerNew(w) ==
    /\ pc[w] = "answer"
    /\ MayCrash(cur[w] \in freed)
    /\ Goto(w, "idle")
    /\ UNCHANGED <<objects, alive, file, work, data, past>>

-----------------------------------------------------------------------------
(* killSession and renameSession *)

Find(w) ==
    LET s == cur[w]
        found == s \in m_sessions /\ (request[w] = "kill" => ptyProcess[s] = "owned")
    IN  /\ pc[w] = "find"
        /\ MayCrash(UseRaces(w))
        /\ Goto(w, IF ~found THEN "idle"
                   ELSE IF request[w] = "kill" THEN "terminate" ELSE "retitle")
        /\ UNCHANGED <<objects, alive, file, work, data, past>>

\* Mutant: the session is dropped without ending its shell.
ForgetKill(w) ==
    /\ pc[w] = "terminate"
    /\ MayCrash(cur[w] \in freed)
    /\ Goto(w, "erase")
    /\ UNCHANGED <<objects, alive, file, work, data, past>>

\* ptyProcess->kill(): the iterator and the pointer may be dead by now.
Terminate(w) ==
    /\ pc[w] = "terminate"
    /\ alive' = alive \ {cur[w]}
    /\ MayCrash(cur[w] \in freed \/ ptyProcess[cur[w]] # "owned")
    /\ Goto(w, "erase")
    /\ UNCHANGED <<objects, file, work, data, past>>

\* Mutant: the entry stays in the map.
KeepEntry(w) ==
    LET s == cur[w]
        owned == ptyProcess[s] = "owned"
    IN  /\ pc[w] = "erase"
        /\ ptyProcess' = [ptyProcess EXCEPT ![s] = IF owned THEN "closing" ELSE @]
        /\ freed' = IF owned THEN freed ELSE freed \cup {s}
        /\ MayCrash(ChangeRaces(w) \/ s \notin m_sessions)
        /\ Goto(w, IF owned THEN "joinExit" ELSE "read")
        /\ UNCHANGED <<m_sessions, m_onExit, alive, file, work, data, past>>

\* The entry leaves the map, and ~Session destroys the ConPty if it is still there.
EraseSession(w) ==
    LET s == cur[w]
        owned == ptyProcess[s] = "owned"
    IN  /\ pc[w] = "erase"
        /\ m_sessions' = m_sessions \ {s}
        /\ ptyProcess' = [ptyProcess EXCEPT ![s] = IF owned THEN "closing" ELSE @]
        /\ freed' = IF owned THEN freed ELSE freed \cup {s}
        /\ MayCrash(ChangeRaces(w) \/ s \notin m_sessions)
        /\ Goto(w, IF owned THEN "joinExit" ELSE "read")
        /\ UNCHANGED <<m_onExit, alive, file, work, data, past>>

\* ~ConPty waits up to 3 s for the exit thread, which takes longer only if it is
\* in the same destructor, or broadcasts.
JoinExit(w) ==
    LET s == cur[w]
    IN  /\ pc[w] = "joinExit" /\ pc[s] \in {"ended", "join", "broadcast"}
        /\ ptyProcess' = [ptyProcess EXCEPT ![s] = "freed"]
        /\ freed' = freed \cup {s}
        /\ Goto(w, "read")
        /\ UNCHANGED <<m_sessions, m_onExit, alive, file, work, data, past, crashed>>

Retitle(w) ==
    /\ pc[w] = "retitle"
    /\ MayCrash(cur[w] \in freed)
    /\ Goto(w, "read")
    /\ UNCHANGED <<objects, alive, file, work, data, past>>

-----------------------------------------------------------------------------
(* The exit watch thread *)

ShellExits(s) ==
    /\ CanExit /\ s \in alive
    /\ alive' = alive \ {s}
    /\ UNCHANGED <<objects, file, pc, work, data, past, crashed>>

WatchEnds(s) ==
    /\ pc[s] = "watch" /\ s \notin alive
    /\ Goto(s, "callback")
    /\ UNCHANGED <<objects, alive, file, work, data, past, crashed>>

\* Without a callback the exit goes unnoticed.
CallOnExit(s) ==
    /\ pc[s] = "callback"
    /\ Goto(s, IF s \in m_onExit THEN "find" ELSE "ended")
    /\ UNCHANGED <<objects, alive, file, work, data, past, crashed>>

\* _handleSessionExit: a session that is not in the map yet is not cleaned up.
FindExited(s) ==
    /\ pc[s] = "find"
    /\ MayCrash(UseRaces(s))
    /\ Goto(s, IF s \in m_sessions THEN "reset" ELSE "ended")
    /\ UNCHANGED <<objects, alive, file, work, data, past>>

\* Mutant: the exit is only broadcast.
KeepPty(s) ==
    /\ pc[s] = "reset"
    /\ Goto(s, "broadcast")
    /\ UNCHANGED <<objects, alive, file, work, data, past, crashed>>

\* ptyProcess.reset(): a kill may be destroying the ConPty, or the Session.
ResetPty(s) ==
    /\ pc[s] = "reset"
    /\ ptyProcess' = [ptyProcess EXCEPT ![s] = IF @ = "owned" THEN "closing" ELSE @]
    /\ MayCrash(s \in freed \/ ptyProcess[s] # "owned")
    /\ Goto(s, "join")
    /\ UNCHANGED <<m_sessions, m_onExit, freed, alive, file, work, data, past>>

\* The destructor waits 3 s for the very thread that runs it, and goes on.
SelfJoin(s) ==
    /\ pc[s] = "join"
    /\ ptyProcess' = [ptyProcess EXCEPT ![s] = "freed"]
    /\ Goto(s, "broadcast")
    /\ UNCHANGED <<m_sessions, m_onExit, freed, alive, file, work, data, past, crashed>>

BroadcastExit(s) ==
    /\ pc[s] = "broadcast"
    /\ MayCrash(s \in freed)
    /\ Goto(s, "read")
    /\ UNCHANGED <<objects, alive, file, work, data, past>>

-----------------------------------------------------------------------------
(* The end of the daemon, by a crash or a kill, and its next start *)

\* Any of the shells may outlive the daemon.  initialize cleans the file: the entries
\* whose pid is alive stay, be it the shell that survived or another process with its
\* pid.  It puts none of them into the map.
Restart ==
    /\ restarts < MaxRestarts
    /\ restarts' = restarts + 1
    /\ crashed' = FALSE
    /\ \E survivors \in SUBSET alive, others \in SUBSET Sessions :
          /\ alive' = survivors /\ earlier' = survivors
          /\ file' = IF file \in Unreadable THEN file ELSE file \cap (survivors \cup others)
    /\ m_sessions' = {} /\ m_onExit' = {}
    /\ freed' = {s \in Sessions : ptyProcess[s] # "none"}
    /\ ptyProcess' = [s \in Sessions |-> IF ptyProcess[s] = "none" THEN "none" ELSE "freed"]
    /\ pc' = Idle
    /\ data' = [t \in Threads |-> {}]
    /\ UNCHANGED work

-----------------------------------------------------------------------------
Update(t) == ReadFile(t) \/ Truncate(t) \/ Flush(t)

Worker(w) == \/ CreatePty(w) \/ CreateFails(w) \/ SetOnExit(w)
             \/ InsertSession(w) \/ AnswerNew(w)
             \/ Find(w) \/ Terminate(w) \/ EraseSession(w) \/ JoinExit(w)
             \/ Retitle(w) \/ Update(w)

ExitThread(s) == \/ WatchEnds(s) \/ CallOnExit(s) \/ FindExited(s) \/ ResetPty(s)
                 \/ SelfJoin(s) \/ BroadcastExit(s) \/ Update(s)

Next == \/ /\ ~crashed
           /\ \/ \E w \in Workers : Receive(w) \/ Worker(w)
              \/ \E s \in Sessions : ShellExits(s) \/ ExitThread(s)
        \/ Restart

Spec == Init /\ [][Next]_vars

\* A thread runs until it blocks; requests, exits and restarts are free.
Fairness == /\ \A w \in Workers : WF_vars(~crashed /\ Worker(w))
            /\ \A s \in Sessions : WF_vars(~crashed /\ ExitThread(s))

FairSpec == Spec /\ Fairness

-----------------------------------------------------------------------------
(* What holds *)

\* The session is being made by a worker.
Making(w, s) == cur[w] = s /\ request[w] = "new" /\
                pc[w] \in Updating \cup {"register", "insert"}

\* Every shell that this daemon started and that runs can be reached: its session is
\* in the map, for a kill to find, or is about to be.  The exception is a shell that
\* has outlived the daemon that started it: no map has it (StrayShellsAreLoaded).
NoOrphanShell ==
    \A s \in alive \ earlier : s \in m_sessions \/ \E w \in Workers : Making(w, s)

\* No entry of the map is a destroyed Session, and none has a running shell of this
\* daemon: a kill ends the shell before it destroys the Session.
NoDanglingSession == m_sessions \cap freed = {} /\ alive \cap freed \subseteq earlier

\* The shell of a session that is in the map exits: its pseudo terminal is given
\* back.
ExitReleasesPty ==
    \A s \in Sessions :
        s \in m_sessions /\ pc[s] = "watch" /\ s \notin alive
            ~> (ptyProcess[s] = "freed" \/ pc[s] = "none" \/ crashed)

-----------------------------------------------------------------------------
(* What the repository says of it, and the code does not keep *)

\* Between requests the file lists the sessions in the map: `save' stores
\* "session metadata" and the update is a "Read-modify-write".
Quiet == ~crashed /\ \A w \in Workers : pc[w] = "idle"
RegistryMatches == Quiet => file = m_sessions

\* A session whose shell has exited leaves the file ("Handle session exit").
ExitedLeavesRegistry ==
    \A s \in Sessions :
        pc[s] = "callback" ~> (file \notin Unreadable /\ s \notin file) \/ crashed

\* A kill ends the session, not the daemon ("Kill session").
DaemonSurvives == ~crashed

\* After a start the sessions of the file whose shell runs are in the map
\* ("Initialize: load sessions from persistence, clean up dead ones").
StrayShellsAreLoaded ==
    Quiet /\ file \notin Unreadable => \A s \in file \cap alive : s \in m_sessions
=============================================================================
