------------------------- MODULE DaemonLifecycleProofs -------------------------
(***************************************************************************)
(* Theorems about DaemonLifecycle, for any number of commands, inits and    *)
(* daemons, any bound of the wait and any files of the user.                *)
(***************************************************************************)
EXTENDS DaemonLifecycle, TLAPS

\* Every process is at a statement of its own kind, and the files hold what some process
\* or the user wrote (all actions of the module).
THEOREM TypeInvariant == Spec => []TypeOK
  <1>1. Init => TypeOK
  <2> SUFFICES ASSUME Init PROVE TypeOK
    OBVIOUS
  <2>1. \A p \in Procs : pc[p] \in Labels(p)
    BY ProcessesAssumption DEF Init, Labels, CommandLabels, InitLabels, DaemonLabels, Procs
  <2>2. pc \in [Procs -> CommandLabels \cup InitLabels \cup DaemonLabels \cup Ended]
    BY DEF Init, CommandLabels, InitLabels, DaemonLabels, Procs
  <2>3. attempt \in [Commands -> 0 .. Attempts]
    BY ProcessesAssumption DEF Init
  <2> QED
    BY <2>1, <2>2, <2>3 DEF Init, TypeOK
  <1>2. TypeOK /\ [Next]_vars => TypeOK'
  <2> SUFFICES ASSUME TypeOK, Next PROVE TypeOK'
    BY DEF vars, TypeOK
  <2> USE ProcessesAssumption DEF TypeOK, Labels, CommandLabels, InitLabels, DaemonLabels, Ended, Procs, Pids, Goto, Files, Locals, Next, Watch, Listening, InitDone
  <2>1. ASSUME NEW p \in Procs, InitCheck(p) PROVE TypeOK'
    BY <2>1 DEF InitCheck, InitDone, InitLabels, DaemonLabels
  <2>2. ASSUME NEW p \in Procs, InitOpen(p) PROVE TypeOK'
    BY <2>2 DEF InitOpen
  <2>3. ASSUME NEW p \in Procs, InitWrite(p) PROVE TypeOK'
    <3>1. config' \in {Absent, Empty, DefaultConfig} \cup UserConfigs /\ torn' \in BOOLEAN
      <4>1. CASE torn' = torn /\ config' = DefaultConfig
        BY <4>1
      <4>2. CASE torn' = TRUE
        BY <2>3, <4>2 DEF InitWrite
      <4> QED
        BY <2>3, <4>1, <4>2 DEF InitWrite
    <3>2. \/ pc' = [pc EXCEPT ![p] = "reload"] /\ p \in Daemons
          \/ pc' = [pc EXCEPT ![p] = "succeeded"]
      BY <2>3 DEF InitWrite
    <3>3. /\ pc' \in [Procs -> CommandLabels \cup InitLabels \cup DaemonLabels \cup Ended]
          /\ \A q \in Procs : pc'[q] \in Labels(q)
      BY <3>2
    <3>4. UNCHANGED <<pidFile, pid, attempt, foreign>>
      BY <2>3 DEF InitWrite
    <3> QED
      BY <3>1, <3>3, <3>4
  <2>4. ASSUME NEW p \in Procs, RunInit(p) PROVE TypeOK'
    BY <2>4 DEF RunInit
  <2>5. ASSUME NEW p \in Procs, Kill(p) PROVE TypeOK'
    BY <2>5 DEF Kill
  <2>6. ASSUME NEW c \in Commands, RunCommand(c) PROVE TypeOK'
    BY <2>6 DEF RunCommand
  <2>7. ASSUME NEW c \in Commands, LoadConfig(c) PROVE TypeOK'
    BY <2>7 DEF LoadConfig
  <2>8. ASSUME NEW c \in Commands, OpenPid(c) PROVE TypeOK'
    BY <2>8 DEF OpenPid
  <2>9. ASSUME NEW c \in Commands, readPidFile(c) PROVE TypeOK'
    BY <2>9 DEF readPidFile
  <2>10. ASSUME NEW c \in Commands, isProcessAlive(c) PROVE TypeOK'
    BY <2>10 DEF isProcessAlive
  <2>11. ASSUME NEW c \in Commands, Probe(c) PROVE TypeOK'
    BY <2>11 DEF Probe
  <2>12. ASSUME NEW c \in Commands, FindStale(c) PROVE TypeOK'
    BY <2>12 DEF FindStale
  <2>13. ASSUME NEW c \in Commands, RemoveStale(c) PROVE TypeOK'
    BY <2>13 DEF RemoveStale
  <2>14. ASSUME NEW c \in Commands, ProbeAgain(c) PROVE TypeOK'
    BY <2>14 DEF ProbeAgain
  <2>15. ASSUME NEW c \in Commands, Launch(c) PROVE TypeOK'
    BY <2>15 DEF Launch
  <2>16. ASSUME NEW c \in Commands, Wait(c) PROVE TypeOK'
    BY <2>16 DEF Wait
  <2>17. ASSUME NEW c \in Commands, Connect(c) PROVE TypeOK'
    BY <2>17 DEF Connect
  <2>18. ASSUME NEW d \in Daemons, LoadOrInit(d) PROVE TypeOK'
    BY <2>18 DEF LoadOrInit, Serving
  <2>19. ASSUME NEW d \in Daemons, Reload(d) PROVE TypeOK'
    BY <2>19 DEF Reload, Serving
  <2>20. ASSUME NEW d \in Daemons, OpenPidFile(d) PROVE TypeOK'
    BY <2>20 DEF OpenPidFile, Serving
  <2>21. ASSUME NEW d \in Daemons, WritePidFile(d) PROVE TypeOK'
    BY <2>21 DEF WritePidFile, Serving
  <2>22. ASSUME NEW d \in Daemons, StartServer(d) PROVE TypeOK'
    BY <2>22 DEF StartServer, Serving
  <2>23. ASSUME NEW d \in Daemons, AcceptNext(d) PROVE TypeOK'
    BY <2>23 DEF AcceptNext, Serving
  <2>24. ASSUME NEW d \in Daemons, RunInside(d) PROVE TypeOK'
    BY <2>24 DEF RunInside, Serving
  <2>25. ASSUME NEW d \in Daemons, Stop(d) PROVE TypeOK'
    BY <2>25 DEF Stop, Serving
  <2>90. ASSUME NEW p \in Pids, ReusePid(p) PROVE TypeOK'
    BY <2>90 DEF ReusePid
  <2>91. CASE Edit
    BY <2>91 DEF Edit
  <2> QED
    BY <2>1, <2>2, <2>3, <2>4, <2>5, <2>6, <2>7, <2>8, <2>9, <2>10, <2>11, <2>12, <2>13, <2>14, <2>15, <2>16, <2>17, <2>18, <2>19, <2>20, <2>21, <2>22, <2>23, <2>24, <2>25, <2>90, <2>91 DEF Step, InitStep, CommandStep, DaemonStep
  <1> QED
  BY <1>1, <1>2, PTL DEF Spec

-----------------------------------------------------------------------------
(* A served command finds its daemon *)

\* While some daemon listens, no step takes a command that has begun its search to
\* a launch, a failure or an exception, but for a removal of an open file.
LEMMA CommandMoves ==
    ASSUME TypeOK, Step, Listening # {}, NEW c \in Commands
    PROVE  \/ pc'[c] = pc[c]
           \/ pc[c] = "idle" /\ pc'[c] = "load"
           \/ pc[c] \in {"load", "launch", "wait"}
           \/ pc[c] = "remove" /\ pc'[c] = "threw" /\ PidIsOpen
           \/ pc'[c] \notin {"idle", "load", "launch", "wait", "failed", "threw"}
  <1> DEFINE Goal == \/ pc'[c] = pc[c]
                     \/ pc[c] = "idle" /\ pc'[c] = "load"
                     \/ pc[c] \in {"load", "launch", "wait"}
                     \/ pc[c] = "remove" /\ pc'[c] = "threw" /\ PidIsOpen
                     \/ pc'[c] \notin {"idle", "load", "launch", "wait", "failed", "threw"}
  <1> SUFFICES Goal
    OBVIOUS
  <1> USE ProcessesAssumption DEF TypeOK, Procs, Goto, Labels, CommandLabels, Ended
  <1>1. ASSUME NEW p \in Procs, InitCheck(p) PROVE Goal
  BY <1>1 DEF InitCheck, InitDone, InitLabels, DaemonLabels
  <1>2. ASSUME NEW p \in Procs, InitOpen(p) PROVE Goal
  BY <1>2 DEF InitOpen
  <1>3. ASSUME NEW p \in Procs, InitWrite(p) PROVE Goal
  BY <1>3 DEF InitWrite, InitDone, InitLabels, DaemonLabels
  <1>4. ASSUME NEW p \in Procs, RunInit(p) PROVE Goal
  BY <1>4 DEF RunInit
  <1>5. ASSUME NEW p \in Procs, Kill(p) PROVE Goal
  BY <1>5 DEF Kill
  <1>6. ASSUME NEW x \in Commands, RunCommand(x) PROVE Goal
  BY <1>6 DEF RunCommand
  <1>7. ASSUME NEW x \in Commands, LoadConfig(x) PROVE Goal
  BY <1>7 DEF LoadConfig
  <1>8. ASSUME NEW x \in Commands, OpenPid(x) PROVE Goal
  BY <1>8 DEF OpenPid
  <1>9. ASSUME NEW x \in Commands, readPidFile(x) PROVE Goal
  BY <1>9 DEF readPidFile
  <1>10. ASSUME NEW x \in Commands, isProcessAlive(x) PROVE Goal
  BY <1>10 DEF isProcessAlive
  <1>11. ASSUME NEW x \in Commands, Probe(x) PROVE Goal
  BY <1>11 DEF Probe, isDaemonRunning
  <1>12. ASSUME NEW x \in Commands, FindStale(x) PROVE Goal
  BY <1>12 DEF FindStale
  <1>13. ASSUME NEW x \in Commands, RemoveStale(x) PROVE Goal
  BY <1>13 DEF RemoveStale
  <1>14. ASSUME NEW x \in Commands, ProbeAgain(x) PROVE Goal
  BY <1>14 DEF ProbeAgain, isDaemonRunning
  <1>15. ASSUME NEW x \in Commands, Launch(x) PROVE Goal
  BY <1>15 DEF Launch
  <1>16. ASSUME NEW x \in Commands, Wait(x) PROVE Goal
  BY <1>16 DEF Wait
  <1>17. ASSUME NEW x \in Commands, Connect(x) PROVE Goal
  BY <1>17 DEF Connect
  <1>18. ASSUME NEW d \in Daemons, LoadOrInit(d) PROVE Goal
  BY <1>18 DEF LoadOrInit
  <1>19. ASSUME NEW d \in Daemons, Reload(d) PROVE Goal
  BY <1>19 DEF Reload
  <1>20. ASSUME NEW d \in Daemons, OpenPidFile(d) PROVE Goal
  BY <1>20 DEF OpenPidFile
  <1>21. ASSUME NEW d \in Daemons, WritePidFile(d) PROVE Goal
  BY <1>21 DEF WritePidFile
  <1>22. ASSUME NEW d \in Daemons, StartServer(d) PROVE Goal
  BY <1>22 DEF StartServer
  <1>23. ASSUME NEW d \in Daemons, AcceptNext(d) PROVE Goal
  BY <1>23 DEF AcceptNext
  <1>24. ASSUME NEW d \in Daemons, RunInside(d) PROVE Goal
  BY <1>24 DEF RunInside
  <1>25. ASSUME NEW d \in Daemons, Stop(d) PROVE Goal
  BY <1>25 DEF Stop
  <1>26. ASSUME NEW p \in Pids, ReusePid(p) PROVE Goal
  BY <1>26 DEF ReusePid
  <1>27. CASE Edit
  BY <1>27 DEF Edit
  <1> QED
  BY <1>1, <1>2, <1>3, <1>4, <1>5, <1>6, <1>7, <1>8, <1>9, <1>10, <1>11, <1>12, <1>13, <1>14, <1>15, <1>16, <1>17, <1>18, <1>19, <1>20, <1>21, <1>22, <1>23, <1>24, <1>25, <1>26, <1>27 DEF Step, InitStep, CommandStep, DaemonStep

\* What ServedCommandFindsIt rests on: a command's daemons listen, there are none
\* before its search, and none once it has given up.
ServedInv ==
    /\ \A c \in Commands : served[c] \subseteq Listening
    /\ \A c \in Commands :
          pc[c] \in {"idle", "load", "launch", "wait", "failed"} => served[c] = {}

\* A step of a served command, and what it leaves true.
LEMMA ServedStep ==
    ASSUME TypeOK, ServedInv, Next, NEW c \in Commands, served'[c] # {}
    PROVE  /\ pc'[c] \notin {"idle", "load", "launch", "wait", "failed"}
           /\ \/ pc'[c] = pc[c] \/ pc'[c] # "threw"
              \/ pc[c] = "remove" /\ pc'[c] = "threw" /\ PidIsOpen
<1>1. CASE pc[c] = "load" /\ pc'[c] = "openPid"
  BY <1>1
<1>2. CASE ~(pc[c] = "load" /\ pc'[c] = "openPid")
  <2>1. served[c] # {}
    BY <1>2 DEF Next, Watch
  <2>2. /\ Listening # {}
        /\ pc[c] \notin {"idle", "load", "launch", "wait", "failed"}
    BY <2>1 DEF ServedInv
  <2> QED
    BY <2>2, CommandMoves DEF Next
<1> QED
  BY <1>1, <1>2

\* Every step keeps it.
LEMMA ServedInvariant == Spec => []ServedInv
<1>1. Init => ServedInv
  BY DEF Init, ServedInv
<1>2. TypeOK /\ ServedInv /\ [Next]_vars => ServedInv'
  <2> SUFFICES ASSUME TypeOK, ServedInv, Next PROVE ServedInv'
    BY DEF vars, ServedInv, Listening
  <2>1. \A c \in Commands : served'[c] \subseteq Listening'
    BY DEF Next, Watch
  <2> QED
    BY <2>1, ServedStep DEF ServedInv
<1> QED
  BY <1>1, <1>2, TypeInvariant, PTL DEF Spec

\* A command that some daemon listens all through neither launches another nor gives
\* up, and ends by an exception only when it removes the PID file while another process
\* has it open (ensureDaemonRunning), for any number of processes.
THEOREM ServedFound == Spec => ServedCommandFindsIt
<1> DEFINE Moves(c) ==
        \/ pc'[c] \notin {"launch", "wait", "failed", "threw"}
        \/ /\ pc[c] = "remove" /\ pc'[c] = "threw"
           /\ \E p \in Procs \ {c} : pc[p] \in {"readPid", "pidWrite"}
<1>1. ASSUME TypeOK, ServedInv, [Next]_vars,
             NEW c \in Commands, served'[c] # {}, pc'[c] # pc[c]
      PROVE  Moves(c)
  <2>1. Next
    BY <1>1 DEF vars
  <2>2. \/ pc'[c] \notin {"launch", "wait", "failed", "threw"}
        \/ pc[c] = "remove" /\ pc'[c] = "threw" /\ PidIsOpen
    BY <1>1, <2>1, ServedStep
  <2>3. ASSUME pc[c] = "remove", PidIsOpen
        PROVE  \E p \in Procs \ {c} : pc[p] \in {"readPid", "pidWrite"}
    BY <2>3 DEF PidIsOpen, At
  <2> QED
    BY <2>2, <2>3
<1>2. TypeOK /\ ServedInv /\ [Next]_vars =>
        [\A c \in Commands : served'[c] # {} /\ pc'[c] # pc[c] => Moves(c)]_vars
  BY <1>1
<1> QED
  BY <1>2, TypeInvariant, ServedInvariant, PTL DEF Spec, ServedCommandFindsIt

-----------------------------------------------------------------------------
(* What the files hold *)

\* Every step keeps the files whole, or is recorded as one that does not.
LEMMA FilesStep ==
    ASSUME TypeOK, TornOnlyByDeath, Step PROVE TornOnlyByDeath'
  <1> USE ProcessesAssumption, SentinelsAssumption
      DEF TornOnlyByDeath, At, Goto, TypeOK, Files, Locals
  <1>0. /\ DefaultConfig \in Texts /\ Absent \notin UserConfigs \cup {DefaultConfig}
        /\ Empty \notin UserConfigs \cup {DefaultConfig}
    BY DEF DefaultConfig, Texts
  <1>1. ASSUME NEW p \in Procs, InitCheck(p) PROVE TornOnlyByDeath'
    BY <1>0, <1>1 DEF InitCheck, InitDone
  <1>2. ASSUME NEW p \in Procs, InitOpen(p) PROVE TornOnlyByDeath'
    BY <1>0, <1>2 DEF InitOpen
  <1>3. ASSUME NEW p \in Procs, InitWrite(p) PROVE TornOnlyByDeath'
    BY <1>0, <1>3 DEF InitWrite, InitDone
  <1>4. ASSUME NEW p \in Procs, RunInit(p) PROVE TornOnlyByDeath'
    BY <1>0, <1>4 DEF RunInit
  <1>5. ASSUME NEW p \in Procs, Kill(p) PROVE TornOnlyByDeath'
    BY <1>0, <1>5 DEF Kill
  <1>6. ASSUME NEW x \in Commands, RunCommand(x) PROVE TornOnlyByDeath'
    BY <1>0, <1>6 DEF RunCommand
  <1>7. ASSUME NEW x \in Commands, LoadConfig(x) PROVE TornOnlyByDeath'
    BY <1>0, <1>7 DEF LoadConfig
  <1>8. ASSUME NEW x \in Commands, OpenPid(x) PROVE TornOnlyByDeath'
    BY <1>0, <1>8 DEF OpenPid
  <1>9. ASSUME NEW x \in Commands, readPidFile(x) PROVE TornOnlyByDeath'
    BY <1>0, <1>9 DEF readPidFile
  <1>10. ASSUME NEW x \in Commands, isProcessAlive(x) PROVE TornOnlyByDeath'
    BY <1>0, <1>10 DEF isProcessAlive
  <1>11. ASSUME NEW x \in Commands, Probe(x) PROVE TornOnlyByDeath'
    BY <1>0, <1>11 DEF Probe
  <1>12. ASSUME NEW x \in Commands, FindStale(x) PROVE TornOnlyByDeath'
    BY <1>0, <1>12 DEF FindStale
  <1>13. ASSUME NEW x \in Commands, RemoveStale(x) PROVE TornOnlyByDeath'
    BY <1>0, <1>13 DEF RemoveStale
  <1>14. ASSUME NEW x \in Commands, ProbeAgain(x) PROVE TornOnlyByDeath'
    BY <1>0, <1>14 DEF ProbeAgain
  <1>15. ASSUME NEW x \in Commands, Launch(x) PROVE TornOnlyByDeath'
    BY <1>0, <1>15 DEF Launch
  <1>16. ASSUME NEW x \in Commands, Wait(x) PROVE TornOnlyByDeath'
    BY <1>0, <1>16 DEF Wait
  <1>17. ASSUME NEW x \in Commands, Connect(x) PROVE TornOnlyByDeath'
    BY <1>0, <1>17 DEF Connect, Listening, Procs
  <1>18. ASSUME NEW d \in Daemons, LoadOrInit(d) PROVE TornOnlyByDeath'
    BY <1>0, <1>18 DEF LoadOrInit
  <1>19. ASSUME NEW d \in Daemons, Reload(d) PROVE TornOnlyByDeath'
    BY <1>0, <1>19 DEF Reload
  <1>20. ASSUME NEW d \in Daemons, OpenPidFile(d) PROVE TornOnlyByDeath'
    BY <1>0, <1>20 DEF OpenPidFile, Procs
  <1>21. ASSUME NEW d \in Daemons, WritePidFile(d) PROVE TornOnlyByDeath'
    BY <1>0, <1>21 DEF WritePidFile, Procs, Pids
  <1>22. ASSUME NEW d \in Daemons, StartServer(d) PROVE TornOnlyByDeath'
    BY <1>0, <1>22 DEF StartServer
  <1>23. ASSUME NEW d \in Daemons, AcceptNext(d) PROVE TornOnlyByDeath'
    BY <1>0, <1>23 DEF AcceptNext
  <1>24. ASSUME NEW d \in Daemons, RunInside(d) PROVE TornOnlyByDeath'
    BY <1>0, <1>24 DEF RunInside, Procs
  <1>25. ASSUME NEW d \in Daemons, Stop(d) PROVE TornOnlyByDeath'
    BY <1>0, <1>25 DEF Stop, Serving, Procs
  <1>26. ASSUME NEW p \in Pids, ReusePid(p) PROVE TornOnlyByDeath'
    BY <1>0, <1>26 DEF ReusePid
  <1>27. CASE Edit
    BY <1>0, <1>27 DEF Edit
  <1> QED
    BY <1>0, <1>1, <1>2, <1>3, <1>4, <1>5, <1>6, <1>7, <1>8, <1>9, <1>10, <1>11, <1>12, <1>13, <1>14, <1>15, <1>16, <1>17, <1>18, <1>19, <1>20, <1>21, <1>22, <1>23, <1>24, <1>25, <1>26, <1>27 DEF Step, InitStep, CommandStep, DaemonStep

\* A file that nobody is writing is empty only when a process was killed while it wrote
\* it, its write failed, or the user wrote it too (ConfigManager::init, DaemonMain::run).
THEOREM TornByDeath == Spec => []TornOnlyByDeath
<1>1. Init => TornOnlyByDeath
  BY ProcessesAssumption, SentinelsAssumption DEF Init, TornOnlyByDeath, At
<1>2. TypeOK /\ TornOnlyByDeath /\ [Next]_vars => TornOnlyByDeath'
  BY FilesStep DEF Next, vars, TornOnlyByDeath, At
<1> QED
  BY <1>1, <1>2, TypeInvariant, PTL DEF Spec

\* Nobody else changes the configuration file.
LEMMA ConfigWriters ==
    ASSUME Step
    PROVE  \/ config' = config \/ Edit
           \/ \E p \in Procs : InitOpen(p) \/ InitWrite(p)
  BY DEF Step, InitStep, CommandStep, DaemonStep, Files, InitCheck, RunInit, Kill, RunCommand,
         LoadConfig, OpenPid, readPidFile, isProcessAlive, Probe, FindStale, RemoveStale,
         ProbeAgain, Launch, Wait, Connect, LoadOrInit, Reload, OpenPidFile, WritePidFile,
         RunInside, StartServer, AcceptNext, Stop, ReusePid

\* Nobody begins to initialise a file that is there.
LEMMA InitMoves ==
    ASSUME TypeOK, Step, config # Absent, NEW q \in Procs,
           pc'[q] \in {"initOpen", "initWrite"}
    PROVE  pc[q] \in {"initOpen", "initWrite"}
  <1> DEFINE Goal == pc[q] \in {"initOpen", "initWrite"}
  <1> SUFFICES Goal
    OBVIOUS
  <1> USE ProcessesAssumption DEF TypeOK, Procs, Goto
  <1>1. ASSUME NEW p \in Procs, InitCheck(p) PROVE Goal
    BY <1>1 DEF InitCheck, InitDone
  <1>2. ASSUME NEW p \in Procs, InitOpen(p) PROVE Goal
    BY <1>2 DEF InitOpen
  <1>3. ASSUME NEW p \in Procs, InitWrite(p) PROVE Goal
    BY <1>3 DEF InitWrite, InitDone
  <1>4. ASSUME NEW p \in Procs, RunInit(p) PROVE Goal
    BY <1>4 DEF RunInit
  <1>5. ASSUME NEW p \in Procs, Kill(p) PROVE Goal
    BY <1>5 DEF Kill
  <1>6. ASSUME NEW x \in Commands, RunCommand(x) PROVE Goal
    BY <1>6 DEF RunCommand
  <1>7. ASSUME NEW x \in Commands, LoadConfig(x) PROVE Goal
    BY <1>7 DEF LoadConfig
  <1>8. ASSUME NEW x \in Commands, OpenPid(x) PROVE Goal
    BY <1>8 DEF OpenPid
  <1>9. ASSUME NEW x \in Commands, readPidFile(x) PROVE Goal
    BY <1>9 DEF readPidFile
  <1>10. ASSUME NEW x \in Commands, isProcessAlive(x) PROVE Goal
    BY <1>10 DEF isProcessAlive
  <1>11. ASSUME NEW x \in Commands, Probe(x) PROVE Goal
    BY <1>11 DEF Probe
  <1>12. ASSUME NEW x \in Commands, FindStale(x) PROVE Goal
    BY <1>12 DEF FindStale
  <1>13. ASSUME NEW x \in Commands, RemoveStale(x) PROVE Goal
    BY <1>13 DEF RemoveStale
  <1>14. ASSUME NEW x \in Commands, ProbeAgain(x) PROVE Goal
    BY <1>14 DEF ProbeAgain
  <1>15. ASSUME NEW x \in Commands, Launch(x) PROVE Goal
    BY <1>15 DEF Launch
  <1>16. ASSUME NEW x \in Commands, Wait(x) PROVE Goal
    BY <1>16 DEF Wait
  <1>17. ASSUME NEW x \in Commands, Connect(x) PROVE Goal
    BY <1>17 DEF Connect
  <1>18. ASSUME NEW d \in Daemons, LoadOrInit(d) PROVE Goal
    BY <1>18 DEF LoadOrInit
  <1>19. ASSUME NEW d \in Daemons, Reload(d) PROVE Goal
    BY <1>19 DEF Reload
  <1>20. ASSUME NEW d \in Daemons, OpenPidFile(d) PROVE Goal
    BY <1>20 DEF OpenPidFile
  <1>21. ASSUME NEW d \in Daemons, WritePidFile(d) PROVE Goal
    BY <1>21 DEF WritePidFile
  <1>22. ASSUME NEW d \in Daemons, StartServer(d) PROVE Goal
    BY <1>22 DEF StartServer
  <1>23. ASSUME NEW d \in Daemons, AcceptNext(d) PROVE Goal
    BY <1>23 DEF AcceptNext
  <1>24. ASSUME NEW d \in Daemons, RunInside(d) PROVE Goal
    BY <1>24 DEF RunInside
  <1>25. ASSUME NEW d \in Daemons, Stop(d) PROVE Goal
    BY <1>25 DEF Stop
  <1>26. ASSUME NEW p \in Pids, ReusePid(p) PROVE Goal
    BY <1>26 DEF ReusePid
  <1>27. CASE Edit
    BY <1>27 DEF Edit
  <1> QED
    BY <1>1, <1>2, <1>3, <1>4, <1>5, <1>6, <1>7, <1>8, <1>9, <1>10, <1>11, <1>12, <1>13, <1>14, <1>15, <1>16, <1>17, <1>18, <1>19, <1>20, <1>21, <1>22, <1>23, <1>24, <1>25, <1>26, <1>27 DEF Step, InitStep, CommandStep, DaemonStep

\* When the user's text is in the file, who is past the check has been overtaken.
OvertakenInv ==
    config \in UserConfigs => At("initOpen") \cup At("initWrite") \subseteq overtaken

\* What the user wrote is destroyed only by a process that had looked for the file
\* before and had not finished when the user wrote it (ConfigManager::init, "Don't
\* overwrite existing config"), however many initialise at once.
THEOREM UserFileKept == Spec => UserConfigKept
<1>0. Absent \notin UserConfigs
  BY ProcessesAssumption, SentinelsAssumption
<1>1. Init => OvertakenInv
  BY DEF Init, OvertakenInv, At
<1>2. TypeOK /\ OvertakenInv /\ [Next]_vars => OvertakenInv'
  <2> SUFFICES ASSUME TypeOK, OvertakenInv, Next, config' \in UserConfigs,
                      NEW q \in Procs, pc'[q] \in {"initOpen", "initWrite"}
               PROVE  q \in overtaken'
    BY DEF vars, OvertakenInv, At
  <2>1. CASE config' # config
    BY <2>1 DEF Next, Watch
  <2>2. CASE config' = config
    <3>1. pc[q] \in {"initOpen", "initWrite"}
      BY <1>0, <2>2, InitMoves DEF Next
    <3>2. q \in overtaken
      BY <2>2, <3>1 DEF OvertakenInv, At
    <3> QED
      BY <3>2 DEF Next, Watch
  <2> QED
    BY <2>1, <2>2
<1>3. ASSUME TypeOK, OvertakenInv, [Next]_vars, config \in UserConfigs,
             config' \notin UserConfigs \cup {Absent}
      PROVE  \E p \in overtaken : pc'[p] # pc[p]
  <2>1. Step /\ ~Edit
    BY <1>3 DEF vars, Next, Edit
  <2>2. PICK p \in Procs : InitOpen(p) \/ InitWrite(p)
    BY <1>3, <2>1, ConfigWriters
  <2>3. p \in overtaken
    BY <1>3, <2>2 DEF OvertakenInv, At, InitOpen, InitWrite
  <2>4. pc'[p] # pc[p]
    BY <1>3, <2>2 DEF TypeOK, InitOpen, InitWrite, InitDone, Goto
  <2> QED
    BY <2>3, <2>4
<1>4. TypeOK /\ OvertakenInv /\ [Next]_vars =>
        [(config \in UserConfigs) => \/ config' \in UserConfigs \cup {Absent}
                                    \/ \E p \in overtaken : pc'[p] # pc[p]]_vars
  BY <1>3
<1> QED
  BY <1>1, <1>2, <1>4, TypeInvariant, PTL DEF Spec, UserConfigKept
=============================================================================
