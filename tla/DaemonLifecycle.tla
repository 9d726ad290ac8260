---------------------------- MODULE DaemonLifecycle ----------------------------
(***************************************************************************)
(* How a daemon comes to run and is found: ensureDaemonRunning and the      *)
(* commands of CLI/CliApp.cpp, DaemonMain::run, ConfigManager::init.        *)
(* Processes share three things: the configuration file, the PID file, and  *)
(* the name of the pipe.  Any of them may be killed between two steps, and  *)
(* the PID of a dead one may go to a process of another program.            *)
(*                                                                          *)
(* A file that is open cannot be removed (the streams of the C++ library do *)
(* not share deletion); a file that is being written is empty until it is   *)
(* closed.  Nothing makes the pipe name the property of one process: each   *)
(* daemon that creates an instance serves it.                               *)
(***************************************************************************)
EXTENDS ConfigStore, FiniteSets

CONSTANTS Commands,     \* processes running `th new', `list', `kill', ...
          Inits,        \* processes running `th init'
          Daemons,      \* processes that may be launched, named by their PID
          UserConfigs,  \* what the user may write into the configuration file
          Attempts,     \* bound of the wait for the daemon (10 in the code)
          NoFile, Garbage

Procs == Commands \cup Inits \cup Daemons
Pids == Daemons \cup {Garbage}      \* Garbage: two PIDs written over each other

ASSUME ProcessesAssumption ==
    /\ Commands \cap Inits = {} /\ Commands \cap Daemons = {} /\ Inits \cap Daemons = {}
    /\ Attempts \in Nat \ {0}
    /\ UserConfigs \subseteq Texts \ {DefaultConfig}
    /\ Garbage \notin Daemons /\ NoFile \notin Pids /\ Empty \notin Pids \cup {NoFile}

VARIABLES
  config,    \* Paths::configPath()
  pidFile,   \* Paths::daemonPidPath()
  pc,        \* where each process is
  pid,       \* per command: what it read from the PID file, NoFile for 0
  attempt,   \* per command: how often it waited for the daemon
  foreign,   \* the PIDs another program's process has
  torn,      \* whether the writing of a file went wrong
  served,    \* per command: the daemons that listened all through its search
  overtaken  \* the processes initialising a file that the user has written meanwhile

vars == <<config, pidFile, pc, pid, attempt, foreign, torn, served, overtaken>>

CommandLabels == {"idle", "load", "openPid", "readPid", "alive", "probe", "exists", "remove",
                  "probeAgain", "launch", "wait", "connect"}
InitLabels == {"idle", "initCheck", "initOpen", "initWrite"}
DaemonLabels == {"unborn", "load", "initCheck", "initOpen", "initWrite", "reload",
                 "pidOpen", "pidWrite", "start", "listening", "accepted", "deaf", "stopped"}
Ended == {"succeeded", "failed", "threw", "killed"}
Labels(p) == Ended \cup (IF p \in Commands THEN CommandLabels
                         ELSE IF p \in Inits THEN InitLabels ELSE DaemonLabels)

TypeOK ==
    /\ config \in {Absent, Empty, DefaultConfig} \cup UserConfigs
    /\ pidFile \in Pids \cup {NoFile, Empty}
    /\ pc \in [Procs -> CommandLabels \cup InitLabels \cup DaemonLabels \cup Ended]
    /\ \A p \in Procs : pc[p] \in Labels(p)
    /\ pid \in [Commands -> Pids \cup {NoFile}]
    /\ attempt \in [Commands -> 0 .. Attempts]
    /\ foreign \subseteq Pids /\ torn \in BOOLEAN
    /\ served \in [Commands -> SUBSET Daemons]
    /\ overtaken \subseteq Procs

Init ==
    /\ config \in {Absent} \cup UserConfigs
    /\ pidFile = NoFile
    /\ pc = [p \in Procs |-> IF p \in Daemons THEN "unborn" ELSE "idle"]
    /\ pid = [c \in Commands |-> NoFile]
    /\ attempt = [c \in Commands |-> 0]
    /\ foreign = {} /\ torn = FALSE
    /\ served = [c \in Commands |-> {}]
    /\ overtaken = {}

Goto(p, label) == pc' = [pc EXCEPT ![p] = label]
At(label) == {p \in Procs : pc[p] = label}
Listening == {d \in Daemons : pc[d] = "listening"}
Serving == {d \in Daemons : pc[d] \in {"listening", "accepted", "deaf"}}
Files == <<config, pidFile>>
Locals == <<pid, attempt>>

-----------------------------------------------------------------------------
(* ConfigManager::init, called by `th init' and by DaemonMain::run *)

InitDone(p) == Goto(p, IF p \in Daemons THEN "reload" ELSE "succeeded")

InitCheckMutant(p) ==       \* writes over what is there
    /\ pc[p] = "initCheck"
    /\ Goto(p, "initOpen")
    /\ UNCHANGED <<Files, Locals, foreign, torn>>

InitCheck(p) ==
    /\ pc[p] = "initCheck"
    /\ IF config # Absent THEN InitDone(p) ELSE Goto(p, "initOpen")
    /\ UNCHANGED <<Files, Locals, foreign, torn>>

\* std::ofstream truncates what another process, or the user, has written since the
\* check.
InitOpen(p) ==
    /\ pc[p] = "initOpen"
    /\ \/ config' = Empty /\ Goto(p, "initWrite")
       \/ UNCHANGED config /\ Goto(p, "failed")
    /\ UNCHANGED <<pidFile, Locals, foreign, torn>>

InitWriteMutant(p) ==       \* says it is done before the text is in the file
    /\ pc[p] = "initWrite"
    /\ InitDone(p)
    /\ UNCHANGED <<Files, Locals, foreign, torn>>

\* A text of the user may be the longer and leave its tail behind: no JSON.  Nobody
\* looks whether the text reached the disk.
InitWrite(p) ==
    /\ pc[p] = "initWrite"
    /\ \/ config' = DefaultConfig /\ UNCHANGED torn
       \/ config \in UserConfigs /\ config' = Empty /\ torn' = TRUE
       \/ UNCHANGED config /\ torn' = TRUE
    /\ InitDone(p)
    /\ UNCHANGED <<pidFile, Locals, foreign>>

-----------------------------------------------------------------------------
(* A command: load, ensureDaemonRunning, connect *)

RunInit(p) ==
    /\ p \in Inits /\ pc[p] = "idle"
    /\ Goto(p, "initCheck")
    /\ UNCHANGED <<Files, Locals, foreign, torn>>

RunCommand(c) ==
    /\ pc[c] = "idle"
    /\ Goto(c, "load")
    /\ UNCHANGED <<Files, Locals, foreign, torn>>

LoadConfig(c) ==
    /\ pc[c] = "load"
    /\ Goto(c, IF Loads(config) THEN "openPid" ELSE "failed")
    /\ UNCHANGED <<Files, Locals, foreign, torn>>

OpenPid(c) ==
    /\ pc[c] = "openPid"
    /\ Goto(c, IF pidFile = NoFile THEN "exists" ELSE "readPid")
    /\ UNCHANGED <<Files, Locals, foreign, torn>>

\* The file was open since the step before; one that is empty reads as 0.
readPidFile(c) ==
    /\ pc[c] = "readPid"
    /\ IF pidFile = Empty THEN Goto(c, "exists") /\ UNCHANGED pid
       ELSE Goto(c, "alive") /\ pid' = [pid EXCEPT ![c] = pidFile]
    /\ UNCHANGED <<Files, attempt, foreign, torn>>

Alive(p) == p \in foreign \/ (p \in Daemons /\ pc[p] \notin {"unborn"} \cup Ended)

isProcessAlive(c) ==
    /\ pc[c] = "alive"
    /\ Goto(c, IF Alive(pid[c]) THEN "probe" ELSE "exists")
    /\ pid' = [pid EXCEPT ![c] = NoFile]
    /\ UNCHANGED <<Files, attempt, foreign, torn>>

\* A pipe whose instances are all connected makes WaitNamedPipe time out, and the
\* error it gives is not the one that is tested for.
isDaemonRunning == Listening # {}

Probe(c) ==
    /\ pc[c] = "probe"
    /\ Goto(c, IF isDaemonRunning THEN "connect" ELSE "exists")
    /\ UNCHANGED <<Files, Locals, foreign, torn>>

FindStale(c) ==
    /\ pc[c] = "exists"
    /\ Goto(c, IF pidFile = NoFile THEN "probeAgain" ELSE "remove")
    /\ UNCHANGED <<Files, Locals, foreign, torn>>

PidIsOpen == At("readPid") \cup At("pidWrite") # {}

\* Nothing catches what std::filesystem::remove throws.
RemoveStale(c) ==
    /\ pc[c] = "remove"
    /\ IF PidIsOpen THEN Goto(c, "threw") /\ UNCHANGED pidFile
       ELSE Goto(c, "probeAgain") /\ pidFile' = NoFile
    /\ UNCHANGED <<config, Locals, foreign, torn>>

ProbeAgainMutant(c) ==      \* launches without a second look
    /\ pc[c] = "probeAgain"
    /\ Goto(c, "launch")
    /\ UNCHANGED <<Files, Locals, foreign, torn>>

ProbeAgain(c) ==
    /\ pc[c] = "probeAgain"
    /\ Goto(c, IF isDaemonRunning THEN "connect" ELSE "launch")
    /\ UNCHANGED <<Files, Locals, foreign, torn>>

Launch(c) ==
    /\ pc[c] = "launch"
    /\ \/ \E d \in Daemons : /\ pc[d] = "unborn" /\ d \notin foreign
                             /\ pc' = [pc EXCEPT ![c] = "wait", ![d] = "load"]
       \/ Goto(c, "failed")
    /\ UNCHANGED <<Files, Locals, foreign, torn>>

Wait(c) ==
    /\ pc[c] = "wait"
    /\ \/ /\ isDaemonRunning
          /\ Goto(c, "connect") /\ UNCHANGED attempt
       \/ /\ ~isDaemonRunning /\ attempt[c] + 1 = Attempts
          /\ Goto(c, "failed") /\ UNCHANGED attempt
       \/ /\ ~isDaemonRunning /\ attempt[c] + 1 < Attempts
          /\ attempt' = [attempt EXCEPT ![c] = @ + 1] /\ UNCHANGED pc
    /\ UNCHANGED <<Files, pid, foreign, torn>>

\* The instance a client connects to listens no more.  What follows is IpcClient's.
Connect(c) ==
    /\ pc[c] = "connect"
    /\ \/ \E d \in Listening : pc' = [pc EXCEPT ![c] = "succeeded", ![d] = "accepted"]
       \/ Listening = {} /\ Goto(c, "failed")
    /\ UNCHANGED <<Files, Locals, foreign, torn>>

-----------------------------------------------------------------------------
(* DaemonMain::run *)

LoadOrInit(d) ==
    /\ pc[d] = "load"
    /\ Goto(d, IF Loads(config) THEN "pidOpen" ELSE "initCheck")
    /\ UNCHANGED <<Files, Locals, foreign, torn>>

Reload(d) ==
    /\ pc[d] = "reload"
    /\ Goto(d, IF Loads(config) THEN "pidOpen" ELSE "failed")
    /\ UNCHANGED <<Files, Locals, foreign, torn>>

OpenPidFile(d) ==
    /\ pc[d] = "pidOpen"
    /\ \/ pidFile' = Empty /\ Goto(d, "pidWrite")
       \/ UNCHANGED pidFile /\ Goto(d, "start")
    /\ UNCHANGED <<config, Locals, foreign, torn>>

\* The PID of a daemon that wrote since the file was truncated may be the longer.
\* Here too nobody looks whether the text reached the disk.
WritePidFile(d) ==
    /\ pc[d] = "pidWrite"
    /\ \/ /\ pidFile' \in IF pidFile = Empty THEN {d} ELSE {d, Garbage}
          /\ UNCHANGED torn
       \/ UNCHANGED pidFile /\ torn' = TRUE
    /\ Goto(d, "start")
    /\ UNCHANGED <<config, Locals, foreign>>

\* A `th' that is typed inside a session is a daemon: TERMINALHUB_DAEMON is in the
\* environment ConPty::create hands on to the shell.
RunInside(d) ==
    /\ pc[d] = "unborn" /\ d \notin foreign
    /\ Serving # {}
    /\ Goto(d, "load")
    /\ UNCHANGED <<Files, Locals, foreign, torn>>

\* start says true whether or not the first instance of the pipe could be created.
StartServer(d) ==
    /\ pc[d] = "start"
    /\ \E outcome \in {"listening", "deaf", "failed"} : Goto(d, outcome)
    /\ UNCHANGED <<Files, Locals, foreign, torn>>

\* After a client has connected; a failure ends the chain of instances.
AcceptNext(d) ==
    /\ pc[d] = "accepted"
    /\ \E outcome \in {"listening", "deaf"} : Goto(d, outcome)
    /\ UNCHANGED <<Files, Locals, foreign, torn>>

\* A shutdown request: the server stops, and the main thread sleeps on.
Stop(d) ==
    /\ d \in Serving
    /\ Goto(d, "stopped")
    /\ UNCHANGED <<Files, Locals, foreign, torn>>

-----------------------------------------------------------------------------
(* The system around them *)

\* A command that is killed leaves nothing behind: that is left out.
Kill(p) ==
    /\ p \in Inits \cup Daemons /\ pc[p] \notin {"idle", "unborn"} \cup Ended
    /\ Goto(p, "killed")
    /\ torn' = (torn \/ pc[p] \in {"initWrite", "pidWrite"})
    /\ UNCHANGED <<Files, Locals, foreign>>

\* Only a PID that is still written somewhere matters.
ReusePid(p) ==
    /\ p \in {Garbage} \cup {d \in Daemons : pc[d] \in Ended}
    /\ p \in {pidFile} \cup {pid[c] : c \in Commands}
    /\ foreign' = foreign \cup {p}
    /\ UNCHANGED <<Files, pc, Locals, torn>>

\* The user writes the file at any time, and deletes it when nobody has it open.
Edit ==
    /\ \/ config' \in UserConfigs
       \/ At("initWrite") = {} /\ config' = Absent
    /\ UNCHANGED <<pidFile, pc, Locals, foreign, torn>>

-----------------------------------------------------------------------------
InitStep(p) == InitCheck(p) \/ InitOpen(p) \/ InitWrite(p)

CommandStep(c) ==
    \/ LoadConfig(c) \/ OpenPid(c) \/ readPidFile(c) \/ isProcessAlive(c) \/ Probe(c)
    \/ FindStale(c) \/ RemoveStale(c) \/ ProbeAgain(c) \/ Launch(c) \/ Wait(c) \/ Connect(c)

DaemonStep(d) ==
    \/ LoadOrInit(d) \/ Reload(d) \/ OpenPidFile(d) \/ WritePidFile(d)
    \/ StartServer(d) \/ AcceptNext(d)

Step ==
    \/ \E p \in Procs : InitStep(p) \/ RunInit(p) \/ Kill(p)
    \/ \E c \in Commands : CommandStep(c) \/ RunCommand(c)
    \/ \E d \in Daemons : DaemonStep(d) \/ RunInside(d) \/ Stop(d)
    \/ \E p \in Pids : ReusePid(p)
    \/ Edit

\* For the properties: served follows the daemons from the start of the search,
\* overtaken the processes between their check for the file and the end of their write.
Watch ==
    /\ served' = [c \in Commands |-> Listening' \cap
                     IF pc[c] = "load" /\ pc'[c] = "openPid" THEN Daemons ELSE served[c]]
    /\ overtaken' = {p \in Procs :
                        /\ pc'[p] \in {"initOpen", "initWrite"}
                        /\ p \in overtaken \/ (config' # config /\ config' \in UserConfigs)}

Next == Step /\ Watch

Spec == Init /\ [][Next]_vars

-----------------------------------------------------------------------------
(* What holds *)

\* A command that some daemon listens all through neither launches another nor gives
\* up: the PID file may be gone, torn, stale, or name another program's process
\* (ensureDaemonRunning).  The one exception is a command that removes the PID file
\* while another process has it open: what remove throws ends it.
ServedCommandFindsIt ==
    [][\A c \in Commands : served'[c] # {} /\ pc'[c] # pc[c] =>
          \/ pc'[c] \notin {"launch", "wait", "failed", "threw"}
          \/ /\ pc[c] = "remove" /\ pc'[c] = "threw"
             /\ \E p \in Procs \ {c} : pc[p] \in {"readPid", "pidWrite"}]_vars

\* A file that nobody is writing is empty only when a process was killed while it
\* wrote it, its write failed, or the user wrote the same file at that time: two that
\* initialise at once, or a daemon and a remover, leave a whole one.
TornOnlyByDeath ==
    ~torn => /\ config = Empty => At("initWrite") # {}
             /\ pidFile = Empty => At("pidWrite") # {}

\* What the user wrote is destroyed only by a process that had looked for the file
\* before and had not finished when the user wrote it (ConfigManager::init, "Don't
\* overwrite existing config"), never by one that starts to initialise later.
UserConfigKept ==
    [][(config \in UserConfigs) =>
          \/ config' \in UserConfigs \cup {Absent}
          \/ \E p \in overtaken : pc'[p] # pc[p]]_vars

-----------------------------------------------------------------------------
(* What the repository says, and the code does not do *)

\* "Don't overwrite existing config" (ConfigManager::init): nothing but the user
\* changes or removes the user's text.
ExistingConfigKept ==
    [][(config \in UserConfigs) => config' \in UserConfigs \cup {Absent}]_vars

\* "Ensure the daemon is running, start it if not" (CliApp.cpp, ensureDaemonRunning):
\* a command that a daemon listens to all through is not ended by an exception.
RunningDaemonIsFound == \A c \in Commands : served[c] # {} => pc[c] # "threw"

\* "Run 'th init' first to initialize configuration" (CliApp.cpp, cmdNew): once an
\* init of a file that was not there has succeeded, and nobody edited it, it loads.
InitMakesLoadable ==
    /\ At("succeeded") \cap Inits # {} /\ At("initWrite") = {} /\ ~torn
    /\ config \notin {Absent} \cup UserConfigs
    => Loads(config)
=============================================================================
