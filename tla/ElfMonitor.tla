----------------------------- MODULE ElfMonitor -----------------------------
(***************************************************************************)
(* The ELF monitor daemon (exe.c) under its systemd unit                   *)
(* (elf_monitor.service), and the desktop button that starts it            *)
(* (desktop.c, on_button_clicked).  The three share the pid file.          *)
(*                                                                         *)
(* systemd is external: the unit is of Type=forking, so it is active when  *)
(* the parent exits, before the child has done anything; Restart=always    *)
(* starts it again unless it was stopped by a stop job; a stop job sends   *)
(* SIGTERM and, when the daemon does not end in time, SIGKILL.             *)
(* The system log is left out.                                             *)
(***************************************************************************)
EXTENDS ElfScan

CONSTANTS
  Apps,        \* the applications that have a button
  MaxRuns,     \* bound: how many daemons are ever started; the n-th has pid n
  MaxClicks    \* bound: how many buttons are clicked

ASSUME MonitorAssumption ==
  /\ MaxRuns \in Nat /\ MaxClicks \in Nat

VARIABLES
  unit,        \* the unit: "inactive", "active", "stopping", "restarting"
  pid,         \* the pid of the latest daemon, 0 before the first
  pc,          \* where that daemon is; "none" when it is gone
  running,     \* its flag of that name
  pid_file,    \* whose names, whole or in part, the pid file holds
  unclean,     \* history: the daemons that ended and did not unlink the file
  own,         \* history: "none", "opened" or "written", what the latest daemon
               \* has done to the pid file
  clicks,      \* how many buttons were clicked
  shell,       \* where the shell of a click is, see ShellPlaces
  command      \* its command: the application yet to be echoed, if any

daemonVars == <<pc, running, scanVars>>
shellVars == <<clicks, shell, command>>
vars == <<unit, pid, daemonVars, pid_file, unclean, own, shellVars>>

Pids == 1..MaxRuns
Loop == {"test", "scan", "sleep"}

\* No shell; one that is yet to open the pid file; one that has opened it and
\* is yet to write; the same, and the daemon has unlinked the file meanwhile.
ShellPlaces == {"idle", "start", "write", "unlinked"}

TypeOK ==
  /\ unit \in {"inactive", "active", "stopping", "restarting"}
  /\ pid \in Pids \union {0}
  /\ pc \in Loop \union {"none", "forked", "open", "write", "cleanup"}
  /\ running \in BOOLEAN
  /\ ScanTypeOK
  /\ pid_file \in SUBSET (Pids \union Apps)
  /\ unclean \in SUBSET Pids
  /\ own \in {"none", "opened", "written"}
  /\ clicks \in 0..MaxClicks
  /\ shell \in ShellPlaces
  /\ command \in SUBSET Apps

Init ==
  /\ unit = "inactive" /\ pid = 0
  /\ pc = "none" /\ running = FALSE /\ ScanInit
  /\ pid_file = {} /\ unclean = {} /\ own = "none"
  /\ clicks = 0 /\ shell = "idle" /\ command = {}

-----------------------------------------------------------------------------
(* systemd.                                                                *)

\* ExecStart, up to the exit of the parent in daemonize: asked for by a user
\* or a click ("inactive"), or by Restart=always.  The fork may fail; then
\* the unit has failed to start, and is restarted.
StartUnit ==
  /\ unit \in {"inactive", "restarting"}
  /\ \/ /\ pid < MaxRuns
        /\ unit' = "active" /\ pid' = pid + 1
        /\ pc' = "forked" /\ running' = TRUE /\ own' = "none"
        /\ frames' = <<>> /\ log' = <<>> /\ failed' = {}
     \/ /\ unit' = "restarting"
        /\ UNCHANGED <<pid, daemonVars, own>>
  /\ UNCHANGED <<pid_file, unclean, shellVars>>

\* What systemd makes of the end of the daemon.
DaemonEnds ==
  /\ pc' = "none"
  /\ unit' = IF unit = "stopping" THEN "inactive" ELSE "restarting"

-----------------------------------------------------------------------------
(* The daemon.                                                             *)

\* umask, setsid and chdir; one of them may fail.
Daemonize ==
  /\ pc = "forked"
  /\ \/ pc' = "open" /\ UNCHANGED <<unit, unclean>>
     \/ DaemonEnds /\ unclean' = unclean \union {pid}
  /\ UNCHANGED <<pid, running, scanVars, pid_file, own, shellVars>>

\* Mutant: the file is opened to append, and keeps what it holds.
OpenPidFile_Appends ==
  /\ pc = "open"
  /\ \/ pc' = "write" /\ own' = "opened"
     \/ pc' = "test" /\ UNCHANGED own
  /\ UNCHANGED <<unit, pid, running, scanVars, pid_file, unclean, shellVars>>

\* fopen empties the file, or fails; then the daemon goes on without.
OpenPidFile ==
  /\ pc = "open"
  /\ \/ pc' = "write" /\ own' = "opened" /\ pid_file' = {}
     \/ pc' = "test" /\ UNCHANGED <<own, pid_file>>
  /\ UNCHANGED <<unit, pid, running, scanVars, unclean, shellVars>>

\* What the file may hold once somebody has written names to its beginning:
\* they cover what was there, or only some of it; or nothing could be written.
Written(names) == {names, pid_file \union names, pid_file}

\* Mutant: the pid of the parent is written (getppid for getpid).
WritePidFile_Parent ==
  /\ pc = "write"
  /\ pc' = "test"
  /\ pid_file' \in Written({pid - 1})
  /\ own' = IF pid - 1 \in pid_file' THEN "written" ELSE own
  /\ UNCHANGED <<unit, pid, running, scanVars, unclean, shellVars>>

\* fclose writes the pid.
WritePidFile ==
  /\ pc = "write"
  /\ pc' = "test"
  /\ pid_file' \in Written({pid})
  /\ own' = IF pid \in pid_file' THEN "written" ELSE own
  /\ UNCHANGED <<unit, pid, running, scanVars, unclean, shellVars>>

\* Mutant: the loop does not look at the flag.
TestRunning_Always ==
  /\ pc = "test"
  /\ pc' = "scan" /\ BeginScan
  /\ UNCHANGED <<unit, pid, running, pid_file, unclean, own, shellVars>>

TestRunning ==
  /\ pc = "test"
  /\ \/ running /\ pc' = "scan" /\ BeginScan
     \/ ~running /\ pc' = "cleanup" /\ UNCHANGED scanVars
  /\ UNCHANGED <<unit, pid, running, pid_file, unclean, own, shellVars>>

\* The scan goes on to its end; it never looks at running.
Scan ==
  /\ pc = "scan"
  /\ \/ ScanEntry /\ UNCHANGED pc
     \/ frames = <<>> /\ pc' = "sleep" /\ UNCHANGED scanVars
  /\ UNCHANGED <<unit, pid, running, pid_file, unclean, own, shellVars>>

\* The sleep ends after its time, or earlier on a signal.
SleepEnds ==
  /\ pc = "sleep"
  /\ pc' = "test"
  /\ UNCHANGED <<unit, pid, running, scanVars, pid_file, unclean, own,
                 shellVars>>

\* Mutant: the pid file is not unlinked.
Cleanup_KeepsFile ==
  /\ pc = "cleanup"
  /\ DaemonEnds
  /\ UNCHANGED <<pid, running, scanVars, pid_file, unclean, own, shellVars>>

\* unlink may fail, which is ignored.  A shell that has the file open goes
\* on to write to what has no name any more.
Cleanup ==
  /\ pc = "cleanup"
  /\ DaemonEnds
  /\ \/ /\ pid_file' = {}
        /\ shell' = IF shell = "write" THEN "unlinked" ELSE shell
        /\ UNCHANGED unclean
     \/ /\ unclean' = unclean \union {pid}
        /\ UNCHANGED <<pid_file, shell>>
  /\ UNCHANGED <<pid, running, scanVars, own, clicks, command>>

Daemon ==
  \/ Daemonize \/ OpenPidFile \/ WritePidFile
  \/ TestRunning \/ Scan \/ SleepEnds \/ Cleanup

-----------------------------------------------------------------------------
(* Signals and users.                                                      *)

\* SIGTERM or SIGINT.  Before signal() has run, it ends the process.
signal_handler ==
  /\ pc # "none"
  /\ IF pc = "forked"
     THEN DaemonEnds /\ unclean' = unclean \union {pid} /\ UNCHANGED running
     ELSE running' = FALSE /\ UNCHANGED <<pc, unit, unclean>>
  /\ UNCHANGED <<pid, scanVars, pid_file, own, shellVars>>

\* systemctl stop: SIGTERM, or the end of the wait for a restart.
StopUnit ==
  /\ \/ /\ unit = "active" /\ pc = "forked"
        /\ unit' = "inactive" /\ pc' = "none"
        /\ unclean' = unclean \union {pid} /\ UNCHANGED running
     \/ /\ unit = "active" /\ pc # "forked"
        /\ unit' = "stopping" /\ running' = FALSE
        /\ UNCHANGED <<pc, unclean>>
     \/ /\ unit = "restarting" /\ unit' = "inactive"
        /\ UNCHANGED <<pc, running, unclean>>
  /\ UNCHANGED <<pid, scanVars, pid_file, own, shellVars>>

\* SIGKILL: a stop job that lasts longer than its timeout, or lack of memory.
Kill ==
  /\ pc # "none"
  /\ DaemonEnds /\ unclean' = unclean \union {pid}
  /\ UNCHANGED <<pid, running, scanVars, pid_file, own, shellVars>>

\* on_button_clicked: systemctl --no-block start only queues the start, so
\* the shell goes on to the echo at once.
Click(app) ==
  /\ shell = "idle"
  /\ clicks < MaxClicks
  /\ clicks' = clicks + 1
  /\ shell' = "start" /\ command' = {app}
  /\ UNCHANGED <<unit, pid, daemonVars, pid_file, unclean, own>>

ShellEnds == shell' = "idle" /\ command' = {}

\* The shell opens the pid file for the echo, which empties it.  When
\* systemctl has failed or the file cannot be opened, nothing is echoed.
EchoOpens ==
  /\ shell = "start"
  /\ \/ shell' = "write" /\ pid_file' = {} /\ UNCHANGED command
     \/ ShellEnds /\ UNCHANGED pid_file
  /\ UNCHANGED <<unit, pid, daemonVars, unclean, own, clicks>>

EchoWrites ==
  /\ \/ shell = "write" /\ pid_file' \in Written(command)
     \/ shell = "unlinked" /\ UNCHANGED pid_file
  /\ ShellEnds
  /\ UNCHANGED <<unit, pid, daemonVars, unclean, own, clicks>>

Echo == EchoOpens \/ EchoWrites

Next ==
  \/ StartUnit \/ Daemon \/ signal_handler \/ StopUnit \/ Kill
  \/ Echo \/ \E app \in Apps : Click(app)

Spec == Init /\ [][Next]_vars

\* The operating system schedules the daemon, and every sleep ends.
FairSpec == Spec /\ WF_vars(Daemon)

-----------------------------------------------------------------------------
(* Properties.                                                             *)

\* The pid file holds no pid but that of the live daemon, or one left by a
\* daemon that was killed, failed to start or could not unlink the file: one
\* that ends through its clean-up leaves nothing, whoever opens and writes the
\* file at whatever moment.
PidFileIsExplained ==
  \A p \in pid_file \ Apps : (p = pid /\ pc # "none") \/ p \in unclean

\* The pid that a killed daemon has left is gone for good once the next one
\* has opened the file, whatever is killed, fails or is echoed after that.
LeftoverIsReplaced ==
  pc # "none" /\ own # "none" => pid_file \subseteq Apps \union {pid}

\* A daemon that was told to end (running = 0) does end, though the scan of
\* the whole tree it may be in never looks at the flag.
SignalledDaemonEnds == ~running /\ pc # "none" ~> pc = "none"

\* What could not be opened costs a scan what is under it and nothing else:
\* every other 64-bit ELF file of the tree is in the log, once.
ScanLogsEveryElf == pc = "sleep" => ScanIsComplete

\* exe.c:109 ("PID dosyasi olustur", make the PID file): a file that a daemon
\* in its loop has written its pid to holds that pid and nothing else.
PidFileNamesDaemon ==
  pc \in Loop /\ own = "written" /\ pid_file # {} => pid_file = {pid}
=============================================================================
