---------------------------- MODULE UserPrograms ----------------------------
(***************************************************************************)
(* The two programs of user space together: the desktop (desktop.c) and    *)
(* the ELF monitor (exe.c) with its unit.  They meet in the handler of a   *)
(* button, which has a shell start the monitor and write the pid file:     *)
(* system() in desktop.c returns when the shell has ended, so that until   *)
(* then the main thread of the desktop does nothing else, while its scan   *)
(* thread, the monitor and systemd go on.                                  *)
(***************************************************************************)
EXTENDS ElfMonitor

CONSTANTS Names, ExeNames, RootDirectories, MaxScans, garbage

VARIABLES
  scan, files, next, scans, allocated, buttons, shown, desktop_mutex,
  main, clicked, ran

Desk == INSTANCE Desktop WITH Directories <- RootDirectories

\* What is echoed into the pid file is what a click reads.
ASSUME UserAssumption ==
  /\ Desk!ConstantsFit
  /\ Apps = Names \union {garbage}

deskVars == <<scan, files, next, scans, allocated, buttons, shown,
              desktop_mutex, main, clicked, ran>>
userVars == <<vars, deskVars>>

UserInit == Init /\ Desk!Init

\* The monitor, its unit, those who signal it, and the shell of a click.
MonitorSide ==
  /\ StartUnit \/ Daemon \/ signal_handler \/ StopUnit \/ Kill \/ Echo
  /\ UNCHANGED deskVars

ScanThread == Desk!ScanThread /\ UNCHANGED vars

\* The main thread is not in system().
MainGoesOn == shell = "idle"

MainThread ==
  /\ MainGoesOn
  /\ Desk!StartScanThread \/ Desk!gtk_main \/ Desk!Click \/ Desk!CloseWindow
  /\ UNCHANGED vars

Exits == MainGoesOn /\ Desk!Exits /\ UNCHANGED vars

\* on_button_clicked, up to the return of systemctl: the name its pointer
\* leads to goes into the command.
RunCommand == \E app \in Apps :
  Desk!on_button_clicked /\ ran'.name = app /\ Click(app)

UserNext == MonitorSide \/ ScanThread \/ MainThread \/ Exits \/ RunCommand

UserSpec == UserInit /\ [][UserNext]_userVars

\* The operating system schedules the scan thread of the desktop, and its main
\* thread once the window is closed.  Nothing is asked of the users, the
\* monitor, systemd and the shell of a click: no property here waits for them.
UserFairSpec ==
  /\ UserSpec
  /\ WF_userVars(ScanThread) /\ WF_userVars(Exits)

-----------------------------------------------------------------------------
(* Properties, of the two programs at once.                                *)

\* Each program keeps the types of its variables.
UserTypeOK == TypeOK /\ Desk!TypeOK

\* Outside an update the desktop shows the applications of the last complete
\* one, whatever the monitor does.
ButtonsAreOfLastScan == Desk!ButtonsAreOfLastScan

\* When the window is closed the desktop ends.
DesktopEnds == Desk!DesktopEnds
=============================================================================
