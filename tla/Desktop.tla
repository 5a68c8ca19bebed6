------------------------------ MODULE Desktop ------------------------------
(***************************************************************************)
(* The desktop (desktop.c): the main thread, which runs GTK, and the       *)
(* thread that looks for applications on the FAT32 file system and puts a  *)
(* button for each on the desktop.  They share the desktop widget and the  *)
(* array of files a scan reads, whose names the buttons keep pointers to.  *)
(*                                                                         *)
(* External: GTK, pthreads and fat32_init, fat32_read_directory and        *)
(* fat32_free_file_info, which the repository uses and does not have.      *)
(* Wording, colours, sizes and positions are left out, and so is what      *)
(* the main thread does to widgets without running a handler (drawing).    *)
(***************************************************************************)
EXTENDS Integers, Sequences, Selection

CONSTANTS
  Names,         \* the names a directory may hold
  ExeNames,      \* those with ".exe" in them
  Directories,   \* what the root directory may hold: sequences of names
  MaxScans,      \* bound: directories read; later ones cannot be read
  garbage        \* what freed memory may be read as, besides a name

\* What the constants are, assumed where they are given values.
ConstantsFit ==
  /\ ExeNames \subseteq Names
  /\ Directories \subseteq Seq(Names)
  /\ MaxScans \in Nat
  /\ garbage \notin Names

VARIABLES
  scan,          \* where the scan thread is
  files,         \* the array it has read
  next,          \* its i: the entry of files to look at next
  scans,         \* how many arrays were allocated; the n-th is array n
  allocated,     \* the arrays not freed yet
  buttons,       \* the children of the desktop widget
  shown,         \* history: the directory of the last update that completed
  desktop_mutex, \* whether it is locked; only the scan thread ever locks it
  main,          \* where the main thread is
  clicked,       \* the button whose handler the main thread runs
  ran            \* the last application run: of which label, by which name

scanVars == <<scan, files, next, scans, allocated, shown, desktop_mutex>>
mainVars == <<main, clicked, ran>>
vars == <<scanVars, buttons, mainVars>>

Button == [label : ExeNames, array : 1..MaxScans]
Updating == {"remove", "add"}

TypeOK ==
  /\ scan \in Updating \union
       {"none", "init", "read", "lock", "unlock", "free", "sleep", "cancelled"}
  /\ files \in Directories \union {<<>>}
  /\ next \in 1..(Len(files) + 1)
  /\ scans \in 0..MaxScans
  /\ allocated \subseteq {scans} \ {0}
  /\ buttons \in Seq(Button)
  /\ shown \in Directories \union {<<>>}
  /\ desktop_mutex \in BOOLEAN
  /\ main \in {"start", "show", "loop", "clicked", "cancel", "join", "done"}
  /\ clicked \in [label : ExeNames, array : 1..MaxScans] \union {<<>>}
  /\ ran \in [label : ExeNames, name : Names \union {garbage}] \union {<<>>}

Init ==
  /\ scan = "none" /\ files = <<>> /\ next = 1
  /\ scans = 0 /\ allocated = {}
  /\ buttons = <<>> /\ shown = <<>> /\ desktop_mutex = FALSE
  /\ main = "start" /\ clicked = <<>> /\ ran = <<>>

-----------------------------------------------------------------------------
(* The scan thread, scan_applications.                                     *)

\* pthread_cancel acts at a cancellation point: the sleep is one, the calls
\* of the file system and of GTK may reach one in their input and output.
Cancelled ==
  /\ main = "join"
  /\ scan \in {"init", "read", "sleep"} \union Updating
  /\ scan' = "cancelled"
  /\ UNCHANGED <<files, next, scans, allocated, shown, desktop_mutex,
                 buttons, mainVars>>

fat32_init ==
  /\ scan = "init"
  /\ scan' \in {"read", "sleep"}
  /\ UNCHANGED <<files, next, scans, allocated, shown, desktop_mutex,
                 buttons, mainVars>>

\* i is set anew here: between here and line 109 nothing reads it.
fat32_read_directory ==
  /\ scan = "read"
  /\ \/ /\ scan' = "sleep"
        /\ UNCHANGED <<files, scans, allocated>>
     \/ /\ scans < MaxScans
        /\ scan' = "lock"
        /\ files' \in Directories
        /\ scans' = scans + 1
        /\ allocated' = allocated \union {scans + 1}
  /\ next' = 1
  /\ UNCHANGED <<shown, desktop_mutex, buttons, mainVars>>

\* pthread_mutex_lock, which is no cancellation point.
LockDesktop ==
  /\ scan = "lock" /\ ~desktop_mutex
  /\ desktop_mutex' = TRUE
  /\ scan' = "remove"
  /\ UNCHANGED <<files, next, scans, allocated, shown, buttons, mainVars>>

\* Mutant: every second child is passed over, as when the list of children
\* is walked while it shrinks.
remove_desktop_buttons_Skips ==
  /\ scan = "remove"
  /\ buttons' = [n \in 1..(Len(buttons) \div 2) |-> buttons[2 * n]]
  /\ scan' = "add"
  /\ UNCHANGED <<files, next, scans, allocated, shown, desktop_mutex,
                 mainVars>>

remove_desktop_buttons ==
  /\ scan = "remove"
  /\ \/ buttons # <<>> /\ buttons' = Tail(buttons) /\ UNCHANGED scan
     \/ buttons = <<>> /\ scan' = "add" /\ UNCHANGED buttons
  /\ UNCHANGED <<files, next, scans, allocated, shown, desktop_mutex,
                 mainVars>>

\* The button keeps the pointer to the name in the array.
add_desktop_button(name) ==
  buttons' = Append(buttons, [label |-> name, array |-> scans])

\* Mutant: every file is taken for an application.
IsApplication_Any(name) == TRUE
IsApplication(name) == name \in ExeNames

AddApplications ==
  /\ scan = "add"
  /\ \/ /\ next <= Len(files)
        /\ IF IsApplication(files[next])
           THEN add_desktop_button(files[next])
           ELSE UNCHANGED buttons
        /\ next' = next + 1 /\ UNCHANGED scan
     \/ next > Len(files) /\ scan' = "unlock" /\ UNCHANGED <<buttons, next>>
  /\ UNCHANGED <<files, scans, allocated, shown, desktop_mutex, mainVars>>

\* Mutant: the mutex stays locked.
UnlockDesktop_Forgotten ==
  /\ scan = "unlock"
  /\ shown' = files
  /\ scan' = "free"
  /\ UNCHANGED <<files, next, scans, allocated, desktop_mutex, buttons,
                 mainVars>>

UnlockDesktop ==
  /\ scan = "unlock"
  /\ desktop_mutex' = FALSE
  /\ shown' = files
  /\ scan' = "free"
  /\ UNCHANGED <<files, next, scans, allocated, buttons, mainVars>>

fat32_free_file_info ==
  /\ scan = "free"
  /\ allocated' = allocated \ {scans}
  /\ scan' = "sleep"
  /\ UNCHANGED <<files, next, scans, shown, desktop_mutex, buttons, mainVars>>

SleepEnds ==
  /\ scan = "sleep" /\ main # "join"
  /\ scan' = "init"
  /\ UNCHANGED <<files, next, scans, allocated, shown, desktop_mutex,
                 buttons, mainVars>>

ScanThread ==
  \/ Cancelled \/ fat32_init \/ fat32_read_directory \/ LockDesktop
  \/ remove_desktop_buttons \/ AddApplications \/ UnlockDesktop
  \/ fat32_free_file_info \/ SleepEnds

-----------------------------------------------------------------------------
(* The main thread.                                                        *)

MainGoes(from, to) == main = from /\ main' = to

\* main makes the widgets, the desktop among them, and starts the scan thread,
\* which may change the desktop before it is shown and the main loop runs.
StartScanThread ==
  /\ MainGoes("start", "show")
  /\ scan' = "init"
  /\ UNCHANGED <<files, next, scans, allocated, shown, desktop_mutex, buttons,
                 clicked, ran>>

gtk_main ==
  /\ MainGoes("show", "loop")
  /\ UNCHANGED <<scanVars, buttons, clicked, ran>>

\* The main loop calls on_button_clicked with the pointer of the button.
Click ==
  /\ MainGoes("loop", "clicked")
  /\ \E n \in 1..Len(buttons) :
       clicked' = [label |-> buttons[n].label, array |-> buttons[n].array]
  /\ UNCHANGED <<scanVars, buttons, ran>>

\* on_button_clicked reads the name the pointer leads to and runs it.
on_button_clicked ==
  /\ MainGoes("clicked", "loop")
  /\ \E name \in Names \union {garbage} :
       /\ clicked.array \in allocated => name = clicked.label
       /\ ran' = [label |-> clicked.label, name |-> name]
  /\ clicked' = <<>>
  /\ UNCHANGED <<scanVars, buttons>>

\* The window is closed: gtk_main returns, the scan thread is cancelled.
CloseWindow ==
  /\ MainGoes("loop", "cancel")
  /\ UNCHANGED <<scanVars, buttons, clicked, ran>>

pthread_cancel ==
  /\ MainGoes("cancel", "join")
  /\ UNCHANGED <<scanVars, buttons, clicked, ran>>

pthread_join ==
  /\ MainGoes("join", "done") /\ scan = "cancelled"
  /\ UNCHANGED <<scanVars, buttons, clicked, ran>>

Exits == pthread_cancel \/ pthread_join

Next ==
  \/ ScanThread
  \/ StartScanThread \/ gtk_main
  \/ Click \/ on_button_clicked
  \/ CloseWindow \/ Exits

Spec == Init /\ [][Next]_vars

\* Both threads are scheduled; no user is obliged to do anything.
FairSpec == Spec /\ WF_vars(ScanThread) /\ WF_vars(Exits)

-----------------------------------------------------------------------------
(* Properties.                                                             *)

\* Outside an update, the desktop has one button for each application of the
\* last directory an update completed with, in its order: an update that was
\* not begun (fat32_init or the reading failed) changes none of them, and one
\* that was, leaves nothing of the former ones.
ButtonsAreOfLastScan ==
  ~desktop_mutex =>
    [n \in 1..Len(buttons) |-> buttons[n].label]
      = Selected(shown, ExeNames)

\* When the window is closed the program ends: the cancelled thread comes to
\* a cancellation point, so the join returns.
DesktopEnds == main = "cancel" ~> main = "done"

\* desktop.c:50 and 55 (the function that runs when a button is clicked; it
\* runs the application): what runs is the application the button is for.
ClickRunsItsLabel == ran # <<>> => ran.name = ran.label
=============================================================================
