------------------------- MODULE UserProgramsProofs -------------------------
(***************************************************************************)
(* Proofs about the programs of user space: types, pid file and scan of    *)
(* the ELF monitor, for any tree, any number of daemons and any clicks;    *)
(* types and buttons of the desktop, for any directories; both together.   *)
(***************************************************************************)
EXTENDS UserPrograms, SequenceLemmas

(* Types.                                                                  *)

LEMMA RootIsDirectory == Root \in Directories
BY TreeAssumption

LEMMA EnterType == ASSUME NEW d \in Directories PROVE Enter(d) \in Frame
BY DEF Enter, Frame

\* The innermost frame moves on, or there is none left.
LEMMA AdvancedType ==
  ASSUME frames \in Seq(Frame), frames # <<>>
  PROVE  /\ Advanced \in Seq(Frame) /\ Tail(frames) \in Seq(Frame)
         /\ Head(frames) \in Frame
<1>1. Len(frames) \in Nat \ {0} /\ DOMAIN frames = 1..Len(frames)
  OBVIOUS
<1>2. frames[1] \in Frame /\ Head(frames) = frames[1]
  BY <1>1
<1>3. [frames[1] EXCEPT !.next = @ + 1] \in Frame
  BY <1>2 DEF Frame
<1>4. Advanced \in [1..Len(frames) -> Frame]
  BY <1>1, <1>2, <1>3 DEF Advanced
<1>5. Advanced \in Seq(Frame)
  BY <1>1, <1>4
<1> QED
  BY <1>2, <1>5

LEMMA BeginScanType == ASSUME BeginScan PROVE ScanTypeOK'
<1>1. <<Enter(Root)>> \in Seq(Frame) /\ <<>> \in Seq(Frame) /\ <<>> \in Seq(Elfs)
  BY RootIsDirectory, EnterType
<1>2. {Root} \subseteq Directories \union Elfs \union Others
  BY RootIsDirectory
<1> QED
  BY <1>1, <1>2 DEF BeginScan, ScanTypeOK

LEMMA ScanEntryType == ASSUME ScanTypeOK, ScanEntry PROVE ScanTypeOK'
<1> DEFINE d == Head(frames).directory
           e == Tree[d][Head(frames).next]
<1>1. frames # <<>>
  BY DEF ScanEntry
<1>2. /\ Advanced \in Seq(Frame) /\ Tail(frames) \in Seq(Frame)
  BY <1>1, AdvancedType DEF ScanTypeOK
<1>3. CASE e \in Directories /\ scan_subdirectory(e)
  <2>1. <<Enter(e)>> \o Advanced \in Seq(Frame)
    BY <1>2, <1>3, EnterType
  <2> QED
    BY <1>2, <1>3, <2>1 DEF scan_subdirectory, Unopened, ScanTypeOK
<1>4. CASE e \in Elfs \union Others /\ analyze_elf64(e)
  <2>1. frames' \in Seq(Frame)
    BY <1>2, <1>4 DEF analyze_elf64
  <2>2. log' \in Seq(Elfs)
    <3>1. e \in Elfs => Append(log, e) \in Seq(Elfs)
      BY DEF ScanTypeOK
    <3> QED
      BY <1>4, <3>1 DEF analyze_elf64, ScanTypeOK
  <2>3. failed' \subseteq Directories \union Elfs \union Others
    BY <1>4 DEF analyze_elf64, ScanTypeOK
  <2> QED
    BY <2>1, <2>2, <2>3 DEF ScanTypeOK
<1>5. CASE frames' = Advanced /\ UNCHANGED <<log, failed>>
  BY <1>2, <1>5 DEF ScanTypeOK
<1>6. CASE frames' = Tail(frames) /\ UNCHANGED <<log, failed>>
  BY <1>2, <1>6 DEF ScanTypeOK
<1> QED
  BY <1>3, <1>4, <1>5, <1>6 DEF ScanEntry

LEMMA ScanUnchanged == ASSUME ScanTypeOK, UNCHANGED scanVars PROVE ScanTypeOK'
BY DEF ScanTypeOK, scanVars

\* Before the first daemon there is none.
Numbered == pid = 0 => pc = "none"

\* The variables but those of the scan and the flag.
ProcessTypeOK ==
  /\ unit \in {"inactive", "active", "stopping", "restarting"}
  /\ pid \in Pids \union {0}
  /\ pc \in Loop \union {"none", "forked", "open", "write", "cleanup"}
  /\ pid_file \in SUBSET (Pids \union Apps)
  /\ unclean \in SUBSET Pids
  /\ own \in {"none", "opened", "written"}
  /\ clicks \in 0..MaxClicks
  /\ shell \in ShellPlaces
  /\ command \in SUBSET Apps

LEMMA TypeParts == TypeOK <=> ProcessTypeOK /\ running \in BOOLEAN /\ ScanTypeOK
BY DEF TypeOK, ProcessTypeOK

LEMMA ProcessType ==
  ProcessTypeOK /\ Numbered /\ [Next]_vars => ProcessTypeOK' /\ Numbered'
<1> SUFFICES ASSUME ProcessTypeOK, Numbered, [Next]_vars
             PROVE  ProcessTypeOK' /\ Numbered'
  OBVIOUS
<1> USE MonitorAssumption DEF ProcessTypeOK, Numbered, Pids, Loop, ShellPlaces,
        daemonVars, shellVars
<1>1. CASE StartUnit
  BY <1>1 DEF StartUnit
<1>2. CASE Daemonize
  BY <1>2 DEF Daemonize, DaemonEnds
<1>3. CASE OpenPidFile \/ WritePidFile
  BY <1>3 DEF OpenPidFile, WritePidFile, Written
<1>4. CASE TestRunning
  BY <1>4 DEF TestRunning
<1>5. CASE Scan
  BY <1>5 DEF Scan
<1>6. CASE SleepEnds
  BY <1>6 DEF SleepEnds
<1>7. CASE Cleanup
  BY <1>7 DEF Cleanup, DaemonEnds
<1>8. CASE signal_handler
  BY <1>8 DEF signal_handler, DaemonEnds
<1>9. CASE StopUnit
  BY <1>9 DEF StopUnit
<1>10. CASE Kill
  BY <1>10 DEF Kill, DaemonEnds
<1>11. CASE Echo
  BY <1>11 DEF Echo, EchoOpens, EchoWrites, ShellEnds, Written
<1>12. ASSUME NEW app \in Apps, Click(app) PROVE ProcessTypeOK' /\ Numbered'
  BY <1>12 DEF Click
<1>13. CASE UNCHANGED vars
  BY <1>13 DEF vars
<1> QED
  BY <1>1, <1>2, <1>3, <1>4, <1>5, <1>6, <1>7, <1>8, <1>9, <1>10, <1>11,
     <1>12, <1>13 DEF Next, Daemon

LEMMA FlagType == running \in BOOLEAN /\ [Next]_vars => running' \in BOOLEAN
BY Zenon DEF Next, vars, daemonVars, Daemon, StartUnit, Daemonize, OpenPidFile, WritePidFile,
     TestRunning, Scan, SleepEnds, Cleanup, signal_handler, StopUnit, Kill,
     Click, Echo, EchoOpens, EchoWrites

LEMMA ScanType == ScanTypeOK /\ [Next]_vars => ScanTypeOK'
<1> SUFFICES ASSUME ScanTypeOK, [Next]_vars PROVE ScanTypeOK'
  OBVIOUS
<1>1. CASE StartUnit
  <2>1. CASE frames' = <<>> /\ log' = <<>> /\ failed' = {}
    BY <2>1 DEF ScanTypeOK
  <2>2. CASE UNCHANGED scanVars
    BY <2>2, ScanUnchanged
  <2> QED
    BY <1>1, <2>1, <2>2 DEF StartUnit, daemonVars
<1>2. CASE TestRunning
  BY <1>2, BeginScanType, ScanUnchanged DEF TestRunning
<1>3. CASE Scan
  BY <1>3, ScanEntryType, ScanUnchanged DEF Scan
<1>4. CASE UNCHANGED scanVars
  BY <1>4, ScanUnchanged
<1>5. StartUnit \/ TestRunning \/ Scan \/ UNCHANGED scanVars
  BY DEF Next, vars, daemonVars, Daemon, Daemonize, OpenPidFile, WritePidFile, SleepEnds,
       Cleanup, signal_handler, StopUnit, Kill, Click, Echo,
       EchoOpens, EchoWrites
<1> QED
  BY <1>1, <1>2, <1>3, <1>4, <1>5

\* Each variable keeps its type, the frames and the log of a scan included.
THEOREM Typing == Spec => []TypeOK
<1> DEFINE TypeInv == ProcessTypeOK /\ Numbered /\ running \in BOOLEAN /\ ScanTypeOK
<1>1. Init => TypeInv
  <2> SUFFICES ASSUME Init PROVE TypeInv
    OBVIOUS
  <2>1. ProcessTypeOK /\ Numbered
    BY MonitorAssumption DEF Init, ProcessTypeOK, Numbered, ShellPlaces
  <2>2. running \in BOOLEAN
    BY DEF Init
  <2>3. ScanTypeOK
    BY DEF Init, ScanInit, ScanTypeOK
  <2> QED
    BY <2>1, <2>2, <2>3
<1>2. TypeInv /\ [Next]_vars => TypeInv'
  BY ProcessType, FlagType, ScanType
<1>3. TypeInv => TypeOK
  BY TypeParts
<1> HIDE DEF TypeInv
<1> QED
  BY <1>1, <1>2, <1>3, PTL DEF Spec

-----------------------------------------------------------------------------
(* The pid file.                                                           *)

\* systemd starts a daemon only when the former one is gone.
StartsAlone == unit \in {"inactive", "restarting"} => pc = "none"

\* What the clicks may write is no pid.
ClicksWriteNames == command \subseteq Apps

ExplainedInv == StartsAlone /\ ClicksWriteNames /\ PidFileIsExplained

LEMMA ExplainedInit == Init => ExplainedInv
  BY DEF Init, ExplainedInv, StartsAlone, ClicksWriteNames, PidFileIsExplained

\* Each action keeps the invariant.
LEMMA ExplainedStep == ExplainedInv /\ [Next]_vars => ExplainedInv'
<1> SUFFICES ASSUME ExplainedInv, [Next]_vars PROVE ExplainedInv'
  OBVIOUS
<1> USE DEF ExplainedInv, StartsAlone, ClicksWriteNames, PidFileIsExplained,
        daemonVars, shellVars
<1>1. CASE StartUnit
  BY <1>1 DEF StartUnit
<1>2. CASE Daemonize
  BY <1>2 DEF Daemonize, DaemonEnds
<1>3. CASE OpenPidFile \/ WritePidFile
  BY <1>3 DEF OpenPidFile, WritePidFile, Written
<1>4. CASE TestRunning
  BY <1>4 DEF TestRunning
<1>5. CASE Scan
  BY <1>5 DEF Scan
<1>6. CASE SleepEnds
  BY <1>6 DEF SleepEnds
<1>7. CASE Cleanup
  BY <1>7 DEF Cleanup, DaemonEnds
<1>8. CASE signal_handler
  BY <1>8 DEF signal_handler, DaemonEnds
<1>9. CASE StopUnit
  BY <1>9 DEF StopUnit
<1>10. CASE Kill
  BY <1>10 DEF Kill, DaemonEnds
<1>11. CASE Echo
  BY <1>11 DEF Echo, EchoOpens, EchoWrites, ShellEnds, Written
<1>12. ASSUME NEW app \in Apps, Click(app) PROVE ExplainedInv'
  BY <1>12 DEF Click
<1>13. CASE UNCHANGED vars
  BY <1>13 DEF vars
<1> QED
  BY <1>1, <1>2, <1>3, <1>4, <1>5, <1>6, <1>7, <1>8, <1>9, <1>10, <1>11,
     <1>12, <1>13 DEF Next, Daemon

\* The pid file holds no pid but that of the live daemon or of one that ended
\* and did not unlink it.
THEOREM Explained == Spec => []PidFileIsExplained
<1>1. ExplainedInv => PidFileIsExplained
  BY DEF ExplainedInv
<1> QED
  BY <1>1, ExplainedInit, ExplainedStep, PTL DEF Spec

\* Only a daemon that has opened the file writes to it.
OpensBefore == pc = "write" => own # "none"

LeftoverInv == ClicksWriteNames /\ OpensBefore /\ LeftoverIsReplaced

LEMMA LeftoverStep == LeftoverInv /\ [Next]_vars => LeftoverInv'
<1> SUFFICES ASSUME LeftoverInv, [Next]_vars PROVE LeftoverInv'
  OBVIOUS
<1> USE DEF LeftoverInv, ClicksWriteNames, OpensBefore, LeftoverIsReplaced,
        daemonVars, shellVars
<1>1. CASE StartUnit
  BY <1>1 DEF StartUnit
<1>2. CASE OpenPidFile
  BY <1>2 DEF OpenPidFile
<1>3. CASE WritePidFile
  BY <1>3 DEF WritePidFile, Written
<1>4. CASE EchoOpens
  BY <1>4 DEF EchoOpens, ShellEnds
<1>5. CASE EchoWrites
  BY <1>5 DEF EchoWrites, ShellEnds, Written
<1>6. ASSUME NEW app \in Apps, Click(app) PROVE LeftoverInv'
  BY <1>6 DEF Click
<1>7. CASE Daemonize \/ Cleanup
  BY <1>7 DEF Daemonize, Cleanup, DaemonEnds
<1>8. CASE TestRunning \/ Scan \/ SleepEnds
  BY <1>8 DEF TestRunning, Scan, SleepEnds
<1>9. CASE signal_handler \/ StopUnit \/ Kill
  BY <1>9 DEF signal_handler, StopUnit, Kill, DaemonEnds
<1>10. CASE UNCHANGED vars
  BY <1>10 DEF vars
<1> QED
  BY <1>1, <1>2, <1>3, <1>4, <1>5, <1>6, <1>7, <1>8, <1>9, <1>10
     DEF Next, Daemon, Echo

\* Once the next daemon has opened the pid file, the pid a former one has left
\* there does not come back, whatever shell opens and writes it.
THEOREM Leftover == Spec => []LeftoverIsReplaced
<1>1. Init => LeftoverInv
  BY DEF Init, LeftoverInv, ClicksWriteNames, OpensBefore, LeftoverIsReplaced
<1>2. LeftoverInv => LeftoverIsReplaced
  BY DEF LeftoverInv
<1> QED
  BY <1>1, <1>2, LeftoverStep, PTL DEF Spec

-----------------------------------------------------------------------------
(* The walk of a scan over the tree.                                       *)

\* The entries of a directory, each in one place of the tree.
LEMMA TreeEntries ==
  ASSUME NEW d \in Directories
  PROVE  /\ Len(Tree[d]) \in Nat
         /\ \A i \in 1..Len(Tree[d]) : Tree[d][i] \in Entries(d)
         /\ \A e \in Entries(d) : \E i \in 1..Len(Tree[d]) : Tree[d][i] = e
<1>1. Tree[d] \in Seq(Entries(d))
  BY TreeAssumption
<1>2. Len(Tree[d]) \in Nat /\ DOMAIN Tree[d] = 1..Len(Tree[d])
  BY <1>1
<1> QED
  BY <1>2 DEF Entries, ToSet

LEMMA OnePlace ==
  ASSUME NEW c \in Directories, NEW i \in 1..Len(Tree[c]),
         NEW d \in Directories, NEW n \in 1..Len(Tree[d]),
         Tree[c][i] = Tree[d][n]
  PROVE  c = d /\ i = n
<1>1. Tree[c][i] \in Entries(c) /\ Tree[d][n] \in Entries(d)
  BY TreeEntries
<1>2. c = d
  BY <1>1, TreeAssumption
<1>3. Tree[d] \in Seq(Entries(d)) /\ IsInjective(Tree[d])
  BY TreeAssumption
<1>4. DOMAIN Tree[d] = 1..Len(Tree[d])
  BY <1>3
<1> QED
  BY <1>2, <1>3, <1>4 DEF IsInjective

\* The readdir of an open directory has yet to come to its i-th entry.
Pending(fs, d, i) ==
  \E k \in 1..Len(fs) : fs[k].directory = d /\ fs[k].next <= i

\* No directory is open twice.
Apart(fs) ==
  \A j, k \in 1..Len(fs) : fs[j].directory = fs[k].directory => j = k

OpenIn(fs, V) == \A k \in 1..Len(fs) : fs[k].directory \in V

Logged == ToSet(log)

\* What the scan has met, when V are the directories it has opened.
Touched(V) == V \union failed \union Logged

\* What was met is an entry of an opened directory, or the root.
Known(V) ==
  \A e \in Touched(V) : e = Root \/ \E d \in V : e \in Entries(d)

\* The entries of an opened directory were met up to where its readdir is.
Entered(V) ==
  \A d \in V, i \in Nat : i \in 1..Len(Tree[d]) =>
    IF Pending(frames, d, i)
    THEN Tree[d][i] \notin Touched(V)
    ELSE Tree[d][i] \in Directories \union Elfs => Tree[d][i] \in Touched(V)

\* Each opened directory was come to from the root.
Connected(V) ==
  \A X \in SUBSET Directories :
    (/\ Root \in V => Root \in X
     /\ \A d \in X \intersect V : Entries(d) \intersect V \subseteq X)
    => V \subseteq X

\* Opened, logged and failed are different fates.
Fates(V) ==
  /\ V \intersect failed = {} /\ Logged \intersect failed = {}
  /\ Root \in Touched(V)

Walk(V) ==
  /\ Fates(V) /\ Known(V) /\ Entered(V) /\ Connected(V)
  /\ OpenIn(frames, V)

WalkOn ==
  Apart(frames) /\ IsInjective(log) /\ \E V \in SUBSET Directories : Walk(V)

\* The inductive invariant: a daemon in its scan is on a walk, and has
\* finished it when it sleeps.
WalkInv ==
  /\ pc \in {"scan", "sleep"} => WalkOn
  /\ pc = "sleep" => frames = <<>>

\* One more entry is met, at the place n of directory d, and perhaps opened.
LEMMA EntryMet ==
  ASSUME NEW V \in SUBSET Directories, NEW W \in SUBSET Directories,
         Known(V), Entered(V),
         NEW d \in V, NEW n \in 1..Len(Tree[d]), Pending(frames, d, n),
         NEW e, e = Tree[d][n],
         V \subseteq W, W \subseteq V \union {e},
         Touched(V) \subseteq Touched(W)', Touched(W)' \subseteq Touched(V) \union {e},
         e \in Directories \union Elfs => e \in Touched(W)',
         \A c \in V, i \in Nat :
           Pending(frames', c, i) <=> Pending(frames, c, i) /\ ~(c = d /\ i = n),
         \A i \in Nat \ {0} : e \in W => Pending(frames', e, i)
  PROVE  e \notin Touched(V) /\ Known(W)' /\ Entered(W)'
<1>1. n \in Nat /\ e \notin Touched(V) /\ e \notin V
  BY TreeEntries DEF Entered, Touched
<1>2. e \in Entries(d)
  BY TreeEntries
<1>3. Known(W)'
  BY <1>2 DEF Known
<1>4. ASSUME NEW c \in W, NEW i \in Nat, i \in 1..Len(Tree[c]), Pending(frames', c, i)
      PROVE  Tree[c][i] \notin Touched(W)'
  <2>1. CASE c \in V
    <3>1. Pending(frames, c, i) /\ ~(c = d /\ i = n)
      BY <1>4, <2>1
    <3>2. Tree[c][i] \notin Touched(V)
      BY <1>4, <2>1, <3>1 DEF Entered
    <3>3. Tree[c][i] # e
      BY <1>4, <2>1, <3>1, OnePlace
    <3> QED
      BY <3>2, <3>3
  <2>2. CASE c \notin V
    <3>1. c = e /\ c # d /\ Tree[c][i] \in Entries(c)
      BY <1>4, <2>2, TreeEntries
    <3>2. Tree[c][i] # e
      BY <1>2, <3>1, TreeAssumption
    <3>3. Tree[c][i] # Root
      BY <3>1, TreeAssumption
    <3>4. \A b \in V : Tree[c][i] \notin Entries(b)
      BY <2>2, <3>1, TreeAssumption
    <3> QED
      BY <3>2, <3>3, <3>4 DEF Known
  <2> QED
    BY <2>1, <2>2
<1>5. ASSUME NEW c \in W, NEW i \in Nat, i \in 1..Len(Tree[c]), ~Pending(frames', c, i),
             Tree[c][i] \in Directories \union Elfs
      PROVE  Tree[c][i] \in Touched(W)'
  <2>1. c \in V
    BY <1>5
  <2>2. CASE c = d /\ i = n
    BY <1>5, <2>2
  <2>3. CASE ~(c = d /\ i = n)
    BY <1>5, <2>1, <2>3 DEF Entered
  <2> QED
    BY <2>2, <2>3
<1>6. Entered(W)'
  BY <1>4, <1>5 DEF Entered
<1> QED
  BY <1>1, <1>3, <1>6

\* A directory that is an entry of an opened one is connected as they are.
LEMMA OneMoreConnected ==
  ASSUME NEW V \in SUBSET Directories, Connected(V), NEW d \in V,
         NEW e \in Directories \intersect Entries(d)
  PROVE  Connected(V \union {e})
<1> SUFFICES ASSUME NEW X \in SUBSET Directories,
                    Root \in V \union {e} => Root \in X,
                    \A c \in X \intersect (V \union {e}) :
                      Entries(c) \intersect (V \union {e}) \subseteq X
             PROVE  V \union {e} \subseteq X
  BY DEF Connected
<1>1. V \subseteq X
  BY DEF Connected
<1> QED
  BY <1>1

\* What is pending after each change of the frames.
LEMMA AdvancedPending ==
  ASSUME frames \in Seq(Frame), frames # <<>>, Apart(frames),
         NEW V, OpenIn(frames, V)
  PROVE  /\ Apart(Advanced) /\ OpenIn(Advanced, V)
         /\ \A c, i : i \in Nat =>
              (Pending(Advanced, c, i) <=>
                 /\ Pending(frames, c, i)
                 /\ ~(c = frames[1].directory /\ i = frames[1].next))
<1> DEFINE fs == Advanced
<1>1. Len(frames) \in Nat \ {0} /\ DOMAIN frames = 1..Len(frames)
  OBVIOUS
<1>2. \A k \in 1..Len(frames) : frames[k] \in Frame
  OBVIOUS
<1>3. /\ Len(fs) = Len(frames)
      /\ fs[1].directory = frames[1].directory
      /\ fs[1].next = frames[1].next + 1
      /\ \A k \in 2..Len(frames) : fs[k] = frames[k]
  BY <1>1, <1>2 DEF Advanced, Frame
<1>4. \A k \in 1..Len(frames) : fs[k].directory = frames[k].directory
  BY <1>1, <1>3
<1>5. Apart(fs) /\ OpenIn(fs, V)
  BY <1>3, <1>4 DEF Apart, OpenIn
<1>6. \A k \in 1..Len(frames) : frames[k].next \in Nat
  BY <1>2 DEF Frame
<1> HIDE DEF fs
<1>7. ASSUME NEW c, NEW i \in Nat, Pending(fs, c, i)
      PROVE  Pending(frames, c, i) /\ ~(c = frames[1].directory /\ i = frames[1].next)
  <2>1. PICK k \in 1..Len(frames) : fs[k].directory = c /\ fs[k].next <= i
    BY <1>3, <1>7 DEF Pending
  <2>2. CASE k = 1
    <3>1. frames[1].next + 1 <= i /\ c = frames[1].directory
      BY <1>3, <2>1, <2>2
    <3> QED
      BY <1>1, <1>6, <3>1 DEF Pending
  <2>3. CASE k # 1
    <3>1. frames[k].directory = c /\ frames[k].next <= i
      BY <1>1, <1>3, <2>1, <2>3
    <3>2. c # frames[1].directory
      BY <1>1, <2>3, <3>1 DEF Apart
    <3> QED
      BY <3>1, <3>2 DEF Pending
  <2> QED
    BY <2>2, <2>3
<1>8. ASSUME NEW c, NEW i \in Nat, Pending(frames, c, i),
             ~(c = frames[1].directory /\ i = frames[1].next)
      PROVE  Pending(fs, c, i)
  <2>1. PICK k \in 1..Len(frames) : frames[k].directory = c /\ frames[k].next <= i
    BY <1>8 DEF Pending
  <2>2. fs[k].directory = c /\ fs[k].next <= i
    <3>1. CASE k = 1
      BY <1>1, <1>3, <1>6, <1>8, <2>1, <3>1
    <3>2. CASE k # 1
      BY <1>1, <1>3, <2>1, <3>2
    <3> QED
      BY <3>1, <3>2
  <2> QED
    BY <1>3, <2>2 DEF Pending
<1> QED
  BY <1>5, <1>7, <1>8 DEF fs

LEMMA PushedPending ==
  ASSUME NEW fs \in Seq(Frame), Apart(fs), NEW V, OpenIn(fs, V),
         NEW e \in Directories, e \notin V
  PROVE  LET pushed == <<Enter(e)>> \o fs
         IN  /\ Apart(pushed) /\ OpenIn(pushed, V \union {e})
             /\ \A i \in Nat \ {0} : Pending(pushed, e, i)
             /\ \A c, i : c # e => (Pending(pushed, c, i) <=> Pending(fs, c, i))
<1> DEFINE pushed == <<Enter(e)>> \o fs
<1>1. /\ Len(fs) \in Nat /\ Len(pushed) = Len(fs) + 1
      /\ pushed[1] = Enter(e)
      /\ \A k \in 1..Len(fs) : pushed[k + 1] = fs[k]
  BY EnterType
<1>2. /\ \A k \in 2..Len(pushed) : k - 1 \in 1..Len(fs) /\ pushed[k] = fs[k - 1]
      /\ \A k \in 1..Len(pushed) : k = 1 \/ k \in 2..Len(pushed)
      /\ 1 \in 1..Len(pushed)
      /\ \A k \in 1..Len(fs) : k + 1 \in 2..Len(pushed) /\ k + 1 \in 1..Len(pushed)
  <2>1. \A k \in 2..Len(pushed) : k - 1 \in 1..Len(fs) /\ (k - 1) + 1 = k
    BY <1>1
  <2> QED
    BY <1>1, <2>1
<1> HIDE DEF pushed
<1>3. pushed[1].directory = e /\ pushed[1].next = 1
  BY <1>1 DEF Enter
<1>4. \A k \in 1..Len(fs) : fs[k].directory # e
  BY DEF OpenIn
<1>5. Apart(pushed)
  <2> SUFFICES ASSUME NEW j \in 1..Len(pushed), NEW k \in 1..Len(pushed),
                      pushed[j].directory = pushed[k].directory
               PROVE  j = k
    BY DEF Apart
  <2>1. CASE j = 1 \/ k = 1
    BY <1>2, <1>3, <1>4, <2>1
  <2>2. CASE j \in 2..Len(pushed) /\ k \in 2..Len(pushed)
    <3>1. j - 1 = k - 1
      BY <1>2, <2>2 DEF Apart
    <3> QED
      BY <2>2, <3>1
  <2> QED
    BY <1>2, <2>1, <2>2
<1>6. OpenIn(pushed, V \union {e})
  BY <1>2, <1>3 DEF OpenIn
<1>7. \A i \in Nat \ {0} : Pending(pushed, e, i)
  BY <1>2, <1>3 DEF Pending
<1>8. ASSUME NEW c, NEW i, c # e
      PROVE  Pending(pushed, c, i) <=> Pending(fs, c, i)
  BY <1>1, <1>2, <1>3, <1>8 DEF Pending
<1> QED
  BY <1>5, <1>6, <1>7, <1>8 DEF pushed

\* The innermost directory is left when all of its entries were met.
LEMMA LeftPending ==
  ASSUME frames \in Seq(Frame), frames # <<>>, Apart(frames),
         NEW V, OpenIn(frames, V)
  PROVE  /\ Apart(Tail(frames)) /\ OpenIn(Tail(frames), V)
         /\ \A c, i : i \in Nat /\ (c = frames[1].directory => i < frames[1].next) =>
              (Pending(Tail(frames), c, i) <=> Pending(frames, c, i))
<1> DEFINE fs == Tail(frames)
<1>1. /\ Len(frames) \in Nat \ {0} /\ Len(fs) = Len(frames) - 1
      /\ \A k \in 1..Len(fs) : fs[k] = frames[k + 1]
  OBVIOUS
<1>2. \A k \in 1..Len(frames) : frames[k] \in Frame /\ frames[k].next \in Nat
  <2>1. \A k \in 1..Len(frames) : frames[k] \in Frame
    OBVIOUS
  <2> QED
    BY <2>1 DEF Frame
<1>3. /\ \A k \in 1..Len(fs) : k + 1 \in 1..Len(frames)
      /\ \A k \in 1..Len(frames) : k = 1 \/ (k - 1 \in 1..Len(fs) /\ fs[k - 1] = frames[k])
      /\ 1 \in 1..Len(frames)
  <2>1. \A k \in 1..Len(frames) : k = 1 \/ (k - 1 \in 1..Len(fs) /\ (k - 1) + 1 = k)
    BY <1>1
  <2> QED
    BY <1>1, <2>1
<1> HIDE DEF fs
<1>4. Apart(fs)
  <2> SUFFICES ASSUME NEW j \in 1..Len(fs), NEW k \in 1..Len(fs),
                      fs[j].directory = fs[k].directory
               PROVE  j = k
    BY DEF Apart
  <2>1. j + 1 = k + 1
    BY <1>1, <1>3 DEF Apart
  <2> QED
    BY <2>1
<1>5. OpenIn(fs, V)
  BY <1>1, <1>3 DEF OpenIn
<1>6. ASSUME NEW c, NEW i \in Nat, c = frames[1].directory => i < frames[1].next
      PROVE  Pending(fs, c, i) <=> Pending(frames, c, i)
  <2>1. ~(frames[1].directory = c /\ frames[1].next <= i)
    BY <1>2, <1>3, <1>6
  <2> QED
    BY <1>1, <1>3, <2>1 DEF Pending
<1> QED
  BY <1>4, <1>5, <1>6 DEF fs

\* One more file in the log.
LEMMA OneMoreLogged ==
  ASSUME log \in Seq(Elfs), NEW f \in Elfs
  PROVE  /\ ToSet(Append(log, f)) = Logged \union {f}
         /\ IsInjective(log) /\ f \notin Logged => IsInjective(Append(log, f))
<1> DEFINE longer == Append(log, f)
<1>1. /\ Len(log) \in Nat /\ DOMAIN log = 1..Len(log)
      /\ DOMAIN longer = 1..(Len(log) + 1)
      /\ \A i \in 1..Len(log) : longer[i] = log[i]
      /\ longer[Len(log) + 1] = f
  OBVIOUS
<1>2. \A i \in DOMAIN longer : i \in 1..Len(log) \/ i = Len(log) + 1
  BY <1>1
<1>3. 1..Len(log) \subseteq DOMAIN longer /\ Len(log) + 1 \in DOMAIN longer
  BY <1>1
<1> HIDE DEF longer
<1>4. ToSet(longer) = Logged \union {f}
  BY <1>1, <1>2, <1>3 DEF ToSet, Logged
<1>5. ASSUME IsInjective(log), f \notin Logged PROVE IsInjective(longer)
  <2>1. \A i \in 1..Len(log) : log[i] # f
    BY <1>1, <1>5 DEF Logged, ToSet
  <2> QED
    BY <1>1, <1>2, <1>5, <2>1 DEF IsInjective
<1> QED
  BY <1>4, <1>5 DEF longer

\* A scan begins at the root, opened or not.
LEMMA WalkBegins == ASSUME BeginScan PROVE WalkOn'
<1>1. log' = <<>> /\ IsInjective(<<>>) /\ ToSet(<<>>) = {}
  BY DEF BeginScan, IsInjective, ToSet
<1>2. Logged' = {} /\ IsInjective(log)'
  BY <1>1 DEF Logged
<1>3. CASE frames' = <<Enter(Root)>> /\ failed' = {}
  <2>1. Len(frames') = 1 /\ frames'[1] = Enter(Root)
    BY <1>3
  <2>2. Apart(frames)' /\ OpenIn(frames, {Root})'
    BY <2>1 DEF Apart, OpenIn, Enter
  <2>3. Fates({Root})' /\ Known({Root})'
    BY <1>2, <1>3 DEF Fates, Known, Touched
  <2>4. Entered({Root})'
    <3>1. \A i \in Nat \ {0} : Pending(frames', Root, i)
      BY <2>1 DEF Pending, Enter
    <3>2. \A i \in 1..Len(Tree[Root]) : i \in Nat \ {0} /\ Tree[Root][i] # Root
      BY RootIsDirectory, TreeEntries, TreeAssumption
    <3> QED
      BY <1>2, <1>3, <3>1, <3>2 DEF Entered, Touched
  <2>5. Connected({Root})
    BY DEF Connected
  <2> QED
    BY <1>2, <2>2, <2>3, <2>4, <2>5, RootIsDirectory DEF Walk, WalkOn, Connected
<1>4. CASE frames' = <<>> /\ failed' = {Root}
  <2>1. Len(frames') = 0
    BY <1>4
  <2>2. Apart(frames)' /\ OpenIn(frames, {})'
    BY <2>1 DEF Apart, OpenIn
  <2>3. Fates({})' /\ Known({})' /\ Entered({})'
    BY <1>2, <1>4 DEF Fates, Known, Entered, Touched
  <2>4. Connected({})
    BY DEF Connected
  <2> QED
    BY <1>2, <2>2, <2>3, <2>4 DEF Walk, WalkOn, Connected
<1> QED
  BY <1>3, <1>4 DEF BeginScan

\* A turn of the loop leaves the walk one, with one more entry met or none.
LEMMA WalkGoesOn == ASSUME ScanTypeOK, WalkOn, ScanEntry PROVE WalkOn'
<1> DEFINE d == frames[1].directory
           n == frames[1].next
           e == Tree[d][n]
<1>1. PICK V \in SUBSET Directories : Walk(V)
  BY DEF WalkOn
<1>2. /\ frames # <<>> /\ frames \in Seq(Frame) /\ Head(frames) = frames[1]
      /\ log \in Seq(Elfs) /\ Apart(frames) /\ IsInjective(log)
      /\ OpenIn(frames, V)
  BY <1>1 DEF ScanEntry, ScanTypeOK, WalkOn, Walk
<1>3. Len(frames) \in Nat \ {0} /\ frames[1] \in Frame
  BY <1>2
<1>4. d \in V /\ n \in Nat \ {0}
  BY <1>2, <1>3 DEF OpenIn, Frame
<1>5. CASE n <= Len(Tree[d]) /\ frames' = Advanced
  <2>0. n \in 1..Len(Tree[d]) /\ Pending(frames, d, n)
    BY <1>3, <1>4, <1>5, TreeEntries DEF Pending
  <2>1. Apart(frames)' /\ OpenIn(frames, V)'
    BY <1>2, <1>5, AdvancedPending
  <2>2. \A c \in V, i \in Nat :
          Pending(frames', c, i) <=> Pending(frames, c, i) /\ ~(c = d /\ i = n)
    BY <1>2, <1>5, AdvancedPending
  <2>3. e \notin Touched(V)
    BY <1>1, <1>4, <2>0 DEF Walk, Entered
  <2>4. ASSUME Touched(V) \subseteq Touched(V)',
               Touched(V)' \subseteq Touched(V) \union {e},
               e \in Directories \union Elfs => e \in Touched(V)',
               Fates(V)', IsInjective(log)'
        PROVE  WalkOn'
    <3>1. e \notin V
      BY <2>3 DEF Touched
    <3>2. Known(V)' /\ Entered(V)'
      BY <1>1, <1>4, <2>0, <2>2, <2>4, <3>1, EntryMet DEF Walk
    <3> QED
      BY <1>1, <2>1, <2>4, <3>2 DEF Walk, WalkOn, Connected
  <2>5. CASE log' = log /\ failed' = failed \union {e}
    <3>1. Fates(V)' /\ IsInjective(log)'
      BY <1>1, <1>2, <2>3, <2>5 DEF Walk, Fates, Touched, Logged
    <3> QED
      BY <2>4, <2>5, <3>1 DEF Touched, Logged
  <2>6. CASE e \in Elfs /\ log' = Append(log, e) /\ failed' = failed
    <3>1. Logged' = Logged \union {e}
      BY <1>2, <2>6, OneMoreLogged DEF Logged
    <3>2. e \notin Logged /\ e \notin failed
      BY <2>3 DEF Touched
    <3>3. IsInjective(log)'
      BY <1>2, <2>6, <3>2, OneMoreLogged
    <3>4. Fates(V)'
      BY <1>1, <2>6, <3>1, <3>2 DEF Walk, Fates, Touched
    <3> QED
      BY <2>4, <2>6, <3>1, <3>3, <3>4 DEF Touched
  <2>7. CASE e \notin Directories \union Elfs /\ log' = log /\ failed' = failed
    <3>1. Fates(V)' /\ IsInjective(log)'
      BY <1>1, <1>2, <2>7 DEF Walk, Fates, Touched, Logged
    <3> QED
      BY <2>4, <2>7, <3>1 DEF Touched, Logged
  <2> HIDE DEF d, n, e
  <2>8. CASE e \in Directories /\ scan_subdirectory(e)
    <3>1. \/ UNCHANGED log /\ failed' = failed \union {e}
          \/ frames' = <<Enter(e)>> \o Advanced
      BY <2>8 DEF scan_subdirectory
    <3>2. frames' # <<Enter(e)>> \o Advanced
      <4>1. Advanced \in Seq(Frame) /\ Enter(e) \in Frame
        BY <1>2, <2>8, AdvancedType, EnterType
      <4> QED
        BY <1>5, <4>1
    <3> QED
      BY <2>5, <3>1, <3>2
  <2>9. CASE e \in Elfs \union Others /\ analyze_elf64(e)
    <3>1. e \notin Directories
      BY <2>9, TreeAssumption
    <3> QED
      BY <2>5, <2>6, <2>7, <2>9, <3>1 DEF analyze_elf64
  <2>10. CASE e \in Skipped /\ UNCHANGED <<log, failed>>
    <3>1. e \notin Directories \union Elfs
      BY <2>10 DEF Skipped
    <3> QED
      BY <2>7, <2>10, <3>1
  <2>11. n > Len(Tree[d]) \/ (e \in Directories /\ scan_subdirectory(e))
         \/ (e \in Elfs \union Others /\ analyze_elf64(e))
         \/ (e \in Skipped /\ UNCHANGED <<log, failed>>)
    BY <1>2 DEF ScanEntry, d, n, e
  <2>12. ~(n > Len(Tree[d]))
    BY <2>0 DEF n
  <2> QED
    BY <2>8, <2>9, <2>10, <2>11, <2>12
<1>6. CASE /\ n <= Len(Tree[d]) /\ e \in Directories
           /\ frames' = <<Enter(e)>> \o Advanced /\ UNCHANGED <<log, failed>>
  <2> PICK x \in Directories : x = e
    BY <1>6
  <2> DEFINE W == V \union {x}
  <2>0. n \in 1..Len(Tree[d]) /\ Pending(frames, d, n) /\ Advanced \in Seq(Frame)
    BY <1>2, <1>3, <1>4, <1>6, TreeEntries, AdvancedType DEF Pending
  <2>1. e \notin Touched(V) /\ e \notin V /\ e \in Entries(d)
    BY <1>1, <1>4, <2>0, TreeEntries DEF Walk, Entered, Touched
  <2>2. Apart(Advanced) /\ OpenIn(Advanced, V)
    BY <1>2, AdvancedPending
  <2>3. \A c, i : i \in Nat =>
          (Pending(Advanced, c, i) <=> Pending(frames, c, i) /\ ~(c = d /\ i = n))
    BY <1>2, AdvancedPending
  <2>4. /\ Apart(frames)' /\ OpenIn(frames, W)'
        /\ \A i \in Nat \ {0} : Pending(frames', x, i)
        /\ \A c, i : c # x => (Pending(frames', c, i) <=> Pending(Advanced, c, i))
    <3>1. frames' = <<Enter(x)>> \o Advanced
      BY <1>6
    <3>2. x \notin V
      BY <2>1
    <3> QED
      BY <2>0, <2>2, <3>1, <3>2, PushedPending
  <2>5. \A c \in V, i \in Nat :
          Pending(frames', c, i) <=> Pending(frames, c, i) /\ ~(c = d /\ i = n)
    BY <2>1, <2>3, <2>4
  <2>6. Touched(W)' = Touched(V) \union {x} /\ Logged' = Logged /\ failed' = failed
    BY <1>6 DEF Touched, Logged
  <2>7. Fates(W)'
    BY <1>1, <2>1, <2>6 DEF Walk, Fates, Touched
  <2>8. Known(W)' /\ Entered(W)'
    <3>1. W \in SUBSET Directories /\ x = Tree[d][n]
      OBVIOUS
    <3>2. V \subseteq W /\ W \subseteq V \union {x}
      OBVIOUS
    <3>3. /\ Touched(V) \subseteq Touched(W)'
          /\ Touched(W)' \subseteq Touched(V) \union {x}
          /\ x \in Directories \union Elfs => x \in Touched(W)'
      BY <2>6
    <3> HIDE DEF d, n, e
    <3> HIDE DEF W
    <3> QED
      BY <1>1, <1>4, <2>0, <2>4, <2>5, <3>1, <3>2, <3>3, EntryMet DEF Walk
  <2>9. Connected(W)
    BY <1>1, <1>4, <1>6, <2>1, OneMoreConnected DEF Walk
  <2>10. IsInjective(log)'
    BY <1>2, <1>6
  <2> QED
    BY <1>6, <2>4, <2>7, <2>8, <2>9, <2>10 DEF Walk, WalkOn, Connected
<1>7. CASE n > Len(Tree[d]) /\ frames' = Tail(frames) /\ UNCHANGED <<log, failed>>
  <2>1. Apart(frames)' /\ OpenIn(frames, V)'
    BY <1>2, <1>7, LeftPending
  <2>2. \A c \in V, i \in Nat : i \in 1..Len(Tree[c]) =>
          (Pending(frames', c, i) <=> Pending(frames, c, i))
    <3>1. \A c, i : i \in Nat /\ (c = d => i < n) =>
            (Pending(frames', c, i) <=> Pending(frames, c, i))
      BY <1>2, <1>7, LeftPending
    <3>2. \A i \in Nat : i \in 1..Len(Tree[d]) => i < n
      BY <1>4, <1>7, TreeEntries
    <3> QED
      BY <3>1, <3>2
  <2>3. Touched(V)' = Touched(V) /\ Logged' = Logged /\ failed' = failed
    BY <1>7 DEF Touched, Logged
  <2>4. Fates(V)' /\ Known(V)'
    BY <1>1, <2>3 DEF Walk, Fates, Known
  <2>5. Entered(V)'
    BY <1>1, <2>2, <2>3 DEF Walk, Entered
  <2>6. IsInjective(log)'
    BY <1>2, <1>7
  <2> QED
    BY <1>1, <2>1, <2>4, <2>5, <2>6 DEF Walk, WalkOn, Connected
<1> QED
  <2>1. \/ n <= Len(Tree[d]) /\ frames' = Advanced
        \/ /\ n <= Len(Tree[d]) /\ e \in Directories
           /\ frames' = <<Enter(e)>> \o Advanced /\ UNCHANGED <<log, failed>>
        \/ n > Len(Tree[d]) /\ frames' = Tail(frames) /\ UNCHANGED <<log, failed>>
    BY <1>2 DEF ScanEntry, scan_subdirectory, Unopened, analyze_elf64
  <2> QED
    BY <1>5, <1>6, <1>7, <2>1

\* With no directory open any more, what the scan opened is Opened.
LEMMA WalkEnds == ASSUME ScanTypeOK, WalkOn, frames = <<>> PROVE ScanIsComplete
<1>1. PICK V \in SUBSET Directories : Walk(V)
  BY DEF WalkOn
<1>2. /\ Fates(V) /\ Known(V) /\ Entered(V) /\ Connected(V)
      /\ IsInjective(log) /\ Logged \subseteq Elfs
  <2>1. log \in Seq(Elfs)
    BY DEF ScanTypeOK
  <2>2. Logged \subseteq Elfs
    BY <2>1 DEF Logged, ToSet
  <2> QED
    BY <1>1, <2>2 DEF Walk, WalkOn
<1>3. ASSUME NEW d \in V, NEW e \in Entries(d), e \in Directories \union Elfs
      PROVE  e \in Touched(V)
  <2>1. PICK i \in 1..Len(Tree[d]) : Tree[d][i] = e
    BY TreeEntries
  <2>2. i \in Nat /\ ~Pending(frames, d, i)
    BY TreeEntries DEF Pending
  <2> QED
    BY <1>2, <1>3, <2>1, <2>2 DEF Entered
<1>4. ClosedUnderOpening(V)
  <2>1. {Root} \ failed \subseteq V
    BY <1>2, RootIsDirectory, TreeAssumption DEF Fates, Touched
  <2>2. \A d \in V : (Entries(d) \intersect Directories) \ failed \subseteq V
    BY <1>2, <1>3, TreeAssumption DEF Touched
  <2> QED
    BY <2>1, <2>2 DEF ClosedUnderOpening
<1>5. ASSUME NEW X \in SUBSET Directories, ClosedUnderOpening(X)
      PROVE  V \subseteq X
  <2>1. Root \in V => Root \in X
    BY <1>2, <1>5 DEF ClosedUnderOpening, Fates
  <2>2. \A d \in X \intersect V : Entries(d) \intersect V \subseteq X
    BY <1>2, <1>5 DEF ClosedUnderOpening, Fates
  <2> QED
    BY <1>2, <2>1, <2>2 DEF Connected
<1>6. Opened = V
  BY <1>4, <1>5 DEF Opened
<1>7. \A e \in Logged : e \in Reached \intersect Elfs
  <2> TAKE e \in Logged
  <2>1. e \in Elfs /\ e \notin failed /\ e # Root
    BY <1>2, RootIsDirectory, TreeAssumption DEF Fates
  <2>2. PICK d \in V : e \in Entries(d)
    BY <1>2, <2>1 DEF Known, Touched
  <2> QED
    BY <1>6, <2>1, <2>2 DEF Reached
<1>8. \A e \in Reached \intersect Elfs : e \in Logged
  <2> TAKE e \in Reached \intersect Elfs
  <2>1. e \notin failed /\ e \in Elfs /\ e \notin Directories
    BY TreeAssumption DEF Reached
  <2>2. PICK d \in V : e \in Entries(d)
    BY <1>6 DEF Reached
  <2> QED
    BY <1>3, <2>1, <2>2 DEF Touched
<1> QED
  BY <1>2, <1>7, <1>8 DEF ScanIsComplete, Logged

LEMMA WalkUnchanged == ASSUME WalkOn, UNCHANGED scanVars PROVE WalkOn'
BY DEF scanVars, WalkOn, Walk, Fates, Known, Entered, Connected, Touched, Logged

\* What a finished scan has logged is every ELF file it could reach, once.
THEOREM ScanIsWhole == Spec => []ScanLogsEveryElf
<1> USE DEF WalkInv
<1>1. Init => WalkInv
  BY DEF Init
<1>2. TypeOK /\ WalkInv /\ [Next]_vars => WalkInv'
  <2> SUFFICES ASSUME TypeOK, WalkInv, [Next]_vars PROVE WalkInv'
    OBVIOUS
  <2>1. CASE UNCHANGED scanVars /\ (pc' = pc \/ pc' \notin {"scan", "sleep"})
    BY <2>1, WalkUnchanged DEF scanVars
  <2>2. CASE StartUnit
    <3>1. CASE pc' = "forked"
      BY <3>1
    <3>2. CASE UNCHANGED daemonVars
      BY <2>1, <3>2 DEF daemonVars
    <3> QED
      BY <2>2, <3>1, <3>2 DEF StartUnit
  <2>3. CASE TestRunning
    BY <2>3, WalkBegins DEF TestRunning
  <2>4. CASE Scan
    <3>1. WalkOn /\ ScanTypeOK
      BY <2>4 DEF Scan, TypeOK
    <3>2. CASE ScanEntry /\ UNCHANGED pc
      BY <2>4, <3>1, <3>2, WalkGoesOn DEF Scan
    <3>3. CASE frames = <<>> /\ pc' = "sleep" /\ UNCHANGED scanVars
      BY <3>1, <3>3, WalkUnchanged DEF scanVars
    <3> QED
      BY <2>4, <3>2, <3>3 DEF Scan
  <2> QED
    BY <2>1, <2>2, <2>3, <2>4 DEF Next, vars, daemonVars, Daemon,
       Daemonize, OpenPidFile, WritePidFile, SleepEnds, Cleanup, DaemonEnds, signal_handler,
       StopUnit, Kill, Click, Echo,
       EchoOpens, EchoWrites
<1>3. TypeOK /\ WalkInv => ScanLogsEveryElf
  BY WalkEnds DEF TypeOK, ScanLogsEveryElf
<1> QED
  BY <1>1, <1>2, <1>3, Typing, PTL DEF Spec

-----------------------------------------------------------------------------
(* The desktop.                                                            *)

\* After an array was read and until it is freed.
HasArray == {"lock", "remove", "add", "unlock", "free"}
Holding == {"remove", "add", "unlock"}

\* No scan thread runs before main starts it.
StartsLater == main = "start" => scan = "none"

\* The handler runs for a button.
ClickHeld == main = "clicked" => clicked \in Desk!Button

\* The thread has one array at most, from the read to the free.
OneArray ==
  /\ scan \in HasArray => scans >= 1
  /\ scan \notin HasArray \union {"cancelled"} => allocated = {}
  /\ scan \in {"lock", "remove"} => next = 1

\* The scan thread has the mutex locked while it changes the buttons.
MutexHeld ==
  /\ scan \in Holding => desktop_mutex
  /\ scan \notin Holding \union {"cancelled"} => ~desktop_mutex

Labels(bs) == [n \in 1..Len(bs) |-> bs[n].label]

\* The buttons so far are those of the files looked at so far.
ButtonsSoFar ==
  /\ scan = "add" => Labels(buttons) = Selected(SubSeq(files, 1, next - 1), ExeNames)
  /\ scan = "unlock" => Labels(buttons) = Selected(files, ExeNames)
  /\ ~desktop_mutex => Labels(buttons) = Selected(shown, ExeNames)

DesktopInv ==
  StartsLater /\ ClickHeld /\ OneArray /\ MutexHeld /\ ButtonsSoFar

LEMMA SameSelection == ASSUME NEW s, NEW T PROVE Desk!Selected(s, T) = Selected(s, T)
BY DEF Selected, Desk!Selected

LEMMA DesktopConstants ==
  /\ ExeNames \subseteq Names /\ RootDirectories \subseteq Seq(Names)
  /\ MaxScans \in Nat /\ garbage \notin Names
BY UserAssumption DEF Desk!ConstantsFit

\* The types of the desktop, in three parts.
ArraysTypeOK ==
  /\ files \in RootDirectories \union {<<>>}
  /\ next \in 1..(Len(files) + 1)
  /\ scans \in 0..MaxScans
  /\ allocated \subseteq {scans} \ {0}
  /\ shown \in RootDirectories \union {<<>>}
ButtonsTypeOK ==
  /\ buttons \in Seq(Desk!Button)
  /\ clicked \in Desk!Button \union {<<>>}
  /\ ran \in [label : ExeNames, name : Names \union {garbage}] \union {<<>>}
PlacesTypeOK ==
  /\ scan \in Holding \union
       {"none", "init", "read", "lock", "free", "sleep", "cancelled"}
  /\ main \in {"start", "show", "loop", "clicked", "cancel", "join", "done"}

LEMMA DesktopTypeParts ==
  Desk!TypeOK <=>
    ArraysTypeOK /\ ButtonsTypeOK /\ PlacesTypeOK /\ desktop_mutex \in BOOLEAN
<1>1. Desk!Button = [label : ExeNames, array : 1..MaxScans]
  BY DEF Desk!Button
<1> QED
  BY <1>1 DEF Desk!TypeOK, ArraysTypeOK, ButtonsTypeOK, PlacesTypeOK, Holding,
     Desk!Updating

LEMMA FilesType ==
  ASSUME ArraysTypeOK
  PROVE  /\ files \in Seq(Names) /\ shown \in Seq(Names)
         /\ Len(files) \in Nat /\ next \in Nat /\ scans \in Nat
<1>1. files \in Seq(Names) /\ shown \in Seq(Names)
  <2>1. <<>> \in Seq(Names)
    OBVIOUS
  <2> QED
    BY <2>1, DesktopConstants DEF ArraysTypeOK
<1>2. Len(files) \in Nat
  BY <1>1
<1> QED
  BY <1>1, <1>2, DesktopConstants DEF ArraysTypeOK

-----------------------------------------------------------------------------
LEMMA PlacesStep ==
  ASSUME PlacesTypeOK, StartsLater, [Desk!Next]_Desk!vars
  PROVE  PlacesTypeOK' /\ StartsLater'
<1> USE DEF PlacesTypeOK, StartsLater, Holding, Desk!MainGoes, Desk!mainVars,
        Desk!scanVars
<1>1. CASE Desk!ScanThread
  BY <1>1 DEF Desk!ScanThread, Desk!Cancelled, Desk!fat32_init,
     Desk!fat32_read_directory, Desk!LockDesktop, Desk!remove_desktop_buttons,
     Desk!AddApplications, Desk!UnlockDesktop, Desk!fat32_free_file_info,
     Desk!SleepEnds, Desk!Updating
<1>2. CASE Desk!StartScanThread \/ Desk!gtk_main \/ Desk!Click \/ Desk!CloseWindow
  BY <1>2 DEF Desk!StartScanThread, Desk!gtk_main, Desk!Click, Desk!CloseWindow
<1>3. CASE Desk!on_button_clicked
  BY <1>3 DEF Desk!on_button_clicked
<1>4. CASE Desk!Exits
  BY <1>4 DEF Desk!Exits, Desk!pthread_cancel, Desk!pthread_join
<1>5. CASE UNCHANGED Desk!vars
  BY <1>5 DEF Desk!vars
<1> QED
  BY <1>1, <1>2, <1>3, <1>4, <1>5 DEF Desk!Next

LEMMA ArraysStep ==
  ASSUME ArraysTypeOK, StartsLater, OneArray, [Desk!Next]_Desk!vars
  PROVE  ArraysTypeOK' /\ OneArray'
<1> USE DesktopConstants
<1> USE DEF OneArray, HasArray
<1>1. CASE Desk!fat32_read_directory
  <2>1. allocated = {} /\ scan = "read"
    BY <1>1 DEF Desk!fat32_read_directory
  <2>2. CASE scan' = "sleep" /\ UNCHANGED <<files, scans, allocated>>
    BY <1>1, <2>1, <2>2, FilesType DEF Desk!fat32_read_directory, ArraysTypeOK
  <2>3. CASE /\ scans < MaxScans /\ scan' = "lock" /\ files' \in RootDirectories
             /\ scans' = scans + 1 /\ allocated' = allocated \union {scans + 1}
    <3>1. Len(files') \in Nat
      BY <2>3
    <3>2. next' = 1 /\ shown' = shown
      BY <1>1 DEF Desk!fat32_read_directory
    <3> QED
      BY <2>1, <2>3, <3>1, <3>2, FilesType DEF ArraysTypeOK
  <2> QED
    BY <1>1, <2>2, <2>3 DEF Desk!fat32_read_directory
<1>2. CASE Desk!AddApplications
  BY <1>2, FilesType DEF Desk!AddApplications, ArraysTypeOK
<1>3. CASE Desk!UnlockDesktop
  BY <1>3, FilesType DEF Desk!UnlockDesktop, ArraysTypeOK
<1>4. CASE Desk!fat32_free_file_info
  BY <1>4, FilesType DEF Desk!fat32_free_file_info, ArraysTypeOK
<1>5. CASE Desk!StartScanThread
  BY <1>5 DEF Desk!StartScanThread, Desk!MainGoes, ArraysTypeOK, StartsLater
<1>6. ASSUME UNCHANGED <<files, next, scans, allocated, shown>>
      PROVE  ArraysTypeOK'
  BY <1>6 DEF ArraysTypeOK
<1>7. CASE Desk!Cancelled \/ Desk!fat32_init \/ Desk!LockDesktop
           \/ Desk!remove_desktop_buttons \/ Desk!SleepEnds
  BY <1>6, <1>7 DEF Desk!Cancelled, Desk!fat32_init, Desk!LockDesktop,
     Desk!remove_desktop_buttons, Desk!SleepEnds, Desk!Updating
<1>8. CASE UNCHANGED Desk!scanVars
  BY <1>6, <1>8 DEF Desk!scanVars
<1> QED
  BY <1>1, <1>2, <1>3, <1>4, <1>5, <1>7, <1>8 DEF Desk!Next, Desk!vars,
     Desk!ScanThread, Desk!gtk_main, Desk!Click, Desk!on_button_clicked,
     Desk!CloseWindow, Desk!Exits, Desk!pthread_cancel, Desk!pthread_join

LEMMA ButtonsStep ==
  ASSUME ArraysTypeOK, ButtonsTypeOK, OneArray, ClickHeld,
         [Desk!Next]_Desk!vars
  PROVE  ButtonsTypeOK' /\ ClickHeld'
<1> USE DEF ButtonsTypeOK, ClickHeld
<1>1. CASE Desk!remove_desktop_buttons
  <2>1. buttons # <<>> => Tail(buttons) \in Seq(Desk!Button)
    OBVIOUS
  <2> QED
    BY <1>1, <2>1 DEF Desk!remove_desktop_buttons, Desk!mainVars
<1>2. CASE Desk!AddApplications
  <2>1. UNCHANGED <<main, clicked, ran>>
    BY <1>2 DEF Desk!AddApplications, Desk!mainVars
  <2>2. CASE UNCHANGED buttons
    BY <2>1, <2>2
  <2>3. CASE Desk!IsApplication(files[next]) /\ Desk!add_desktop_button(files[next])
    <3>1. scans \in 1..MaxScans
      BY <1>2, FilesType, DesktopConstants
         DEF Desk!AddApplications, OneArray, HasArray, ArraysTypeOK
    <3>2. [label |-> files[next], array |-> scans] \in Desk!Button
      BY <2>3, <3>1 DEF Desk!IsApplication, Desk!Button
    <3> QED
      BY <2>1, <2>3, <3>2 DEF Desk!add_desktop_button
  <2> QED
    BY <1>2, <2>2, <2>3 DEF Desk!AddApplications
<1>3. CASE Desk!Click
  <2>1. \A n \in 1..Len(buttons) :
          [label |-> buttons[n].label, array |-> buttons[n].array] \in Desk!Button
    <3>1. \A n \in 1..Len(buttons) : buttons[n] \in Desk!Button
      OBVIOUS
    <3> QED
      BY <3>1 DEF Desk!Button
  <2> QED
    BY <1>3, <2>1 DEF Desk!Click, Desk!MainGoes
<1>4. CASE Desk!on_button_clicked
  <2>1. PICK name \in Names \union {garbage} :
          ran' = [label |-> clicked.label, name |-> name]
    BY <1>4 DEF Desk!on_button_clicked
  <2>2. clicked.label \in ExeNames
    BY <1>4 DEF Desk!on_button_clicked, Desk!MainGoes, Desk!Button
  <2> QED
    BY <1>4, <2>1, <2>2 DEF Desk!on_button_clicked, Desk!MainGoes
<1>5. CASE UNCHANGED <<buttons, clicked, ran>> /\ (main' = main \/ main' # "clicked")
  BY <1>5
<1> QED
  BY <1>1, <1>2, <1>3, <1>4, <1>5 DEF Desk!Next, Desk!vars, Desk!mainVars, Desk!MainGoes,
     Desk!ScanThread, Desk!Cancelled, Desk!fat32_init, Desk!fat32_read_directory,
     Desk!LockDesktop, Desk!UnlockDesktop, Desk!fat32_free_file_info,
     Desk!SleepEnds, Desk!StartScanThread, Desk!gtk_main, Desk!CloseWindow,
     Desk!Exits, Desk!pthread_cancel, Desk!pthread_join

LEMMA MutexStep ==
  ASSUME MutexHeld, StartsLater, [Desk!Next]_Desk!vars
  PROVE  MutexHeld'
<1> USE DEF MutexHeld, Holding
<1>1. CASE Desk!ScanThread
  BY <1>1 DEF Desk!ScanThread, Desk!Cancelled, Desk!fat32_init,
     Desk!fat32_read_directory, Desk!LockDesktop, Desk!remove_desktop_buttons,
     Desk!AddApplications, Desk!UnlockDesktop, Desk!fat32_free_file_info,
     Desk!SleepEnds, Desk!Updating
<1>2. CASE Desk!StartScanThread
  BY <1>2 DEF Desk!StartScanThread, Desk!MainGoes, StartsLater
<1>3. CASE UNCHANGED Desk!scanVars
  BY <1>3 DEF Desk!scanVars
<1> QED
  BY <1>1, <1>2, <1>3 DEF Desk!Next, Desk!vars, Desk!gtk_main, Desk!Click,
     Desk!on_button_clicked, Desk!CloseWindow, Desk!Exits, Desk!pthread_cancel,
     Desk!pthread_join

LEMMA MutexType ==
  desktop_mutex \in BOOLEAN /\ [Desk!Next]_Desk!vars => desktop_mutex' \in BOOLEAN
BY Zenon DEF Desk!Next, Desk!vars, Desk!scanVars, Desk!ScanThread, Desk!Cancelled,
     Desk!fat32_init, Desk!fat32_read_directory, Desk!LockDesktop,
     Desk!remove_desktop_buttons, Desk!AddApplications, Desk!UnlockDesktop,
     Desk!fat32_free_file_info, Desk!SleepEnds, Desk!StartScanThread,
     Desk!gtk_main, Desk!Click, Desk!on_button_clicked, Desk!CloseWindow,
     Desk!Exits, Desk!pthread_cancel, Desk!pthread_join

LEMMA LabelsAppend ==
  ASSUME NEW bs \in Seq(Desk!Button), NEW b \in Desk!Button
  PROVE  Labels(Append(bs, b)) = Append(Labels(bs), b.label)
<1>1. /\ Len(bs) \in Nat /\ Len(Append(bs, b)) = Len(bs) + 1
      /\ \A n \in 1..Len(bs) : Append(bs, b)[n] = bs[n]
      /\ Append(bs, b)[Len(bs) + 1] = b
  OBVIOUS
<1>2. \A n \in 1..Len(bs) : bs[n].label \in ExeNames
  <2>1. \A n \in 1..Len(bs) : bs[n] \in Desk!Button
    OBVIOUS
  <2> QED
    BY <2>1 DEF Desk!Button
<1>3. b.label \in ExeNames
  BY DEF Desk!Button
<1>4. Labels(bs) \in Seq(ExeNames) /\ Len(Labels(bs)) = Len(bs)
      /\ \A n \in 1..Len(bs) : Labels(bs)[n] = bs[n].label
  BY <1>1, <1>2 DEF Labels
<1> DEFINE longer == Append(Labels(bs), b.label)
<1>5. /\ longer \in Seq(ExeNames) /\ Len(longer) = Len(bs) + 1
      /\ DOMAIN longer = 1..(Len(bs) + 1)
      /\ \A n \in 1..Len(bs) : longer[n] = bs[n].label
      /\ longer[Len(bs) + 1] = b.label
  BY <1>1, <1>3, <1>4
<1> HIDE DEF longer
<1>6. \A n \in 1..(Len(bs) + 1) : longer[n] = Append(bs, b)[n].label
  <2> TAKE n \in 1..(Len(bs) + 1)
  <2>1. n \in 1..Len(bs) \/ n = Len(bs) + 1
    BY <1>1
  <2> QED
    BY <1>1, <1>5, <2>1
<1>7. longer = [n \in 1..(Len(bs) + 1) |-> Append(bs, b)[n].label]
  BY <1>5, <1>6
<1> QED
  BY <1>1, <1>7 DEF Labels, longer

\* The selection of one entry more of the array.
LEMMA OneMoreFile ==
  ASSUME ArraysTypeOK, next <= Len(files)
  PROVE  Selected(SubSeq(files, 1, next), ExeNames) =
           IF files[next] \in ExeNames
           THEN Append(Selected(SubSeq(files, 1, next - 1), ExeNames), files[next])
           ELSE Selected(SubSeq(files, 1, next - 1), ExeNames)
<1>1. /\ files \in Seq(Names) /\ next \in 1..Len(files) /\ Len(files) \in Nat
  BY FilesType DEF ArraysTypeOK
<1> DEFINE former == SubSeq(files, 1, next - 1)
           file == files[next]
<1>2. former \in Seq(Names) /\ file \in Names
  BY <1>1
<1>3. SubSeq(files, 1, next) = Append(former, file)
  BY <1>1
<1> HIDE DEF former, file
<1>4. Selected(Append(former, file), ExeNames) =
        IF file \in ExeNames THEN Append(Selected(former, ExeNames), file)
        ELSE Selected(former, ExeNames)
  BY <1>2, SelectedAppend
<1> QED
  BY <1>3, <1>4, Zenon DEF former, file

LEMMA SoFarStep ==
  ASSUME ArraysTypeOK, ButtonsTypeOK, OneArray, MutexHeld, StartsLater,
         ButtonsSoFar, [Desk!Next]_Desk!vars
  PROVE  ButtonsSoFar'
<1>1. CASE Desk!remove_desktop_buttons
  <2>1. desktop_mutex /\ desktop_mutex' = desktop_mutex /\ UNCHANGED <<files, next>>
    BY <1>1 DEF Desk!remove_desktop_buttons, MutexHeld, Holding
  <2>2. CASE scan' = scan
    BY <1>1, <2>1, <2>2 DEF Desk!remove_desktop_buttons, ButtonsSoFar
  <2>3. CASE buttons = <<>> /\ scan' = "add" /\ UNCHANGED buttons
    <3>1. next = 1
      BY <1>1 DEF Desk!remove_desktop_buttons, OneArray
    <3>2. SubSeq(files, 1, next - 1) = <<>>
      BY <3>1, FilesType
    <3>3. Labels(buttons) = <<>>
      BY <2>3 DEF Labels
    <3>4. Selected(SubSeq(files, 1, next - 1), ExeNames) = <<>>
      BY <3>2, SelectedEmpty
    <3> QED
      BY <2>1, <2>3, <3>3, <3>4 DEF ButtonsSoFar
  <2> QED
    BY <1>1, <2>2, <2>3 DEF Desk!remove_desktop_buttons
<1>2. CASE Desk!AddApplications
  <2>1. /\ scan = "add" /\ desktop_mutex /\ desktop_mutex' = desktop_mutex
        /\ files' = files
        /\ Labels(buttons) = Selected(SubSeq(files, 1, next - 1), ExeNames)
    BY <1>2 DEF Desk!AddApplications, MutexHeld, Holding, ButtonsSoFar
  <2>2. CASE next <= Len(files) /\ next' = next + 1 /\ scan' = scan
    <3>1. SubSeq(files', 1, next' - 1) = SubSeq(files, 1, next)
      <4>1. next' - 1 = next
        BY <2>2, FilesType
      <4> QED
        BY <2>1, <4>1
    <3>2. Labels(buttons') = Selected(SubSeq(files, 1, next), ExeNames)
      <4>1. CASE files[next] \in ExeNames
        <5> DEFINE b == [label |-> files[next], array |-> scans]
        <5>1. buttons' = Append(buttons, b)
          BY <1>2, <2>2, <4>1, FilesType
             DEF Desk!AddApplications, Desk!IsApplication, Desk!add_desktop_button
        <5>2. scans \in 1..MaxScans
          BY <2>1, FilesType, DesktopConstants DEF OneArray, HasArray, ArraysTypeOK
        <5>3. b \in Desk!Button /\ b.label = files[next]
          BY <4>1, <5>2 DEF Desk!Button
        <5> HIDE DEF b
        <5>4. Labels(Append(buttons, b)) = Append(Labels(buttons), files[next])
          BY <5>3, LabelsAppend DEF ButtonsTypeOK
        <5> QED
          BY <2>1, <2>2, <4>1, <5>1, <5>4, OneMoreFile
      <4>2. CASE files[next] \notin ExeNames
        <5>1. buttons' = buttons
          BY <1>2, <2>2, <4>2, FilesType DEF Desk!AddApplications, Desk!IsApplication
        <5> QED
          BY <2>1, <2>2, <4>2, <5>1, OneMoreFile
      <4> QED
        BY <4>1, <4>2
    <3> QED
      BY <2>1, <2>2, <3>1, <3>2 DEF ButtonsSoFar
  <2>3. CASE next > Len(files) /\ scan' = "unlock" /\ UNCHANGED <<buttons, next>>
    <3>1. SubSeq(files, 1, next - 1) = files
      <4>1. files \in Seq(Names) /\ next - 1 = Len(files)
        BY <2>3, FilesType DEF ArraysTypeOK
      <4> QED
        BY <4>1
    <3> QED
      BY <2>1, <2>3, <3>1 DEF ButtonsSoFar
  <2> QED
    BY <1>2, <2>2, <2>3 DEF Desk!AddApplications
<1>3. CASE Desk!UnlockDesktop
  BY <1>3 DEF Desk!UnlockDesktop, ButtonsSoFar
<1>4. ASSUME UNCHANGED <<buttons, shown, desktop_mutex>>, scan' \notin {"add", "unlock"}
      PROVE  ButtonsSoFar'
  BY <1>4 DEF ButtonsSoFar
<1>5. CASE Desk!Cancelled \/ Desk!fat32_init \/ Desk!fat32_read_directory
           \/ Desk!fat32_free_file_info \/ Desk!SleepEnds
  BY <1>4, <1>5 DEF Desk!Cancelled, Desk!fat32_init, Desk!fat32_read_directory,
     Desk!fat32_free_file_info, Desk!SleepEnds
<1>6. CASE Desk!LockDesktop
  BY <1>6 DEF Desk!LockDesktop, ButtonsSoFar
<1>7. CASE Desk!StartScanThread
  BY <1>4, <1>7 DEF Desk!StartScanThread
<1>8. CASE UNCHANGED <<Desk!scanVars, buttons>>
  BY <1>8 DEF Desk!scanVars, ButtonsSoFar
<1> QED
  BY <1>1, <1>2, <1>3, <1>5, <1>6, <1>7, <1>8 DEF Desk!Next, Desk!vars,
     Desk!ScanThread, Desk!gtk_main, Desk!Click, Desk!on_button_clicked,
     Desk!CloseWindow, Desk!Exits, Desk!pthread_cancel, Desk!pthread_join

DesktopTypes ==
  ArraysTypeOK /\ ButtonsTypeOK /\ PlacesTypeOK /\ desktop_mutex \in BOOLEAN

LEMMA DesktopInit == Desk!Init => DesktopTypes /\ DesktopInv
<1> SUFFICES ASSUME Desk!Init PROVE DesktopTypes /\ DesktopInv
  OBVIOUS
<1> USE DEF Desk!Init
<1>1. ArraysTypeOK
  BY DesktopConstants DEF ArraysTypeOK
<1>2. ButtonsTypeOK /\ PlacesTypeOK
  <2>1. <<>> \in Seq(Desk!Button)
    OBVIOUS
  <2> QED
    BY <2>1 DEF ButtonsTypeOK, PlacesTypeOK
<1>3. desktop_mutex \in BOOLEAN
  OBVIOUS
<1>4. StartsLater /\ ClickHeld /\ OneArray /\ MutexHeld
  BY DEF StartsLater, ClickHeld, OneArray, MutexHeld, HasArray, Holding
<1>5. ButtonsSoFar
  <2>1. Labels(buttons) = <<>>
    BY DEF Labels
  <2>2. Selected(shown, ExeNames) = <<>>
    BY SelectedEmpty
  <2> QED
    BY <2>1, <2>2 DEF ButtonsSoFar
<1> QED
  BY <1>1, <1>2, <1>3, <1>4, <1>5 DEF DesktopTypes, DesktopInv

LEMMA DesktopStep ==
  DesktopTypes /\ DesktopInv /\ [Desk!Next]_Desk!vars => (DesktopTypes /\ DesktopInv)'
BY PlacesStep, ArraysStep, ButtonsStep, MutexStep, MutexType, SoFarStep
   DEF DesktopTypes, DesktopInv

\* Each variable of the desktop keeps its type; the thread has one array at
\* most, and every button and click belongs to one that was read.
THEOREM DesktopTyping == Desk!Spec => []Desk!TypeOK
<1>1. DesktopTypes => Desk!TypeOK
  BY DesktopTypeParts DEF DesktopTypes
<1> QED
  BY <1>1, DesktopInit, DesktopStep, PTL DEF Desk!Spec

\* Outside an update the buttons are the applications of the last directory
\* an update completed with, whatever failed or was clicked meanwhile.
THEOREM DesktopButtons == Desk!Spec => []Desk!ButtonsAreOfLastScan
<1>1. DesktopInv => Desk!ButtonsAreOfLastScan
  BY SameSelection DEF DesktopInv, ButtonsSoFar, Labels, Desk!ButtonsAreOfLastScan
<1> QED
  BY <1>1, DesktopInit, DesktopStep, PTL DEF Desk!Spec

-----------------------------------------------------------------------------
(* The two programs together.                                              *)

LEMMA DesktopVariables == UNCHANGED deskVars => UNCHANGED Desk!vars
BY DEF deskVars, Desk!vars, Desk!scanVars, Desk!mainVars

\* A step of the two is a step of each, or leaves it as it is.
LEMMA UserStep == [UserNext]_userVars => [Next]_vars /\ [Desk!Next]_Desk!vars
<1> SUFFICES ASSUME [UserNext]_userVars PROVE [Next]_vars /\ [Desk!Next]_Desk!vars
  OBVIOUS
<1>1. CASE MonitorSide
  BY <1>1, DesktopVariables DEF MonitorSide, Next
<1>2. CASE ScanThread
  BY <1>2 DEF ScanThread, Desk!Next
<1>3. CASE MainThread
  BY <1>3 DEF MainThread, Desk!Next
<1>4. CASE Exits
  BY <1>4 DEF Exits, Desk!Next
<1>5. CASE RunCommand
  BY <1>5 DEF RunCommand, Next, Desk!Next
<1>6. CASE UNCHANGED userVars
  BY <1>6, DesktopVariables DEF userVars
<1> QED
  BY <1>1, <1>2, <1>3, <1>4, <1>5, <1>6 DEF UserNext

\* Each program, run with the other, does what it may do alone: what holds of
\* the monitor with any clicks, and of the desktop with any handler, holds of
\* the two.
THEOREM UserImplementsBoth == UserSpec => Spec /\ Desk!Spec
<1>1. UserInit => Init /\ Desk!Init
  BY DEF UserInit
<1> QED
  BY <1>1, UserStep, PTL DEF UserSpec, Spec, Desk!Spec

\* Every variable of the two programs keeps its type.
THEOREM UserTyping == UserSpec => []UserTypeOK
<1>1. TypeOK /\ Desk!TypeOK => UserTypeOK
  BY DEF UserTypeOK
<1> QED
  BY <1>1, UserImplementsBoth, Typing, DesktopTyping, PTL

\* The buttons, with the monitor running.
THEOREM UserButtons == UserSpec => []ButtonsAreOfLastScan
BY UserImplementsBoth, DesktopButtons, PTL DEF ButtonsAreOfLastScan

\* The pid file, with the desktop's own clicks.
THEOREM UserPidFile == UserSpec => []PidFileIsExplained
BY UserImplementsBoth, Explained, PTL
=============================================================================
