------------------------------ MODULE ElfScan -------------------------------
(***************************************************************************)
(* The scan of the ELF monitor (exe.c): scan_directory walks the tree from *)
(* its root, one frame of the recursion per open directory, and            *)
(* analyze_elf64 logs every file that begins with a 64-bit ELF header.     *)
(*                                                                         *)
(* Opening anything may fail: it vanished, it may not be read, the process *)
(* is out of file descriptors (each frame keeps one).  The tree does not   *)
(* change during a scan.                                                   *)
(***************************************************************************)
EXTENDS Integers, Sequences, FiniteSets, SequencesExt

CONSTANTS
  Tree,       \* Tree[d]: the entries of directory d, in the order of readdir
  Root,       \* "/"
  Elfs,       \* the regular files with a 64-bit ELF header
  Others      \* the other regular files

Directories == DOMAIN Tree
Entries(d) == ToSet(Tree[d])

\* The directory that the entries "." and ".." of a directory lead to is one
\* that is being scanned already; they have names of their own here, as have
\* the entries that are neither file nor directory.
Skipped == (UNION {Entries(d) : d \in Directories})
             \ (Directories \union Elfs \union Others)

ASSUME TreeAssumption ==
  /\ Root \in Directories
  /\ Directories \intersect (Elfs \union Others) = {}
  /\ \A d \in Directories : Tree[d] \in Seq(Entries(d)) /\ IsInjective(Tree[d])
  /\ \A c, d \in Directories : c # d => Entries(c) \intersect Entries(d) = {}
  /\ \A d \in Directories : Root \notin Entries(d)

VARIABLES
  frames,     \* the open directories, innermost first: where each readdir is
  log,        \* LOG_FILE: the files reported by this scan, in order
  failed      \* history: what this scan could not open or log

scanVars == <<frames, log, failed>>

Frame == [directory : Directories, next : Nat \ {0}]

ScanTypeOK ==
  /\ frames \in Seq(Frame)
  /\ log \in Seq(Elfs)
  /\ failed \subseteq Directories \union Elfs \union Others

ScanInit == frames = <<>> /\ log = <<>> /\ failed = {}

Enter(d) == [directory |-> d, next |-> 1]

\* scan_directory("/"), up to its first readdir.
BeginScan ==
  /\ log' = <<>>
  /\ \/ frames' = <<Enter(Root)>> /\ failed' = {}
     \/ frames' = <<>> /\ failed' = {Root}

\* The frames once readdir of the innermost one has moved on.
Advanced == [frames EXCEPT ![1].next = @ + 1]

\* Mutant: a directory that cannot be opened ends the scan of its parent.
Unopened_GivesUp == Tail(frames)
\* The frames when a subdirectory cannot be opened.
Unopened == Advanced

scan_subdirectory(d) ==
  /\ UNCHANGED log
  /\ \/ frames' = <<Enter(d)>> \o Advanced /\ UNCHANGED failed
     \/ frames' = Unopened /\ failed' = failed \union {d}

\* A file that cannot be opened or read, or LOG_FILE cannot.
analyze_elf64(f) ==
  /\ frames' = Advanced
  /\ \/ /\ UNCHANGED failed
        /\ log' = IF f \in Elfs THEN Append(log, f) ELSE log
     \/ failed' = failed \union {f} /\ UNCHANGED log

\* One turn of the loop of the innermost scan_directory.
ScanEntry ==
  LET d == Head(frames).directory
      n == Head(frames).next
  IN /\ frames # <<>>
     /\ \/ /\ n <= Len(Tree[d])
           /\ \/ Tree[d][n] \in Directories /\ scan_subdirectory(Tree[d][n])
              \/ Tree[d][n] \in Elfs \union Others /\ analyze_elf64(Tree[d][n])
              \/ Tree[d][n] \in Skipped /\ frames' = Advanced
                   /\ UNCHANGED <<log, failed>>
        \/ n > Len(Tree[d]) /\ frames' = Tail(frames) /\ UNCHANGED <<log, failed>>

-----------------------------------------------------------------------------
(* What a finished scan has done.                                          *)

\* Whether the directories of X are all that is open once the root and, in
\* an open directory, every subdirectory is opened that can be.
ClosedUnderOpening(X) ==
  /\ {Root} \ failed \subseteq X
  /\ \A d \in X : (Entries(d) \intersect Directories) \ failed \subseteq X

\* The directories a scan opens when it can open all but failed: the least
\* such set; and the entries it comes by in them.
Opened ==
  {d \in Directories :
     \A X \in SUBSET Directories : ClosedUnderOpening(X) => d \in X}
Reached == (UNION {Entries(d) : d \in Opened}) \ failed

\* The log names every 64-bit ELF file that was reached, once.
ScanIsComplete ==
  /\ IsInjective(log)
  /\ ToSet(log) = Reached \intersect Elfs
=============================================================================
