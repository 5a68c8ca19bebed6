---------------------------- MODULE KernelLoader ----------------------------
(***************************************************************************)
(* The boot loader (boot.c): it looks the kernel file up, reads it sector  *)
(* by sector into a buffer, copies the buffer to the load address byte by  *)
(* byte and jumps there.  The arithmetic on kernel_size is that of a       *)
(* uint32_t: it wraps.                                                     *)
(*                                                                         *)
(* find_file, read_sector and SECTOR_SIZE are declared nowhere in the      *)
(* repository; they are modelled by how boot.c uses them.  A read past the *)
(* end of the disk fails, and any read may.                                *)
(***************************************************************************)
EXTENDS Integers, Sequences

CONSTANTS
  SECTOR_SIZE,      \* bytes in a sector
  Word,             \* how many values a uint32_t has: 2^32
  DiskSectors,      \* sectors the disk has
  FileSizes,        \* the sizes the kernel file may have
  FirstSectors      \* where the kernel file may start

ASSUME LoaderAssumption ==
  /\ SECTOR_SIZE \in Nat \ {0}
  /\ Word \in Nat
  /\ \E n \in 1..Word : Word = 2 * SECTOR_SIZE * n
  /\ DiskSectors \in 1..(Word - 1)
  /\ FileSizes \subseteq 0..(Word - 1)
  /\ FirstSectors \subseteq 0..(Word - 1)

VARIABLES
  pc,               \* "boot", "read", "copy", "started" or "halted"
  file,             \* the kernel file: its first sector and its size
  sector,           \* the sector of the loop
  kernel_size,      \* the counter of the loop
  i,                \* the index in the buffer
  loaded            \* memory from KERNEL_LOAD_ADDRESS on: whence each byte came

vars == <<pc, file, sector, kernel_size, i, loaded>>

Source == [sector : 0..(Word - 1), index : 0..(SECTOR_SIZE - 1)]

TypeOK ==
  /\ pc \in {"boot", "read", "copy", "started", "halted"}
  /\ file \in [first : FirstSectors \union {0}, size : FileSizes \union {0}]
  /\ sector \in 0..(Word - 1)
  /\ kernel_size \in 0..(Word - 1)
  /\ i \in 0..SECTOR_SIZE
  /\ loaded \in Seq(Source)

Init ==
  /\ pc = "boot"
  /\ file = [first |-> 0, size |-> 0]
  /\ sector = 0 /\ kernel_size = 0 /\ i = 0
  /\ loaded = <<>>

-----------------------------------------------------------------------------
\* load_kernel_from_fat32: find_file fills in the directory entry or fails.
FindFile(first, size) ==
  /\ pc = "boot"
  /\ pc' = "read"
  /\ file' = [first |-> first, size |-> size]
  /\ sector' = first
  /\ kernel_size' = size
  /\ UNCHANGED <<i, loaded>>

FileNotFound ==
  /\ pc = "boot"
  /\ pc' = "halted"
  /\ UNCHANGED <<file, sector, kernel_size, i, loaded>>

\* load_kernel, the outer loop.
ReadSector ==
  /\ pc = "read"
  /\ kernel_size > 0
  /\ sector < DiskSectors
  /\ pc' = "copy"
  /\ i' = 0
  /\ UNCHANGED <<file, sector, kernel_size, loaded>>

\* Mutant: a read that fails is tried again.
ReadError_Retried ==
  /\ pc = "read"
  /\ kernel_size > 0
  /\ UNCHANGED vars

ReadError ==
  /\ pc = "read"
  /\ kernel_size > 0
  /\ pc' = "halted"
  /\ UNCHANGED <<file, sector, kernel_size, i, loaded>>

\* load_kernel, the inner loop: it counts kernel_size down, too.
CopyByte ==
  /\ pc = "copy"
  /\ i < SECTOR_SIZE /\ kernel_size > 0
  /\ loaded' = Append(loaded, [sector |-> sector, index |-> i])
  /\ kernel_size' = kernel_size - 1
  /\ i' = i + 1
  /\ UNCHANGED <<pc, file, sector>>

\* The third part of the outer for: kernel_size -= SECTOR_SIZE, sector++.
\* Mutant: the sector is not advanced.
NextSector_Same ==
  /\ pc = "copy"
  /\ ~(i < SECTOR_SIZE /\ kernel_size > 0)
  /\ pc' = "read"
  /\ kernel_size' = (kernel_size - SECTOR_SIZE) % Word
  /\ UNCHANGED <<file, sector, i, loaded>>

\* Mutant: the counter is signed and unbounded.
NextSector_NoWrap ==
  /\ pc = "copy"
  /\ ~(i < SECTOR_SIZE /\ kernel_size > 0)
  /\ pc' = "read"
  /\ kernel_size' = kernel_size - SECTOR_SIZE
  /\ sector' = (sector + 1) % Word
  /\ UNCHANGED <<file, i, loaded>>

NextSector ==
  /\ pc = "copy"
  /\ ~(i < SECTOR_SIZE /\ kernel_size > 0)
  /\ pc' = "read"
  /\ kernel_size' = (kernel_size - SECTOR_SIZE) % Word
  /\ sector' = (sector + 1) % Word
  /\ UNCHANGED <<file, i, loaded>>

\* kernel_main is the load address.
StartKernel ==
  /\ pc = "read"
  /\ kernel_size = 0
  /\ pc' = "started"
  /\ UNCHANGED <<file, sector, kernel_size, i, loaded>>

Boot ==
  \/ FileNotFound
  \/ \E first \in FirstSectors, size \in FileSizes : FindFile(first, size)

Load == ReadSector \/ ReadError \/ CopyByte \/ NextSector \/ StartKernel

Next == Boot \/ Load

Spec == Init /\ [][Next]_vars

\* The loader is the only program that runs.
FairSpec == Spec /\ WF_vars(Next)

-----------------------------------------------------------------------------
(* Properties.                                                             *)

\* The byte of the file at offset n.
FileByte(n) ==
  [sector |-> file.first + n \div SECTOR_SIZE, index |-> n % SECTOR_SIZE]

\* What is entered is a prefix of the file, in place.  It is a half of it
\* only: see OnlyHalf in KernelLoaderProofs.
StartedOnPrefix ==
  pc = "started" => \A n \in 1..Len(loaded) : loaded[n] = FileByte(n - 1)

\* The loader ends: it enters the kernel, or it runs off the disk and stops.
LoaderEnds == <>(pc \in {"started", "halted"})
=============================================================================
