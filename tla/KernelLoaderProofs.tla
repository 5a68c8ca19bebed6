------------------------- MODULE KernelLoaderProofs -------------------------
(***************************************************************************)
(* Proofs about the boot loader, for every sector size, every disk and     *)
(* every size of the kernel file.                                          *)
(***************************************************************************)
EXTENDS KernelLoader, TLAPS

(* Arithmetic of the wrapping counter.                                     *)

LEMMA ModIn == \A n \in Nat : \A a \in 0..(n - 1) : a % n = a
OBVIOUS

LEMMA ModBelow == ASSUME NEW a \in Int, NEW n \in Nat, a < 0, -n <= a
                  PROVE  a % n = a + n
OBVIOUS

LEMMA ModMultiple == ASSUME NEW n \in Nat \ {0}, NEW k \in Nat
                     PROVE  (n * k) % n = 0
OBVIOUS

LEMMA PositiveFactor ==
  ASSUME NEW s \in Nat \ {0}, NEW x \in Int, 0 < s * x, s * x <= s
  PROVE  x = 1
<1>1. CASE x <= 0
  <2>1. s * x <= 0
    BY <1>1
  <2> QED
    BY <2>1
<1>2. CASE x >= 2
  <2>1. x = 2 + (x - 2) /\ x - 2 \in Nat
    BY <1>2
  <2>2. s * x = s * 2 + s * (x - 2) /\ s * (x - 2) >= 0
    BY <2>1
  <2> QED
    BY <2>2
<1> QED
  BY <1>1, <1>2

LEMMA WordType == Word \in Nat \ {0}
BY LoaderAssumption

LEMMA ModType == ASSUME NEW a \in Int PROVE a % Word \in 0..(Word - 1)
BY WordType

-----------------------------------------------------------------------------
\* The counters keep to their widths and the buffer index to the buffer.
THEOREM Typing == Spec => []TypeOK
<1>1. Init => TypeOK
  BY LoaderAssumption, WordType DEF Init, TypeOK
<1>2. TypeOK /\ [Next]_vars => TypeOK'
  <2> SUFFICES ASSUME TypeOK, [Next]_vars PROVE TypeOK'
    OBVIOUS
  <2> USE DEF TypeOK
  <2>1. CASE Boot
    <3>1. CASE FileNotFound
      BY <3>1 DEF FileNotFound
    <3>2. ASSUME NEW first \in FirstSectors, NEW size \in FileSizes,
                 FindFile(first, size)
          PROVE  TypeOK'
      BY <3>2, LoaderAssumption DEF FindFile
    <3> QED
      BY <2>1, <3>1, <3>2 DEF Boot
  <2>2. CASE ReadSector \/ ReadError \/ StartKernel
    BY <2>2, LoaderAssumption DEF ReadSector, ReadError, StartKernel
  <2>3. CASE CopyByte
    <3>1. [sector |-> sector, index |-> i] \in Source
      BY <2>3, LoaderAssumption DEF CopyByte, Source
    <3>2. loaded' \in Seq(Source)
      BY <2>3, <3>1 DEF CopyByte
    <3> QED
      BY <2>3, <3>2, LoaderAssumption DEF CopyByte
  <2>4. CASE NextSector
    <3>1. kernel_size - SECTOR_SIZE \in Int /\ sector + 1 \in Int
      BY LoaderAssumption
    <3>2. kernel_size' \in 0..(Word - 1) /\ sector' \in 0..(Word - 1)
      BY <2>4, <3>1, ModType DEF NextSector
    <3> QED
      BY <2>4, <3>2 DEF NextSector
  <2>5. CASE UNCHANGED vars
    BY <2>5 DEF vars
  <2> HIDE DEF TypeOK
  <2> QED
    BY <2>1, <2>2, <2>3, <2>4, <2>5 DEF Next, Load
<1> QED
  BY <1>1, <1>2, PTL DEF Spec

-----------------------------------------------------------------------------
(* OnlyHalf.  AtStart is the counter when the current sector was read;     *)
(* a round takes two sectors from it.  If it is a multiple of a double     *)
(* sector the count stays exact.  If it is not, no round makes it one,     *)
(* not even by wrapping, and only 0 ends the loop.                         *)

Double(n) == \E k \in Nat : n = 2 * SECTOR_SIZE * k

WholeSectors(n) == \E k \in Nat : n = SECTOR_SIZE * k

AtStart == IF pc = "copy" THEN kernel_size + i ELSE kernel_size

CountInv ==
  /\ pc = "boot" => loaded = <<>>
  /\ pc = "read" /\ Double(kernel_size) =>
       /\ file.size = kernel_size + 2 * Len(loaded)
       /\ WholeSectors(Len(loaded))
  /\ pc = "copy" =>
       /\ AtStart > 0
       /\ Double(AtStart) =>
            /\ file.size + 2 * i = AtStart + 2 * Len(loaded)
            /\ WholeSectors(Len(loaded) - i)
  /\ pc = "started" =>
       /\ file.size = 2 * Len(loaded)
       /\ WholeSectors(Len(loaded))

\* A round of the outer loop neither makes a multiple of a double sector
\* nor destroys one.
LEMMA RoundKeepsDouble ==
  ASSUME NEW k0 \in 1..(2 * Word), NEW j \in 0..SECTOR_SIZE, j <= k0,
         k0 - j < Word, j < SECTOR_SIZE => k0 = j,
         Double((k0 - j - SECTOR_SIZE) % Word)
  PROVE  Double(k0) /\ j = SECTOR_SIZE /\ k0 >= 2 * SECTOR_SIZE
<1> DEFINE ks == (k0 - j - SECTOR_SIZE) % Word
<1>1. SECTOR_SIZE \in Nat \ {0} /\ Word \in Nat \ {0}
  BY LoaderAssumption, WordType
<1>2. PICK n \in Nat \ {0} : Word = 2 * SECTOR_SIZE * n
  BY LoaderAssumption
<1>3. PICK k \in Nat : ks = 2 * SECTOR_SIZE * k
  BY DEF Double
<1>4. SECTOR_SIZE <= Word
  BY <1>1, <1>2
<1>5. CASE k0 - j - SECTOR_SIZE >= 0
  <2>1. ks = k0 - j - SECTOR_SIZE
    <3>1. k0 - j - SECTOR_SIZE \in 0..(Word - 1)
      BY <1>1, <1>5
    <3> QED
      BY <1>1, <3>1, ModIn
  <2>2. j = SECTOR_SIZE
    BY <1>1, <1>5
  <2>3. k0 = 2 * SECTOR_SIZE * (k + 1)
    BY <1>1, <1>3, <2>1, <2>2
  <2> QED
    BY <1>1, <1>5, <2>2, <2>3 DEF Double
<1>6. CASE k0 - j - SECTOR_SIZE < 0
  <2>1. ks = k0 - j - SECTOR_SIZE + Word
    BY <1>1, <1>4, <1>6, ModBelow
  <2>2. 2 * SECTOR_SIZE * (n - k) = SECTOR_SIZE - (k0 - j)
    BY <1>1, <1>2, <1>3, <2>1
  <2>3. 0 < SECTOR_SIZE - (k0 - j) /\ SECTOR_SIZE - (k0 - j) <= SECTOR_SIZE
    BY <1>1, <1>6
  <2>4. PICK x \in Int : x = 2 * (n - k)
    OBVIOUS
  <2>5. SECTOR_SIZE * x = SECTOR_SIZE - (k0 - j)
    BY <1>1, <2>2, <2>4
  <2>6. 0 < SECTOR_SIZE * x /\ SECTOR_SIZE * x <= SECTOR_SIZE
    BY <2>3, <2>5
  <2>7. x = 1
    BY <1>1, <2>6, PositiveFactor
  <2> QED
    BY <2>4, <2>7
<1> QED
  BY <1>1, <1>5, <1>6

LEMMA FileType == ASSUME TypeOK PROVE file.size \in Nat
<1>1. \A n \in FileSizes \union {0} : n \in Nat
  <2>1. FileSizes \subseteq 0..(Word - 1)
    BY LoaderAssumption
  <2> QED
    BY <2>1, WordType
<1>2. file.size \in FileSizes \union {0}
  BY DEF TypeOK
<1> QED
  BY <1>1, <1>2

\* If the count is exact after a round it was exact before, and the round
\* was a whole one, which took two sectors from the counter.
LEMMA DoubleBefore ==
  ASSUME TypeOK, CountInv, NextSector, Double(kernel_size')
  PROVE  /\ Double(AtStart) /\ i = SECTOR_SIZE /\ AtStart \in Nat
         /\ kernel_size' = AtStart - 2 * SECTOR_SIZE
<1> USE DEF TypeOK
<1>1. SECTOR_SIZE \in Nat \ {0} /\ Word \in Nat \ {0}
  BY LoaderAssumption, WordType
<1>2. AtStart = kernel_size + i /\ AtStart > 0
  BY DEF NextSector, CountInv, AtStart
<1>3. kernel_size' = (AtStart - i - SECTOR_SIZE) % Word
  BY <1>1, <1>2 DEF NextSector
<1>4. /\ AtStart \in 1..(2 * Word) /\ i <= AtStart /\ AtStart - i < Word
      /\ i < SECTOR_SIZE => AtStart = i
  <2>1. PICK n \in Nat \ {0} : Word = 2 * SECTOR_SIZE * n
    BY LoaderAssumption
  <2>2. SECTOR_SIZE <= Word
    BY <1>1, <2>1
  <2> QED
    BY <1>1, <1>2, <2>2 DEF NextSector
<1>5. Double(AtStart) /\ i = SECTOR_SIZE /\ AtStart >= 2 * SECTOR_SIZE
  BY <1>3, <1>4, RoundKeepsDouble
<1>6. kernel_size' = AtStart - 2 * SECTOR_SIZE
  <2>1. AtStart - i - SECTOR_SIZE \in 0..(Word - 1)
    BY <1>1, <1>4, <1>5
  <2>2. (AtStart - i - SECTOR_SIZE) % Word = AtStart - i - SECTOR_SIZE
    BY <1>1, <2>1, ModIn
  <2> QED
    BY <1>1, <1>3, <1>4, <1>5, <2>2
<1> QED
  BY <1>4, <1>5, <1>6

LEMMA CountInvNext ==
  ASSUME TypeOK, TypeOK', CountInv, [Next]_vars PROVE CountInv'
<1> USE DEF TypeOK
<1>0. SECTOR_SIZE \in Nat \ {0} /\ Word \in Nat \ {0}
  BY LoaderAssumption, WordType
<1>1. CASE Boot
  <2>1. CASE FileNotFound
    BY <2>1 DEF FileNotFound, CountInv
  <2>2. ASSUME NEW first \in FirstSectors, NEW size \in FileSizes,
               FindFile(first, size)
        PROVE  CountInv'
    <3>1. loaded' = <<>> /\ pc' = "read" /\ kernel_size' = size /\ file'.size = size
      BY <2>2 DEF FindFile, CountInv
    <3>2. Len(loaded') = 0 /\ 0 = SECTOR_SIZE * 0 /\ size \in Nat
      BY <1>0, <3>1, LoaderAssumption
    <3> QED
      BY <3>1, <3>2 DEF CountInv, WholeSectors
  <2> QED
    BY <1>1, <2>1, <2>2 DEF Boot
<1>2. CASE ReadSector
  <2>1. AtStart = kernel_size /\ AtStart' = kernel_size /\ i' = 0
    BY <1>2 DEF ReadSector, AtStart
  <2>2. Len(loaded) \in Nat /\ Len(loaded) - 0 = Len(loaded)
    OBVIOUS
  <2> QED
    BY <1>2, <2>1, <2>2 DEF ReadSector, CountInv
<1>3. CASE ReadError
  BY <1>3 DEF ReadError, CountInv
<1>4. CASE CopyByte
  <2>1. AtStart' = AtStart /\ AtStart = kernel_size + i
    BY <1>4 DEF CopyByte, AtStart
  <2>2. Len(loaded') = Len(loaded) + 1 /\ Len(loaded) \in Nat
    BY <1>4 DEF CopyByte
  <2>3. i' = i + 1 /\ file' = file /\ pc = "copy" /\ pc' = "copy"
    BY <1>4 DEF CopyByte
  <2>4. Len(loaded') - i' = Len(loaded) - i
    BY <1>0, <2>2, <2>3
  <2>5. Double(AtStart)' <=> Double(AtStart)
    BY <2>1 DEF Double
  <2>6. file.size \in Int /\ AtStart \in Int
    BY <1>0, <2>1, FileType
  <2>7. ASSUME Double(AtStart)'
        PROVE  /\ file'.size + 2 * i' = AtStart' + 2 * Len(loaded')
               /\ WholeSectors(Len(loaded') - i')
    <3>1. /\ file.size + 2 * i = AtStart + 2 * Len(loaded)
          /\ WholeSectors(Len(loaded) - i)
      BY <2>3, <2>5, <2>7 DEF CountInv
    <3>2. WholeSectors(Len(loaded') - i')
      BY <2>4, <3>1
    <3> QED
      BY <1>0, <2>1, <2>2, <2>3, <2>6, <3>1, <3>2
  <2>8. AtStart > 0
    BY <2>3 DEF CountInv
  <2> QED
    BY <2>1, <2>3, <2>7, <2>8 DEF CountInv, WholeSectors
<1>5. CASE NextSector
  <2>1. SUFFICES ASSUME Double(kernel_size')
                 PROVE  /\ file.size = kernel_size' + 2 * Len(loaded)
                        /\ WholeSectors(Len(loaded))
    BY <1>5 DEF NextSector, CountInv, Double, WholeSectors
  <2>2. /\ Double(AtStart) /\ i = SECTOR_SIZE /\ AtStart \in Nat
        /\ kernel_size' = AtStart - 2 * SECTOR_SIZE
    BY <1>5, <2>1, DoubleBefore
  <2>3. /\ file.size + 2 * i = AtStart + 2 * Len(loaded)
        /\ WholeSectors(Len(loaded) - i)
    BY <1>5, <2>2 DEF NextSector, CountInv
  <2>4. file.size = kernel_size' + 2 * Len(loaded)
    BY <1>0, <2>2, <2>3, FileType
  <2>5. WholeSectors(Len(loaded))
    <3>1. PICK k \in Nat : Len(loaded) - i = SECTOR_SIZE * k
      BY <2>3 DEF WholeSectors
    <3>2. Len(loaded) = SECTOR_SIZE * (k + 1)
      BY <1>0, <2>2, <3>1
    <3> QED
      BY <3>2 DEF WholeSectors
  <2> QED
    BY <2>4, <2>5
<1>6. CASE StartKernel
  <2>1. 0 = 2 * SECTOR_SIZE * 0
    BY <1>0
  <2>2. Double(kernel_size)
    BY <1>6, <2>1 DEF StartKernel, Double
  <2> QED
    BY <1>6, <2>2 DEF StartKernel, CountInv, WholeSectors
<1>7. CASE UNCHANGED vars
  BY <1>7 DEF vars, CountInv, AtStart, Double, WholeSectors
<1> HIDE DEF TypeOK
<1> QED
  BY <1>1, <1>2, <1>3, <1>4, <1>5, <1>6, <1>7 DEF Next, Load

LEMMA CountInvariant == Spec => []CountInv
<1>1. Init => CountInv
  BY DEF Init, CountInv
<1> QED
  BY <1>1, CountInvNext, Typing, PTL DEF Spec

\* boot.c says where it enters the kernel that the kernel has been loaded
\* (line 55).  It has not: every byte is counted twice, once by the inner and
\* once by the outer loop, so that only a half of the file is in memory.  A
\* file that is not a whole number of double sectors makes the counter jump
\* over 0 and is never entered.
OnlyHalf ==
  pc = "started" =>
    /\ file.size = 2 * Len(loaded)
    /\ Len(loaded) % SECTOR_SIZE = 0

\* For every file and disk, what is entered is exactly half of its file: no
\* file but an empty one is ever entered whole.
THEOREM Half == Spec => []OnlyHalf
<1>1. TypeOK /\ CountInv => OnlyHalf
  <2> SUFFICES ASSUME TypeOK, CountInv, pc = "started" PROVE
                 file.size = 2 * Len(loaded) /\ Len(loaded) % SECTOR_SIZE = 0
    BY DEF OnlyHalf
  <2>1. PICK k \in Nat : Len(loaded) = SECTOR_SIZE * k
    BY DEF CountInv, WholeSectors
  <2> QED
    BY <2>1, ModMultiple, LoaderAssumption DEF CountInv
<1> QED
  BY <1>1, CountInvariant, Typing, PTL

-----------------------------------------------------------------------------
(* StartedOnPrefix.  While the count is exact every round but the current  *)
(* one copied a whole sector, so the length of what is loaded tells which  *)
(* byte of the file comes next.  The sector number does not wrap: a sector *)
(* that was read is on the disk.                                           *)

InPlace == \A n \in 1..Len(loaded) : loaded[n] = FileByte(n - 1)

PrefixInv ==
  /\ pc = "boot" => loaded = <<>>
  /\ pc = "read" /\ Double(kernel_size) =>
       InPlace /\ Len(loaded) = SECTOR_SIZE * (sector - file.first)
  /\ pc = "copy" =>
       /\ sector < DiskSectors
       /\ Double(AtStart) =>
            InPlace /\ Len(loaded) = SECTOR_SIZE * (sector - file.first) + i
  /\ pc = "started" => InPlace

LEMMA DivMod ==
  ASSUME NEW s \in Nat \ {0}, NEW d \in Int, NEW j \in 0..(s - 1)
  PROVE  (s * d + j) \div s = d /\ (s * d + j) % s = j
OBVIOUS

LEMMA FirstType == ASSUME TypeOK PROVE file.first \in Nat
<1>1. \A n \in FirstSectors \union {0} : n \in Nat
  <2>1. FirstSectors \subseteq 0..(Word - 1)
    BY LoaderAssumption
  <2> QED
    BY <2>1, WordType
<1>2. file.first \in FirstSectors \union {0}
  BY DEF TypeOK
<1> QED
  BY <1>1, <1>2

\* A byte appended at the place the length asks for keeps the prefix.
LEMMA AppendInPlace ==
  ASSUME TypeOK, InPlace, UNCHANGED file, i < SECTOR_SIZE,
         Len(loaded) = SECTOR_SIZE * (sector - file.first) + i,
         loaded' = Append(loaded, [sector |-> sector, index |-> i])
  PROVE  InPlace'
<1>1. SECTOR_SIZE \in Nat \ {0} /\ i \in 0..(SECTOR_SIZE - 1)
  BY LoaderAssumption DEF TypeOK
<1>2. sector \in Int /\ file.first \in Int /\ sector - file.first \in Int
  BY WordType, FirstType DEF TypeOK
<1>3. FileByte(Len(loaded)) = [sector |-> sector, index |-> i]
  <2>1. /\ Len(loaded) \div SECTOR_SIZE = sector - file.first
        /\ Len(loaded) % SECTOR_SIZE = i
    BY <1>1, <1>2, DivMod
  <2>2. file.first + (sector - file.first) = sector
    BY <1>2
  <2> QED
    BY <2>1, <2>2 DEF FileByte
<1>4. /\ Len(loaded') = Len(loaded) + 1
      /\ \A n \in 1..Len(loaded) : loaded'[n] = loaded[n]
      /\ loaded'[Len(loaded) + 1] = [sector |-> sector, index |-> i]
      /\ Len(loaded) \in Nat
  BY DEF TypeOK
<1>5. \A n : FileByte(n)' = FileByte(n)
  BY DEF FileByte
<1>6. \A n \in 1..Len(loaded') : loaded'[n] = FileByte(n - 1)
  <2> TAKE n \in 1..Len(loaded')
  <2>1. CASE n = Len(loaded) + 1
    BY <1>3, <1>4, <2>1
  <2>2. CASE n \in 1..Len(loaded)
    BY <1>4, <2>2 DEF InPlace
  <2> QED
    BY <1>4, <2>1, <2>2
<1> QED
  BY <1>5, <1>6 DEF InPlace

LEMMA PrefixInvNext ==
  ASSUME TypeOK, TypeOK', CountInv, PrefixInv, [Next]_vars PROVE PrefixInv'
<1>0. SECTOR_SIZE \in Nat \ {0} /\ Word \in Nat \ {0} /\ DiskSectors \in 1..(Word - 1)
  BY LoaderAssumption, WordType
<1>1. CASE Boot
  <2>1. CASE FileNotFound
    BY <2>1 DEF FileNotFound, PrefixInv
  <2>2. ASSUME NEW first \in FirstSectors, NEW size \in FileSizes,
               FindFile(first, size)
        PROVE  PrefixInv'
    <3>1. loaded' = <<>> /\ pc' = "read" /\ sector' = first /\ file'.first = first
      BY <2>2 DEF FindFile, PrefixInv
    <3>2. Len(loaded') = 0 /\ SECTOR_SIZE * (first - first) = 0
      BY <1>0, <3>1, LoaderAssumption
    <3>3. InPlace'
      BY <3>2 DEF InPlace
    <3> QED
      BY <3>1, <3>2, <3>3 DEF PrefixInv
  <2> QED
    BY <1>1, <2>1, <2>2 DEF Boot
<1>2. ASSUME UNCHANGED <<file, loaded>> PROVE InPlace' <=> InPlace
  BY <1>2 DEF InPlace, FileByte
<1>3. CASE ReadSector
  <2>1. /\ AtStart' = kernel_size + 0 /\ i' = 0 /\ sector < DiskSectors
        /\ UNCHANGED <<sector, file, loaded>>
        /\ pc = "read" /\ pc' = "copy"
    BY <1>3 DEF ReadSector, AtStart
  <2>2. kernel_size + 0 = kernel_size
    BY WordType DEF TypeOK
  <2>3. Double(AtStart)' => Double(kernel_size)
    BY <2>1, <2>2 DEF Double
  <2>4. SECTOR_SIZE * (sector - file.first) + 0 = SECTOR_SIZE * (sector - file.first)
    BY <1>0, FirstType, WordType DEF TypeOK
  <2> QED
    BY <1>2, <2>1, <2>3, <2>4 DEF PrefixInv
<1>4. CASE ReadError
  BY <1>4 DEF ReadError, PrefixInv
<1>5. CASE CopyByte
  <2>1. /\ UNCHANGED <<sector, file>> /\ i' = i + 1 /\ i < SECTOR_SIZE
        /\ pc = "copy" /\ pc' = "copy"
        /\ loaded' = Append(loaded, [sector |-> sector, index |-> i])
        /\ kernel_size' = kernel_size - 1
    BY <1>5 DEF CopyByte
  <2>2. Double(AtStart)' => Double(AtStart)
    <3>1. AtStart' = AtStart
      BY <1>0, <2>1, WordType DEF AtStart, TypeOK
    <3> QED
      BY <3>1 DEF Double
  <2>3. sector < DiskSectors
    BY <2>1 DEF PrefixInv
  <2>4. ASSUME Double(AtStart)
        PROVE  /\ InPlace'
               /\ Len(loaded') = SECTOR_SIZE * (sector - file.first) + i'
    <3>1. InPlace /\ Len(loaded) = SECTOR_SIZE * (sector - file.first) + i
      BY <2>1, <2>4 DEF PrefixInv
    <3>2. InPlace'
      BY <2>1, <3>1, AppendInPlace
    <3>3. Len(loaded') = Len(loaded) + 1
      BY <2>1 DEF TypeOK
    <3>4. SECTOR_SIZE * (sector - file.first) \in Int /\ i \in Int
      BY <1>0, FirstType, WordType DEF TypeOK
    <3> QED
      BY <2>1, <3>1, <3>2, <3>3, <3>4
  <2> QED
    BY <2>1, <2>2, <2>3, <2>4 DEF PrefixInv
<1>6. CASE NextSector
  <2>1. /\ UNCHANGED <<file, loaded>> /\ pc = "copy" /\ pc' = "read"
        /\ sector' = (sector + 1) % Word
    BY <1>6 DEF NextSector
  <2>2. SUFFICES ASSUME Double(kernel_size')
                 PROVE  /\ InPlace
                        /\ Len(loaded) = SECTOR_SIZE * (sector' - file.first)
    BY <1>2, <2>1 DEF PrefixInv, Double
  <2>3. Double(AtStart) /\ i = SECTOR_SIZE
    BY <1>6, <2>2, DoubleBefore
  <2>4. sector < DiskSectors
    BY <2>1 DEF PrefixInv
  <2>5. sector' = sector + 1
    <3>1. sector + 1 \in 0..(Word - 1)
      BY <1>0, <2>4 DEF TypeOK
    <3> QED
      BY <1>0, <2>1, <3>1, ModIn
  <2>6. InPlace /\ Len(loaded) = SECTOR_SIZE * (sector - file.first) + SECTOR_SIZE
    BY <2>1, <2>3 DEF PrefixInv
  <2>7. PICK d \in Int : d = sector - file.first
    BY FirstType, WordType DEF TypeOK
  <2>8. sector' - file.first = d + 1
    BY <2>5, <2>7, FirstType, WordType DEF TypeOK
  <2>9. SECTOR_SIZE * d + SECTOR_SIZE = SECTOR_SIZE * (d + 1)
    BY <1>0
  <2> QED
    BY <2>6, <2>7, <2>8, <2>9
<1>7. CASE StartKernel
  <2>1. 0 = 2 * SECTOR_SIZE * 0
    BY <1>0
  <2>2. Double(kernel_size)
    BY <1>7, <2>1 DEF StartKernel, Double
  <2>3. UNCHANGED <<file, loaded>> /\ pc = "read" /\ pc' = "started"
    BY <1>7 DEF StartKernel
  <2> QED
    BY <1>2, <2>2, <2>3 DEF PrefixInv
<1>8. CASE UNCHANGED vars
  <2>1. UNCHANGED <<pc, file, sector, kernel_size, i, loaded>>
    BY <1>8 DEF vars
  <2>2. UNCHANGED AtStart
    BY <2>1 DEF AtStart
  <2>3. /\ Double(AtStart)' <=> Double(AtStart)
        /\ Double(kernel_size)' <=> Double(kernel_size)
    BY <2>1, <2>2 DEF Double
  <2> QED
    BY <1>2, <2>1, <2>3 DEF PrefixInv
<1> QED
  BY <1>1, <1>3, <1>4, <1>5, <1>6, <1>7, <1>8 DEF Next, Load

\* Whatever the size of the file and wherever it lies, when the kernel is
\* entered every loaded byte is the byte of the file that belongs there.
THEOREM Prefix == Spec => []StartedOnPrefix
<1>1. Init => PrefixInv
  BY DEF Init, PrefixInv
<1>2. PrefixInv => StartedOnPrefix
  BY DEF PrefixInv, StartedOnPrefix, InPlace
<1> QED
  BY <1>1, <1>2, PrefixInvNext, CountInvariant, Typing, PTL DEF Spec
=============================================================================
