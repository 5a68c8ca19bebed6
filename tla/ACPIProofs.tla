----------------------------- MODULE ACPIProofs -----------------------------
(***************************************************************************)
(* Proofs about the ACPI driver, for every memory, every RSDP an owner may *)
(* leave in the driver, every size of the array of tables and every width  *)
(* of the integers it counts entries with.                                 *)
(***************************************************************************)
EXTENDS ACPIDriver, SequenceLemmas

-----------------------------------------------------------------------------
(* What is read from memory.                                               *)

MemoryOK == memory \in Memories /\ rsdp \in OwnRSDPs

LEMMA MemoryParts ==
  ASSUME MemoryOK
  PROVE  /\ memory.rsdps \in Seq(RSDP)
         /\ memory.table \in [Addresses -> Table]
         /\ \A w \in Widths : Range(memory.words[w]) \subseteq Addresses
         /\ rsdp \in RSDP
BY ACPIAssumption DEF MemoryOK

\* The count of the entries is a number, however it wraps.
LEMMA NumEntriesType ==
  ASSUME MemoryOK, NEW a \in Addresses, NEW two \in BOOLEAN
  PROVE  NumEntries(a, two) \in Nat
<1>1. memory.table[a].length \in 0..(Word - 1)
  BY MemoryParts DEF Table
<1>2. \A x \in Int, n \in Nat \ {0} : x % n \in Nat
  OBVIOUS
<1>3. \A x \in Nat : x \div 4 \in Nat /\ x \div 8 \in Nat
  OBVIOUS
<1>4. /\ memory.table[a].length - HeaderSize \in Int
      /\ SizeWord \in Nat \ {0} /\ Word \in Nat \ {0}
  BY <1>1, ACPIAssumption
<1>5. Width(two) \in {4, 8}
  BY DEF Width
<1> DEFINE size == (memory.table[a].length - HeaderSize) % SizeWord
<1>6. size \in Nat
  BY <1>2, <1>4
<1> HIDE DEF size
<1>7. size \div Width(two) \in Nat
  BY <1>3, <1>5, <1>6
<1>8. (size \div Width(two)) % Word \in Nat
  BY <1>2, <1>4, <1>7
<1> QED
  BY <1>8 DEF NumEntries, size

LEMMA WordAtType ==
  ASSUME MemoryOK, NEW w \in Widths, NEW address
  PROVE  WordAt(w, address) \in Addresses
<1>1. CASE address \in DOMAIN memory.words[w]
  <2>1. memory.words[w][address] \in Range(memory.words[w])
    BY <1>1 DEF Range
  <2> QED
    BY <1>1, <2>1, MemoryParts DEF WordAt
<1>2. CASE address \notin DOMAIN memory.words[w]
  BY <1>2, ACPIAssumption DEF WordAt
<1> QED
  BY <1>1, <1>2

LEMMA RootType ==
  ASSUME MemoryOK, NEW two \in BOOLEAN PROVE Root(two) \in Addresses
BY MemoryParts DEF Root, RSDP

LEMMA EntriesType ==
  ASSUME MemoryOK, NEW two \in BOOLEAN
  PROVE  Entries(Root(two), two) \in Seq(Addresses)
<1> DEFINE N == NumEntries(Root(two), two)
           at(i) == memory.table[Root(two)].length + (i - 1) * Width(two)
<1>1. N \in Nat
  BY RootType, NumEntriesType
<1>2. Width(two) \in Widths
  BY DEF Width, Widths
<1>3. Entries(Root(two), two) = [i \in 1..N |-> WordAt(Width(two), at(i))]
  BY DEF Entries
<1>4. \A i \in 1..N : WordAt(Width(two), at(i)) \in Addresses
  BY <1>2, WordAtType
<1> HIDE DEF N, at
<1> QED
  BY <1>1, <1>3, <1>4

LEMMA IntactType ==
  ASSUME MemoryOK, NEW two \in BOOLEAN
  PROVE  IntactEntries(Root(two), two) \in Seq(Addresses)
BY EntriesType, SelectedType DEF IntactEntries

\* The search for the RSDP ends at one, or not at all.
LEMMA FindsRSDP ==
  ASSUME MemoryOK, ACPI_FindRSDP # 0
  PROVE  memory.rsdps[ACPI_FindRSDP] \in RSDP
<1> DEFINE I == {n \in 1..Len(memory.rsdps) :
                   memory.rsdps[n].signed /\ memory.rsdps[n].sum = 0}
<1>1. memory.rsdps \in Seq(RSDP)
  BY MemoryParts
<1>2. I # {} /\ ACPI_FindRSDP = Min(I)
  BY DEF ACPI_FindRSDP, SelectInSeq
<1>3. I \in SUBSET Nat
  BY <1>1
<1> HIDE DEF I
<1>4. ACPI_FindRSDP \in I
  BY <1>2, <1>3, MinIsLeast
<1> QED
  BY <1>1, <1>4 DEF I

-----------------------------------------------------------------------------
(* The steps.                                                              *)

\* What a loading does: it runs over the array, or appends.
LEMMA LoadCases ==
  ASSUME MemoryOK, tables \in Seq(Addresses), NEW two \in BOOLEAN, Load(two)
  PROVE  LET intact == IntactEntries(Root(two), two)
         IN \/ /\ Len(tables \o intact) > ACPI_TABLE_MAX
               /\ overrun' = TRUE /\ UNCHANGED tables
            \/ /\ ~(Len(tables \o intact) > ACPI_TABLE_MAX)
               /\ tables' = tables \o intact
               /\ tables' \in Seq(Addresses) /\ Len(tables') <= ACPI_TABLE_MAX
               /\ UNCHANGED overrun
<1> DEFINE intact == IntactEntries(Root(two), two)
<1>1. intact \in Seq(Addresses)
  BY IntactType
<1>2. \/ Overruns(tables \o intact) /\ overrun' = TRUE /\ UNCHANGED tables
      \/ ~Overruns(tables \o intact) /\ tables' = tables \o intact
           /\ UNCHANGED overrun
  BY DEF Load
<1> HIDE DEF intact
<1>3. tables \o intact \in Seq(Addresses) /\ Len(tables \o intact) \in Nat
  BY <1>1
<1>4. ACPI_TABLE_MAX \in Nat
  BY ACPIAssumption
<1>5. \/ /\ Len(tables \o intact) > ACPI_TABLE_MAX
         /\ overrun' = TRUE /\ UNCHANGED tables
      \/ /\ ~(Len(tables \o intact) > ACPI_TABLE_MAX)
         /\ tables' = tables \o intact
         /\ tables' \in Seq(Addresses) /\ Len(tables') <= ACPI_TABLE_MAX
         /\ UNCHANGED overrun
  <2>1. CASE Overruns(tables \o intact)
    BY <1>2, <2>1 DEF Overruns
  <2>2. CASE ~Overruns(tables \o intact)
    <3>1. Len(tables \o intact) <= ACPI_TABLE_MAX
      BY <1>3, <1>4, <2>2 DEF Overruns
    <3> QED
      BY <1>2, <1>3, <2>2, <3>1 DEF Overruns
  <2> QED
    BY <2>1, <2>2
<1> QED
  BY <1>5 DEF intact

\* The steps but the loadings leave the tables alone; all leave the memory.
LEMMA Steps ==
  ASSUME [Next]_vars
  PROVE  /\ UNCHANGED memory
         /\ \/ ACPI_Init /\ MayLoad(SupportsTwo)
            \/ ACPI_LoadTables
            \/ UNCHANGED <<tables, overrun>>
<1>1. ACPI_Init => MayLoad(SupportsTwo) \/ UNCHANGED <<tables, overrun>>
  BY DEF ACPI_Init, LoadsOrFails
<1> QED
  BY <1>1 DEF Next, ACPI_Init, ACPI_LoadTables, ACPI_SuspendCPU, Interrupt,
              Prepare, vars

\* Both ways to load.
LEMMA LoadingSteps ==
  ASSUME acpi_2_0_supported \in BOOLEAN,
         \/ ACPI_Init /\ MayLoad(SupportsTwo)
         \/ ACPI_LoadTables
  PROVE  \E two \in BOOLEAN :
           /\ two = acpi_2_0_supported'
           /\ Running /\ MayLoad(two) /\ Load(two)
           /\ UNCHANGED <<memory, rsdp, halted>>
<1>1. CASE ACPI_Init /\ MayLoad(SupportsTwo)
  <2>1. SupportsTwo \in BOOLEAN
    BY DEF SupportsTwo
  <2> QED
    BY <1>1, <2>1 DEF ACPI_Init, LoadsOrFails
<1>2. CASE ACPI_LoadTables
  BY <1>2 DEF ACPI_LoadTables
<1> QED
  BY <1>1, <1>2

-----------------------------------------------------------------------------
(* Typing.                                                                 *)

FlagsTypeOK ==
  /\ acpi_2_0_supported \in BOOLEAN /\ overrun \in BOOLEAN
  /\ halted \in BOOLEAN
TablesTypeOK == tables \in Seq(Addresses) /\ Len(tables) <= ACPI_TABLE_MAX
OthersTypeOK ==
  /\ MemoryOK
  /\ state \in {"UNINITIALIZED", "INITIALIZING", "READY"}
  /\ instance_rsdp \in Seq(RSDP) /\ Len(instance_rsdp) <= 1

LEMMA TypeParts == TypeOK <=> FlagsTypeOK /\ TablesTypeOK /\ OthersTypeOK
BY DEF TypeOK, FlagsTypeOK, TablesTypeOK, OthersTypeOK, MemoryOK

LEMMA OthersType ==
  ASSUME TypeOK, [Next]_vars PROVE OthersTypeOK'
<1> USE TypeParts DEF OthersTypeOK, MemoryOK
<1>1. CASE ACPI_Init
  <2>1. instance_rsdp' \in Seq(RSDP) /\ Len(instance_rsdp') <= 1
    <3> DEFINE r == memory.rsdps[ACPI_FindRSDP]
    <3>1. instance_rsdp' = <<r>> /\ r \in RSDP
      BY <1>1, FindsRSDP DEF ACPI_Init
    <3> HIDE DEF r
    <3> QED
      BY <3>1
  <2>2. UNCHANGED <<memory, rsdp>> /\ state' \in {state, "READY"}
    BY <1>1 DEF ACPI_Init, LoadsOrFails
  <2> QED
    BY <2>1, <2>2
<1>3. ASSUME NEW r \in OwnRSDPs, Prepare(r) PROVE OthersTypeOK'
  BY <1>3 DEF Prepare
<1>4. CASE ACPI_LoadTables \/ ACPI_SuspendCPU \/ Interrupt \/ UNCHANGED vars
  BY <1>4 DEF ACPI_LoadTables, ACPI_SuspendCPU, Interrupt, vars
<1> QED
  BY <1>1, <1>3, <1>4 DEF Next

LEMMA TablesType ==
  ASSUME TypeOK, [Next]_vars PROVE TablesTypeOK'
<1>1. FlagsTypeOK /\ TablesTypeOK /\ MemoryOK
  BY TypeParts DEF OthersTypeOK
<1>2. CASE UNCHANGED tables
  BY <1>1, <1>2 DEF TablesTypeOK
<1>3. CASE (ACPI_Init /\ MayLoad(SupportsTwo)) \/ ACPI_LoadTables
  <2>1. PICK two \in BOOLEAN : Load(two)
    BY <1>1, <1>3, LoadingSteps DEF FlagsTypeOK
  <2> QED
    BY <1>1, <2>1, LoadCases DEF TablesTypeOK
<1> QED
  BY <1>2, <1>3, Steps

LEMMA FlagsType ==
  ASSUME TypeOK, [Next]_vars PROVE FlagsTypeOK'
<1>1. FlagsTypeOK
  BY TypeParts
<1>2. acpi_2_0_supported' \in BOOLEAN
  <2>1. SupportsTwo \in BOOLEAN
    BY DEF SupportsTwo
  <2>2. acpi_2_0_supported' = SupportsTwo \/ UNCHANGED acpi_2_0_supported
    BY Zenon DEF Next, ACPI_Init, ACPI_LoadTables, ACPI_SuspendCPU, Interrupt,
                 Prepare, vars
  <2> QED
    BY <1>1, <2>1, <2>2 DEF FlagsTypeOK
<1>3. halted' \in BOOLEAN
  <2>1. halted' = TRUE \/ halted' = FALSE \/ UNCHANGED halted
    BY Zenon DEF Next, ACPI_Init, ACPI_LoadTables, ACPI_SuspendCPU, Interrupt,
                 Prepare, vars
  <2> QED
    BY <1>1, <2>1 DEF FlagsTypeOK
<1>4. overrun' \in BOOLEAN
  <2>1. overrun' = TRUE \/ UNCHANGED overrun
    BY Zenon DEF Next, ACPI_Init, ACPI_LoadTables, LoadsOrFails, Load,
                 ACPI_SuspendCPU, Interrupt, Prepare, vars
  <2> QED
    BY <1>1, <2>1 DEF FlagsTypeOK
<1> QED
  BY <1>2, <1>3, <1>4 DEF FlagsTypeOK

\* The types; the array of tables is never longer than it has room for.
THEOREM Typing == Spec => []TypeOK
<1>1. Init => TypeOK
  <2> SUFFICES ASSUME Init PROVE TypeOK
    OBVIOUS
  <2>1. OthersTypeOK /\ TablesTypeOK
    BY ACPIAssumption DEF Init, OthersTypeOK, MemoryOK, TablesTypeOK
  <2>2. FlagsTypeOK
    BY DEF Init, FlagsTypeOK
  <2> QED
    BY <2>1, <2>2, TypeParts
<1>2. TypeOK /\ [Next]_vars => TypeOK'
  <2> SUFFICES ASSUME TypeOK, [Next]_vars PROVE TypeOK'
    OBVIOUS
  <2>1. FlagsTypeOK' /\ TablesTypeOK' /\ OthersTypeOK'
    BY FlagsType, TablesType, OthersType
  <2> QED
    BY <2>1 DEF TypeOK, FlagsTypeOK, TablesTypeOK, OthersTypeOK, MemoryOK
<1> QED
  BY <1>1, <1>2, PTL DEF Spec

-----------------------------------------------------------------------------
(* ReadyHoldsItsRoot.  A READY driver that is initialised again finds what *)
(* it has noted of ACPI 2.0 already, so it still looks at the same root.   *)

OfTwo == rsdp.revision >= 2 /\ rsdp.xsdt_address # NoAddress
NotedTwo == state = "READY" /\ OfTwo => acpi_2_0_supported

ReadyInv == NotedTwo /\ ReadyHoldsItsRoot

LEMMA ReadyInvNext ==
  ASSUME TypeOK, ReadyInv, [Next]_vars PROVE ReadyInv'
<1>0. MemoryOK /\ FlagsTypeOK /\ tables \in Seq(Addresses)
  BY TypeParts DEF OthersTypeOK, TablesTypeOK
<1>1. CASE state' # "READY"
  BY <1>1 DEF ReadyInv, NotedTwo, ReadyHoldsItsRoot
<1>2. CASE /\ state = "READY" /\ state' = "READY"
           /\ UNCHANGED <<memory, rsdp, tables, overrun, acpi_2_0_supported>>
  BY <1>2 DEF ReadyInv, NotedTwo, OfTwo, ReadyHoldsItsRoot, Root, Entries, NumEntries,
              WordAt, Width
<1>3. CASE ACPI_Init /\ state = "READY"
  <2>1. ~MayLoad(SupportsTwo)
    BY <1>3 DEF MayLoad
  <2>2. UNCHANGED <<memory, rsdp, tables, overrun, state>>
    BY <1>3, <2>1 DEF ACPI_Init, LoadsOrFails
  <2>3. SupportsTwo = acpi_2_0_supported
    BY <1>0, <1>3 DEF ReadyInv, NotedTwo, OfTwo, SupportsTwo, FlagsTypeOK
  <2>4. UNCHANGED acpi_2_0_supported
    BY <1>3, <2>3 DEF ACPI_Init
  <2> QED
    BY <1>2, <1>3, <2>2, <2>4
<1>4. CASE ACPI_Init /\ state # "READY" /\ state' = "READY"
  <2>1. MayLoad(SupportsTwo)
    BY <1>4 DEF ACPI_Init, LoadsOrFails
  <2>2. PICK two \in BOOLEAN :
          /\ two = acpi_2_0_supported' /\ MayLoad(two) /\ Load(two)
          /\ UNCHANGED <<memory, rsdp>>
    BY <1>0, <1>4, <2>1, LoadingSteps DEF FlagsTypeOK
  <2>3. NotedTwo'
    BY <1>4, <2>2 DEF NotedTwo, OfTwo, ACPI_Init, SupportsTwo
  <2>4. ASSUME ~overrun'
        PROVE  /\ memory.table[Root(two)].signature = "RSDT"
               /\ memory.table[Root(two)].sum = 0
               /\ IsSuffix(IntactEntries(Root(two), two), tables')
    <3>1. tables' = tables \o IntactEntries(Root(two), two)
      BY <1>0, <2>2, <2>4, LoadCases
    <3> QED
      BY <1>0, <2>2, <3>1, IntactType, SuffixOfConcat
         DEF MayLoad, ACPI_CheckTableChecksum
  <2>5. ReadyHoldsItsRoot'
    BY <2>2, <2>4 DEF ReadyHoldsItsRoot, Root, Entries, NumEntries, WordAt,
                      Width, IntactEntries, ACPI_CheckTableChecksum
  <2> QED
    BY <2>3, <2>5 DEF ReadyInv
<1>5. CASE ACPI_LoadTables
  BY <1>1, <1>5 DEF ACPI_LoadTables, MayLoad
<1>6. CASE ACPI_SuspendCPU \/ Interrupt \/ UNCHANGED vars
  BY <1>1, <1>2, <1>6 DEF ACPI_SuspendCPU, Interrupt, vars
<1>7. ASSUME NEW r \in OwnRSDPs, Prepare(r) PROVE ReadyInv'
  BY <1>1, <1>7 DEF Prepare
<1> QED
  BY <1>1, <1>3, <1>4, <1>5, <1>6, <1>7 DEF Next

\* The root of a READY driver is an RSDT with a sum of 0, and the driver's
\* tables end in its intact entries.
THEOREM HeldRoot == Spec => []ReadyHoldsItsRoot
<1>1. Init => ReadyInv
  BY DEF Init, ReadyInv, NotedTwo, ReadyHoldsItsRoot
<1>2. ReadyInv => ReadyHoldsItsRoot
  BY DEF ReadyInv
<1> QED
  BY <1>1, <1>2, ReadyInvNext, Typing, PTL DEF Spec

=============================================================================
