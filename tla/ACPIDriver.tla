----------------------------- MODULE ACPIDriver -----------------------------
(***************************************************************************)
(* The ACPI driver (acpi_driver.c): it looks for the RSDP in memory,       *)
(* collects pointers to the intact tables of the root table.  It has no    *)
(* lock and no interrupt handler: its operations run one after the other.  *)
(* ACPI_FindTable and ACPI_SetPowerState change nothing and are left out.  *)
(*                                                                         *)
(* External: the owner of the driver.  The driver loads only in the state  *)
(* INITIALIZING, from the RSDP in its own structure, and sets neither: the *)
(* RSDP that is found goes to a static instance nobody else can reach.     *)
(* Memory does not change while the driver runs.                           *)
(*                                                                         *)
(* A table is its signature, its length, and the sum of that many of its   *)
(* bytes as an RT_U8; an address is what table lies there.                 *)
(***************************************************************************)
EXTENDS Integers, Sequences, Selection, SequencesExt

CONSTANTS
  HeaderSize,       \* sizeof(ACPI_TableHeader): 36
  ACPI_TABLE_MAX,   \* size of driver->tables: 7
  Word,             \* how many values an RT_U32 has: 2^32
  SizeWord,         \* how many values a size_t has: 2^32 or 2^64
  Addresses,        \* where tables may lie
  NoAddress,        \* 0: the address in an RSDP field that was never set
  Signatures,       \* what tables may be called
  Memories,         \* what memory may hold, see ACPIAssumption
  Elsewhere,        \* where the words of memory lead that nobody wrote
  OwnRSDPs          \* what the owner may leave in driver->rsdp

RSDP == [signed : BOOLEAN, sum : 0..255, revision : 0..255,
         rsdt_address : Addresses, xsdt_address : Addresses]
Table == [signature : Signatures, length : 0..(Word - 1), sum : 0..255]
Widths == {4, 8}

\* A memory has the RSDPs in the range of the search, the tables, and the
\* words, of either width, that somebody wrote.
ASSUME ACPIAssumption ==
  /\ HeaderSize \in Nat /\ ACPI_TABLE_MAX \in Nat
  /\ Word \in Nat \ {0} /\ SizeWord \in Nat \ {0}
  /\ {NoAddress, Elsewhere} \subseteq Addresses
  /\ "RSDT" \in Signatures
  /\ OwnRSDPs \subseteq RSDP
  /\ \A m \in Memories :
       /\ m.rsdps \in Seq(RSDP) /\ m.table \in [Addresses -> Table]
       /\ \A w \in Widths : Range(m.words[w]) \subseteq Addresses
       /\ \A a \in Addresses : m.table[a].length = 0 => m.table[a].sum = 0

VARIABLES
  memory,              \* what memory holds
  state,               \* driver->base.state
  rsdp,                \* driver->rsdp
  instance_rsdp,       \* acpi_driver_instance.rsdp: a sequence of none or one
  acpi_2_0_supported,  \* driver->acpi_2_0_supported
  tables,              \* the first num_tables entries of driver->tables
  overrun,             \* a pointer was written past driver->tables
  halted               \* the processor waits in ACPI_SuspendCPU

vars == <<memory, state, rsdp, instance_rsdp, acpi_2_0_supported, tables,
          overrun, halted>>

TypeOK ==
  /\ memory \in Memories
  /\ state \in {"UNINITIALIZED", "INITIALIZING", "READY"}
  /\ rsdp \in OwnRSDPs
  /\ instance_rsdp \in Seq(RSDP) /\ Len(instance_rsdp) <= 1
  /\ acpi_2_0_supported \in BOOLEAN
  /\ tables \in Seq(Addresses) /\ Len(tables) <= ACPI_TABLE_MAX
  /\ overrun \in BOOLEAN /\ halted \in BOOLEAN

Init ==
  /\ memory \in Memories
  /\ state = "UNINITIALIZED"
  /\ rsdp \in OwnRSDPs
  /\ instance_rsdp = <<>> /\ acpi_2_0_supported = FALSE /\ tables = <<>>
  /\ overrun = FALSE /\ halted = FALSE

-----------------------------------------------------------------------------
(* Reading memory.                                                         *)

\* Every sixteenth byte of the range is tried; one with a bad sum is passed
\* over, and the search goes on.
ACPI_FindRSDP ==
  SelectInSeq(memory.rsdps, LAMBDA r : r.signed /\ r.sum = 0)

ACPI_CheckTableChecksum(a) == memory.table[a].sum = 0

Root(two) == IF two THEN rsdp.xsdt_address ELSE rsdp.rsdt_address
Width(two) == IF two THEN 8 ELSE 4

WordAt(width, address) ==
  IF address \in DOMAIN memory.words[width] THEN memory.words[width][address]
                                            ELSE Elsewhere

\* The number of entries is unsigned: it wraps when the table is shorter
\* than a header.
NumEntries(a, two) ==
  (((memory.table[a].length - HeaderSize) % SizeWord) \div Width(two)) % Word

\* The i-th entry is read at the address length + i * width: the length of
\* the root table is taken for the address of its entries.
Entries(a, two) ==
  [i \in 1..NumEntries(a, two) |->
     WordAt(Width(two), memory.table[a].length + (i - 1) * Width(two))]

\* The tables a loading appends.
IntactEntries(a, two) ==
  Selected(Entries(a, two), {t \in Addresses : ACPI_CheckTableChecksum(t)})

-----------------------------------------------------------------------------
(* The operations.                                                         *)

Running == ~halted /\ ~overrun

\* Mutant: one pointer too many fits.
Overruns_OffByOne(s) == Len(s) > ACPI_TABLE_MAX + 1
Overruns(s) == Len(s) > ACPI_TABLE_MAX

\* The loop of ACPI_LoadTables.  Once a pointer is written past the end of
\* driver->tables, over num_tables itself, anything may follow; the model
\* ends there.
Load(two) ==
  LET appended == tables \o IntactEntries(Root(two), two)
  IN IF Overruns(appended)
     THEN overrun' = TRUE /\ UNCHANGED tables
     ELSE tables' = appended /\ UNCHANGED overrun

\* Whether the loop is reached.
\* Mutant: the checksum of the root is not looked at.
MayLoad_AnyRoot(two) ==
  /\ state = "INITIALIZING"
  /\ memory.table[Root(two)].signature = "RSDT"
MayLoad(two) ==
  /\ state = "INITIALIZING"
  /\ memory.table[Root(two)].signature = "RSDT"
  /\ ACPI_CheckTableChecksum(Root(two))

\* Called directly, loading leaves the state as it is.
ACPI_LoadTables ==
  /\ Running
  /\ MayLoad(acpi_2_0_supported)
  /\ Load(acpi_2_0_supported)
  /\ UNCHANGED <<memory, state, rsdp, instance_rsdp, acpi_2_0_supported, halted>>

\* Support of ACPI 2.0 is noted, and never taken back.
SupportsTwo ==
  acpi_2_0_supported \/ (rsdp.revision >= 2 /\ rsdp.xsdt_address # NoAddress)

\* Mutant: an error of ACPI_LoadTables is not returned.
LoadsOrFails_Ignored(two) ==
  IF MayLoad(two) THEN Load(two) /\ state' = "READY"
                  ELSE UNCHANGED <<tables, overrun>> /\ state' = "READY"
LoadsOrFails(two) ==
  IF MayLoad(two) THEN Load(two) /\ state' = "READY"
                  ELSE UNCHANGED <<tables, overrun, state>>

\* Without an RSDP, ACPI_Init fails and changes nothing.
ACPI_Init ==
  /\ Running
  /\ ACPI_FindRSDP # 0
  /\ instance_rsdp' = <<memory.rsdps[ACPI_FindRSDP]>>
  /\ acpi_2_0_supported' = SupportsTwo
  /\ LoadsOrFails(SupportsTwo)
  /\ UNCHANGED <<memory, rsdp, halted>>

\* The halt ends with any interrupt.
ACPI_SuspendCPU ==
  /\ Running
  /\ state = "READY"
  /\ halted' = TRUE
  /\ UNCHANGED <<memory, state, rsdp, instance_rsdp, acpi_2_0_supported, tables,
                 overrun>>

Interrupt ==
  /\ halted
  /\ halted' = FALSE
  /\ UNCHANGED <<memory, state, rsdp, instance_rsdp, acpi_2_0_supported, tables,
                 overrun>>

\* The owner announces an initialisation and fills in the RSDP.
Prepare(r) ==
  /\ Running
  /\ state' = "INITIALIZING"
  /\ rsdp' = r
  /\ UNCHANGED <<memory, instance_rsdp, acpi_2_0_supported, tables, overrun,
                 halted>>

Next ==
  \/ ACPI_Init \/ ACPI_LoadTables \/ ACPI_SuspendCPU \/ Interrupt
  \/ \E r \in OwnRSDPs : Prepare(r)

Spec == Init /\ [][Next]_vars

-----------------------------------------------------------------------------
(* Properties.                                                             *)

\* The root table of a READY driver, the one its own RSDP names for the last
\* revision it was told of, is called RSDT and has a sum of 0, and the tables
\* the driver holds end in the intact ones among the entries it reads there.
\* So no loading that failed, or was of a former RSDP, ends in READY, whatever
\* mixture of loadings and initialisations came before; what lies in front of
\* these tables, left by former loadings, is not said.
ReadyHoldsItsRoot ==
  state = "READY" /\ ~overrun =>
    LET root == Root(acpi_2_0_supported)
    IN /\ memory.table[root].signature = "RSDT"
       /\ memory.table[root].sum = 0
       /\ IsSuffix(Selected(Entries(root, acpi_2_0_supported),
                            {a \in Addresses : memory.table[a].sum = 0}),
                   tables)
=============================================================================
