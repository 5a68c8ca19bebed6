---------------------------- MODULE MCACPIDriver ----------------------------
(***************************************************************************)
(* Memories for ACPIDriver.  The tables rsdt and xsdt are what firmware    *)
(* provides, facp and apic what they name, zero is the interrupt table at  *)
(* address 0, odd any other place.                                         *)
(***************************************************************************)
EXTENDS ACPIDriver

Tab(signature, length, sum) ==
  [signature |-> signature, length |-> length, sum |-> sum]

\* RSDPs: of ACPI 1.0, of ACPI 2.0, and the zeroes of a structure that
\* nobody has filled in.
Found(sum, revision, x) ==
  [signed |-> TRUE, sum |-> sum, revision |-> revision,
   rsdt_address |-> "rsdt", xsdt_address |-> x]
Zeroes == [signed |-> FALSE, sum |-> 0, revision |-> 0,
           rsdt_address |-> "zero", xsdt_address |-> "zero"]

SomeRSDPs == {Found(0, 0, "zero"), Found(0, 2, "xsdt"), Zeroes}

\* Low memory, where the length of the root table points to: facp and apic,
\* written as 4-byte or as 8-byte words.  What is not as wide as it is read
\* leads to zero or elsewhere.
LowMemory(length, width) ==
  IF width = 4
  THEN [w \in Widths |-> IF w = 4 THEN length :> "facp" @@ length + 4 :> "apic"
                                 ELSE <<>>]
  ELSE [w \in Widths |-> length :> "facp" @@ length + 8 :> "apic" @@
                           IF w = 4 THEN length + 4 :> "zero" ELSE <<>>]

\* Root tables of 0 to 4 entries, too short for their header, empty or bad;
\* an XSDT that is one or is called RSDT; other tables intact or not.
SomeMemories ==
  {[rsdps |-> found,
    table |-> [rsdt |-> Tab("RSDT", length, IF length = 0 THEN 0 ELSE sum),
               xsdt |-> Tab(x, length, 0),
               facp |-> Tab("FACP", 40, facp), apic |-> Tab("APIC", 40, 0),
               odd |-> Tab("FACP", odd, odd), zero |-> Tab("IVT", 50, 1)],
    words |-> LowMemory(length, width)] :
     found \in {<<>>, <<Found(7, 0, "zero"), Found(0, 0, "zero")>>},
     length \in {0, 35, 36, 44, 52}, sum \in {0, 9}, x \in {"XSDT", "RSDT"},
     facp \in {0, 3}, odd \in {0, 5}, width \in Widths}
=============================================================================
