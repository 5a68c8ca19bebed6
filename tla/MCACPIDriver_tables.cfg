\* Words of 64 values, size_t of their square; three places for tables.
SPECIFICATION Spec
CONSTANTS
  HeaderSize = 36
  ACPI_TABLE_MAX = 3
  Word = 64
  SizeWord = 4096
  Addresses = {"rsdt", "xsdt", "facp", "apic", "odd", "zero"}
  NoAddress = "zero"
  Elsewhere = "odd"
  Signatures = {"RSDT", "XSDT", "FACP", "APIC", "IVT"}
  Memories <- SomeMemories
  OwnRSDPs <- SomeRSDPs
INVARIANTS
  TypeOK
  ReadyHoldsItsRoot
CHECK_DEADLOCK FALSE
