# Lama OS 2.0 in TLA+

Specifications, model checks and proofs for the C sources of Lama OS 2.0
(`src/`): the port layer and the drivers, the boot loader, the ELF monitor daemon
and the desktop. The modules are translated from the code; what the code
uses and does not contain (hardware, GTK, systemd, the FAT32 functions) is
modelled from the way it is used and called *external* below.

Run a check with `tlc -config <cfg> <module>`, a proof with `tlapm <module>.tla`.
`PROJECT.json` lists every run, the source lines of every definition, the
findings and the hazards.

## 1. Inventory

| Part | State it keeps | Operations | Correct when |
|---|---|---|---|
| Port layer `drivers/common/io_port.c` | `port_locks`, `port_configs` | lock, unlock, In/Out of 8, 16, 32 bits, configuration | a port has one owner at a time; nobody touches a locked port; no lock is lost |
| Mouse driver `drivers/mouse` | driver state, packet being assembled, position | Init, Enable, Disable, SetSampleRate, interrupt handler | answers belong to the commands they are read for; packets processed are packets sent; the state follows the life cycle; every call returns; a running driver keeps reading |
| USB driver `drivers/usb` | table of devices | Init, Attach, Detach, Find, Send, Receive | table, callbacks and pointers agree; commands reach the device they name |
| Network driver `drivers/network` | table of devices | Init, AddDevice, Find, Send, Receive | the same; a received packet is delivered whole |
| ACPI driver `drivers/acpi` | state, RSDP, table of tables | Init, LoadTables, FindTable, power | READY means that the root is the right one and its tables are loaded; they fit |
| Driver framework `drivers/common/rt_drivers.h` | none: only declared | registration, interrupts, DMA | - |
| Boot loader `boot.c` | sector, remaining size, memory | find, load, start | the whole kernel is loaded, then entered |
| ELF monitor `exe.c` and its unit | `running`, pid file, open directories, log | fork, scan, sleep, signals, clean-up | the pid file names the daemon; a scan logs every ELF file it can reach, once; a signal ends it |
| Desktop `desktop.c` | buttons, file array, mutex | scan, redraw, click, close | buttons are the applications of the last scan; a click runs its own; the two threads keep apart; closing ends the program |
| FAT32, disk `fat32.c`, `fsinfo.c`, `disk_io.c` | none | one BIOS request each | - |

**Interactions.** The mouse, USB and network drivers reach the hardware only
through the port layer, which drops an access to a locked or invalid port
without an error. The mouse driver shares its state, the packet index and the
data port with its own interrupt handler. Priorities (`RT_Priority`) decide who
preempts whom. The boot loader and the ACPI driver run alone; the latter reads
what firmware and owner left in memory. The desktop starts the ELF monitor
through systemd and writes the monitor's pid file; its scan thread and its main
thread share the widgets and the array of file names.

**Hard behaviours.** Test-and-act pairs split by an interrupt (port locks, port
accesses, poll and read); leftover bytes taken for answers; a one-byte hardware
buffer; framing errors; unsigned counters that wrap; tables that move under
pointers; writes dropped silently; signals, kills and restarts around a pid
file; two threads on one widget tree and on freed memory; a join on a thread
that may hold a mutex. Each is a hazard in `PROJECT.json` with its line and the
properties that cover it, or with the reason why none does.

## 2. Modules

| Module | Models | Role |
|---|---|---|
| `IOPorts` | `io_port.c`, priorities of `rt_drivers.h` | |
| `MousePacket` | receive side of the mouse driver | used by the next two |
| `MouseFraming` | a running driver, a mouse that sends packets, a call that takes bytes of them | the framing, and how it recovers |
| `DriverLifecycle` | what `RT_Driver.state` promises | abstract specification |
| `MouseDriver` | calls, handler, controller, mouse, port locks | implements `DriverLifecycle` |
| `KernelLoader` | `boot.c` | |
| `DeviceRegistry` | what a table of devices promises | abstract specification |
| `USBDevices` | the USB driver | implements `DeviceRegistry` |
| `NetworkDevices` | the network driver | |
| `DeviceDrivers` | both, their callers interleaved, over one port range | composes the two |
| `ACPIDriver` | `acpi_driver.c`, its owner and memory | |
| `ElfScan` | `scan_directory`, `analyze_elf64` | the scan in the next one |
| `ElfMonitor` | `exe.c`, its unit, `on_button_clicked` | composes daemon, systemd and desktop button |
| `Desktop` | `desktop.c` | |
| `UserPrograms` | both, the shell command of a click between them | composes the two |
| `Selection` | the elements of a sequence that are in a set | used by `MouseFraming`, `ACPIDriver`, `Desktop` |
| `SequenceLemmas` | | lemmas on sequences, recursion and selection, for the proofs |
| `MC*` | constants for TLC | |
| `*Proofs` | theorems | |

How they correspond to the code:

* **IOPorts.** `job[c]` is the operation context `c` has tested and not yet
  performed: `LockTest`/`LockSet` are lines 48 and 52 of `IO_LockPort`,
  `AccessTest`/`Access` the test and the port instruction of the six accessors.
  `CanRun` is preemption by priority: a context runs when everyone in the middle
  of an operation has a lower priority. `IO_UnlockPort` asks nothing about the owner,
  in the code and here. Two histories: `held` is what `IO_LockPort` granted and nobody
  has unlocked since; `overtook` remembers who was granted a port in the middle of whose
  latest operation on it, so that a property can say that a double grant or a late access
  was preempted, and not only that it could have been.
* **MouseDriver.** `pc` names the place in the call, one step per port write and
  two per wait (`PollFull` sees the output buffer full, `ReadResponse` reads it);
  a poll loop is one step that succeeds or gives up (`PollTimeout`), because its
  100000 tries only bound its length. The handler preempts the calling thread
  between any two steps. Port locks appear as the effect they have on an access
  (a refused read yields 0, a refused write is dropped). External: the
  controller has one input and one output byte and raises an interrupt per byte
  it presents; the mouse acknowledges every byte it takes, answers a reset with
  the acknowledgement and 0xAA only, and is silenced by 0xA7. The code sends
  its bytes to the mouse without a 0xD4 prefix; the model lets them reach it,
  which is the favourable case. Two histories belong to the call in progress:
  `quietly` (it began with no byte under way in either direction and a mouse that was
  silent) and `wasReset` (the mouse has taken a reset since it began).
  `data.sample_rate` is written by the code and
  not declared in `MouseData`; the model has it as `sample_rate`.
* **KernelLoader.** `kernel_size` is decremented in both loops and wraps at
  `Word` (2^32). `loaded` records for each byte of the load area whence it
  came. `SECTOR_SIZE` is defined nowhere in the repository and is a constant.
* **USBDevices, NetworkDevices.** The tables are sequences (`num_devices` is
  their length); `number` tells devices apart that share an address. `reported`
  counts the callbacks. What a command or a packet says is left out; whether it
  is written at all is `delivered`, decided by `Accepted`, the test of the port
  layer against `MAX_IO_PORTS`. No interrupt handler or lock exists in these
  drivers, so an operation is one step. `DeviceDrivers` runs both side by side.
* **MouseFraming.** `Mouse_Disable_Fails` is a call whose command a port lock
  dropped, so that `Mouse_WaitAck` reads a byte of the packet on the wire in
  place of an acknowledgement. The driver stays RUNNING and has lost its place. The other way
  to lose it is a packet without a sign bit, which the driver drops byte by byte: a byte
  of its payload with bit 4 or 5 passes for the first of a packet. The properties name,
  packet by packet, where that cannot happen (`Signed`, `Quiet`); the run and the
  theorems have packets of every kind.
* **ACPIDriver.** One call is one step: nothing runs between. Memory holds the
  RSDPs of the searched range, tables (signature, length, sum of their bytes) at a
  few addresses, and the words the driver takes for entries. Those lie at the
  address *length of the root table* + i * width, as line 126 reads them, not
  behind the header. The number of entries is computed in `size_t` and cut to
  32 bits (`SizeWord`, `Word`), so it wraps below a header's length. External: the
  owner, who sets INITIALIZING and fills in `driver->rsdp` (or leaves zeroes).
  `ACPI_FindTable` and the empty power functions change nothing and are left out. The
  write past the array (`overrun`) goes over `acpi_2_0_supported` and
  `num_tables`; what follows is undefined and the model stops there.
* **ElfScan.** `frames` is the recursion, one frame per open directory; a step is
  one turn of the loop of `readdir`. Any opening may fail (`failed`). The entries
  `.` and `..`, links and devices are entries of no kind. `log` is what this scan
  appended to the log file. What a scan should reach (`Opened`) is defined without
  the recursion of the code: the least set of directories that holds the root and
  every subdirectory of a member, save what failed to open.
* **ElfMonitor.** One daemon at a time, which is what systemd guarantees for a
  unit; `pc` is its place in `main`. The pid file is opened, and thereby emptied, in one
  step and written in a later one, by the daemon (`OpenPidFile`, `WritePidFile`) and by
  the shell of a click (`EchoOpens`, `EchoWrites`), so that the two may mix: a write goes
  to the beginning of the file and covers what is there, or some of it, or fails
  (`Written`). A shell that has the file open when the daemon unlinks it writes to a file
  without a name (`shell = "unlinked"`). `unlink`, each opening and `fork` may fail. A
  click is three steps, because `systemctl --no-block` returns before the daemon runs:
  `Click`, `EchoOpens`, `EchoWrites`. Two histories: `unclean`, the daemons that ended
  without unlinking the file, and `own`, what the latest daemon has done to it. Here any
  button may be clicked at any time the shell of the last click is gone.
* **Desktop.** `main` starts the scan thread before it shows the window. The thread
  makes one step per file-system call, per button
  removed and per entry looked at; the main thread makes one per event. What the
  main thread does to widgets without running a handler (drawing, layout, the
  clock label) is left out: GTK says nothing of what happens when it collides with
  the scan thread, so the properties hold up to the first such collision. A name
  read after its array was freed is any name, or garbage. Cancellation is
  deferred: it acts in the sleep, and possibly in file-system and GTK calls, but
  not in `pthread_mutex_lock`.
* **UserPrograms.** The handler of `Desktop` and the click of `ElfMonitor` are one
  step, `RunCommand`: the name the handler reads is the one the shell echoes.
  The main thread waits in `system()` until the shell has ended (`MainGoesOn`);
  the scan thread, the daemon and systemd go on.

## 3. Runs

Passing runs, with the bounds and why they suffice:

| Run | Shows | Bounds |
|---|---|---|
| `ports_levels` | with preemption by priority, and anybody unlocking anything: two callers share a port only when one was granted it between test and set of the other, an access falls on a locked port only when the lock was granted between its test and its instruction, and the lock table is exact | 3 callers, a handler, a thread and one in the background, so that operations nest two deep; 2 ports, so that an effect on another port shows |
| `mouse_framing` | which packets the driver processes, how long it is out of step when calls take bytes or a payload passes for a first byte, that one whole packet with a quiet payload ends that; positions add up, every processed packet is reported | 5 sent packets of 5 kinds, three with quiet payloads (one sign, both, a button alone) and two without (with a sign and without), 2 bytes taken, so that losses fall in one packet, in neighbours, or apart; coordinates of 512 values so that they wrap |
| `mouse_safety` | what the answers read by the driver prove in each call, the life cycle, and that every call returns | 3 calls of any kind (so that an initialisation follows one that failed with bytes left over), 1 motion whose bytes are 0xAA and 0xFA or would be dropped, both ports locked and unlocked at any time |
| `loader` | what is entered is a prefix of the file, and the loader ends | all 24 sizes of a small word, sectors of 3 bytes, any read failing: four sectors before the wrap, several rounds after it |
| `devices` | callbacks, tables and pointers of the USB and network drivers agree; the USB table is a registry | 3 USB slots and 4 attachments, so that the table fills, empties and fills again; duplicate addresses, one past the table; 2 network slots and 3 additions |
| `acpi` | READY means a root called RSDT with the right sum, and tables that end in its intact ones; the array is not left | 288 memories: root tables of length 0, 35, 36, 44 and 52 (too short, empty, with entries of 4 and 8 bytes up to more than fit), good, bad, called RSDT or XSDT; three RSDPs of the owner; any number of loadings, an array of 3 |
| `monitor` | the pid file is always explained, and a killed daemon's pid is replaced by the next one; a scan logs what it reaches, once; a signalled daemon ends | 3 daemons, 2 clicks, 3 nested directories with files before and after a subdirectory |
| `desktop` | with the monitor running, buttons are those of the last complete update; closing ends the program | 2 directories read, of up to 2 files (none, one application and a file that is none, two applications in another order), so that lists grow, shrink and change order; 1 click, 1 daemon, whose tree is empty because `monitor` is about the scan |

Violation runs. Each checks one statement of a comment or header against the
code; `PROJECT.json` quotes the line.

| Run | The code may |
|---|---|
| `ports_double` | grant a port twice (interrupt between test and set) |
| `mouse_wedge` | run forever without reading another byte |
| `monitor_pidfile` | replace the pid that the daemon has written by the name of an application |
| `desktop_freed` | run an application by a freed name |

**Fairness.** `MouseDriver!FairSpec` asks only that the calling thread is
scheduled again and again while it is in a call (its poll loop is bounded);
nothing is asked of the mouse, the handler or lock holders. `WorkingSpec`, used
only to refute `RunningDriverReads`, adds working hardware, so that the
counterexample is no mere standstill. `KernelLoader` runs alone: weak fairness
of its step. `ElfMonitor` and `Desktop` are processes and threads of a
preemptive system: weak fairness of the daemon (its sleep ends), and in
`UserPrograms` of the scan thread and of the two last steps of `main`. No user
action is fair.

`CHECK_DEADLOCK FALSE` stands where a system may stop: bounded inputs, a halted
loader, a program that ended. The port layer never stops and is checked for
deadlock.

### Where the code departs from its comments

Met while modelling and not a run of their own.

* `boot.c:55-56` prints that the kernel was loaded and starts it, and 74 says that it is
  loaded, but 41 and 51 count every byte twice: half of the file is in memory when the
  kernel is entered (theorem `Half`), and a kernel that is no whole number of double
  sectors is never entered.
* `io_port.c:61` any caller may unlock any port.
* `mouse_driver.c:150` drops every motion without a sign bit, to the right and
  upwards, and where a payload byte of such a packet has bit 4 or 5 it takes that byte
  for the first of a packet (why `SignedPacketsAreProcessed` and `RegainsStep` ask of
  packets without a sign bit that their payload is `Quiet`).
* `mouse_driver.c:101` leaves two acknowledgements unread, and a call that fails leaves
  more, so a later call may take one for its own, a later `Mouse_Init` even the 0xAA of
  an earlier reset for that of its own, which was dropped (why `FirstCallAckFollows`
  speaks of the first call and `SelfTestFollowsReset` of a call that begins `quietly`).
  `Mouse_Init` of a running driver may end with a partial packet, because its handler
  still runs between 104 and 108 (why `InitResetsIndex` excludes that state).
* `mouse_driver.c:33` `Mouse_WaitInput` is never called: a command may be
  overwritten before the mouse has taken it. `data.sample_rate` is not declared.
* `io_port.c:52,76` an access may follow a lock taken after its test; the field
  `locked` of a configuration is never set by `IO_LockPort`, and its mode is never
  looked at.
* `usb_driver.c` admits two devices of one address and reports the address as gone
  when the first leaves (110); moves devices under the pointers it has handed out (113);
  attaches addresses it can neither find nor detach
  (71); asks for the descriptor of address `num_devices` (89); cuts the address off
  its commands (47, 133).
* `usb_driver.c:132` and `network_driver.c:111` announce that data is sent and
  return success, while every port of a transfer (0xCF8, 0xE000 and others) is past
  `MAX_IO_PORTS` = 1024, so that the port layer drops all writes (`delivered`).
* `network_driver.c:125` stores the length of a packet and overwrites it at 126.
* `acpi_driver.c:53` saves the RSDP it finds in an instance no caller can reach and
  reads that of the caller (82); 97 wants a state nothing in the repository sets;
  83 is never undone, so that an RSDP of ACPI 1.0 that comes second is read as one
  of 2.0; 111 refuses an XSDT, hence all ACPI 2.0 firmware; 121 wraps the number of
  entries of a root shorter than its header; 126 and 128 take the length for the address
  of the entries; 139 writes past `tables` when a root has more intact tables than fit,
  and adds to what a former loading left, so that lookups (151) mix two roots.
  `ReadyHoldsItsRoot` says what remains true: the root that the RSDP of a
  READY driver names has the right name and sum, and its intact tables are the last ones.
* `exe.c:125` ignores a failing `unlink`, and a killed daemon leaves its pid; the next
  daemon replaces it (`LeftoverIsReplaced`) unless it cannot open the file.
* `desktop.c:102` the mutex for thread safety is taken by the scan thread only.

## 4. Proofs

All for every value of the constants that the named `ASSUME`s admit. Every
invariant and every step property that a passing run checks is a theorem, and so
is each refinement.

* **`IOPortsProofs`.** `Typing`, `LockTable`, `NoLockIsLost`, `Sharing` and
  `LateAccess`, for any callers, priorities and ports, with anybody unlocking anything.
  `Sharing` is not inductive: the grant that makes two callers share a port comes after
  the one that was out of turn. `SharingInv` adds that a caller in the middle of an
  operation on a port someone else holds was overtaken by that one (`TestedFirst`), and
  that a held port is locked, so that no new operation passes its test and forgets it.
* **`MouseProofs`.** `Typing`; `PolledFresh`; `SelfTest` by `ResetInv`: as long as a call
  that began `quietly` has not had its reset taken, it is in its first two waits, the mouse
  is silent, nothing was polled and no byte of the mouse exists (`Untouched`), so that none
  can pass for the answer of the self test; `IndexReset`; `Refinement` of
  `DriverLifecycle`, with `CallOf` reading the abstract call off `pc`.
  `AckFollows` and `InitEnables` rest on `FirstInv`, which says for each step of
  the first call which command is on its way to the mouse, how many bytes of the
  mouse are unread (none when the next command is written), and whether it reports.
* **`MouseFramingProofs`.** `Reporting`; `Position`, with the sum of the motions as
  a recursive function and `SumAppend` for one motion more; `Processing` and
  `Resynchronization`, for any packets and any bytes taken. `WireInv`: the bytes still to
  come are the last ones of the packet being sent. `InStepInv`: wherever the driver stood,
  a whole packet with a quiet payload has it back at a first byte by the end. `WholeInv`:
  a whole packet that begins in step is assembled byte by byte when it has a sign bit and
  dropped byte by byte when it has none and is quiet. `KeptInv`: while nothing is taken and
  the packets without a sign bit are quiet, what was processed is the signed packets sent
  before.
* **`KernelLoaderProofs`.** `Typing`; `Half` (`OnlyHalf`: what is entered is half of
  its file) by an invariant that relates `kernel_size`, `i` and the bytes loaded so far
  to the size of the file; `Prefix`
  by `PrefixInv`: every byte loaded so far is in its place. The
  assumption is that 2^32 is a multiple of two sectors, true of every sector size
  that is a power of two.
* **`DeviceProofs`.** `Typing`; `Reports` (`ReportsCount`: what was reported of an
  address is the number of its entries); `Pointers`, because numbers grow along
  the table (`NumbersGrow`), so that the entry found is the oldest of its address
  and moves only when an entry before it goes; `NetworkPointers`; `USBRegistry`,
  the refinement of `DeviceRegistry`.
* **`ACPIProofs`.** `Typing` (the table of tables is never longer than its array) and
  `HeldRoot`, in every memory: `ReadyInv` adds that a READY driver has noted already
  whether its RSDP is one of ACPI 2.0 (`NotedTwo`), so that another `ACPI_Init`, which
  fails, does not make it look at another root.
* **`UserProgramsProofs`.** *Monitor:* `Typing`, with `ScanTypeOK` for the recursion
  and with `Numbered` (before the first daemon there is none). `Explained`: the
  pid file is explained because systemd starts a daemon only when the former one
  is gone (`StartsAlone`), so that a pid in the file can change from live to
  `unclean` or be unlinked, and never to unexplained; a click writes names only
  (`ClicksWriteNames`). `Leftover`: once the daemon has opened the file, whoever writes
  adds its pid or names (`OpensBefore`: it writes only a file it has opened).
  `ScanIsWhole` for any tree: `Walk(V)` says that V are the
  directories opened so far, that the entries of each were met up to where its
  `readdir` is (`Entered`), that nothing else was met (`Known`), and that each was
  come to from the root (`Connected`). When no frame is left, V is closed under
  opening by the first and least by the last, hence `Opened`. *Desktop:*
  `DesktopTyping` and `DesktopButtons` by `DesktopInv`: the mutex is held exactly
  during an update (`MutexHeld`), in which the buttons are those of the files
  looked at so far (`ButtonsSoFar`). *Both:* `UserImplementsBoth`, that each
  program, run with the other, still does what it may do alone, so that the
  theorems of either hold of the two (`UserTyping`, `UserButtons`, `UserPidFile`).
* **`SequenceLemmas`.** What the others share: the least number of a set, the
  removal of an element, suffixes, and the selection by a set.

**Recursion and induction.** The library's induction theorems take an operator and
cannot be used, so `SequenceLemmas` states induction over a set of numbers
(`Induction`, from `LeastNumber`) and that a recursion over 0..N has a solution
(`Recursion`). Definitions the proofs are about are therefore recursive functions
or least sets, not RECURSIVE operators, folds or `SelectSeq`, whose test is an
operator (`Selection` takes a set).

Only model-checked: liveness (`CallsReturn`, `LoaderEnds`, `SignalledDaemonEnds`,
`DesktopEnds`), which is beyond the prover.

## 5. Not modelled

* Registration, interrupt, DMA and time functions of `rt_drivers.h`: declared,
  never defined.
* `fat32.c`, `fsinfo.c`, `disk_io.c`: one BIOS call each, no state. That boot.c
  uses a cluster number as a sector number cannot be stated without the layout of
  the disk, which the code does not contain.
* Screen output, the system log, window layout and positions, the clock, power states
  (`ACPI_SetPowerState` is empty), the values a
  port access moves in `IOPorts`, packet payloads, USB descriptors.

## 6. Plan

Order followed: port layer, mouse driver, boot loader (these hold the interrupts,
locks and arithmetic everything else rests on), the tables of the USB and network
drivers, the two user programs, then the ACPI driver, the scan of the monitor, the loss of
bytes in the mouse driver, the theorems, and the two user programs together. Next:

1. `DriverStack`: `MouseDriver` over `IOPorts` instead of over a lock flag, with
   two drivers on one port, as a refinement: what the flag may do is what another
   driver's locks may do. It multiplies two state spaces that are large already,
   and is better proved than run.
2. Theorems about single calls: what `Mouse_Init` of a running driver may leave of
   a packet, and how long the handler is out of step after it.
