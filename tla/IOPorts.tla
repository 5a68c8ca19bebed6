------------------------------ MODULE IOPorts -------------------------------
(***************************************************************************)
(* The port layer every driver goes through (drivers/common/io_port.c):    *)
(* the lock table, the configuration table and the guarded port accesses.  *)
(*                                                                         *)
(* io_port.c disables no interrupt and takes no lock of its own, so an     *)
(* operation that tests the table and then acts on the answer is two steps *)
(* between which another context can run.  The scheduler is not part of    *)
(* the repository; RT_Priority (rt_drivers.h) orders the contexts, and a   *)
(* context runs in the middle of another one's operation only when it has  *)
(* a strictly higher priority, that is, a smaller number.                  *)
(*                                                                         *)
(* IO_In8/16/32 and IO_Out8/16/32 differ in the width only, which no guard *)
(* looks at; they are one operation with a direction.  A refused operation *)
(* (invalid port, port locked) changes nothing and is a stuttering step.   *)
(***************************************************************************)
EXTENDS Integers

CONSTANTS
  Callers,           \* the contexts that use ports: threads, interrupt handlers
  Priority,          \* Priority[c]: RT_Priority of context c, 0 is the highest
  MAX_IO_PORTS,      \* ports 0 .. MAX_IO_PORTS - 1 are valid
  IO_PortMode,       \* values of the enumeration of that name
  IO_PortAccessType, \* values of the enumeration of that name
  ZeroMode,          \* the values a zero-initialised configuration holds
  ZeroAccessType

ASSUME PortsAssumption ==
  /\ MAX_IO_PORTS \in Nat \ {0}
  /\ Priority \in [Callers -> 0..5]
  /\ ZeroMode \in IO_PortMode
  /\ ZeroAccessType \in IO_PortAccessType

VARIABLES
  port_locks,      \* port_locks[p]: the lock flag of port p
  port_configs,    \* port_configs[p]: the stored configuration of port p
  job,             \* job[c]: the operation c has tested and not yet performed
  held,            \* history: held[c] are the ports IO_LockPort granted to c
                   \* and nobody has unlocked since
  overtook         \* history: <<d, c, p>> when d was granted p in the middle
                   \* of c's latest operation on p

vars == <<port_locks, port_configs, job, held, overtook>>

\* One number past the table stands for every invalid port.
RT_IOPort == 0..MAX_IO_PORTS
Ports == 0..(MAX_IO_PORTS - 1)

IO_PortConfig ==
  [mode : IO_PortMode, access_type : IO_PortAccessType, locked : BOOLEAN]

Idle == [kind |-> "idle", port |-> 0]
Job == [kind : {"idle", "lock", "in", "out"}, port : RT_IOPort]
Accessing(c) == job[c].kind \in {"in", "out"}

TypeOK ==
  /\ port_locks \in [Ports -> BOOLEAN]
  /\ port_configs \in [Ports -> IO_PortConfig]
  /\ job \in [Callers -> Job]
  /\ \A c \in Callers : job[c] # Idle => job[c].port \in Ports
  /\ held \in [Callers -> SUBSET Ports]
  /\ overtook \subseteq Callers \X Callers \X Ports

Init ==
  /\ port_locks = [p \in Ports |-> FALSE]
  /\ port_configs = [p \in Ports |->
       [mode |-> ZeroMode, access_type |-> ZeroAccessType, locked |-> FALSE]]
  /\ job = [c \in Callers |-> Idle]
  /\ held = [c \in Callers |-> {}]
  /\ overtook = {}

-----------------------------------------------------------------------------
(* Guards of the code.                                                     *)

IO_IsValidPort(port) == port < MAX_IO_PORTS

\* Mutant: an invalid port counts as unlocked.
IO_IsPortLocked_AnyPort(port) ==
  IF IO_IsValidPort(port) THEN port_locks[port] ELSE FALSE
\* Mutant: only the validity of the port is tested.
IO_IsPortLocked_NoTest(port) == ~IO_IsValidPort(port)
IO_IsPortLocked(port) == ~IO_IsValidPort(port) \/ port_locks[port]

\* c has the processor: whoever is in the middle of an operation has a
\* strictly lower priority than c.
CanRun(c) ==
  \A d \in Callers \ {c} : job[d] # Idle => Priority[c] < Priority[d]

\* c calls a function of io_port.c.
Calls(c) == job[c] = Idle /\ CanRun(c)

\* c tests port: nobody has overtaken this operation yet.
Begins(c, kind, port) ==
  /\ job' = [job EXCEPT ![c] = [kind |-> kind, port |-> port]]
  /\ overtook' = overtook \ (Callers \X {c} \X {port})

\* c is told that it has port; the operations on it that are pending then
\* were overtaken.
Granted(c, port) ==
  /\ held' = [held EXCEPT ![c] = @ \union {port}]
  /\ job' = [job EXCEPT ![c] = Idle]
  /\ overtook' = overtook \union
       {<<c, d, port>> : d \in {e \in Callers \ {c} :
                                  job[e] # Idle /\ job[e].port = port}}

-----------------------------------------------------------------------------
(* Locking: IO_LockPort tests the flag, then sets it.                      *)

\* Mutant: a port is locked without looking at its flag.
LockTest_NoTest(c, port) ==
  /\ Calls(c)
  /\ IO_IsValidPort(port)
  /\ Begins(c, "lock", port)
  /\ UNCHANGED <<port_locks, port_configs, held>>

LockTest(c, port) ==
  /\ Calls(c)
  /\ IO_IsValidPort(port)
  /\ ~port_locks[port]
  /\ Begins(c, "lock", port)
  /\ UNCHANGED <<port_locks, port_configs, held>>

\* Mutant: the caller is told it has the port and the flag is not set.
LockSet_Forgotten(c) ==
  /\ job[c].kind = "lock" /\ CanRun(c)
  /\ Granted(c, job[c].port)
  /\ UNCHANGED <<port_locks, port_configs>>

LockSet(c) ==
  /\ job[c].kind = "lock" /\ CanRun(c)
  /\ port_locks' = [port_locks EXCEPT ![job[c].port] = TRUE]
  /\ Granted(c, job[c].port)
  /\ UNCHANGED port_configs

\* IO_UnlockPort asks nothing about who holds the port: any caller opens it.
IO_UnlockPort(c, port) ==
  /\ Calls(c)
  /\ IO_IsValidPort(port)
  /\ port_locks' = [port_locks EXCEPT ![port] = FALSE]
  /\ held' = [d \in Callers |-> held[d] \ {port}]
  /\ UNCHANGED <<port_configs, job, overtook>>

-----------------------------------------------------------------------------
(* IO_In8 .. IO_Out32: test the lock, then execute the port instruction.   *)

AccessTest(c, port, direction) ==
  /\ Calls(c)
  /\ ~IO_IsPortLocked(port)
  /\ Begins(c, direction, port)
  /\ UNCHANGED <<port_locks, port_configs, held>>

Access(c) ==
  /\ Accessing(c) /\ CanRun(c)
  /\ job' = [job EXCEPT ![c] = Idle]
  /\ UNCHANGED <<port_locks, port_configs, held, overtook>>

-----------------------------------------------------------------------------
(* The configuration table.  Nothing in io_port.c reads it back.           *)

\* Mutant: the lock flag is set from the configuration, too.
IO_InitPort_Unlocks(c, port, config) ==
  /\ Calls(c)
  /\ IO_IsValidPort(port)
  /\ port_configs' = [port_configs EXCEPT ![port] = config]
  /\ port_locks' = [port_locks EXCEPT ![port] = config.locked]
  /\ UNCHANGED <<job, held, overtook>>

\* A write through the pointer of IO_GetPortConfig has the same effect.
IO_InitPort(c, port, config) ==
  /\ Calls(c)
  /\ IO_IsValidPort(port)
  /\ port_configs' = [port_configs EXCEPT ![port] = config]
  /\ UNCHANGED <<port_locks, job, held, overtook>>

IO_SetPortMode(c, port, mode) ==
  /\ Calls(c)
  /\ IO_IsValidPort(port)
  /\ port_configs' = [port_configs EXCEPT ![port].mode = mode]
  /\ UNCHANGED <<port_locks, job, held, overtook>>

IO_SetPortAccessType(c, port, access_type) ==
  /\ Calls(c)
  /\ IO_IsValidPort(port)
  /\ port_configs' = [port_configs EXCEPT ![port].access_type = access_type]
  /\ UNCHANGED <<port_locks, job, held, overtook>>

-----------------------------------------------------------------------------
Next ==
  \E c \in Callers :
    \/ LockSet(c)
    \/ Access(c)
    \/ \E port \in RT_IOPort :
         \/ LockTest(c, port)
         \/ IO_UnlockPort(c, port)
         \/ \E direction \in {"in", "out"} : AccessTest(c, port, direction)
         \/ \E config \in IO_PortConfig : IO_InitPort(c, port, config)
         \/ \E mode \in IO_PortMode : IO_SetPortMode(c, port, mode)
         \/ \E type \in IO_PortAccessType : IO_SetPortAccessType(c, port, type)

Spec == Init /\ [][Next]_vars

-----------------------------------------------------------------------------
(* Properties.                                                             *)

\* d, of a higher priority than c, was granted p in the middle of c's latest
\* operation on p.
Overtook(d, c, p) ==
  <<d, c, p>> \in overtook /\ Priority[d] < Priority[c]

\* IO_LockPort never grants a port to two callers at a time.  It does, when
\* a handler locks the port between the test and the set of a thread.
MutualExclusion ==
  \A c, d \in Callers : c # d => held[c] \intersect held[d] = {}

\* That is the only way: when two callers have been granted one port, one of
\* them was granted it while the other one, of a lower priority, stood
\* between the test and the set of its own IO_LockPort.
SharedIsOvertaken ==
  \A c, d \in Callers : c # d =>
    \A p \in held[c] \intersect held[d] : Overtook(c, d, p) \/ Overtook(d, c, p)

\* A caller that was granted a port finds it locked until someone calls
\* IO_UnlockPort: a write to the configuration table, which has a lock flag
\* of its own, does not open it, and neither does another caller's locking.
HeldStaysLocked ==
  \A c \in Callers : \A p \in held[c] : port_locks[p]

\* No lock is lost: a locked port was granted to a caller, which can unlock
\* it.
LockedIsHeld ==
  \A p \in Ports : port_locks[p] => \E c \in Callers : p \in held[c]

\* When a port instruction is about to be executed on a locked port, the port
\* was granted, between the test of this very access and its instruction, to
\* a context of a higher priority that still has it.
LateAccessIsPreempted ==
  \A c \in Callers :
    (Accessing(c) /\ port_locks[job[c].port])
      => \E d \in Callers : job[c].port \in held[d] /\ Overtook(d, c, job[c].port)
=============================================================================
