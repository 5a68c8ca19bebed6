---------------------------- MODULE MouseDriver -----------------------------
(***************************************************************************)
(* The PS/2 mouse driver (mouse_driver.c) with the controller and the      *)
(* mouse it talks to.  Three parties share the data port: a thread that    *)
(* calls the functions of the driver, the interrupt handler, and the       *)
(* hardware.  The thread makes one step per port access or assignment to   *)
(* the driver; the handler runs to completion between two such steps.      *)
(*                                                                         *)
(* A poll loop of 100000 status reads is one step: it ends with success    *)
(* when a read shows a full output buffer, and it may end with a timeout   *)
(* when a read does not.  Port accesses honour the lock flags of IOPorts,  *)
(* which other components may set; IOPorts models the race in that test.   *)
(*                                                                         *)
(* The hardware is not in the repository and is modelled by how the driver *)
(* uses it: every byte the mouse takes is acknowledged with 0xFA, a reset  *)
(* is followed by 0xAA, 0xA7 silences the mouse, and the sample rate       *)
(* command is followed by its value.                                       *)
(***************************************************************************)
EXTENDS MousePacket

CONSTANTS
  Packets,         \* the motion packets the mouse may send
  Rates,           \* the sample rates callers ask for
  LockablePorts,   \* the mouse ports other components may lock
  MaxCalls,        \* bound: how many calls the thread makes
  MaxMotions       \* bound: how many packets the mouse sends

DATA == 96         \* MOUSE_DATA_REGISTER, 0x60
STATUS == 100      \* MOUSE_STATUS_REGISTER and MOUSE_COMMAND_REGISTER, 0x64
ACK == 250
SELF_TEST_OK == 170
AUX_DISABLE == 167
MOUSE_CMD_RESET == 255
MOUSE_CMD_ENABLE == 244
MOUSE_CMD_DISABLE == 245
MOUSE_CMD_SET_SAMPLE_RATE == 243
DEFAULT_RATE == 100
MouseCommands == {MOUSE_CMD_RESET, MOUSE_CMD_ENABLE, MOUSE_CMD_DISABLE,
                  MOUSE_CMD_SET_SAMPLE_RATE}

ASSUME MouseAssumption ==
  /\ Packets \subseteq Packet
  /\ Rates \subseteq Byte
  /\ LockablePorts \subseteq {DATA, STATUS}
  /\ MaxCalls \in Nat
  /\ MaxMotions \in Nat

VARIABLES
  state,           \* driver->base.state
  sample_rate,     \* driver->data.sample_rate
  rate,            \* the argument of the last Mouse_SetSampleRate
  pc,              \* where the calling thread is, "idle" between calls
  polled,          \* the thread has seen the output buffer full, not yet read
  calls,           \* how many calls were made
  port_locks,      \* the lock flags of the two ports
  ibf,             \* input buffer of the controller: <<>> or <<port, byte>>
  obf,             \* output buffer: its last byte, and whether it is unread
  devq,            \* bytes the mouse has sent that wait for the output buffer
  irq,             \* the interrupt of the unread byte is pending
  reporting,       \* the mouse sends a packet when it is moved
  parameter,       \* the mouse expects the value of a sample rate command
  quietly,         \* history: the last call began with nothing left over
  wasReset,        \* history: the mouse took a reset command in the last call
  motions          \* how many packets the mouse sent

driverVars == <<state, sample_rate, packetVars>>
threadVars == <<pc, polled, calls, rate>>
mouseVars == <<devq, reporting, parameter, motions>>
historyVars == <<quietly, wasReset>>
vars == <<driverVars, threadVars, port_locks, ibf, obf, irq, mouseVars, historyVars>>

\* The steps at which the thread waits for a response.
Waiting == {"init_reset_ack", "init_self_test", "init_enable_ack",
            "enable_ack", "disable_ack", "rate_ack"}
Steps == Waiting \union
  {"idle", "init_reset", "init_enable", "init_rate", "init_rate_value",
   "init_index", "init_ready", "enable_running", "disable_ready",
   "rate_value", "rate_done"}

DriverTypeOK ==
  /\ PacketTypeOK
  /\ state \in {"UNINITIALIZED", "READY", "RUNNING"}
  /\ sample_rate \in Rates \union {0}
ThreadTypeOK ==
  /\ pc \in Steps
  /\ polled \in BOOLEAN /\ (polled => pc \in Waiting)
  /\ calls \in 0..MaxCalls
  /\ rate \in Rates \union {0}
ControllerTypeOK ==
  /\ port_locks \in [{DATA, STATUS} -> BOOLEAN]
  /\ ibf = <<>> \/ ibf \in {DATA, STATUS} \X Byte
  /\ obf \in [full : BOOLEAN, byte : Byte]
  /\ irq \in BOOLEAN /\ (irq => obf.full)
MouseTypeOK ==
  /\ devq \in Seq(Byte)
  /\ reporting \in BOOLEAN /\ parameter \in BOOLEAN
  /\ motions \in 0..MaxMotions
HistoryTypeOK == quietly \in BOOLEAN /\ wasReset \in BOOLEAN
TypeOK ==
  DriverTypeOK /\ ThreadTypeOK /\ ControllerTypeOK /\ MouseTypeOK /\ HistoryTypeOK

Init ==
  /\ PacketInit
  /\ state = "UNINITIALIZED" /\ sample_rate = 0 /\ rate = 0
  /\ pc = "idle" /\ polled = FALSE /\ calls = 0
  /\ port_locks = [p \in {DATA, STATUS} |-> FALSE]
  /\ ibf = <<>> /\ obf = [full |-> FALSE, byte |-> 0]
  /\ devq = <<>> /\ irq = FALSE
  /\ reporting = FALSE /\ parameter = FALSE
  /\ motions = 0
  /\ quietly = FALSE /\ wasReset = FALSE

-----------------------------------------------------------------------------
(* Port accesses.  A refused write is dropped, a refused read yields 0.    *)

\* IO_Out8.  Nothing waits for the input buffer to be empty: a byte the
\* mouse has not taken yet is overwritten.
Out8(port, byte) ==
  ibf' = IF port_locks[port] THEN ibf ELSE <<port, byte>>

\* IO_In8 of the data port, and what it leaves of the output buffer.
DataByte == IF port_locks[DATA] THEN 0 ELSE obf.byte
ReadData ==
  IF port_locks[DATA]
  THEN UNCHANGED <<obf, irq>>
  ELSE obf' = [obf EXCEPT !.full = FALSE] /\ irq' = FALSE

\* STATUS_OUTPUT_FULL as IO_In8 of the status port shows it.
OutputFull == ~port_locks[STATUS] /\ obf.full

-----------------------------------------------------------------------------
(* The functions of the driver.  A call whose guard fails returns          *)
(* RT_ERROR_INVALID_PARAMETER and changes nothing.                         *)

\* The thread goes from one step of a call to the next.
Goto(from, to) ==
  /\ pc = from
  /\ pc' = to
  /\ UNCHANGED <<polled, calls, rate, historyVars>>

\* Nothing is left over from earlier calls: no byte is under way in either
\* direction, and the mouse is silent and waits for a command.
Quiet == ibf = <<>> /\ devq = <<>> /\ ~obf.full /\ ~reporting /\ ~parameter

\* The thread enters a function and goes to the step after its first write.
Enter(next, argument) ==
  /\ pc = "idle"
  /\ calls < MaxCalls
  /\ calls' = calls + 1
  /\ pc' = next
  /\ rate' = argument
  /\ quietly' = Quiet /\ wasReset' = FALSE
  /\ UNCHANGED polled

\* A step of the thread that writes one byte to a port.
Write(port, byte) ==
  /\ Out8(port, byte)
  /\ UNCHANGED <<driverVars, port_locks, obf, irq, mouseVars>>

\* A step of the thread that touches the driver and no port.
Local == UNCHANGED <<packet, data, processed, reports,
                     port_locks, ibf, obf, irq, mouseVars>>

\* What each wait expects, and where the call continues when it gets it.
Expected(step) == IF step = "init_self_test" THEN SELF_TEST_OK ELSE ACK

\* Mutant: the initialisation leaves the mouse disabled.
AfterResponse_NoEnable ==
  [init_reset_ack |-> "init_self_test", init_self_test |-> "init_rate",
   init_enable_ack |-> "init_rate", enable_ack |-> "enable_running",
   disable_ack |-> "disable_ready", rate_ack |-> "rate_done"]
AfterResponse ==
  [init_reset_ack |-> "init_self_test", init_self_test |-> "init_enable",
   init_enable_ack |-> "init_rate", enable_ack |-> "enable_running",
   disable_ack |-> "disable_ready", rate_ack |-> "rate_done"]

\* Mouse_WaitOutput.
PollFull ==
  /\ pc \in Waiting /\ ~polled
  /\ OutputFull
  /\ polled' = TRUE
  /\ UNCHANGED <<driverVars, pc, calls, rate, port_locks, ibf, obf, irq,
                 mouseVars, historyVars>>

\* Mutant: the poll loop has no bound.
PollTimeout_Forever == FALSE
\* Mutant: a poll that gave up passes for an answer.
PollTimeout_Ignored ==
  /\ pc \in Waiting /\ ~polled
  /\ ~OutputFull
  /\ pc' = AfterResponse[pc]
  /\ UNCHANGED <<driverVars, polled, calls, rate, port_locks, ibf, obf, irq,
                 mouseVars, historyVars>>
PollTimeout ==
  /\ pc \in Waiting /\ ~polled
  /\ ~OutputFull
  /\ pc' = "idle"
  /\ UNCHANGED <<driverVars, polled, calls, rate, port_locks, ibf, obf, irq,
                 mouseVars, historyVars>>

\* Mutant: a byte that was read still counts as seen.
ReadResponse_KeepsPolled ==
  /\ pc \in Waiting /\ polled
  /\ ReadData
  /\ pc' = IF DataByte = Expected(pc) THEN AfterResponse[pc] ELSE "idle"
  /\ UNCHANGED <<driverVars, polled, calls, rate, port_locks, ibf,
                 mouseVars, historyVars>>

\* The read after the poll; any other byte ends the call with
\* RT_ERROR_HARDWARE_FAULT.
ReadResponse ==
  /\ pc \in Waiting /\ polled
  /\ polled' = FALSE
  /\ ReadData
  /\ pc' = IF DataByte = Expected(pc) THEN AfterResponse[pc] ELSE "idle"
  /\ UNCHANGED <<driverVars, calls, rate, port_locks, ibf, mouseVars, historyVars>>

\* Mouse_Init has no guard: it may be called in every state.
InitDisable == Enter("init_reset", rate) /\ Write(STATUS, AUX_DISABLE)
InitReset == Goto("init_reset", "init_reset_ack") /\ Write(DATA, MOUSE_CMD_RESET)
InitEnable == Goto("init_enable", "init_enable_ack") /\ Write(DATA, MOUSE_CMD_ENABLE)
InitRate == Goto("init_rate", "init_rate_value") /\ Write(DATA, MOUSE_CMD_SET_SAMPLE_RATE)
InitRateValue == Goto("init_rate_value", "init_index") /\ Write(DATA, DEFAULT_RATE)
InitIndex ==
  /\ Goto("init_index", "init_ready")
  /\ packet_index' = 0
  /\ Local /\ UNCHANGED <<state, sample_rate>>
InitReady ==
  /\ Goto("init_ready", "idle")
  /\ state' = "READY"
  /\ Local /\ UNCHANGED <<packet_index, sample_rate>>

\* Mutant: enabling asks nothing about the state.
Mouse_Enable_Unguarded == Enter("enable_ack", rate) /\ Write(DATA, MOUSE_CMD_ENABLE)
Mouse_Enable ==
  /\ state = "READY"
  /\ Enter("enable_ack", rate) /\ Write(DATA, MOUSE_CMD_ENABLE)
EnableRunning ==
  /\ Goto("enable_running", "idle")
  /\ state' = "RUNNING"
  /\ Local /\ UNCHANGED <<packet_index, sample_rate>>

Mouse_Disable ==
  /\ state = "RUNNING"
  /\ Enter("disable_ack", rate) /\ Write(DATA, MOUSE_CMD_DISABLE)
DisableReady ==
  /\ Goto("disable_ready", "idle")
  /\ state' = "READY"
  /\ Local /\ UNCHANGED <<packet_index, sample_rate>>

Mouse_SetSampleRate(r) ==
  /\ state = "READY"
  /\ Enter("rate_value", r) /\ Write(DATA, MOUSE_CMD_SET_SAMPLE_RATE)
RateValue == Goto("rate_value", "rate_ack") /\ Write(DATA, rate)
RateDone ==
  /\ Goto("rate_done", "idle")
  /\ sample_rate' = rate
  /\ Local /\ UNCHANGED <<state, packet_index>>

\* The thread in the middle of a call, and the calls it may start.
Thread ==
  \/ PollFull \/ PollTimeout \/ ReadResponse
  \/ InitReset \/ InitEnable \/ InitRate \/ InitRateValue
  \/ InitIndex \/ InitReady \/ EnableRunning \/ DisableReady
  \/ RateValue \/ RateDone

Call ==
  \/ InitDisable \/ Mouse_Enable \/ Mouse_Disable
  \/ \E r \in Rates : Mouse_SetSampleRate(r)

-----------------------------------------------------------------------------
(* The interrupt handler.  It answers the interrupt without reading the    *)
(* byte unless the driver is running.                                      *)

\* Mutant: the handler takes the byte in every state.
Mouse_InterruptHandler_Reads ==
  /\ irq /\ irq' = FALSE
  /\ Receive(DataByte)
  /\ obf' = IF port_locks[DATA] THEN obf ELSE [obf EXCEPT !.full = FALSE]
  /\ UNCHANGED <<state, sample_rate, threadVars, port_locks, ibf,
                 mouseVars, historyVars>>

Mouse_InterruptHandler ==
  /\ irq /\ irq' = FALSE
  /\ \/ /\ state # "RUNNING"
        /\ UNCHANGED <<packetVars, obf>>
     \/ /\ state = "RUNNING"
        /\ Receive(DataByte)
        /\ obf' = IF port_locks[DATA] THEN obf ELSE [obf EXCEPT !.full = FALSE]
  /\ UNCHANGED <<state, sample_rate, threadVars, port_locks, ibf,
                 mouseVars, historyVars>>

-----------------------------------------------------------------------------
(* The hardware, and the components that lock its ports.                   *)

\* The controller puts the next byte in the output buffer and raises the
\* interrupt, once the previous byte has been read.
Present ==
  /\ ~obf.full
  /\ devq # <<>>
  /\ obf' = [full |-> TRUE, byte |-> Head(devq)]
  /\ irq' = TRUE
  /\ devq' = Tail(devq)
  /\ UNCHANGED <<driverVars, threadVars, port_locks, ibf,
                 reporting, parameter, motions, historyVars>>

Reply(bytes) == devq' = devq \o bytes

\* The mouse takes the byte of the input buffer.
MouseTakes ==
  /\ ibf # <<>>
  /\ ibf' = <<>>
  /\ LET port == ibf[1]
         byte == ibf[2]
     IN \/ /\ port = STATUS
           /\ reporting' = FALSE
           /\ UNCHANGED <<devq, parameter, wasReset>>
        \/ /\ port = DATA /\ (parameter \/ byte = MOUSE_CMD_SET_SAMPLE_RATE)
           /\ parameter' = ~parameter
           /\ Reply(<<ACK>>)
           /\ UNCHANGED <<reporting, wasReset>>
        \/ /\ port = DATA /\ ~parameter /\ byte = MOUSE_CMD_RESET
           /\ reporting' = FALSE /\ wasReset' = TRUE
           /\ Reply(<<ACK, SELF_TEST_OK>>)
           /\ UNCHANGED parameter
        \/ /\ port = DATA /\ ~parameter
           /\ byte \in {MOUSE_CMD_ENABLE, MOUSE_CMD_DISABLE}
           /\ reporting' = (byte = MOUSE_CMD_ENABLE)
           /\ Reply(<<ACK>>)
           /\ UNCHANGED <<parameter, wasReset>>
        \/ /\ port = DATA /\ ~parameter /\ byte \notin MouseCommands
           /\ Reply(<<ACK>>)
           /\ UNCHANGED <<reporting, parameter, wasReset>>
  /\ UNCHANGED <<driverVars, threadVars, port_locks, obf, irq, motions, quietly>>

\* The mouse is moved.
MouseMoves(p) ==
  /\ reporting
  /\ motions < MaxMotions
  /\ motions' = motions + 1
  /\ Reply(<<p[0], p[1], p[2]>>)
  /\ UNCHANGED <<driverVars, threadVars, port_locks, ibf, obf, irq,
                 reporting, parameter, historyVars>>

\* Another component calls IO_LockPort or IO_UnlockPort.
SetLock(port) ==
  /\ port_locks' = [port_locks EXCEPT ![port] = ~@]
  /\ UNCHANGED <<driverVars, threadVars, ibf, obf, irq, mouseVars, historyVars>>

Hardware == Present \/ MouseTakes

Environment ==
  \/ \E p \in Packets : MouseMoves(p)
  \/ \E port \in LockablePorts : SetLock(port)

Next == Thread \/ Call \/ Mouse_InterruptHandler \/ Hardware \/ Environment

Spec == Init /\ [][Next]_vars

\* The calling thread gets the processor again and again; nothing makes it
\* start a call, makes the mouse move or answer, or makes a lock go away.
FairSpec == Spec /\ WF_vars(Thread)

\* Besides, the hardware works and interrupts are delivered.
WorkingSpec ==
  FairSpec /\ WF_vars(Present) /\ WF_vars(MouseTakes)
           /\ WF_vars(Mouse_InterruptHandler)

-----------------------------------------------------------------------------
(* Properties.                                                             *)

\* A call that waits for the mouse returns, whether the mouse answers, the
\* handler takes the answer first, or a port is locked.
CallsReturn == pc # "idle" ~> pc = "idle"

\* A Mouse_Init that begins with nothing left over passes its self test only
\* if the mouse took a reset in that very call: whatever was lost, refused or
\* late, nothing else makes up the two answers.  (A call that finds bytes of
\* an earlier one can take those for them.)
PastSelfTest == {"init_enable", "init_enable_ack", "init_rate",
                 "init_rate_value", "init_index", "init_ready"}
SelfTestFollowsReset == quietly /\ pc \in PastSelfTest => wasReset

\* Between the poll that sees a byte and the read that fetches it, only the
\* handler of a running driver can take the byte away.
PolledByteIsFresh == polled /\ state # "RUNNING" => obf.full

\* After its first initialisation the driver is READY, where the handler
\* reads no byte, while the mouse already reports motions.
FirstInitEnables == calls = 1 /\ state = "READY" => reporting

\* In the first call, an acknowledgement is that of the command just
\* written: the mouse has taken it.
AfterAck == {"init_self_test", "init_enable", "init_rate",
             "enable_running", "disable_ready", "rate_done"}
FirstCallAckFollows == calls = 1 /\ pc \in AfterAck => ibf = <<>>

\* The lifecycle of rt_drivers.h, with the calls of this driver.
MouseOps == {"Init", "Enable", "Disable", "SetSampleRate"}
CallOf ==
  CASE pc = "idle" -> {}
    [] pc \in {"enable_ack", "enable_running"} -> {"Enable"}
    [] pc \in {"disable_ack", "disable_ready"} -> {"Disable"}
    [] pc \in {"rate_value", "rate_ack", "rate_done"} -> {"SetSampleRate"}
    [] OTHER -> {"Init"}
MouseStates == {"UNINITIALIZED", "READY", "RUNNING"}
MouseNeeds ==
  [Init |-> MouseStates, Enable |-> {"READY"}, Disable |-> {"RUNNING"},
   SetSampleRate |-> {"READY"}]
MouseAnnounces ==
  [Init |-> {"READY"}, Enable |-> {"RUNNING"}, Disable |-> {"READY"},
   SetSampleRate |-> {"READY"}]
Lifecycle == INSTANCE DriverLifecycle
  WITH States <- MouseStates, First <- "UNINITIALIZED", call <- CallOf,
       Operations <- MouseOps, Needs <- MouseNeeds, Announces <- MouseAnnounces
ImplementsLifecycle == Lifecycle!Spec

\* A Mouse_Init that finds the driver not running leaves no byte of an
\* unfinished packet: no handler comes between the reset of the index and
\* the change of state.
InitResetsIndex == pc = "init_ready" /\ state # "RUNNING" => packet_index = 0

\* mouse_driver.h:44 ("Surekli veri gonderimi", data is sent all the time):
\* a running driver keeps taking the bytes of the mouse.
RunningDriverReads ==
  state = "RUNNING" /\ obf.full ~> ~obf.full \/ state # "RUNNING"
=============================================================================
