---------------------------- MODULE MouseProofs -----------------------------
(***************************************************************************)
(* Proofs about the mouse driver, for every set of packets, rates and      *)
(* lockable ports, every number of calls and motions, and every width of   *)
(* a coordinate.                                                           *)
(***************************************************************************)
EXTENDS MouseDriver, TLAPS

-----------------------------------------------------------------------------
(* The packet.                                                             *)

\* An assignment to a coordinate stays within its width.
LEMMA WrapType == ASSUME NEW v \in Int PROVE Wrap(v) \in Coordinate
<1> DEFINE h == CoordinateSpan \div 2
<1>1. h \in Nat /\ CoordinateSpan = 2 * h /\ h > 0
  BY PacketAssumption
<1>2. \A w \in Int, n \in Nat : n > 0 => w % n \in 0..(n - 1)
  OBVIOUS
<1>3. (v + h) % CoordinateSpan \in 0..(CoordinateSpan - 1)
  BY <1>1, <1>2
<1> QED
  BY <1>1, <1>3 DEF Wrap, Coordinate

\* A byte taken by the running handler keeps the types of the driver.
LEMMA ReceiveType ==
  ASSUME PacketTypeOK, NEW byte \in Byte, Receive(byte)
  PROVE  PacketTypeOK'
<1> DEFINE stored == [packet EXCEPT ![packet_index] = byte]
<1>1. stored \in Packet
  BY DEF PacketTypeOK, Packet, MOUSE_PACKET_SIZE
<1>2. \A p \in Packet : DeltaX(p) \in Int /\ DeltaY(p) \in Int
                          /\ Buttons(p[0]) \in 0..7
  BY DEF Packet, MOUSE_PACKET_SIZE, Byte, DeltaX, DeltaY, Buttons
<1>3. \A c \in Coordinate : c \in Int
  BY PacketAssumption DEF Coordinate
<1>4. ASSUME NEW p \in Packet PROVE Motion(data, p) \in
        [x : Coordinate, y : Coordinate, buttons : 0..7, moved : BOOLEAN]
  <2>1. data.x + DeltaX(p) \in Int /\ data.y - DeltaY(p) \in Int
    BY <1>2, <1>3 DEF PacketTypeOK
  <2>2. Wrap(data.x + DeltaX(p)) \in Coordinate
    BY <2>1, WrapType
  <2>3. Wrap(data.y - DeltaY(p)) \in Coordinate
    BY <2>1, WrapType
  <2> QED
    BY <1>2, <2>2, <2>3 DEF Motion, Moves
<1>5. packet' = stored /\ packet_index' \in 0..(MOUSE_PACKET_SIZE - 1)
  BY DEF PacketTypeOK, Receive, MOUSE_PACKET_SIZE
<1>6. CASE UNCHANGED <<data, processed, reports>>
  BY <1>1, <1>5, <1>6 DEF PacketTypeOK
<1>7. CASE Mouse_ProcessPacket(stored)
  BY <1>1, <1>4, <1>5, <1>7 DEF Mouse_ProcessPacket, PacketTypeOK
<1> QED
  BY <1>6, <1>7 DEF Receive

LEMMA PacketInitType == PacketInit => PacketTypeOK
BY PacketAssumption
   DEF PacketInit, PacketTypeOK, Packet, MOUSE_PACKET_SIZE, Byte, Coordinate

-----------------------------------------------------------------------------
(* Typing, one lemma per kind of step.                                     *)

LEMMA InitType == Init => TypeOK
<1> SUFFICES ASSUME Init PROVE TypeOK
  OBVIOUS
<1>1. DriverTypeOK
  BY PacketInitType DEF Init, DriverTypeOK
<1>2. ThreadTypeOK
  <2>1. pc = "idle" /\ polled = FALSE /\ calls = 0 /\ rate = 0
    BY Zenon DEF Init
  <2>2. pc \in Steps
    BY <2>1 DEF Steps
  <2>3. polled \in BOOLEAN /\ ~polled
    BY Zenon, <2>1
  <2>4. calls \in 0..MaxCalls /\ rate \in Rates \union {0}
    BY <2>1, MouseAssumption
  <2> QED
    BY Zenon, <2>2, <2>3, <2>4 DEF ThreadTypeOK
<1>3. ControllerTypeOK
  <2>1. /\ port_locks = [p \in {DATA, STATUS} |-> FALSE]
        /\ ibf = <<>> /\ obf = [full |-> FALSE, byte |-> 0]
        /\ irq \in BOOLEAN /\ ~irq
    BY Zenon DEF Init
  <2>2. /\ port_locks \in [{DATA, STATUS} -> BOOLEAN]
        /\ obf \in [full : BOOLEAN, byte : Byte]
    BY <2>1 DEF Byte
  <2> QED
    BY Zenon, <2>1, <2>2 DEF ControllerTypeOK
<1>4. MouseTypeOK
  <2>1. devq = <<>> /\ motions = 0
    BY Zenon DEF Init
  <2>2. devq \in Seq(Byte) /\ motions \in 0..MaxMotions
    BY <2>1, MouseAssumption
  <2>3. reporting \in BOOLEAN /\ parameter \in BOOLEAN
    BY Zenon DEF Init
  <2> QED
    BY Zenon, <2>2, <2>3 DEF MouseTypeOK
<1>5. HistoryTypeOK
  BY Zenon DEF Init, HistoryTypeOK
<1> QED
  BY <1>1, <1>2, <1>3, <1>4, <1>5 DEF TypeOK

\* A party that a step leaves alone keeps its type.
LEMMA StableTypes ==
  /\ DriverTypeOK /\ UNCHANGED driverVars => DriverTypeOK'
  /\ ThreadTypeOK /\ UNCHANGED threadVars => ThreadTypeOK'
  /\ ControllerTypeOK /\ UNCHANGED <<port_locks, ibf, obf, irq>>
       => ControllerTypeOK'
  /\ MouseTypeOK /\ UNCHANGED mouseVars => MouseTypeOK'
  /\ HistoryTypeOK /\ UNCHANGED historyVars => HistoryTypeOK'
<1>1. DriverTypeOK /\ UNCHANGED driverVars => DriverTypeOK'
  BY DEF DriverTypeOK, driverVars, packetVars, PacketTypeOK
<1>2. ThreadTypeOK /\ UNCHANGED threadVars => ThreadTypeOK'
  BY DEF ThreadTypeOK, threadVars
<1>3. ControllerTypeOK /\ UNCHANGED <<port_locks, ibf, obf, irq>>
        => ControllerTypeOK'
  BY DEF ControllerTypeOK
<1>4. MouseTypeOK /\ UNCHANGED mouseVars => MouseTypeOK'
  BY DEF MouseTypeOK, mouseVars
<1>5. HistoryTypeOK /\ UNCHANGED historyVars => HistoryTypeOK'
  BY DEF HistoryTypeOK, historyVars
<1> QED
  BY <1>1, <1>2, <1>3, <1>4, <1>5

\* The steps of the thread that write a byte.
LEMMA WriteType ==
  ASSUME TypeOK, NEW port \in {DATA, STATUS}, NEW byte \in Byte,
         Write(port, byte), ThreadTypeOK', HistoryTypeOK'
  PROVE  TypeOK'
<1>1. ControllerTypeOK'
  BY DEF Write, Out8, TypeOK, ControllerTypeOK
<1> QED
  BY <1>1, StableTypes DEF Write, TypeOK

LEMMA GotoType ==
  ASSUME ThreadTypeOK, NEW from \in Steps \ Waiting, NEW to \in Steps,
         Goto(from, to)
  PROVE  ThreadTypeOK'
BY DEF Goto, ThreadTypeOK

LEMMA GotoKeepsHistory ==
  ASSUME HistoryTypeOK, NEW from, NEW to, Goto(from, to)
  PROVE  HistoryTypeOK'
BY StableTypes DEF Goto

LEMMA EnterType ==
  ASSUME ThreadTypeOK, NEW next \in Steps, NEW r \in Rates \union {0},
         Enter(next, r)
  PROVE  ThreadTypeOK'
BY MouseAssumption DEF Enter, ThreadTypeOK, Waiting, Steps

LEMMA EnterHistory ==
  ASSUME NEW next, NEW r, Enter(next, r) PROVE HistoryTypeOK'
<1>1. Quiet \in BOOLEAN
  BY Zenon DEF Quiet
<1>2. quietly' \in BOOLEAN
  BY Zenon, <1>1 DEF Enter
<1>3. wasReset' \in BOOLEAN
  BY Zenon DEF Enter
<1> QED
  BY Zenon, <1>2, <1>3 DEF HistoryTypeOK

\* The steps of the thread that only touch the driver.
LEMMA LocalType ==
  ASSUME TypeOK, Local, ThreadTypeOK', HistoryTypeOK',
         packet_index' \in {0, packet_index},
         state' \in {"UNINITIALIZED", "READY", "RUNNING"},
         sample_rate' \in Rates \union {0}
  PROVE  TypeOK'
<1>1. DriverTypeOK'
  BY DEF Local, TypeOK, DriverTypeOK, PacketTypeOK, MOUSE_PACKET_SIZE
<1> QED
  BY <1>1, StableTypes DEF Local, TypeOK

LEMMA ThreadStepType == ASSUME TypeOK, Thread PROVE TypeOK'
<1> USE DEF TypeOK
<1>1. CASE PollFull \/ PollTimeout
  <2>1. CASE PollFull
    <3>1. ThreadTypeOK'
      BY Zenon, <2>1 DEF PollFull, ThreadTypeOK
    <3> QED
      BY <2>1, <3>1, StableTypes DEF PollFull
  <2>2. CASE PollTimeout
    <3>1. ThreadTypeOK'
      BY <2>2 DEF PollTimeout, ThreadTypeOK, Steps
    <3> QED
      BY <2>2, <3>1, StableTypes DEF PollTimeout
  <2> QED
    BY <1>1, <2>1, <2>2
<1>2. CASE ReadResponse
  <2>1. ThreadTypeOK'
    <3>1. pc' \in Steps
      BY <1>2 DEF ReadResponse, AfterResponse, Steps, Waiting
    <3>2. polled' \in BOOLEAN /\ ~polled'
      BY Zenon, <1>2 DEF ReadResponse
    <3>3. UNCHANGED <<calls, rate>>
      BY <1>2 DEF ReadResponse
    <3> QED
      BY Zenon, <3>1, <3>2, <3>3 DEF ThreadTypeOK
  <2>2. ControllerTypeOK'
    BY <1>2 DEF ReadResponse, ReadData, ControllerTypeOK
  <2> QED
    BY <1>2, <2>1, <2>2, StableTypes DEF ReadResponse
<1>3. CASE InitReset \/ InitEnable \/ InitRate \/ InitRateValue
  <2>1. ThreadTypeOK'
    BY <1>3, GotoType
       DEF InitReset, InitEnable, InitRate, InitRateValue, Steps, Waiting
  <2>2. HistoryTypeOK'
    BY <1>3, GotoKeepsHistory DEF InitReset, InitEnable, InitRate, InitRateValue
  <2> QED
    BY <1>3, <2>1, <2>2, WriteType
       DEF InitReset, InitEnable, InitRate, InitRateValue, Byte, MOUSE_CMD_RESET,
           MOUSE_CMD_ENABLE, MOUSE_CMD_SET_SAMPLE_RATE, DEFAULT_RATE
<1>4. CASE RateValue
  <2>1. ThreadTypeOK'
    BY <1>4, GotoType DEF RateValue, Steps, Waiting
  <2>2. rate \in Byte
    BY MouseAssumption DEF ThreadTypeOK, Byte
  <2>3. HistoryTypeOK'
    BY <1>4, GotoKeepsHistory DEF RateValue
  <2> QED
    BY <1>4, <2>1, <2>2, <2>3, WriteType DEF RateValue
<1>5. CASE InitIndex \/ InitReady \/ EnableRunning \/ DisableReady \/ RateDone
  <2>1. ThreadTypeOK'
    BY <1>5, GotoType
       DEF InitIndex, InitReady, EnableRunning, DisableReady, RateDone,
           Steps, Waiting
  <2>2. HistoryTypeOK'
    BY <1>5, GotoKeepsHistory
       DEF InitIndex, InitReady, EnableRunning, DisableReady, RateDone
  <2> QED
    BY <1>5, <2>1, <2>2, LocalType
       DEF InitIndex, InitReady, EnableRunning, DisableReady, RateDone,
           DriverTypeOK, ThreadTypeOK
<1> HIDE DEF TypeOK
<1> QED
  BY <1>1, <1>2, <1>3, <1>4, <1>5 DEF Thread

LEMMA CallStepType == ASSUME TypeOK, Call PROVE TypeOK'
<1>1. rate \in Rates \union {0} /\ ThreadTypeOK
  BY DEF TypeOK, ThreadTypeOK
<1>2. ThreadTypeOK'
  BY <1>1, EnterType
     DEF Call, InitDisable, Mouse_Enable, Mouse_Disable, Mouse_SetSampleRate,
         Steps, Waiting
<1>3. HistoryTypeOK'
  BY EnterHistory
     DEF Call, InitDisable, Mouse_Enable, Mouse_Disable, Mouse_SetSampleRate
<1> QED
  BY <1>2, <1>3, WriteType
     DEF Call, InitDisable, Mouse_Enable, Mouse_Disable, Mouse_SetSampleRate,
         Byte, AUX_DISABLE, MOUSE_CMD_ENABLE, MOUSE_CMD_DISABLE,
         MOUSE_CMD_SET_SAMPLE_RATE

LEMMA HandlerStepType ==
  ASSUME TypeOK, Mouse_InterruptHandler PROVE TypeOK'
<1> USE DEF TypeOK
<1>1. DataByte \in Byte
  BY DEF DataByte, ControllerTypeOK, Byte
<1>2. PacketTypeOK'
  <2>1. CASE UNCHANGED packetVars
    BY <2>1 DEF DriverTypeOK, packetVars, PacketTypeOK
  <2>2. CASE Receive(DataByte)
    BY <1>1, <2>2, ReceiveType DEF DriverTypeOK
  <2> QED
    BY <2>1, <2>2 DEF Mouse_InterruptHandler
<1>3. DriverTypeOK'
  BY <1>2 DEF Mouse_InterruptHandler, DriverTypeOK
<1>4. ControllerTypeOK'
  BY DEF Mouse_InterruptHandler, ControllerTypeOK
<1> QED
  BY <1>3, <1>4, StableTypes DEF Mouse_InterruptHandler

LEMMA HardwareStepType ==
  ASSUME TypeOK, Hardware \/ Environment PROVE TypeOK'
<1> USE DEF TypeOK
<1>1. CASE Present
  <2>1. Head(devq) \in Byte /\ Tail(devq) \in Seq(Byte)
    BY <1>1 DEF Present, MouseTypeOK
  <2>2. ControllerTypeOK' /\ MouseTypeOK'
    BY <1>1, <2>1 DEF Present, ControllerTypeOK, MouseTypeOK
  <2> QED
    BY <1>1, <2>2, StableTypes DEF Present
<1>2. CASE MouseTakes
  <2>1. ControllerTypeOK'
    BY <1>2 DEF MouseTakes, ControllerTypeOK
  <2>2. <<ACK>> \in Seq(Byte) /\ <<ACK, SELF_TEST_OK>> \in Seq(Byte)
    BY DEF ACK, SELF_TEST_OK, Byte
  <2>3. devq' \in {devq, devq \o <<ACK>>, devq \o <<ACK, SELF_TEST_OK>>}
    BY <1>2 DEF MouseTakes, Reply
  <2>4. devq' \in Seq(Byte)
    <3>1. devq \in Seq(Byte)
      BY DEF MouseTypeOK
    <3>2. devq \o <<ACK>> \in Seq(Byte) /\ devq \o <<ACK, SELF_TEST_OK>> \in Seq(Byte)
      BY <2>2, <3>1
    <3> QED
      BY <2>3, <3>1, <3>2
  <2>5. MouseTypeOK'
    BY <1>2, <2>4 DEF MouseTakes, MouseTypeOK
  <2>6. HistoryTypeOK'
    <3>1. wasReset' = wasReset \/ wasReset' = TRUE
      BY Zenon, <1>2 DEF MouseTakes
    <3>2. quietly' = quietly
      BY <1>2 DEF MouseTakes
    <3> QED
      BY Zenon, <3>1, <3>2 DEF HistoryTypeOK
  <2>7. UNCHANGED <<driverVars, threadVars>>
    BY <1>2 DEF MouseTakes
  <2> QED
    BY <2>1, <2>5, <2>6, <2>7, StableTypes
<1>3. ASSUME NEW p \in Packets, MouseMoves(p) PROVE TypeOK'
  <2>1. p[0] \in Byte /\ p[1] \in Byte /\ p[2] \in Byte
    BY MouseAssumption DEF Packet, MOUSE_PACKET_SIZE
  <2>2. devq' \in Seq(Byte)
    BY <1>3, <2>1 DEF MouseMoves, Reply, MouseTypeOK
  <2>3. MouseTypeOK'
    BY <1>3, <2>2, MouseAssumption DEF MouseMoves, MouseTypeOK
  <2> QED
    BY <1>3, <2>3, StableTypes DEF MouseMoves
<1>4. ASSUME NEW port \in LockablePorts, SetLock(port) PROVE TypeOK'
  <2>1. ControllerTypeOK'
    BY <1>4, MouseAssumption DEF SetLock, ControllerTypeOK
  <2> QED
    BY <1>4, <2>1, StableTypes DEF SetLock
<1> HIDE DEF TypeOK
<1> QED
  BY <1>1, <1>2, <1>3, <1>4 DEF Hardware, Environment

\* Driver, thread, controller and mouse keep their types; in particular the
\* packet index stays inside the packet and coordinates stay in their width.
THEOREM Typing == Spec => []TypeOK
<1>1. TypeOK /\ [Next]_vars => TypeOK'
  <2>1. TypeOK /\ UNCHANGED vars => TypeOK'
    BY StableTypes DEF vars, TypeOK
  <2> QED
    BY <2>1, ThreadStepType, CallStepType, HandlerStepType, HardwareStepType
       DEF Next
<1> QED
  BY <1>1, InitType, PTL DEF Spec

-----------------------------------------------------------------------------
(* PolledByteIsFresh.  The state changes only at steps that do not wait,   *)
(* so a byte seen by the poll stays until its read unless the handler runs *)
(* in state RUNNING.                                                       *)

\* Only the handler of a running driver can take a byte between the poll
\* that sees it and the read that fetches it.
THEOREM PolledFresh == Spec => []PolledByteIsFresh
<1>1. Init => PolledByteIsFresh
  BY Zenon DEF Init, PolledByteIsFresh
<1>2. TypeOK /\ PolledByteIsFresh /\ [Next]_vars => PolledByteIsFresh'
  <2> SUFFICES ASSUME TypeOK, PolledByteIsFresh, [Next]_vars,
                      polled', state' # "RUNNING"
               PROVE  obf'.full
    BY DEF PolledByteIsFresh
  <2>1. ASSUME UNCHANGED <<polled, state>>, obf' = obf \/ obf'.full
        PROVE  obf'.full
    BY <2>1 DEF PolledByteIsFresh
  <2>2. CASE PollFull
    BY <2>2 DEF PollFull, OutputFull
  <2>3. CASE ReadResponse
    BY Zenon, <2>3 DEF ReadResponse
  <2>4. CASE \/ PollTimeout \/ InitReset \/ InitEnable \/ InitRate
             \/ InitRateValue \/ RateValue \/ Call
    BY <2>1, <2>4
       DEF PollTimeout, InitReset, InitEnable, InitRate, InitRateValue,
           RateValue, Call, InitDisable, Mouse_Enable, Mouse_Disable,
           Mouse_SetSampleRate, Goto, Enter, Write, driverVars
  <2>5. CASE InitIndex \/ InitReady \/ EnableRunning \/ DisableReady \/ RateDone
    <3>1. ~polled
      BY <2>5 DEF InitIndex, InitReady, EnableRunning, DisableReady, RateDone,
                  Goto, TypeOK, ThreadTypeOK, Waiting
    <3>2. polled' = polled
      BY <2>5 DEF InitIndex, InitReady, EnableRunning, DisableReady, RateDone,
                  Goto
    <3> QED
      BY Zenon, <3>1, <3>2
  <2>6. CASE Mouse_InterruptHandler
    BY <2>1, <2>6 DEF Mouse_InterruptHandler, threadVars
  <2>7. CASE Present
    BY <2>7 DEF Present
  <2>8. CASE MouseTakes \/ Environment
    <3>1. UNCHANGED <<polled, state, obf>>
      BY <2>8 DEF Environment, MouseTakes, MouseMoves, SetLock,
                  driverVars, threadVars
    <3> QED
      BY <2>1, <3>1
  <2>9. CASE UNCHANGED vars
    BY <2>1, <2>9 DEF vars, driverVars, threadVars
  <2> QED
    BY <2>2, <2>3, <2>4, <2>5, <2>6, <2>7, <2>8, <2>9
       DEF Next, Thread, Hardware
<1> QED
  BY <1>1, <1>2, Typing, PTL DEF Spec

-----------------------------------------------------------------------------
(* SelfTestFollowsReset.  A call that begins with nothing left over finds  *)
(* a mouse that says nothing before it has taken a reset, so no poll       *)
(* succeeds and the call does not get past its first wait.                 *)

UpToReady == {"init_reset", "init_reset_ack", "init_self_test"} \union PastSelfTest

Untouched ==
  /\ ~reporting /\ ~parameter /\ devq = <<>> /\ ~obf.full /\ ~polled
  /\ pc \in {"init_reset", "init_reset_ack"}
  /\ ibf \in {<<>>, <<STATUS, AUX_DISABLE>>, <<DATA, MOUSE_CMD_RESET>>}

ResetInv == (quietly /\ ~wasReset /\ pc \in UpToReady) => Untouched

LEMMA UntouchedKept ==
  ASSUME Untouched,
         UNCHANGED <<pc, polled, ibf, obf, devq, reporting, parameter>>
  PROVE  Untouched'
BY DEF Untouched

\* A step inside a Mouse_Init that is not reset yet.
LEMMA UntouchedThread ==
  ASSUME Untouched, Thread, pc' \in UpToReady
  PROVE  Untouched'
<1>1. CASE InitReset
  <2>1. UNCHANGED <<polled, obf, devq, reporting, parameter>>
    BY <1>1 DEF InitReset, Goto, Write, mouseVars
  <2>2. pc' = "init_reset_ack" /\ ibf' \in {ibf, <<DATA, MOUSE_CMD_RESET>>}
    BY <1>1 DEF InitReset, Goto, Write, Out8
  <2> QED
    BY <2>1, <2>2 DEF Untouched
<1>2. CASE PollTimeout
  BY <1>2 DEF PollTimeout, UpToReady, PastSelfTest
<1>3. PollTimeout \/ InitReset
  BY DEF Untouched, Thread, PollFull, ReadResponse, OutputFull, InitEnable,
         InitRate, InitRateValue, InitIndex, InitReady, EnableRunning,
         DisableReady, RateValue, RateDone, Goto
<1> QED
  BY <1>1, <1>2, <1>3

LEMMA UntouchedTakes ==
  ASSUME Untouched, MouseTakes
  PROVE  (wasReset' = TRUE) \/ Untouched'
<1>1. CASE ibf = <<DATA, MOUSE_CMD_RESET>>
  <2>1. ibf[1] = 96 /\ ibf[2] = 255
    BY <1>1 DEF DATA, MOUSE_CMD_RESET
  <2>2. ~parameter
    BY DEF Untouched
  <2>3. wasReset' = TRUE
    BY <2>1, <2>2
       DEF MouseTakes, DATA, STATUS, MouseCommands, MOUSE_CMD_RESET,
           MOUSE_CMD_ENABLE, MOUSE_CMD_DISABLE, MOUSE_CMD_SET_SAMPLE_RATE
  <2> QED
    BY Zenon, <2>3
<1>2. CASE ibf = <<STATUS, AUX_DISABLE>>
  <2>1. ibf' = <<>> /\ reporting' = FALSE /\ UNCHANGED <<devq, parameter>>
    BY <1>2 DEF MouseTakes, STATUS, DATA
  <2>2. UNCHANGED <<pc, polled, obf>>
    BY DEF MouseTakes, threadVars
  <2> QED
    BY <2>1, <2>2 DEF Untouched
<1>3. ibf # <<>>
  BY DEF MouseTakes
<1> QED
  BY <1>1, <1>2, <1>3 DEF Untouched

\* Where the thread stands in Mouse_Init it stood before, or it enters.
LEMMA StillUpToReady ==
  ASSUME Thread, pc' \in UpToReady
  PROVE  pc \in UpToReady
BY DEF Thread, PollFull, PollTimeout, ReadResponse, InitReset, InitEnable,
       InitRate, InitRateValue, InitIndex, InitReady, EnableRunning,
       DisableReady, RateValue, RateDone, Goto, Waiting, AfterResponse,
       UpToReady, PastSelfTest

LEMMA ResetInvNext ==
  ASSUME TypeOK, ResetInv, [Next]_vars PROVE ResetInv'
<1> SUFFICES ASSUME quietly', ~wasReset', pc' \in UpToReady PROVE Untouched'
  BY Zenon DEF ResetInv
<1>1. ASSUME quietly' = quietly, wasReset' = wasReset, pc \in UpToReady
      PROVE  Untouched
  <2>1. quietly /\ ~wasReset
    BY Zenon, <1>1
  <2> QED
    BY Zenon, <1>1, <2>1 DEF ResetInv
<1>2. CASE Thread
  <2>1. quietly' = quietly /\ wasReset' = wasReset
    BY <1>2 DEF Thread, PollFull, PollTimeout, ReadResponse, InitReset,
                InitEnable, InitRate, InitRateValue, InitIndex, InitReady,
                EnableRunning, DisableReady, RateValue, RateDone, Goto,
                historyVars
  <2>2. Untouched
    BY Zenon, <1>1, <1>2, <2>1, StillUpToReady
  <2> QED
    BY <1>2, <2>2, UntouchedThread
<1>3. CASE Call
  <2>1. InitDisable
    BY <1>3 DEF Call, Mouse_Enable, Mouse_Disable, Mouse_SetSampleRate, Enter,
                UpToReady, PastSelfTest
  <2>2. Quiet
    <3>1. quietly' = Quiet
      BY Zenon, <2>1 DEF InitDisable, Enter
    <3> QED
      BY Zenon, <3>1
  <2>3. ~polled
    BY <2>1 DEF InitDisable, Enter, TypeOK, ThreadTypeOK, Waiting
  <2>4. UNCHANGED <<polled, obf, devq, reporting, parameter>>
    BY <2>1 DEF InitDisable, Enter, Write, mouseVars
  <2>5. pc' = "init_reset" /\ ibf' \in {ibf, <<STATUS, AUX_DISABLE>>}
    BY <2>1 DEF InitDisable, Enter, Write, Out8
  <2> QED
    BY <2>2, <2>3, <2>4, <2>5 DEF Quiet, Untouched
<1>4. CASE Mouse_InterruptHandler
  <2>1. UNCHANGED <<pc, polled, ibf, devq, reporting, parameter, quietly, wasReset>>
    BY <1>4 DEF Mouse_InterruptHandler, threadVars, mouseVars, historyVars
  <2>2. Untouched
    BY Zenon, <1>1, <2>1
  <2>3. FALSE
    BY <1>4, <2>2 DEF Mouse_InterruptHandler, Untouched, TypeOK, ControllerTypeOK
  <2> QED
    BY <2>3
<1>5. CASE Present
  <2>1. pc' = pc /\ quietly' = quietly /\ wasReset' = wasReset
    BY <1>5 DEF Present, threadVars, historyVars
  <2>2. Untouched
    BY Zenon, <1>1, <2>1
  <2> QED
    BY <1>5, <2>2 DEF Present, Untouched
<1>6. CASE MouseTakes
  <2>1. wasReset' = wasReset
    <3>1. wasReset' = wasReset \/ wasReset' = TRUE
      BY Zenon, <1>6 DEF MouseTakes
    <3> QED
      BY Zenon, <3>1
  <2>2. pc' = pc /\ quietly' = quietly
    BY <1>6 DEF MouseTakes, threadVars
  <2>3. Untouched
    BY Zenon, <1>1, <2>1, <2>2
  <2>4. (wasReset' = TRUE) \/ Untouched'
    BY <1>6, <2>3, UntouchedTakes
  <2> QED
    BY Zenon, <2>4
<1>7. CASE Environment
  <2>1. UNCHANGED <<pc, polled, ibf, obf, quietly, wasReset>>
    BY <1>7 DEF Environment, MouseMoves, SetLock, threadVars, historyVars
  <2>2. Untouched
    BY Zenon, <1>1, <2>1
  <2>3. UNCHANGED <<devq, reporting, parameter>>
    BY <1>7, <2>2 DEF Environment, MouseMoves, SetLock, mouseVars, Untouched
  <2> QED
    BY <2>1, <2>2, <2>3, UntouchedKept
<1>8. CASE UNCHANGED vars
  <2>1. UNCHANGED <<pc, polled, ibf, obf, devq, reporting, parameter, quietly,
                    wasReset>>
    BY <1>8 DEF vars, threadVars, mouseVars, historyVars
  <2>2. Untouched
    BY Zenon, <1>1, <2>1
  <2> QED
    BY <2>1, <2>2, UntouchedKept
<1> QED
  BY <1>2, <1>3, <1>4, <1>5, <1>6, <1>7, <1>8 DEF Next, Hardware

\* A Mouse_Init that begins with nothing left over, whichever call it is and
\* whatever the earlier ones did, passes its self test only after the mouse
\* has taken the reset command of this call.
THEOREM SelfTest == Spec => []SelfTestFollowsReset
<1>1. Init => ResetInv
  BY DEF Init, ResetInv, UpToReady, PastSelfTest
<1>2. ResetInv => SelfTestFollowsReset
  <2>1. PastSelfTest \subseteq UpToReady
    BY DEF UpToReady
  <2>2. Untouched => pc \notin PastSelfTest
    BY DEF Untouched, PastSelfTest
  <2> QED
    BY Zenon, <2>1, <2>2 DEF ResetInv, SelfTestFollowsReset
<1> QED
  BY <1>1, <1>2, ResetInvNext, Typing, PTL DEF Spec

-----------------------------------------------------------------------------
(* InitResetsIndex.                                                        *)

\* The steps that touch neither the packet nor the state, and do not lead to
\* the last step of Mouse_Init.
LEMMA IndexKept ==
  ASSUME InitResetsIndex, UNCHANGED <<packet_index, state>>,
         pc' = pc \/ pc' # "init_ready"
  PROVE  InitResetsIndex'
BY DEF InitResetsIndex

\* When Mouse_Init sets a driver READY that was not running, packet_index is
\* 0: no interrupt puts a byte between lines 104 and 106 of mouse_driver.c.
THEOREM IndexReset == Spec => []InitResetsIndex
<1>1. Init => InitResetsIndex
  BY DEF Init, InitResetsIndex
<1>2. TypeOK /\ InitResetsIndex /\ [Next]_vars => InitResetsIndex'
  <2> SUFFICES ASSUME TypeOK, InitResetsIndex, [Next]_vars
               PROVE  InitResetsIndex'
    OBVIOUS
  <2>1. CASE PollFull \/ PollTimeout
    BY <2>1, IndexKept DEF PollFull, PollTimeout, driverVars, packetVars
  <2>2. CASE ReadResponse
    <3>1. pc' # "init_ready"
      BY <2>2 DEF ReadResponse, Waiting, AfterResponse
    <3> QED
      BY <2>2, <3>1, IndexKept DEF ReadResponse, driverVars, packetVars
  <2>3. CASE InitReset \/ InitEnable \/ InitRate \/ InitRateValue \/ RateValue
    BY <2>3, IndexKept
       DEF InitReset, InitEnable, InitRate, InitRateValue, RateValue, Goto,
           Write, driverVars, packetVars
  <2>4. CASE InitIndex
    BY <2>4 DEF InitIndex, InitResetsIndex
  <2>5. CASE InitReady \/ EnableRunning \/ DisableReady \/ RateDone
    BY <2>5 DEF InitReady, EnableRunning, DisableReady, RateDone, Goto,
                InitResetsIndex
  <2>6. CASE Call
    BY <2>6, IndexKept
       DEF Call, InitDisable, Mouse_Enable, Mouse_Disable,
           Mouse_SetSampleRate, Enter, Write, driverVars, packetVars
  <2>7. CASE Mouse_InterruptHandler
    <3>1. UNCHANGED <<pc, state>>
      BY <2>7 DEF Mouse_InterruptHandler, threadVars
    <3>2. CASE state = "RUNNING"
      BY <3>1, <3>2 DEF InitResetsIndex
    <3>3. CASE state # "RUNNING"
      <4>1. UNCHANGED packet_index
        BY <2>7, <3>3 DEF Mouse_InterruptHandler, packetVars
      <4> QED
        BY <3>1, <4>1, IndexKept
    <3> QED
      BY <3>2, <3>3
  <2>8. CASE Hardware \/ Environment
    <3>1. UNCHANGED <<packet_index, state, pc>>
      BY <2>8 DEF Hardware, Environment, Present, MouseTakes, MouseMoves,
                  SetLock, driverVars, packetVars, threadVars
    <3> QED
      BY <3>1, IndexKept
  <2>9. CASE UNCHANGED vars
    BY <2>9, IndexKept DEF vars, driverVars, packetVars, threadVars
  <2> QED
    BY <2>1, <2>2, <2>3, <2>4, <2>5, <2>6, <2>7, <2>8, <2>9 DEF Next, Thread
<1> QED
  BY <1>1, <1>2, Typing, PTL DEF Spec

-----------------------------------------------------------------------------
(* Refinement of DriverLifecycle.                                          *)

EnableSteps == {"enable_ack", "enable_running"}
DisableSteps == {"disable_ack", "disable_ready"}
RateSteps == {"rate_value", "rate_ack", "rate_done"}
InitSteps == Steps \ ({"idle"} \union EnableSteps \union DisableSteps \union RateSteps)

LEMMA CallOfStep ==
  /\ pc = "idle" => CallOf = {}
  /\ pc \in EnableSteps => CallOf = {"Enable"}
  /\ pc \in DisableSteps => CallOf = {"Disable"}
  /\ pc \in RateSteps => CallOf = {"SetSampleRate"}
  /\ pc \in InitSteps => CallOf = {"Init"}
BY DEF CallOf, EnableSteps, DisableSteps, RateSteps, InitSteps, Steps

LEMMA CallOfNextStep ==
  /\ pc' = "idle" => CallOf' = {}
  /\ pc' \in EnableSteps => CallOf' = {"Enable"}
  /\ pc' \in DisableSteps => CallOf' = {"Disable"}
  /\ pc' \in RateSteps => CallOf' = {"SetSampleRate"}
  /\ pc' \in InitSteps => CallOf' = {"Init"}
BY DEF CallOf, EnableSteps, DisableSteps, RateSteps, InitSteps, Steps

\* Steps of a call before its last one, and steps of the others.
LEMMA LifecycleStutter ==
  ASSUME UNCHANGED state,
         \/ pc' = pc
         \/ pc \in EnableSteps /\ pc' \in EnableSteps
         \/ pc \in RateSteps /\ pc' \in RateSteps
         \/ pc \in DisableSteps /\ pc' \in DisableSteps
         \/ pc \in InitSteps /\ pc' \in InitSteps
  PROVE  UNCHANGED <<state, CallOf>>
<1>1. CASE pc' = pc
  BY <1>1 DEF CallOf
<1> QED
  BY <1>1, CallOfStep, CallOfNextStep

LEMMA LifecycleStep ==
  ASSUME TypeOK, [Next]_vars
  PROVE  [Lifecycle!Next]_<<state, CallOf>>
<1> USE DEF Goto, EnableSteps, DisableSteps, RateSteps, InitSteps, Steps, Waiting
<1>1. CASE PollFull \/ Mouse_InterruptHandler \/ Hardware \/ Environment
           \/ UNCHANGED vars
  <2>1. UNCHANGED <<state, pc>>
    BY <1>1 DEF PollFull, Mouse_InterruptHandler, Hardware, Present,
                MouseTakes, Environment, MouseMoves, SetLock, vars,
                driverVars, threadVars
  <2> QED
    BY <2>1, LifecycleStutter
<1>2. ASSUME pc \in Waiting, pc' = "idle", UNCHANGED state
      PROVE  Lifecycle!Next
  <2>1. CallOf' = {}
    BY <1>2, CallOfNextStep
  <2>2. CallOf \in {{"Enable"}, {"Disable"}, {"SetSampleRate"}, {"Init"}}
    BY <1>2, CallOfStep
  <2> QED
    BY <1>2, <2>1, <2>2 DEF Lifecycle!Next, Lifecycle!Fail, MouseOps
<1>3. CASE PollTimeout
  BY <1>2, <1>3 DEF PollTimeout, driverVars
<1>4. CASE ReadResponse
  <2>1. UNCHANGED state /\ pc \in Waiting
    BY <1>4 DEF ReadResponse, driverVars
  <2>2. CASE pc' = "idle"
    BY <1>2, <2>1, <2>2
  <2>3. CASE pc' = AfterResponse[pc]
    BY <2>1, <2>3, LifecycleStutter DEF AfterResponse
  <2> QED
    BY <1>4, <2>2, <2>3 DEF ReadResponse
<1>5. CASE InitReset \/ InitEnable \/ InitRate \/ InitRateValue \/ InitIndex
           \/ RateValue
  <2>1. UNCHANGED state
    BY <1>5 DEF InitReset, InitEnable, InitRate, InitRateValue, InitIndex,
                RateValue, Write, driverVars
  <2> QED
    BY <1>5, <2>1, LifecycleStutter
       DEF InitReset, InitEnable, InitRate, InitRateValue, InitIndex, RateValue
<1>6. CASE InitReady \/ EnableRunning \/ DisableReady \/ RateDone
  <2>1. CallOf' = {}
    BY <1>6, CallOfNextStep DEF InitReady, EnableRunning, DisableReady, RateDone
  <2>2. CASE InitReady
    BY <2>1, <2>2, CallOfStep
       DEF InitReady, Lifecycle!Next, Lifecycle!Succeed, MouseOps, MouseAnnounces
  <2>3. CASE EnableRunning
    BY <2>1, <2>3, CallOfStep
       DEF EnableRunning, Lifecycle!Next, Lifecycle!Succeed, MouseOps,
           MouseAnnounces
  <2>4. CASE DisableReady
    BY <2>1, <2>4, CallOfStep
       DEF DisableReady, Lifecycle!Next, Lifecycle!Succeed, MouseOps,
           MouseAnnounces
  <2>5. CASE RateDone
    BY <2>1, <2>5, CallOfStep
       DEF RateDone, Lifecycle!Next, Lifecycle!Fail, MouseOps
  <2> QED
    BY <1>6, <2>2, <2>3, <2>4, <2>5
<1>7. CASE Call
  <2>1. CallOf = {} /\ UNCHANGED state
    BY <1>7, CallOfStep
       DEF Call, InitDisable, Mouse_Enable, Mouse_Disable, Mouse_SetSampleRate,
           Enter, Write, driverVars
  <2>2. state \in MouseStates
    BY DEF TypeOK, DriverTypeOK, MouseStates
  <2>3. CASE InitDisable
    BY <2>1, <2>2, <2>3, CallOfNextStep
       DEF InitDisable, Enter, Lifecycle!Next, Lifecycle!Begin, MouseOps,
           MouseNeeds
  <2>4. CASE Mouse_Enable
    BY <2>1, <2>4, CallOfNextStep
       DEF Mouse_Enable, Enter, Lifecycle!Next, Lifecycle!Begin, MouseOps,
           MouseNeeds
  <2>5. CASE Mouse_Disable
    BY <2>1, <2>5, CallOfNextStep
       DEF Mouse_Disable, Enter, Lifecycle!Next, Lifecycle!Begin, MouseOps,
           MouseNeeds
  <2>6. CASE \E r \in Rates : Mouse_SetSampleRate(r)
    BY <2>1, <2>6, CallOfNextStep
       DEF Mouse_SetSampleRate, Enter, Lifecycle!Next, Lifecycle!Begin,
           MouseOps, MouseNeeds
  <2> QED
    BY <1>7, <2>3, <2>4, <2>5, <2>6 DEF Call
<1> HIDE DEF Goto, EnableSteps, DisableSteps, RateSteps, InitSteps, Steps, Waiting
<1> QED
  BY <1>1, <1>3, <1>4, <1>5, <1>6, <1>7 DEF Next, Thread

\* Calls are admitted in the states they need, one at a time, and the state
\* moves only when a call succeeds.
THEOREM Refinement == Spec => ImplementsLifecycle
<1>1. Init => Lifecycle!Init
  BY CallOfStep DEF Init, Lifecycle!Init
<1> QED
  BY <1>1, LifecycleStep, Typing, PTL
     DEF Spec, ImplementsLifecycle, Lifecycle!Spec, Lifecycle!vars

-----------------------------------------------------------------------------
(* FirstInitEnables and FirstCallAckFollows.                               *)

\* The bytes the mouse has sent that nobody has read.
Unread == Len(devq) + (IF obf.full THEN 1 ELSE 0)

\* The mouse neither sends motions nor awaits a value; and, beyond that,
\* nothing it has sent is unread.
Off == ~reporting /\ ~parameter
Silent == Off /\ devq = <<>> /\ ~obf.full

\* The mouse reports motions, and nothing on its way can stop it.
LateBytes ==
  {<<>>, <<DATA, MOUSE_CMD_SET_SAMPLE_RATE>>, <<DATA, DEFAULT_RATE>>}
SetUp == reporting /\ ibf \in LateBytes
LateSteps == {"init_rate_value", "init_index", "init_ready"}

\* What the mouse is doing at each step of the first call.
FirstStep ==
  \/ pc = "init_reset" /\ Silent /\ ibf \in {<<>>, <<STATUS, AUX_DISABLE>>}
  \/ /\ pc = "init_reset_ack" /\ Silent
     /\ ibf \in {<<>>, <<STATUS, AUX_DISABLE>>, <<DATA, MOUSE_CMD_RESET>>}
  \/ pc = "init_reset_ack" /\ Off /\ ibf = <<>> /\ Unread = 2
  \/ pc = "init_self_test" /\ Off /\ ibf = <<>> /\ Unread = 1
  \/ pc = "init_enable" /\ Silent /\ ibf = <<>>
  \/ pc = "init_enable_ack" /\ Silent /\ ibf \in {<<>>, <<DATA, MOUSE_CMD_ENABLE>>}
  \/ pc \in {"init_enable_ack", "init_rate"} /\ reporting /\ ibf = <<>>
  \/ pc \in LateSteps /\ SetUp

FirstCallInv ==
  calls = 1 =>
    \/ state = "UNINITIALIZED" /\ (pc = "idle" \/ FirstStep)
    \/ state = "READY" /\ pc = "idle" /\ SetUp

\* Before the first call nothing moves.
NoCallInv ==
  calls = 0 =>
    state = "UNINITIALIZED" /\ pc = "idle" /\ Silent /\ ibf = <<>>

FirstInv == NoCallInv /\ FirstCallInv

firstVars == <<calls, state, pc, ibf, obf, devq, reporting, parameter>>

LEMMA FirstKept == FirstInv /\ UNCHANGED firstVars => FirstInv'
BY DEF FirstInv, NoCallInv, FirstCallInv, FirstStep, SetUp, Silent, Off, Unread,
       firstVars

\* Neither before the first call nor in it is the driver running.
LEMMA FirstNotRunning ==
  ASSUME FirstInv, calls \in {0, 1} PROVE state # "RUNNING"
BY DEF FirstInv, NoCallInv, FirstCallInv

LEMMA NoSteps ==
  ASSUME FirstInv, calls \in {0, 1}
  PROVE  /\ pc \in {"idle", "init_reset", "init_reset_ack", "init_self_test",
                    "init_enable", "init_enable_ack", "init_rate"}
                     \union LateSteps
         /\ pc # "idle" => calls = 1 /\ state = "UNINITIALIZED" /\ FirstStep
BY DEF FirstInv, NoCallInv, FirstCallInv, FirstStep, LateSteps

LEMMA FirstPresent ==
  ASSUME TypeOK, FirstInv, Present PROVE FirstInv'
<1>1. /\ ~obf.full /\ devq # <<>> /\ devq \in Seq(Byte)
      /\ obf' = [full |-> TRUE, byte |-> Head(devq)] /\ devq' = Tail(devq)
      /\ UNCHANGED <<calls, state, pc, ibf, reporting, parameter>>
  BY DEF Present, driverVars, threadVars, TypeOK, MouseTypeOK
<1>2. ~Silent
  BY <1>1 DEF Silent
<1>3. Unread' = Unread
  <2>1. obf'.full /\ Len(devq') = Len(devq) - 1 /\ Len(devq) \in Nat
    BY <1>1
  <2> QED
    BY <1>1, <2>1 DEF Unread
<1>4. NoCallInv'
  BY <1>1, <1>2 DEF FirstInv, NoCallInv
<1>5. FirstStep => FirstStep'
  BY <1>1, <1>2, <1>3 DEF FirstStep, SetUp, Off
<1>6. SetUp => SetUp'
  BY <1>1 DEF SetUp
<1> QED
  BY <1>1, <1>4, <1>5, <1>6 DEF FirstInv, FirstCallInv

LEMMA FirstMoves ==
  ASSUME TypeOK, FirstInv, NEW p \in Packets, MouseMoves(p) PROVE FirstInv'
<1>1. reporting /\ UNCHANGED <<calls, state, pc, ibf, obf, reporting, parameter>>
  BY DEF MouseMoves, driverVars, threadVars
<1>2. ~Silent /\ ~Off
  BY <1>1 DEF Silent, Off
<1>3. NoCallInv'
  BY <1>1, <1>2 DEF FirstInv, NoCallInv
<1>4. FirstStep => FirstStep'
  BY <1>1, <1>2 DEF FirstStep, SetUp
<1>5. SetUp => SetUp'
  BY <1>1 DEF SetUp
<1> QED
  BY <1>1, <1>3, <1>4, <1>5 DEF FirstInv, FirstCallInv

\* What the mouse makes of each byte the first call writes.
LEMMA TakenByte ==
  ASSUME TypeOK, MouseTakes
  PROVE  /\ ibf # <<>> /\ ibf' = <<>>
         /\ UNCHANGED <<calls, state, pc, obf>>
         /\ ibf = <<STATUS, AUX_DISABLE>> =>
              ~reporting' /\ UNCHANGED <<devq, parameter>>
         /\ Off /\ ibf = <<DATA, MOUSE_CMD_RESET>> =>
              Off' /\ devq' = devq \o <<ACK, SELF_TEST_OK>>
         /\ Off /\ ibf = <<DATA, MOUSE_CMD_ENABLE>> => reporting'
         /\ ibf \in LateBytes => UNCHANGED reporting
<1> USE DEF DATA, STATUS, MouseCommands, MOUSE_CMD_RESET, MOUSE_CMD_ENABLE,
            MOUSE_CMD_DISABLE, MOUSE_CMD_SET_SAMPLE_RATE, DEFAULT_RATE
<1>1. ibf # <<>> /\ ibf' = <<>> /\ UNCHANGED <<calls, state, pc, obf>>
  BY DEF MouseTakes, driverVars, threadVars
<1>2. ASSUME ibf = <<STATUS, AUX_DISABLE>>
      PROVE  ~reporting' /\ UNCHANGED <<devq, parameter>>
  <2>1. ibf[1] = 100
    BY <1>2
  <2> QED
    BY <2>1 DEF MouseTakes
<1>3. ASSUME Off, ibf = <<DATA, MOUSE_CMD_RESET>>
      PROVE  Off' /\ devq' = devq \o <<ACK, SELF_TEST_OK>>
  <2>1. ibf[1] = 96 /\ ibf[2] = 255 /\ ~parameter
    BY <1>3 DEF Off
  <2> QED
    BY <2>1 DEF MouseTakes, Reply, Off
<1>4. ASSUME Off, ibf = <<DATA, MOUSE_CMD_ENABLE>> PROVE reporting'
  <2>1. ibf[1] = 96 /\ ibf[2] = 244 /\ ~parameter
    BY <1>4 DEF Off
  <2>2. reporting' = (ibf[2] = 244)
    BY <2>1 DEF MouseTakes
  <2> QED
    BY Zenon, <2>1, <2>2
<1>5. ASSUME ibf \in LateBytes PROVE UNCHANGED reporting
  <2>1. ibf[1] = 96 /\ ibf[2] \in {243, 100}
    BY <1>1, <1>5 DEF LateBytes
  <2> QED
    BY <2>1 DEF MouseTakes
<1> QED
  BY <1>1, <1>2, <1>3, <1>4, <1>5

LEMMA FirstTakes ==
  ASSUME TypeOK, FirstInv, MouseTakes PROVE FirstInv'
<1>1. ibf # <<>> /\ ibf' = <<>> /\ UNCHANGED <<calls, state, pc, obf>>
  BY TakenByte
<1>2. NoCallInv'
  BY <1>1 DEF FirstInv, NoCallInv
<1>3. SetUp => SetUp'
  <2>1. SetUp => reporting'
    BY TakenByte DEF SetUp
  <2> QED
    BY <1>1, <2>1 DEF SetUp, LateBytes
<1>4. ASSUME Silent, ibf = <<STATUS, AUX_DISABLE>> PROVE Silent'
  <2>1. ~reporting' /\ UNCHANGED <<devq, parameter>>
    BY <1>4, TakenByte
  <2> QED
    BY <1>1, <1>4, <2>1 DEF Silent, Off
<1>5. ASSUME Silent, ibf = <<DATA, MOUSE_CMD_RESET>> PROVE Off' /\ Unread' = 2
  <2>1. Off' /\ devq' = <<ACK, SELF_TEST_OK>> /\ ~obf'.full
    BY <1>1, <1>5, TakenByte DEF Silent
  <2> QED
    BY <2>1 DEF Unread
<1>6. ASSUME Silent, ibf = <<DATA, MOUSE_CMD_ENABLE>> PROVE reporting'
  BY <1>6, TakenByte DEF Silent
<1>7. FirstStep => FirstStep'
  BY <1>1, <1>3, <1>4, <1>5, <1>6 DEF FirstStep
<1> QED
  BY <1>1, <1>2, <1>3, <1>7 DEF FirstInv, FirstCallInv

\* An answer.
LEMMA FirstRead ==
  ASSUME TypeOK, PolledByteIsFresh, FirstInv, ReadResponse PROVE FirstInv'
<1>1. /\ pc \in Waiting /\ polled /\ ReadData
      /\ pc' = IF DataByte = Expected(pc) THEN AfterResponse[pc] ELSE "idle"
      /\ UNCHANGED <<calls, state, ibf, devq, reporting, parameter>>
  BY DEF ReadResponse, driverVars, mouseVars
<1>2. SUFFICES ASSUME calls \in {0, 1} PROVE FirstInv'
  BY <1>1 DEF FirstInv, NoCallInv, FirstCallInv
<1>3. pc # "idle"
  BY <1>1 DEF Waiting
<1>4. calls = 1 /\ state = "UNINITIALIZED" /\ FirstStep
  BY <1>2, <1>3, NoSteps
<1>5. obf.full
  BY <1>1, <1>4 DEF PolledByteIsFresh
<1>6. CASE DataByte # Expected(pc)
  BY <1>1, <1>4, <1>6 DEF FirstInv, NoCallInv, FirstCallInv
<1>7. CASE DataByte = Expected(pc)
  <2>1. obf'.full = FALSE /\ pc' = AfterResponse[pc]
    <3>1. DataByte # 0
      BY <1>7 DEF Expected, ACK, SELF_TEST_OK
    <3>2. ~port_locks[DATA]
      BY <3>1 DEF DataByte
    <3>3. obf \in [full : BOOLEAN, byte : Byte]
      BY DEF TypeOK, ControllerTypeOK
    <3> QED
      BY <1>1, <1>7, <3>2, <3>3 DEF ReadData
  <2>2. devq \in Seq(Byte) /\ Len(devq) \in Nat
    BY DEF TypeOK, MouseTypeOK
  <2>3. ~Silent
    BY <1>5 DEF Silent
  <2>4. Unread = Len(devq) + 1 /\ Unread' = Len(devq)
    <3>1. Unread = Len(devq) + 1
      BY <1>5 DEF Unread
    <3>2. Unread' = Len(devq) + 0
      BY <1>1, <2>1 DEF Unread
    <3> QED
      BY <2>2, <3>1, <3>2
  <2>5. CASE pc = "init_reset_ack"
    <3>1. Off /\ ibf = <<>> /\ Unread = 2
      BY <1>4, <2>3, <2>5 DEF FirstStep, LateSteps
    <3>2. Off' /\ ibf' = <<>> /\ Unread' = 1 /\ pc' = "init_self_test"
      BY <1>1, <2>1, <2>2, <2>4, <2>5, <3>1 DEF Off, AfterResponse
    <3>3. FirstStep'
      BY <3>2 DEF FirstStep
    <3> QED
      BY <1>1, <1>4, <3>3 DEF FirstInv, NoCallInv, FirstCallInv
  <2>6. CASE pc = "init_self_test"
    <3>1. Off /\ ibf = <<>> /\ Unread = 1
      BY <1>4, <2>3, <2>6 DEF FirstStep, LateSteps
    <3>2. devq' = <<>>
      BY <1>1, <2>2, <2>4, <3>1
    <3>3. Silent' /\ ibf' = <<>> /\ pc' = "init_enable"
      BY <1>1, <2>1, <2>6, <3>1, <3>2 DEF Silent, Off, AfterResponse
    <3>4. FirstStep'
      BY <3>3 DEF FirstStep
    <3> QED
      BY <1>1, <1>4, <3>4 DEF FirstInv, NoCallInv, FirstCallInv
  <2>7. CASE pc = "init_enable_ack"
    <3>1. reporting /\ ibf = <<>>
      BY <1>4, <2>3, <2>7 DEF FirstStep, LateSteps
    <3>2. reporting' /\ ibf' = <<>> /\ pc' = "init_rate"
      BY <1>1, <2>1, <2>7, <3>1 DEF AfterResponse
    <3>3. FirstStep'
      BY <3>2 DEF FirstStep
    <3> QED
      BY <1>1, <1>4, <3>3 DEF FirstInv, NoCallInv, FirstCallInv
  <2>8. pc \in {"init_reset_ack", "init_self_test", "init_enable_ack"}
    BY <1>1, <1>4 DEF FirstStep, Waiting, LateSteps
  <2> QED
    BY <2>5, <2>6, <2>7, <2>8
<1> QED
  BY <1>6, <1>7

\* The other steps of the first call.
LEMMA FirstThread ==
  ASSUME TypeOK, FirstInv, Thread, ~ReadResponse PROVE FirstInv'
<1>1. UNCHANGED calls
  BY DEF Thread, PollFull, PollTimeout, ReadResponse, InitReset, InitEnable,
         InitRate, InitRateValue, InitIndex, InitReady, EnableRunning,
         DisableReady, RateValue, RateDone, Goto
<1>2. SUFFICES ASSUME calls \in {0, 1} PROVE FirstInv'
  BY <1>1 DEF FirstInv, NoCallInv, FirstCallInv
<1>3. pc # "idle"
  BY DEF Thread, PollFull, PollTimeout, ReadResponse, InitReset, InitEnable,
         InitRate, InitRateValue, InitIndex, InitReady, EnableRunning,
         DisableReady, RateValue, RateDone, Goto, Waiting
<1>4. calls = 1 /\ state = "UNINITIALIZED" /\ FirstStep
  BY <1>2, <1>3, NoSteps
<1>5. CASE PollFull
  BY <1>5, FirstKept DEF PollFull, driverVars, mouseVars, firstVars
<1>6. CASE PollTimeout
  <2>1. pc' = "idle" /\ UNCHANGED state
    BY <1>6 DEF PollTimeout, driverVars
  <2> QED
    BY <1>1, <1>4, <2>1 DEF FirstInv, NoCallInv, FirstCallInv
<1>7. ASSUME FirstStep', UNCHANGED state PROVE FirstInv'
  BY <1>1, <1>4, <1>7 DEF FirstInv, NoCallInv, FirstCallInv
<1>8. CASE InitReset
  <2>1. /\ pc = "init_reset" /\ pc' = "init_reset_ack"
        /\ ibf' \in {ibf, <<DATA, MOUSE_CMD_RESET>>}
        /\ UNCHANGED <<state, obf, devq, reporting, parameter>>
    BY <1>8 DEF InitReset, Goto, Write, Out8, driverVars, mouseVars
  <2>2. Silent /\ ibf \in {<<>>, <<STATUS, AUX_DISABLE>>}
    BY <1>4, <2>1 DEF FirstStep, LateSteps
  <2>3. Silent'
    BY <2>1, <2>2 DEF Silent, Off
  <2>4. FirstStep'
    BY <2>1, <2>2, <2>3 DEF FirstStep
  <2> QED
    BY <1>7, <2>1, <2>4
<1>9. CASE InitEnable
  <2>1. /\ pc = "init_enable" /\ pc' = "init_enable_ack"
        /\ ibf' \in {ibf, <<DATA, MOUSE_CMD_ENABLE>>}
        /\ UNCHANGED <<state, obf, devq, reporting, parameter>>
    BY <1>9 DEF InitEnable, Goto, Write, Out8, driverVars, mouseVars
  <2>2. Silent /\ ibf = <<>>
    BY <1>4, <2>1 DEF FirstStep, LateSteps
  <2>3. Silent'
    BY <2>1, <2>2 DEF Silent, Off
  <2>4. FirstStep'
    BY <2>1, <2>2, <2>3 DEF FirstStep
  <2> QED
    BY <1>7, <2>1, <2>4
<1>10. CASE InitRate
  <2>1. /\ pc = "init_rate" /\ pc' = "init_rate_value"
        /\ ibf' \in {ibf, <<DATA, MOUSE_CMD_SET_SAMPLE_RATE>>}
        /\ UNCHANGED <<state, reporting>>
    BY <1>10 DEF InitRate, Goto, Write, Out8, driverVars, mouseVars
  <2>2. reporting /\ ibf = <<>>
    BY <1>4, <2>1 DEF FirstStep, LateSteps
  <2>3. SetUp'
    BY <2>1, <2>2 DEF SetUp, LateBytes
  <2>4. FirstStep'
    BY <2>1, <2>3 DEF FirstStep, LateSteps
  <2> QED
    BY <1>7, <2>1, <2>4
<1>11. CASE InitRateValue \/ InitIndex
  <2>1. /\ pc \in LateSteps /\ pc' \in LateSteps
        /\ ibf' \in {ibf, <<DATA, DEFAULT_RATE>>}
        /\ UNCHANGED <<state, reporting>>
    BY <1>11 DEF InitRateValue, InitIndex, Goto, Write, Local, Out8, driverVars,
                 mouseVars, LateSteps
  <2>2. SetUp
    BY <1>4, <2>1 DEF FirstStep, LateSteps
  <2>3. SetUp'
    BY <2>1, <2>2 DEF SetUp, LateBytes
  <2>4. FirstStep'
    BY <2>1, <2>3 DEF FirstStep
  <2> QED
    BY <1>7, <2>1, <2>4
<1>12. CASE InitReady
  <2>1. /\ pc = "init_ready" /\ pc' = "idle" /\ state' = "READY"
        /\ UNCHANGED <<ibf, reporting>>
    BY <1>12 DEF InitReady, Goto, Local, mouseVars
  <2>2. SetUp
    BY <1>4, <2>1 DEF FirstStep, LateSteps
  <2>3. SetUp'
    BY <2>1, <2>2 DEF SetUp
  <2> QED
    BY <1>1, <1>4, <2>1, <2>3 DEF FirstInv, NoCallInv, FirstCallInv
<1>13. ~EnableRunning /\ ~DisableReady /\ ~RateValue /\ ~RateDone
  BY <1>2, NoSteps DEF EnableRunning, DisableReady, RateValue, RateDone, Goto,
                       LateSteps
<1> QED
  BY <1>5, <1>6, <1>8, <1>9, <1>10, <1>11, <1>12, <1>13 DEF Thread

LEMMA FirstCall ==
  ASSUME TypeOK, FirstInv, Call PROVE FirstInv'
<1>1. pc = "idle" /\ calls' = calls + 1 /\ calls \in Nat
  BY DEF Call, InitDisable, Mouse_Enable, Mouse_Disable, Mouse_SetSampleRate,
         Enter, TypeOK, ThreadTypeOK
<1>2. CASE calls # 0
  BY <1>1, <1>2 DEF FirstInv, NoCallInv, FirstCallInv
<1>3. CASE calls = 0
  <2>1. state = "UNINITIALIZED" /\ Silent /\ ibf = <<>>
    BY <1>3 DEF FirstInv, NoCallInv
  <2>2. InitDisable
    BY <2>1 DEF Call, Mouse_Enable, Mouse_Disable, Mouse_SetSampleRate
  <2>3. /\ pc' = "init_reset" /\ ibf' \in {ibf, <<STATUS, AUX_DISABLE>>}
        /\ UNCHANGED <<state, obf, devq, reporting, parameter>>
    BY <2>2 DEF InitDisable, Enter, Write, Out8, driverVars, mouseVars
  <2>4. Silent'
    BY <2>1, <2>3 DEF Silent, Off
  <2>5. FirstStep'
    BY <2>1, <2>3, <2>4 DEF FirstStep
  <2> QED
    BY <1>1, <1>3, <2>1, <2>3, <2>5 DEF FirstInv, NoCallInv, FirstCallInv
<1> QED
  BY <1>2, <1>3

LEMMA FirstInvNext ==
  ASSUME TypeOK, PolledByteIsFresh, FirstInv, [Next]_vars PROVE FirstInv'
<1>1. CASE Mouse_InterruptHandler
  <2>1. UNCHANGED <<calls, state, pc, ibf, devq, reporting, parameter>>
    BY <1>1 DEF Mouse_InterruptHandler, threadVars, mouseVars
  <2>2. CASE calls \in {0, 1}
    <3>1. UNCHANGED obf
      BY <1>1, <2>2, FirstNotRunning DEF Mouse_InterruptHandler
    <3> QED
      BY <2>1, <3>1, FirstKept DEF firstVars
  <2>3. CASE calls \notin {0, 1}
    BY <2>1, <2>3 DEF FirstInv, NoCallInv, FirstCallInv
  <2> QED
    BY <2>2, <2>3
<1>2. ASSUME NEW port \in LockablePorts, SetLock(port) PROVE FirstInv'
  BY <1>2, FirstKept DEF SetLock, driverVars, threadVars, mouseVars, firstVars
<1>3. CASE UNCHANGED vars
  BY <1>3, FirstKept DEF vars, driverVars, threadVars, mouseVars, firstVars
<1> QED
  BY <1>1, <1>2, <1>3, FirstCall, FirstThread, FirstRead, FirstTakes,
     FirstPresent, FirstMoves DEF Next, Hardware, Environment

LEMMA FirstInvariant == Spec => []FirstInv
<1>1. Init => FirstInv
  <2>1. Init => NoCallInv
    BY DEF Init, NoCallInv, Silent, Off
  <2> QED
    BY <2>1 DEF Init, FirstInv, FirstCallInv
<1> QED
  BY <1>1, FirstInvNext, Typing, PolledFresh, PTL DEF Spec

\* In the first Mouse_Init an answer is taken for a command only after the
\* mouse has taken that command: what the poll finds is not left over.
THEOREM AckFollows == Spec => []FirstCallAckFollows
<1>1. FirstInv => FirstCallAckFollows
  BY DEF FirstInv, FirstCallInv, FirstStep, FirstCallAckFollows, AfterAck,
         LateSteps
<1> QED
  BY <1>1, FirstInvariant, PTL

\* After its first Mouse_Init the driver is READY while the mouse reports.
THEOREM InitEnables == Spec => []FirstInitEnables
<1>1. FirstInv => FirstInitEnables
  BY DEF FirstInv, FirstCallInv, SetUp, FirstInitEnables
<1> QED
  BY <1>1, FirstInvariant, PTL
=============================================================================
