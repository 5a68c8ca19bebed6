--------------------------- MODULE IOPortsProofs ----------------------------
(***************************************************************************)
(* Proofs about the port layer, for every set of callers, every assignment *)
(* of priorities and every number of ports.  Nothing is assumed about how  *)
(* the callers use their locks.                                            *)
(***************************************************************************)
EXTENDS IOPorts, TLAPS

\* The tables, the pending operations and the holdings keep their types;
\* in particular no operation is pending on a port outside the table.
THEOREM Typing == Spec => []TypeOK
<1>1. Init => TypeOK
  BY PortsAssumption
     DEF Init, TypeOK, Ports, RT_IOPort, IO_PortConfig, Idle, Job
<1>2. TypeOK /\ [Next]_vars => TypeOK'
  <2> SUFFICES ASSUME TypeOK, [Next]_vars PROVE TypeOK'
    OBVIOUS
  <2> USE PortsAssumption
      DEF TypeOK, Ports, RT_IOPort, Idle, Job, Calls, IO_IsValidPort
  <2>1. ASSUME NEW c \in Callers, LockSet(c) PROVE TypeOK'
    BY <2>1 DEF LockSet, Granted
  <2>2. ASSUME NEW c \in Callers, Access(c) PROVE TypeOK'
    BY <2>2 DEF Access
  <2>3. ASSUME NEW c \in Callers, NEW p \in RT_IOPort, LockTest(c, p)
        PROVE TypeOK'
    BY <2>3 DEF LockTest, Begins
  <2>4. ASSUME NEW c \in Callers, NEW p \in RT_IOPort, IO_UnlockPort(c, p)
        PROVE TypeOK'
    BY <2>4 DEF IO_UnlockPort
  <2>5. ASSUME NEW c \in Callers, NEW p \in RT_IOPort,
               NEW dir \in {"in", "out"}, AccessTest(c, p, dir)
        PROVE TypeOK'
    BY <2>5 DEF AccessTest, Begins, IO_IsPortLocked
  <2>6. ASSUME NEW c \in Callers, NEW p \in RT_IOPort,
               NEW config \in IO_PortConfig, IO_InitPort(c, p, config)
        PROVE TypeOK'
    BY <2>6 DEF IO_InitPort
  <2>7. ASSUME NEW c \in Callers, NEW p \in RT_IOPort,
               NEW mode \in IO_PortMode, IO_SetPortMode(c, p, mode)
        PROVE TypeOK'
    BY <2>7 DEF IO_SetPortMode, IO_PortConfig
  <2>8. ASSUME NEW c \in Callers, NEW p \in RT_IOPort,
               NEW type \in IO_PortAccessType, IO_SetPortAccessType(c, p, type)
        PROVE TypeOK'
    BY <2>8 DEF IO_SetPortAccessType, IO_PortConfig
  <2>9. CASE UNCHANGED vars
    BY <2>9 DEF vars
  <2> HIDE DEF TypeOK, Ports, RT_IOPort, Idle, Job, Calls, IO_IsValidPort
  <2> QED
    BY <2>1, <2>2, <2>3, <2>4, <2>5, <2>6, <2>7, <2>8, <2>9 DEF Next
<1> QED
  BY <1>1, <1>2, PTL DEF Spec

-----------------------------------------------------------------------------
(* The steps by what they change.  A configuration write changes nothing   *)
(* the lock properties look at.                                            *)

LockVars == <<port_locks, job, held, overtook>>

LEMMA Steps ==
  ASSUME TypeOK, [Next]_vars
  PROVE  \/ \E c \in Callers : LockSet(c)
         \/ \E c \in Callers : Access(c)
         \/ \E c \in Callers, p \in Ports : LockTest(c, p)
         \/ \E c \in Callers, p \in Ports : IO_UnlockPort(c, p)
         \/ \E c \in Callers, p \in Ports, direction \in {"in", "out"} :
              AccessTest(c, p, direction)
         \/ UNCHANGED LockVars
<1>1. \A p \in RT_IOPort : IO_IsValidPort(p) => p \in Ports
  BY PortsAssumption DEF RT_IOPort, Ports, IO_IsValidPort
<1>2. ASSUME NEW c \in Callers, NEW p \in RT_IOPort,
             \/ \E config \in IO_PortConfig : IO_InitPort(c, p, config)
             \/ \E mode \in IO_PortMode : IO_SetPortMode(c, p, mode)
             \/ \E type \in IO_PortAccessType : IO_SetPortAccessType(c, p, type)
      PROVE UNCHANGED LockVars
  BY <1>2 DEF LockVars, IO_InitPort, IO_SetPortMode, IO_SetPortAccessType
<1>3. CASE UNCHANGED vars
  BY <1>3 DEF vars, LockVars
<1>4. ASSUME NEW c \in Callers, NEW p \in RT_IOPort,
             \/ LockTest(c, p)
             \/ IO_UnlockPort(c, p)
             \/ \E direction \in {"in", "out"} : AccessTest(c, p, direction)
      PROVE p \in Ports
  BY <1>1, <1>4 DEF LockTest, IO_UnlockPort, AccessTest, IO_IsPortLocked
<1> QED
  BY <1>2, <1>3, <1>4 DEF Next

\* Whoever is granted a port overtakes the pending operations on it: only a
\* higher priority runs in the middle of another caller's operation.
LEMMA GrantOvertakes ==
  ASSUME TypeOK, NEW b \in Callers, LockSet(b), NEW c \in Callers \ {b},
         NEW p, p = job[b].port, job[c] # Idle, job[c].port = p
  PROVE  Overtook(b, c, p)'
<1>1. <<b, c, p>> \in overtook'
  BY DEF LockSet, Granted
<1>2. Priority[b] < Priority[c]
  BY DEF LockSet, CanRun
<1> QED
  BY <1>1, <1>2 DEF Overtook

\* A grant forgets none of the others.
LEMMA GrantKeeps ==
  ASSUME NEW b \in Callers, LockSet(b),
         NEW c \in Callers, NEW d \in Callers, NEW p \in Ports,
         Overtook(d, c, p)
  PROVE  Overtook(d, c, p)'
BY DEF LockSet, Granted, Overtook

\* A test of port p by b forgets only who overtook b on p.
LEMMA BeginKeeps ==
  ASSUME NEW b \in Callers, NEW q \in Ports, NEW kind, Begins(b, kind, q),
         NEW c \in Callers, NEW d \in Callers, NEW p \in Ports,
         Overtook(d, c, p), c # b \/ p # q
  PROVE  Overtook(d, c, p)'
BY DEF Begins, Overtook

-----------------------------------------------------------------------------
(* The lock table.                                                         *)

\* What a caller was granted stays locked until someone unlocks it: neither a
\* configuration write nor another caller's locking opens it, whoever
\* preempts whom.
THEOREM LockTable == Spec => []HeldStaysLocked
<1>1. Init => HeldStaysLocked
  BY DEF Init, HeldStaysLocked
<1>2. TypeOK /\ HeldStaysLocked /\ [Next]_vars => HeldStaysLocked'
  <2> SUFFICES ASSUME TypeOK, HeldStaysLocked, [Next]_vars
               PROVE  HeldStaysLocked'
    OBVIOUS
  <2> USE DEF TypeOK, HeldStaysLocked
  <2>1. ASSUME NEW c \in Callers, LockSet(c) PROVE HeldStaysLocked'
    BY <2>1 DEF LockSet, Granted, Idle
  <2>2. ASSUME NEW c \in Callers, NEW p \in Ports, IO_UnlockPort(c, p)
        PROVE HeldStaysLocked'
    BY <2>2 DEF IO_UnlockPort
  <2>3. ASSUME UNCHANGED <<port_locks, held>> PROVE HeldStaysLocked'
    BY <2>3
  <2> QED
    BY <2>1, <2>2, <2>3, Steps DEF Access, LockTest, AccessTest, LockVars
<1> QED
  BY <1>1, <1>2, Typing, PTL DEF Spec

\* No lock is lost: every locked port was granted to a caller and not
\* unlocked since.
THEOREM NoLockIsLost == Spec => []LockedIsHeld
<1>1. Init => LockedIsHeld
  BY DEF Init, LockedIsHeld
<1>2. TypeOK /\ LockedIsHeld /\ [Next]_vars => LockedIsHeld'
  <2> SUFFICES ASSUME TypeOK, LockedIsHeld, [Next]_vars PROVE LockedIsHeld'
    OBVIOUS
  <2> USE DEF TypeOK, LockedIsHeld
  <2>1. ASSUME NEW c \in Callers, LockSet(c) PROVE LockedIsHeld'
    BY <2>1 DEF LockSet, Granted, Idle
  <2>2. ASSUME NEW c \in Callers, NEW p \in Ports, IO_UnlockPort(c, p)
        PROVE LockedIsHeld'
    BY <2>2 DEF IO_UnlockPort
  <2>3. ASSUME UNCHANGED <<port_locks, held>> PROVE LockedIsHeld'
    BY <2>3
  <2> QED
    BY <2>1, <2>2, <2>3, Steps DEF Access, LockTest, AccessTest, LockVars
<1> QED
  BY <1>1, <1>2, Typing, PTL DEF Spec

-----------------------------------------------------------------------------
(* Shared ports.  SharedIsOvertaken is not inductive: it takes that a      *)
(* caller which tested a port and finds it granted to another one when it  *)
(* acts was overtaken by that one.                                         *)

TestedFirst ==
  \A c, d \in Callers : (c # d /\ job[c] # Idle /\ job[c].port \in held[d])
    => Overtook(d, c, job[c].port)

SharingInv == TypeOK /\ HeldStaysLocked /\ TestedFirst /\ SharedIsOvertaken

LEMMA SharingGrant ==
  ASSUME SharingInv, NEW b \in Callers, LockSet(b)
  PROVE  TestedFirst' /\ SharedIsOvertaken'
<1> USE DEF SharingInv
<1>1. PICK p \in Ports : p = job[b].port
  BY DEF LockSet, TypeOK, Idle
<1>2. /\ held' = [held EXCEPT ![b] = @ \union {p}]
      /\ job' = [job EXCEPT ![b] = Idle]
  BY <1>1 DEF LockSet, Granted
<1>3. ASSUME NEW c \in Callers, NEW d \in Callers, c # d,
             job'[c] # Idle, job'[c].port \in held'[d]
      PROVE  Overtook(d, c, job[c].port)'
  <2>1. c # b /\ job'[c] = job[c] /\ job[c].port \in Ports
    BY <1>2, <1>3 DEF TypeOK
  <2>2. CASE d = b /\ job[c].port = p
    <3>1. Overtook(b, c, p)'
      BY <1>1, <1>3, <2>1, <2>2, GrantOvertakes
    <3> QED
      BY <2>1, <2>2, <3>1 DEF Overtook
  <2>3. CASE ~(d = b /\ job[c].port = p)
    <3>1. job[c].port \in held[d]
      BY <1>2, <1>3, <2>1, <2>3 DEF TypeOK
    <3>2. Overtook(d, c, job[c].port)
      BY <1>3, <2>1, <3>1 DEF TestedFirst
    <3> QED
      BY <2>1, <3>2, GrantKeeps
  <2> QED
    BY <2>2, <2>3
<1>4. TestedFirst'
  <2>1. \A c \in Callers : job'[c] # Idle => job'[c] = job[c]
    BY <1>2 DEF TypeOK
  <2> QED
    BY <1>3, <2>1 DEF TestedFirst, Overtook
<1>5. ASSUME NEW c \in Callers, NEW d \in Callers, c # d,
             NEW q \in held'[c] \intersect held'[d]
      PROVE  Overtook(c, d, q)' \/ Overtook(d, c, q)'
  <2>0. q \in Ports
    BY <1>2, <1>5 DEF TypeOK
  <2>1. CASE q \in held[c] /\ q \in held[d]
    BY <1>5, <2>0, <2>1, GrantKeeps DEF SharedIsOvertaken
  <2>2. CASE q \notin held[c]
    <3>1. c = b /\ q = p /\ q \in held[d]
      BY <1>2, <1>5, <2>2 DEF TypeOK
    <3>2. Overtook(d, c, q)
      BY <1>1, <1>5, <3>1 DEF TestedFirst, LockSet, Idle
    <3> QED
      BY <2>0, <3>2, GrantKeeps
  <2>3. CASE q \notin held[d]
    <3>1. d = b /\ q = p /\ q \in held[c]
      BY <1>2, <1>5, <2>3 DEF TypeOK
    <3>2. Overtook(c, d, q)
      BY <1>1, <1>5, <3>1 DEF TestedFirst, LockSet, Idle
    <3> QED
      BY <2>0, <3>2, GrantKeeps
  <2> QED
    BY <2>1, <2>2, <2>3
<1>6. SharedIsOvertaken'
  BY <1>5 DEF SharedIsOvertaken
<1> QED
  BY <1>4, <1>6

\* A test begins only on a port that nobody has been granted, so that nothing
\* it forgets about overtaking was needed.
LEMMA SharingBegin ==
  ASSUME SharingInv, NEW b \in Callers, NEW p \in Ports, ~port_locks[p],
         NEW kind, Begins(b, kind, p), held' = held
  PROVE  TestedFirst' /\ SharedIsOvertaken'
<1> USE DEF SharingInv
<1>1. \A d \in Callers : p \notin held[d]
  BY DEF HeldStaysLocked
<1>2. ASSUME NEW c \in Callers, NEW d \in Callers, c # d,
             job'[c] # Idle, job'[c].port \in held[d]
      PROVE  job'[c] = job[c] /\ Overtook(d, c, job[c].port)'
  <2>1. c # b
    BY <1>1, <1>2 DEF Begins, TypeOK
  <2>2. job'[c] = job[c]
    BY <2>1 DEF Begins, TypeOK
  <2>3. Overtook(d, c, job[c].port) /\ job[c].port \in Ports
    BY <1>2, <2>2 DEF TestedFirst, TypeOK
  <2> QED
    BY <2>1, <2>2, <2>3, BeginKeeps
<1>3. TestedFirst'
  BY <1>2 DEF TestedFirst, Overtook
<1>4. ASSUME NEW c \in Callers, NEW d \in Callers, c # d,
             NEW q \in held[c] \intersect held[d]
      PROVE  Overtook(c, d, q)' \/ Overtook(d, c, q)'
  <2>1. q # p /\ q \in Ports
    BY <1>1, <1>4 DEF TypeOK
  <2>2. Overtook(c, d, q) \/ Overtook(d, c, q)
    BY <1>4 DEF SharedIsOvertaken
  <2> QED
    BY <2>1, <2>2, BeginKeeps
<1>5. SharedIsOvertaken'
  BY <1>4 DEF SharedIsOvertaken
<1> QED
  BY <1>3, <1>5

\* Whatever the callers, their priorities and their use of the locks, a port
\* is granted to two callers only by the one overtaking the other between its
\* test and its set.
THEOREM Sharing == Spec => []SharedIsOvertaken
<1>1. Init => TestedFirst /\ SharedIsOvertaken
  BY DEF Init, TestedFirst, SharedIsOvertaken
<1>2. SharingInv /\ [Next]_vars => (TestedFirst /\ SharedIsOvertaken)'
  <2> SUFFICES ASSUME SharingInv, [Next]_vars
               PROVE  TestedFirst' /\ SharedIsOvertaken'
    OBVIOUS
  <2> USE DEF SharingInv
  <2>1. ASSUME NEW c \in Callers, LockSet(c)
        PROVE  TestedFirst' /\ SharedIsOvertaken'
    BY <2>1, SharingGrant
  <2>2. ASSUME NEW c \in Callers, NEW p \in Ports, LockTest(c, p)
        PROVE  TestedFirst' /\ SharedIsOvertaken'
    BY <2>2, SharingBegin DEF LockTest
  <2>3. ASSUME NEW c \in Callers, NEW p \in Ports,
               NEW direction \in {"in", "out"}, AccessTest(c, p, direction)
        PROVE  TestedFirst' /\ SharedIsOvertaken'
    BY <2>3, SharingBegin DEF AccessTest, IO_IsPortLocked
  <2>4. ASSUME NEW c \in Callers, NEW p \in Ports, IO_UnlockPort(c, p)
        PROVE  TestedFirst' /\ SharedIsOvertaken'
    BY <2>4 DEF IO_UnlockPort, TypeOK, TestedFirst, SharedIsOvertaken, Overtook
  <2>5. ASSUME NEW c \in Callers, Access(c)
        PROVE  TestedFirst' /\ SharedIsOvertaken'
    BY <2>5 DEF Access, TypeOK, TestedFirst, SharedIsOvertaken, Overtook
  <2>6. CASE UNCHANGED LockVars
    BY <2>6 DEF LockVars, TestedFirst, SharedIsOvertaken, Overtook
  <2> HIDE DEF SharingInv
  <2> QED
    BY <2>1, <2>2, <2>3, <2>4, <2>5, <2>6, Steps DEF SharingInv
<1>3. TypeOK /\ HeldStaysLocked /\ TestedFirst /\ SharedIsOvertaken => SharingInv
  BY DEF SharingInv
<1> QED
  BY <1>1, <1>2, <1>3, Typing, LockTable, PTL DEF Spec

-----------------------------------------------------------------------------
(* Late accesses.                                                          *)

\* Whatever the callers and their priorities, a port instruction comes upon a
\* locked port only when a higher context was granted the port between the
\* test of this access and the instruction, and has it still.
THEOREM LateAccess == Spec => []LateAccessIsPreempted
<1>1. Init => LateAccessIsPreempted
  BY DEF Init, LateAccessIsPreempted, Accessing, Idle
<1>2. TypeOK /\ LateAccessIsPreempted /\ [Next]_vars => LateAccessIsPreempted'
  <2> SUFFICES ASSUME TypeOK, LateAccessIsPreempted, [Next]_vars,
                      NEW c \in Callers, Accessing(c)', port_locks'[job'[c].port]
               PROVE \E d \in Callers :
                       job'[c].port \in held'[d] /\ Overtook(d, c, job[c].port)'
                         /\ job'[c] = job[c]
    BY DEF LateAccessIsPreempted, Overtook
  <2>1. CASE \E b \in Callers : LockSet(b)
    <3>1. PICK b \in Callers : LockSet(b)
      BY <2>1
    <3>2. b # c /\ job[c] # Idle /\ job'[c] = job[c] /\ job[c].port \in Ports
      BY <3>1 DEF LockSet, Granted, TypeOK, Idle, Accessing
    <3>3. CASE job[c].port = job[b].port
      <4>0. PICK p \in Ports : p = job[c].port
        BY <3>2
      <4>1. Overtook(b, c, p)'
        BY <3>1, <3>2, <3>3, <4>0, GrantOvertakes
      <4>2. job[c].port \in held'[b]
        BY <3>1, <3>3 DEF LockSet, Granted, TypeOK
      <4> QED
        BY <3>2, <4>0, <4>1, <4>2 DEF Overtook
    <3>4. CASE job[c].port # job[b].port
      <4>1. port_locks[job[c].port]
        BY <3>1, <3>2, <3>4 DEF LockSet, TypeOK
      <4>2. PICK d \in Callers :
              job[c].port \in held[d] /\ Overtook(d, c, job[c].port)
        BY <3>2, <4>1 DEF LateAccessIsPreempted, Accessing
      <4>3. job[c].port \in held'[d]
        BY <3>1, <4>2 DEF LockSet, Granted, TypeOK
      <4> QED
        BY <3>1, <3>2, <4>2, <4>3, GrantKeeps
    <3> QED
      BY <3>3, <3>4
  <2>2. ASSUME NEW b \in Callers, NEW p \in Ports, NEW kind, ~port_locks[p],
               Begins(b, kind, p), UNCHANGED <<port_locks, held>>
        PROVE \E d \in Callers :
                job'[c].port \in held'[d] /\ Overtook(d, c, job[c].port)'
                  /\ job'[c] = job[c]
    <3>1. c # b
      BY <2>2 DEF Begins, TypeOK
    <3>2. job'[c] = job[c] /\ job[c].port \in Ports
      BY <2>2, <3>1 DEF Begins, TypeOK, Idle, Accessing
    <3>3. PICK d \in Callers :
            job[c].port \in held[d] /\ Overtook(d, c, job[c].port)
      BY <2>2, <3>2 DEF LateAccessIsPreempted, Accessing
    <3> QED
      BY <2>2, <3>1, <3>2, <3>3, BeginKeeps
  <2>3. CASE \E b \in Callers, p \in Ports : LockTest(b, p)
    BY <2>2, <2>3 DEF LockTest
  <2>4. CASE \E b \in Callers, p \in Ports, direction \in {"in", "out"} :
               AccessTest(b, p, direction)
    BY <2>2, <2>4 DEF AccessTest, IO_IsPortLocked
  <2>5. CASE \E b \in Callers, p \in Ports : IO_UnlockPort(b, p)
    <3>1. PICK b \in Callers, p \in Ports : IO_UnlockPort(b, p)
      BY <2>5
    <3>2. job' = job /\ overtook' = overtook /\ job[c].port # p
      BY <3>1 DEF IO_UnlockPort, TypeOK
    <3>3. job[c].port \in Ports /\ port_locks[job[c].port]
      BY <3>1, <3>2 DEF IO_UnlockPort, TypeOK, Idle, Accessing
    <3>4. PICK d \in Callers :
            job[c].port \in held[d] /\ Overtook(d, c, job[c].port)
      BY <3>2, <3>3 DEF LateAccessIsPreempted, Accessing
    <3>5. job[c].port \in held'[d]
      BY <3>1, <3>2, <3>4 DEF IO_UnlockPort
    <3> QED
      BY <3>2, <3>4, <3>5 DEF Overtook
  <2>6. CASE \E b \in Callers : Access(b)
    <3>1. PICK b \in Callers : Access(b)
      BY <2>6
    <3>2. c # b
      BY <3>1 DEF Access, TypeOK, Idle, Accessing
    <3>3. job'[c] = job[c] /\ UNCHANGED <<port_locks, held, overtook>>
      BY <3>1, <3>2 DEF Access, TypeOK
    <3>4. PICK d \in Callers :
            job[c].port \in held[d] /\ Overtook(d, c, job[c].port)
      BY <3>3 DEF LateAccessIsPreempted, Accessing
    <3> QED
      BY <3>3, <3>4 DEF Overtook
  <2>7. CASE UNCHANGED LockVars
    BY <2>7 DEF LockVars, Accessing, LateAccessIsPreempted, Overtook
  <2> QED
    BY <2>1, <2>3, <2>4, <2>5, <2>6, <2>7, Steps
<1> QED
  BY <1>1, <1>2, Typing, PTL DEF Spec
=============================================================================
