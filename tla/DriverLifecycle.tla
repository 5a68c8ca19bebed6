-------------------------- MODULE DriverLifecycle ---------------------------
(***************************************************************************)
(* What the state field of RT_Driver (rt_drivers.h) promises the callers   *)
(* of a driver: an operation is admitted only in the states it needs, one  *)
(* operation runs at a time, and the state moves only when the operation   *)
(* succeeds, to the state that operation announces.  A failed operation    *)
(* leaves it alone.                                                        *)
(***************************************************************************)
CONSTANTS
  States,       \* the driver states
  First,        \* the state a driver starts in
  Operations,   \* the operations of the driver
  Needs,        \* Needs[op]: the states in which op is admitted
  Announces     \* Announces[op]: the states a successful op may end in

VARIABLES
  state,        \* the state of the driver
  call          \* the operations under way: none or one

vars == <<state, call>>

TypeOK == state \in States /\ call \in SUBSET Operations

Init == state = First /\ call = {}

Begin(op) ==
  /\ call = {}
  /\ state \in Needs[op]
  /\ call' = {op}
  /\ UNCHANGED state

Succeed(op) ==
  /\ call = {op}
  /\ state' \in Announces[op]
  /\ call' = {}

Fail(op) ==
  /\ call = {op}
  /\ call' = {}
  /\ UNCHANGED state

Next == \E op \in Operations : Begin(op) \/ Succeed(op) \/ Fail(op)

Spec == Init /\ [][Next]_vars
=============================================================================
