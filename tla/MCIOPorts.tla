----------------------------- MODULE MCIOPorts ------------------------------
(***************************************************************************)
(* Model values for IOPorts: an interrupt handler above the threads, and   *)
(* one thread in the background below the others.                          *)
(***************************************************************************)
EXTENDS IOPorts

CONSTANTS
  Handler,      \* the caller that runs at interrupt level
  Background    \* the caller that runs when no other one wants to

\* RT_PRIORITY_REALTIME, RT_PRIORITY_LOW, RT_PRIORITY_NORMAL.
Levels ==
  [c \in Callers |-> CASE c = Handler -> 0 [] c = Background -> 4 [] OTHER -> 3]
=============================================================================
