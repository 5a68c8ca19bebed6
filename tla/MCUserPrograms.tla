--------------------------- MODULE MCUserPrograms ---------------------------
(* Two applications and a file that is none; an empty tree to scan.        *)
EXTENDS UserPrograms

CONSTANTS calc, paint, readme

\* Directories that grow, shrink, change order and hold no application.
SomeDirectories ==
  {<<>>, <<calc, readme>>, <<paint, calc>>}
EmptyTree == Root :> <<>>
=============================================================================
