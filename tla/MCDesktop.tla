----------------------------- MODULE MCDesktop -----------------------------
(* An instance of Desktop: two applications and a file that is none.       *)
EXTENDS Desktop

CONSTANTS calc, paint, readme

\* Directories that grow, shrink, change order and hold no application.
SomeDirectories ==
  {<<>>, <<readme>>, <<calc>>, <<calc, readme, paint>>, <<paint, calc>>}
=============================================================================
