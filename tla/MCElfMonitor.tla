---------------------------- MODULE MCElfMonitor ----------------------------
(***************************************************************************)
(* A tree for ElfMonitor: a directory in a directory, files before and     *)
(* after it, an empty directory, links.                                    *)
(***************************************************************************)
EXTENDS ElfMonitor

CONSTANTS bin, lib, init, calc, libc, motd, link, dot, paint

SmallTree ==
  (Root :> <<dot, bin, init>>) @@ (bin :> <<calc, lib, motd>>)
    @@ (lib :> <<libc, link>>)
TinyTree == Root :> <<init>>
=============================================================================
