-------------------------- MODULE MCKernelLoader ---------------------------
(***************************************************************************)
(* Sizes for KernelLoader: every size a small word can hold.               *)
(***************************************************************************)
EXTENDS KernelLoader

AnySize == 0..(Word - 1)
=============================================================================
