--------------------------- MODULE MCKernelLocks ---------------------------
(* The kernel's locks under three threads. *)
EXTENDS KernelLocks
=============================================================================
