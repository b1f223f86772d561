--------------------------- MODULE MCConsoleInput ---------------------------
(* Console ownership with a handful of threads. *)
EXTENDS ConsoleInput
=============================================================================
