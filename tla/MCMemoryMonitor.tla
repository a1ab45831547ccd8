--------------------------- MODULE MCMemoryMonitor ---------------------------
(* MemoryMonitor with memory that is ample, low or critically low and swap    *)
(* that grows or not.                                                         *)
EXTENDS MemoryMonitor

=============================================================================
