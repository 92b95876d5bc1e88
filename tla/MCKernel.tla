------------------------------ MODULE MCKernel ------------------------------
(* Instance of Kernel for TLC: a memory of Particiones equal partitions,   *)
(* as memoria.config lists them.                                           *)
EXTENDS Kernel

CONSTANT Particiones   \* how many partitions the memory has

MCEntra(S, p) == Cardinality(S) < Particiones
=============================================================================
