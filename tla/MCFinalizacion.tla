--------------------------- MODULE MCFinalizacion ---------------------------
(* Instance of Finalizacion for TLC: a process of two threads and one of   *)
(* one, and two dumps at a time.                                           *)
EXTENDS Finalizacion

MCHilos == {<<1, 0>>, <<1, 1>>, <<2, 0>>}
=============================================================================
