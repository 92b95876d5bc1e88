---------------------------- MODULE MCLargoPlazo ----------------------------
(* Instance of LargoPlazo for TLC: processes of different sizes. *)
EXTENDS LargoPlazo, FiniteSetsExt

CONSTANT Capacidad   \* units of memory

Tamanio(p) == 1 + (p % 2)

MCEntra(S, p) == MapThenSumSet(Tamanio, S) + Tamanio(p) <= Capacidad
=============================================================================
