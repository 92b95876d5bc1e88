---------------------------- MODULE MCParticiones ----------------------------
(* Instance of Particiones for TLC: a memory of a few bytes. *)
EXTENDS Particiones, TLC

MCPARTICIONES == <<2, 4, 2>>
Todas == [esquema : {"FIJAS", "DINAMICAS"}, algoritmo : {"FIRST", "BEST", "WORST"}]
SoloFijas == {c \in Todas : c.esquema = "FIJAS"}
SoloDinamicas == {c \in Todas : c.esquema = "DINAMICAS"}
Simetria == Permutations(Procesos)
=============================================================================
