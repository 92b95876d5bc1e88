------------------------------ MODULE Estados ------------------------------
(***************************************************************************)
(* The life of a thread as the kernel promises it: it is created READY, it *)
(* executes when nobody else does, it leaves EXEC to READY or to BLOCKED,  *)
(* comes back from BLOCKED to READY only, and ends.  Each move is one      *)
(* step; module Transiciones shows how the kernel makes them.              *)
(***************************************************************************)

CONSTANTS Hilos
VARIABLE estado

Nadie == \A h \in Hilos : estado[h] # "EXEC"

Mover(h, desde, hasta) ==
    /\ estado[h] = desde
    /\ estado' = [estado EXCEPT ![h] = hasta]

Crear(h)     == Mover(h, "NINGUNO", "READY")
Despachar(h) == Nadie /\ Mover(h, "READY", "EXEC")
Desalojar(h) == Mover(h, "EXEC", "READY")
Bloquear(h)  == Mover(h, "EXEC", "BLOCKED")
Despertar(h) == Mover(h, "BLOCKED", "READY")

(* A thread ends by itself, from EXEC; with its process, from any state.   *)
Terminar(h)  == \E desde \in {"READY", "EXEC", "BLOCKED"} : Mover(h, desde, "EXIT")

Init == estado = [h \in Hilos |-> "NINGUNO"]

Next ==
    \E h \in Hilos :
        Crear(h) \/ Despachar(h) \/ Desalojar(h) \/ Bloquear(h) \/ Despertar(h) \/ Terminar(h)

Spec == Init /\ [][Next]_estado
=============================================================================
