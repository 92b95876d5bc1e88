------------------------------ MODULE Admision ------------------------------
(***************************************************************************)
(* What the long-term planner of the kernel promises, without semaphores   *)
(* or threads: processes are admitted to memory in their order of arrival, *)
(* a process is admitted only when memory has room for it, nobody          *)
(* overtakes the first process of the queue, and a first process that has  *)
(* room is admitted.                                                       *)
(***************************************************************************)
EXTENDS Naturals, Sequences

CONSTANTS
    Pids,          \* the processes that may arrive
    Entra(_, _)    \* Entra(S, p): memory that holds the processes S has room for p

VARIABLES
    pendientes,    \* FIFO queue of the processes not admitted yet
    activos        \* processes that hold memory

vars == <<pendientes, activos>>

Init == pendientes = <<0>> /\ activos = {}

Llegar(p) ==
    /\ p \notin activos
    /\ \A i \in 1..Len(pendientes) : pendientes[i] # p
    /\ pendientes' = Append(pendientes, p)
    /\ UNCHANGED activos

Admitir ==
    /\ pendientes # <<>>
    /\ Entra(activos, Head(pendientes))
    /\ activos' = activos \cup {Head(pendientes)}
    /\ pendientes' = Tail(pendientes)

Terminar(p) ==
    /\ p \in activos
    /\ activos' = activos \ {p}
    /\ UNCHANGED pendientes

Next ==
    \/ Admitir
    \/ \E p \in Pids : Llegar(p) \/ Terminar(p)

Safety == Init /\ [][Next]_vars

Progreso == WF_vars(Admitir)

Spec == Safety /\ Progreso
=============================================================================
