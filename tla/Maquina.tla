------------------------------ MODULE Maquina ------------------------------
(***************************************************************************)
(* What a programmer is promised: every thread has registers of its own    *)
(* and shares the memory, and its program advances one whole instruction   *)
(* at a time, whatever the other threads, the interrupts and the blocking  *)
(* syscalls do between two instructions.                                   *)
(***************************************************************************)
EXTENDS Instrucciones, Sequences

CONSTANTS
    Hilos,          \* threads, as <<pid, tid>>
    Programa(_),    \* the instructions of a thread
    Base(_),        \* of the partition of a process
    Limite(_)

VARIABLES
    registros,      \* [Hilos -> contexts]
    memoria,        \* the user memory, by physical address
    vida            \* of each thread: "por_nacer", "vivo" or "muerto"

vars == <<registros, memoria, vida>>

Nuevo(h) == ContextoInicial(Base(h[1]), Limite(h[1]))

Init ==
    /\ registros = [h \in Hilos |-> Nuevo(h)]
    /\ memoria = [d \in 0..TAM_MEMORIA - 1 |-> 0]
    /\ vida = [h \in Hilos |-> "por_nacer"]

Nacer(h) ==
    /\ vida[h] = "por_nacer"
    /\ vida' = [vida EXCEPT ![h] = "vivo"]
    /\ UNCHANGED <<registros, memoria>>

(* Those that end lose their registers. *)
Terminan(hs) ==
    /\ vida' = [h \in Hilos |-> IF h \in hs THEN "muerto" ELSE vida[h]]
    /\ registros' = [h \in Hilos |-> IF h \in hs THEN Nuevo(h) ELSE registros[h]]
    /\ UNCHANGED memoria

DelProceso(h) == {k \in Hilos : k[1] = h[1]}

Instruccion(h) ==
    LET ctx == registros[h]
        i == Programa(h)[ctx.PC + 1]
    IN  /\ vida[h] = "vivo"
        /\ ctx.PC < Len(Programa(h))
        /\ IF SegFault(ctx, i) \/ i.op = "PROCESS_EXIT" THEN Terminan(DelProceso(h))
           ELSE IF i.op = "THREAD_EXIT" THEN Terminan({h})
           ELSE /\ registros' = [registros EXCEPT
                        ![h] = IF i.op = "READ_MEM" THEN read_mem(ctx, memoria, i)
                               ELSE Calcular(ctx, i)]
                /\ memoria' = IF i.op = "WRITE_MEM" THEN write_mem(ctx, memoria, i)
                              ELSE memoria
                /\ UNCHANGED vida

(* The dump that a thread asked for may fail: its process is finalised.    *)
VolcadoFallido(h) ==
    /\ vida[h] = "vivo" /\ registros[h].PC \in 1..Len(Programa(h))
    /\ Programa(h)[registros[h].PC].op = "DUMP_MEMORY"
    /\ Terminan(DelProceso(h))

Next == \E h \in Hilos : Nacer(h) \/ Instruccion(h) \/ VolcadoFallido(h)

Spec == Init /\ [][Next]_vars
=============================================================================
