------------------------------ MODULE Memoria ------------------------------
(***************************************************************************)
(* The processes and threads that the memory module keeps                  *)
(* (memoria/src/manejo-estructuras.c) and the threads that serve requests  *)
(* (memoria/src/main.c): one for the CPU and one per request of the        *)
(* kernel.  Processes are a linked list, and each of them has a linked     *)
(* list of threads; nothing locks them, so a handler walks them one node   *)
(* per step and changes a pointer in a step of its own.                    *)
(*                                                                         *)
(* A node is named <<pid>> or <<pid, tid>>; the list it belongs to is      *)
(* Front of its name: <<>> is the list of processes, <<pid>> the list of   *)
(* threads of that process.  A handler is the sequence of walks that it    *)
(* still has to make, and then its effect.                                 *)
(***************************************************************************)
EXTENDS Instrucciones, SequencesExt

CONSTANTS
    MaxPid, MaxTid,   \* bounds: the largest PID and TID
    Programa(_),      \* the instructions of a thread
    Base(_),          \* of the partition of a process (module Particiones)
    Limite(_),
    Atencion          \* the threads of the memory module: "cpu" and those of the kernel

ASSUME MemoriaAssumption == MaxPid \in Nat /\ MaxTid \in Nat

Pids == 0..MaxPid
Hilos == {<<p, t>> : p \in Pids, t \in 0..MaxTid}
Procesos == {<<p>> : p \in Pids}
Proceso(h) == <<h[1]>>
Nodos == Procesos \cup Hilos
Lista(n) == Front(n)
Listas == {<<>>} \cup Procesos

Nulo == <<-1>>

VARIABLES
    primero,     \* [Listas -> Nodos or Nulo]
    siguiente,   \* [Nodos -> Nodos or Nulo]
    existe,      \* nodes that are allocated and were linked
    ctx,         \* [Hilos -> contexts]: the registers kept in the node of a thread
    memoria,     \* the user memory
    tarea,       \* [Atencion -> the handler in course]
    caida        \* "no", or why the module crashed

memVars == <<primero, siguiente, existe, ctx, memoria, tarea, caida>>

Libre == [op |-> "libre", nodo |-> Nulo, recorridos |-> <<>>, andando |-> FALSE,
          previo |-> Nulo, actual |-> Nulo, habia |-> {}]

MInit ==
    /\ primero = [l \in Listas |-> Nulo]
    /\ siguiente = [n \in Nodos |-> Nulo]
    /\ existe = {}
    /\ ctx = [h \in Hilos |-> ContextoInicial(0, 0)]
    /\ memoria = [d \in 0..TAM_MEMORIA - 1 |-> 0]
    /\ tarea = [k \in Atencion |-> Libre]
    /\ caida = "no"

-----------------------------------------------------------------------------
(* The walks that each request makes, in order. *)

Hasta(n) == [hasta |-> n, lista |-> Lista(n)]            \* until n is found
AlUltimo(n) == [hasta |-> Nulo, lista |-> Lista(n)]      \* to the last of n's list

BuscarHilo(h) == <<Hasta(Proceso(h)), Hasta(h)>>

Recorridos(op, n) ==
    CASE op = "CREAR_PROCESO"       -> <<AlUltimo(n)>>
      [] op = "FINALIZAR_PROCESO"   -> <<Hasta(n)>>
      [] op = "CREAR_HILO"          -> <<Hasta(Proceso(n)), AlUltimo(n)>>
      [] op = "FINALIZAR_HILO"      -> BuscarHilo(n)
      [] op = "DEVOLVER_CONTEXTO"   -> <<Hasta(Proceso(n)), Hasta(Proceso(n)), Hasta(n)>>
      [] op = "ACTUALIZAR_CONTEXTO" -> BuscarHilo(n)
      [] op = "DEVOLVER_INSTRUCCION" ->
            <<Hasta(Proceso(n)), Hasta(n), Hasta(Proceso(n)), Hasta(n)>>
      [] op = "DUMP_MEMORY"         -> <<Hasta(Proceso(n))>>

(* habia: which of the nodes it needs were there when it arrived. *)
Pedido(op, n) ==
    [Libre EXCEPT !.op = op, !.nodo = n, !.recorridos = Recorridos(op, n),
                  !.habia = existe \cap {n, Proceso(n)}]

(* A request arrives: the thread of the CPU is the same for all of them,   *)
(* one of the kernel gets a thread of its own.                             *)
Pedir(k, op, n) ==
    /\ tarea[k] = Libre
    /\ tarea' = [tarea EXCEPT ![k] = Pedido(op, n)]

Caer(causa) ==
    /\ caida' = causa
    /\ UNCHANGED <<primero, siguiente, existe, ctx, memoria, tarea>>

-----------------------------------------------------------------------------
(* Walks.  A list is entered through its head, the global or a field of    *)
(* the node of the process.                                                *)

Entrar(k) ==
    LET t == tarea[k]
        l == Head(t.recorridos).lista
    IN  /\ caida = "no" /\ t.recorridos # <<>> /\ ~t.andando
        /\ IF l # <<>> /\ l \notin existe THEN Caer("nodo_liberado")
           ELSE /\ tarea' = [tarea EXCEPT ![k].andando = TRUE, ![k].previo = Nulo,
                                          ![k].actual = primero[l]]
                /\ UNCHANGED <<primero, siguiente, existe, ctx, memoria, caida>>

(* A walk ends at the node it looks for, or before a null pointer when it  *)
(* looks for the last; every caller dereferences the result of a search,   *)
(* NULL when there is no such node.                                        *)
Llega(t) ==
    LET hasta == Head(t.recorridos).hasta
    IN  IF hasta = Nulo THEN t.actual = Nulo \/ siguiente[t.actual] = Nulo
        ELSE t.actual = hasta

Avanzar(k) ==
    LET t == tarea[k] IN
    /\ caida = "no" /\ t.recorridos # <<>> /\ t.andando
    /\ IF t.actual # Nulo /\ t.actual \notin existe THEN Caer("nodo_liberado")
       ELSE IF Llega(t)
       THEN /\ tarea' = [tarea EXCEPT ![k].recorridos = Tail(@), ![k].andando = FALSE]
            /\ UNCHANGED <<primero, siguiente, existe, ctx, memoria, caida>>
       ELSE IF t.actual = Nulo
       THEN Caer(IF Head(t.recorridos).hasta \in Hilos \ t.habia
                 THEN "hilo_sin_crear" ELSE "nodo_inexistente")
       ELSE /\ tarea' = [tarea EXCEPT ![k].previo = t.actual,
                                      ![k].actual = siguiente[t.actual]]
            /\ UNCHANGED <<primero, siguiente, existe, ctx, memoria, caida>>

-----------------------------------------------------------------------------
(* Effects, once the walks are over. *)

Termino(k, op) == caida = "no" /\ tarea[k].op = op /\ tarea[k].recorridos = <<>>

(* Bug variant: the head changes although the list is not empty. *)
PrimeroSiempre(n, ultimo) == [primero EXCEPT ![Lista(n)] = n]

PrimeroCon(n, ultimo) ==
    IF ultimo = Nulo THEN [primero EXCEPT ![Lista(n)] = n] ELSE primero

(* iniciar_proceso and iniciar_hilo: the new node, with no threads or with *)
(* its registers in 0, after the last one or as the first of an empty list.*)
Enlazar(k) ==
    LET n == tarea[k].nodo
        ultimo == tarea[k].actual
        duenio == IF ultimo = Nulo THEN Lista(n) ELSE ultimo
        con == PrimeroCon(n, ultimo)
    IN  /\ Termino(k, "CREAR_PROCESO") \/ Termino(k, "CREAR_HILO")
        /\ IF duenio # <<>> /\ duenio \notin existe THEN Caer("nodo_liberado")
           ELSE /\ primero' = IF n \in Procesos THEN [con EXCEPT ![n] = Nulo] ELSE con
                /\ siguiente' = [m \in Nodos |-> IF m = ultimo THEN n
                                                ELSE IF m = n THEN Nulo ELSE siguiente[m]]
                /\ existe' = existe \cup {n}
                /\ ctx' = [h \in Hilos |->
                              IF h = n THEN ContextoInicial(Base(n[1]), Limite(n[1]))
                              ELSE ctx[h]]
                /\ tarea' = [tarea EXCEPT ![k] = [Libre EXCEPT !.op = "confirmado"]]
                /\ UNCHANGED <<memoria, caida>>

(* finalizar_proceso frees the threads first, from the head of their list  *)
(* (each of them with a finalizar_hilo that finds it at once: one step).   *)
VaciarHilos(k) ==
    LET l == tarea[k].nodo
        h == primero[l]
    IN  /\ Termino(k, "FINALIZAR_PROCESO")
        /\ h # Nulo
        /\ IF h \notin existe THEN Caer("nodo_liberado")
           ELSE /\ primero' = [primero EXCEPT ![l] = siguiente[h]]
                /\ existe' = existe \ {h}
                /\ UNCHANGED <<siguiente, ctx, memoria, tarea, caida>>

(* Bug variant: the head is not moved when the first node goes. *)
PrimeroIntacto(n, previo) == primero

PrimeroSin(n, previo) ==
    IF previo = Nulo THEN [primero EXCEPT ![Lista(n)] = siguiente[n]] ELSE primero

(* The node is unlinked from the one before it, as the walk saw it, and    *)
(* freed; the partition is freed with it (module Particiones).             *)
Desenlazar(k) ==
    LET n == tarea[k].nodo
        previo == tarea[k].previo
    IN  /\ \/ Termino(k, "FINALIZAR_PROCESO") /\ primero[n] = Nulo
           \/ Termino(k, "FINALIZAR_HILO")
        /\ IF ({n, previo} \ {Nulo}) \subseteq existe
           THEN /\ primero' = PrimeroSin(n, previo)
                /\ siguiente' = [m \in Nodos |-> IF m = previo THEN siguiente[n]
                                                ELSE siguiente[m]]
                /\ existe' = existe \ {n}
                /\ tarea' = [tarea EXCEPT ![k] = [Libre EXCEPT !.op = "confirmado"]]
                /\ UNCHANGED <<ctx, memoria, caida>>
           ELSE Caer("nodo_liberado")

(* enviar_dump_memory copies what the partition of the process holds and   *)
(* sends it to the file system, whose answer it passes on.                 *)
Volcar(k) ==
    /\ Termino(k, "DUMP_MEMORY")
    /\ IF Proceso(tarea[k].nodo) \notin existe THEN Caer("nodo_liberado")
       ELSE /\ tarea' = [tarea EXCEPT ![k] = Libre]
            /\ UNCHANGED <<primero, siguiente, existe, ctx, memoria, caida>>

(* The kernel receives the confirmation; the connection of a THREAD_CREATE *)
(* is closed by then.                                                      *)
Confirmado(k) ==
    /\ tarea[k].op = "confirmado"
    /\ tarea' = [tarea EXCEPT ![k] = Libre]

-----------------------------------------------------------------------------
(* Requests of the CPU, whose thread waits for the answer: served and      *)
(* received in one step.  The node that was found may have been freed.     *)

Servida(op, h) ==
    /\ Termino("cpu", op)
    /\ tarea' = [tarea EXCEPT !["cpu"] = Libre]
    /\ caida' = IF h \in existe THEN "no" ELSE "nodo_liberado"

PasoMemoria(k) ==
    Entrar(k) \/ Avanzar(k) \/ Enlazar(k) \/ VaciarHilos(k) \/ Desenlazar(k) \/ Volcar(k)

devolver_contexto_ejecucion(h) ==
    [ctx[h] EXCEPT !.Base = Base(h[1]), !.Limite = Limite(h[1])]

(* Bug variant: a register is forgotten. *)
ContextoSinHX(h, contexto) == [contexto EXCEPT !.HX = ctx[h].HX]

(* Bug variant: the program counter is not saved. *)
ContextoSinPC(h, contexto) == [contexto EXCEPT !.PC = ctx[h].PC]

(* Base and Limite belong to the node of the process and are not taken.    *)
actualizar_contexto_ejecucion(h, contexto) ==
    [contexto EXCEPT !.Base = ctx[h].Base, !.Limite = ctx[h].Limite]

(* The instruction, or "PC INVALIDO" when there are no more. *)
devolver_instruccion(h, pc) ==
    IF pc >= Len(Programa(h)) THEN [op |-> "PC INVALIDO"] ELSE Programa(h)[pc + 1]

-----------------------------------------------------------------------------
(* A walk from the head of the list l that visits the nodes of s, in order.*)
Visita(l, s) ==
    /\ primero[l] = IF s = <<>> THEN Nulo ELSE s[1]
    /\ \A i \in 1..Len(s) : siguiente[s[i]] = IF i = Len(s) THEN Nulo ELSE s[i + 1]
=============================================================================
