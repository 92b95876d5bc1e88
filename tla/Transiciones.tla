---------------------------- MODULE Transiciones ----------------------------
(***************************************************************************)
(* The moves of the threads between the lists of the kernel, one critical  *)
(* section at a time (syscalls.c, planificador-corto-plazo.c,              *)
(* planificador-largo-plazo.c, dispositivo-io.c).  Each list has a lock of *)
(* its own, so between two lists a thread is in none: only the POSIX       *)
(* thread that moves it has a pointer to it.  A step is what happens under *)
(* one lock, or one operation on a semaphore.                              *)
(*                                                                         *)
(* The actors are the planners LP and STS, the device DIO and the POSIX    *)
(* threads that wait for the answer to a dump, one for each dump.          *)
(*                                                                         *)
(* The lists are sets: which READY thread is chosen is in module Kernel,   *)
(* and the order of the device queue too.                                  *)
(***************************************************************************)
EXTENDS Integers, FiniteSets

CONSTANTS
    Hilos,            \* pairs <<pid, tid>>; tid 0 is the main thread
    Ninguno,          \* the NULL of a t_tcb*
    LP, STS, DIO,     \* POSIX threads: the two planners and the device
    Volcadores        \* bound: POSIX threads that wait for a dump at a time

Pid(h) == h[1]
Tid(h) == h[2]
Actores == {LP, STS, DIO} \cup Volcadores

ASSUME TransicionesAssumption ==
    /\ IsFiniteSet(Hilos) /\ Hilos \subseteq Nat \X Nat
    /\ Ninguno \notin Hilos
    /\ IsFiniteSet(Volcadores) /\ {LP, STS, DIO} \cap Volcadores = {}
    /\ LP # STS /\ LP # DIO /\ STS # DIO

VARIABLES
    ready, blocked,   \* estado_ready and estado_blocked
    exec,             \* estado_exec; it keeps the pointer to a thread that ended
    semaforo,         \* semaforo_estado_ready
    cola_io, semaforo_io,
    creados,          \* history: threads that were created
    vivos,            \* the threads in the tids list of a process
    unidos,           \* hilos_bloqueados of each thread: who waits for its end
    con_mutex,        \* threads waiting for a mutex
    pc, hilo,         \* of each actor: where it is, the pointer it works with
    vuelve,           \* of each actor: where it returns after a transition
    caida             \* "no" until the kernel uses a NULL pointer

listas == <<ready, blocked, exec>>
esperas == <<cola_io, semaforo_io, unidos, con_mutex>>
tids == <<creados, vivos>>
locales == <<pc, hilo, vuelve>>
vars == <<listas, semaforo, esperas, tids, locales, caida>>

Init ==
    /\ ready = {} /\ blocked = {} /\ exec = Ninguno
    /\ semaforo = 0 /\ cola_io = {} /\ semaforo_io = 0
    /\ creados = {} /\ vivos = {}
    /\ unidos = [h \in Hilos |-> {}] /\ con_mutex = {}
    /\ pc = [a \in Actores |-> CASE a = LP  -> "planificar"
                                 [] a = STS -> "esperar"
                                 [] a = DIO  -> "esperar_io"
                                 [] OTHER     -> "inactivo"]
    /\ hilo = [a \in Actores |-> Ninguno]
    /\ vuelve = [a \in Actores |-> "inactivo"]
    /\ caida = "no"

En(a, lugar) == pc[a] = lugar /\ caida = "no"
Ir(a, lugar) == pc' = [pc EXCEPT ![a] = lugar]
Tomar(a, h) == hilo' = [hilo EXCEPT ![a] = h]
Volver(a, lugar) == vuelve' = [vuelve EXCEPT ![a] = lugar]

-----------------------------------------------------------------------------
(* The second half of every move to READY, whoever makes it. *)

Agregar(a) ==
    /\ En(a, "agregar")
    /\ ready' = ready \cup {hilo[a]}
    /\ Ir(a, "avisar")
    /\ UNCHANGED <<blocked, exec, semaforo, esperas, tids, hilo, vuelve, caida>>

(* sem_post(&semaforo_estado_ready) *)
Avisar(a) ==
    /\ En(a, "avisar")
    /\ semaforo' = semaforo + 1
    /\ Ir(a, vuelve[a]) /\ Tomar(a, Ninguno) /\ Volver(a, "inactivo")
    /\ UNCHANGED <<listas, esperas, tids, caida>>

(* Bug variant: the thread is left in BLOCKED. *)
SacarSinQuitar(a) ==
    /\ En(a, "sacar")
    /\ Ir(a, "agregar")
    /\ UNCHANGED <<listas, semaforo, esperas, tids, hilo, vuelve, caida>>

(* transicion_blocked_a_ready, until it has the thread in its hands. *)
Sacar(a) ==
    /\ En(a, "sacar")
    /\ blocked' = blocked \ {hilo[a]}
    /\ Ir(a, "agregar")
    /\ UNCHANGED <<ready, exec, semaforo, esperas, tids, hilo, vuelve, caida>>

-----------------------------------------------------------------------------
(* The long-term planner: transicion_new_a_ready. *)

NewAReady(h) ==
    /\ En(LP, "planificar")
    /\ h \notin creados /\ Tid(h) = 0
    /\ creados' = creados \cup {h} /\ vivos' = vivos \cup {h}
    /\ Tomar(LP, h) /\ Ir(LP, "agregar") /\ Volver(LP, "planificar")
    /\ UNCHANGED <<listas, semaforo, esperas, caida>>

-----------------------------------------------------------------------------
(* The short-term planner. *)

EsperarReady ==
    /\ En(STS, "esperar") /\ semaforo > 0
    /\ semaforo' = semaforo - 1
    /\ Ir(STS, "elegir")
    /\ UNCHANGED <<listas, esperas, tids, hilo, vuelve, caida>>

(* The choice and transicion_ready_a_exec are under mutex_estado_ready; an *)
(* empty list gives NULL.                                                  *)
ReadyAExec ==
    /\ En(STS, "elegir")
    /\ IF ready = {} THEN caida' = "ready_vacio" /\ UNCHANGED <<ready, exec, pc>>
       ELSE /\ \E h \in ready : exec' = h /\ ready' = ready \ {h}
            /\ Ir(STS, "cpu")
            /\ UNCHANGED caida
    /\ UNCHANGED <<blocked, semaforo, esperas, tids, hilo, vuelve>>

ExecAReady ==
    /\ En(STS, "cpu")
    /\ exec' = Ninguno
    /\ Tomar(STS, exec) /\ Ir(STS, "agregar") /\ Volver(STS, "esperar")
    /\ UNCHANGED <<ready, blocked, semaforo, esperas, tids, caida>>

(* transicion_exec_a_blocked, first half.  What follows depends on the     *)
(* motive: the queue of a mutex or of a join (only this planner uses it),  *)
(* the queue of the device, the POSIX thread of the dump.                  *)
ExecABlocked(lugar) ==
    /\ exec' = Ninguno
    /\ Tomar(STS, exec) /\ Ir(STS, "bloquear") /\ Volver(STS, lugar)
    /\ UNCHANGED <<ready, blocked, semaforo, tids, caida>>

BloquearMutex ==
    /\ En(STS, "cpu")
    /\ ExecABlocked("esperar")
    /\ con_mutex' = con_mutex \cup {exec}
    /\ UNCHANGED <<cola_io, semaforo_io, unidos>>

(* Bug variant: the device gets the request before the thread is BLOCKED.  *)
IOEncolaAntes ==
    /\ En(STS, "cpu")
    /\ cola_io' = cola_io \cup {exec} /\ semaforo_io' = semaforo_io + 1
    /\ ExecABlocked("esperar")
    /\ UNCHANGED <<unidos, con_mutex>>

IO ==
    /\ En(STS, "cpu")
    /\ ExecABlocked("encolar")
    /\ UNCHANGED esperas

DumpMemory ==
    /\ En(STS, "cpu") /\ \E v \in Volcadores : pc[v] = "inactivo"
    /\ ExecABlocked("lanzar")
    /\ UNCHANGED esperas

Bloquear ==
    /\ En(STS, "bloquear")
    /\ blocked' = blocked \cup {hilo[STS]}
    /\ Ir(STS, vuelve[STS]) /\ Volver(STS, "inactivo")
    /\ Tomar(STS, IF vuelve[STS] = "esperar" THEN Ninguno ELSE hilo[STS])
    /\ UNCHANGED <<ready, exec, semaforo, esperas, tids, caida>>

Encolar ==
    /\ En(STS, "encolar")
    /\ cola_io' = cola_io \cup {hilo[STS]}
    /\ Ir(STS, "avisar_io") /\ Tomar(STS, Ninguno)
    /\ UNCHANGED <<listas, semaforo, semaforo_io, unidos, con_mutex, tids, vuelve, caida>>

AvisarIO ==
    /\ En(STS, "avisar_io")
    /\ semaforo_io' = semaforo_io + 1
    /\ Ir(STS, "esperar")
    /\ UNCHANGED <<listas, semaforo, cola_io, unidos, con_mutex, tids, hilo, vuelve, caida>>

LanzarDump(v) ==
    /\ En(STS, "lanzar") /\ pc[v] = "inactivo"
    /\ pc' = [pc EXCEPT ![STS] = "esperar", ![v] = "esperar_dump"]
    /\ hilo' = [hilo EXCEPT ![STS] = Ninguno, ![v] = hilo[STS]]
    /\ UNCHANGED <<listas, semaforo, esperas, tids, vuelve, caida>>

(* syscall_crear_hilo *)
CrearHilo(h) ==
    /\ En(STS, "cpu")
    /\ h \notin creados /\ Tid(h) # 0 /\ Pid(h) = Pid(exec)
    /\ creados' = creados \cup {h} /\ vivos' = vivos \cup {h}
    /\ Tomar(STS, h) /\ Ir(STS, "agregar") /\ Volver(STS, "cpu")
    /\ UNCHANGED <<listas, semaforo, esperas, caida>>

(* Whoever frees a mutex wakes up one of those who wait for it. *)
Despertar(a, h, lugar) ==
    /\ Tomar(a, h) /\ Ir(a, "sacar") /\ Volver(a, lugar)
    /\ UNCHANGED <<listas, semaforo, cola_io, semaforo_io, tids, caida>>

DesbloquearMutex(h) ==
    /\ En(STS, "cpu")
    /\ h \in con_mutex /\ Pid(h) = Pid(exec)
    /\ con_mutex' = con_mutex \ {h}
    /\ Despertar(STS, h, "cpu")
    /\ UNCHANGED unidos

(* syscall_finalizar_hilo: the thread leaves the tids list, the mutexes it *)
(* has go to others, and those who wait for its end wake up.               *)
FinalizarHilo ==
    /\ En(STS, "cpu")
    /\ vivos' = vivos \ {exec}
    /\ Ir(STS, "liberar_mutex")
    /\ UNCHANGED <<listas, semaforo, esperas, creados, hilo, vuelve, caida>>

LiberarMutex ==
    /\ En(STS, "liberar_mutex")
    /\ \/ \E h \in con_mutex :
             /\ Pid(h) = Pid(exec)
             /\ con_mutex' = con_mutex \ {h}
             /\ Despertar(STS, h, "liberar_mutex")
             /\ UNCHANGED unidos
       \/ /\ Ir(STS, "liberar_unidos")
          /\ UNCHANGED <<listas, semaforo, esperas, tids, hilo, vuelve, caida>>

LiberarUnido(h) ==
    /\ En(STS, "liberar_unidos")
    /\ h \in unidos[exec]
    /\ unidos' = [unidos EXCEPT ![exec] = @ \ {h}]
    /\ Despertar(STS, h, "liberar_unidos")
    /\ UNCHANGED con_mutex

DestruirHilo ==
    /\ En(STS, "liberar_unidos") /\ unidos[exec] = {}
    /\ Ir(STS, "esperar")
    /\ UNCHANGED <<listas, semaforo, esperas, tids, hilo, vuelve, caida>>

-----------------------------------------------------------------------------
(* buscar_hilo_en_proceso: READY, then BLOCKED, then EXEC, each under its  *)
(* own lock or under none; it returns to its caller with the pointer.      *)

BuscarEnReady(a) ==
    /\ En(a, "buscar_ready")
    /\ Ir(a, IF hilo[a] \in ready THEN vuelve[a] ELSE "buscar_blocked")
    /\ UNCHANGED <<listas, semaforo, esperas, tids, hilo, vuelve, caida>>

BuscarEnBlocked(a) ==
    /\ En(a, "buscar_blocked")
    /\ Ir(a, IF hilo[a] \in blocked THEN vuelve[a] ELSE "buscar_exec")
    /\ UNCHANGED <<listas, semaforo, esperas, tids, hilo, vuelve, caida>>

BuscarEnExec ==
    /\ En(STS, "buscar_exec") /\ vuelve[STS] = "unir"
    /\ IF Tid(exec) = Tid(hilo[STS])
       THEN Tomar(STS, exec) /\ Ir(STS, "unir")
       ELSE Ir(STS, "no_hallado") /\ UNCHANGED hilo
    /\ UNCHANGED <<listas, semaforo, esperas, tids, vuelve, caida>>

(* syscall_esperar_hilo; a TID that is not in the tids list is not sought. *)
EsperarHilo(h) ==
    /\ En(STS, "cpu")
    /\ h \in vivos /\ Pid(h) = Pid(exec)
    /\ Tomar(STS, h) /\ Ir(STS, "buscar_ready") /\ Volver(STS, "unir")
    /\ UNCHANGED <<listas, semaforo, esperas, tids, caida>>

Unir ==
    /\ En(STS, "unir")
    /\ unidos' = [unidos EXCEPT ![hilo[STS]] = @ \cup {exec}]
    /\ ExecABlocked("esperar")
    /\ UNCHANGED <<cola_io, semaforo_io, con_mutex>>

(* The thread that asked goes on, as if the other one had ended. The       *)
(* kernel reads on here while the CPU waits for a thread (SinEsperaMutua   *)
(* of Dispatch fails): to return to the CPU is a superset of that, which   *)
(* no safety property of this module can take for less.                    *)
SeguirSinUnir ==
    /\ En(STS, "no_hallado")
    /\ Ir(STS, "cpu") /\ Tomar(STS, Ninguno)
    /\ UNCHANGED <<listas, semaforo, esperas, tids, vuelve, caida>>

-----------------------------------------------------------------------------
(* The device and the dumps. *)

EsperarIO ==
    /\ En(DIO, "esperar_io") /\ semaforo_io > 0
    /\ semaforo_io' = semaforo_io - 1
    /\ Ir(DIO, "desencolar")
    /\ UNCHANGED <<listas, semaforo, cola_io, unidos, con_mutex, tids, hilo, vuelve, caida>>

(* queue_pop of an empty queue gives NULL. *)
Desencolar ==
    /\ En(DIO, "desencolar")
    /\ IF cola_io = {} THEN caida' = "cola_vacia" /\ UNCHANGED <<cola_io, locales>>
       ELSE \E h \in cola_io :
                /\ cola_io' = cola_io \ {h}
                /\ Tomar(DIO, h) /\ Ir(DIO, "sacar") /\ Volver(DIO, "esperar_io")
                /\ UNCHANGED caida
    /\ UNCHANGED <<listas, semaforo, semaforo_io, unidos, con_mutex, tids>>

(* esperar_respuesta_dump_memory *)
DumpConfirmado(v) ==
    /\ En(v, "esperar_dump")
    /\ Ir(v, "sacar") /\ Volver(v, "inactivo")
    /\ UNCHANGED <<listas, semaforo, esperas, tids, hilo, caida>>

-----------------------------------------------------------------------------
PlanificadorLargo == \E h \in Hilos : NewAReady(h)

(* What the CPU asks of the planner. *)
Syscall ==
    \/ ExecAReady \/ BloquearMutex \/ IO \/ DumpMemory \/ FinalizarHilo
    \/ \E h \in Hilos : CrearHilo(h) \/ DesbloquearMutex(h) \/ EsperarHilo(h)

PlanificadorCorto ==
    \/ EsperarReady \/ ReadyAExec \/ Bloquear \/ Encolar \/ AvisarIO
    \/ LiberarMutex \/ DestruirHilo \/ BuscarEnExec \/ Unir \/ SeguirSinUnir
    \/ \E h \in Hilos : LiberarUnido(h)
    \/ \E v \in Volcadores : LanzarDump(v)

Dispositivo == EsperarIO \/ Desencolar

Mover(a) == Agregar(a) \/ Avisar(a) \/ Sacar(a) \/ BuscarEnReady(a) \/ BuscarEnBlocked(a)

Next ==
    \/ PlanificadorLargo \/ Syscall \/ PlanificadorCorto \/ Dispositivo
    \/ \E v \in Volcadores : DumpConfirmado(v)
    \/ \E a \in Actores : Mover(a)

Spec == Init /\ [][Next]_vars

-----------------------------------------------------------------------------
Manos(a) == pc[a] \in {"agregar", "bloquear"}
EnMano(h) == \E a \in Actores : Manos(a) /\ hilo[a] = h

(* A thread that has not ended is in one place and only one, though each   *)
(* move takes two locks: in a list, in EXEC or in the hands of one actor.  *)
(* It is not lost, nor planned twice, nor READY and BLOCKED.               *)
UnSoloLugar ==
    /\ \A h \in vivos : h \in ready \cup blocked \/ exec = h \/ EnMano(h)
    /\ ready \cap blocked = {} /\ exec \notin ready \cup blocked
    /\ \A a \in Actores : Manos(a) =>
           /\ hilo[a] \notin ready \cup blocked \cup {exec}
           /\ \A b \in Actores \ {a} : Manos(b) => hilo[b] # hilo[a]

(* The semaphore counts the threads of READY, but for the ones added and   *)
(* not announced yet and the token the planner has.                        *)
CuentaReady ==
    Cardinality(ready) = semaforo + Cardinality({a \in Actores : pc[a] = "avisar"})
                           + (IF pc[STS] = "elegir" THEN 1 ELSE 0)

(* The kernel uses no NULL pointer: neither planner nor device finds empty *)
(* the list its semaphore announced, nor loses the thread it looks for.    *)
SinCaida == caida = "no"

(* "Bloquea el hilo en ejecucion hasta que el hilo del TID recibido        *)
(* finalice" (syscalls.c:126): THREAD_JOIN goes on without blocking only   *)
(* when that thread has ended.                                             *)
EsperarBloquea == pc[STS] = "no_hallado" => hilo[STS] \notin vivos

EstadoDe(h) ==
    CASE h \notin creados           -> "NINGUNO"
      [] h \in creados \ vivos     -> "EXIT"
      [] h \in vivos /\ exec = h   -> "EXEC"
      [] h \in vivos /\ exec # h /\ (h \in blocked \/ (pc[STS] = "bloquear" /\ hilo[STS] = h))
                                    -> "BLOCKED"
      [] OTHER                      -> "READY"

E == INSTANCE Estados WITH estado <- [h \in Hilos |-> EstadoDe(h)]

(* Made of two critical sections each, the moves are the ones of the       *)
(* diagram of states: at most one thread executes, a blocked one only goes *)
(* to READY.                                                               *)
ImplementaEstados == E!Spec
=============================================================================
