---------------------------- MODULE Finalizacion ----------------------------
(***************************************************************************)
(* Transiciones with the end of a process, finalizar_proceso_por_pid       *)
(* (syscalls.c), one critical section at a time.  The short-term planner   *)
(* runs it for PROCESS_EXIT, and the POSIX thread of a dump that failed    *)
(* runs it while everything else goes on.                                  *)
(***************************************************************************)
EXTENDS Transiciones

CONSTANT
    Interferencias    \* TRUE: a process may end while the device, a dump or the
                      \* join of a younger thread has one of its threads, and a
                      \* failed dump may end a process that has other threads

ASSUME FinalizacionAssumption ==
    Interferencias \in BOOLEAN /\ \A h \in Hilos : Pid(h) # 0

VARIABLES
    proceso,          \* of each actor: the process that it ends, or 0
    victima           \* of each actor: the thread that it is destroying

finVars == <<proceso, victima>>
todas == <<vars, finVars>>

InitFinalizacion ==
    /\ Init
    /\ proceso = [a \in Actores |-> 0] /\ victima = [a \in Actores |-> Ninguno]

HilosDe(p) == {h \in vivos : Pid(h) = p}

Finalizar(a, pid) ==
    /\ proceso' = [proceso EXCEPT ![a] = pid]
    /\ Ir(a, "finalizar") /\ Tomar(a, Ninguno)
    /\ UNCHANGED <<listas, semaforo, esperas, tids, vuelve, caida, victima>>

(* Nobody else has, or will have, a pointer to a thread of the process,    *)
(* and no join is left for a thread that is destroyed before.              *)
SinInterferencias(p) ==
    \A h \in HilosDe(p) :
        /\ h \notin cola_io
        /\ \A a \in Actores \ {STS} :
               hilo[a] = h => pc[a] \notin {"agregar", "sacar", "esperar_dump"}
        /\ \A j \in unidos[h] : Tid(j) < Tid(h)

(* syscall_finalizar_proceso *)
FinalizarProceso ==
    /\ En(STS, "cpu")
    /\ Interferencias \/ SinInterferencias(Pid(exec))
    /\ Finalizar(STS, Pid(exec))

(* esperar_respuesta_dump_memory, when the dump failed. *)
DumpRechazado(v) ==
    /\ En(v, "esperar_dump")
    /\ Interferencias \/ HilosDe(Pid(hilo[v])) = {hilo[v]}
    /\ Finalizar(v, Pid(hilo[v]))

(* From the last thread of the tids list to the first. *)
SiguienteAFinalizar(a, h) ==
    /\ En(a, "finalizar")
    /\ h \in HilosDe(proceso[a]) /\ \A j \in HilosDe(proceso[a]) : Tid(j) <= Tid(h)
    /\ Tomar(a, h) /\ Ir(a, "buscar_ready") /\ Volver(a, "desvincular")
    /\ UNCHANGED <<listas, semaforo, esperas, tids, caida, finVars>>

(* Only the TID is compared.  EXEC may be empty, or hold a thread of       *)
(* another process, when it is a dump that ends the process.               *)
BuscarVictimaEnExec(a) ==
    /\ En(a, "buscar_exec") /\ vuelve[a] = "desvincular"
    /\ IF exec # Ninguno /\ Tid(exec) = Tid(hilo[a])
       THEN Tomar(a, exec) /\ Ir(a, "desvincular") /\ UNCHANGED caida
       ELSE /\ caida' = IF exec = Ninguno THEN "exec_vacio" ELSE "hilo_nulo"
            /\ UNCHANGED <<pc, hilo>>
    /\ UNCHANGED <<listas, semaforo, esperas, tids, vuelve, finVars>>

Desvincular(a) ==
    /\ En(a, "desvincular")
    /\ vivos' = vivos \ {<<proceso[a], Tid(hilo[a])>>}
    /\ victima' = [victima EXCEPT ![a] = hilo[a]]
    /\ Ir(a, "liberar") /\ Tomar(a, Ninguno) /\ Volver(a, "inactivo")
    /\ UNCHANGED <<listas, semaforo, esperas, creados, caida, proceso>>

LiberarEspera(a, h) ==
    /\ En(a, "liberar")
    /\ h \in unidos[victima[a]]
    /\ unidos' = [unidos EXCEPT ![victima[a]] = @ \ {h}]
    /\ Despertar(a, h, "liberar")
    /\ UNCHANGED <<con_mutex, finVars>>

RemoverYSeguir(a, lugar) ==
    /\ En(a, "liberar") /\ unidos[victima[a]] = {}
    /\ ready' = ready \ {victima[a]}
    /\ Ir(a, lugar)
    /\ UNCHANGED <<blocked, exec, semaforo, esperas, tids, hilo, vuelve, caida, finVars>>

(* Bug variant: the semaphore is not decremented. *)
RemoverDeReadySinDescontar(a) == RemoverYSeguir(a, "remover")

(* remover_hilo_de_ready_o_blocked *)
RemoverDeReady(a) ==
    RemoverYSeguir(a, IF victima[a] \in ready THEN "descontar" ELSE "remover")

(* sem_wait(&semaforo_estado_ready) *)
Descontar(a) ==
    /\ En(a, "descontar") /\ semaforo > 0
    /\ semaforo' = semaforo - 1
    /\ Ir(a, "remover")
    /\ UNCHANGED <<listas, esperas, tids, hilo, vuelve, caida, finVars>>

RemoverDeBlocked(a) ==
    /\ En(a, "remover")
    /\ blocked' = blocked \ {victima[a]}
    /\ victima' = [victima EXCEPT ![a] = Ninguno]
    /\ Ir(a, "finalizar")
    /\ UNCHANGED <<ready, exec, semaforo, esperas, tids, hilo, vuelve, caida, proceso>>

(* destruir_pcb, with the mutexes and their queues. *)
DestruirProceso(a) ==
    /\ En(a, "finalizar") /\ HilosDe(proceso[a]) = {}
    /\ con_mutex' = {h \in con_mutex : Pid(h) # proceso[a]}
    /\ proceso' = [proceso EXCEPT ![a] = 0]
    /\ Ir(a, IF a = STS THEN "esperar" ELSE "inactivo")
    /\ UNCHANGED <<listas, semaforo, cola_io, semaforo_io, unidos, tids, hilo, vuelve,
                   caida, victima>>

-----------------------------------------------------------------------------
PasoFinalizacion(a) ==
    \/ Desvincular(a) \/ DestruirProceso(a) \/ BuscarVictimaEnExec(a)
    \/ \E h \in Hilos : SiguienteAFinalizar(a, h) \/ LiberarEspera(a, h)
    \/ RemoverDeReady(a) \/ Descontar(a) \/ RemoverDeBlocked(a)

Igual(A) == A /\ UNCHANGED finVars

PasoActor(a) == Igual(Mover(a)) \/ PasoFinalizacion(a)

PasoDump(v) == Igual(DumpConfirmado(v)) \/ DumpRechazado(v)

NextFinalizacion ==
    \/ Igual(PlanificadorLargo) \/ Igual(Syscall) \/ FinalizarProceso
    \/ Igual(PlanificadorCorto) \/ Igual(Dispositivo)
    \/ \E v \in Volcadores : PasoDump(v)
    \/ \E a \in Actores : PasoActor(a)

SpecFinalizacion == InitFinalizacion /\ [][NextFinalizacion]_todas

(* Every POSIX thread goes on when it can; what the programs ask, and what *)
(* new processes come, is not promised.                                    *)
FairSpec ==
    /\ SpecFinalizacion
    /\ WF_todas(Igual(PlanificadorCorto)) /\ WF_todas(Igual(Dispositivo))
    /\ \A v \in Volcadores : WF_todas(PasoDump(v))
    /\ \A a \in Actores : WF_todas(PasoActor(a))

-----------------------------------------------------------------------------
(* The semaphore counts the threads of READY also while a process ends: a  *)
(* thread removed from READY is discounted later, without the lock.        *)
CuentaAlFinalizar ==
    Cardinality(ready) + Cardinality({a \in Actores : pc[a] = "descontar"})
        = semaforo + Cardinality({a \in Actores : pc[a] = "avisar"})
            + (IF pc[STS] = "elegir" THEN 1 ELSE 0)

(* The sem_wait that discounts a thread removed from READY does not block  *)
(* for ever the actor that ends the process.                               *)
DescuentoTermina == \A a \in Actores : (pc[a] = "descontar") ~> (pc[a] # "descontar")
=============================================================================
