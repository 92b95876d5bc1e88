------------------------------ MODULE Dispatch ------------------------------
(***************************************************************************)
(* The dispatch and interrupt connections between the kernel and the CPU:  *)
(* the short-term planner as the CPU sees it (planificador-corto-plazo.c), *)
(* its quantum timers, and the two threads of the CPU (cpu/src/main.c),    *)
(* one that runs instructions and one that receives interrupts.  What the  *)
(* kernel does to its lists is in module Kernel; here a blocked thread may *)
(* become READY at any time.  The data of a thread is reduced to whether   *)
(* the context that the memory keeps is its latest one.                    *)
(***************************************************************************)
EXTENDS Integers, SequencesExt

CONSTANTS
    Hilos,                \* threads, all of the same priority
    Ninguno,              \* the NULL of a t_tcb*
    Instrucciones,        \* the instructions that the programs use
    Quantum,              \* TRUE: ALGORITMO_PLANIFICACION is CMN, there are timers
    JoinBloquea,          \* outcomes of syscall_esperar_hilo: subset of BOOLEAN
    MaxTemporizadores,    \* bound: timers alive and interrupts in transit
    MaxPendientes         \* bound: words that the dispatch connection holds

ASSUME DispatchAssumption ==
    /\ IsFiniteSet(Hilos) /\ Ninguno \notin Hilos
    /\ Quantum \in BOOLEAN /\ JoinBloquea \subseteq BOOLEAN
    /\ MaxTemporizadores \in Nat /\ MaxPendientes \in Nat

VARIABLES
    listos,               \* estado_ready
    bloqueados,           \* estado_blocked
    estado_exec,
    hilo_en_ejecucion,    \* local of the planner: the thread it dispatched
    sts,                  \* program counter of the planner
    temporizadores,       \* timer threads
    quantum,              \* of the burst in course: "corre", "vencido" or "avisado"
    haciaCpu,             \* dispatch connection, kernel to CPU
    haciaKernel,          \* dispatch connection, CPU to kernel
    interrupciones,       \* OPERACION_DESALOJAR_HILO in the interrupt connection
    cpu,                  \* program counter of escuchar_dispatch and the cycle
    contexto,             \* the thread whose context is loaded
    instr,                \* the instruction in course
    ciclo,                \* flags of ciclo_de_instruccion
    hay_interrupcion,
    guardado              \* [Hilos -> BOOLEAN]: the memory has its latest context

kernelVars == <<listos, bloqueados, estado_exec, hilo_en_ejecucion, sts>>
timerVars == <<temporizadores, quantum>>
canales == <<haciaCpu, haciaKernel, interrupciones>>
cpuVars == <<cpu, contexto, instr, ciclo, guardado>>
vars == <<kernelVars, timerVars, canales, cpuVars, hay_interrupcion>>

(* A word of the connection; hilo is who was running when it was sent, and *)
(* is not transmitted.                                                     *)
Palabra(op) == [op |-> op, hilo |-> contexto]

Ciclo(siguiente, omitir, actualizar) ==
    [siguiente |-> siguiente, omitir |-> omitir, actualizar |-> actualizar,
     seg_fault |-> FALSE]

CicloSegFault ==
    [siguiente |-> TRUE, omitir |-> FALSE, actualizar |-> FALSE, seg_fault |-> TRUE]

Init ==
    /\ listos \in SetToSeqs(Hilos) /\ bloqueados = {}
    /\ estado_exec = Ninguno /\ hilo_en_ejecucion = Ninguno /\ sts = "planificar"
    /\ temporizadores = <<>> /\ quantum = "corre"
    /\ haciaCpu = <<>> /\ haciaKernel = <<>> /\ interrupciones = 0
    /\ cpu = "esperar" /\ contexto = Ninguno /\ instr = "ninguna"
    /\ ciclo = Ciclo(FALSE, FALSE, FALSE)
    /\ hay_interrupcion = FALSE
    /\ guardado = [h \in Hilos |-> TRUE]

-----------------------------------------------------------------------------
(* The planner. *)

(* obtener_siguiente_a_exec: the quantum timer starts before the thread is *)
(* in EXEC; the timers of earlier bursts are no longer its own.            *)
Elegir ==
    /\ sts = "planificar" /\ listos # <<>>
    /\ Quantum => Len(temporizadores) + interrupciones < MaxTemporizadores
    /\ hilo_en_ejecucion' = Head(listos)
    /\ sts' = "elegido"
    /\ quantum' = "corre"
    /\ LET viejos == [i \in DOMAIN temporizadores |->
                        [temporizadores[i] EXCEPT !.propio = FALSE]]
           nuevo == [hilo |-> Head(listos), propio |-> TRUE, estado |-> "duerme"]
       IN  temporizadores' = IF Quantum THEN Append(viejos, nuevo) ELSE viejos
    /\ UNCHANGED <<listos, bloqueados, estado_exec, canales, cpuVars, hay_interrupcion>>

(* transicion_ready_a_exec and enviar_hilo_a_cpu. *)
Despachar ==
    /\ sts = "elegido"
    /\ estado_exec' = hilo_en_ejecucion
    /\ listos' = RemoveFirst(listos, hilo_en_ejecucion)
    /\ haciaCpu' = Append(haciaCpu, [op |-> "EJECUTAR_HILO", hilo |-> hilo_en_ejecucion])
    /\ sts' = "recibir"
    /\ UNCHANGED <<bloqueados, hilo_en_ejecucion, timerVars, haciaKernel,
                   interrupciones, cpuVars, hay_interrupcion>>

(* procesar_instrucciones_cpu, by what happens to the thread. *)
Recibir(ops) ==
    /\ sts = "recibir" /\ haciaKernel # <<>>
    /\ Head(haciaKernel).op \in ops
    /\ haciaKernel' = Tail(haciaKernel)
    /\ UNCHANGED <<hilo_en_ejecucion, timerVars, interrupciones, cpuVars,
                   hay_interrupcion>>

Responder(op) == haciaCpu' = Append(haciaCpu, [op |-> op, hilo |-> Ninguno])

ExecABlocked ==
    /\ bloqueados' = bloqueados \cup {estado_exec}
    /\ estado_exec' = Ninguno
    /\ sts' = "planificar"
    /\ UNCHANGED listos

(* Bug variant: another thread is planned after PROCESS_CREATE. *)
CrearProcesoReplanifica ==
    /\ Recibir({"CREAR_PROCESO"})
    /\ sts' = "planificar"
    /\ UNCHANGED <<haciaCpu, listos, bloqueados, estado_exec>>

CrearProceso ==
    /\ Recibir({"CREAR_PROCESO"})
    /\ UNCHANGED <<haciaCpu, listos, bloqueados, estado_exec, sts>>

Confirmar ==
    /\ Recibir({"CREAR_HILO", "CREAR_MUTEX", "DESBLOQUEAR_MUTEX"})
    /\ Responder("CONFIRMAR")
    /\ UNCHANGED <<listos, bloqueados, estado_exec, sts>>

(* Bug variant: the CPU is told to go on with the thread that was blocked. *)
BloquearMutexConfirma ==
    /\ Recibir({"BLOQUEAR_MUTEX"})
    /\ Responder("CONFIRMAR")
    /\ \/ UNCHANGED <<listos, bloqueados, estado_exec, sts>>
       \/ ExecABlocked

BloquearMutex ==
    /\ Recibir({"BLOQUEAR_MUTEX"})
    /\ \/ /\ Responder("CONFIRMAR")
          /\ UNCHANGED <<listos, bloqueados, estado_exec, sts>>
       \/ /\ Responder("NOTIFICAR_ERROR")
          /\ ExecABlocked

(* Bug variant: no confirmation. *)
EsperarHiloSinConfirmar ==
    /\ Recibir({"ESPERAR_HILO"})
    /\ \/ TRUE \in JoinBloquea /\ ExecABlocked
       \/ FALSE \in JoinBloquea /\ UNCHANGED <<listos, bloqueados, estado_exec, sts>>
    /\ UNCHANGED haciaCpu

(* The confirmation goes out whatever the result; if the thread was not    *)
(* blocked the planner goes on receiving.                                  *)
EsperarHilo ==
    /\ Recibir({"ESPERAR_HILO"})
    /\ Responder("CONFIRMAR")
    /\ \/ TRUE \in JoinBloquea /\ ExecABlocked
       \/ FALSE \in JoinBloquea /\ UNCHANGED <<listos, bloqueados, estado_exec, sts>>

IO ==
    /\ Recibir({"IO"})
    /\ ExecABlocked
    /\ UNCHANGED haciaCpu

DumpMemory ==
    /\ Recibir({"DUMP_MEMORY"})
    /\ ExecABlocked
    /\ Responder("CONFIRMAR")

(* The thread is destroyed and estado_exec keeps the pointer. *)
FinalizarHilo ==
    /\ Recibir({"FINALIZAR_HILO"})
    /\ Responder("CONFIRMAR")
    /\ sts' = "planificar"
    /\ UNCHANGED <<listos, bloqueados, estado_exec>>

FinalizarProceso ==
    /\ Recibir({"FINALIZAR_PROCESO"})
    /\ sts' = "planificar"
    /\ UNCHANGED <<haciaCpu, listos, bloqueados, estado_exec>>

DesalojarHilo ==
    /\ Recibir({"DESALOJAR_HILO"})
    /\ estado_exec' = Ninguno
    /\ listos' = Append(listos, hilo_en_ejecucion)
    /\ sts' = "planificar"
    /\ UNCHANGED <<haciaCpu, bloqueados>>

(* An unknown operation: the rest of its packet stays in the connection    *)
(* and the planner goes for another thread.                                *)
OperacionDesconocida ==
    /\ Recibir({"CANCELAR_HILO", "tid"})
    /\ sts' = "planificar"
    /\ UNCHANGED <<haciaCpu, listos, bloqueados, estado_exec>>

PasoPlanificador ==
    \/ Elegir \/ Despachar \/ CrearProceso \/ Confirmar \/ BloquearMutex
    \/ EsperarHilo \/ IO \/ DumpMemory \/ FinalizarHilo \/ FinalizarProceso
    \/ DesalojarHilo \/ OperacionDesconocida

(* transicion_blocked_a_ready, by whatever the thread waits for. *)
Despertar(h) ==
    /\ h \in bloqueados
    /\ bloqueados' = bloqueados \ {h}
    /\ listos' = Append(listos, h)
    /\ UNCHANGED <<estado_exec, hilo_en_ejecucion, sts, timerVars, canales, cpuVars,
                   hay_interrupcion>>

-----------------------------------------------------------------------------
(* A quantum timer wakes up, looks at EXEC under the lock, and sends the   *)
(* interrupt later, without it.                                            *)

Vencer(i) ==
    LET t == temporizadores[i] IN
    /\ t.estado = "duerme"
    /\ temporizadores' = IF estado_exec = t.hilo
                         THEN [temporizadores EXCEPT ![i].estado = "envia"]
                         ELSE RemoveAt(temporizadores, i)
    /\ quantum' = IF t.propio /\ quantum = "corre" THEN "vencido" ELSE quantum
    /\ UNCHANGED <<kernelVars, canales, cpuVars, hay_interrupcion>>

EnviarInterrupcion(i) ==
    LET t == temporizadores[i] IN
    /\ t.estado = "envia"
    /\ temporizadores' = RemoveAt(temporizadores, i)
    /\ interrupciones' = interrupciones + 1
    /\ quantum' = IF t.propio THEN "avisado" ELSE quantum
    /\ UNCHANGED <<kernelVars, haciaCpu, haciaKernel, cpuVars, hay_interrupcion>>

PasoTemporizador == \E i \in DOMAIN temporizadores : Vencer(i) \/ EnviarInterrupcion(i)

-----------------------------------------------------------------------------
(* The CPU: escuchar_dispatch. *)

RecibirDispatch ==
    /\ cpu = "esperar" /\ haciaCpu # <<>>
    /\ haciaCpu' = Tail(haciaCpu)
    /\ IF Head(haciaCpu).op = "EJECUTAR_HILO"
       THEN /\ contexto' = Head(haciaCpu).hilo
            /\ cpu' = "contexto"
       ELSE UNCHANGED <<contexto, cpu>>
    /\ UNCHANGED <<kernelVars, timerVars, haciaKernel, interrupciones, instr, ciclo,
                   hay_interrupcion, guardado>>

PedirContexto ==
    /\ cpu = "contexto"
    /\ cpu' = "ejecutar"
    /\ UNCHANGED <<kernelVars, timerVars, canales, contexto, instr, ciclo,
                   hay_interrupcion, guardado>>

(* ciclo_de_instruccion: fetch, decode and execute, by the words sent, the *)
(* flags left and where the CPU goes on.                                   *)
Ejecutar(i, palabras, flags, destino) ==
    /\ cpu = "ejecutar" /\ i \in Instrucciones
    /\ Len(haciaKernel) + Len(palabras) <= MaxPendientes
    /\ instr' = i
    /\ haciaKernel' = haciaKernel \o palabras
    /\ ciclo' = flags
    /\ cpu' = destino
    /\ UNCHANGED <<kernelVars, timerVars, haciaCpu, interrupciones, contexto,
                   hay_interrupcion>>

Avanza == guardado' = [guardado EXCEPT ![contexto] = FALSE]
ActualizarContexto == guardado' = [guardado EXCEPT ![contexto] = TRUE]

(* SET, SUM, SUB, READ_MEM, WRITE_MEM, JNZ, LOG *)
Calcular ==
    /\ Ejecutar("CALCULAR", <<>>, Ciclo(TRUE, FALSE, FALSE), "chequear")
    /\ Avanza

(* Bug variant: the kernel is not told. *)
SegmentationFaultCallado ==
    /\ Ejecutar("SEG_FAULT", <<>>,
                CicloSegFault, "chequear")
    /\ ActualizarContexto

(* READ_MEM or WRITE_MEM out of the partition. *)
SegmentationFault ==
    /\ Ejecutar("SEG_FAULT", <<Palabra("FINALIZAR_PROCESO")>>,
                CicloSegFault, "chequear")
    /\ ActualizarContexto

ConConfirmacion ==
    /\ \/ Ejecutar("THREAD_CREATE", <<Palabra("CREAR_HILO")>>,
                   Ciclo(TRUE, FALSE, FALSE), "responder")
       \/ Ejecutar("MUTEX_UNLOCK", <<Palabra("DESBLOQUEAR_MUTEX")>>,
                   Ciclo(TRUE, FALSE, FALSE), "responder")
       \/ Ejecutar("MUTEX_CREATE", <<Palabra("CREAR_MUTEX")>>,
                   Ciclo(TRUE, FALSE, FALSE), "responder")
       \/ Ejecutar("MUTEX_LOCK", <<Palabra("BLOQUEAR_MUTEX")>>,
                   Ciclo(FALSE, FALSE, FALSE), "responder")
       \/ Ejecutar("THREAD_JOIN", <<Palabra("ESPERAR_HILO")>>,
                   Ciclo(FALSE, TRUE, TRUE), "responder")
       \/ Ejecutar("THREAD_EXIT", <<Palabra("FINALIZAR_HILO")>>,
                   Ciclo(FALSE, TRUE, FALSE), "responder")
    /\ Avanza

(* The context is updated before the kernel knows of the dump. *)
EjecutarDump ==
    /\ Ejecutar("DUMP_MEMORY", <<Palabra("DUMP_MEMORY")>>,
                Ciclo(FALSE, TRUE, FALSE), "responder")
    /\ ActualizarContexto

SinConfirmacion ==
    /\ \/ Ejecutar("IO", <<Palabra("IO")>>, Ciclo(FALSE, TRUE, TRUE), "chequear")
       \/ Ejecutar("PROCESS_CREATE", <<Palabra("CREAR_PROCESO")>>,
                   Ciclo(TRUE, FALSE, FALSE), "chequear")
       \/ Ejecutar("PROCESS_EXIT", <<Palabra("FINALIZAR_PROCESO")>>,
                   Ciclo(FALSE, TRUE, FALSE), "chequear")
    /\ Avanza

(* The packet is the code, the size of its buffer (4, which is the code of *)
(* OPERACION_DESALOJAR_HILO) and the TID (0 to 3: no operation of use).    *)
ThreadCancel ==
    /\ Ejecutar("THREAD_CANCEL",
                <<Palabra("CANCELAR_HILO"), Palabra("DESALOJAR_HILO"), Palabra("tid")>>,
                Ciclo(TRUE, FALSE, FALSE), "chequear")
    /\ Avanza

(* esperar_confirmacion aborts on anything but CONFIRMAR; MUTEX_LOCK reads *)
(* its answer itself.                                                      *)
RecibirRespuesta ==
    /\ cpu = "responder" /\ haciaCpu # <<>>
    /\ haciaCpu' = Tail(haciaCpu)
    /\ LET op == Head(haciaCpu).op IN
       IF instr = "MUTEX_LOCK"
       THEN /\ cpu' = "chequear"
            /\ ciclo' = IF op = "CONFIRMAR" THEN Ciclo(TRUE, FALSE, FALSE)
                        ELSE IF op = "NOTIFICAR_ERROR" THEN Ciclo(FALSE, TRUE, TRUE)
                        ELSE ciclo
       ELSE /\ cpu' = IF op = "CONFIRMAR" THEN "chequear" ELSE "abortada"
            /\ UNCHANGED ciclo
    /\ UNCHANGED <<kernelVars, timerVars, haciaKernel, interrupciones, contexto, instr,
                   hay_interrupcion, guardado>>

(* Bug variant: an interrupt that is ignored prevents the update. *)
ChequearSinOmitir ==
    LET interrumpir == hay_interrupcion /\ ~ciclo.omitir
    IN  /\ cpu = "chequear"
        /\ hay_interrupcion' = FALSE
        /\ cpu' = IF ciclo.seg_fault THEN "esperar"
                  ELSE IF interrumpir THEN "desalojar"
                  ELSE IF ciclo.siguiente THEN "ejecutar" ELSE "esperar"
        /\ IF (interrumpir /\ ~ciclo.seg_fault) \/ (~hay_interrupcion /\ ciclo.actualizar)
           THEN ActualizarContexto
           ELSE UNCHANGED guardado
        /\ UNCHANGED <<kernelVars, timerVars, canales, contexto, instr, ciclo>>

(* CHECK INTERRUPT: the flag is read and cleared. *)
Chequear ==
    LET interrumpir == hay_interrupcion /\ ~ciclo.omitir
    IN  /\ cpu = "chequear"
        /\ hay_interrupcion' = FALSE
        /\ cpu' = IF ciclo.seg_fault THEN "esperar"
                  ELSE IF interrumpir THEN "desalojar"
                  ELSE IF ciclo.siguiente THEN "ejecutar" ELSE "esperar"
        /\ IF (interrumpir /\ ~ciclo.seg_fault) \/ (~interrumpir /\ ciclo.actualizar)
           THEN ActualizarContexto
           ELSE UNCHANGED guardado
        /\ UNCHANGED <<kernelVars, timerVars, canales, contexto, instr, ciclo>>

Desalojar ==
    /\ cpu = "desalojar"
    /\ haciaKernel' = Append(haciaKernel, Palabra("DESALOJAR_HILO"))
    /\ cpu' = "esperar"
    /\ UNCHANGED <<kernelVars, timerVars, haciaCpu, interrupciones, contexto, instr,
                   ciclo, hay_interrupcion, guardado>>

PasoCpu ==
    \/ RecibirDispatch \/ PedirContexto
    \/ Calcular \/ SegmentationFault \/ ConConfirmacion \/ EjecutarDump
    \/ SinConfirmacion \/ ThreadCancel
    \/ RecibirRespuesta \/ Chequear \/ Desalojar

(* escuchar_interrupciones *)
EscucharInterrupciones ==
    /\ interrupciones > 0
    /\ interrupciones' = interrupciones - 1
    /\ hay_interrupcion' = TRUE
    /\ UNCHANGED <<kernelVars, timerVars, haciaCpu, haciaKernel, cpuVars>>

-----------------------------------------------------------------------------
Next ==
    \/ PasoPlanificador \/ PasoTemporizador
    \/ PasoCpu \/ EscucharInterrupciones
    \/ \E h \in Hilos : Despertar(h)

Spec == Init /\ [][Next]_vars

(* No thread of either program is starved; nothing obliges a program to    *)
(* make a syscall, nor what a blocked thread waits for to happen.          *)
Fairness ==
    /\ WF_vars(PasoPlanificador) /\ WF_vars(PasoTemporizador)
    /\ WF_vars(PasoCpu) /\ WF_vars(EscucharInterrupciones)

FairSpec == Spec /\ Fairness

-----------------------------------------------------------------------------
Ops == {"EJECUTAR_HILO", "CONFIRMAR", "NOTIFICAR_ERROR", "CREAR_PROCESO",
        "FINALIZAR_PROCESO", "CREAR_HILO", "FINALIZAR_HILO", "ESPERAR_HILO",
        "CREAR_MUTEX", "BLOQUEAR_MUTEX", "DESBLOQUEAR_MUTEX", "IO", "DUMP_MEMORY",
        "DESALOJAR_HILO", "CANCELAR_HILO", "tid"}
Palabras == [op : Ops, hilo : Hilos \cup {Ninguno}]

(* Every variable has its type. *)
TypeOK ==
    /\ listos \in Seq(Hilos) /\ bloqueados \subseteq Hilos \cup {Ninguno}
    /\ {estado_exec, hilo_en_ejecucion, contexto} \subseteq Hilos \cup {Ninguno}
    /\ sts \in {"planificar", "elegido", "recibir"}
    /\ temporizadores \in Seq([hilo : Hilos, propio : BOOLEAN,
                               estado : {"duerme", "envia"}])
    /\ quantum \in {"corre", "vencido", "avisado"}
    /\ haciaCpu \in Seq(Palabras) /\ haciaKernel \in Seq(Palabras)
    /\ interrupciones \in Nat
    /\ cpu \in {"esperar", "contexto", "ejecutar", "responder", "chequear",
                "desalojar", "abortada"}
    /\ instr \in Instrucciones \cup {"ninguna"}
    /\ ciclo \in [siguiente : BOOLEAN, omitir : BOOLEAN, actualizar : BOOLEAN,
                  seg_fault : BOOLEAN]
    /\ hay_interrupcion \in BOOLEAN
    /\ guardado \in [Hilos -> BOOLEAN]

(* The kernel handles a syscall as made by the thread in EXEC, "el hilo    *)
(* que invocó la syscall (Es el que está en estado EXEC)" (syscalls.c:86): *)
(* it is the one that the CPU was running, although PROCESS_CREATE is not  *)
(* answered and a timer may evict the thread meanwhile.                    *)
InvocadorEnExec ==
    sts = "recibir" /\ haciaKernel # <<>> =>
        Head(haciaKernel).hilo = estado_exec /\ estado_exec = hilo_en_ejecucion

(* The CPU only executes the thread that the kernel has in EXEC, and when  *)
(* it waits for the answer to a syscall none of another one reaches it:    *)
(* it never aborts.                                                        *)
CpuEjecutaExec ==
    /\ cpu \in {"contexto", "ejecutar"} => contexto = estado_exec /\ sts = "recibir"
    /\ cpu # "abortada"

(* A thread is loaded from the context of its last instruction: IO and     *)
(* JOIN tell the kernel before they update it, and the kernel may have     *)
(* woken and dispatched the thread again by then.                          *)
ContextoAlDia == cpu = "contexto" => guardado[contexto]

(* As long as every join blocks (JoinBloquea = {TRUE}), the planner and    *)
(* the CPU never wait for each other, whatever timers, interrupts and      *)
(* returns of threads come in between. Without that it does not hold: the  *)
(* CPU waits for a thread after any JOIN, while the planner, after the     *)
(* join of a TID that already ended, waits for the next word of the CPU    *)
(* (planificador-corto-plazo.c:110-112); MCDispatchJoin.cfg shows it.      *)
SinEsperaMutua ==
    ~(sts = "recibir" /\ haciaKernel = <<>> /\ cpu = "esperar" /\ haciaCpu = <<>>)

(* The CPU evicts a thread only once its own quantum is over ("Desalojado  *)
(* por fin de Quantum", planificador-corto-plazo.c:343).                   *)
DesalojoPorQuantum == cpu = "desalojar" => quantum # "corre"

(* When the kernel has interrupted the CPU because the quantum of the      *)
(* burst is over, the thread leaves the CPU.                               *)
DesalojoEfectivo ==
    (sts = "recibir" /\ quantum = "avisado") ~> (sts # "recibir")

(* What the kernel dispatches starts: the CPU gets to execute it.          *)
DespachoEfectivo ==
    \A h \in Hilos : (sts = "recibir" /\ estado_exec = h /\ haciaCpu # <<>>
                        /\ Last(haciaCpu).op = "EJECUTAR_HILO")
                     ~> (cpu = "ejecutar" /\ contexto = h)
=============================================================================
