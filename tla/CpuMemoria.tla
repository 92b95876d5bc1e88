----------------------------- MODULE CpuMemoria -----------------------------
(***************************************************************************)
(* The CPU (cpu/src/main.c) at the level of its registers, composed with   *)
(* the memory module: the context of the dispatched thread is brought from *)
(* the memory, every instruction is asked for, and the context goes back   *)
(* when the thread leaves the CPU.  The kernel is reduced to what it asks  *)
(* of both: the long-term planner creates processes and their main         *)
(* threads, the short-term planner dispatches and serves the syscalls that *)
(* reach the memory.  The words that the kernel and the CPU exchange are   *)
(* in module Dispatch; an interrupt may be pending at the end of any       *)
(* instruction.                                                            *)
(***************************************************************************)
EXTENDS Memoria

CONSTANTS
    Huerfanas,        \* memory threads that serve a THREAD_CREATE: nobody waits for them
    Volcadores,       \* memory threads that serve a DUMP_MEMORY: the planner goes on
    Solapadas         \* TRUE: a finalisation may overlap with other requests

ASSUME CpuMemoriaAssumption ==
    /\ Atencion = {"cpu", "lp", "sts", "volcado"} \cup Huerfanas \cup Volcadores
    /\ (Huerfanas \cup Volcadores) \cap {"cpu", "lp", "sts", "volcado"} = {}
    /\ Huerfanas \cap Volcadores = {}
    /\ Solapadas \in BOOLEAN

VARIABLES
    admitidos,     \* processes that the long-term planner asked for, in order
    lp,            \* what it waits for: "nada", "proceso" or "hilo"
    listos,        \* READY
    bloqueados,    \* threads, each with what it waits for: "IO" or "DUMP_MEMORY"
    estado_exec,   \* a thread or Nulo
    ultimo_tid,    \* [Pids -> last TID of the process]
    terminados,    \* nodes whose finalisation was asked for
    cpu,           \* program counter of the CPU
    hilo,          \* contexto.pid and contexto.tid
    contexto,      \* the registers
    instr          \* the instruction in course

kernelVars == <<admitidos, lp, listos, bloqueados, estado_exec, ultimo_tid, terminados>>
cpuVars == <<cpu, hilo, contexto, instr>>
vars == <<memVars, kernelVars, cpuVars>>

memSinTarea == <<primero, siguiente, existe, ctx, memoria, caida>>
listas == <<primero, siguiente, existe>>
Ninguna == [op |-> "ninguna"]

Init ==
    /\ MInit
    /\ admitidos = 0 /\ lp = "nada"
    /\ listos = <<>> /\ bloqueados = {} /\ estado_exec = Nulo
    /\ ultimo_tid = [p \in Pids |-> 0]
    /\ terminados = {}
    /\ cpu = "esperar" /\ hilo = Nulo /\ contexto = ContextoInicial(0, 0)
    /\ instr = Ninguna

Terminado(h) == {h, Proceso(h)} \cap terminados # {}

EnVolcado == {tarea[k].nodo : k \in Volcadores}

(* Requests may overlap, but not a finalisation with anything that walks   *)
(* or changes the lists, unless the instance says so.                      *)
Ocupadas == {k \in Atencion \ {"cpu"} : tarea[k] # Libre}
Finalizando == {k \in {"sts", "volcado"} : tarea[k] # Libre} # {}

-----------------------------------------------------------------------------
(* The long-term planner.  PROCESS_CREATE is not modelled here: a process  *)
(* may arrive at any time.                                                 *)

LpCrearProceso ==
    /\ lp = "nada" /\ admitidos <= MaxPid
    /\ Solapadas \/ ~Finalizando
    /\ Pedir("lp", "CREAR_PROCESO", <<admitidos>>)
    /\ lp' = "proceso"
    /\ UNCHANGED <<memSinTarea, admitidos, listos, bloqueados, estado_exec, ultimo_tid,
                   terminados, cpuVars>>

LpConfirmado ==
    /\ Confirmado("lp")
    /\ IF lp = "proceso"
       THEN lp' = "proceso_listo" /\ UNCHANGED <<admitidos, listos>>
       ELSE /\ lp' = "nada" /\ admitidos' = admitidos + 1
            /\ listos' = Append(listos, <<admitidos, 0>>)
    /\ UNCHANGED <<memSinTarea, bloqueados, estado_exec, ultimo_tid, terminados, cpuVars>>

LpCrearHilo ==
    /\ lp = "proceso_listo"
    /\ Solapadas \/ ~Finalizando
    /\ Pedir("lp", "CREAR_HILO", <<admitidos, 0>>)
    /\ lp' = "hilo"
    /\ UNCHANGED <<memSinTarea, admitidos, listos, bloqueados, estado_exec, ultimo_tid,
                   terminados, cpuVars>>

-----------------------------------------------------------------------------
(* Short-term planner, device and dumps. *)

Despachar ==
    /\ cpu = "esperar" /\ estado_exec = Nulo /\ tarea["sts"] = Libre
    /\ Solapadas \/ tarea["volcado"] = Libre
    /\ listos # <<>>
    /\ estado_exec' = Head(listos) /\ listos' = Tail(listos)
    /\ hilo' = Head(listos)
    /\ Pedir("cpu", "DEVOLVER_CONTEXTO", Head(listos))
    /\ cpu' = "contexto"
    /\ UNCHANGED <<memSinTarea, admitidos, lp, bloqueados, ultimo_tid, terminados,
                   contexto, instr>>

(* A dump is answered after the memory has read the partition. *)
Despertar(h, motivo) ==
    /\ <<h, motivo>> \in bloqueados
    /\ motivo = "DUMP_MEMORY" => h \notin EnVolcado
    /\ bloqueados' = bloqueados \ {<<h, motivo>>}
    /\ listos' = Append(listos, h)
    /\ UNCHANGED <<memVars, admitidos, lp, estado_exec, ultimo_tid, terminados, cpuVars>>

(* READY without the threads of a process. *)
Quitando(s, p) ==
    LET hasta[i \in 0..Len(s)] == IF i = 0 THEN <<>>
                                  ELSE IF s[i][1] = p THEN hasta[i - 1]
                                  ELSE Append(hasta[i - 1], s[i])
    IN  hasta[Len(s)]

SinProceso(p) ==
    /\ listos' = Quitando(listos, p)
    /\ bloqueados' = {b \in bloqueados : b[1][1] # p}

(* The thread of a failed dump finalises the process; in the code, also    *)
(* while the CPU walks the lists.                                          *)
VolcadoFallido(h) ==
    /\ <<h, "DUMP_MEMORY">> \in bloqueados /\ h \notin EnVolcado
    /\ Solapadas \/ (Ocupadas = {} /\ cpu = "esperar")
    /\ Pedir("volcado", "FINALIZAR_PROCESO", Proceso(h))
    /\ terminados' = terminados \cup {Proceso(h)}
    /\ SinProceso(h[1])
    /\ UNCHANGED <<memSinTarea, admitidos, lp, estado_exec, ultimo_tid, cpuVars>>

(* The planner goes on once the memory has confirmed.                      *)
StsConfirmado(k) ==
    /\ k # "lp" /\ Confirmado(k)
    /\ cpu' = IF k = "sts" /\ cpu = "confirmar" THEN "chequear" ELSE cpu
    /\ UNCHANGED <<memSinTarea, kernelVars, hilo, contexto, instr>>

-----------------------------------------------------------------------------
(* ciclo_de_instruccion. *)

Cpu(desde, hasta) ==
    /\ caida = "no" /\ cpu = desde /\ cpu' = hasta
    /\ UNCHANGED <<admitidos, lp>>

RecibirContexto ==
    /\ Cpu("contexto", "ciclo")
    /\ Servida("DEVOLVER_CONTEXTO", hilo)
    /\ contexto' = devolver_contexto_ejecucion(hilo)
    /\ UNCHANGED <<listas, ctx, memoria, listos, bloqueados, estado_exec, ultimo_tid, terminados,
                   hilo, instr>>

PedirInstruccion ==
    /\ Cpu("ciclo", "fetch")
    /\ Pedir("cpu", "DEVOLVER_INSTRUCCION", hilo)
    /\ UNCHANGED <<memSinTarea, listos, bloqueados, estado_exec, ultimo_tid, terminados,
                   hilo, contexto, instr>>

RecibirInstruccion ==
    /\ Cpu("fetch", "ejecutar")
    /\ Servida("DEVOLVER_INSTRUCCION", hilo)
    /\ instr' = devolver_instruccion(hilo, contexto.PC)
    /\ UNCHANGED <<listas, ctx, memoria, listos, bloqueados, estado_exec, ultimo_tid, terminados,
                   hilo, contexto>>

(* Registers only; "PC INVALIDO" is no instruction, and does nothing.      *)
EjecutarCalculo ==
    /\ Cpu("ejecutar", "chequear")
    /\ instr.op \in {"SET", "SUM", "SUB", "JNZ", "LOG", "PC INVALIDO"}
    /\ contexto' = IF instr.op = "PC INVALIDO" THEN contexto ELSE Calcular(contexto, instr)
    /\ UNCHANGED <<memVars, listos, bloqueados, estado_exec, ultimo_tid, terminados, hilo,
                   instr>>

(* The kernel is told of an IO before the context is updated, and may have *)
(* woken the thread up by then.                                            *)
EjecutarIO ==
    /\ Cpu("ejecutar", "chequear")
    /\ instr.op = "IO"
    /\ contexto' = Calcular(contexto, instr)
    /\ bloqueados' = bloqueados \cup {<<hilo, "IO">>}
    /\ estado_exec' = Nulo
    /\ UNCHANGED <<memVars, listos, ultimo_tid, terminados, hilo, instr>>

(* The memory serves the access while the CPU waits: one step. *)
EjecutarAcceso ==
    /\ Cpu("ejecutar", "chequear")
    /\ Accede(instr) /\ ~SegFault(contexto, instr)
    /\ IF FueraDeMemoria(contexto, instr)
       THEN caida' = "fuera_de_memoria" /\ UNCHANGED <<memoria, contexto>>
       ELSE /\ contexto' = IF instr.op = "READ_MEM" THEN read_mem(contexto, memoria, instr)
                           ELSE incrementar_pc(contexto)
            /\ memoria' = IF instr.op = "WRITE_MEM" THEN write_mem(contexto, memoria, instr)
                          ELSE memoria
            /\ UNCHANGED caida
    /\ UNCHANGED <<primero, siguiente, existe, ctx, tarea, listos, bloqueados, estado_exec,
                   ultimo_tid, terminados, hilo, instr>>

Actualizar(contexto_) ==
    /\ Servida("ACTUALIZAR_CONTEXTO", hilo)
    /\ ctx' = [ctx EXCEPT ![hilo] = actualizar_contexto_ejecucion(hilo, contexto_)]
    /\ UNCHANGED <<listas, memoria>>

(* The kernel is told to finalise the process, by PROCESS_EXIT or by       *)
(* segmentation_fault once the context is updated; its planner asks the    *)
(* memory to free the process and does not answer.                         *)
FinalizarProceso ==
    /\ Solapadas \/ Ocupadas = {}
    /\ terminados' = terminados \cup {Proceso(hilo)}
    /\ SinProceso(hilo[1])
    /\ estado_exec' = Nulo

EjecutarSegFault ==
    /\ Cpu("ejecutar", "seg_fault")
    /\ SegFault(contexto, instr)
    /\ Pedir("cpu", "ACTUALIZAR_CONTEXTO", hilo)
    /\ UNCHANGED <<memSinTarea, listos, bloqueados, estado_exec, ultimo_tid, terminados,
                   hilo, contexto, instr>>

ActualizarSegFault ==
    /\ Cpu("seg_fault", "avisar")
    /\ Actualizar(contexto)
    /\ UNCHANGED <<listos, bloqueados, estado_exec, ultimo_tid, terminados, hilo, contexto,
                   instr>>

AvisarSegFault ==
    /\ Cpu("avisar", "esperar")
    /\ FinalizarProceso
    /\ Pedir("sts", "FINALIZAR_PROCESO", Proceso(hilo))
    /\ UNCHANGED <<memSinTarea, ultimo_tid, hilo, contexto, instr>>

EjecutarProcessExit ==
    /\ Cpu("ejecutar", "chequear")
    /\ instr.op = "PROCESS_EXIT"
    /\ contexto' = Calcular(contexto, instr)
    /\ FinalizarProceso
    /\ Pedir("sts", "FINALIZAR_PROCESO", Proceso(hilo))
    /\ UNCHANGED <<memSinTarea, ultimo_tid, hilo, instr>>

EjecutarThreadExit ==
    /\ Cpu("ejecutar", "confirmar")
    /\ instr.op = "THREAD_EXIT"
    /\ Solapadas \/ Ocupadas = {}
    /\ contexto' = Calcular(contexto, instr)
    /\ terminados' = terminados \cup {hilo}
    /\ estado_exec' = Nulo
    /\ Pedir("sts", "FINALIZAR_HILO", hilo)
    /\ UNCHANGED <<memSinTarea, listos, bloqueados, ultimo_tid, hilo, instr>>

(* syscall_crear_hilo sends the request and goes on: the new thread is     *)
(* READY whether or not the memory has created it.                         *)
EjecutarThreadCreate ==
    \E k \in Huerfanas :
        LET nuevo == <<hilo[1], ultimo_tid[hilo[1]] + 1>>
        IN  /\ Cpu("ejecutar", "chequear")
            /\ instr.op = "THREAD_CREATE" /\ nuevo \in Hilos
            /\ Solapadas \/ ~Finalizando
            /\ contexto' = Calcular(contexto, instr)
            /\ ultimo_tid' = [ultimo_tid EXCEPT ![hilo[1]] = @ + 1]
            /\ listos' = Append(listos, nuevo)
            /\ Pedir(k, "CREAR_HILO", nuevo)
            /\ UNCHANGED <<memSinTarea, bloqueados, estado_exec, terminados, hilo, instr>>

(* The context is updated first, with the PC already incremented.          *)
EjecutarDump ==
    /\ Cpu("ejecutar", "dump")
    /\ instr.op = "DUMP_MEMORY"
    /\ contexto' = Calcular(contexto, instr)
    /\ Pedir("cpu", "ACTUALIZAR_CONTEXTO", hilo)
    /\ UNCHANGED <<memSinTarea, listos, bloqueados, estado_exec, ultimo_tid, terminados,
                   hilo, instr>>

ActualizarDump ==
    /\ Cpu("dump", "volcar")
    /\ Actualizar(contexto)
    /\ UNCHANGED <<listos, bloqueados, estado_exec, ultimo_tid, terminados, hilo, contexto,
                   instr>>

(* The kernel sends the dump to the memory and blocks the thread.          *)
PedirDump ==
    \E k \in Volcadores :
        /\ Cpu("volcar", "chequear")
        /\ Pedir(k, "DUMP_MEMORY", hilo)
        /\ bloqueados' = bloqueados \cup {<<hilo, "DUMP_MEMORY">>}
        /\ estado_exec' = Nulo
        /\ UNCHANGED <<memSinTarea, listos, ultimo_tid, terminados, hilo, contexto, instr>>

(* CHECK INTERRUPT.  IO updates its context whatever the interrupt; the    *)
(* other instructions, only when there is one.                             *)
Omite == instr.op \in {"IO", "DUMP_MEMORY", "THREAD_EXIT", "PROCESS_EXIT"}

Chequear(hay_interrupcion) ==
    LET interrumpir == hay_interrupcion /\ ~Omite
        actualizar == interrumpir \/ instr.op = "IO"
    IN  /\ Cpu("chequear", IF actualizar THEN "actualizar"
                           ELSE IF Omite \/ instr.op = "PC INVALIDO" THEN "esperar" ELSE "ciclo")
        /\ IF actualizar THEN Pedir("cpu", "ACTUALIZAR_CONTEXTO", hilo)
           ELSE UNCHANGED tarea
        /\ UNCHANGED <<memSinTarea, listos, bloqueados, estado_exec, ultimo_tid,
                       terminados, hilo, contexto, instr>>

(* The thread leaves the CPU; an evicted one goes to READY.                *)
Salir ==
    /\ Cpu("actualizar", "esperar")
    /\ Actualizar(contexto)
    /\ IF instr.op = "IO" THEN UNCHANGED <<listos, estado_exec>>
       ELSE listos' = Append(listos, hilo) /\ estado_exec' = Nulo
    /\ UNCHANGED <<bloqueados, ultimo_tid, terminados, hilo, contexto, instr>>

PasoCpu ==
    \/ RecibirContexto \/ PedirInstruccion \/ RecibirInstruccion
    \/ EjecutarCalculo \/ EjecutarIO \/ EjecutarAcceso \/ EjecutarSegFault
    \/ ActualizarSegFault \/ AvisarSegFault
    \/ EjecutarProcessExit \/ EjecutarThreadExit \/ EjecutarThreadCreate
    \/ EjecutarDump \/ ActualizarDump \/ PedirDump
    \/ Chequear(TRUE) \/ Chequear(FALSE) \/ Salir

PasoKernel ==
    \/ LpCrearProceso \/ LpConfirmado \/ LpCrearHilo
    \/ \E k \in Atencion : StsConfirmado(k)

Next ==
    \/ PasoKernel \/ Despachar \/ PasoCpu
    \/ \E h \in Hilos, motivo \in {"IO", "DUMP_MEMORY"} : Despertar(h, motivo)
    \/ \E h \in Hilos : VolcadoFallido(h)
    \/ \E k \in Atencion : PasoMemoria(k) /\ UNCHANGED <<kernelVars, cpuVars>>

Spec == Init /\ [][Next]_vars

(* No thread of the three programs is starved, the device serves its       *)
(* requests and the memory answers the dumps.                              *)
Fairness ==
    /\ WF_vars(Despachar) /\ WF_vars(PasoCpu)
    /\ WF_vars(LpCrearProceso \/ LpConfirmado \/ LpCrearHilo)
    /\ \A k \in Atencion : WF_vars(PasoMemoria(k) /\ UNCHANGED <<kernelVars, cpuVars>>)
        /\ WF_vars(StsConfirmado(k))
    /\ \A h \in Hilos : WF_vars(Despertar(h, "IO")) /\ WF_vars(Despertar(h, "DUMP_MEMORY"))

FairSpec == Spec /\ Fairness

-----------------------------------------------------------------------------
(* While no finalisation overlaps with other requests, the memory serves   *)
(* the CPU and the dumps while others append to the same lists, and finds  *)
(* what it is asked for: the only way it crashes is that the kernel        *)
(* dispatches a thread whose creation it did not wait for (syscalls.c:103).*)
(* With Solapadas there are more: a node freed under a walk, a dump whose  *)
(* process was finalised first.                                            *)
SinCaida == caida # "no" => caida = "hilo_sin_crear" /\ ~Terminado(hilo)

(* No node is lost, repeated or left in a list after it was freed: what a  *)
(* walk from the head of a list visits is what was created in it and not   *)
(* finalised, and no thread outlives its process.                          *)
ListasCompletas ==
    /\ \A l \in {<<>>} \cup (existe \cap Procesos) :
           \E s \in SetToSeqs({n \in existe : Lista(n) = l}) : Visita(l, s)
    /\ \A h \in existe \cap Hilos : Proceso(h) \in existe

(* Loading, fetching, saving and the walks of the memory add up to whole   *)
(* instructions: a thread computes the same as on a machine of its own,    *)
(* whatever interrupts, blocking syscalls and other threads get in between *)
(* (the context is in the CPU while it executes, in its node otherwise; a  *)
(* program that ran off its end stays in the CPU, which waits).            *)
CpuTiene(h) == hilo = h /\ cpu # "contexto" /\ (cpu = "esperar" => estado_exec = h)

Vida(h) == IF Terminado(h) THEN "muerto" ELSE IF h \in existe THEN "vivo" ELSE "por_nacer"

M == INSTANCE Maquina WITH
        vida <- [h \in Hilos |-> Vida(h)],
        registros <- [h \in Hilos |->
            IF Vida(h) # "vivo" THEN ContextoInicial(Base(h[1]), Limite(h[1]))
            ELSE IF CpuTiene(h) THEN contexto
            ELSE devolver_contexto_ejecucion(h)]

ImplementaMaquina == M!Spec

(* Every thread gets to the end of its program, if its program has one:    *)
(* no interrupt, save or restore makes it go back.                         *)
HiloTermina ==
    \A h \in Hilos : (h \in existe) ~> (h \notin existe \/ caida # "no")
=============================================================================
