------------------------------- MODULE Kernel -------------------------------
(***************************************************************************)
(* The kernel: the long-term planner of LargoPlazo composed with the       *)
(* short-term planner and its syscall handlers (planificador-corto-plazo.c, *)
(* syscalls.c), the I/O device thread (dispositivo-io.c) and the threads   *)
(* that wait for a memory dump.  A handler that answers at once is one     *)
(* action; the finalisation of a process, which other threads run through, *)
(* is one action per thread it destroys.  A thread is its <<pid, tid>>:    *)
(* neither number is ever reused, so a freed TCB is one outside vivos.     *)
(***************************************************************************)
EXTENDS LargoPlazo

CONSTANTS
    MaxMutex,      \* bound: how many mutexes a process creates
    Recursos,      \* names of mutexes
    Prioridades,   \* 0 is the highest
    Algoritmo,     \* ALGORITMO_PLANIFICACION: "FIFO", "PRIORIDADES" or "CMN"
    Syscalls       \* the syscalls that the programs of the instance use

ASSUME KernelAssumption ==
    /\ MaxMutex \in Nat
    /\ Prioridades \subseteq Nat /\ 0 \in Prioridades
    /\ Algoritmo \in {"FIFO", "PRIORIDADES", "CMN"}

Ninguno == <<-1, -1>>          \* the NULL of a t_tcb*

VARIABLES
    estado_ready,              \* list of threads
    semaforo_estado_ready,
    estado_exec,               \* a thread or Ninguno
    estado_blocked,            \* set of threads: the list is only searched
    tids,                      \* [Pids -> list of TIDs]
    ultimo_tid,                \* [Pids -> Tids]
    prioridad,                 \* [Hilos -> Prioridades]
    esperan,                   \* tcb->hilos_bloqueados: who joined each thread
    vivos,                     \* threads whose TCB is allocated
    mutex,                     \* [Pids -> list of mutexes]
    cola_io, io_actual,        \* I/O requests: queued, being served
    volcados,                  \* threads with a memory dump in course
    sts,                       \* program counter of the short-term planner
    descontando,               \* finalisers about to sem_wait(semaforo_estado_ready)
    fallo                      \* "ninguno", or why the kernel process crashed

kEstados == <<estado_ready, semaforo_estado_ready, estado_exec, estado_blocked>>
kHilos == <<tids, ultimo_tid, prioridad, esperan, vivos>>
kIO == <<cola_io, io_actual, volcados>>
kvars == <<kEstados, kHilos, kIO, mutex, sts, descontando, fallo>>
kernelVars == <<vars, kvars>>

KInit ==
    /\ Init
    /\ estado_ready = <<>> /\ semaforo_estado_ready = 0
    /\ estado_exec = Ninguno /\ estado_blocked = {}
    /\ tids = [p \in Pids |-> <<>>]
    /\ ultimo_tid = [p \in Pids |-> 0]
    /\ prioridad = [h \in Hilos |-> 0]
    /\ esperan = [h \in Hilos |-> <<>>]
    /\ vivos = {}
    /\ mutex = [p \in Pids |-> <<>>]
    /\ cola_io = <<>> /\ io_actual = Ninguno /\ volcados = {}
    /\ sts = "planificar" /\ descontando = {} /\ fallo = "ninguno"

-----------------------------------------------------------------------------
(* Bug variant: the thread stays in BLOCKED too. *)
BlockedAReadySinSacar(hs) ==
    /\ estado_ready' = estado_ready \o hs
    /\ semaforo_estado_ready' = semaforo_estado_ready + Len(hs)
    /\ UNCHANGED estado_blocked

(* transicion_blocked_a_ready of each thread of hs, in order; nothing      *)
(* checks that they are still allocated or that they were in BLOCKED.      *)
BlockedAReady(hs) ==
    /\ estado_blocked' = estado_blocked \ ToSet(hs)
    /\ estado_ready' = estado_ready \o hs
    /\ semaforo_estado_ready' = semaforo_estado_ready + Len(hs)

(* transicion_exec_a_blocked: the planner then goes for another thread. *)
ExecABlocked ==
    /\ estado_exec' = Ninguno
    /\ estado_blocked' = estado_blocked \cup {estado_exec}
    /\ sts' = "planificar"
    /\ UNCHANGED <<estado_ready, semaforo_estado_ready>>

(* The crash of the kernel, after which nothing runs. *)
Fallar(causa) ==
    /\ fallo' = causa
    /\ UNCHANGED <<vars, kEstados, kHilos, kIO, mutex, sts, descontando>>

(* obtener_siguiente_a_exec: the first of READY, or the first of those     *)
(* with the highest priority (the least number).                           *)
Siguiente ==
    IF Algoritmo = "FIFO" THEN Head(estado_ready)
    ELSE LET mejor == Min({prioridad[h] : h \in ToSet(estado_ready)})
         IN  estado_ready[Min({i \in DOMAIN estado_ready : prioridad[estado_ready[i]] = mejor})]

Planificar ==
    /\ sts = "planificar"
    /\ semaforo_estado_ready > 0
    /\ IF estado_ready = <<>> THEN Fallar("ready_vacio")
       ELSE IF Siguiente \notin vivos THEN Fallar("hilo_liberado")
       ELSE /\ semaforo_estado_ready' = semaforo_estado_ready - 1
            /\ estado_exec' = Siguiente
            /\ estado_ready' = RemoveFirst(estado_ready, Siguiente)
            /\ sts' = "cpu"
            /\ UNCHANGED <<vars, estado_blocked, kHilos, kIO, mutex, descontando, fallo>>

-----------------------------------------------------------------------------
(* The long-term planner: its steps that touch the state of the threads.   *)

IniciarPrincipal ==
    LET p == proceso_a_inicializar IN
    /\ IniciarHiloPrincipal
    /\ tids' = [tids EXCEPT ![p] = Append(@, 0)]
    /\ vivos' = vivos \cup {<<p, 0>>}
    /\ UNCHANGED <<kEstados, ultimo_tid, prioridad, esperan, kIO, mutex, sts,
                   descontando, fallo>>

AgregarPrincipal ==
    /\ AgregarAReady
    /\ estado_ready' = Append(estado_ready, <<proceso_a_inicializar, 0>>)
    /\ UNCHANGED <<semaforo_estado_ready, estado_exec, estado_blocked, kHilos,
                   kIO, mutex, sts, descontando, fallo>>

AvisarPrincipal ==
    /\ AvisarReady
    /\ semaforo_estado_ready' = semaforo_estado_ready + 1
    /\ UNCHANGED <<estado_ready, estado_exec, estado_blocked, kHilos, kIO,
                   mutex, sts, descontando, fallo>>

LargoPlazoSolo ==
    /\ \/ EsperarMemoria \/ EsperarNew \/ ObtenerProceso \/ PedirInicializacionProceso
       \/ ReponerNew \/ LiberarMemoriaSuficiente \/ SacarDeNew
    /\ UNCHANGED kvars

-----------------------------------------------------------------------------
(* Syscalls of the thread in EXEC.  The handler starts by reading its TCB, *)
(* and most of them look its process up in lista_procesos.                 *)

EnCpu(s) ==
    /\ s \in Syscalls
    /\ sts = "cpu"
    /\ creador = "libre"
    /\ estado_exec \in vivos

EnCpuConProceso(s) == EnCpu(s) /\ Pid(estado_exec) \in lista_procesos

ConBuscarProceso == Syscalls \ {"PROCESS_CREATE", "IO", "DUMP_MEMORY"}

(* The finaliser of a failed dump destroyed the process under the thread   *)
(* that executes: its TCB is freed memory, or buscar_proceso aborts.       *)
UsarHiloDestruido ==
    /\ sts = "cpu"
    /\ creador = "libre"
    /\ \/ estado_exec \notin vivos /\ Fallar("hilo_liberado")
       \/ /\ estado_exec \in vivos
          /\ Pid(estado_exec) \notin lista_procesos
          /\ ConBuscarProceso # {}
          /\ Fallar("proceso_inexistente")

(* Creating or ending a thread, and its dump, are requests to the memory,  *)
(* which dereferences a NULL when it has freed the process.                *)
UsarProcesoLiberado(h) ==
    /\ Pid(h) \notin en_memoria
    /\ \/ h \in volcados
       \/ /\ h = estado_exec
          /\ \E s \in {"THREAD_CREATE", "THREAD_EXIT"} : EnCpuConProceso(s)
    /\ Fallar("memoria_caida")

ProcessCreate ==
    \E prio \in Prioridades :
        /\ EnCpu("PROCESS_CREATE")
        /\ CrearProceso
        /\ prioridad' = [prioridad EXCEPT ![<<ULTIMO_PID + 1, 0>>] = prio]
        /\ UNCHANGED <<kEstados, tids, ultimo_tid, esperan, vivos, kIO, mutex, sts,
                       descontando, fallo>>

ProcessCreateSigue == (AgregarANew \/ AvisarNew) /\ UNCHANGED kvars

ThreadCreate ==
    \E prio \in Prioridades :
        LET p == Pid(estado_exec)
            h == <<p, ultimo_tid[p] + 1>>
        IN  /\ EnCpuConProceso("THREAD_CREATE")
            /\ p \in en_memoria
            /\ ultimo_tid[p] < MaxTid
            /\ ultimo_tid' = [ultimo_tid EXCEPT ![p] = @ + 1]
            /\ tids' = [tids EXCEPT ![p] = Append(@, ultimo_tid[p] + 1)]
            /\ prioridad' = [prioridad EXCEPT ![h] = prio]
            /\ vivos' = vivos \cup {h}
            /\ estado_ready' = Append(estado_ready, h)
            /\ semaforo_estado_ready' = semaforo_estado_ready + 1
            /\ UNCHANGED <<vars, estado_exec, estado_blocked, esperan, kIO, mutex,
                           sts, descontando, fallo>>

UnMutex(r, libre, h, hs) ==
    [recurso |-> r, esta_libre |-> libre, hilo_asignado |-> h, hilos_bloqueados |-> hs]

(* Bug variants: a mutex without owner stays taken; the last waiter wins. *)
LiberarOcupado(m) ==
    IF m.hilos_bloqueados = <<>> THEN UnMutex(m.recurso, FALSE, Ninguno, <<>>)
    ELSE UnMutex(m.recurso, FALSE, Head(m.hilos_bloqueados), Tail(m.hilos_bloqueados))

LiberarUltimo(m) ==
    IF m.hilos_bloqueados = <<>> THEN UnMutex(m.recurso, TRUE, Ninguno, <<>>)
    ELSE UnMutex(m.recurso, FALSE, Last(m.hilos_bloqueados), Front(m.hilos_bloqueados))

(* Release of a mutex: to its first waiter, or free. *)
Liberar(m) ==
    IF m.hilos_bloqueados = <<>> THEN UnMutex(m.recurso, TRUE, Ninguno, <<>>)
    ELSE UnMutex(m.recurso, FALSE, Head(m.hilos_bloqueados), Tail(m.hilos_bloqueados))

(* Who gets the mutexes of ms that h has, in the order of the list. *)
Herederos(ms, h) ==
    LET her[n \in 0..Len(ms)] ==
            IF n = 0 THEN <<>>
            ELSE IF ms[n].hilo_asignado = h /\ ms[n].hilos_bloqueados # <<>>
                 THEN Append(her[n - 1], Head(ms[n].hilos_bloqueados))
                 ELSE her[n - 1]
    IN  her[Len(ms)]

(* THREAD_EXIT: hands over the mutexes of the thread, wakes those that     *)
(* joined it and frees it; estado_exec keeps pointing at it.               *)
ThreadExit ==
    LET h == estado_exec
        p == Pid(h)
    IN  /\ EnCpuConProceso("THREAD_EXIT")
        /\ p \in en_memoria
        /\ tids' = [tids EXCEPT ![p] = RemoveFirst(@, h[2])]
        /\ mutex' = [mutex EXCEPT ![p] = [i \in 1..Len(@) |->
                        IF @[i].hilo_asignado = h THEN Liberar(@[i]) ELSE @[i]]]
        /\ BlockedAReady(Herederos(mutex[p], h) \o esperan[h])
        /\ esperan' = [esperan EXCEPT ![h] = <<>>]
        /\ vivos' = vivos \ {h}
        /\ sts' = "planificar"
        /\ UNCHANGED <<vars, estado_exec, ultimo_tid, prioridad, kIO, descontando, fallo>>

(* THREAD_JOIN: blocks on a TID that the process still has.  Otherwise the *)
(* planner goes on receiving from a CPU that waits for a dispatch          *)
(* (module Dispatch): no syscall reaches the kernel again.                 *)
ThreadJoin ==
    \E t \in Tids :
        LET h == estado_exec
            p == Pid(h)
        IN  /\ EnCpuConProceso("THREAD_JOIN")
            /\ IF t \in ToSet(tids[p])
               THEN /\ esperan' = [esperan EXCEPT ![<<p, t>>] = Append(@, h)]
                    /\ ExecABlocked
               ELSE /\ sts' = "sin_respuesta"
                    /\ UNCHANGED <<esperan, kEstados>>
            /\ UNCHANGED <<vars, tids, ultimo_tid, prioridad, vivos, kIO, mutex,
                           descontando, fallo>>

MutexCreate ==
    \E r \in Recursos :
        LET p == Pid(estado_exec) IN
        /\ EnCpuConProceso("MUTEX_CREATE")
        /\ Len(mutex[p]) < MaxMutex
        /\ mutex' = [mutex EXCEPT ![p] = Append(@, UnMutex(r, TRUE, Ninguno, <<>>))]
        /\ UNCHANGED <<vars, kEstados, kHilos, kIO, sts, descontando, fallo>>

(* list_find by name: the first mutex of the process called r, 0 if none. *)
Buscar(p, r) == SelectInSeq(mutex[p], LAMBDA m : m.recurso = r)

MutexLock ==
    \E r \in Recursos :
        LET h == estado_exec
            p == Pid(h)
            i == Buscar(p, r)
            m == mutex[p][i]
        IN  /\ EnCpuConProceso("MUTEX_LOCK")
            /\ IF i = 0 THEN Fallar("mutex_inexistente")
               ELSE /\ IF m.esta_libre
                       THEN /\ mutex' = [mutex EXCEPT ![p] = [@ EXCEPT ![i] =
                                            UnMutex(r, FALSE, h, m.hilos_bloqueados)]]
                            /\ UNCHANGED <<kEstados, sts>>
                       ELSE /\ mutex' = [mutex EXCEPT ![p] = [@ EXCEPT ![i] =
                                            UnMutex(r, FALSE, m.hilo_asignado,
                                                    Append(m.hilos_bloqueados, h))]]
                            /\ ExecABlocked
                    /\ UNCHANGED <<vars, kHilos, kIO, descontando, fallo>>

(* Only the owner releases, anyone else is ignored; the owner of a free    *)
(* mutex is a null pointer.                                                *)
MutexUnlock ==
    \E r \in Recursos :
        LET h == estado_exec
            p == Pid(h)
            i == Buscar(p, r)
            m == mutex[p][i]
        IN  /\ EnCpuConProceso("MUTEX_UNLOCK")
            /\ IF i = 0 THEN Fallar("mutex_inexistente")
               ELSE IF m.hilo_asignado = Ninguno THEN Fallar("mutex_libre")
               ELSE IF m.hilo_asignado # h THEN UNCHANGED kernelVars
               ELSE /\ mutex' = [mutex EXCEPT ![p] = [@ EXCEPT ![i] = Liberar(m)]]
                    /\ IF m.hilos_bloqueados = <<>>
                       THEN UNCHANGED kEstados
                       ELSE /\ BlockedAReady(<<Head(m.hilos_bloqueados)>>)
                            /\ UNCHANGED estado_exec
                    /\ UNCHANGED <<vars, kHilos, kIO, sts, descontando, fallo>>

IO ==
    /\ EnCpu("IO")
    /\ ExecABlocked
    /\ cola_io' = Append(cola_io, estado_exec)
    /\ UNCHANGED <<vars, kHilos, io_actual, volcados, mutex, descontando, fallo>>

DumpMemory ==
    /\ EnCpu("DUMP_MEMORY")
    /\ ExecABlocked
    /\ volcados' = volcados \cup {estado_exec}
    /\ UNCHANGED <<vars, kHilos, cola_io, io_actual, mutex, descontando, fallo>>

(* Bug variants: no sem_post; the thread is read after EXEC was cleared. *)
DesalojarSinPost ==
    /\ Algoritmo = "CMN"
    /\ sts = "cpu" /\ creador = "libre" /\ estado_exec \in vivos
    /\ estado_exec' = Ninguno
    /\ estado_ready' = Append(estado_ready, estado_exec)
    /\ sts' = "planificar"
    /\ UNCHANGED <<vars, semaforo_estado_ready, estado_blocked, kHilos, kIO, mutex,
                   descontando, fallo>>

(* The CPU gives the thread back at the end of its quantum. *)
Desalojar ==
    /\ Algoritmo = "CMN"
    /\ sts = "cpu" /\ creador = "libre" /\ estado_exec \in vivos
    /\ estado_exec' = Ninguno
    /\ estado_ready' = Append(estado_ready, estado_exec)
    /\ semaforo_estado_ready' = semaforo_estado_ready + 1
    /\ sts' = "planificar"
    /\ UNCHANGED <<vars, estado_blocked, kHilos, kIO, mutex, descontando, fallo>>

-----------------------------------------------------------------------------
(* The I/O device and the threads that wait for a dump hold the pointer    *)
(* they were given, and do not look whether the thread still exists.       *)

TomarIO ==
    /\ io_actual = Ninguno /\ cola_io # <<>>
    /\ io_actual' = Head(cola_io)
    /\ cola_io' = Tail(cola_io)
    /\ UNCHANGED <<vars, kEstados, kHilos, volcados, mutex, sts, descontando, fallo>>

(* Bug variant: the thread is not unblocked. *)
TerminarIOSinDesbloquear ==
    /\ io_actual # Ninguno
    /\ io_actual' = Ninguno
    /\ UNCHANGED <<vars, kEstados, kHilos, cola_io, volcados, mutex, sts,
                   descontando, fallo>>

TerminarIO ==
    /\ io_actual # Ninguno
    /\ BlockedAReady(<<io_actual>>)
    /\ io_actual' = Ninguno
    /\ UNCHANGED <<vars, estado_exec, kHilos, cola_io, volcados, mutex, sts,
                   descontando, fallo>>

DumpConfirmado(h) ==
    /\ h \in volcados \ (buscando \cup sacando)
    /\ BlockedAReady(<<h>>)
    /\ volcados' = volcados \ {h}
    /\ UNCHANGED <<vars, estado_exec, kHilos, cola_io, io_actual, mutex, sts,
                   descontando, fallo>>

-----------------------------------------------------------------------------
(* finalizar_proceso_por_pid, run by the short-term planner (PROCESS_EXIT, *)
(* by any thread) or by the thread of a failed dump.                       *)

ProcessExit ==
    /\ EnCpuConProceso("PROCESS_EXIT")
    /\ BuscarProceso(estado_exec)
    /\ sts' = "finalizar"
    /\ UNCHANGED <<kEstados, kHilos, kIO, mutex, descontando, fallo>>

(* Bug variant: the process is not looked up in lista_procesos. *)
DumpFallidoSinBuscar(h) ==
    /\ "DUMP_FALLIDO" \in Syscalls
    /\ h \in volcados \ (buscando \cup sacando)
    /\ buscando' = buscando \cup {h}
    /\ UNCHANGED <<varsCreacion, varsPlanificador, varsNew, varsMemoria, lista_procesos,
                   admitidos, sacando, finalizando, memoria, kvars>>

(* Its thread keeps waiting for the dump until the PCB is out of the list. *)
DumpFallido(h) ==
    /\ "DUMP_FALLIDO" \in Syscalls
    /\ h \in volcados \ (buscando \cup sacando)
    /\ IF h \notin vivos THEN Fallar("hilo_liberado")
       ELSE IF Pid(h) \notin lista_procesos THEN Fallar("proceso_inexistente")
       ELSE BuscarProceso(h) /\ UNCHANGED kvars

PedirBaja(h) == PedirFinalizacion(h) /\ UNCHANGED kvars

SacarPCB(h) ==
    /\ SacarProceso(h)
    /\ volcados' = volcados \ {h}
    /\ UNCHANGED <<kEstados, kHilos, cola_io, io_actual, mutex, sts, descontando, fallo>>

Destruir(h) ==
    /\ tids' = [tids EXCEPT ![Pid(h)] = Front(@)]
    /\ esperan' = [esperan EXCEPT ![h] = <<>>]
    /\ vivos' = vivos \ {h}
    /\ UNCHANGED <<ultimo_tid, prioridad>>

(* Bug variant: the thread is freed but stays in its list. *)
FinalizarHiloSinSacar(p) ==
    /\ p \in finalizando \ descontando
    /\ tids[p] # <<>>
    /\ Destruir(<<p, Last(tids[p])>>)
    /\ UNCHANGED <<vars, kEstados, kIO, mutex, sts, descontando, fallo>>

(* One turn of the loop, last TID first: those that joined the thread go   *)
(* to READY, the thread leaves READY or BLOCKED and is freed.  A thread    *)
(* taken out of READY also takes a token back, which is a step apart.      *)
FinalizarHilo(p) ==
    LET h == <<p, Last(tids[p])>>
        despiertos == esperan[h]
        ready == estado_ready \o despiertos
    IN  /\ p \in finalizando \ descontando
        /\ tids[p] # <<>>
        /\ semaforo_estado_ready' = semaforo_estado_ready + Len(despiertos)
        /\ estado_ready' = RemoveFirst(ready, h)
        /\ IF h \in ToSet(ready)
           THEN /\ descontando' = descontando \cup {p}
                /\ estado_blocked' = estado_blocked \ ToSet(despiertos)
                /\ esperan' = [esperan EXCEPT ![h] = <<>>]
                /\ UNCHANGED <<tids, ultimo_tid, prioridad, vivos>>
           ELSE /\ estado_blocked' = estado_blocked \ (ToSet(despiertos) \cup {h})
                /\ Destruir(h)
                /\ UNCHANGED descontando
        /\ UNCHANGED <<vars, estado_exec, kIO, mutex, sts, fallo>>

DescontarReady(p) ==
    LET h == <<p, Last(tids[p])>> IN
    /\ p \in descontando
    /\ semaforo_estado_ready > 0
    /\ semaforo_estado_ready' = semaforo_estado_ready - 1
    /\ estado_blocked' = estado_blocked \ {h}
    /\ Destruir(h)
    /\ descontando' = descontando \ {p}
    /\ UNCHANGED <<vars, estado_ready, estado_exec, kIO, mutex, sts, fallo>>

(* The semaphore of the memory, and the PCB with its mutexes is freed. *)
TerminarFinalizacion(p) ==
    /\ tids[p] = <<>>
    /\ AvisarMemoria(p)
    /\ mutex' = [mutex EXCEPT ![p] = <<>>]
    /\ sts' = IF sts = "finalizar" /\ Pid(estado_exec) = p /\ estado_exec \notin buscando
              THEN "planificar" ELSE sts
    /\ UNCHANGED <<kEstados, kHilos, kIO, descontando, fallo>>

-----------------------------------------------------------------------------
Syscall ==
    \/ ProcessCreate \/ ProcessExit \/ ThreadCreate \/ ThreadExit \/ ThreadJoin
    \/ MutexCreate \/ MutexLock \/ MutexUnlock \/ IO \/ DumpMemory

PasoLargoPlazo ==
    LargoPlazoSolo \/ IniciarPrincipal \/ AgregarPrincipal \/ AvisarPrincipal

PasoBaja(h) == PedirBaja(h) \/ SacarPCB(h)

PasoFinalizacion(p) ==
    FinalizarHilo(p) \/ DescontarReady(p) \/ TerminarFinalizacion(p)

KNext ==
    /\ fallo = "ninguno" /\ memoria = "viva"
    /\ \/ Planificar \/ Syscall \/ ProcessCreateSigue \/ Desalojar \/ UsarHiloDestruido
       \/ PasoLargoPlazo
       \/ TomarIO \/ TerminarIO
       \/ \E h \in Hilos : DumpConfirmado(h) \/ DumpFallido(h) \/ PasoBaja(h)
                             \/ UsarProcesoLiberado(h)
       \/ \E p \in Pids : PasoFinalizacion(p)

KSpec == KInit /\ [][KNext]_kernelVars

Vivo(paso) == fallo = "ninguno" /\ memoria = "viva" /\ paso

(* The threads of the kernel are not starved, the I/O device serves its    *)
(* requests and the memory answers the dumps; the thread that executes may *)
(* do as it likes.                                                         *)
KFairness ==
    /\ WF_kernelVars(Vivo(PasoLargoPlazo))
    /\ WF_kernelVars(Vivo(ProcessCreateSigue))
    /\ WF_kernelVars(Vivo(TomarIO)) /\ WF_kernelVars(Vivo(TerminarIO))
    /\ \A h \in Hilos : WF_kernelVars(Vivo(DumpConfirmado(h) \/ DumpFallido(h)))
    /\ \A h \in Hilos : WF_kernelVars(Vivo(PasoBaja(h)))
    /\ \A p \in Pids : WF_kernelVars(Vivo(PasoFinalizacion(p)))
    /\ WF_kernelVars(Vivo(Planificar))

KFairSpec == KSpec /\ KFairness

-----------------------------------------------------------------------------
Mutexes == [recurso : Recursos, esta_libre : BOOLEAN,
            hilo_asignado : Hilos \cup {Ninguno}, hilos_bloqueados : Seq(Hilos)]

(* Every variable has its type. *)
KTypeOK ==
    /\ TypeOK
    /\ estado_ready \in Seq(Hilos)
    /\ semaforo_estado_ready \in Nat
    /\ estado_exec \in Hilos \cup {Ninguno}
    /\ estado_blocked \subseteq Hilos
    /\ tids \in [Pids -> Seq(Tids)]
    /\ mutex \in [Pids -> Seq(Mutexes)]
    /\ ultimo_tid \in [Pids -> Tids]
    /\ prioridad \in [Hilos -> Prioridades]
    /\ esperan \in [Hilos -> Seq(Hilos)]
    /\ vivos \subseteq Hilos
    /\ cola_io \in Seq(Hilos)
    /\ io_actual \in Hilos \cup {Ninguno}
    /\ volcados \subseteq Hilos
    /\ sts \in {"planificar", "cpu", "finalizar", "sin_respuesta"}
    /\ descontando \subseteq Pids
    /\ fallo \in {"ninguno", "ready_vacio", "hilo_liberado", "proceso_inexistente",
                  "memoria_caida", "mutex_inexistente", "mutex_libre"}

Veces(s, x) == Cardinality({i \in DOMAIN s : s[i] = x})

(* READY and BLOCKED hold no thread whose TCB was freed ("Elimino al hilo  *)
(* del estado en que se encuentre y lo destruyo", syscalls.c:191).         *)
SinColgantes == ToSet(estado_ready) \cup estado_blocked \subseteq vivos

(* A blocked thread waits for exactly one thing, that will wake it: a      *)
(* thread it joined, a mutex, the device or a dump; and who waits for one  *)
(* of those is blocked.                                                    *)
MotivosDeEspera(h) ==
    Cardinality({k \in vivos : h \in ToSet(esperan[k])})
    + Cardinality({i \in DOMAIN mutex[Pid(h)] : h \in ToSet(mutex[Pid(h)][i].hilos_bloqueados)})
    + Veces(cola_io, h) + Unidad(io_actual = h) + Unidad(h \in volcados)

BloqueadoPorAlgo ==
    \A h \in vivos : Pid(h) \notin finalizando =>
        MotivosDeEspera(h) = Unidad(h \in estado_blocked)

(* A mutex is free exactly when nobody owns it, a free one has no waiters, *)
(* the owner is a thread of the process that still exists, and the waiters *)
(* are blocked: THREAD_EXIT and MUTEX_UNLOCK leave no waiter behind.       *)
MutexConsistente ==
    \A p \in lista_procesos : \A i \in DOMAIN mutex[p] :
        LET m == mutex[p][i] IN
        /\ m.esta_libre <=> m.hilo_asignado = Ninguno
        /\ m.esta_libre => m.hilos_bloqueados = <<>>
        /\ ~m.esta_libre => Pid(m.hilo_asignado) = p /\ m.hilo_asignado[2] \in ToSet(tids[p])
        /\ ToSet(m.hilos_bloqueados) \subseteq estado_blocked

(* A mutex changes hands only from nobody to the thread in EXEC, or from   *)
(* the thread in EXEC to the one that has waited longest, which becomes    *)
(* READY in the same step: never stolen, never granted to a sleeping       *)
(* thread.                                                                 *)
TransferenciaMutex ==
    [][\A p \in lista_procesos : \A i \in DOMAIN mutex[p] :
        LET m == mutex[p][i]
            dueno == mutex'[p][i].hilo_asignado
        IN  i \in DOMAIN mutex'[p] /\ dueno # m.hilo_asignado =>
            \/ m.hilo_asignado = Ninguno /\ dueno = estado_exec
            \/ /\ m.hilo_asignado = estado_exec
               /\ IF m.hilos_bloqueados = <<>> THEN dueno = Ninguno
                  ELSE /\ dueno = Head(m.hilos_bloqueados)
                       /\ dueno \in ToSet(estado_ready')]_kernelVars

(* The planner takes a thread only when there is one ("Si ya no hay hilos  *)
(* en READY, esperamos hasta que se agreguen",                             *)
(* planificador-corto-plazo.c:25).                                         *)
NuncaReadyVacio == fallo # "ready_vacio"

(* The thread that the CPU executes exists: a finaliser takes every thread *)
(* out of the state it is in (syscalls.c:191), EXEC included.              *)
ExecVivo == sts = "cpu" => estado_exec \in vivos

(* The kernel only crashes when a program misuses a mutex. *)
SinFalloPropio == memoria = "viva" /\ fallo \in {"ninguno", "mutex_inexistente", "mutex_libre"}

(* The rest of the kernel uses the long-term planner as LargoPlazo allows: *)
(* it creates one process at a time and finalises only admitted ones, each *)
(* thread that asks for it with a PCB that it found in lista_procesos.     *)
LargoPlazoCompuesto == Spec

Caido == memoria = "caida" \/ fallo # "ninguno"

(* An I/O request is served and its thread goes to READY. *)
IOEventual ==
    \A h \in Hilos : h \in ToSet(cola_io) ~> (h \in ToSet(estado_ready) \/ Caido)

(* With threads in READY the planner does not sleep: it dispatches one,    *)
(* unless a finaliser takes them all away.                                 *)
ReadySeAtiende ==
    (sts = "planificar" /\ estado_ready # <<>>)
        ~> (sts = "cpu" \/ estado_ready = <<>> \/ Caido)

(* The first process of NEW is admitted once the memory has room for it:   *)
(* a finalisation, which frees the memory before anything else, gets to    *)
(* its end, whoever runs it, and wakes the planner up (unless the kernel   *)
(* or the memory crash).                                                   *)
AdmisionEnElKernel ==
    \A p \in Pids :
        (estado_new # <<>> /\ Head(estado_new) = p /\ Entra(en_memoria, p))
            ~> (p \in admitidos \/ Caido)
=============================================================================
