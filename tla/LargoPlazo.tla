----------------------------- MODULE LargoPlazo -----------------------------
(***************************************************************************)
(* The long-term planner of the kernel (planificador-largo-plazo.c), with  *)
(* the two ends it synchronises with through counting semaphores: the      *)
(* creation of a process (procesos.c, run by the short-term planner for    *)
(* PROCESS_CREATE) and its finalisation (syscalls.c, run by the short-term *)
(* planner for PROCESS_EXIT or by the thread of a failed memory dump; two  *)
(* of them may run for one process).  One action per critical section,     *)
(* semaphore operation or exchange with the memory module.                 *)
(***************************************************************************)
EXTENDS Integers, FiniteSets, SequencesExt

CONSTANTS
    MaxProcesos,   \* bound: how many processes are ever created
    MaxTid,        \* bound: the largest TID of a process
    Entra(_, _)    \* Entra(S, p): memory that holds the processes S has room for p

ASSUME MaxProcesosAssumption == MaxProcesos \in Nat \ {0}
ASSUME MaxTidAssumption == MaxTid \in Nat

(* Freeing memory never takes room away; whether a process fits is a fact. *)
ASSUME EntraAssumption ==
    \A S, T \in SUBSET (0..MaxProcesos-1) : \A p \in 0..MaxProcesos-1 :
        /\ Entra(S, p) \in BOOLEAN
        /\ S \subseteq T /\ Entra(T, p) => Entra(S, p)

Pids == 0..MaxProcesos-1
Tids == 0..MaxTid
Hilos == Pids \X Tids
Pid(h) == h[1]

VARIABLES
    ULTIMO_PID,
    lista_procesos,               \* PIDs whose PCB is in the list
    estado_new,                   \* FIFO list of PIDs
    semaforo_estado_new,
    semaforo_memoria_suficiente,
    creador,                      \* progress of the thread inside crear_proceso
    lp,                           \* program counter of the long-term planner
    proceso_a_inicializar,        \* its local variable: a PID, or -1 when unset
    en_memoria,                   \* PIDs that hold a partition of the memory module
    admitidos,                    \* PIDs whose main thread was added to READY
    buscando,                     \* threads on whose account a finaliser has the
                                  \* PCB it found, and has not asked the memory yet
    sacando,                      \* the same, with the answer of the memory
    finalizando,                  \* PIDs that are out of lista_procesos, until the
                                  \* semaphore of the memory is posted
    memoria                       \* "viva", or "caida": it was asked to free a
                                  \* process twice

varsCreacion == <<ULTIMO_PID, creador>>
varsPlanificador == <<lp, proceso_a_inicializar>>
varsNew == <<estado_new, semaforo_estado_new>>
varsMemoria == <<semaforo_memoria_suficiente, en_memoria>>
varsBajas == <<buscando, sacando, memoria>>
vars == <<varsCreacion, varsPlanificador, varsNew, varsMemoria, lista_procesos,
          admitidos, finalizando, varsBajas>>

(* main() has created process 0 and then started the planner thread. *)
Init ==
    /\ ULTIMO_PID = 0
    /\ lista_procesos = {0}
    /\ estado_new = <<0>>
    /\ semaforo_estado_new = 1
    /\ semaforo_memoria_suficiente = 1
    /\ creador = "libre"
    /\ lp = "esperar_memoria"
    /\ proceso_a_inicializar = -1
    /\ en_memoria = {}
    /\ admitidos = {}
    /\ buscando = {} /\ sacando = {} /\ finalizando = {} /\ memoria = "viva"

-----------------------------------------------------------------------------
(* crear_proceso: PCB into the list, PID into NEW, semaphore. *)

CrearProceso ==
    /\ creador = "libre" /\ creador' = "agregar"
    /\ ULTIMO_PID + 1 < MaxProcesos
    /\ ULTIMO_PID' = ULTIMO_PID + 1
    /\ lista_procesos' = lista_procesos \cup {ULTIMO_PID + 1}
    /\ UNCHANGED <<varsNew, varsMemoria, varsPlanificador, admitidos,
                   finalizando, varsBajas>>

AgregarANew ==
    /\ creador = "agregar" /\ creador' = "avisar"
    /\ estado_new' = Append(estado_new, ULTIMO_PID)
    /\ UNCHANGED <<ULTIMO_PID, lista_procesos, semaforo_estado_new, varsMemoria,
                   varsPlanificador, admitidos, finalizando, varsBajas>>

AvisarNew ==
    /\ creador = "avisar" /\ creador' = "libre"
    /\ semaforo_estado_new' = semaforo_estado_new + 1
    /\ UNCHANGED <<ULTIMO_PID, lista_procesos, estado_new, varsMemoria,
                   varsPlanificador, admitidos, finalizando, varsBajas>>

-----------------------------------------------------------------------------
(* planificador_largo_plazo: the loop of the planner thread, which touches *)
(* neither what a creation nor what a finalisation keeps.                  *)

Planificador(desde, hasta) ==
    /\ lp = desde /\ lp' = hasta
    /\ UNCHANGED <<varsCreacion, lista_procesos, finalizando, varsBajas>>

EsperarMemoria ==
    /\ Planificador("esperar_memoria", "esperar_new")
    /\ semaforo_memoria_suficiente > 0
    /\ semaforo_memoria_suficiente' = semaforo_memoria_suficiente - 1
    /\ UNCHANGED <<varsNew, proceso_a_inicializar, en_memoria, admitidos>>

EsperarNew ==
    /\ Planificador("esperar_new", "obtener")
    /\ semaforo_estado_new > 0
    /\ semaforo_estado_new' = semaforo_estado_new - 1
    /\ UNCHANGED <<estado_new, varsMemoria, proceso_a_inicializar, admitidos>>

(* Bug variant: the last process of NEW instead of the first. *)
ObtenerProcesoUltimo ==
    /\ Planificador("obtener", "pedir")
    /\ proceso_a_inicializar' = IF estado_new = <<>> THEN -1 ELSE Last(estado_new)
    /\ UNCHANGED <<varsNew, varsMemoria, admitidos>>

(* list_get(estado_new, 0), which is NULL (-1) on an empty list. *)
ObtenerProceso ==
    /\ Planificador("obtener", "pedir")
    /\ proceso_a_inicializar' = IF estado_new = <<>> THEN -1 ELSE Head(estado_new)
    /\ UNCHANGED <<varsNew, varsMemoria, admitidos>>

(* The memory module looks for a partition and answers. *)
PedirInicializacionProceso ==
    /\ \/ /\ Entra(en_memoria, proceso_a_inicializar)
          /\ Planificador("pedir", "confirmado")
          /\ en_memoria' = en_memoria \cup {proceso_a_inicializar}
       \/ /\ ~Entra(en_memoria, proceso_a_inicializar)
          /\ Planificador("pedir", "error")
          /\ UNCHANGED en_memoria
    /\ UNCHANGED <<varsNew, semaforo_memoria_suficiente, proceso_a_inicializar, admitidos>>

(* Bug variant: the token of NEW is not given back. *)
ReponerNewSinPost ==
    /\ Planificador("error", "esperar_memoria")
    /\ UNCHANGED <<varsNew, varsMemoria, proceso_a_inicializar, admitidos>>

(* No room: the token of NEW goes back, the one of the memory does not. *)
ReponerNew ==
    /\ Planificador("error", "esperar_memoria")
    /\ semaforo_estado_new' = semaforo_estado_new + 1
    /\ UNCHANGED <<estado_new, varsMemoria, proceso_a_inicializar, admitidos>>

(* Bug variant: the token of the memory is not given back either. *)
LiberarMemoriaSinPost ==
    /\ Planificador("confirmado", "hilo")
    /\ UNCHANGED <<varsNew, varsMemoria, proceso_a_inicializar, admitidos>>

(* Room: the next iteration must not block on the memory semaphore. *)
LiberarMemoriaSuficiente ==
    /\ Planificador("confirmado", "hilo")
    /\ semaforo_memoria_suficiente' = semaforo_memoria_suficiente + 1
    /\ UNCHANGED <<varsNew, proceso_a_inicializar, en_memoria, admitidos>>

(* The main thread is created and the memory module creates its contexts   *)
(* (it has no answer other than OPERACION_CONFIRMAR).                      *)
IniciarHiloPrincipal ==
    /\ Planificador("hilo", "sacar")
    /\ UNCHANGED <<varsNew, varsMemoria, proceso_a_inicializar, admitidos>>

(* Bug variant: the process stays in NEW. *)
NoSacarDeNew ==
    /\ Planificador("sacar", "agregar")
    /\ UNCHANGED <<varsNew, varsMemoria, proceso_a_inicializar, admitidos>>

SacarDeNew ==
    /\ Planificador("sacar", "agregar")
    /\ estado_new' = RemoveFirst(estado_new, proceso_a_inicializar)
    /\ UNCHANGED <<semaforo_estado_new, varsMemoria, proceso_a_inicializar, admitidos>>

AgregarAReady ==
    /\ Planificador("agregar", "avisar")
    /\ admitidos' = admitidos \cup {proceso_a_inicializar}
    /\ UNCHANGED <<varsNew, varsMemoria, proceso_a_inicializar>>

AvisarReady ==
    /\ Planificador("avisar", "esperar_memoria")
    /\ UNCHANGED <<varsNew, varsMemoria, proceso_a_inicializar, admitidos>>

-----------------------------------------------------------------------------
(* finalizar_proceso_por_pid, on account of the thread h: of PROCESS_EXIT, *)
(* or of a failed dump.  A process may have two finalisers, each with the  *)
(* pointer that it found: only the memory tells one from the other.        *)

BuscarProceso(h) ==
    /\ Pid(h) \in admitidos
    /\ h \notin buscando \cup sacando
    /\ buscando' = buscando \cup {h}
    /\ UNCHANGED <<varsCreacion, varsNew, varsMemoria, varsPlanificador, lista_procesos,
                   admitidos, sacando, finalizando, memoria>>

(* The memory frees the partition and confirms.  A process that it does    *)
(* not have is a NULL that it dereferences: it dies, and the kernel aborts *)
(* (or reads the PID in a PCB that was freed).                             *)
PedirFinalizacion(h) ==
    /\ h \in buscando
    /\ \/ /\ Pid(h) \in en_memoria
          /\ en_memoria' = en_memoria \ {Pid(h)}
          /\ buscando' = buscando \ {h} /\ sacando' = sacando \cup {h}
          /\ UNCHANGED memoria
       \/ /\ Pid(h) \notin en_memoria
          /\ memoria' = "caida"
          /\ UNCHANGED <<en_memoria, buscando, sacando>>
    /\ UNCHANGED <<varsCreacion, varsNew, semaforo_memoria_suficiente, varsPlanificador,
                   lista_procesos, admitidos, finalizando>>

(* list_remove_element of the PCB. *)
SacarProceso(h) ==
    /\ h \in sacando
    /\ sacando' = sacando \ {h}
    /\ lista_procesos' = lista_procesos \ {Pid(h)}
    /\ admitidos' = admitidos \ {Pid(h)}
    /\ finalizando' = finalizando \cup {Pid(h)}
    /\ UNCHANGED <<varsCreacion, varsNew, varsMemoria, varsPlanificador, buscando, memoria>>

(* Bug variant: nobody tells the planner that memory was freed. *)
AvisarMemoriaSinPost(p) ==
    /\ p \in finalizando
    /\ finalizando' = finalizando \ {p}
    /\ UNCHANGED <<varsCreacion, varsNew, varsMemoria, varsPlanificador, lista_procesos,
                   admitidos, buscando, sacando, memoria>>

(* After the threads of the process are gone, the semaphore.               *)
AvisarMemoria(p) ==
    /\ p \in finalizando
    /\ finalizando' = finalizando \ {p}
    /\ semaforo_memoria_suficiente' = semaforo_memoria_suficiente + 1
    /\ UNCHANGED <<varsCreacion, varsNew, varsPlanificador, lista_procesos, en_memoria,
                   admitidos, buscando, sacando, memoria>>

-----------------------------------------------------------------------------
PasoPlanificador ==
    \/ EsperarMemoria \/ EsperarNew \/ ObtenerProceso
    \/ PedirInicializacionProceso \/ ReponerNew \/ LiberarMemoriaSuficiente
    \/ IniciarHiloPrincipal \/ SacarDeNew \/ AgregarAReady \/ AvisarReady

Next ==
    /\ memoria = "viva"
    /\ \/ CrearProceso \/ AgregarANew \/ AvisarNew
       \/ PasoPlanificador
       \/ \E h \in Hilos : BuscarProceso(h) \/ PedirFinalizacion(h) \/ SacarProceso(h)
       \/ \E p \in Pids : AvisarMemoria(p)

Spec == Init /\ [][Next]_vars

(* The threads are not starved: the planner keeps running, a creation and  *)
(* a finalisation that began are completed.                                *)
Fairness ==
    /\ WF_vars(memoria = "viva" /\ PasoPlanificador)
    /\ WF_vars(memoria = "viva" /\ (AgregarANew \/ AvisarNew))
    /\ \A h \in Hilos : WF_vars(memoria = "viva" /\ (PedirFinalizacion(h) \/ SacarProceso(h)))
    /\ \A p \in Pids : WF_vars(memoria = "viva" /\ AvisarMemoria(p))

FairSpec == Spec /\ Fairness

-----------------------------------------------------------------------------
LPs == {"esperar_memoria", "esperar_new", "obtener", "pedir", "error",
        "confirmado", "hilo", "sacar", "agregar", "avisar"}

(* Every variable has its type. *)
TypeOK ==
    /\ ULTIMO_PID \in Pids
    /\ lista_procesos \in SUBSET Pids
    /\ estado_new \in Seq(Pids)
    /\ semaforo_estado_new \in Nat
    /\ semaforo_memoria_suficiente \in Nat
    /\ creador \in {"libre", "agregar", "avisar"}
    /\ lp \in LPs
    /\ proceso_a_inicializar \in Pids \cup {-1}
    /\ en_memoria \in SUBSET Pids
    /\ admitidos \in SUBSET Pids
    /\ buscando \in SUBSET Hilos
    /\ sacando \in SUBSET Hilos
    /\ finalizando \in SUBSET Pids
    /\ memoria \in {"viva", "caida"}

Unidad(b) == IF b THEN 1 ELSE 0

(* The planner consumed a token of NEW and its process is still in NEW. *)
FichaEnMano ==
    lp \in {"obtener", "pedir", "error", "confirmado", "hilo", "sacar"}

(* Every process of NEW is backed by exactly one token: a token of the     *)
(* semaphore, the one the planner holds while it admits its head, or the   *)
(* one its creator is about to post. So list_get(estado_new, 0) never runs *)
(* on an empty list and the planner never sleeps on a NEW that has work    *)
(* (sem_wait, list_get, sem_post and list_remove are separate steps of two *)
(* threads).                                                               *)
CuentaNew ==
    Len(estado_new) = semaforo_estado_new
                      + Unidad(FichaEnMano) + Unidad(creador = "avisar")

(* The processes that the memory has freed and are still in lista_procesos. *)
Liberados == {Pid(h) : h \in sacando}

(* The process the planner works on is still the first of NEW, and the     *)
(* memory holds exactly the admitted processes that it has not freed and   *)
(* the one on its way; of two finalisers of a process it confirms one.     *)
CabezaEstable ==
    /\ lp \in {"pedir", "error", "confirmado", "hilo", "sacar"} =>
          /\ estado_new # <<>>
          /\ proceso_a_inicializar = Head(estado_new)
    /\ Liberados \subseteq admitidos
    /\ \A h, k \in sacando : Pid(h) = Pid(k) => h = k
    /\ en_memoria = (admitidos \ Liberados) \cup
          (IF lp \in {"confirmado", "hilo", "sacar", "agregar"}
           THEN {proceso_a_inicializar} ELSE {})

(* No lost wake-up: the planner is blocked on semaforo_memoria_suficiente  *)
(* with no token only while the first process of NEW really does not fit,  *)
(* or a finalisation that freed memory is still to post.                   *)
SinDespertarPerdido ==
    lp \in {"error", "esperar_memoria"} /\ semaforo_memoria_suficiente = 0 =>
        /\ estado_new # <<>>
        /\ Entra(en_memoria, Head(estado_new)) => finalizando \cup Liberados # {}

(* A process is in one stage of its life only: waiting in NEW (in order of *)
(* creation), on its way to READY, admitted, or being finalised; and the   *)
(* PCB list holds those of the first three stages.                         *)
EnTramite == IF lp = "agregar" THEN {proceso_a_inicializar} ELSE {}
EnNew == {estado_new[i] : i \in 1..Len(estado_new)}

EtapasDisjuntas ==
    /\ \A i, j \in 1..Len(estado_new) : i < j => estado_new[i] < estado_new[j]
    /\ EnNew \cap (EnTramite \cup admitidos \cup finalizando) = {}
    /\ EnTramite \cap (admitidos \cup finalizando) = {}
    /\ admitidos \cap finalizando = {}
    /\ lista_procesos = EnNew \cup EnTramite \cup admitidos
                        \cup (IF creador = "agregar" THEN {ULTIMO_PID} ELSE {})

(* The inductive invariant that ties the parts together: the PIDs in use   *)
(* are the created ones, a finaliser found a process that was admitted,    *)
(* and after a successful request the planner has left the memory          *)
(* semaphore open for its next iteration.                                  *)
Buscados == {Pid(h) : h \in buscando}

EnUso == EnNew \cup EnTramite \cup admitidos \cup finalizando \cup Buscados

PidsCreados ==
    /\ \A p \in EnUso : p <= ULTIMO_PID
    /\ creador = "agregar" => ULTIMO_PID \notin EnUso
    /\ Buscados \cap (EnNew \cup EnTramite) = {}

FichaMemoria ==
    lp \in {"hilo", "sacar", "agregar", "avisar"} => semaforo_memoria_suficiente >= 1

Invariante ==
    /\ TypeOK
    /\ CuentaNew
    /\ CabezaEstable
    /\ SinDespertarPerdido
    /\ EtapasDisjuntas
    /\ PidsCreados
    /\ FichaMemoria

-----------------------------------------------------------------------------
(* The planner implements Admision: the head of NEW is already admitted    *)
(* once the memory has confirmed it.                                       *)
Admitida == lp \in {"confirmado", "hilo", "sacar"}

A == INSTANCE Admision WITH
        pendientes <- IF Admitida THEN Tail(estado_new) ELSE estado_new,
        activos <- en_memoria

(* Processes are admitted in order of arrival, one at a time and only into *)
(* room that exists; a process that does not fit is never overtaken by a   *)
(* smaller one that arrived later.                                         *)
AdmisionSegura == A!Safety

(* And a first process that has room is admitted, unless two finalisers of *)
(* one process bring the memory down.                                      *)
ImplementaAdmision == [](memoria = "viva") => A!Progreso
=============================================================================
