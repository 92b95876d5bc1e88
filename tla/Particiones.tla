----------------------------- MODULE Particiones -----------------------------
(***************************************************************************)
(* The partitions of the memory module (memoria/src/particiones.c), the    *)
(* creation and finalisation of a process that use them                    *)
(* (manejo-estructuras.c) and the address translation of the CPU that      *)
(* relies on the base and the limit they hand out (cpu/src/main.c).        *)
(* Every request of the kernel is served by a thread of its own and the    *)
(* list has no mutex: a handler is split where it keeps an index or a      *)
(* pointer from one pass over the list to the next; each pass is one step. *)
(***************************************************************************)
EXTENDS Integers, SequencesExt

CONSTANTS
    Procesos,         \* bound: process slots, reused for later PIDs
    Tamanios,         \* sizes a process may ask for
    TAM_MEMORIA,
    PARTICIONES,      \* sizes of the fixed partitions
    Configuraciones,  \* pairs [esquema, algoritmo] of the configuration file
    Simultaneos,      \* bound: handlers in progress at once
    SinPid,           \* UINT32_MAX, the null PID
    Palabra,          \* 2^32: registers and addresses wrap there
    Ancho             \* sizeof(uint32_t): bytes that READ_MEM and WRITE_MEM move

ASSUME ParticionesAssumption ==
    /\ TAM_MEMORIA \in Nat \ {0} /\ Palabra \in Nat /\ Ancho \in Nat \ {0}
    /\ Tamanios \subseteq Nat /\ Simultaneos \in Nat \ {0}
    /\ \A t \in Tamanios \cup {1} : TAM_MEMORIA + t < Palabra
    /\ PARTICIONES \in Seq(1..TAM_MEMORIA)
    /\ Configuraciones \subseteq
          [esquema : {"FIJAS", "DINAMICAS"}, algoritmo : {"FIRST", "BEST", "WORST"}]
    /\ SinPid \notin Procesos /\ IsFiniteSet(Procesos)

VARIABLES
    config,        \* the pair chosen when the module started
    particiones,   \* the list, in order of address; punteros are the handlers
                   \* whose local variable points to the partition
    proceso,       \* proceso[p]: base, limite and tamanio of its node
    tarea,         \* tarea[p]: where the handler of p's request is
    indice,        \* where the search of the creation in progress ended
    pid_auxiliar,  \* the global that list_find compares with
    caida          \* the module dereferenced a null or freed pointer

vars == <<config, particiones, proceso, tarea, indice, pid_auxiliar, caida>>

Dinamicas == config.esquema = "DINAMICAS"

-----------------------------------------------------------------------------
(* particiones.c, on a list of partitions. *)

Particion(base, tamanio) ==
    [base |-> base, tamanio |-> tamanio,
     limite |-> IF tamanio > 0 THEN base + tamanio - 1 ELSE base,
     esta_libre |-> TRUE, pid |-> SinPid, punteros |-> {}]

CrearParticion(ps, tamanio) ==
    Append(ps, Particion(IF ps = <<>> THEN 0 ELSE Last(ps).limite + 1, tamanio))

Cabe(ps, i, tamanio) == ps[i].esta_libre /\ ps[i].tamanio >= tamanio

(* Bug variant: the last of several equal partitions. *)
MejoraOIguala(nueva, actual) ==
    \/ config.algoritmo = "BEST" /\ nueva.tamanio <= actual.tamanio
    \/ config.algoritmo = "WORST" /\ nueva.tamanio >= actual.tamanio

Mejora(nueva, actual) ==
    \/ config.algoritmo = "BEST" /\ nueva.tamanio < actual.tamanio
    \/ config.algoritmo = "WORST" /\ nueva.tamanio > actual.tamanio

(* The index the search loop ends with, 0 for none. *)
Seleccion(ps, tamanio) ==
    LET sel[i \in 0..Len(ps)] ==
            IF i = 0 THEN 0
            ELSE IF /\ Cabe(ps, i, tamanio)
                    /\ sel[i - 1] = 0 \/ Mejora(ps[i], ps[sel[i - 1]])
                 THEN i ELSE sel[i - 1]
    IN  sel[Len(ps)]

(* Bug variant: the original partition keeps its base. *)
PartirSinMover(ps, i, nueva) ==
    InsertAt(ReplaceAt(ps, i, [ps[i] EXCEPT !.tamanio = (@ - nueva.tamanio) % Palabra]),
             i, nueva)

(* crear_particion_en_indice: the new partition takes the front of i. *)
Partir(ps, i, nueva) ==
    LET resto == [ps[i] EXCEPT
                      !.base = IF nueva.tamanio = 0 THEN nueva.limite ELSE nueva.limite + 1,
                      !.tamanio = (@ - nueva.tamanio) % Palabra]
    IN  InsertAt(ReplaceAt(ps, i, resto), i, nueva)

(* Bug variant: the merged partition keeps the size of the first. *)
UnirSinSumar(ps, i) == RemoveAt(ps, i + 1)

(* Partitions i and i+1 become one, whose limite is one too many; pointers *)
(* to i+1, which is freed, are left dangling.                              *)
Unir(ps, i) ==
    LET total == (ps[i].tamanio + ps[i + 1].tamanio) % Palabra
        junta == [ps[i] EXCEPT !.tamanio = total,
                               !.limite = (ps[i].base + total) % Palabra]
    IN  RemoveAt(ReplaceAt(ps, i, junta), i + 1)

ParesLibres(ps) ==
    {i \in 1..Len(ps) - 1 : ps[i].esta_libre /\ ps[i + 1].esta_libre}

(* consolidar_particiones_libres: the first pair of free neighbours only. *)
Consolidar(ps) ==
    IF ParesLibres(ps) = {} THEN ps
    ELSE Unir(ps, CHOOSE i \in ParesLibres(ps) : \A j \in ParesLibres(ps) : i <= j)

(* The partitions of the fixed scheme, in the order of the configuration.  *)
ParticionesFijas ==
    LET ps[i \in 0..Len(PARTICIONES)] ==
            IF i = 0 THEN <<>> ELSE CrearParticion(ps[i - 1], PARTICIONES[i])
    IN  ps[Len(PARTICIONES)]

ASSUME FijasAssumption ==
    \A i \in DOMAIN ParticionesFijas :
        ParticionesFijas[i].base + ParticionesFijas[i].tamanio < Palabra

(* Where the partition that p's handler holds is, 0 if it was freed. *)
Elegida(p) == SelectInSeq(particiones, LAMBDA x : p \in x.punteros)

-----------------------------------------------------------------------------
Init ==
    /\ config \in Configuraciones
    /\ particiones = IF Dinamicas THEN CrearParticion(<<>>, TAM_MEMORIA)
                     ELSE ParticionesFijas
    /\ proceso = [p \in Procesos |-> [base |-> 0, limite |-> 0, tamanio |-> 0]]
    /\ tarea = [p \in Procesos |-> "ausente"]
    /\ indice = 0
    /\ pid_auxiliar = SinPid
    /\ caida = FALSE

EnCurso == {p \in Procesos : tarea[p] \notin {"ausente", "presente"}}

HayLugarParaAtender == ~caida /\ Cardinality(EnCurso) < Simultaneos

Caer ==
    /\ caida' = TRUE
    /\ UNCHANGED <<config, particiones, proceso, tarea, indice, pid_auxiliar>>

-----------------------------------------------------------------------------
(* OPERACION_CREAR_PROCESO. Only the long-term planner sends it, and waits *)
(* for the answer, so two of them never overlap.                           *)

(* The loop of buscar_particion_libre; with no partition the answer is an  *)
(* error and nothing changes.                                              *)
BuscarParticionLibre(p, tamanio) ==
    LET i == Seleccion(particiones, tamanio)
    IN
    /\ tarea[p] = "ausente" /\ HayLugarParaAtender
    /\ \A q \in Procesos : tarea[q] \notin {"partir", "asignar"}
    /\ i # 0
    /\ IF Dinamicas
       THEN /\ indice' = i
            /\ tarea' = [tarea EXCEPT ![p] = "partir"]
            /\ UNCHANGED particiones
       ELSE /\ particiones' = [particiones EXCEPT ![i].punteros = @ \cup {p}]
            /\ tarea' = [tarea EXCEPT ![p] = "asignar"]
            /\ UNCHANGED indice
    /\ proceso' = [proceso EXCEPT ![p].tamanio = tamanio]
    /\ UNCHANGED <<config, pid_auxiliar, caida>>

(* In the dynamic scheme the partition that is now at the index found is   *)
(* split, unless the new one passes the end of the memory (NULL, an error  *)
(* answer); with no partition there, a NULL is dereferenced.               *)
CrearParticionEnIndice(p) ==
    LET nueva == [Particion(particiones[indice].base, proceso[p].tamanio)
                     EXCEPT !.punteros = {p}]
    IN
    /\ tarea[p] = "partir" /\ ~caida
    /\ IF indice \notin DOMAIN particiones
       THEN Caer
       ELSE /\ IF nueva.limite > TAM_MEMORIA
               THEN /\ tarea' = [tarea EXCEPT ![p] = "ausente"]
                    /\ proceso' = [proceso EXCEPT ![p].tamanio = 0]
                    /\ UNCHANGED particiones
               ELSE /\ particiones' = Partir(particiones, indice, nueva)
                    /\ tarea' = [tarea EXCEPT ![p] = "asignar"]
                    /\ UNCHANGED proceso
            /\ indice' = 0
            /\ UNCHANGED <<config, pid_auxiliar, caida>>

(* Bug variant: the limit comes from the size the process asked for. *)
AsignarConTamanioPedido(p, i) ==
    /\ particiones' = [particiones EXCEPT ![i].pid = p, ![i].esta_libre = FALSE,
                                          ![i].punteros = @ \ {p}]
    /\ proceso' = [proceso EXCEPT ![p].base = particiones[i].base,
                                  ![p].limite =
                                      (particiones[i].base + proceso[p].tamanio) % Palabra]

AsignarParticion(p, i) ==
    /\ particiones' = [particiones EXCEPT ![i].pid = p, ![i].esta_libre = FALSE,
                                          ![i].punteros = @ \ {p}]
    /\ proceso' = [proceso EXCEPT ![p].base = particiones[i].base,
                                  ![p].limite =
                                      (particiones[i].base + particiones[i].tamanio) % Palabra]

(* iniciar_proceso and asignar_particion, whose loop runs off the list if  *)
(* the partition is no longer there.                                       *)
IniciarProceso(p) ==
    /\ tarea[p] = "asignar" /\ ~caida
    /\ IF Elegida(p) = 0
       THEN Caer
       ELSE /\ AsignarParticion(p, Elegida(p))
            /\ tarea' = [tarea EXCEPT ![p] = "presente"]
            /\ UNCHANGED <<config, indice, pid_auxiliar, caida>>

-----------------------------------------------------------------------------
(* OPERACION_FINALIZAR_PROCESO, from the short-term planner or from the    *)
(* thread of a failed memory dump.                                         *)

BuscarParticionPorPid(p) ==
    /\ tarea[p] = "presente" /\ HayLugarParaAtender
    /\ pid_auxiliar' = p
    /\ tarea' = [tarea EXCEPT ![p] = "buscar"]
    /\ UNCHANGED <<config, particiones, proceso, indice, caida>>

(* list_find reads the global; desasignar_particion dereferences a NULL. *)
EncontrarParticion(p) ==
    LET i == SelectInSeq(particiones, LAMBDA x : x.pid = pid_auxiliar)
    IN
    /\ tarea[p] = "buscar" /\ ~caida
    /\ IF i = 0
       THEN Caer
       ELSE /\ particiones' = [particiones EXCEPT ![i].punteros = @ \cup {p}]
            /\ tarea' = [tarea EXCEPT ![p] = "desasignar"]
            /\ UNCHANGED <<config, proceso, indice, pid_auxiliar, caida>>

DesasignarParticion(p) ==
    LET i == Elegida(p)
    IN
    /\ tarea[p] = "desasignar" /\ ~caida
    /\ IF i = 0
       THEN Caer
       ELSE /\ particiones' = [particiones EXCEPT ![i].esta_libre = TRUE,
                                                  ![i].pid = SinPid,
                                                  ![i].punteros = @ \ {p}]
            /\ tarea' = [tarea EXCEPT ![p] = IF Dinamicas THEN "consolidar" ELSE "quitar"]
            /\ UNCHANGED <<config, proceso, indice, pid_auxiliar, caida>>

(* Bug variant: one pass is taken to be enough. *)
ConsolidarUnaVez(p) ==
    /\ tarea[p] = "consolidar" /\ ~caida
    /\ particiones' = Consolidar(particiones)
    /\ tarea' = [tarea EXCEPT ![p] = "quitar"]
    /\ UNCHANGED <<config, proceso, indice, pid_auxiliar, caida>>

(* A first pass and, if more than one partition is left, a second. *)
ConsolidarParticionesLibres(p) ==
    /\ tarea[p] \in {"consolidar", "reconsolidar"} /\ ~caida
    /\ particiones' = Consolidar(particiones)
    /\ tarea' = [tarea EXCEPT
                    ![p] = IF tarea[p] = "consolidar" /\ Len(particiones') > 1
                           THEN "reconsolidar" ELSE "quitar"]
    /\ UNCHANGED <<config, proceso, indice, pid_auxiliar, caida>>

QuitarProceso(p) ==
    /\ tarea[p] = "quitar" /\ ~caida
    /\ proceso' = [proceso EXCEPT ![p] = [base |-> 0, limite |-> 0, tamanio |-> 0]]
    /\ tarea' = [tarea EXCEPT ![p] = "ausente"]
    /\ UNCHANGED <<config, particiones, indice, pid_auxiliar, caida>>

Next ==
    \E p \in Procesos :
        \/ \E t \in Tamanios : BuscarParticionLibre(p, t)
        \/ CrearParticionEnIndice(p)
        \/ IniciarProceso(p)
        \/ BuscarParticionPorPid(p)
        \/ EncontrarParticion(p)
        \/ DesasignarParticion(p)
        \/ ConsolidarParticionesLibres(p)
        \/ QuitarProceso(p)

Spec == Init /\ [][Next]_vars

-----------------------------------------------------------------------------
(* The address translation of the CPU, in unsigned arithmetic. *)

mmu_dirLog_dirfis(p, dir_logica) == (dir_logica + proceso[p].base) % Palabra

mmu(p, dir_logica) == mmu_dirLog_dirfis(p, dir_logica) <= proceso[p].limite

-----------------------------------------------------------------------------
(* Every variable has its type: no partition has a negative size. *)
TypeOK ==
    /\ config \in Configuraciones
    /\ \A i \in DOMAIN particiones :
          particiones[i] \in [base : 0..TAM_MEMORIA,
                              limite : 0..TAM_MEMORIA, tamanio : 0..TAM_MEMORIA,
                              esta_libre : BOOLEAN, pid : Procesos \cup {SinPid},
                              punteros : SUBSET Procesos]
    /\ proceso \in [Procesos -> [base : 0..TAM_MEMORIA, limite : 0..TAM_MEMORIA,
                                 tamanio : Tamanios \cup {0}]]
    /\ tarea \in [Procesos -> {"ausente", "partir", "asignar", "presente", "buscar",
                               "desasignar", "consolidar", "reconsolidar", "quitar"}]
    /\ indice \in Nat
    /\ pid_auxiliar \in Procesos \cup {SinPid}
    /\ caida \in BOOLEAN

(* However many times partitions were split and merged, with one request  *)
(* at a time, the list tiles the memory in order of address: no byte is    *)
(* lost, none is in two partitions.                                        *)
(* (limite is not kept: after a merge it points one byte too far.)         *)
Cobertura ==
    LET final(i) == IF i = 0 THEN 0 ELSE particiones[i].base + particiones[i].tamanio
    IN  /\ \A i \in DOMAIN particiones : particiones[i].base = final(i - 1)
        /\ Dinamicas => final(Len(particiones)) = TAM_MEMORIA

(* Two passes of a consolidation that stops at its first pair are enough:  *)
(* between requests no two free partitions of the dynamic scheme touch.    *)
SinLibresContiguas == Dinamicas /\ EnCurso = {} => ParesLibres(particiones) = {}

(* A process the module knows owns exactly one partition, its node agrees  *)
(* with it and it holds what the process asked for; an occupied partition  *)
(* belongs to such a process.                                              *)
ProcesoConSuParticion ==
    LET suya(p) == {i \in DOMAIN particiones : particiones[i].pid = p}
    IN  /\ ~caida
        /\ \A p \in Procesos :
              IF tarea[p] \in {"presente", "buscar", "desasignar"}
              THEN /\ Cardinality(suya(p)) = 1
                   /\ \A i \in suya(p) :
                         /\ ~particiones[i].esta_libre
                         /\ particiones[i].base = proceso[p].base
                         /\ particiones[i].tamanio = proceso[p].limite - proceso[p].base
                         /\ particiones[i].tamanio >= proceso[p].tamanio
              ELSE suya(p) = {}
        /\ \A i \in DOMAIN particiones :
              particiones[i].esta_libre <=> particiones[i].pid = SinPid

(* The loop chooses what the algorithm's name says: the first free         *)
(* partition that fits (FIRST), the first of the smallest ones (BEST), the *)
(* first of the largest ones (WORST), and none only if none fits.          *)
SeleccionCorrecta ==
    \A t \in Tamanios :
        LET libres == {i \in DOMAIN particiones :
                          particiones[i].esta_libre /\ particiones[i].tamanio >= t}
            tam(i) == particiones[i].tamanio
            mejores == CASE config.algoritmo = "FIRST" -> libres
                         [] config.algoritmo = "BEST" ->
                                {i \in libres : \A j \in libres : tam(i) <= tam(j)}
                         [] config.algoritmo = "WORST" ->
                                {i \in libres : \A j \in libres : tam(i) >= tam(j)}
            s == Seleccion(particiones, t)
        IN  IF libres = {} THEN s = 0
            ELSE s \in mejores /\ \A j \in mejores : s <= j

(* Room is monotone, with one request at a time: the steps of a creation   *)
(* never make room for a size that had none, those of a finalisation never *)
(* take room away. It is what the long-term planner of the kernel counts   *)
(* on when it sleeps until a process ends (EntraAssumption of LargoPlazo). *)
HayLugar(t) == \E i \in DOMAIN particiones : Cabe(particiones, i, t)

LugarMonotono ==
    [][\A t \in Tamanios :
          IF \E p \in Procesos : /\ tarea[p] \in {"ausente", "partir", "asignar"}
                              /\ tarea'[p] # tarea[p]
          THEN HayLugar(t)' => HayLugar(t)
          ELSE HayLugar(t) => HayLugar(t)']_vars

(* An access the CPU accepts stays inside the partition of its process. *)
AccesoEnParticion ==
    \A p \in Procesos : \A d \in 0..Palabra - 1 :
        tarea[p] = "presente" /\ mmu(p, d) =>
            /\ mmu_dirLog_dirfis(p, d) >= proceso[p].base
            /\ mmu_dirLog_dirfis(p, d) + Ancho <= proceso[p].limite

(* The partition chosen for a process is in the list, free and large       *)
(* enough, until it is split and then until it is assigned: neither the    *)
(* index nor the pointer that the handler keeps is stale.                  *)
ElegidaIntacta ==
    \A p \in Procesos :
        /\ tarea[p] = "partir" =>
               indice \in DOMAIN particiones /\ Cabe(particiones, indice, proceso[p].tamanio)
        /\ tarea[p] = "asignar" =>
               \E i \in DOMAIN particiones :
                   p \in particiones[i].punteros /\ Cabe(particiones, i, proceso[p].tamanio)

(* The partition found for a PID is the one assigned to that PID. *)
EncuentraLaSuya ==
    \A p \in Procesos : tarea[p] = "desasignar" =>
        \E i \in DOMAIN particiones :
            p \in particiones[i].punteros /\ particiones[i].pid = p
=============================================================================
