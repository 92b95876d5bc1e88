--------------------------- MODULE Kernel_proofs ---------------------------
(***************************************************************************)
(* Proofs about Kernel, for every algorithm, any number of processes,      *)
(* threads and mutexes and whatever syscalls the programs make.  The       *)
(* kernel uses its long-term planner as LargoPlazo allows, so what is      *)
(* proved first of the planner alone, and that it implements Admision,     *)
(* holds of the whole kernel; a thread is in one place and BLOCKED for one *)
(* reason; the mutexes are consistent and handed over in order; and when   *)
(* the kernel keeps no pointer to a freed thread.                          *)
(***************************************************************************)
EXTENDS Kernel, Listas

-----------------------------------------------------------------------------
(* The long-term planner alone, for every number of processes and every    *)
(* memory, and its refinement of Admision.                                 *)

(* The process of a thread is a process. *)
LEMMA PidDe == \A h \in Hilos : Pid(h) \in Pids
  BY DEF Hilos, Pid

(* The initial states satisfy the invariant. *)
LEMMA InvarianteInicial == Init => Invariante
<1> SUFFICES ASSUME Init PROVE Invariante
  OBVIOUS
<1> USE MaxProcesosAssumption
<1>1. /\ estado_new \in Seq(Pids) /\ Len(estado_new) = 1
      /\ estado_new[1] = 0 /\ estado_new # <<>>
  BY DEF Init, Pids
<1>2. EnNew = {0}
  BY <1>1 DEF EnNew
<1>3. Liberados = {} /\ Buscados = {}
  BY DEF Init, Liberados, Buscados
<1>4. TypeOK
  BY <1>1 DEF Init, TypeOK, LPs, Pids
<1>5. CuentaNew /\ FichaMemoria
  BY <1>1 DEF Init, CuentaNew, Unidad, FichaEnMano, FichaMemoria
<1>6. CabezaEstable /\ SinDespertarPerdido
  BY <1>1, <1>3 DEF Init, CabezaEstable, SinDespertarPerdido
<1>7. EtapasDisjuntas /\ PidsCreados
  BY <1>1, <1>2, <1>3 DEF Init, EtapasDisjuntas, PidsCreados, EnUso, EnTramite
<1> QED
  BY <1>4, <1>5, <1>6, <1>7 DEF Invariante

(* A step that leaves NEW alone preserves the invariant. *)
LEMMA PasoSinTocarNew ==
    ASSUME Invariante, UNCHANGED estado_new,
           \/ CrearProceso \/ AvisarNew \/ EsperarMemoria \/ EsperarNew
           \/ ObtenerProceso \/ PedirInicializacionProceso \/ ReponerNew
           \/ LiberarMemoriaSuficiente \/ IniciarHiloPrincipal \/ AgregarAReady
           \/ AvisarReady \/ UNCHANGED vars
           \/ \E h \in Hilos : BuscarProceso(h) \/ PedirFinalizacion(h) \/ SacarProceso(h)
           \/ \E p \in Pids : AvisarMemoria(p)
    PROVE  Invariante'
<1>1. /\ Len(estado_new) \in Nat /\ Len(estado_new)' = Len(estado_new)
      /\ estado_new # <<>> =>
            Len(estado_new) # 0 /\ Head(estado_new) \in EnNew /\ Head(estado_new) \in Pids
  BY LenProperties, Cola DEF Invariante, TypeOK, EnNew
<1>2. EnNew' = EnNew
  BY DEF EnNew
<1>3. /\ TypeOK /\ CuentaNew /\ CabezaEstable /\ SinDespertarPerdido
      /\ EtapasDisjuntas /\ PidsCreados /\ FichaMemoria
  BY DEF Invariante
<1>4. ULTIMO_PID \in Nat /\ \A p \in Pids : p \in Nat
  BY <1>3, MaxProcesosAssumption DEF TypeOK, Pids
<1>5. /\ lp = "obtener" => estado_new # <<>>
      /\ lp \in {"pedir", "confirmado", "hilo", "sacar"} =>
            proceso_a_inicializar \in EnNew /\ proceso_a_inicializar \in Pids
      /\ lp = "agregar" => proceso_a_inicializar \in Pids \ (admitidos \cup Liberados)
  <2>1. lp = "obtener" => estado_new # <<>>
    BY <1>1, <1>3 DEF CuentaNew, FichaEnMano, Unidad, TypeOK
  <2>2. lp \in {"pedir", "confirmado", "hilo", "sacar"} =>
            proceso_a_inicializar \in EnNew /\ proceso_a_inicializar \in Pids
    BY <1>1, <1>3 DEF CabezaEstable
  <2>3. lp = "agregar" => proceso_a_inicializar \in Pids \ (admitidos \cup Liberados)
    BY <1>3 DEF EtapasDisjuntas, EnTramite, CabezaEstable, TypeOK
  <2> QED
    BY <2>1, <2>2, <2>3
<1> USE DEF varsCreacion, varsPlanificador, varsNew, varsMemoria, varsBajas, Planificador
<1>6. ASSUME UNCHANGED varsBajas,
             \/ CrearProceso \/ AvisarNew \/ EsperarMemoria \/ EsperarNew
             \/ ObtenerProceso \/ PedirInicializacionProceso \/ ReponerNew
             \/ LiberarMemoriaSuficiente \/ IniciarHiloPrincipal \/ AgregarAReady
             \/ AvisarReady \/ UNCHANGED vars \/ \E p \in Pids : AvisarMemoria(p)
      PROVE  Invariante'
  <2>1. Liberados' = Liberados /\ Buscados' = Buscados
    BY <1>6 DEF Liberados, Buscados
  <2>2. CuentaNew' /\ FichaMemoria'
    BY <1>1, <1>3, <1>6 DEF TypeOK, CuentaNew, FichaEnMano, Unidad, FichaMemoria, vars,
       CrearProceso, AvisarNew, EsperarMemoria, EsperarNew, ObtenerProceso,
       PedirInicializacionProceso, ReponerNew, LiberarMemoriaSuficiente,
       IniciarHiloPrincipal, AgregarAReady, AvisarReady, AvisarMemoria
  <2>3. EtapasDisjuntas'
    BY <1>1, <1>2, <1>3, <1>4, <1>5, <1>6, <2>1 DEF EtapasDisjuntas, EnTramite, PidsCreados,
       EnUso, vars, CrearProceso, AvisarNew, EsperarMemoria, EsperarNew, ObtenerProceso,
       PedirInicializacionProceso, ReponerNew, LiberarMemoriaSuficiente,
       IniciarHiloPrincipal, AgregarAReady, AvisarReady, AvisarMemoria
  <2>4. PidsCreados'
    BY <1>1, <1>2, <1>3, <1>4, <1>5, <1>6, <2>1 DEF EtapasDisjuntas, EnTramite, PidsCreados,
       EnUso, TypeOK, vars, CrearProceso, AvisarNew, EsperarMemoria, EsperarNew,
       ObtenerProceso, PedirInicializacionProceso, ReponerNew, LiberarMemoriaSuficiente,
       IniciarHiloPrincipal, AgregarAReady, AvisarReady, AvisarMemoria
  <2>5. TypeOK' /\ CabezaEstable' /\ SinDespertarPerdido'
    <3>1. ASSUME CrearProceso
          PROVE  TypeOK' /\ CabezaEstable' /\ SinDespertarPerdido'
      <4>1. ULTIMO_PID + 1 \in Pids
        BY <1>4, <3>1, MaxProcesosAssumption DEF CrearProceso, Pids
      <4> QED
        BY <1>3, <2>1, <3>1, <4>1 DEF CrearProceso, TypeOK, CabezaEstable, SinDespertarPerdido
    <3>2. ASSUME AvisarNew
          PROVE  TypeOK' /\ CabezaEstable' /\ SinDespertarPerdido'
      BY <1>3, <2>1, <3>2 DEF AvisarNew, TypeOK, CabezaEstable, SinDespertarPerdido
    <3>3. ASSUME EsperarMemoria \/ EsperarNew
          PROVE  TypeOK' /\ CabezaEstable' /\ SinDespertarPerdido'
      <4>1. TypeOK'
        BY <1>3, <3>3 DEF EsperarMemoria, EsperarNew, TypeOK, LPs
      <4> QED
        BY <1>3, <2>1, <3>3, <4>1 DEF EsperarMemoria, EsperarNew, CabezaEstable,
           SinDespertarPerdido
    <3>4. ASSUME ObtenerProceso
          PROVE  TypeOK' /\ CabezaEstable' /\ SinDespertarPerdido'
      <4>1. TypeOK'
        BY <1>1, <1>3, <1>5, <3>4 DEF ObtenerProceso, TypeOK, LPs
      <4> QED
        BY <1>3, <1>5, <2>1, <3>4, <4>1 DEF ObtenerProceso, CabezaEstable, SinDespertarPerdido
    <3>5. ASSUME PedirInicializacionProceso
          PROVE  TypeOK' /\ CabezaEstable' /\ SinDespertarPerdido'
      <4>1. TypeOK'
        BY <1>3, <1>5, <3>5 DEF PedirInicializacionProceso, TypeOK, LPs
      <4>2. CabezaEstable'
        BY <1>3, <1>5, <2>1, <3>5 DEF PedirInicializacionProceso, CabezaEstable
      <4>3. SinDespertarPerdido'
        BY <1>3, <1>5, <2>1, <3>5 DEF PedirInicializacionProceso, CabezaEstable,
           SinDespertarPerdido
      <4> QED
        BY <4>1, <4>2, <4>3
    <3>6. ASSUME ReponerNew \/ LiberarMemoriaSuficiente
          PROVE  TypeOK' /\ CabezaEstable' /\ SinDespertarPerdido'
      <4>1. TypeOK'
        BY <1>3, <3>6 DEF ReponerNew, LiberarMemoriaSuficiente, TypeOK, LPs
      <4> QED
        BY <1>3, <2>1, <3>6, <4>1 DEF ReponerNew, LiberarMemoriaSuficiente, CabezaEstable,
           SinDespertarPerdido
    <3>7. ASSUME IniciarHiloPrincipal
          PROVE  TypeOK' /\ CabezaEstable' /\ SinDespertarPerdido'
      <4>1. TypeOK'
        BY <1>3, <3>7 DEF IniciarHiloPrincipal, TypeOK, LPs
      <4> QED
        BY <1>3, <2>1, <3>7, <4>1 DEF IniciarHiloPrincipal, CabezaEstable, SinDespertarPerdido
    <3>8. ASSUME AgregarAReady
          PROVE  TypeOK' /\ CabezaEstable' /\ SinDespertarPerdido'
      <4>1. TypeOK'
        BY <1>3, <1>5, <3>8 DEF AgregarAReady, TypeOK, LPs
      <4>2. CabezaEstable'
        BY <1>3, <1>5, <2>1, <3>8 DEF AgregarAReady, CabezaEstable
      <4> QED
        BY <3>8, <4>1, <4>2 DEF AgregarAReady, SinDespertarPerdido
    <3>9. ASSUME AvisarReady
          PROVE  TypeOK' /\ CabezaEstable' /\ SinDespertarPerdido'
      <4>1. TypeOK'
        BY <1>3, <3>9 DEF AvisarReady, TypeOK, LPs
      <4> QED
        BY <1>3, <2>1, <3>9, <4>1 DEF AvisarReady, CabezaEstable, SinDespertarPerdido,
           FichaMemoria
    <3>10. ASSUME NEW p \in Pids, AvisarMemoria(p)
           PROVE  TypeOK' /\ CabezaEstable' /\ SinDespertarPerdido'
      <4>1. TypeOK'
        BY <1>3, <3>10 DEF AvisarMemoria, TypeOK
      <4>2. CabezaEstable'
        BY <1>3, <2>1, <3>10 DEF AvisarMemoria, CabezaEstable
      <4> QED
        BY <1>3, <3>10, <4>1, <4>2 DEF AvisarMemoria, SinDespertarPerdido, TypeOK
    <3>11. ASSUME UNCHANGED vars
           PROVE  TypeOK' /\ CabezaEstable' /\ SinDespertarPerdido'
      BY <1>3, <2>1, <3>11 DEF vars, TypeOK, CabezaEstable, SinDespertarPerdido
    <3> QED
      BY <1>6, <3>1, <3>2, <3>3, <3>4, <3>5, <3>6, <3>7, <3>8, <3>9, <3>10, <3>11
  <2> QED
    BY <2>2, <2>3, <2>4, <2>5 DEF Invariante
<1>7. ASSUME NEW h \in Hilos,
             BuscarProceso(h) \/ PedirFinalizacion(h) \/ SacarProceso(h)
      PROVE  Invariante'
  <2>1. Pid(h) \in Pids
    BY PidDe
  <2>2. TypeOK'
    BY <1>3, <1>7, <2>1 DEF BuscarProceso, PedirFinalizacion, SacarProceso, TypeOK
  <2>3. CuentaNew' /\ FichaMemoria'
    BY <1>3, <1>7 DEF BuscarProceso, PedirFinalizacion, SacarProceso, CuentaNew, Unidad,
       FichaEnMano, FichaMemoria
  <2>4. CASE BuscarProceso(h)
    <3>1. Liberados' = Liberados /\ Buscados' = Buscados \cup {Pid(h)}
      BY <2>4 DEF BuscarProceso, Liberados, Buscados
    <3>2. CabezaEstable' /\ SinDespertarPerdido'
      BY <1>3, <2>4, <3>1 DEF BuscarProceso, CabezaEstable, SinDespertarPerdido
    <3>3. EtapasDisjuntas' /\ PidsCreados'
      BY <1>2, <1>3, <2>4, <3>1 DEF BuscarProceso, EtapasDisjuntas, PidsCreados, EnUso,
         EnTramite
    <3> QED
      BY <2>2, <2>3, <3>2, <3>3 DEF Invariante
  <2>5. CASE PedirFinalizacion(h) /\ Pid(h) \in en_memoria
    <3>1. Pid(h) \in Buscados /\ Liberados' = Liberados \cup {Pid(h)} /\ Buscados' \subseteq Buscados
      BY <2>5 DEF PedirFinalizacion, Buscados, Liberados
    <3>2. Pid(h) \in admitidos /\ Pid(h) \notin Liberados
      BY <1>3, <1>5, <2>5, <3>1 DEF CabezaEstable, PidsCreados, EnTramite
    <3>3. \A k \in sacando : Pid(k) # Pid(h)
      BY <3>2 DEF Liberados
    <3>4. CabezaEstable'
      <4>1. ~ (/\ lp \in {"confirmado", "hilo", "sacar", "agregar"}
               /\ proceso_a_inicializar = Pid(h))
        BY <1>3, <1>5, <3>1 DEF PidsCreados, EnTramite
      <4> QED
        BY <1>3, <2>5, <3>1, <3>2, <3>3, <4>1 DEF PedirFinalizacion, CabezaEstable
    <3>5. SinDespertarPerdido'
      BY <1>3, <2>5, <3>1 DEF PedirFinalizacion, SinDespertarPerdido
    <3>6. EtapasDisjuntas' /\ PidsCreados'
      BY <1>2, <1>3, <2>5, <3>1 DEF PedirFinalizacion, EtapasDisjuntas, PidsCreados, EnUso,
         EnTramite
    <3> QED
      BY <2>2, <2>3, <3>4, <3>5, <3>6 DEF Invariante
  <2>6. CASE PedirFinalizacion(h) /\ Pid(h) \notin en_memoria
    <3>1. Liberados' = Liberados /\ Buscados' = Buscados
      BY <2>6 DEF PedirFinalizacion, Liberados, Buscados
    <3>2. CabezaEstable' /\ SinDespertarPerdido'
      BY <1>3, <2>6, <3>1 DEF PedirFinalizacion, CabezaEstable, SinDespertarPerdido
    <3>3. EtapasDisjuntas' /\ PidsCreados'
      BY <1>2, <1>3, <2>6, <3>1 DEF PedirFinalizacion, EtapasDisjuntas, PidsCreados, EnUso,
         EnTramite
    <3> QED
      BY <2>2, <2>3, <3>2, <3>3 DEF Invariante
  <2>7. CASE SacarProceso(h)
    <3>1. /\ Pid(h) \in Liberados /\ Liberados' = Liberados \ {Pid(h)}
          /\ Buscados' = Buscados
      <4>1. \A k \in sacando : Pid(k) = Pid(h) => k = h
        BY <1>3, <2>7 DEF SacarProceso, CabezaEstable
      <4> QED
        BY <2>7, <4>1 DEF SacarProceso, Liberados, Buscados
    <3>2. CabezaEstable' /\ SinDespertarPerdido'
      BY <1>3, <2>7, <3>1 DEF SacarProceso, CabezaEstable, SinDespertarPerdido
    <3>3. EtapasDisjuntas'
      <4>1. Pid(h) \in admitidos /\ (creador = "agregar" => Pid(h) # ULTIMO_PID)
        BY <1>3, <3>1 DEF CabezaEstable, PidsCreados, EnUso
      <4> QED
        BY <1>2, <1>3, <2>7, <4>1 DEF SacarProceso, EtapasDisjuntas, EnTramite
    <3>4. PidsCreados'
      BY <1>2, <1>3, <2>7, <3>1 DEF SacarProceso, PidsCreados, EnUso, EnTramite, CabezaEstable
    <3> QED
      BY <2>2, <2>3, <3>2, <3>3, <3>4 DEF Invariante
  <2> QED
    BY <1>7, <2>4, <2>5, <2>6, <2>7
<1> QED
  <2>1. UNCHANGED varsBajas \/ \E h \in Hilos :
           BuscarProceso(h) \/ PedirFinalizacion(h) \/ SacarProceso(h)
    BY DEF vars, CrearProceso, AvisarNew, EsperarMemoria, EsperarNew, ObtenerProceso,
       PedirInicializacionProceso, ReponerNew, LiberarMemoriaSuficiente,
       IniciarHiloPrincipal, AgregarAReady, AvisarReady, AvisarMemoria
  <2> QED
    BY <1>6, <1>7, <2>1

(* The creator appends the youngest PID to NEW. *)
LEMMA PasoAgregarANew ==
    ASSUME Invariante, AgregarANew
    PROVE  Invariante'
<1> USE MaxProcesosAssumption DEF Invariante, TypeOK, LPs, Pids, AgregarANew,
        varsPlanificador, varsMemoria, varsBajas
<1>9. Liberados' = Liberados /\ Buscados' = Buscados
  BY DEF Liberados, Buscados
<1>1. /\ estado_new' \in Seq(Pids)
      /\ estado_new' # <<>>
      /\ Len(estado_new') = Len(estado_new) + 1
      /\ EnNew' = EnNew \cup {ULTIMO_PID}
      /\ estado_new # <<>> => Head(estado_new') = Head(estado_new)
  <2>1. estado_new \in Seq(Pids) /\ ULTIMO_PID \in Pids
    OBVIOUS
  <2>2. estado_new' = Append(estado_new, ULTIMO_PID)
    OBVIOUS
  <2>3. estado_new # <<>> => Head(Append(estado_new, ULTIMO_PID)) = Head(estado_new)
    BY <2>1
  <2> QED
    BY ONLY <2>1, <2>2, <2>3, AgregarAlFinal DEF EnNew
<1>2. /\ Len(estado_new) \in Nat
      /\ \A i \in 1..Len(estado_new) :
            /\ estado_new'[i] = estado_new[i]
            /\ estado_new[i] \in EnNew /\ estado_new[i] \in Pids
      /\ estado_new'[Len(estado_new) + 1] = ULTIMO_PID
  BY AppendProperties, LenProperties, ElementOfSeq DEF EnNew
<1>3. TypeOK'
  <2>1. /\ ULTIMO_PID' \in Pids /\ lista_procesos' \in SUBSET Pids
        /\ semaforo_estado_new' \in Nat /\ semaforo_memoria_suficiente' \in Nat
        /\ creador' = "avisar" /\ lp' \in LPs /\ proceso_a_inicializar' \in Pids \cup {-1}
    OBVIOUS
  <2>2. /\ en_memoria' \in SUBSET Pids /\ admitidos' \in SUBSET Pids
        /\ buscando' \in SUBSET Hilos /\ sacando' \in SUBSET Hilos
        /\ finalizando' \in SUBSET Pids /\ memoria' \in {"viva", "caida"}
    OBVIOUS
  <2> QED
    BY <1>1, <2>1, <2>2
<1>4. CuentaNew'
  BY <1>1, <1>2 DEF CuentaNew, Unidad, FichaEnMano
<1>5. CabezaEstable' /\ FichaMemoria'
  BY <1>1, <1>9 DEF CabezaEstable, FichaMemoria
<1>6. SinDespertarPerdido'
  BY <1>1, <1>9 DEF SinDespertarPerdido
<1>7. EtapasDisjuntas'
  <2>1. \A i, j \in 1..Len(estado_new') :
           i < j => estado_new'[i] < estado_new'[j]
    <3>1. estado_new \in Seq(Int) /\ ULTIMO_PID \in Int
      BY SeqMonotonic
    <3>2. \A i \in 1..Len(estado_new) : estado_new[i] < ULTIMO_PID
      BY <1>2 DEF PidsCreados, EnUso
    <3> QED
      BY <3>1, <3>2, Creciente DEF EtapasDisjuntas
  <2> QED
    BY <1>1, <2>1 DEF EtapasDisjuntas, PidsCreados, EnUso, EnTramite
<1>8. PidsCreados'
  BY <1>1, <1>9 DEF PidsCreados, EnUso, EnTramite
<1> QED
  BY <1>3, <1>4, <1>5, <1>6, <1>7, <1>8

(* The planner takes out of NEW the process it has admitted, its head. *)
LEMMA PasoSacarDeNew ==
    ASSUME Invariante, SacarDeNew
    PROVE  /\ Invariante'
           /\ estado_new # <<>>
           /\ estado_new' = Tail(estado_new)
<1>0. estado_new \in Seq(Pids)
  BY DEF Invariante, TypeOK
<1>1. /\ estado_new # <<>>
      /\ proceso_a_inicializar = Head(estado_new)
      /\ estado_new' = Tail(estado_new)
  <2>1. estado_new # <<>> /\ proceso_a_inicializar = Head(estado_new)
    BY DEF Invariante, CabezaEstable, SacarDeNew, Planificador
  <2> QED
    BY <1>0, <2>1, QuitarCabeza DEF SacarDeNew
<1>2. /\ estado_new' \in Seq(Pids)
      /\ Head(estado_new) \in Pids
      /\ Len(estado_new) \in Nat \ {0}
      /\ Len(estado_new') = Len(estado_new) - 1
      /\ EnNew = {Head(estado_new)} \cup EnNew'
  <2>1. EnNew' = {Tail(estado_new)[i] : i \in 1..Len(Tail(estado_new))}
    BY <1>1, Zenon DEF EnNew
  <2> QED
    BY <1>0, <1>1, <2>1, Cola DEF EnNew
<1>3. /\ Head(estado_new) \notin EnNew'
      /\ \A i, j \in 1..Len(estado_new') :
            i < j => estado_new'[i] < estado_new'[j]
  <2>1. estado_new \in Seq(Int)
    <3>1. Pids \subseteq Int
      BY MaxProcesosAssumption DEF Pids
    <3> QED
      BY <1>0, <3>1, SeqMonotonic
  <2>2. \A i, j \in 1..Len(estado_new) : i < j => estado_new[i] < estado_new[j]
    BY DEF Invariante, EtapasDisjuntas
  <2>3. /\ \A i, j \in 1..Len(Tail(estado_new)) :
              i < j => Tail(estado_new)[i] < Tail(estado_new)[j]
        /\ Head(estado_new)
              \notin {Tail(estado_new)[i] : i \in 1..Len(Tail(estado_new))}
    BY <1>1, <2>1, <2>2, Creciente
  <2>4. EnNew' = {Tail(estado_new)[i] : i \in 1..Len(Tail(estado_new))}
    BY <1>1, Zenon DEF EnNew
  <2>5. Head(estado_new) \notin EnNew'
    BY <2>3, <2>4
  <2>6. \A i, j \in 1..Len(estado_new') : i < j => estado_new'[i] < estado_new'[j]
    BY <1>1, <2>3
  <2> QED
    BY <2>5, <2>6
<1> USE MaxProcesosAssumption DEF Invariante, TypeOK, LPs, Pids, SacarDeNew,
        Planificador, varsCreacion, varsMemoria, varsBajas
<1>9. Liberados' = Liberados /\ Buscados' = Buscados
  BY DEF Liberados, Buscados
<1>4. TypeOK'
  BY <1>1, <1>2
<1>5. CuentaNew'
  BY <1>1, <1>2 DEF CuentaNew, Unidad, FichaEnMano
<1>6. CabezaEstable' /\ FichaMemoria' /\ SinDespertarPerdido'
  BY <1>1, <1>9 DEF CabezaEstable, FichaMemoria, SinDespertarPerdido
<1>7. EtapasDisjuntas'
  BY <1>1, <1>2, <1>3 DEF EtapasDisjuntas, EnTramite
<1>8. PidsCreados'
  BY <1>1, <1>2, <1>9 DEF PidsCreados, EnUso, EnTramite
<1> QED
  BY <1>1, <1>4, <1>5, <1>6, <1>7, <1>8

(* Every step preserves the invariant. *)
LEMMA InvarianteInductivo ==
    Invariante /\ [Next]_vars => Invariante'
<1> SUFFICES ASSUME Invariante, [Next]_vars PROVE Invariante'
  OBVIOUS
<1>1. CASE AgregarANew
  BY <1>1, PasoAgregarANew
<1>2. CASE SacarDeNew
  BY <1>2, PasoSacarDeNew
<1>3. CASE ~AgregarANew /\ ~SacarDeNew
  <2>1. \/ CrearProceso \/ AvisarNew \/ EsperarMemoria \/ EsperarNew
        \/ ObtenerProceso \/ PedirInicializacionProceso \/ ReponerNew
        \/ LiberarMemoriaSuficiente \/ IniciarHiloPrincipal \/ AgregarAReady
        \/ AvisarReady \/ UNCHANGED vars
        \/ \E h \in Hilos : BuscarProceso(h) \/ PedirFinalizacion(h) \/ SacarProceso(h)
        \/ \E p \in Pids : AvisarMemoria(p)
    BY <1>3 DEF Next, PasoPlanificador
  <2>2. UNCHANGED estado_new
    BY <2>1 DEF CrearProceso, AvisarNew, EsperarMemoria, EsperarNew, ObtenerProceso,
       PedirInicializacionProceso, ReponerNew, LiberarMemoriaSuficiente,
       IniciarHiloPrincipal, AgregarAReady, AvisarReady, BuscarProceso,
       PedirFinalizacion, SacarProceso, AvisarMemoria, vars, varsNew
  <2> QED
    BY <2>1, <2>2, PasoSinTocarNew
<1> QED
  BY <1>1, <1>2, <1>3

(* The inductive invariant holds in every state. *)
THEOREM InvarianteSiempre == Spec => []Invariante
<1> QED
  BY InvarianteInicial, InvarianteInductivo, PTL DEF Spec

-----------------------------------------------------------------------------
(* The variables keep their types. *)
THEOREM Tipos == Spec => []TypeOK
<1>1. Invariante => TypeOK
  BY DEF Invariante
<1> QED
  BY <1>1, InvarianteSiempre, PTL

(* The tokens of semaforo_estado_new always match the processes of NEW:    *)
(* whenever the planner calls list_get(estado_new, 0) there is a process.  *)
THEOREM ContabilidadNew == Spec => [](CuentaNew /\ (lp = "obtener" => estado_new # <<>>))
<1>1. Invariante => CuentaNew /\ (lp = "obtener" => estado_new # <<>>)
  <2> SUFFICES ASSUME Invariante
               PROVE  CuentaNew /\ (lp = "obtener" => estado_new # <<>>)
    OBVIOUS
  <2>1. Len(<<>>) = 0
    OBVIOUS
  <2>2. lp = "obtener" => Len(estado_new) # 0
    BY DEF Invariante, TypeOK, CuentaNew, Unidad, FichaEnMano
  <2> QED
    BY <2>1, <2>2 DEF Invariante
<1> QED
  BY <1>1, InvarianteSiempre, PTL

(* The planner never sleeps on semaforo_memoria_suficiente while the first *)
(* process of NEW fits and nobody is about to wake it up.                  *)
THEOREM NingunDespertarPerdido == Spec => []SinDespertarPerdido
<1>1. Invariante => SinDespertarPerdido
  BY DEF Invariante
<1> QED
  BY <1>1, InvarianteSiempre, PTL

(* NEW, the way to READY, admitted and finalised are disjoint stages. *)
THEOREM UnaEtapaPorProceso == Spec => [](EtapasDisjuntas /\ CabezaEstable)
<1>1. Invariante => EtapasDisjuntas /\ CabezaEstable
  BY DEF Invariante
<1> QED
  BY <1>1, InvarianteSiempre, PTL

-----------------------------------------------------------------------------
(* Every step of the planner and its clients is a step of Admision, or     *)
(* leaves its queue and its set of processes as they were.                 *)
LEMMA PasoDeAdmision ==
    ASSUME Invariante, [Next]_vars
    PROVE  [A!Next]_(A!vars)
<1> DEFINE pend == IF Admitida THEN Tail(estado_new) ELSE estado_new
<1>0. estado_new \in Seq(Pids) /\ ULTIMO_PID \in Pids
  BY DEF Invariante, TypeOK
<1>1. CASE AgregarANew
  <2>1. ULTIMO_PID \notin en_memoria /\ ULTIMO_PID \notin EnNew
    BY <1>1, Cola DEF AgregarANew, varsMemoria, Invariante, TypeOK, CabezaEstable, PidsCreados,
       EnUso, EnTramite, EnNew
  <2>2. \A i \in 1..Len(pend) : pend[i] # ULTIMO_PID
    <3>1. CASE ~Admitida
      BY <2>1, <3>1 DEF EnNew
    <3>2. CASE Admitida
      <4>1. estado_new # <<>>
        BY <3>2 DEF Admitida, Invariante, CabezaEstable
      <4> QED
        BY <1>0, <2>1, <3>2, <4>1, Cola DEF EnNew
    <3> QED
      BY <3>1, <3>2
  <2>3. pend' = Append(pend, ULTIMO_PID)
    <3>1. Admitida' = Admitida
      BY <1>1 DEF AgregarANew, Admitida, varsPlanificador
    <3>2. Admitida => estado_new # <<>>
      BY DEF Admitida, Invariante, CabezaEstable
    <3> QED
      BY <1>0, <1>1, <3>1, <3>2, HeadTailAppend DEF AgregarANew
  <2>4. A!Llegar(ULTIMO_PID)
    BY <1>1, <2>1, <2>2, <2>3 DEF A!Llegar, AgregarANew, varsMemoria
  <2> QED
    BY <1>0, <2>4 DEF A!Next
<1>2. CASE PedirInicializacionProceso
  <2>1. /\ estado_new # <<>> /\ proceso_a_inicializar = Head(estado_new)
        /\ ~Admitida /\ estado_new' = estado_new
    BY <1>2 DEF PedirInicializacionProceso, Planificador, varsNew, Invariante,
       CabezaEstable, Admitida
  <2>2. CASE Entra(en_memoria, proceso_a_inicializar)
    <3>1. /\ en_memoria' = en_memoria \cup {Head(estado_new)}
          /\ Admitida' /\ pend' = Tail(estado_new)
      BY <1>2, <2>1, <2>2 DEF PedirInicializacionProceso, Planificador, Admitida
    <3>2. A!Admitir
      BY <2>1, <2>2, <3>1 DEF A!Admitir
    <3> QED
      BY <3>2 DEF A!Next
  <2>3. CASE ~Entra(en_memoria, proceso_a_inicializar)
    BY <1>2, <2>1, <2>3 DEF PedirInicializacionProceso, Planificador, Admitida, A!vars
  <2> QED
    BY <2>2, <2>3
<1>3. CASE SacarDeNew
  <2>1. estado_new' = Tail(estado_new) /\ Admitida /\ ~Admitida'
        /\ en_memoria' = en_memoria
    BY <1>3, PasoSacarDeNew DEF SacarDeNew, Planificador, varsMemoria, Admitida
  <2> QED
    BY <2>1 DEF A!vars
<1>4. ASSUME NEW h \in Hilos, PedirFinalizacion(h)
      PROVE  [A!Next]_(A!vars)
  <2>1. pend' = pend
    BY <1>4 DEF PedirFinalizacion, Admitida, varsNew, varsPlanificador
  <2>2. CASE Pid(h) \in en_memoria
    <3>1. A!Terminar(Pid(h))
      BY <1>4, <2>1, <2>2 DEF PedirFinalizacion, A!Terminar
    <3> QED
      BY <3>1, PidDe DEF A!Next
  <2>3. CASE Pid(h) \notin en_memoria
    BY <1>4, <2>1, <2>3 DEF PedirFinalizacion, A!vars
  <2> QED
    BY <2>2, <2>3
<1>5. CASE /\ ~AgregarANew /\ ~PedirInicializacionProceso /\ ~SacarDeNew
           /\ ~\E h \in Hilos : PedirFinalizacion(h)
  <2>1. UNCHANGED <<estado_new, en_memoria>> /\ Admitida' = Admitida
    BY <1>5 DEF Next, PasoPlanificador, CrearProceso, AvisarNew, EsperarMemoria,
       EsperarNew, ObtenerProceso, ReponerNew, LiberarMemoriaSuficiente,
       IniciarHiloPrincipal, AgregarAReady, AvisarReady, BuscarProceso, SacarProceso,
       AvisarMemoria, vars, varsCreacion, varsPlanificador, varsNew, varsMemoria, Planificador, Admitida
  <2> QED
    BY <2>1 DEF A!vars
<1> QED
  BY <1>1, <1>2, <1>3, <1>4, <1>5

(* The long-term planner, with its semaphores, implements Admision: FIFO   *)
(* admission into memory that has room.                                    *)
THEOREM RefinaAdmision == Spec => AdmisionSegura
<1>1. Init => A!Init
  BY DEF Init, A!Init, Admitida
<1>2. Invariante /\ [Next]_vars => [A!Next]_(A!vars)
  BY PasoDeAdmision
<1> QED
  BY <1>1, <1>2, InvarianteSiempre, PTL DEF Spec, A!Safety, AdmisionSegura

-----------------------------------------------------------------------------
(* The kernel. *)

(* A syscall either leaves the long-term planner alone, or creates a       *)
(* process, or begins to finalise one that was admitted.                   *)
LEMMA PasoSyscall ==
    ASSUME KTypeOK, memoria = "viva", Syscall
    PROVE  [Next]_vars
<1>1. CASE ProcessCreate
  BY <1>1 DEF ProcessCreate, Next
<1>2. CASE ProcessExit
  <2>1. BuscarProceso(estado_exec)
    BY <1>2 DEF ProcessExit
  <2>2. estado_exec \in Hilos
    <3>1. Pid(Ninguno) \notin Pids
      BY MaxProcesosAssumption DEF Pid, Ninguno, Pids
    <3> QED
      BY <2>1, <3>1 DEF BuscarProceso, KTypeOK, TypeOK
  <2> QED
    BY <2>1, <2>2 DEF Next
<1>3. CASE ThreadCreate \/ ThreadExit \/ ThreadJoin
  BY <1>3 DEF ThreadCreate, ThreadExit, ThreadJoin
<1>4. CASE MutexCreate
  BY <1>4 DEF MutexCreate
<1>5. CASE MutexLock
  BY <1>5 DEF MutexLock, Fallar
<1>6. CASE MutexUnlock
  BY <1>6 DEF MutexUnlock, Fallar, kernelVars
<1>7. CASE IO \/ DumpMemory
  BY <1>7 DEF IO, DumpMemory
<1> QED
  BY <1>1, <1>2, <1>3, <1>4, <1>5, <1>6, <1>7 DEF Syscall

(* So does every step of the kernel.                                       *)
LEMMA PasoKernel ==
    ASSUME KTypeOK, [KNext]_kernelVars
    PROVE  [Next]_vars
<1>0. memoria = "viva" \/ UNCHANGED kernelVars
  BY DEF KNext
<1>1. CASE Planificar \/ Desalojar \/ UsarHiloDestruido
  BY <1>1 DEF Planificar, Desalojar, UsarHiloDestruido, Fallar
<1>2. CASE Syscall /\ memoria = "viva"
  BY <1>2, PasoSyscall
<1>3. CASE ProcessCreateSigue /\ memoria = "viva"
  BY <1>3 DEF ProcessCreateSigue, Next
<1>4. CASE PasoLargoPlazo /\ memoria = "viva"
  BY <1>4 DEF PasoLargoPlazo, LargoPlazoSolo, IniciarPrincipal, AgregarPrincipal,
     AvisarPrincipal, Next, PasoPlanificador
<1>5. CASE TomarIO \/ TerminarIO
  BY <1>5 DEF TomarIO, TerminarIO
<1>6. ASSUME NEW h \in Hilos, DumpConfirmado(h)
      PROVE  [Next]_vars
  BY <1>6 DEF DumpConfirmado
<1>7. ASSUME NEW h \in Hilos, memoria = "viva",
             DumpFallido(h) \/ PasoBaja(h) \/ UsarProcesoLiberado(h)
      PROVE  [Next]_vars
  <2>1. UNCHANGED vars \/ BuscarProceso(h) \/ PedirFinalizacion(h) \/ SacarProceso(h)
    BY <1>7 DEF DumpFallido, PasoBaja, PedirBaja, SacarPCB, UsarProcesoLiberado, Fallar
  <2> QED
    BY <1>7, <2>1 DEF Next
<1>8. ASSUME NEW p \in Pids, memoria = "viva", PasoFinalizacion(p)
      PROVE  [Next]_vars
  <2>1. CASE FinalizarHilo(p)
    BY <2>1 DEF FinalizarHilo
  <2>2. CASE DescontarReady(p)
    BY <2>2 DEF DescontarReady
  <2>3. CASE TerminarFinalizacion(p)
    BY <1>8, <2>3 DEF TerminarFinalizacion, Next
  <2> QED
    BY <1>8, <2>1, <2>2, <2>3 DEF PasoFinalizacion
<1>9. CASE UNCHANGED kernelVars
  BY <1>9 DEF kernelVars
<1> QED
  BY <1>0, <1>1, <1>2, <1>3, <1>4, <1>5, <1>6, <1>7, <1>8, <1>9 DEF KNext

-----------------------------------------------------------------------------
(* The inductive invariant.  It speaks of the threads of a process that is *)
(* not being finalised; what a finaliser leaves behind of the others is    *)
(* never taken for one of these, because no PID or TID is used twice.      *)

Activo(h) == h \in vivos /\ Pid(h) \notin finalizando

(* A thread that was READY at least once. *)
Arrancado(h) ==
    /\ Pid(h) <= ULTIMO_PID
    /\ Pid(h) \in lista_procesos => Pid(h) \in admitidos
    /\ h[2] <= ultimo_tid[Pid(h)]

EnJoin(h) == \E k \in vivos : h \in ToSet(esperan[k])

EsperaMutex(h, i) ==
    i \in DOMAIN mutex[Pid(h)] /\ h \in ToSet(mutex[Pid(h)][i].hilos_bloqueados)

EnMutex(h) == \E i \in DOMAIN mutex[Pid(h)] : EsperaMutex(h, i)

(* The threads that some list, queue or pointer of the kernel names. *)
Nombrado(h) ==
    \/ h \in ToSet(estado_ready) \/ h \in estado_blocked \/ h = estado_exec
    \/ h \in ToSet(cola_io) \/ h = io_actual \/ h \in volcados
    \/ \E k \in Hilos : h \in ToSet(esperan[k])
    \/ EnMutex(h)

Nombres == \A h \in Hilos : Nombrado(h) => Arrancado(h)

(* The TCBs are those of the lists of TIDs of the processes. *)
Hilado ==
    /\ vivos = {h \in Hilos : h[2] \in ToSet(tids[Pid(h)])}
    /\ descontando \subseteq finalizando
    /\ \A p \in Pids :
          /\ p \in descontando => tids[p] # <<>>
          /\ SinRepetir(tids[p])
          /\ \A t \in ToSet(tids[p]) : t <= ultimo_tid[p]
          /\ tids[p] # <<>> =>
                \/ p \in admitidos \cup finalizando
                \/ p = proceso_a_inicializar /\ lp \in {"sacar", "agregar"}

(* A thread is in one state, once. *)
Lugar(h) ==
    /\ Unico(estado_ready, h)
    /\ ~ (h \in ToSet(estado_ready) /\ h \in estado_blocked)
    /\ h = estado_exec =>
          /\ h \notin ToSet(estado_ready) /\ h \notin estado_blocked
          /\ \/ sts \in {"cpu", "sin_respuesta"}
             \/ sts = "finalizar" /\ h \in buscando \cup sacando

(* It waits for one thing, in one place, and exactly when it is blocked. *)
Espera(h) ==
    /\ Unico(cola_io, h)
    /\ \A k, l \in vivos : h \in ToSet(esperan[k]) /\ h \in ToSet(esperan[l]) => k = l
    /\ \A i, j \in DOMAIN mutex[Pid(h)] : EsperaMutex(h, i) /\ EsperaMutex(h, j) => i = j
    /\ Unidad(EnJoin(h)) + Unidad(EnMutex(h)) + Unidad(h \in ToSet(cola_io))
          + Unidad(io_actual = h) + Unidad(h \in volcados) = Unidad(h \in estado_blocked)

Estados == \A h \in Hilos : Activo(h) => Lugar(h) /\ Espera(h)

Uniones ==
    \A k \in Hilos :
        /\ SinRepetir(esperan[k])
        /\ \A h \in ToSet(esperan[k]) : Pid(h) = Pid(k)
        /\ k \notin vivos => esperan[k] = <<>>

(* The mutexes of a process: owner and waiters are threads of its own. *)
MutexSano(p, m) ==
    /\ m.esta_libre <=> m.hilo_asignado = Ninguno
    /\ m.esta_libre => m.hilos_bloqueados = <<>>
    /\ ~m.esta_libre => Pid(m.hilo_asignado) = p /\ m.hilo_asignado \in vivos
    /\ SinRepetir(m.hilos_bloqueados)
    /\ \A h \in ToSet(m.hilos_bloqueados) :
          Pid(h) = p /\ h \in vivos /\ h \in estado_blocked

MutexSanos ==
    /\ \A p \in Pids : mutex[p] # <<>> => p \in admitidos \cup finalizando
    /\ \A p \in admitidos : \A i \in DOMAIN mutex[p] : MutexSano(p, mutex[p][i])

KInv == KTypeOK /\ Invariante /\ Hilado /\ Nombres /\ Estados /\ Uniones /\ MutexSanos

-----------------------------------------------------------------------------
(* Who inherits the mutexes of a thread that ends: the first waiter of     *)
(* each of its mutexes, nobody twice unless it heads two queues.           *)
LEMMA HerederosDe ==
    ASSUME NEW ms \in Seq(Mutexes), NEW h
    PROVE  LET I == {i \in 1..Len(ms) : ms[i].hilo_asignado = h
                                        /\ ms[i].hilos_bloqueados # <<>>}
           IN  /\ Herederos(ms, h) \in Seq(Hilos)
               /\ ToSet(Herederos(ms, h)) = {Head(ms[i].hilos_bloqueados) : i \in I}
               /\ (\A i, j \in I : Head(ms[i].hilos_bloqueados) = Head(ms[j].hilos_bloqueados)
                                      => i = j)
                     => SinRepetir(Herederos(ms, h))
<1> DEFINE N == Len(ms)
           cabeza(i) == Head(ms[i].hilos_bloqueados)
           I == {i \in 1..N : ms[i].hilo_asignado = h /\ ms[i].hilos_bloqueados # <<>>}
           paso(s, n) == IF ms[n].hilo_asignado = h /\ ms[n].hilos_bloqueados # <<>>
                         THEN Append(s, cabeza(n)) ELSE s
           todo(g, M) == g = [n \in 0..M |-> IF n = 0 THEN <<>> ELSE paso(g[n - 1], n)]
           her == CHOOSE g : todo(g, N)
<1>1. Herederos(ms, h) = her[N]
  BY Zenon DEF Herederos
<1>2. N \in Nat
  BY LenProperties
<1> HIDE DEF paso
<1>3. \E g : todo(g, N)
  <2> DEFINE P == {n \in Nat : \E g : todo(g, n)}
  <2>1. 0 \in P
    <3>1. todo([n \in 0..0 |-> <<>>], 0)
      OBVIOUS
    <3> QED
      BY <3>1
  <2>2. ASSUME NEW n \in Nat, n \in P
        PROVE  n + 1 \in P
    <3>1. PICK g : todo(g, n)
      BY <2>2
    <3> DEFINE g2 == [x \in 0..n + 1 |-> IF x <= n THEN g[x] ELSE paso(g[n], n + 1)]
    <3>2. \A x \in 0..n : g2[x] = g[x]
      OBVIOUS
    <3>3. g2[n + 1] = paso(g[n], n + 1)
      OBVIOUS
    <3>4. \A x \in 0..n : g[x] = IF x = 0 THEN <<>> ELSE paso(g[x - 1], x)
      BY <3>1
    <3>5. \A x \in 0..n + 1 : g2[x] = IF x = 0 THEN <<>> ELSE paso(g2[x - 1], x)
      <4> SUFFICES ASSUME NEW x \in 0..n + 1
                   PROVE  g2[x] = IF x = 0 THEN <<>> ELSE paso(g2[x - 1], x)
        OBVIOUS
      <4> HIDE DEF g2
      <4>1. CASE x \in 0..n /\ x # 0
        <5>1. x - 1 \in 0..n /\ g2[x] = g[x] /\ g2[x - 1] = g[x - 1]
          BY <3>2, <4>1
        <5> QED
          BY <3>4, <4>1, <5>1
      <4>2. CASE x = n + 1
        <5>1. x # 0 /\ x - 1 = n /\ n \in 0..n
          BY <4>2
        <5>2. g2[n] = g[n]
          BY <3>2, <5>1
        <5> QED
          BY <3>3, <4>2, <5>1, <5>2
      <4>3. CASE x = 0
        <5>1. 0 \in 0..n
          OBVIOUS
        <5> QED
          BY <3>2, <3>4, <4>3, <5>1
      <4>4. x = 0 \/ x = n + 1 \/ (x \in 0..n /\ x # 0)
        OBVIOUS
      <4> QED
        BY <4>1, <4>2, <4>3, <4>4
    <3>6. todo(g2, n + 1)
      <4>1. DOMAIN g2 = 0..n + 1 /\ g2 = [x \in 0..n + 1 |-> g2[x]]
        OBVIOUS
      <4> HIDE DEF g2
      <4>2. [x \in 0..n + 1 |-> g2[x]]
               = [x \in 0..n + 1 |-> IF x = 0 THEN <<>> ELSE paso(g2[x - 1], x)]
        BY <3>5
      <4> QED
        BY <4>1, <4>2
    <3>7. \E q : todo(q, n + 1)
      BY <3>6, Zenon
    <3> HIDE DEF todo
    <3> QED
      BY <3>7
  <2> HIDE DEF P
  <2>3. \A n \in Nat : n \in P
    BY <2>1, <2>2, Induccion, Zenon
  <2> QED
    BY <1>2, <2>3 DEF P
<1>4. todo(her, N)
  BY <1>3, Zenon
<1> HIDE DEF her
<1>5. her[0] = <<>> /\ \A n \in 1..N : her[n] = paso(her[n - 1], n)
  <2>1. \A n \in 0..N : her[n] = IF n = 0 THEN <<>> ELSE paso(her[n - 1], n)
    BY <1>4
  <2> QED
    BY <1>2, <2>1
<1>6. \A i \in I : cabeza(i) \in Hilos
  <2> TAKE i \in I
  <2>1. ms[i] \in Mutexes
    BY ElementOfSeq
  <2> QED
    BY <2>1, Cola DEF Mutexes
<1> DEFINE J(n) == {i \in I : i <= n}
           bien(n) == /\ her[n] \in Seq(Hilos)
                      /\ ToSet(her[n]) = {cabeza(i) : i \in J(n)}
                      /\ (\A i, j \in I : cabeza(i) = cabeza(j) => i = j)
                            => SinRepetir(her[n])
           P == {n \in Nat : n <= N => bien(n)}
<1>7. 0 \in P
  <2>1. <<>> \in Seq(Hilos) /\ ToSet(<<>>) = {} /\ SinRepetir(<<>>)
    <3>1. <<>> \in Seq(Hilos) /\ Len(<<>>) = 0
      OBVIOUS
    <3>2. ToSet(<<>>) = {}
      BY <3>1, Miembros, Zenon
    <3> QED
      BY <3>1, <3>2 DEF SinRepetir
  <2>2. J(0) = {}
    OBVIOUS
  <2> QED
    BY <1>5, <2>1, <2>2
<1>8. ASSUME NEW n \in Nat, n \in P
      PROVE  n + 1 \in P
  <2> SUFFICES ASSUME n + 1 <= N PROVE bien(n + 1)
    OBVIOUS
  <2>1. bien(n) /\ her[n + 1] = paso(her[n], n + 1)
    <3>1. n <= N /\ n + 1 \in 1..N /\ n + 1 - 1 = n
      BY <1>2
    <3> QED
      BY <1>5, <1>8, <3>1
  <2>2. CASE n + 1 \in I
    <3>1. her[n + 1] = Append(her[n], cabeza(n + 1))
      BY <2>1, <2>2 DEF paso
    <3>2. J(n + 1) = J(n) \cup {n + 1} /\ n + 1 \notin J(n)
      BY <2>2
    <3> DEFINE s == her[n]
               e == cabeza(n + 1)
    <3>3. e \in Hilos
      BY <1>6, <2>2
    <3>4. s \in Seq(Hilos)
      BY <2>1
    <3>5. /\ Append(s, e) \in Seq(Hilos)
          /\ ToSet(Append(s, e)) = ToSet(s) \cup {e}
          /\ SinRepetir(s) /\ e \notin ToSet(s) => SinRepetir(Append(s, e))
      <4> HIDE DEF s, e
      <4> QED
        BY <3>3, <3>4, Agregar
    <3>6. ToSet(Append(s, e)) = {cabeza(i) : i \in J(n + 1)}
      <4>1. ToSet(s) = {cabeza(i) : i \in J(n)}
        BY <2>1
      <4> HIDE DEF cabeza, J, s
      <4> QED
        BY <3>2, <3>5, <4>1
    <3>7. ASSUME \A i, j \in I : cabeza(i) = cabeza(j) => i = j
          PROVE  SinRepetir(s) /\ e \notin ToSet(s)
      <4>1. SinRepetir(s) /\ ToSet(s) = {cabeza(i) : i \in J(n)}
        BY <2>1, <3>7
      <4>2. \A i \in J(n) : i \in I
        OBVIOUS
      <4> HIDE DEF cabeza, J, s, I
      <4> QED
        BY <2>2, <3>2, <3>7, <4>1, <4>2
    <3> HIDE DEF s, e
    <3>8. her[n + 1] = Append(s, e)
      BY <3>1 DEF s, e
    <3> HIDE DEF J, I, cabeza
    <3> QED
      BY <3>5, <3>6, <3>7, <3>8
  <2>3. CASE n + 1 \notin I
    <3>1. her[n + 1] = her[n]
      <4>1. n + 1 \in 1..N
        BY <1>2
      <4> QED
        BY <2>1, <2>3, <4>1 DEF paso
    <3>2. J(n + 1) = J(n)
      <4>1. \A i \in I : i <= n + 1 <=> i <= n
        BY <2>3
      <4> HIDE DEF I
      <4> QED
        BY <4>1
    <3> QED
      BY <2>1, <3>1, <3>2
  <2> QED
    BY <2>2, <2>3
<1> HIDE DEF P
<1>9. \A n \in Nat : n \in P
  BY <1>7, <1>8, Induccion, Zenon
<1>10. bien(N)
  <2> HIDE DEF bien
  <2>1. N \in P /\ N <= N
    BY <1>2, <1>9
  <2> QED
    BY <2>1 DEF P
<1>11. J(N) = I
  BY <1>2
<1> HIDE DEF J
<1> QED
  BY <1>1, <1>10, <1>11

-----------------------------------------------------------------------------
(* Small facts. *)

(* NULL is no thread. *)
LEMMA NingunHilo ==
    /\ Ninguno \notin Hilos
    /\ \A h \in Hilos : h = <<Pid(h), h[2]>> /\ Pid(h) \in Pids /\ h[2] \in Tids
    /\ \A p \in Pids, t \in Tids : <<p, t>> \in Hilos /\ Pid(<<p, t>>) = p /\ <<p, t>>[2] = t
<1>1. -1 \notin Pids
  BY MaxProcesosAssumption DEF Pids
<1> QED
  BY <1>1 DEF Hilos, Ninguno, Pid

(* The process that the planner is admitting is in the list of PCBs and    *)
(* neither admitted nor being finalised.                                   *)
LEMMA EnCamino ==
    ASSUME Invariante, lp \in {"hilo", "sacar", "agregar"}
    PROVE  /\ proceso_a_inicializar \in lista_procesos
           /\ proceso_a_inicializar \in Pids
           /\ proceso_a_inicializar \notin admitidos \cup finalizando
<1>1. CASE lp = "agregar"
  BY <1>1 DEF Invariante, TypeOK, EtapasDisjuntas, EnTramite
<1>2. CASE lp \in {"hilo", "sacar"}
  <2>1. proceso_a_inicializar \in EnNew
    <3>1. estado_new \in Seq(Pids) /\ estado_new # <<>> /\ proceso_a_inicializar = Head(estado_new)
      BY <1>2 DEF Invariante, TypeOK, CabezaEstable
    <3>2. Len(estado_new) \in Nat \ {0} /\ Head(estado_new) = estado_new[1]
      BY <3>1, Cola
    <3> QED
      BY <3>1, <3>2 DEF EnNew
  <2> QED
    BY <2>1 DEF Invariante, TypeOK, EtapasDisjuntas
<1> QED
  BY <1>1, <1>2

(* A process that was in READY is never taken for one that was not.        *)
LEMMA SigueArrancado ==
    ASSUME KTypeOK, Invariante, [KNext]_kernelVars, NEW h \in Hilos, Arrancado(h)
    PROVE  Arrancado(h)'
<1>1. [Next]_vars
  BY PasoKernel
<1>2. ultimo_tid' = ultimo_tid \/ ThreadCreate
  BY DEF KNext, kernelVars, kvars, kHilos, Planificar, Syscall, ProcessCreateSigue, Desalojar,
     UsarHiloDestruido, PasoLargoPlazo, LargoPlazoSolo, IniciarPrincipal, AgregarPrincipal,
     AvisarPrincipal, TomarIO, TerminarIO, DumpConfirmado, DumpFallido, PasoBaja, PedirBaja,
     SacarPCB, UsarProcesoLiberado, PasoFinalizacion, FinalizarHilo, DescontarReady,
     TerminarFinalizacion, Destruir, Fallar, ProcessCreate, ProcessExit, ThreadExit, ThreadJoin, MutexCreate, MutexLock, MutexUnlock, IO, DumpMemory
<1>3. ultimo_tid'[Pid(h)] >= ultimo_tid[Pid(h)] /\ ultimo_tid[Pid(h)] \in Nat
  <2>1. ultimo_tid[Pid(h)] \in Nat
    BY NingunHilo, MaxTidAssumption DEF KTypeOK, Tids
  <2>2. CASE ultimo_tid' = ultimo_tid
    BY <2>1, <2>2
  <2>3. CASE ThreadCreate
    <3>1. ultimo_tid' = [ultimo_tid EXCEPT ![Pid(estado_exec)] = @ + 1]
      BY <2>3 DEF ThreadCreate
    <3> QED
      BY <2>1, <3>1, NingunHilo DEF KTypeOK
  <2> QED
    BY <1>2, <2>2, <2>3
<1>4. /\ Pid(h) <= ULTIMO_PID'
      /\ Pid(h) \in lista_procesos' => Pid(h) \in admitidos'
  <2>1. Pid(h) \in Nat /\ ULTIMO_PID \in Nat
    BY NingunHilo, MaxProcesosAssumption DEF KTypeOK, TypeOK, Pids
  <2>2. CASE CrearProceso
    BY <2>1, <2>2 DEF CrearProceso, Arrancado
  <2>3. CASE AgregarAReady
    BY <2>1, <2>3 DEF AgregarAReady, Planificador, varsCreacion, Arrancado
  <2>4. ASSUME NEW k \in Hilos, SacarProceso(k)
        PROVE  Pid(h) <= ULTIMO_PID' /\ (Pid(h) \in lista_procesos' => Pid(h) \in admitidos')
    BY <2>1, <2>4 DEF SacarProceso, varsCreacion, Arrancado
  <2>5. CASE UNCHANGED <<ULTIMO_PID, lista_procesos, admitidos>>
    BY <2>1, <2>5 DEF Arrancado
  <2> QED
    BY <1>1, <2>2, <2>3, <2>4, <2>5 DEF Next, PasoPlanificador, Planificador, EsperarMemoria,
       EsperarNew, ObtenerProceso, PedirInicializacionProceso, ReponerNew,
       LiberarMemoriaSuficiente, IniciarHiloPrincipal, SacarDeNew, AvisarReady,
       AgregarANew, AvisarNew, BuscarProceso, PedirFinalizacion, AvisarMemoria, varsCreacion,
       vars
<1> QED
  <2>1. h[2] \in Nat
    BY NingunHilo, MaxTidAssumption DEF Tids
  <2>2. ultimo_tid'[Pid(h)] \in Int
    <3>1. CASE ultimo_tid' = ultimo_tid
      BY <1>3, <3>1
    <3>2. CASE ThreadCreate
      <4>1. ultimo_tid' = [ultimo_tid EXCEPT ![Pid(estado_exec)] = @ + 1]
        BY <3>2 DEF ThreadCreate
      <4> QED
        BY <1>3, <4>1, NingunHilo DEF KTypeOK
    <3> QED
      BY <1>2, <3>1, <3>2
  <2> QED
    BY <1>3, <1>4, <2>1, <2>2 DEF Arrancado

-----------------------------------------------------------------------------
(* A finaliser that looks its process up, asks the memory or crashes       *)
(* changes neither the threads nor the stage of any process.               *)
Tramite(h) == DumpFallido(h) \/ PedirBaja(h) \/ UsarProcesoLiberado(h)

LEMMA TramiteDe ==
    ASSUME NEW h, Tramite(h)
    PROVE  /\ UNCHANGED <<kEstados, kHilos, kIO, mutex, sts, descontando, varsCreacion,
                          varsPlanificador, varsNew, lista_procesos, admitidos, finalizando>>
           /\ buscando \cup sacando \subseteq buscando' \cup sacando'
<1>1. CASE DumpFallido(h)
  BY <1>1 DEF DumpFallido, BuscarProceso, Fallar, kvars, vars, varsBajas
<1>2. CASE PedirBaja(h)
  BY <1>2 DEF PedirBaja, PedirFinalizacion, kvars
<1>3. CASE UsarProcesoLiberado(h)
  BY <1>3 DEF UsarProcesoLiberado, Fallar, vars, varsBajas
<1> QED
  BY <1>1, <1>2, <1>3 DEF Tramite

-----------------------------------------------------------------------------
(* The types. *)

(* The initial values have their types. *)
LEMMA TiposIniciales == KInit => KTypeOK
<1> SUFFICES ASSUME KInit PROVE KTypeOK
  OBVIOUS
<1>1. TypeOK
  BY InvarianteInicial DEF KInit, Invariante
<1>2. <<>> \in Seq(Tids) /\ <<>> \in Seq(Mutexes) /\ <<>> \in Seq(Hilos)
  OBVIOUS
<1>3. 0 \in Tids
  BY MaxTidAssumption DEF Tids
<1> QED
  BY <1>1, <1>2, <1>3, KernelAssumption DEF KInit, KTypeOK

(* What obtener_siguiente_a_exec returns is in READY. *)
LEMMA SiguienteEnReady ==
    ASSUME KTypeOK, estado_ready # <<>>
    PROVE  Siguiente \in ToSet(estado_ready)
<1>1. /\ Len(estado_ready) \in Nat \ {0} /\ DOMAIN estado_ready = 1..Len(estado_ready)
      /\ Head(estado_ready) = estado_ready[1]
      /\ ToSet(estado_ready) = {estado_ready[i] : i \in 1..Len(estado_ready)}
      /\ ToSet(estado_ready) \subseteq Hilos /\ ToSet(estado_ready) # {}
  BY Cola, Miembros, LenProperties DEF KTypeOK
<1>2. CASE Algoritmo = "FIFO"
  BY <1>1, <1>2 DEF Siguiente
<1>3. CASE Algoritmo # "FIFO"
  <2> DEFINE P == {prioridad[h] : h \in ToSet(estado_ready)}
             mejor == Min(P)
             I == {i \in DOMAIN estado_ready : prioridad[estado_ready[i]] = mejor}
  <2>1. P # {} /\ P \in SUBSET Nat
    <3>1. \A h \in ToSet(estado_ready) : prioridad[h] \in Nat
      BY <1>1, KernelAssumption DEF KTypeOK
    <3>2. PICK h \in ToSet(estado_ready) : TRUE
      BY <1>1
    <3>3. prioridad[h] \in P
      BY <3>2
    <3> QED
      BY <3>1, <3>3
  <2>2. mejor \in P
    BY <2>1, Minimo
  <2>3. I # {} /\ I \in SUBSET Nat
    <3> HIDE DEF mejor
    <3> QED
      BY <1>1, <2>2
  <2>4. Min(I) \in I
    BY <2>3, Minimo
  <2>5. Siguiente = estado_ready[Min(I)]
    BY <1>3 DEF Siguiente
  <2>6. Min(I) \in 1..Len(estado_ready)
    BY <1>1, <2>4
  <2> HIDE DEF I
  <2> QED
    BY <1>1, <2>5, <2>6
<1> QED
  BY <1>2, <1>3

(* buscar_mutex: a mutex of the list with that name, or none. *)
LEMMA BuscarDe ==
    ASSUME KTypeOK, NEW p \in Pids, NEW r, Buscar(p, r) # 0
    PROVE  /\ Buscar(p, r) \in 1..Len(mutex[p])
           /\ Buscar(p, r) \in DOMAIN mutex[p]
           /\ mutex[p][Buscar(p, r)] \in Mutexes
           /\ mutex[p][Buscar(p, r)].recurso = r
<1> DEFINE s == mutex[p]
           I == {i \in 1..Len(s) : s[i].recurso = r}
<1>1. s \in Seq(Mutexes)
  BY DEF KTypeOK
<1>2. Len(s) \in Nat /\ DOMAIN s = 1..Len(s)
  BY <1>1, LenProperties
<1>3. Buscar(p, r) = IF I = {} THEN 0 ELSE Min(I)
  <2>1. Buscar(p, r) = SelectInSeq(s, LAMBDA m : m.recurso = r)
    BY Zenon DEF Buscar
  <2>2. SelectInSeq(s, LAMBDA m : m.recurso = r) = IF I = {} THEN 0 ELSE Min(I)
    BY DEF SelectInSeq
  <2> QED
    BY <2>1, <2>2, Zenon
<1>4. I # {} /\ I \in SUBSET Nat
  BY <1>2, <1>3
<1>5. Min(I) \in I
  BY <1>4, Minimo
<1>6. Buscar(p, r) \in I
  BY <1>3, <1>4, <1>5
<1> HIDE DEF s
<1>7. \A i \in I : i \in 1..Len(s) /\ s[i] \in Mutexes /\ s[i].recurso = r
  BY <1>1, <1>2, ElementOfSeq
<1> QED
  BY <1>2, <1>6, <1>7 DEF s

(* Release gives a mutex back to its first waiter. *)
LEMMA LiberarDe ==
    ASSUME NEW m \in Mutexes
    PROVE  /\ Liberar(m) \in Mutexes
           /\ m.hilos_bloqueados = <<>> =>
                 /\ Liberar(m).esta_libre = TRUE /\ Liberar(m).hilo_asignado = Ninguno
                 /\ Liberar(m).hilos_bloqueados = <<>>
           /\ m.hilos_bloqueados # <<>> =>
                 /\ Liberar(m).esta_libre = FALSE
                 /\ Liberar(m).hilo_asignado = Head(m.hilos_bloqueados)
                 /\ Liberar(m).hilos_bloqueados = Tail(m.hilos_bloqueados)
<1> DEFINE q == m.hilos_bloqueados
<1>1. q \in Seq(Hilos) /\ m.recurso \in Recursos
  BY DEF Mutexes
<1>2. q # <<>> => Head(q) \in Hilos /\ Tail(q) \in Seq(Hilos)
  BY <1>1, Cola
<1>3. <<>> \in Seq(Hilos)
  OBVIOUS
<1>4. CASE q = <<>>
  BY <1>1, <1>3, <1>4 DEF Liberar, UnMutex, Mutexes
<1>5. CASE q # <<>>
  <2> DEFINE c == Head(q)
             t == Tail(q)
  <2>1. Liberar(m) = UnMutex(m.recurso, FALSE, c, t)
    BY <1>5 DEF Liberar
  <2>2. c \in Hilos /\ t \in Seq(Hilos)
    BY <1>2, <1>5
  <2> HIDE DEF c, t
  <2>3. /\ Liberar(m) \in Mutexes /\ Liberar(m).esta_libre = FALSE
        /\ Liberar(m).hilo_asignado = c /\ Liberar(m).hilos_bloqueados = t
    BY <1>1, <2>1, <2>2 DEF UnMutex, Mutexes
  <2> QED
    BY <1>5, <2>3 DEF c, t
<1> QED
  BY <1>4, <1>5

(* Wakening threads keeps the lists of threads well formed. *)
LEMMA TiposBlockedAReady ==
    ASSUME KTypeOK, NEW hs \in Seq(Hilos), BlockedAReady(hs)
    PROVE  /\ estado_ready' \in Seq(Hilos)
           /\ semaforo_estado_ready' \in Nat
           /\ estado_blocked' \subseteq Hilos
           /\ ToSet(estado_ready') = ToSet(estado_ready) \cup ToSet(hs)
           /\ estado_blocked' = estado_blocked \ ToSet(hs)
<1>1. Len(hs) \in Nat
  BY LenProperties
<1>2. estado_ready \o hs \in Seq(Hilos) /\ ToSet(estado_ready \o hs) = ToSet(estado_ready) \cup ToSet(hs)
  BY Concatenar DEF KTypeOK
<1> QED
  BY <1>1, <1>2 DEF BlockedAReady, KTypeOK

(* A list of a single thread. *)
LEMMA ListaDeUno ==
    ASSUME NEW S, NEW e \in S
    PROVE  <<e>> \in Seq(S) /\ ToSet(<<e>>) = {e} /\ SinRepetir(<<e>>) /\ Len(<<e>>) = 1
<1>1. <<e>> \in Seq(S) /\ Len(<<e>>) = 1 /\ <<e>>[1] = e
  OBVIOUS
<1>2. ToSet(<<e>>) = {<<e>>[i] : i \in 1..Len(<<e>>)}
  BY <1>1, Miembros, Zenon
<1> QED
  BY <1>1, <1>2 DEF SinRepetir

(* Every step of the kernel that is not a crash keeps the types: first the *)
(* long-term planner and the creation of processes ...                     *)
LEMMA TiposLargoPlazo ==
    ASSUME KInv, TypeOK',
           PasoLargoPlazo \/ ProcessCreate \/ ProcessCreateSigue
    PROVE  KTypeOK'
<1> USE DEF KInv
<1>1. CASE LargoPlazoSolo \/ ProcessCreateSigue
  BY <1>1 DEF LargoPlazoSolo, ProcessCreateSigue, kvars, kEstados, kHilos, kIO, KTypeOK
<1>2. CASE IniciarPrincipal
  <2> DEFINE p == proceso_a_inicializar
  <2>1. p \in Pids
    BY <1>2, EnCamino DEF IniciarPrincipal, IniciarHiloPrincipal, Planificador
  <2>2. 0 \in Tids
    BY MaxTidAssumption DEF Tids
  <2>3. Append(tids[p], 0) \in Seq(Tids) /\ <<p, 0>> \in Hilos
    BY <2>1, <2>2, AppendProperties, NingunHilo DEF KTypeOK
  <2> HIDE DEF p
  <2> QED
    BY <1>2, <2>1, <2>3 DEF IniciarPrincipal, kEstados, kIO, KTypeOK, Mutexes, p
<1>3. CASE AgregarPrincipal
  <2> DEFINE h == <<proceso_a_inicializar, 0>>
  <2>1. h \in Hilos
    <3>1. 0 \in Tids
      BY MaxTidAssumption DEF Tids
    <3> QED
      BY <1>3, <3>1, EnCamino, NingunHilo DEF AgregarPrincipal, AgregarAReady, Planificador
  <2>2. Append(estado_ready, h) \in Seq(Hilos)
    BY <2>1, AppendProperties DEF KTypeOK
  <2> HIDE DEF h
  <2> QED
    BY <1>3, <2>2 DEF AgregarPrincipal, kHilos, kIO, KTypeOK, Mutexes, h
<1>4. CASE AvisarPrincipal
  <2>1. semaforo_estado_ready' \in Nat
    BY <1>4 DEF AvisarPrincipal, KTypeOK
  <2> QED
    BY <1>4, <2>1 DEF AvisarPrincipal, kHilos, kIO, KTypeOK
<1>5. CASE ProcessCreate
  BY <1>5 DEF ProcessCreate, kEstados, kIO, KTypeOK
<1> QED
  BY <1>1, <1>2, <1>3, <1>4, <1>5 DEF PasoLargoPlazo

(* ... then the threads, the mutexes, the device and the dumps ...         *)
LEMMA TiposHilos ==
    ASSUME KInv, TypeOK',
           Planificar \/ Desalojar \/ IO \/ DumpMemory \/ TomarIO \/ TerminarIO
           \/ ProcessExit \/ ThreadCreate \/ ThreadJoin
           \/ \E h \in Hilos : DumpConfirmado(h) \/ SacarPCB(h)
    PROVE  KTypeOK'
<1> USE DEF KInv
<1>1. ASSUME NEW h \in Hilos PROVE Append(estado_ready, h) \in Seq(Hilos)
  BY AppendProperties DEF KTypeOK
<1>2. CASE Planificar
  <2>1. CASE fallo' \in {"ready_vacio", "hilo_liberado"} /\ UNCHANGED <<vars, kEstados, kHilos, kIO, mutex, sts, descontando>>
    BY <2>1 DEF kEstados, kHilos, kIO, KTypeOK
  <2>2. CASE estado_ready # <<>> /\ Siguiente \in vivos
    <3>1. /\ Siguiente \in Hilos
          /\ RemoveFirst(estado_ready, Siguiente) \in Seq(Hilos)
      BY <2>2, QuitarElemento DEF KTypeOK
    <3>2. semaforo_estado_ready' \in Nat
      BY <1>2, <2>2 DEF Planificar, KTypeOK
    <3> QED
      BY <1>2, <2>2, <3>1, <3>2 DEF Planificar, kHilos, kIO, KTypeOK
  <2> QED
    BY <1>2, <2>1, <2>2 DEF Planificar, Fallar
<1>3. CASE Desalojar
  <2>1. Append(estado_ready, estado_exec) \in Seq(Hilos)
    BY <1>1, <1>3 DEF Desalojar, KTypeOK
  <2>2. semaforo_estado_ready' \in Nat
    BY <1>3 DEF Desalojar, KTypeOK
  <2> QED
    BY <1>3, <2>1, <2>2 DEF Desalojar, kHilos, kIO, KTypeOK
<1>4. CASE IO
  <2>1. estado_exec \in Hilos
    BY <1>4 DEF IO, EnCpu, KTypeOK
  <2>2. Append(cola_io, estado_exec) \in Seq(Hilos)
    BY <2>1, AppendProperties DEF KTypeOK
  <2> QED
    BY <1>4, <2>1, <2>2 DEF IO, ExecABlocked, kHilos, KTypeOK
<1>5. CASE DumpMemory
  BY <1>5 DEF DumpMemory, EnCpu, ExecABlocked, kHilos, KTypeOK
<1>6. CASE TomarIO
  BY <1>6, Cola DEF TomarIO, kEstados, kHilos, KTypeOK
<1>7. CASE TerminarIO
  <2>1. io_actual \in Hilos
    BY <1>7 DEF TerminarIO, KTypeOK
  <2>2. /\ estado_ready' \in Seq(Hilos) /\ semaforo_estado_ready' \in Nat
        /\ estado_blocked' \subseteq Hilos
    <3>1. <<io_actual>> \in Seq(Hilos)
      BY <2>1
    <3> QED
      BY <1>7, <3>1, TiposBlockedAReady DEF TerminarIO
  <2> QED
    BY <1>7, <2>2 DEF TerminarIO, kHilos, KTypeOK
<1>8. CASE ProcessExit
  BY <1>8 DEF ProcessExit, kEstados, kHilos, kIO, KTypeOK
<1>9. CASE ThreadCreate
  <2> DEFINE p == Pid(estado_exec)
             t == ultimo_tid[p] + 1
             h == <<p, t>>
  <2>1. p \in Pids /\ ultimo_tid[p] < MaxTid /\ estado_exec \in Hilos
    BY <1>9, NingunHilo DEF ThreadCreate, EnCpuConProceso, EnCpu, KTypeOK
  <2>2. t \in Tids
    BY <2>1, MaxTidAssumption DEF KTypeOK, Tids
  <2>3. h \in Hilos
    BY <2>1, <2>2, NingunHilo
  <2>4. Append(tids[p], t) \in Seq(Tids)
    BY <2>1, <2>2, AppendProperties DEF KTypeOK
  <2>5. /\ ultimo_tid' = [ultimo_tid EXCEPT ![p] = t]
        /\ tids' = [tids EXCEPT ![p] = Append(tids[p], t)]
        /\ \E prio \in Prioridades : prioridad' = [prioridad EXCEPT ![h] = prio]
        /\ vivos' = vivos \cup {h}
        /\ estado_ready' = Append(estado_ready, h)
        /\ semaforo_estado_ready' = semaforo_estado_ready + 1
        /\ UNCHANGED <<estado_exec, estado_blocked, esperan, kIO, mutex, sts, descontando, fallo>>
    BY <1>9 DEF ThreadCreate
  <2>6. semaforo_estado_ready' \in Nat
    BY <2>5 DEF KTypeOK
  <2> HIDE DEF t, h
  <2> QED
    BY <1>1, <2>1, <2>2, <2>3, <2>4, <2>5, <2>6 DEF kIO, KTypeOK
<1>10. CASE ThreadJoin
  <2> PICK t \in Tids :
         LET h == estado_exec
             p == Pid(h)
         IN  /\ EnCpuConProceso("THREAD_JOIN")
             /\ IF t \in ToSet(tids[p])
                THEN /\ esperan' = [esperan EXCEPT ![<<p, t>>] = Append(@, h)]
                     /\ ExecABlocked
                ELSE /\ sts' = "sin_respuesta"
                     /\ UNCHANGED <<esperan, kEstados>>
             /\ UNCHANGED <<vars, tids, ultimo_tid, prioridad, vivos, kIO, mutex,
                            descontando, fallo>>
    BY <1>10 DEF ThreadJoin
  <2> DEFINE p == Pid(estado_exec)
             k == <<p, t>>
  <2>1. estado_exec \in Hilos /\ k \in Hilos
    BY NingunHilo DEF EnCpuConProceso, EnCpu, KTypeOK
  <2>2. Append(esperan[k], estado_exec) \in Seq(Hilos)
    BY <2>1, AppendProperties DEF KTypeOK
  <2>3. CASE t \in ToSet(tids[p])
    <3>1. esperan' = [esperan EXCEPT ![k] = Append(esperan[k], estado_exec)] /\ ExecABlocked
      BY <2>3
    <3> HIDE DEF k, p
    <3> QED
      BY <2>1, <2>2, <3>1 DEF ExecABlocked, kIO, KTypeOK
  <2>4. CASE t \notin ToSet(tids[p])
    BY <2>4 DEF kEstados, kIO, KTypeOK
  <2> QED
    BY <2>3, <2>4
<1>11. ASSUME NEW h \in Hilos, DumpConfirmado(h)
       PROVE  KTypeOK'
  <2>1. /\ estado_ready' \in Seq(Hilos) /\ semaforo_estado_ready' \in Nat
        /\ estado_blocked' \subseteq Hilos
    <3>1. <<h>> \in Seq(Hilos)
      OBVIOUS
    <3> QED
      BY <1>11, <3>1, TiposBlockedAReady DEF DumpConfirmado
  <2> QED
    BY <1>11, <2>1 DEF DumpConfirmado, kHilos, KTypeOK
<1>12. ASSUME NEW h \in Hilos, SacarPCB(h)
       PROVE  KTypeOK'
  BY <1>12 DEF SacarPCB, kEstados, kHilos, KTypeOK
<1> QED
  BY <1>2, <1>3, <1>4, <1>5, <1>6, <1>7, <1>8, <1>9, <1>10, <1>11, <1>12

(* ... and the mutexes ...                                                 *)
LEMMA TiposMutex ==
    ASSUME KInv, TypeOK', MutexCreate \/ MutexLock \/ MutexUnlock
    PROVE  KTypeOK'
<1> USE DEF KInv
<1> DEFINE p == Pid(estado_exec)
<1>1. estado_exec \in Hilos /\ p \in Pids
  BY NingunHilo DEF MutexCreate, MutexLock, MutexUnlock, EnCpuConProceso, EnCpu, KTypeOK
<1>2. ASSUME NEW c, UNCHANGED <<vars, kEstados, kHilos, kIO, mutex, sts, descontando>>,
             fallo' = c, c \in {"mutex_inexistente", "mutex_libre"}
      PROVE  KTypeOK'
  BY <1>2 DEF kEstados, kHilos, kIO, KTypeOK
<1>3. CASE MutexCreate
  <2> PICK r \in Recursos :
         /\ mutex' = [mutex EXCEPT ![p] = Append(mutex[p], UnMutex(r, TRUE, Ninguno, <<>>))]
         /\ UNCHANGED <<vars, kEstados, kHilos, kIO, sts, descontando, fallo>>
    BY <1>3 DEF MutexCreate
  <2> DEFINE m == UnMutex(r, TRUE, Ninguno, <<>>)
  <2>1. m \in Mutexes
    <3>1. <<>> \in Seq(Hilos)
      OBVIOUS
    <3> QED
      BY <3>1 DEF UnMutex, Mutexes
  <2>2. Append(mutex[p], m) \in Seq(Mutexes)
    <3>1. mutex[p] \in Seq(Mutexes)
      BY <1>1 DEF KTypeOK
    <3> HIDE DEF m
    <3> QED
      BY <2>1, <3>1, AppendProperties
  <2> HIDE DEF m, p
  <2> QED
    BY <1>1, <2>2 DEF m, kEstados, kHilos, kIO, KTypeOK
<1>4. ASSUME NEW i \in 1..Len(mutex[p]), NEW m \in Mutexes,
             mutex' = [mutex EXCEPT ![p] = [mutex[p] EXCEPT ![i] = m]]
      PROVE  mutex' \in [Pids -> Seq(Mutexes)]
  <2>1. mutex[p] \in Seq(Mutexes)
    BY <1>1 DEF KTypeOK
  <2>2. [mutex[p] EXCEPT ![i] = m] \in Seq(Mutexes)
    BY <2>1, ExceptSeq
  <2> HIDE DEF p
  <2> QED
    BY <1>1, <1>4, <2>2 DEF KTypeOK
<1>5. CASE MutexLock
  <2> PICK r \in Recursos :
        LET i == Buscar(p, r)
            m == mutex[p][i]
        IN  /\ EnCpuConProceso("MUTEX_LOCK")
            /\ IF i = 0 THEN Fallar("mutex_inexistente")
               ELSE /\ IF m.esta_libre
                       THEN /\ mutex' = [mutex EXCEPT ![p] = [@ EXCEPT ![i] =
                                            UnMutex(r, FALSE, estado_exec, m.hilos_bloqueados)]]
                            /\ UNCHANGED <<kEstados, sts>>
                       ELSE /\ mutex' = [mutex EXCEPT ![p] = [@ EXCEPT ![i] =
                                            UnMutex(r, FALSE, m.hilo_asignado,
                                                    Append(m.hilos_bloqueados, estado_exec))]]
                            /\ ExecABlocked
                    /\ UNCHANGED <<vars, kHilos, kIO, descontando, fallo>>
    BY <1>5 DEF MutexLock
  <2> DEFINE i == Buscar(p, r)
             m == mutex[p][i]
             libre == UnMutex(r, FALSE, estado_exec, m.hilos_bloqueados)
             ocupado == UnMutex(r, FALSE, m.hilo_asignado, Append(m.hilos_bloqueados, estado_exec))
  <2>1. CASE i = 0
    BY <1>2, <2>1 DEF Fallar
  <2>2. CASE i # 0
    <3>1. i \in 1..Len(mutex[p]) /\ m \in Mutexes
      BY <1>1, <2>2, BuscarDe
    <3>2. libre \in Mutexes /\ ocupado \in Mutexes
      <4>1. /\ m.hilos_bloqueados \in Seq(Hilos) /\ m.hilo_asignado \in Hilos \cup {Ninguno}
            /\ Append(m.hilos_bloqueados, estado_exec) \in Seq(Hilos)
        BY <1>1, <3>1, AppendProperties DEF Mutexes
      <4> HIDE DEF m
      <4> QED
        BY <1>1, <4>1 DEF UnMutex, Mutexes
    <3>3. /\ \/ mutex' = [mutex EXCEPT ![p] = [mutex[p] EXCEPT ![i] = libre]]
             \/ mutex' = [mutex EXCEPT ![p] = [mutex[p] EXCEPT ![i] = ocupado]]
          /\ UNCHANGED <<kEstados, sts>> \/ ExecABlocked
          /\ UNCHANGED <<vars, kHilos, kIO, descontando, fallo>>
      BY <2>2
    <3>4. mutex' \in [Pids -> Seq(Mutexes)]
      <4> HIDE DEF i, libre, ocupado, p
      <4> QED
        BY <1>4, <3>1, <3>2, <3>3
    <3> QED
      BY <1>1, <3>3, <3>4 DEF ExecABlocked, kEstados, kHilos, kIO, KTypeOK
  <2> QED
    BY <2>1, <2>2
<1>6. CASE MutexUnlock
  <2> PICK r \in Recursos :
        LET i == Buscar(p, r)
            m == mutex[p][i]
        IN  /\ EnCpuConProceso("MUTEX_UNLOCK")
            /\ IF i = 0 THEN Fallar("mutex_inexistente")
               ELSE IF m.hilo_asignado = Ninguno THEN Fallar("mutex_libre")
               ELSE IF m.hilo_asignado # estado_exec THEN UNCHANGED kernelVars
               ELSE /\ mutex' = [mutex EXCEPT ![p] = [@ EXCEPT ![i] = Liberar(m)]]
                    /\ IF m.hilos_bloqueados = <<>>
                       THEN UNCHANGED kEstados
                       ELSE /\ BlockedAReady(<<Head(m.hilos_bloqueados)>>)
                            /\ UNCHANGED estado_exec
                    /\ UNCHANGED <<vars, kHilos, kIO, sts, descontando, fallo>>
    BY <1>6 DEF MutexUnlock
  <2> DEFINE i == Buscar(p, r)
             m == mutex[p][i]
             c == Head(m.hilos_bloqueados)
  <2>1. CASE i = 0
    BY <1>2, <2>1 DEF Fallar
  <2>2. CASE i # 0 /\ m.hilo_asignado = Ninguno
    BY <1>2, <2>2 DEF Fallar
  <2>3. CASE i # 0 /\ m.hilo_asignado # Ninguno /\ m.hilo_asignado # estado_exec
    <3>1. UNCHANGED kernelVars
      BY <2>3
    <3> QED
      BY <3>1 DEF kernelVars, kvars, kEstados, kHilos, kIO, KTypeOK
  <2>4. CASE i # 0 /\ m.hilo_asignado # Ninguno /\ m.hilo_asignado = estado_exec
    <3>1. i \in 1..Len(mutex[p]) /\ m \in Mutexes
      BY <1>1, <2>4, BuscarDe
    <3>2. Liberar(m) \in Mutexes
      BY <3>1, LiberarDe
    <3>3. /\ mutex' = [mutex EXCEPT ![p] = [mutex[p] EXCEPT ![i] = Liberar(m)]]
          /\ \/ UNCHANGED kEstados
             \/ /\ m.hilos_bloqueados # <<>>
                /\ BlockedAReady(<<c>>) /\ UNCHANGED estado_exec
          /\ UNCHANGED <<vars, kHilos, kIO, sts, descontando, fallo>>
      BY <2>4
    <3>4. mutex' \in [Pids -> Seq(Mutexes)]
      <4> HIDE DEF i, p, m
      <4> QED
        BY <1>4, <3>1, <3>2, <3>3
    <3>5. m.hilos_bloqueados # <<>> => <<c>> \in Seq(Hilos)
      BY <3>1, Cola DEF Mutexes
    <3>6. /\ estado_ready' \in Seq(Hilos) /\ semaforo_estado_ready' \in Nat
          /\ estado_blocked' \subseteq Hilos /\ UNCHANGED estado_exec
      <4>1. CASE UNCHANGED kEstados
        BY <4>1 DEF kEstados, KTypeOK
      <4>2. CASE m.hilos_bloqueados # <<>> /\ BlockedAReady(<<c>>) /\ UNCHANGED estado_exec
        <5> HIDE DEF c
        <5> QED
          BY <3>5, <4>2, TiposBlockedAReady
      <4> QED
        BY <3>3, <4>1, <4>2
    <3> QED
      BY <3>3, <3>4, <3>6 DEF kHilos, kIO, KTypeOK
  <2> QED
    BY <2>1, <2>2, <2>3, <2>4
<1> QED
  BY <1>3, <1>5, <1>6

(* ... and the end of threads and processes.                               *)
LEMMA TiposFinal ==
    ASSUME KInv, TypeOK', ThreadExit \/ \E p \in Pids : PasoFinalizacion(p)
    PROVE  KTypeOK'
<1> USE DEF KInv
<1>1. CASE ThreadExit
  <2> DEFINE h == estado_exec
             p == Pid(h)
             hs == Herederos(mutex[p], h) \o esperan[h]
             ms == [i \in 1..Len(mutex[p]) |->
                      IF mutex[p][i].hilo_asignado = h THEN Liberar(mutex[p][i]) ELSE mutex[p][i]]
  <2>1. /\ h \in Hilos /\ p \in Pids
        /\ tids' = [tids EXCEPT ![p] = RemoveFirst(tids[p], h[2])]
        /\ mutex' = [mutex EXCEPT ![p] = ms]
        /\ BlockedAReady(hs)
        /\ esperan' = [esperan EXCEPT ![h] = <<>>]
        /\ vivos' = vivos \ {h}
        /\ sts' = "planificar"
        /\ UNCHANGED <<vars, estado_exec, ultimo_tid, prioridad, kIO, descontando, fallo>>
    BY <1>1, NingunHilo DEF ThreadExit, EnCpuConProceso, EnCpu, KTypeOK
  <2>2. mutex[p] \in Seq(Mutexes) /\ esperan[h] \in Seq(Hilos) /\ tids[p] \in Seq(Tids)
    BY <2>1 DEF KTypeOK
  <2>3. hs \in Seq(Hilos)
    <3>1. Herederos(mutex[p], h) \in Seq(Hilos)
      BY <2>2, HerederosDe
    <3> QED
      BY <2>2, <3>1, Concatenar
  <2>4. ms \in Seq(Mutexes)
    <3>1. Len(mutex[p]) \in Nat /\ \A i \in 1..Len(mutex[p]) : mutex[p][i] \in Mutexes
      BY <2>2, LenProperties, ElementOfSeq
    <3>2. \A i \in 1..Len(mutex[p]) : ms[i] \in Mutexes
      BY <3>1, LiberarDe
    <3>3. ms \in [1..Len(mutex[p]) -> Mutexes]
      BY <3>2
    <3> QED
      BY <3>1, <3>3, IsASeq
  <2>5. RemoveFirst(tids[p], h[2]) \in Seq(Tids)
    BY <2>2, QuitarElemento
  <2>6. <<>> \in Seq(Hilos)
    OBVIOUS
  <2> HIDE DEF hs, ms, p
  <2>7. /\ estado_ready' \in Seq(Hilos) /\ semaforo_estado_ready' \in Nat
        /\ estado_blocked' \subseteq Hilos
    BY <2>1, <2>3, TiposBlockedAReady
  <2>8. /\ tids' \in [Pids -> Seq(Tids)] /\ mutex' \in [Pids -> Seq(Mutexes)]
        /\ esperan' \in [Hilos -> Seq(Hilos)]
    BY <2>1, <2>4, <2>5, <2>6 DEF KTypeOK
  <2> QED
    BY <2>1, <2>7, <2>8 DEF kIO, KTypeOK
<1>2. ASSUME NEW p \in Pids, tids[p] # <<>>, Destruir(<<p, Last(tids[p])>>)
      PROVE  /\ tids' \in [Pids -> Seq(Tids)]
             /\ esperan' \in [Hilos -> Seq(Hilos)]
             /\ vivos' \subseteq Hilos
             /\ UNCHANGED <<ultimo_tid, prioridad>>
  <2> DEFINE h == <<p, Last(tids[p])>>
  <2>1. Last(tids[p]) \in Tids /\ Front(tids[p]) \in Seq(Tids)
    BY <1>2, QuitarUltimo DEF KTypeOK
  <2>2. h \in Hilos /\ Pid(h) = p
    BY <2>1, NingunHilo
  <2>3. <<>> \in Seq(Hilos)
    OBVIOUS
  <2>4. /\ tids' = [tids EXCEPT ![Pid(h)] = Front(tids[Pid(h)])]
        /\ esperan' = [esperan EXCEPT ![h] = <<>>]
        /\ vivos' = vivos \ {h} /\ UNCHANGED <<ultimo_tid, prioridad>>
    BY <1>2 DEF Destruir
  <2> HIDE DEF h
  <2> QED
    BY <2>1, <2>2, <2>3, <2>4 DEF KTypeOK
<1>3. ASSUME NEW p \in Pids, FinalizarHilo(p)
      PROVE  KTypeOK'
  <2> DEFINE h == <<p, Last(tids[p])>>
             ready == estado_ready \o esperan[h]
  <2>1. h \in Hilos /\ tids[p] # <<>>
    BY <1>3, QuitarUltimo, NingunHilo DEF FinalizarHilo, KTypeOK
  <2>2. ready \in Seq(Hilos) /\ Len(esperan[h]) \in Nat
    BY <2>1, Concatenar, LenProperties DEF KTypeOK
  <2>3. /\ estado_ready' = RemoveFirst(ready, h)
        /\ semaforo_estado_ready' = semaforo_estado_ready + Len(esperan[h])
        /\ UNCHANGED <<vars, estado_exec, kIO, mutex, sts, fallo>>
        /\ \/ /\ descontando' = descontando \cup {p}
              /\ estado_blocked' = estado_blocked \ ToSet(esperan[h])
              /\ esperan' = [esperan EXCEPT ![h] = <<>>]
              /\ UNCHANGED <<tids, ultimo_tid, prioridad, vivos>>
           \/ /\ estado_blocked' = estado_blocked \ (ToSet(esperan[h]) \cup {h})
              /\ Destruir(h)
              /\ UNCHANGED descontando
    BY <1>3 DEF FinalizarHilo
  <2>4. semaforo_estado_ready' \in Nat
    BY <2>2, <2>3 DEF KTypeOK
  <2>5. estado_ready' \in Seq(Hilos)
    <3> HIDE DEF ready, h
    <3> QED
      BY <2>2, <2>3, QuitarElemento
  <2>6. <<>> \in Seq(Hilos)
    OBVIOUS
  <2>7. CASE /\ estado_blocked' = estado_blocked \ ToSet(esperan[h])
             /\ descontando' = descontando \cup {p}
             /\ esperan' = [esperan EXCEPT ![h] = <<>>]
             /\ UNCHANGED <<tids, ultimo_tid, prioridad, vivos>>
    <3> HIDE DEF h
    <3> QED
      BY <2>1, <2>3, <2>4, <2>5, <2>6, <2>7 DEF kIO, KTypeOK
  <2>8. CASE /\ estado_blocked' = estado_blocked \ (ToSet(esperan[h]) \cup {h})
             /\ Destruir(h)
             /\ UNCHANGED descontando
    <3>1. /\ tids' \in [Pids -> Seq(Tids)]
          /\ esperan' \in [Hilos -> Seq(Hilos)]
          /\ vivos' \subseteq Hilos
          /\ UNCHANGED <<ultimo_tid, prioridad>>
      BY <1>2, <2>1, <2>8
    <3> HIDE DEF h
    <3> QED
      BY <2>3, <2>4, <2>5, <2>8, <3>1 DEF kIO, KTypeOK
  <2> QED
    BY <2>3, <2>7, <2>8
<1>4. ASSUME NEW p \in Pids, DescontarReady(p)
      PROVE  KTypeOK'
  <2> DEFINE h == <<p, Last(tids[p])>>
  <2>1. tids[p] # <<>>
    BY <1>4 DEF DescontarReady, Hilado
  <2>2. /\ tids' \in [Pids -> Seq(Tids)]
        /\ esperan' \in [Hilos -> Seq(Hilos)]
        /\ vivos' \subseteq Hilos
        /\ UNCHANGED <<ultimo_tid, prioridad>>
    BY <1>2, <1>4, <2>1 DEF DescontarReady
  <2>3. semaforo_estado_ready' \in Nat
    BY <1>4 DEF DescontarReady, KTypeOK
  <2>4. /\ estado_blocked' = estado_blocked \ {h}
        /\ descontando' = descontando \ {p}
        /\ UNCHANGED <<vars, estado_ready, estado_exec, kIO, mutex, sts, fallo>>
    BY <1>4 DEF DescontarReady
  <2> HIDE DEF h
  <2> QED
    BY <2>2, <2>3, <2>4 DEF kIO, KTypeOK
<1>5. ASSUME NEW p \in Pids, TerminarFinalizacion(p)
      PROVE  KTypeOK'
  <2>1. <<>> \in Seq(Mutexes)
    OBVIOUS
  <2>2. mutex' \in [Pids -> Seq(Mutexes)]
    BY <1>5, <2>1 DEF TerminarFinalizacion, KTypeOK
  <2> QED
    BY <1>5, <2>2 DEF TerminarFinalizacion, kEstados, kHilos, kIO, KTypeOK
<1> QED
  BY <1>1, <1>3, <1>4, <1>5 DEF PasoFinalizacion

(* Every step of the kernel keeps the types of lists, mutexes and          *)
(* semaphores.                                                             *)
LEMMA TiposPaso ==
    ASSUME KInv, [KNext]_kernelVars
    PROVE  KTypeOK'
<1>1. TypeOK'
  BY PasoKernel, InvarianteInductivo DEF KInv, Invariante
<1>4. ASSUME NEW h \in Hilos, Tramite(h)
      PROVE  KTypeOK'
  <2>1. fallo' \in {"ninguno", "hilo_liberado", "proceso_inexistente", "memoria_caida"} \cup {fallo}
    BY <1>4 DEF Tramite, DumpFallido, PedirBaja, UsarProcesoLiberado, Fallar, kvars
  <2> QED
    BY <1>1, <1>4, <2>1, TramiteDe DEF kEstados, kHilos, kIO, KTypeOK, KInv
<1>2. CASE UsarHiloDestruido
  BY <1>1, <1>2 DEF UsarHiloDestruido, Fallar, kEstados, kHilos, kIO, KTypeOK, KInv
<1>3. CASE UNCHANGED kernelVars
  BY <1>1, <1>3 DEF kernelVars, kvars, kEstados, kHilos, kIO, KTypeOK, KInv
<1> QED
  BY <1>1, <1>2, <1>3, <1>4, TiposLargoPlazo, TiposHilos, TiposMutex, TiposFinal
     DEF KNext, Syscall, PasoBaja, Tramite

-----------------------------------------------------------------------------
(* The lists of TIDs and the TCBs. *)

(* A thread enters the list of its process as its TCB is allocated, and    *)
(* leaves it as the TCB is freed.                                          *)
LEMMA CambiaLista ==
    ASSUME KTypeOK, Hilado, NEW p \in Pids, NEW t \in Tids, NEW L,
           tids' = [tids EXCEPT ![p] = L],
           \/ vivos' = vivos \cup {<<p, t>>} /\ ToSet(L) = ToSet(tids[p]) \cup {t}
           \/ vivos' = vivos \ {<<p, t>>} /\ ToSet(L) = ToSet(tids[p]) \ {t}
    PROVE  vivos' = {h \in Hilos : h[2] \in ToSet(tids'[Pid(h)])}
<1>1. /\ tids'[p] = L
      /\ \A q \in Pids : q # p => tids'[q] = tids[q]
  BY DEF KTypeOK
<1>2. <<p, t>> \in Hilos /\ Pid(<<p, t>>) = p /\ <<p, t>>[2] = t
  BY NingunHilo
<1>3. \A h \in Hilos : h \in vivos <=> h[2] \in ToSet(tids[Pid(h)])
  BY DEF Hilado
<1>4. vivos' \subseteq Hilos
  BY <1>2 DEF KTypeOK
<1>5. ASSUME NEW h \in Hilos
      PROVE  h \in vivos' <=> h[2] \in ToSet(tids'[Pid(h)])
  <2>1. h = <<Pid(h), h[2]>> /\ Pid(h) \in Pids
    BY NingunHilo
  <2>2. CASE Pid(h) = p
    <3>1. h = <<p, t>> <=> h[2] = t
      BY <1>2, <2>1, <2>2
    <3> QED
      BY <1>1, <1>3, <2>2, <3>1
  <2>3. CASE Pid(h) # p
    <3>1. h # <<p, t>>
      BY <1>2, <2>3
    <3> QED
      BY <1>1, <1>3, <2>1, <2>3, <3>1
  <2> QED
    BY <2>2, <2>3
<1> QED
  BY <1>4, <1>5

(* While the lists stay as they are, a process keeps the stage in which it *)
(* may have threads.                                                       *)
LEMMA EtapaConHilos ==
    ASSUME KInv, [Next]_vars, NEW p \in Pids,
           \/ p \in admitidos \cup finalizando
           \/ p = proceso_a_inicializar /\ lp \in {"sacar", "agregar"},
           ~ AvisarMemoria(p)
    PROVE  /\ \/ p \in admitidos' \cup finalizando'
              \/ p = proceso_a_inicializar' /\ lp' \in {"sacar", "agregar"}
           /\ p \in finalizando => p \in finalizando'
<1>1. CASE \/ \E h \in Hilos : BuscarProceso(h) \/ PedirFinalizacion(h) \/ SacarProceso(h)
           \/ \E q \in Pids : AvisarMemoria(q)
  BY <1>1 DEF BuscarProceso, PedirFinalizacion, SacarProceso, AvisarMemoria, varsPlanificador
<1>2. CASE CrearProceso \/ AgregarANew \/ AvisarNew \/ UNCHANGED vars
  BY <1>2 DEF CrearProceso, AgregarANew, AvisarNew, varsPlanificador, vars
<1>3. CASE PasoPlanificador
  BY <1>3 DEF PasoPlanificador, Planificador, EsperarMemoria, EsperarNew, ObtenerProceso,
     PedirInicializacionProceso, ReponerNew, LiberarMemoriaSuficiente, IniciarHiloPrincipal,
     SacarDeNew, AgregarAReady, AvisarReady
<1> QED
  BY <1>1, <1>2, <1>3 DEF Next

(* The steps that leave the lists alone. *)
LEMMA HiladoQuieto ==
    ASSUME KInv, [Next]_vars, UNCHANGED <<tids, ultimo_tid, vivos, descontando>>,
           \A p \in Pids : AvisarMemoria(p) => tids[p] = <<>>
    PROVE  Hilado'
<1>1. \A p \in Pids : tids[p] # <<>> =>
         /\ \/ p \in admitidos' \cup finalizando'
            \/ p = proceso_a_inicializar' /\ lp' \in {"sacar", "agregar"}
         /\ p \in finalizando => p \in finalizando'
  BY EtapaConHilos DEF KInv, Hilado
<1>2. descontando \subseteq finalizando'
  BY <1>1 DEF KInv, KTypeOK, Hilado
<1> QED
  BY <1>1, <1>2 DEF KInv, Hilado

(* Every step keeps the lists of TIDs and the threads alive in step. *)
LEMMA HiladoPaso ==
    ASSUME KInv, KTypeOK', [KNext]_kernelVars
    PROVE  Hilado'
<1> USE DEF KInv
<1>1. [Next]_vars
  BY PasoKernel
<1>2. ASSUME NEW p \in Pids, tids' = [tids EXCEPT ![p] = tids'[p]],
             SinRepetir(tids'[p]), \A t \in ToSet(tids'[p]) : t <= ultimo_tid'[p],
             \A q \in Pids : q # p => ultimo_tid'[q] = ultimo_tid[q],
             vivos' = {h \in Hilos : h[2] \in ToSet(tids'[Pid(h)])},
             descontando' \subseteq descontando \ {p},
             UNCHANGED finalizando,
             tids'[p] # <<>> =>
                \/ p \in admitidos' \cup finalizando'
                \/ p = proceso_a_inicializar' /\ lp' \in {"sacar", "agregar"},
             \A q \in Pids : ~ AvisarMemoria(q)
      PROVE  Hilado'
  <2>1. \A q \in Pids : q # p => tids'[q] = tids[q]
    BY <1>2 DEF KTypeOK
  <2>2. ASSUME NEW q \in Pids, q # p
        PROVE  /\ q \in descontando' => tids'[q] # <<>>
               /\ SinRepetir(tids'[q])
               /\ \A t \in ToSet(tids'[q]) : t <= ultimo_tid'[q]
               /\ tids'[q] # <<>> =>
                     \/ q \in admitidos' \cup finalizando'
                     \/ q = proceso_a_inicializar' /\ lp' \in {"sacar", "agregar"}
    <3>1. tids'[q] = tids[q] /\ ultimo_tid'[q] = ultimo_tid[q]
      BY <1>2, <2>1, <2>2
    <3>2. tids[q] # <<>> =>
             \/ q \in admitidos' \cup finalizando'
             \/ q = proceso_a_inicializar' /\ lp' \in {"sacar", "agregar"}
      BY <1>1, <1>2, EtapaConHilos DEF Hilado
    <3> QED
      BY <1>2, <3>1, <3>2 DEF Hilado
  <2>3. descontando' \subseteq finalizando'
    BY <1>2 DEF Hilado
  <2> QED
    BY <1>2, <2>2, <2>3 DEF Hilado
<1>3. CASE IniciarPrincipal
  <2> DEFINE p == proceso_a_inicializar
  <2>1. /\ p \in Pids /\ p \notin admitidos \cup finalizando /\ lp = "hilo"
        /\ lp' = "sacar" /\ proceso_a_inicializar' = p
        /\ UNCHANGED <<finalizando, descontando, ultimo_tid>>
        /\ tids' = [tids EXCEPT ![p] = Append(tids[p], 0)]
        /\ vivos' = vivos \cup {<<p, 0>>}
    BY <1>3, EnCamino DEF IniciarPrincipal, IniciarHiloPrincipal, Planificador
  <2>2. tids[p] = <<>> /\ p \notin descontando
    BY <2>1 DEF Hilado
  <2>3. 0 \in Tids /\ ultimo_tid[p] \in Nat
    BY <2>1, MaxTidAssumption DEF Tids, KTypeOK
  <2>4. ToSet(tids'[p]) = {0} /\ SinRepetir(tids'[p])
    <3>1. tids'[p] = Append(<<>>, 0)
      BY <2>1, <2>2 DEF KTypeOK
    <3>2. Append(<<>>, 0) = <<0>>
      OBVIOUS
    <3>3. ToSet(<<0>>) = {0} /\ SinRepetir(<<0>>)
      BY <2>3, ListaDeUno
    <3> QED
      BY <3>1, <3>2, <3>3, Zenon
  <2>5. tids' = [tids EXCEPT ![p] = tids'[p]]
    <3> HIDE DEF p
    <3> QED
      BY <2>1 DEF KTypeOK
  <2>6. ToSet(tids[p]) = {}
    <3>1. tids[p] \in Seq(Tids)
      BY <2>1 DEF KTypeOK
    <3> QED
      BY <2>2, <3>1, Miembros
  <2> HIDE DEF p
  <2>7. vivos' = {h \in Hilos : h[2] \in ToSet(tids'[Pid(h)])}
    <3> DEFINE L == tids'[p]
    <3>1. ToSet(L) = ToSet(tids[p]) \cup {0} /\ tids' = [tids EXCEPT ![p] = L]
      BY <2>4, <2>5, <2>6
    <3>2. p \in Pids /\ 0 \in Tids /\ vivos' = vivos \cup {<<p, 0>>}
      BY <2>1, <2>3
    <3> HIDE DEF L
    <3> QED
      BY <3>1, <3>2, CambiaLista
  <2>8. \A q \in Pids : ~ AvisarMemoria(q)
    BY <2>1 DEF AvisarMemoria, varsPlanificador
  <2>9. \A t \in ToSet(tids'[p]) : t <= ultimo_tid'[p]
    BY <2>1, <2>3, <2>4
  <2> QED
    BY <1>2, <2>1, <2>2, <2>4, <2>5, <2>7, <2>8, <2>9 DEF p
<1>4. CASE ThreadCreate
  <2> DEFINE p == Pid(estado_exec)
             t == ultimo_tid[p] + 1
  <2>1. /\ p \in Pids /\ t \in Tids /\ p \in lista_procesos
        /\ ultimo_tid' = [ultimo_tid EXCEPT ![p] = t]
        /\ tids' = [tids EXCEPT ![p] = Append(tids[p], t)]
        /\ vivos' = vivos \cup {<<p, t>>}
        /\ UNCHANGED vars /\ UNCHANGED descontando
        /\ estado_exec \in vivos
    <3>1. p \in Pids /\ ultimo_tid[p] < MaxTid
      BY <1>4, NingunHilo DEF ThreadCreate, EnCpuConProceso, EnCpu, KTypeOK
    <3>2. t \in Tids
      <4>1. ultimo_tid[p] \in Nat
        BY <3>1, MaxTidAssumption DEF KTypeOK, Tids
      <4> QED
        BY <3>1, <4>1, MaxTidAssumption DEF Tids
    <3> QED
      BY <1>4, <3>1, <3>2 DEF ThreadCreate, EnCpuConProceso, EnCpu
  <2>2. /\ tids[p] \in Seq(Tids) /\ ultimo_tid[p] \in Nat
    BY <2>1, MaxTidAssumption DEF KTypeOK, Tids
  <2>3. \A x \in ToSet(tids[p]) : x \in Tids /\ x \in Nat /\ x <= ultimo_tid[p]
    <3>1. Tids \subseteq Nat
      BY MaxTidAssumption DEF Tids
    <3>2. \A x \in ToSet(tids[p]) : x \in Tids
      BY <2>2, Miembros
    <3>3. \A x \in ToSet(tids[p]) : x <= ultimo_tid[p]
      BY <2>1 DEF Hilado
    <3> QED
      BY <3>1, <3>2, <3>3
  <2>4. t \notin ToSet(tids[p])
    BY <2>2, <2>3
  <2>5. tids'[p] = Append(tids[p], t) /\ ultimo_tid'[p] = t
        /\ \A q \in Pids : q # p => ultimo_tid'[q] = ultimo_tid[q]
    BY <2>1 DEF KTypeOK
  <2>6. tids' = [tids EXCEPT ![p] = tids'[p]]
    <3> HIDE DEF p, t
    <3> QED
      BY <2>1 DEF KTypeOK
  <2>7. \A x \in ToSet(tids[p]) : x <= t
    BY <2>2, <2>3
  <2>8. t <= t
    BY <2>2
  <2>9. tids[p] # <<>> /\ p \in admitidos \cup finalizando /\ p \notin finalizando
    <3>1. estado_exec[2] \in ToSet(tids[p])
      BY <2>1 DEF Hilado
    <3>2. tids[p] # <<>>
      BY <2>2, <3>1, Miembros
    <3>3. p \in lista_procesos => p \in admitidos
      <4>1. Arrancado(estado_exec)
        BY <2>1 DEF Nombres, Nombrado, KTypeOK
      <4> QED
        BY <4>1 DEF Arrancado
    <3> QED
      BY <2>1, <3>2, <3>3 DEF Invariante, EtapasDisjuntas
  <2> HIDE DEF p, t
  <2>10. /\ SinRepetir(Append(tids[p], t))
         /\ ToSet(Append(tids[p], t)) = ToSet(tids[p]) \cup {t}
    BY <2>1, <2>2, <2>4, Agregar DEF Hilado
  <2>11. vivos' = {h \in Hilos : h[2] \in ToSet(tids'[Pid(h)])}
    BY <2>1, <2>10, CambiaLista
  <2>12. \A q \in Pids : ~ AvisarMemoria(q)
    <3> SUFFICES ASSUME NEW q \in Pids, AvisarMemoria(q) PROVE FALSE
      OBVIOUS
    <3>1. finalizando' # finalizando
      BY DEF AvisarMemoria
    <3> QED
      BY <2>1, <3>1 DEF vars
  <2>13. \A x \in ToSet(tids'[p]) : x <= ultimo_tid'[p]
    BY <2>5, <2>7, <2>8, <2>10
  <2>14. UNCHANGED <<finalizando, admitidos>> /\ descontando' \subseteq descontando \ {p}
    BY <2>1, <2>9 DEF vars, Hilado
  <2> QED
    BY <1>2, <2>1, <2>5, <2>6, <2>9, <2>10, <2>11, <2>12, <2>13, <2>14
<1>5. CASE ThreadExit
  <2> DEFINE h == estado_exec
             p == Pid(h)
             t == h[2]
  <2>1. /\ h \in vivos /\ p \in Pids /\ t \in Tids /\ h = <<p, t>> /\ p \in lista_procesos
        /\ tids' = [tids EXCEPT ![p] = RemoveFirst(tids[p], t)]
        /\ vivos' = vivos \ {<<p, t>>}
        /\ UNCHANGED <<vars, ultimo_tid, descontando>>
    BY <1>5, NingunHilo DEF ThreadExit, EnCpuConProceso, EnCpu, KTypeOK
  <2>2. tids[p] \in Seq(Tids) /\ SinRepetir(tids[p])
    BY <2>1 DEF KTypeOK, Hilado
  <2>3. t \in ToSet(tids[p])
    BY <2>1 DEF Hilado
  <2>4. tids'[p] = RemoveFirst(tids[p], t)
    BY <2>1 DEF KTypeOK
  <2>5. p \in admitidos /\ p \notin finalizando
    <3>1. Arrancado(h)
      BY <2>1 DEF Nombres, Nombrado, KTypeOK
    <3> QED
      BY <2>1, <3>1 DEF Arrancado, Invariante, EtapasDisjuntas
  <2> HIDE DEF p, t, h
  <2>6. tids' = [tids EXCEPT ![p] = tids'[p]]
    BY <2>1 DEF KTypeOK
  <2>7. /\ SinRepetir(RemoveFirst(tids[p], t))
        /\ ToSet(RemoveFirst(tids[p], t)) = ToSet(tids[p]) \ {t}
    BY <2>2, QuitarElemento
  <2>8. vivos' = {x \in Hilos : x[2] \in ToSet(tids'[Pid(x)])}
    BY <2>1, <2>7, CambiaLista
  <2>9. \A q \in Pids : ~ AvisarMemoria(q)
    <3> SUFFICES ASSUME NEW q \in Pids, AvisarMemoria(q) PROVE FALSE
      OBVIOUS
    <3>1. finalizando' # finalizando
      BY DEF AvisarMemoria
    <3> QED
      BY <2>1, <3>1 DEF vars
  <2>10. \A x \in ToSet(tids'[p]) : x <= ultimo_tid'[p]
    BY <2>1, <2>4, <2>7 DEF Hilado
  <2>11. UNCHANGED <<finalizando, admitidos>> /\ descontando' \subseteq descontando \ {p}
    BY <2>1, <2>5 DEF vars, Hilado
  <2> QED
    BY <1>2, <2>1, <2>4, <2>5, <2>6, <2>7, <2>8, <2>9, <2>10, <2>11
<1>6. ASSUME NEW p \in Pids, tids[p] # <<>>, p \in finalizando, Destruir(<<p, Last(tids[p])>>),
             UNCHANGED vars, descontando' \subseteq descontando \ {p}
      PROVE  Hilado'
  <2> DEFINE t == Last(tids[p])
  <2>1. tids[p] \in Seq(Tids) /\ SinRepetir(tids[p])
    BY DEF KTypeOK, Hilado
  <2>2. /\ t \in Tids /\ ToSet(Front(tids[p])) = ToSet(tids[p]) \ {t}
        /\ SinRepetir(Front(tids[p]))
    BY <1>6, <2>1, QuitarUltimo
  <2>3. Pid(<<p, t>>) = p
    BY DEF Pid
  <2>4. /\ tids' = [tids EXCEPT ![p] = Front(tids[p])]
        /\ vivos' = vivos \ {<<p, t>>} /\ UNCHANGED ultimo_tid
    BY <1>6, <2>3 DEF Destruir
  <2>5. tids'[p] = Front(tids[p])
    BY <2>4 DEF KTypeOK
  <2>6. tids' = [tids EXCEPT ![p] = tids'[p]]
    BY <2>4, <2>5
  <2> HIDE DEF t
  <2>7. vivos' = {x \in Hilos : x[2] \in ToSet(tids'[Pid(x)])}
    BY <2>2, <2>4, CambiaLista
  <2>8. \A q \in Pids : ~ AvisarMemoria(q)
    <3> SUFFICES ASSUME NEW q \in Pids, AvisarMemoria(q) PROVE FALSE
      OBVIOUS
    <3>1. finalizando' # finalizando
      BY DEF AvisarMemoria
    <3> QED
      BY <1>6, <3>1 DEF vars
  <2>9. \A x \in ToSet(tids'[p]) : x <= ultimo_tid'[p]
    BY <2>2, <2>4, <2>5 DEF Hilado
  <2>10. UNCHANGED <<finalizando, admitidos>>
    BY <1>6 DEF vars
  <2> QED
    BY <1>2, <1>6, <2>2, <2>4, <2>5, <2>6, <2>7, <2>8, <2>9, <2>10
<1>7. ASSUME NEW p \in Pids, PasoFinalizacion(p)
      PROVE  Hilado'
  <2>1. CASE DescontarReady(p)
    <3>1. p \in finalizando /\ tids[p] # <<>>
      BY <2>1 DEF DescontarReady, Hilado
    <3> QED
      BY <1>6, <2>1, <3>1 DEF DescontarReady
  <2>2. CASE FinalizarHilo(p)
    <3>1. CASE Destruir(<<p, Last(tids[p])>>) /\ UNCHANGED descontando
      BY <1>6, <2>2, <3>1 DEF FinalizarHilo
    <3>2. CASE descontando' = descontando \cup {p} /\ UNCHANGED <<tids, ultimo_tid, vivos>>
      <4>1. UNCHANGED vars /\ p \in finalizando /\ tids[p] # <<>>
        BY <2>2 DEF FinalizarHilo
      <4>2. UNCHANGED <<finalizando, admitidos, proceso_a_inicializar, lp>>
        BY <4>1 DEF vars, varsPlanificador
      <4>3. descontando' \subseteq finalizando'
        BY <3>2, <4>1, <4>2 DEF Hilado
      <4>4. \A q \in Pids : q \in descontando' => tids'[q] # <<>>
        BY <3>2, <4>1 DEF Hilado
      <4> QED
        BY <3>2, <4>2, <4>3, <4>4 DEF Hilado
    <3> QED
      BY <2>2, <3>1, <3>2 DEF FinalizarHilo
  <2>3. CASE TerminarFinalizacion(p)
    <3>1. \A q \in Pids : AvisarMemoria(q) => q = p
      <4>1. /\ p \in finalizando /\ finalizando' = finalizando \ {p}
        BY <2>3 DEF TerminarFinalizacion, AvisarMemoria
      <4>2. \A q \in Pids : AvisarMemoria(q) => q \in finalizando /\ finalizando' = finalizando \ {q}
        BY DEF AvisarMemoria
      <4> QED
        BY <4>1, <4>2
    <3> QED
      BY <1>1, <2>3, <3>1, HiladoQuieto DEF TerminarFinalizacion, kHilos
  <2> QED
    BY <1>7, <2>1, <2>2, <2>3 DEF PasoFinalizacion
<1>8. ASSUME UNCHANGED <<tids, ultimo_tid, vivos, descontando>>,
             finalizando \subseteq finalizando'
      PROVE  Hilado'
  <2>1. \A q \in Pids : ~ AvisarMemoria(q)
    BY <1>8 DEF AvisarMemoria
  <2> QED
    BY <1>1, <1>8, <2>1, HiladoQuieto
<1>9. CASE \/ LargoPlazoSolo \/ AgregarPrincipal \/ AvisarPrincipal \/ ProcessCreate
           \/ ProcessCreateSigue
  BY <1>8, <1>9 DEF LargoPlazoSolo, AgregarPrincipal, AvisarPrincipal, ProcessCreate,
     ProcessCreateSigue, kvars, kHilos, Planificador, EsperarMemoria, EsperarNew,
     ObtenerProceso, PedirInicializacionProceso, ReponerNew, LiberarMemoriaSuficiente,
     SacarDeNew, AgregarAReady, AvisarReady, CrearProceso, AgregarANew, AvisarNew
<1>10. CASE \/ Planificar \/ Desalojar \/ UsarHiloDestruido \/ TomarIO \/ TerminarIO
            \/ IO \/ DumpMemory \/ ThreadJoin \/ MutexCreate \/ MutexLock \/ MutexUnlock
            \/ UNCHANGED kernelVars
  <2>1. UNCHANGED <<vars, tids, ultimo_tid, vivos, descontando>>
    BY <1>10 DEF Planificar, Desalojar, UsarHiloDestruido, TomarIO, TerminarIO, IO,
       DumpMemory, ThreadJoin, MutexCreate, MutexLock, MutexUnlock, Fallar, kHilos, kvars,
       kernelVars
  <2> QED
    BY <1>8, <2>1 DEF vars
<1>11. CASE ProcessExit \/ \E h \in Hilos : DumpConfirmado(h) \/ SacarPCB(h) \/ Tramite(h)
  <2>1. UNCHANGED <<tids, ultimo_tid, vivos, descontando>>
    BY <1>11, TramiteDe DEF ProcessExit, DumpConfirmado, SacarPCB, kHilos
  <2>2. finalizando \subseteq finalizando'
    BY <1>11, TramiteDe DEF ProcessExit, DumpConfirmado, SacarPCB, BuscarProceso,
       SacarProceso, vars
  <2> QED
    BY <1>8, <2>1, <2>2
<1> QED
  BY <1>3, <1>4, <1>5, <1>7, <1>9, <1>10, <1>11 DEF KNext, Syscall, PasoLargoPlazo, PasoBaja,
     Tramite

-----------------------------------------------------------------------------
(* The state of the thread that makes a syscall, and what the syscalls on  *)
(* mutexes change.                                                         *)

(* A thread that is not blocked waits for nothing. *)
LEMMA Suelto ==
    ASSUME KInv, NEW h \in Hilos, Activo(h), h \notin estado_blocked
    PROVE  /\ ~ EnJoin(h) /\ ~ EnMutex(h)
           /\ h \notin ToSet(cola_io) /\ io_actual # h /\ h \notin volcados
BY DEF KInv, Estados, Espera, Unidad

(* One that waits for something is blocked, and waits for nothing else.    *)
LEMMA Atado ==
    ASSUME KInv, NEW h \in Hilos, Activo(h)
    PROVE  /\ EnJoin(h) => /\ h \in estado_blocked /\ ~ EnMutex(h)
                           /\ h \notin ToSet(cola_io) /\ io_actual # h /\ h \notin volcados
           /\ EnMutex(h) => /\ h \in estado_blocked /\ ~ EnJoin(h)
                            /\ h \notin ToSet(cola_io) /\ io_actual # h /\ h \notin volcados
           /\ io_actual = h => /\ h \in estado_blocked /\ ~ EnJoin(h) /\ ~ EnMutex(h)
                               /\ h \notin ToSet(cola_io) /\ h \notin volcados
           /\ h \in volcados => /\ h \in estado_blocked /\ ~ EnJoin(h) /\ ~ EnMutex(h)
                                /\ h \notin ToSet(cola_io) /\ io_actual # h
           /\ h \in estado_blocked => h \notin ToSet(estado_ready) /\ h # estado_exec
BY DEF KInv, Estados, Espera, Lugar, Unidad

(* The process of the thread in EXEC, if it has a PCB, is an admitted one. *)
LEMMA EnExec ==
    ASSUME KInv, estado_exec \in vivos
    PROVE  /\ estado_exec \in Hilos /\ Pid(estado_exec) \in Pids /\ estado_exec # Ninguno
           /\ Activo(estado_exec) => /\ estado_exec \notin ToSet(estado_ready)
                                     /\ estado_exec \notin estado_blocked
           /\ Pid(estado_exec) \in lista_procesos =>
                 Pid(estado_exec) \in admitidos /\ Activo(estado_exec)
<1>1. estado_exec \in Hilos /\ Pid(estado_exec) \in Pids /\ estado_exec # Ninguno
  BY NingunHilo DEF KInv, KTypeOK
<1>2. Arrancado(estado_exec)
  BY <1>1 DEF KInv, Nombres, Nombrado
<1> QED
  BY <1>1, <1>2 DEF KInv, Estados, Lugar, Arrancado, Activo, Invariante, EtapasDisjuntas

(* The thread that makes a syscall is alive, active and waits for          *)
(* nothing.                                                                *)
LEMMA EnExecConProceso ==
    ASSUME KInv, NEW s, EnCpuConProceso(s)
    PROVE  /\ estado_exec \in vivos /\ estado_exec \in Hilos /\ estado_exec # Ninguno
           /\ Pid(estado_exec) \in Pids /\ Pid(estado_exec) \in admitidos
           /\ Pid(estado_exec) \notin finalizando
           /\ Activo(estado_exec) /\ sts = "cpu"
           /\ estado_exec \notin ToSet(estado_ready) /\ estado_exec \notin estado_blocked
           /\ ~ EnJoin(estado_exec) /\ ~ EnMutex(estado_exec)
           /\ estado_exec \notin ToSet(cola_io) /\ io_actual # estado_exec
           /\ estado_exec \notin volcados
BY EnExec, Suelto DEF EnCpuConProceso, EnCpu, Activo

(* A step that changes the mutex i of p and no other. *)
SoloMutex(p, i) ==
    /\ \A q \in Pids : q # p => mutex'[q] = mutex[q]
    /\ Len(mutex'[p]) = Len(mutex[p])
    /\ \A j \in 1..Len(mutex[p]) : j # i => mutex'[p][j] = mutex[p][j]

(* Assigning one mutex of the list of a process. *)
LEMMA CambiaMutex ==
    ASSUME KTypeOK, NEW p \in Pids, NEW i \in 1..Len(mutex[p]), NEW m \in Mutexes,
           mutex' = [mutex EXCEPT ![p] = [mutex[p] EXCEPT ![i] = m]]
    PROVE  SoloMutex(p, i) /\ mutex'[p][i] = m
<1>1. mutex[p] \in Seq(Mutexes) /\ DOMAIN mutex[p] = 1..Len(mutex[p]) /\ Len(mutex[p]) \in Nat
  BY LenProperties DEF KTypeOK
<1>2. mutex'[p] = [mutex[p] EXCEPT ![i] = m] /\ \A q \in Pids : q # p => mutex'[q] = mutex[q]
  BY DEF KTypeOK
<1> DEFINE ms == [mutex[p] EXCEPT ![i] = m]
<1>3. Len(ms) = Len(mutex[p]) /\ \A j \in 1..Len(mutex[p]) : ms[j] = IF i = j THEN m ELSE mutex[p][j]
  BY <1>1, ExceptSeq
<1> HIDE DEF ms
<1>4. mutex'[p] = ms
  BY <1>2 DEF ms
<1> QED
  BY <1>2, <1>3, <1>4 DEF SoloMutex

(* MUTEX_LOCK takes a free mutex or queues up for one that is taken. *)
LEMMA EfectoLock ==
    ASSUME KInv, MutexLock
    PROVE  LET h == estado_exec
               p == Pid(h)
           IN  \/ UNCHANGED <<vars, kEstados, kHilos, kIO, mutex, sts, descontando>>
               \/ \E i \in 1..Len(mutex[p]) :
                     /\ SoloMutex(p, i)
                     /\ mutex'[p][i].esta_libre = FALSE
                     /\ UNCHANGED <<vars, kHilos, kIO, descontando, fallo>>
                     /\ \/ /\ mutex[p][i].esta_libre
                           /\ mutex'[p][i].hilo_asignado = h
                           /\ mutex'[p][i].hilos_bloqueados = mutex[p][i].hilos_bloqueados
                           /\ UNCHANGED <<kEstados, sts>>
                        \/ /\ ~ mutex[p][i].esta_libre
                           /\ mutex'[p][i].hilo_asignado = mutex[p][i].hilo_asignado
                           /\ mutex'[p][i].hilos_bloqueados
                                = Append(mutex[p][i].hilos_bloqueados, h)
                           /\ ExecABlocked
<1> DEFINE h == estado_exec
           p == Pid(h)
<1>1. /\ h \in Hilos /\ p \in Pids
  BY EnExecConProceso DEF MutexLock
<1> PICK r \in Recursos :
        LET i == Buscar(p, r)
            m == mutex[p][i]
        IN  /\ EnCpuConProceso("MUTEX_LOCK")
            /\ IF i = 0 THEN Fallar("mutex_inexistente")
               ELSE /\ IF m.esta_libre
                       THEN /\ mutex' = [mutex EXCEPT ![p] = [@ EXCEPT ![i] =
                                            UnMutex(r, FALSE, h, m.hilos_bloqueados)]]
                            /\ UNCHANGED <<kEstados, sts>>
                       ELSE /\ mutex' = [mutex EXCEPT ![p] = [@ EXCEPT ![i] =
                                            UnMutex(r, FALSE, m.hilo_asignado,
                                                    Append(m.hilos_bloqueados, h))]]
                            /\ ExecABlocked
                    /\ UNCHANGED <<vars, kHilos, kIO, descontando, fallo>>
  BY DEF MutexLock
<1> DEFINE i == Buscar(p, r)
           m == mutex[p][i]
           libre == UnMutex(r, FALSE, h, m.hilos_bloqueados)
           ocupado == UnMutex(r, FALSE, m.hilo_asignado, Append(m.hilos_bloqueados, h))
<1>2. CASE i = 0
  BY <1>2 DEF Fallar
<1>3. CASE i # 0
  <2>1. i \in 1..Len(mutex[p]) /\ m \in Mutexes
    BY <1>1, <1>3, BuscarDe DEF KInv
  <2>2. /\ libre \in Mutexes /\ ocupado \in Mutexes
        /\ libre.esta_libre = FALSE /\ libre.hilo_asignado = h
        /\ libre.hilos_bloqueados = m.hilos_bloqueados
        /\ ocupado.esta_libre = FALSE /\ ocupado.hilo_asignado = m.hilo_asignado
        /\ ocupado.hilos_bloqueados = Append(m.hilos_bloqueados, h)
    <3> DEFINE w == Append(m.hilos_bloqueados, h)
    <3>1. /\ m.hilos_bloqueados \in Seq(Hilos) /\ m.hilo_asignado \in Hilos \cup {Ninguno}
          /\ w \in Seq(Hilos)
      BY <1>1, <2>1, AppendProperties DEF Mutexes
    <3> HIDE DEF m, w
    <3> QED
      BY <1>1, <3>1 DEF UnMutex, Mutexes, w
  <2>3. UNCHANGED <<vars, kHilos, kIO, descontando, fallo>>
    BY <1>3
  <2>4. CASE m.esta_libre
    <3>1. /\ mutex' = [mutex EXCEPT ![p] = [mutex[p] EXCEPT ![i] = libre]]
          /\ UNCHANGED <<kEstados, sts>>
      BY <1>3, <2>4
    <3>2. SoloMutex(p, i) /\ mutex'[p][i] = libre
      <4> HIDE DEF i, p, libre
      <4> QED
        BY <1>1, <2>1, <2>2, <3>1, CambiaMutex DEF KInv
    <3> HIDE DEF libre, i
    <3> QED
      BY <2>1, <2>2, <2>3, <2>4, <3>1, <3>2 DEF libre
  <2>5. CASE ~ m.esta_libre
    <3>1. /\ mutex' = [mutex EXCEPT ![p] = [mutex[p] EXCEPT ![i] = ocupado]]
          /\ ExecABlocked
      BY <1>3, <2>5
    <3>2. SoloMutex(p, i) /\ mutex'[p][i] = ocupado
      <4> HIDE DEF i, p, ocupado
      <4> QED
        BY <1>1, <2>1, <2>2, <3>1, CambiaMutex DEF KInv
    <3> HIDE DEF ocupado, i
    <3> QED
      BY <2>1, <2>2, <2>3, <2>5, <3>1, <3>2, Zenon
  <2> QED
    BY <2>4, <2>5
<1> QED
  BY <1>2, <1>3

(* MUTEX_UNLOCK releases a mutex of the thread, or does nothing. *)
LEMMA EfectoUnlock ==
    ASSUME KInv, MutexUnlock
    PROVE  LET h == estado_exec
               p == Pid(h)
           IN  \/ UNCHANGED <<vars, kEstados, kHilos, kIO, mutex, sts, descontando>>
               \/ \E i \in 1..Len(mutex[p]) :
                     /\ SoloMutex(p, i)
                     /\ mutex[p][i] \in Mutexes
                     /\ mutex[p][i].hilo_asignado = h
                     /\ mutex'[p][i] = Liberar(mutex[p][i])
                     /\ UNCHANGED <<vars, kHilos, kIO, sts, descontando, fallo>>
                     /\ \/ mutex[p][i].hilos_bloqueados = <<>> /\ UNCHANGED kEstados
                        \/ /\ mutex[p][i].hilos_bloqueados # <<>>
                           /\ BlockedAReady(<<Head(mutex[p][i].hilos_bloqueados)>>)
                           /\ UNCHANGED estado_exec
<1> DEFINE h == estado_exec
           p == Pid(h)
<1>1. /\ h \in Hilos /\ p \in Pids
  BY EnExecConProceso DEF MutexUnlock
<1>5. PICK r \in Recursos :
        LET i == Buscar(p, r)
            m == mutex[p][i]
        IN  /\ EnCpuConProceso("MUTEX_UNLOCK")
            /\ IF i = 0 THEN Fallar("mutex_inexistente")
               ELSE IF m.hilo_asignado = Ninguno THEN Fallar("mutex_libre")
               ELSE IF m.hilo_asignado # h THEN UNCHANGED kernelVars
               ELSE /\ mutex' = [mutex EXCEPT ![p] = [@ EXCEPT ![i] = Liberar(m)]]
                    /\ IF m.hilos_bloqueados = <<>>
                       THEN UNCHANGED kEstados
                       ELSE /\ BlockedAReady(<<Head(m.hilos_bloqueados)>>)
                            /\ UNCHANGED estado_exec
                    /\ UNCHANGED <<vars, kHilos, kIO, sts, descontando, fallo>>
  BY DEF MutexUnlock
<1> DEFINE i == Buscar(p, r)
           m == mutex[p][i]
<1>2. CASE i = 0 \/ m.hilo_asignado = Ninguno
  BY <1>2, <1>5 DEF Fallar
<1>3. CASE i # 0 /\ m.hilo_asignado # Ninguno /\ m.hilo_asignado # h
  BY <1>3, <1>5 DEF kernelVars, kvars
<1>4. CASE i # 0 /\ m.hilo_asignado # Ninguno /\ m.hilo_asignado = h
  <2>1. i \in 1..Len(mutex[p]) /\ m \in Mutexes
    BY <1>1, <1>4, BuscarDe DEF KInv
  <2>2. /\ mutex' = [mutex EXCEPT ![p] = [mutex[p] EXCEPT ![i] = Liberar(m)]]
        /\ UNCHANGED <<vars, kHilos, kIO, sts, descontando, fallo>>
        /\ \/ m.hilos_bloqueados = <<>> /\ UNCHANGED kEstados
           \/ /\ m.hilos_bloqueados # <<>>
              /\ BlockedAReady(<<Head(m.hilos_bloqueados)>>) /\ UNCHANGED estado_exec
    BY <1>4, <1>5
  <2>3. SoloMutex(p, i) /\ mutex'[p][i] = Liberar(m)
    <3> DEFINE n == Liberar(m)
    <3>1. n \in Mutexes /\ mutex' = [mutex EXCEPT ![p] = [mutex[p] EXCEPT ![i] = n]]
      BY <2>1, <2>2, LiberarDe
    <3>2. SoloMutex(p, i) /\ mutex'[p][i] = n
      <4>1. KTypeOK /\ i \in 1..Len(mutex[p]) /\ p \in Pids
        BY <1>1, <2>1 DEF KInv
      <4> HIDE DEF i, p, n
      <4> QED
        BY <3>1, <4>1, CambiaMutex, Zenon
    <3> QED
      BY <3>2
  <2> HIDE DEF i
  <2> QED
    BY <1>4, <2>1, <2>2, <2>3, Zenon
<1> QED
  BY <1>2, <1>3, <1>4

(* MUTEX_CREATE adds a free mutex. *)
LEMMA EfectoCreate ==
    ASSUME KInv, MutexCreate
    PROVE  LET p == Pid(estado_exec)
               n == Len(mutex[p])
           IN  /\ p \in Pids /\ p \in admitidos /\ n \in Nat
               /\ \A q \in Pids : q # p => mutex'[q] = mutex[q]
               /\ Len(mutex'[p]) = n + 1
               /\ \A j \in 1..n : mutex'[p][j] = mutex[p][j]
               /\ mutex'[p][n + 1].esta_libre = TRUE
               /\ mutex'[p][n + 1].hilo_asignado = Ninguno
               /\ mutex'[p][n + 1].hilos_bloqueados = <<>>
<1> DEFINE p == Pid(estado_exec)
           n == Len(mutex[p])
<1>1. p \in Pids /\ p \in admitidos
  BY EnExecConProceso DEF MutexCreate
<1> PICK r \in Recursos :
        mutex' = [mutex EXCEPT ![p] = Append(mutex[p], UnMutex(r, TRUE, Ninguno, <<>>))]
  BY DEF MutexCreate
<1> DEFINE m == UnMutex(r, TRUE, Ninguno, <<>>)
<1>2. /\ m \in Mutexes /\ m.esta_libre = TRUE /\ m.hilo_asignado = Ninguno
      /\ m.hilos_bloqueados = <<>>
  <2>1. <<>> \in Seq(Hilos)
    OBVIOUS
  <2> QED
    BY <2>1 DEF UnMutex, Mutexes
<1>3. mutex[p] \in Seq(Mutexes) /\ n \in Nat
  BY <1>1, LenProperties DEF KInv, KTypeOK
<1> HIDE DEF m
<1>4. /\ Len(Append(mutex[p], m)) = n + 1
      /\ \A j \in 1..n : Append(mutex[p], m)[j] = mutex[p][j]
      /\ Append(mutex[p], m)[n + 1] = m
  BY <1>2, <1>3, AppendProperties
<1>5. mutex'[p] = Append(mutex[p], m) /\ \A q \in Pids : q # p => mutex'[q] = mutex[q]
  <2> HIDE DEF p
  <2> QED
    BY <1>1 DEF KInv, KTypeOK, m
<1> QED
  BY <1>1, <1>2, <1>3, <1>4, <1>5

(* THREAD_EXIT releases the mutexes of the thread. *)
LEMMA EfectoExit ==
    ASSUME KInv, ThreadExit
    PROVE  LET h == estado_exec
               p == Pid(h)
           IN  /\ \A q \in Pids : q # p => mutex'[q] = mutex[q]
               /\ Len(mutex'[p]) = Len(mutex[p])
               /\ \A i \in 1..Len(mutex[p]) :
                     /\ mutex[p][i] \in Mutexes
                     /\ mutex'[p][i] = IF mutex[p][i].hilo_asignado = h
                                       THEN Liberar(mutex[p][i]) ELSE mutex[p][i]
<1> DEFINE h == estado_exec
           p == Pid(h)
           ms == [i \in 1..Len(mutex[p]) |->
                      IF mutex[p][i].hilo_asignado = h THEN Liberar(mutex[p][i]) ELSE mutex[p][i]]
<1>1. p \in Pids /\ mutex' = [mutex EXCEPT ![p] = ms]
  BY EnExecConProceso DEF ThreadExit
<1>2. mutex'[p] = ms /\ \A q \in Pids : q # p => mutex'[q] = mutex[q]
  <2> HIDE DEF p, ms
  <2> QED
    BY <1>1 DEF KInv, KTypeOK
<1>3. /\ Len(mutex[p]) \in Nat
      /\ \A i \in 1..Len(mutex[p]) : mutex[p][i] \in Mutexes
  <2>1. mutex[p] \in Seq(Mutexes)
    BY <1>1 DEF KInv, KTypeOK
  <2> QED
    BY <2>1, LenProperties, ElementOfSeq
<1>4. DOMAIN ms = 1..Len(mutex[p]) /\ Len(ms) = Len(mutex[p])
  BY <1>3
<1>5. \A i \in 1..Len(mutex[p]) :
         ms[i] = IF mutex[p][i].hilo_asignado = h THEN Liberar(mutex[p][i]) ELSE mutex[p][i]
  OBVIOUS
<1> HIDE DEF ms
<1> QED
  BY <1>2, <1>3, <1>4, <1>5

-----------------------------------------------------------------------------
(* The threads that the kernel names. *)

(* The thread that begins in a step: nothing names it yet.                 *)
LEMMA HiloNuevo ==
    ASSUME KInv, IniciarPrincipal \/ ThreadCreate
    PROVE  \E h \in Hilos :
              /\ vivos' = vivos \cup {h} /\ h \notin vivos
              /\ ~ Nombrado(h) /\ esperan[h] = <<>>
              /\ ThreadCreate =>
                    /\ estado_ready' = Append(estado_ready, h)
                    /\ ultimo_tid'[Pid(h)] = h[2]
                    /\ Arrancado(h)'
<1>1. CASE IniciarPrincipal
  <2> DEFINE p == proceso_a_inicializar
             h == <<p, 0>>
  <2>1. /\ p \in Pids /\ p \in lista_procesos /\ p \notin admitidos \cup finalizando /\ lp = "hilo"
        /\ vivos' = vivos \cup {h}
    BY <1>1, EnCamino DEF IniciarPrincipal, IniciarHiloPrincipal, Planificador, KInv
  <2>2. 0 \in Tids
    BY MaxTidAssumption DEF Tids
  <2>3. h \in Hilos /\ Pid(h) = p /\ h[2] = 0
    BY <2>1, <2>2, NingunHilo
  <2>4. ~ Arrancado(h)
    BY <2>1, <2>3 DEF Arrancado
  <2>5. tids[p] = <<>>
    BY <2>1 DEF KInv, Hilado
  <2>6. ToSet(tids[p]) = {}
    <3>1. tids[p] \in Seq(Tids)
      BY <2>1 DEF KInv, KTypeOK
    <3> QED
      BY <2>5, <3>1, Miembros
  <2>7. h \notin vivos
    BY <2>3, <2>6 DEF KInv, Hilado
  <2>8. ~ ThreadCreate
    <3>1. lp' = "sacar"
      BY <1>1 DEF IniciarPrincipal, IniciarHiloPrincipal, Planificador
    <3>2. ThreadCreate => lp' = lp
      BY DEF ThreadCreate, vars, varsPlanificador
    <3> QED
      BY <2>1, <3>1, <3>2
  <2> HIDE DEF h
  <2> QED
    BY <2>1, <2>3, <2>4, <2>7, <2>8 DEF KInv, Nombres, Uniones
<1>2. CASE ThreadCreate
  <2> DEFINE p == Pid(estado_exec)
             t == ultimo_tid[p] + 1
             h == <<p, t>>
  <2>1. /\ p \in Pids /\ ultimo_tid[p] < MaxTid /\ p \in admitidos
        /\ ultimo_tid' = [ultimo_tid EXCEPT ![p] = t]
        /\ vivos' = vivos \cup {h} /\ UNCHANGED vars
        /\ estado_ready' = Append(estado_ready, h)
    BY <1>2, EnExecConProceso DEF ThreadCreate
  <2>2. ultimo_tid[p] \in Nat /\ t \in Tids
    <3>1. ultimo_tid[p] \in Nat
      BY <2>1, MaxTidAssumption DEF KInv, KTypeOK, Tids
    <3> QED
      BY <2>1, <3>1, MaxTidAssumption DEF Tids
  <2>3. h \in Hilos /\ Pid(h) = p /\ h[2] = t
    BY <2>1, <2>2, NingunHilo
  <2> HIDE DEF h
  <2>4. PICK x \in Hilos : x = h /\ Pid(x) = p /\ x[2] = t
    BY <2>3
  <2>5. ~ Arrancado(x)
    BY <2>2, <2>4 DEF Arrancado
  <2>6. x \notin vivos
    <3>1. \A y \in ToSet(tids[p]) : y <= ultimo_tid[p]
      BY <2>1 DEF KInv, Hilado
    <3>2. t \notin ToSet(tids[p])
      BY <2>2, <3>1
    <3> HIDE DEF p, t
    <3> QED
      BY <2>4, <3>2 DEF KInv, Hilado
  <2>7. ultimo_tid'[p] = t
    BY <2>1 DEF KInv, KTypeOK
  <2>8. Arrancado(x)'
    <3>1. p <= ULTIMO_PID
      BY <2>1 DEF KInv, Invariante, PidsCreados, EnUso
    <3>2. ULTIMO_PID' = ULTIMO_PID /\ admitidos' = admitidos
      BY <2>1 DEF vars, varsCreacion
    <3>3. t <= t
      BY <2>2
    <3> HIDE DEF p, t
    <3> QED
      BY <2>1, <2>4, <2>7, <3>1, <3>2, <3>3 DEF Arrancado
  <2> HIDE DEF p, t
  <2>9. vivos' = vivos \cup {x} /\ estado_ready' = Append(estado_ready, x)
    BY <2>1, <2>4
  <2>10. ~ Nombrado(x) /\ esperan[x] = <<>>
    BY <2>5, <2>6 DEF KInv, Nombres, Uniones
  <2> QED
    BY <2>4, <2>6, <2>7, <2>8, <2>9, <2>10
<1> QED
  BY <1>1, <1>2

(* A thread in use after a step was in use before, or begins in it. *)
LEMMA ActivoAntes ==
    ASSUME KInv, [KNext]_kernelVars, NEW h \in Hilos, Activo(h)'
    PROVE  \/ Activo(h)
           \/ (IniciarPrincipal \/ ThreadCreate) /\ h \notin vivos
<1>1. h \in vivos' /\ Pid(h) \notin finalizando'
  BY DEF Activo
<1>2. CASE IniciarPrincipal
  BY <1>1, <1>2 DEF IniciarPrincipal, IniciarHiloPrincipal, Planificador, Activo
<1>3. CASE ThreadCreate
  BY <1>1, <1>3 DEF ThreadCreate, vars, Activo
<1>4. ASSUME vivos' \subseteq vivos, finalizando \subseteq finalizando'
      PROVE  Activo(h)
  BY <1>1, <1>4 DEF Activo
<1>5. CASE \/ LargoPlazoSolo \/ AgregarPrincipal \/ AvisarPrincipal \/ ProcessCreate
           \/ ProcessCreateSigue
  BY <1>4, <1>5 DEF LargoPlazoSolo, AgregarPrincipal, AvisarPrincipal, ProcessCreate,
     ProcessCreateSigue, kvars, kHilos, Planificador, EsperarMemoria, EsperarNew,
     ObtenerProceso, PedirInicializacionProceso, ReponerNew, LiberarMemoriaSuficiente,
     SacarDeNew, AgregarAReady, AvisarReady, CrearProceso, AgregarANew, AvisarNew
<1>6. CASE \/ Planificar \/ Desalojar \/ UsarHiloDestruido \/ TomarIO \/ TerminarIO
           \/ IO \/ DumpMemory \/ ThreadJoin \/ MutexCreate \/ MutexLock \/ MutexUnlock
           \/ UNCHANGED kernelVars
  <2>1. UNCHANGED <<vars, vivos>>
    BY <1>6 DEF Planificar, Desalojar, UsarHiloDestruido, TomarIO, TerminarIO, IO,
       DumpMemory, ThreadJoin, MutexCreate, MutexLock, MutexUnlock, Fallar, kHilos, kvars,
       kernelVars
  <2> QED
    BY <1>4, <2>1 DEF vars
<1>7. CASE ThreadExit
  BY <1>4, <1>7 DEF ThreadExit, vars
<1>8. CASE ProcessExit \/ \E x \in Hilos : DumpConfirmado(x) \/ SacarPCB(x) \/ Tramite(x)
  <2>1. UNCHANGED vivos
    BY <1>8, TramiteDe DEF ProcessExit, DumpConfirmado, SacarPCB, kHilos
  <2>2. finalizando \subseteq finalizando'
    BY <1>8, TramiteDe DEF ProcessExit, DumpConfirmado, SacarPCB, BuscarProceso,
       SacarProceso, vars
  <2> QED
    BY <1>4, <2>1, <2>2
<1>9. ASSUME NEW p \in Pids, PasoFinalizacion(p)
      PROVE  Activo(h)
  <2>1. CASE FinalizarHilo(p) \/ DescontarReady(p)
    BY <1>4, <2>1 DEF FinalizarHilo, DescontarReady, Destruir, vars
  <2>2. CASE TerminarFinalizacion(p)
    <3>1. vivos' = vivos /\ finalizando' = finalizando \ {p} /\ tids[p] = <<>>
      BY <2>2 DEF TerminarFinalizacion, AvisarMemoria, kHilos
    <3>2. ToSet(tids[p]) = {}
      BY <3>1, Miembros DEF KInv, KTypeOK
    <3>3. Pid(h) # p
      BY <1>1, <3>1, <3>2 DEF KInv, Hilado
    <3> QED
      BY <1>1, <3>1, <3>3 DEF Activo
  <2> QED
    BY <1>9, <2>1, <2>2 DEF PasoFinalizacion
<1> QED
  BY <1>2, <1>3, <1>5, <1>6, <1>7, <1>8, <1>9 DEF KNext, Syscall, PasoLargoPlazo, PasoBaja,
     Tramite

(* Who waits for which mutex after a step that changes one.                *)
LEMMA EsperaSolo ==
    ASSUME KTypeOK, KTypeOK', NEW p \in Pids, NEW i \in 1..Len(mutex[p]), SoloMutex(p, i),
           NEW h \in Hilos, NEW j
    PROVE  EsperaMutex(h, j)' <=>
              IF Pid(h) = p /\ j = i THEN h \in ToSet(mutex'[p][i].hilos_bloqueados)
              ELSE EsperaMutex(h, j)
<1>1. Pid(h) \in Pids
  BY NingunHilo
<1>2. \A q \in Pids : DOMAIN mutex[q] = 1..Len(mutex[q]) /\ DOMAIN mutex'[q] = 1..Len(mutex'[q])
  <2>1. \A q \in Pids : mutex[q] \in Seq(Mutexes) /\ mutex'[q] \in Seq(Mutexes)
    BY DEF KTypeOK
  <2> QED
    BY <2>1, LenProperties
<1>3. EsperaMutex(h, j)' <=>
         j \in DOMAIN mutex'[Pid(h)] /\ h \in ToSet(mutex'[Pid(h)][j].hilos_bloqueados)
  BY DEF EsperaMutex
<1> QED
  BY <1>1, <1>2, <1>3 DEF SoloMutex, EsperaMutex

(* The queues of the mutexes that THREAD_EXIT releases lose their first.   *)
LEMMA EsperaExit ==
    ASSUME KInv, KTypeOK', ThreadExit, NEW h \in Hilos, NEW j
    PROVE  /\ EsperaMutex(h, j)' => EsperaMutex(h, j)
           /\ EsperaMutex(h, j) =>
                 \/ EsperaMutex(h, j)'
                 \/ /\ Pid(h) = Pid(estado_exec) /\ j \in 1..Len(mutex[Pid(h)])
                    /\ mutex[Pid(h)][j].hilo_asignado = estado_exec
                    /\ mutex[Pid(h)][j].hilos_bloqueados # <<>>
                    /\ h = Head(mutex[Pid(h)][j].hilos_bloqueados)
<1> DEFINE p == Pid(estado_exec)
<1>1. Pid(h) \in Pids
  BY NingunHilo
<1>2. \A q \in Pids : DOMAIN mutex[q] = 1..Len(mutex[q]) /\ DOMAIN mutex'[q] = 1..Len(mutex'[q])
  <2>1. \A q \in Pids : mutex[q] \in Seq(Mutexes) /\ mutex'[q] \in Seq(Mutexes)
    BY DEF KInv, KTypeOK
  <2> QED
    BY <2>1, LenProperties
<1>3. /\ EsperaMutex(h, j)' <=>
           j \in DOMAIN mutex'[Pid(h)] /\ h \in ToSet(mutex'[Pid(h)][j].hilos_bloqueados)
      /\ EsperaMutex(h, j) <=>
           j \in DOMAIN mutex[Pid(h)] /\ h \in ToSet(mutex[Pid(h)][j].hilos_bloqueados)
  BY DEF EsperaMutex
<1>4. /\ \A q \in Pids : q # p => mutex'[q] = mutex[q]
      /\ Len(mutex'[p]) = Len(mutex[p])
      /\ \A k \in 1..Len(mutex[p]) :
            /\ mutex[p][k] \in Mutexes
            /\ mutex'[p][k] = IF mutex[p][k].hilo_asignado = estado_exec
                              THEN Liberar(mutex[p][k]) ELSE mutex[p][k]
  BY EfectoExit
<1>5. CASE Pid(h) # p \/ j \notin 1..Len(mutex[p])
  BY <1>1, <1>2, <1>3, <1>4, <1>5
<1>6. CASE Pid(h) = p /\ j \in 1..Len(mutex[p]) /\ mutex[p][j].hilo_asignado # estado_exec
  BY <1>1, <1>2, <1>3, <1>4, <1>6
<1>7. CASE Pid(h) = p /\ j \in 1..Len(mutex[p]) /\ mutex[p][j].hilo_asignado = estado_exec
  <2> DEFINE m == mutex[p][j]
             q == m.hilos_bloqueados
  <2>1. m \in Mutexes /\ mutex'[p][j] = Liberar(m)
    BY <1>4, <1>7
  <2>2. q \in Seq(Hilos)
    BY <2>1 DEF Mutexes
  <2>3. CASE q = <<>>
    <3>1. ToSet(q) = {}
      BY <2>2, <2>3, Miembros
    <3>2. mutex'[p][j].hilos_bloqueados = q
      BY <2>1, <2>3, LiberarDe
    <3> QED
      BY <1>3, <1>7, <3>1, <3>2
  <2>4. CASE q # <<>>
    <3>1. mutex'[p][j].hilos_bloqueados = Tail(q)
      BY <2>1, <2>4, LiberarDe
    <3>2. ToSet(q) = {Head(q)} \cup ToSet(Tail(q))
      BY <2>2, <2>4, QuitarPrimero
    <3> QED
      BY <1>1, <1>2, <1>3, <1>4, <1>7, <2>4, <3>1, <3>2
  <2> QED
    BY <2>3, <2>4
<1> QED
  BY <1>5, <1>6, <1>7

(* Whom THREAD_EXIT wakes: those that joined the thread and one waiter of  *)
(* each of its mutexes.                                                    *)
LEMMA DespiertosExit ==
    ASSUME KInv, ThreadExit
    PROVE  LET h == estado_exec
               hs == Herederos(mutex[Pid(h)], h) \o esperan[h]
           IN  /\ hs \in Seq(Hilos) /\ BlockedAReady(hs)
               /\ SinRepetir(hs)
               /\ ToSet(hs) = ToSet(Herederos(mutex[Pid(h)], h)) \cup ToSet(esperan[h])
               /\ \A x \in ToSet(esperan[h]) : EnJoin(x)
               /\ \A x \in ToSet(Herederos(mutex[Pid(h)], h)) : EnMutex(x) /\ Activo(x)
               /\ \A x \in ToSet(esperan[h]) : Pid(x) = Pid(h)
               /\ \A x \in Hilos : \A i \in 1..Len(mutex[Pid(x)]) :
                     /\ Pid(x) = Pid(h)
                     /\ mutex[Pid(x)][i].hilo_asignado = h
                     /\ mutex[Pid(x)][i].hilos_bloqueados # <<>>
                     /\ x = Head(mutex[Pid(x)][i].hilos_bloqueados)
                     => x \in ToSet(Herederos(mutex[Pid(h)], h))
<1> DEFINE h == estado_exec
           p == Pid(h)
           ms == mutex[p]
           her == Herederos(ms, h)
           I == {i \in 1..Len(ms) : ms[i].hilo_asignado = h /\ ms[i].hilos_bloqueados # <<>>}
<1>1. h \in vivos /\ h \in Hilos /\ p \in Pids /\ p \in admitidos /\ BlockedAReady(her \o esperan[h])
      /\ p \notin finalizando
  BY EnExecConProceso DEF ThreadExit
<1>2. ms \in Seq(Mutexes) /\ DOMAIN ms = 1..Len(ms) /\ \A i \in 1..Len(ms) : ms[i] \in Mutexes
  <2>1. ms \in Seq(Mutexes)
    BY <1>1 DEF KInv, KTypeOK
  <2> QED
    BY <2>1, LenProperties, ElementOfSeq
<1>3. esperan[h] \in Seq(Hilos) /\ SinRepetir(esperan[h])
      /\ \A x \in ToSet(esperan[h]) : Pid(x) = p
  BY <1>1 DEF KInv, KTypeOK, Uniones
<1>4. /\ her \in Seq(Hilos)
      /\ ToSet(her) = {Head(ms[i].hilos_bloqueados) : i \in I}
      /\ (\A i, j \in I : Head(ms[i].hilos_bloqueados) = Head(ms[j].hilos_bloqueados) => i = j)
            => SinRepetir(her)
  <2> HIDE DEF ms, h
  <2> QED
    BY <1>2, HerederosDe
<1>5. ASSUME NEW i \in I
      PROVE  LET x == Head(ms[i].hilos_bloqueados)
             IN  x \in Hilos /\ Pid(x) = p /\ EsperaMutex(x, i) /\ Activo(x)
  <2> DEFINE q == ms[i].hilos_bloqueados
             x == Head(q)
  <2>1. q \in Seq(Hilos) /\ q # <<>>
    BY <1>2 DEF Mutexes
  <2>2. x \in Hilos /\ x \in ToSet(q)
    BY <2>1, Cola, Miembros
  <2>3. Pid(x) = p /\ x \in vivos
    BY <1>1, <1>2, <2>2 DEF KInv, MutexSanos, MutexSano
  <2> QED
    BY <1>1, <1>2, <2>2, <2>3 DEF EsperaMutex, Activo
<1>6. SinRepetir(her)
  <2>1. ASSUME NEW i \in I, NEW j \in I,
               Head(ms[i].hilos_bloqueados) = Head(ms[j].hilos_bloqueados)
        PROVE  i = j
    <3> PICK x \in Hilos : x = Head(ms[i].hilos_bloqueados)
      BY <1>5
    <3>1. EsperaMutex(x, i) /\ EsperaMutex(x, j) /\ Activo(x)
      BY <1>5, <2>1
    <3> QED
      BY <3>1 DEF KInv, Estados, Espera, EsperaMutex
  <2> QED
    BY <1>4, <2>1
<1>7. \A x \in ToSet(esperan[h]) : EnJoin(x)
  BY <1>1 DEF EnJoin
<1>8. \A x \in ToSet(her) : x \in Hilos /\ EnMutex(x) /\ Activo(x)
  <2> HIDE DEF ms, her, I
  <2>1. ASSUME NEW x \in ToSet(her)
        PROVE  x \in Hilos /\ EnMutex(x) /\ Activo(x)
    <3>1. PICK i \in I : x = Head(ms[i].hilos_bloqueados)
      BY <1>4
    <3>2. x \in Hilos /\ EsperaMutex(x, i) /\ Activo(x)
      BY <1>5, <3>1
    <3> QED
      BY <3>2 DEF EnMutex, EsperaMutex
  <2> QED
    BY <2>1
<1>9. ToSet(her) \cap ToSet(esperan[h]) = {}
  BY <1>7, <1>8, Atado
<1>10. /\ her \o esperan[h] \in Seq(Hilos) /\ SinRepetir(her \o esperan[h])
       /\ ToSet(her \o esperan[h]) = ToSet(her) \cup ToSet(esperan[h])
  <2> DEFINE a == her
             b == esperan[h]
  <2>1. /\ a \in Seq(Hilos) /\ b \in Seq(Hilos) /\ SinRepetir(a) /\ SinRepetir(b)
        /\ ToSet(a) \cap ToSet(b) = {}
    BY <1>3, <1>4, <1>6, <1>9
  <2> HIDE DEF a, b
  <2>2. /\ a \o b \in Seq(Hilos) /\ SinRepetir(a \o b)
        /\ ToSet(a \o b) = ToSet(a) \cup ToSet(b)
    BY <2>1, Concatenar
  <2> QED
    BY <2>2 DEF a, b
<1>11. ASSUME NEW x \in Hilos, NEW i \in 1..Len(mutex[Pid(x)]), Pid(x) = p,
              mutex[Pid(x)][i].hilo_asignado = h,
              mutex[Pid(x)][i].hilos_bloqueados # <<>>,
              x = Head(mutex[Pid(x)][i].hilos_bloqueados)
       PROVE  x \in ToSet(her)
  BY <1>4, <1>11
<1> HIDE DEF her
<1> QED
  BY <1>1, <1>3, <1>7, <1>8, <1>10, <1>11 DEF her

(* Every thread that the kernel names was READY once. *)
LEMMA NombresPaso ==
    ASSUME KInv, KTypeOK', [KNext]_kernelVars
    PROVE  Nombres'
<1> DEFINE T == {h \in Hilos : Nombrado(h) \/ Arrancado(h)'}
<1>1. /\ ToSet(estado_ready) \subseteq T /\ estado_blocked \subseteq T
      /\ estado_exec \in T \cup {Ninguno} /\ ToSet(cola_io) \subseteq T
      /\ io_actual \in T \cup {Ninguno} /\ volcados \subseteq T
      /\ \A k \in Hilos : ToSet(esperan[k]) \subseteq T
      /\ \A h \in Hilos : EnMutex(h) => h \in T
  <2>1. /\ ToSet(estado_ready) \subseteq Hilos /\ ToSet(cola_io) \subseteq Hilos
        /\ \A k \in Hilos : ToSet(esperan[k]) \subseteq Hilos
    BY Miembros DEF KInv, KTypeOK
  <2> QED
    BY <2>1 DEF Nombrado, KInv, KTypeOK
<1>2. \A h \in T : Arrancado(h)'
  BY SigueArrancado DEF KInv, Nombres
<1>3. T \subseteq Hilos
  OBVIOUS
<1> HIDE DEF T
<1>4. ASSUME ToSet(estado_ready') \subseteq T, estado_blocked' \subseteq T,
             estado_exec' \in T \cup {Ninguno}, ToSet(cola_io') \subseteq T,
             io_actual' \in T \cup {Ninguno}, volcados' \subseteq T,
             \A k \in Hilos : ToSet(esperan'[k]) \subseteq T,
             \A h \in Hilos : EnMutex(h)' => h \in T
      PROVE  Nombres'
  <2>1. ASSUME NEW h \in Hilos, Nombrado(h)' PROVE Arrancado(h)'
    <3>1. h \in T
      BY <1>4, <2>1, NingunHilo DEF Nombrado
    <3> QED
      BY <1>2, <3>1
  <2> QED
    BY <2>1 DEF Nombres
<1>5. ASSUME UNCHANGED mutex PROVE \A h \in Hilos : EnMutex(h)' => h \in T
  <2>1. \A h \in Hilos : EnMutex(h)' <=> EnMutex(h)
    BY <1>5 DEF EnMutex, EsperaMutex
  <2> QED
    BY <1>1, <2>1
<1>6. ASSUME UNCHANGED <<kEstados, kIO, esperan, mutex>> PROVE Nombres'
  BY <1>1, <1>4, <1>5, <1>6 DEF kEstados, kIO
<1>7. CASE \/ LargoPlazoSolo \/ IniciarPrincipal \/ ProcessCreate \/ ProcessCreateSigue
           \/ UsarHiloDestruido \/ ProcessExit \/ UNCHANGED kernelVars
  BY <1>6, <1>7 DEF LargoPlazoSolo, IniciarPrincipal, ProcessCreate, ProcessCreateSigue,
     UsarHiloDestruido, ProcessExit, Fallar, kHilos, kvars, kernelVars
<1>8. CASE AvisarPrincipal
  BY <1>1, <1>4, <1>5, <1>8 DEF AvisarPrincipal, kHilos, kIO
<1>9. ASSUME NEW e \in T, estado_ready' = Append(estado_ready, e)
      PROVE  ToSet(estado_ready') \subseteq T
  BY <1>1, <1>3, <1>9, Agregar DEF KInv, KTypeOK
<1>10. ASSUME NEW hs \in Seq(Hilos), BlockedAReady(hs), ToSet(hs) \subseteq T
       PROVE  ToSet(estado_ready') \subseteq T /\ estado_blocked' \subseteq T
  BY <1>1, <1>10, TiposBlockedAReady DEF KInv
<1>11. CASE AgregarPrincipal
  <2> DEFINE p == proceso_a_inicializar
  <2>1. /\ p \in Pids /\ p \in lista_procesos
        /\ admitidos' = admitidos \cup {p} /\ UNCHANGED <<ULTIMO_PID, ultimo_tid>>
        /\ estado_ready' = Append(estado_ready, <<p, 0>>)
        /\ UNCHANGED <<estado_exec, estado_blocked, kHilos, kIO, mutex>>
        /\ p <= ULTIMO_PID
    <3>1. AgregarAReady /\ lp = "agregar"
      BY <1>11 DEF AgregarPrincipal, AgregarAReady, Planificador
    <3>2. p \in Pids /\ p \in lista_procesos /\ p <= ULTIMO_PID
      BY <3>1, EnCamino DEF KInv, Invariante, PidsCreados, EnTramite, EnUso
    <3> QED
      BY <1>11, <3>1, <3>2
         DEF AgregarPrincipal, AgregarAReady, Planificador, varsCreacion, kHilos
  <2>2. 0 \in Tids /\ ultimo_tid[p] \in Nat
    BY <2>1, MaxTidAssumption DEF KInv, KTypeOK, Tids
  <2>3. PICK x \in Hilos : x = <<p, 0>> /\ Pid(x) = p /\ x[2] = 0
    BY <2>1, <2>2, NingunHilo
  <2>4. Arrancado(x)'
    <3>1. 0 <= ultimo_tid[p]
      BY <2>2
    <3> HIDE DEF p
    <3> QED
      BY <2>1, <2>3, <3>1 DEF Arrancado
  <2>5. x \in T
    BY <2>4 DEF T
  <2> QED
    BY <1>1, <1>4, <1>5, <1>9, <2>1, <2>3, <2>5 DEF kHilos, kIO
<1>12. CASE ThreadCreate
  <2>1. PICK x \in Hilos : estado_ready' = Append(estado_ready, x) /\ Arrancado(x)'
    BY <1>12, HiloNuevo
  <2>2. x \in T
    BY <2>1 DEF T
  <2>3. UNCHANGED <<estado_exec, estado_blocked, esperan, kIO, mutex>>
    BY <1>12 DEF ThreadCreate
  <2> QED
    BY <1>1, <1>4, <1>5, <1>9, <2>1, <2>2, <2>3 DEF kIO
<1>13. CASE Planificar
  <2>1. CASE UNCHANGED <<kEstados, kIO, esperan, mutex>>
    BY <1>6, <2>1
  <2>2. CASE estado_ready # <<>> /\ Siguiente \in vivos
    <3>1. /\ estado_exec' = Siguiente /\ estado_ready' = RemoveFirst(estado_ready, Siguiente)
          /\ UNCHANGED <<estado_blocked, kHilos, kIO, mutex>>
      BY <1>13, <2>2 DEF Planificar
    <3>2. Siguiente \in T
      BY <1>1, <2>2, SiguienteEnReady DEF KInv
    <3>3. ToSet(estado_ready') \subseteq T
      <4>1. estado_ready \in Seq(Hilos)
        BY DEF KInv, KTypeOK
      <4>2. ToSet(estado_ready') \subseteq ToSet(estado_ready)
        BY <3>1, <4>1, QuitarElemento
      <4> QED
        BY <1>1, <4>2
    <3> QED
      BY <1>1, <1>4, <1>5, <3>1, <3>2, <3>3 DEF kHilos, kIO
  <2> QED
    BY <1>13, <2>1, <2>2 DEF Planificar, Fallar, kHilos
<1>14. ASSUME estado_exec \in vivos PROVE estado_exec \in T
  <2>1. estado_exec # Ninguno
    BY <1>14, NingunHilo DEF KInv, KTypeOK
  <2> QED
    BY <1>1, <2>1
<1>15. CASE Desalojar
  BY <1>1, <1>4, <1>5, <1>9, <1>14, <1>15 DEF Desalojar, kHilos, kIO
<1>16. CASE IO
  <2>1. /\ estado_exec \in vivos /\ ExecABlocked /\ cola_io' = Append(cola_io, estado_exec)
        /\ UNCHANGED <<kHilos, io_actual, volcados, mutex>>
    BY <1>16 DEF IO, EnCpu
  <2>2. estado_exec \in T /\ estado_exec \in Hilos
    BY <1>3, <1>14, <2>1
  <2>3. ToSet(cola_io') \subseteq T
    <3>1. cola_io \in Seq(Hilos)
      BY DEF KInv, KTypeOK
    <3> QED
      BY <1>1, <2>1, <2>2, <3>1, Agregar
  <2> QED
    BY <1>1, <1>4, <1>5, <2>1, <2>2, <2>3 DEF ExecABlocked, kHilos
<1>17. CASE DumpMemory
  BY <1>1, <1>4, <1>5, <1>14, <1>17 DEF DumpMemory, EnCpu, ExecABlocked, kHilos
<1>18. CASE ThreadJoin
  <2>1. /\ estado_exec \in vivos /\ UNCHANGED <<kIO, mutex>>
        /\ \/ UNCHANGED <<esperan, kEstados>>
           \/ /\ ExecABlocked
              /\ \E t \in Tids : esperan' = [esperan EXCEPT ![<<Pid(estado_exec), t>>] = Append(@, estado_exec)]
    BY <1>18 DEF ThreadJoin, EnCpuConProceso, EnCpu
  <2>2. estado_exec \in T /\ estado_exec \in Hilos /\ Pid(estado_exec) \in Pids
    BY <1>3, <1>14, <2>1, NingunHilo
  <2>3. CASE UNCHANGED <<esperan, kEstados>>
    BY <1>6, <2>1, <2>3
  <2>4. CASE ExecABlocked /\ UNCHANGED <<kIO, mutex>>
             /\ \E t \in Tids : esperan' = [esperan EXCEPT ![<<Pid(estado_exec), t>>] = Append(@, estado_exec)]
    <3>1. PICK t \in Tids : esperan' = [esperan EXCEPT ![<<Pid(estado_exec), t>>] = Append(@, estado_exec)]
      BY <2>4
    <3> DEFINE k == <<Pid(estado_exec), t>>
    <3>2. k \in Hilos /\ esperan[k] \in Seq(Hilos) /\ esperan \in [Hilos -> Seq(Hilos)]
      BY <2>2, NingunHilo DEF KInv, KTypeOK
    <3> HIDE DEF k
    <3>3. \A l \in Hilos : esperan'[l] = IF l = k THEN Append(esperan[k], estado_exec) ELSE esperan[l]
      BY <3>1, <3>2 DEF k
    <3>4. ToSet(Append(esperan[k], estado_exec)) = ToSet(esperan[k]) \cup {estado_exec}
      BY <2>2, <3>2, Agregar
    <3>5. \A l \in Hilos : ToSet(esperan'[l]) \subseteq T
      BY <1>1, <2>2, <3>2, <3>3, <3>4
    <3> QED
      BY <1>1, <1>4, <1>5, <2>2, <2>4, <3>5 DEF ExecABlocked, kIO
  <2> QED
    BY <2>1, <2>3, <2>4
<1>19. ASSUME NEW p \in Pids, NEW i \in 1..Len(mutex[p]), SoloMutex(p, i),
              ToSet(mutex'[p][i].hilos_bloqueados) \subseteq T
       PROVE  \A h \in Hilos : EnMutex(h)' => h \in T
  <2> SUFFICES ASSUME NEW h \in Hilos, EnMutex(h)' PROVE h \in T
    OBVIOUS
  <2>1. PICK j : EsperaMutex(h, j)'
    BY DEF EnMutex
  <2>2. h \in ToSet(mutex'[p][i].hilos_bloqueados) \/ EsperaMutex(h, j)
    BY <1>19, <2>1, EsperaSolo DEF KInv
  <2>3. EsperaMutex(h, j) => EnMutex(h)
    BY DEF EnMutex, EsperaMutex
  <2> QED
    BY <1>1, <1>19, <2>2, <2>3
<1>20. ASSUME NEW p \in Pids, NEW i \in 1..Len(mutex[p])
       PROVE  /\ mutex[p][i] \in Mutexes /\ mutex[p][i].hilos_bloqueados \in Seq(Hilos)
              /\ ToSet(mutex[p][i].hilos_bloqueados) \subseteq Hilos
              /\ \A h \in ToSet(mutex[p][i].hilos_bloqueados) : Pid(h) = p => h \in T
  <2>1. mutex[p] \in Seq(Mutexes) /\ DOMAIN mutex[p] = 1..Len(mutex[p])
    BY LenProperties DEF KInv, KTypeOK
  <2>2. mutex[p][i] \in Mutexes
    BY <2>1, ElementOfSeq
  <2>3. mutex[p][i].hilos_bloqueados \in Seq(Hilos)
    BY <2>2 DEF Mutexes
  <2>4. ToSet(mutex[p][i].hilos_bloqueados) \subseteq Hilos
    BY <2>3, Miembros
  <2> QED
    BY <1>1, <2>1, <2>2, <2>3, <2>4 DEF EnMutex, EsperaMutex
<1>21. CASE MutexCreate
  <2> DEFINE p == Pid(estado_exec)
             n == Len(mutex[p])
  <2>1. /\ p \in Pids /\ n \in Nat
        /\ \A q \in Pids : q # p => mutex'[q] = mutex[q]
        /\ Len(mutex'[p]) = n + 1
        /\ \A j \in 1..n : mutex'[p][j] = mutex[p][j]
        /\ mutex'[p][n + 1].hilos_bloqueados = <<>>
    BY <1>21, EfectoCreate
  <2>2. \A q \in Pids : DOMAIN mutex[q] = 1..Len(mutex[q]) /\ DOMAIN mutex'[q] = 1..Len(mutex'[q])
    <3>1. \A q \in Pids : mutex[q] \in Seq(Mutexes) /\ mutex'[q] \in Seq(Mutexes)
      BY DEF KInv, KTypeOK
    <3> QED
      BY <3>1, LenProperties
  <2>3. ToSet(mutex'[p][n + 1].hilos_bloqueados) = {}
    <3>1. <<>> \in Seq(Hilos)
      OBVIOUS
    <3>2. ToSet(<<>>) = {}
      BY <3>1, Miembros
    <3> QED
      BY <2>1, <3>2
  <2> HIDE DEF p, n
  <2>4. \A h \in Hilos : EnMutex(h)' => EnMutex(h)
    <3> SUFFICES ASSUME NEW h \in Hilos, EnMutex(h)' PROVE EnMutex(h)
      OBVIOUS
    <3>1. PICK j : j \in DOMAIN mutex'[Pid(h)] /\ h \in ToSet(mutex'[Pid(h)][j].hilos_bloqueados)
      BY DEF EnMutex, EsperaMutex
    <3>2. Pid(h) \in Pids
      BY NingunHilo
    <3>3. j \in DOMAIN mutex[Pid(h)] /\ mutex'[Pid(h)][j] = mutex[Pid(h)][j]
      <4>1. CASE Pid(h) # p
        BY <2>1, <3>1, <3>2, <4>1
      <4>2. CASE Pid(h) = p
        <5>1. j \in 1..n + 1 /\ j # n + 1
          BY <2>1, <2>2, <2>3, <3>1, <4>2
        <5>2. j \in 1..n
          BY <2>1, <5>1
        <5> QED
          BY <2>1, <2>2, <4>2, <5>2 DEF n
      <4> QED
        BY <4>1, <4>2
    <3> QED
      BY <3>1, <3>3 DEF EnMutex, EsperaMutex
  <2> QED
    BY <1>1, <1>4, <1>21, <2>4 DEF MutexCreate, kEstados, kHilos, kIO
<1>22. CASE MutexLock
  <2> DEFINE p == Pid(estado_exec)
  <2>1. estado_exec \in T /\ estado_exec \in Hilos /\ p \in Pids
    BY <1>3, <1>14, <1>22, EnExecConProceso DEF MutexLock
  <2>2. CASE UNCHANGED <<kEstados, kHilos, kIO, mutex>>
    BY <1>6, <2>2 DEF kHilos
  <2>3. ASSUME NEW i \in 1..Len(mutex[p]), SoloMutex(p, i),
               UNCHANGED <<kHilos, kIO>>,
               \/ /\ mutex'[p][i].hilos_bloqueados = mutex[p][i].hilos_bloqueados
                  /\ UNCHANGED kEstados
               \/ /\ mutex'[p][i].hilos_bloqueados = Append(mutex[p][i].hilos_bloqueados, estado_exec)
                  /\ ExecABlocked
        PROVE  Nombres'
    <3> DEFINE c == mutex[p][i].hilos_bloqueados
    <3>1. \A h \in ToSet(c) : Pid(h) = p => h \in T
      BY <1>20, <2>1
    <3>2. c \in Seq(Hilos)
      BY <1>20, <2>1
    <3>3. \A h \in ToSet(mutex'[p][i].hilos_bloqueados) : Pid(h) = p => h \in T
      <4>1. ToSet(Append(c, estado_exec)) = ToSet(c) \cup {estado_exec}
        BY <2>1, <3>2, Agregar
      <4> QED
        BY <2>1, <2>3, <3>1, <4>1
    <3>4. \A h \in Hilos : EnMutex(h)' => h \in T
      <4> SUFFICES ASSUME NEW h \in Hilos, EnMutex(h)' PROVE h \in T
        OBVIOUS
      <4>1. PICK j : EsperaMutex(h, j)'
        BY DEF EnMutex
      <4>2. (Pid(h) = p /\ h \in ToSet(mutex'[p][i].hilos_bloqueados)) \/ EsperaMutex(h, j)
        BY <2>1, <2>3, <4>1, EsperaSolo DEF KInv
      <4>3. EsperaMutex(h, j) => EnMutex(h)
        BY DEF EnMutex, EsperaMutex
      <4> QED
        BY <1>1, <3>3, <4>2, <4>3
    <3>5. /\ ToSet(estado_ready') \subseteq T /\ estado_blocked' \subseteq T
          /\ estado_exec' \in T \cup {Ninguno}
      BY <1>1, <2>1, <2>3 DEF ExecABlocked, kEstados
    <3> QED
      BY <1>1, <1>4, <2>3, <3>4, <3>5 DEF kHilos, kIO
  <2> HIDE DEF p
  <2> QED
    BY <1>22, <2>2, <2>3, EfectoLock DEF p
<1>23. CASE MutexUnlock
  <2> DEFINE p == Pid(estado_exec)
  <2>1. p \in Pids /\ p \in admitidos
    BY <1>23, EnExecConProceso DEF MutexUnlock
  <2>2. CASE UNCHANGED <<kEstados, kHilos, kIO, mutex>>
    BY <1>6, <2>2 DEF kHilos
  <2>3. ASSUME NEW i \in 1..Len(mutex[p]), SoloMutex(p, i),
               mutex'[p][i] = Liberar(mutex[p][i]), UNCHANGED <<kHilos, kIO>>,
               \/ mutex[p][i].hilos_bloqueados = <<>> /\ UNCHANGED kEstados
               \/ /\ mutex[p][i].hilos_bloqueados # <<>>
                  /\ BlockedAReady(<<Head(mutex[p][i].hilos_bloqueados)>>)
                  /\ UNCHANGED estado_exec
        PROVE  Nombres'
    <3> DEFINE m == mutex[p][i]
               c == m.hilos_bloqueados
    <3>1. m \in Mutexes /\ c \in Seq(Hilos)
      BY <1>20, <2>1
    <3>2. ToSet(c) \subseteq T
      <4>1. DOMAIN mutex[p] = 1..Len(mutex[p])
        BY <2>1, LenProperties DEF KInv, KTypeOK
      <4>2. \A h \in ToSet(c) : Pid(h) = p
        BY <2>1, <4>1 DEF KInv, MutexSanos, MutexSano
      <4> QED
        BY <1>20, <2>1, <4>2
    <3>3. CASE c = <<>> /\ UNCHANGED kEstados
      <4>1. mutex'[p][i].hilos_bloqueados = c
        BY <2>3, <3>1, <3>3, LiberarDe
      <4>2. \A h \in Hilos : EnMutex(h)' => h \in T
        BY <1>19, <2>1, <2>3, <3>2, <4>1
      <4> QED
        BY <1>1, <1>4, <2>3, <3>3, <4>2 DEF kHilos, kIO, kEstados
    <3>4. CASE c # <<>> /\ BlockedAReady(<<Head(c)>>) /\ UNCHANGED estado_exec
      <4>1. mutex'[p][i].hilos_bloqueados = Tail(c)
        BY <2>3, <3>1, <3>4, LiberarDe
      <4>2. ToSet(Tail(c)) \subseteq T /\ Head(c) \in T
        BY <3>1, <3>2, <3>4, QuitarPrimero
      <4>3. \A h \in Hilos : EnMutex(h)' => h \in T
        BY <1>19, <2>1, <2>3, <4>1, <4>2
      <4>4. <<Head(c)>> \in Seq(Hilos) /\ ToSet(<<Head(c)>>) \subseteq T
        BY <1>3, <4>2, ListaDeUno
      <4>5. ToSet(estado_ready') \subseteq T /\ estado_blocked' \subseteq T
        BY <1>10, <3>4, <4>4
      <4> QED
        BY <1>1, <1>4, <2>3, <3>4, <4>3, <4>5 DEF kHilos, kIO
    <3> QED
      BY <2>3, <3>3, <3>4
  <2> HIDE DEF p
  <2> QED
    BY <1>23, <2>2, <2>3, EfectoUnlock DEF p
<1>24. CASE ThreadExit
  <2> DEFINE hs == Herederos(mutex[Pid(estado_exec)], estado_exec) \o esperan[estado_exec]
  <2>1. /\ hs \in Seq(Hilos) /\ BlockedAReady(hs)
        /\ \A x \in ToSet(hs) : x \in Hilos /\ (EnMutex(x) \/ EnJoin(x))
    <3>1. hs \in Seq(Hilos) => ToSet(hs) \subseteq Hilos
      <4> HIDE DEF hs
      <4> QED
        BY Miembros
    <3> QED
      BY <1>24, <3>1, DespiertosExit
  <2>2. ToSet(hs) \subseteq T
    <3>1. \A x \in Hilos : EnJoin(x) => x \in T
      BY <1>1 DEF EnJoin, KInv, KTypeOK
    <3> QED
      BY <1>1, <2>1, <3>1
  <2> HIDE DEF hs
  <2>3. ToSet(estado_ready') \subseteq T /\ estado_blocked' \subseteq T
    BY <1>10, <2>1, <2>2
  <2>4. \A h \in Hilos : EnMutex(h)' => EnMutex(h)
    <3> SUFFICES ASSUME NEW h \in Hilos, EnMutex(h)' PROVE EnMutex(h)
      OBVIOUS
    <3>1. PICK j : EsperaMutex(h, j)'
      BY DEF EnMutex
    <3>2. EsperaMutex(h, j)
      BY <1>24, <3>1, EsperaExit
    <3> QED
      BY <3>2 DEF EnMutex, EsperaMutex
  <2>5. \A k \in Hilos : ToSet(esperan'[k]) \subseteq T
    <3>1. esperan' = [esperan EXCEPT ![estado_exec] = <<>>]
      BY <1>24 DEF ThreadExit
    <3>2. \A k \in Hilos : esperan'[k] = esperan[k] \/ esperan'[k] = <<>>
      BY <3>1 DEF KInv, KTypeOK
    <3>3. ToSet(<<>>) = {}
      <4>1. <<>> \in Seq(Hilos)
        OBVIOUS
      <4> QED
        BY <4>1, Miembros
    <3> QED
      BY <1>1, <3>2, <3>3, Zenon
  <2> QED
    BY <1>1, <1>4, <1>24, <2>3, <2>4, <2>5 DEF ThreadExit, kIO
<1>25. CASE TomarIO
  <2>1. /\ io_actual' = Head(cola_io) /\ cola_io' = Tail(cola_io)
        /\ UNCHANGED <<kEstados, kHilos, volcados, mutex>>
    BY <1>25 DEF TomarIO
  <2>2. Head(cola_io) \in T /\ ToSet(Tail(cola_io)) \subseteq T
    <3>1. cola_io \in Seq(Hilos) /\ cola_io # <<>>
      BY <1>25 DEF TomarIO, KInv, KTypeOK
    <3> QED
      BY <1>1, <3>1, QuitarPrimero
  <2> QED
    BY <1>1, <1>4, <1>5, <2>1, <2>2 DEF kEstados, kHilos
<1>26. ASSUME NEW h \in T, BlockedAReady(<<h>>), volcados' \subseteq volcados,
              io_actual' \in {io_actual, Ninguno},
              UNCHANGED <<estado_exec, kHilos, cola_io, mutex>>
       PROVE  Nombres'
  <2>1. <<h>> \in Seq(Hilos) /\ ToSet(<<h>>) \subseteq T
    BY <1>3, <1>26, ListaDeUno
  <2>2. ToSet(estado_ready') \subseteq T /\ estado_blocked' \subseteq T
    BY <1>10, <1>26, <2>1
  <2> QED
    BY <1>1, <1>4, <1>5, <1>26, <2>2 DEF kHilos
<1>27. CASE TerminarIO
  BY <1>1, <1>26, <1>27 DEF TerminarIO
<1>28. ASSUME NEW h \in Hilos, DumpConfirmado(h) PROVE Nombres'
  BY <1>1, <1>26, <1>28 DEF DumpConfirmado
<1>29. ASSUME NEW h \in Hilos, SacarPCB(h) \/ Tramite(h) PROVE Nombres'
  <2>1. /\ volcados' \subseteq volcados
        /\ UNCHANGED <<kEstados, esperan, cola_io, io_actual, mutex>>
    BY <1>29, TramiteDe DEF SacarPCB, kHilos, kIO
  <2> QED
    BY <1>1, <1>4, <1>5, <2>1 DEF kEstados
<1>30. ASSUME NEW p \in Pids, PasoFinalizacion(p) PROVE Nombres'
  <2> DEFINE h == <<p, Last(tids[p])>>
  <2>1. tids[p] # <<>> => h \in Hilos
    <3>1. tids[p] \in Seq(Tids)
      BY DEF KInv, KTypeOK
    <3> QED
      BY <3>1, QuitarUltimo, NingunHilo
  <2> HIDE DEF h
  <2>2. ASSUME NEW g, esperan' = [esperan EXCEPT ![g] = <<>>]
        PROVE  \A k \in Hilos : ToSet(esperan'[k]) \subseteq T
    <3>1. \A k \in Hilos : esperan'[k] = esperan[k] \/ esperan'[k] = <<>>
      BY <2>2 DEF KInv, KTypeOK
    <3>2. ToSet(<<>>) = {}
      <4>1. <<>> \in Seq(Hilos)
        OBVIOUS
      <4> QED
        BY <4>1, Miembros
    <3> QED
      BY <1>1, <3>1, <3>2, Zenon
  <2>3. CASE FinalizarHilo(p)
    <3>1. /\ h \in Hilos /\ estado_ready' = RemoveFirst(estado_ready \o esperan[h], h)
          /\ estado_blocked' \subseteq estado_blocked
          /\ esperan' = [esperan EXCEPT ![h] = <<>>]
          /\ UNCHANGED <<estado_exec, kIO, mutex>>
      BY <2>1, <2>3 DEF FinalizarHilo, Destruir, h
    <3>2. ToSet(estado_ready') \subseteq T
      <4> DEFINE a == estado_ready
                 b == esperan[h]
      <4>1. /\ a \in Seq(Hilos) /\ b \in Seq(Hilos) /\ ToSet(a) \subseteq T /\ ToSet(b) \subseteq T
            /\ estado_ready' = RemoveFirst(a \o b, h)
        BY <1>1, <3>1 DEF KInv, KTypeOK
      <4> HIDE DEF a, b
      <4>2. a \o b \in Seq(Hilos) /\ ToSet(a \o b) \subseteq T
        BY <4>1, Concatenar
      <4> DEFINE c == a \o b
      <4> HIDE DEF c
      <4>3. ToSet(RemoveFirst(c, h)) \subseteq ToSet(c)
        BY <4>2, QuitarElemento DEF c
      <4> QED
        BY <4>1, <4>2, <4>3 DEF c
    <3> QED
      BY <1>1, <1>4, <1>5, <2>2, <3>1, <3>2 DEF kIO
  <2>4. CASE DescontarReady(p)
    <3>1. /\ estado_blocked' \subseteq estado_blocked
          /\ esperan' = [esperan EXCEPT ![h] = <<>>]
          /\ UNCHANGED <<estado_ready, estado_exec, kIO, mutex>>
      BY <2>4 DEF DescontarReady, Destruir, h
    <3> QED
      BY <1>1, <1>4, <1>5, <2>2, <3>1 DEF kIO
  <2>5. CASE TerminarFinalizacion(p)
    <3>1. /\ mutex' = [mutex EXCEPT ![p] = <<>>] /\ UNCHANGED <<kEstados, kHilos, kIO>>
      BY <2>5 DEF TerminarFinalizacion
    <3>2. mutex'[p] = <<>> /\ \A q \in Pids : q # p => mutex'[q] = mutex[q]
      BY <3>1 DEF KInv, KTypeOK
    <3>3. ASSUME NEW x \in Hilos, EnMutex(x)' PROVE EnMutex(x)
      <4>1. Pid(x) \in Pids
        BY NingunHilo
      <4>2. DOMAIN mutex'[Pid(x)] # {}
        BY <3>3 DEF EnMutex
      <4>3. DOMAIN <<>> = {}
        OBVIOUS
      <4>4. Pid(x) # p
        BY <3>2, <4>2, <4>3
      <4> QED
        BY <3>2, <3>3, <4>1, <4>4 DEF EnMutex, EsperaMutex
    <3> QED
      BY <1>1, <1>4, <3>1, <3>3 DEF kEstados, kHilos, kIO
  <2> QED
    BY <1>30, <2>3, <2>4, <2>5 DEF PasoFinalizacion
<1> QED
  BY <1>7, <1>8, <1>11, <1>12, <1>13, <1>15, <1>16, <1>17, <1>18, <1>21, <1>22, <1>23,
     <1>24, <1>25, <1>27, <1>28, <1>29, <1>30 DEF KNext, Syscall, PasoLargoPlazo, PasoBaja,
     Tramite

-----------------------------------------------------------------------------
(* A thread is in one state, once. *)

(* A list has at most once what is not in it. *)
LEMMA UnicoAusente ==
    ASSUME NEW S, NEW s \in Seq(S), NEW x, x \notin ToSet(s)
    PROVE  Unico(s, x)
<1>1. ToSet(s) = {s[i] : i \in 1..Len(s)}
  BY Miembros
<1> QED
  BY <1>1 DEF Unico

(* A thread in use whose process a finaliser found is in its hands until   *)
(* the process is out of the list of PCBs.                                 *)
LEMMA SigueEnBaja ==
    ASSUME KInv, [KNext]_kernelVars, NEW h \in Hilos, Activo(h)', h \in buscando \cup sacando
    PROVE  h \in buscando' \cup sacando'
<1>1. [Next]_vars
  BY PasoKernel DEF KInv
<1>2. ASSUME NEW k \in Hilos, BuscarProceso(k) \/ PedirFinalizacion(k)
      PROVE  h \in buscando' \cup sacando'
  BY <1>2 DEF BuscarProceso, PedirFinalizacion
<1>3. ASSUME NEW k \in Hilos, SacarProceso(k)
      PROVE  h \in buscando' \cup sacando'
  BY <1>3 DEF SacarProceso, Activo
<1>4. CASE UNCHANGED varsBajas
  BY <1>4 DEF varsBajas
<1>5. CASE PasoPlanificador
  BY <1>4, <1>5 DEF PasoPlanificador, Planificador, EsperarMemoria, EsperarNew,
     ObtenerProceso, PedirInicializacionProceso, ReponerNew, LiberarMemoriaSuficiente,
     IniciarHiloPrincipal, SacarDeNew, AgregarAReady, AvisarReady
<1>6. CASE \/ CrearProceso \/ AgregarANew \/ AvisarNew \/ UNCHANGED vars
           \/ \E p \in Pids : AvisarMemoria(p)
  BY <1>4, <1>6 DEF CrearProceso, AgregarANew, AvisarNew, AvisarMemoria, vars, varsBajas
<1> QED
  BY <1>1, <1>2, <1>3, <1>5, <1>6 DEF Next

(* The moves of a thread from EXEC to BLOCKED, and of others to READY. *)
LEMMA LugarExecABlocked ==
    ASSUME KInv, ExecABlocked, NEW h \in Hilos, Activo(h)
    PROVE  Lugar(h)'
BY NingunHilo DEF ExecABlocked, KInv, Estados, Lugar

(* A move of several threads from BLOCKED to READY leaves each in one      *)
(* place.                                                                  *)
LEMMA LugarBlockedAReady ==
    ASSUME KInv, NEW hs \in Seq(Hilos), SinRepetir(hs), BlockedAReady(hs),
           NEW h \in Hilos, Activo(h), h \in ToSet(hs) => h \in estado_blocked,
           UNCHANGED estado_exec, h = estado_exec => sts' = sts,
           h \in buscando \cup sacando => h \in buscando' \cup sacando'
    PROVE  Lugar(h)'
<1>1. h \in estado_blocked => h \notin ToSet(estado_ready) /\ h # estado_exec
  BY Atado
<1>2. estado_ready \in Seq(Hilos) /\ Unico(hs, h) /\ Lugar(h)
  BY UnicoSinRepetir DEF KInv, KTypeOK, Estados
<1>3. Unico(estado_ready \o hs, h)
  BY <1>1, <1>2, UnicoConcatenar DEF Lugar
<1>4. ToSet(estado_ready') = ToSet(estado_ready) \cup ToSet(hs)
      /\ estado_blocked' = estado_blocked \ ToSet(hs)
  BY TiposBlockedAReady DEF KInv
<1>5. Unico(estado_ready', h)
  BY <1>3 DEF BlockedAReady
<1> QED
  BY <1>1, <1>2, <1>4, <1>5 DEF Lugar

(* Every step leaves a thread in one of READY, EXEC and BLOCKED. *)
LEMMA LugarPaso ==
    ASSUME KInv, KTypeOK', [KNext]_kernelVars, NEW h \in Hilos, Activo(h)'
    PROVE  Lugar(h)'
<1>1. \/ Activo(h)
      \/ (IniciarPrincipal \/ ThreadCreate) /\ h \notin vivos
  BY ActivoAntes
<1>2. Activo(h) => Lugar(h)
  BY DEF KInv, Estados
<1>3. /\ estado_ready \in Seq(Hilos) /\ h # Ninguno
      /\ h \in buscando \cup sacando => h \in buscando' \cup sacando'
  BY SigueEnBaja, NingunHilo DEF KInv, KTypeOK
<1>4. ~ Nombrado(h) => /\ h \notin ToSet(estado_ready) /\ h \notin estado_blocked
                       /\ h # estado_exec /\ Unico(estado_ready, h)
  BY <1>3, UnicoAusente DEF Nombrado
<1>5. ASSUME Activo(h), UNCHANGED <<estado_ready, estado_exec>>,
             h \in estado_blocked' => h \in estado_blocked,
             h = estado_exec => sts' = sts
      PROVE  Lugar(h)'
  BY <1>2, <1>3, <1>5 DEF Lugar
<1>6. ASSUME NEW e \in Hilos, estado_ready' = Append(estado_ready, e),
             Unico(estado_ready, h), e = h => h \notin ToSet(estado_ready)
      PROVE  /\ Unico(estado_ready', h)
             /\ ToSet(estado_ready') = ToSet(estado_ready) \cup {e}
  BY <1>3, <1>6, UnicoAgregar, Agregar
<1>7. CASE \/ LargoPlazoSolo \/ AvisarPrincipal \/ ProcessCreate \/ ProcessCreateSigue
           \/ UsarHiloDestruido \/ MutexCreate \/ TomarIO \/ UNCHANGED kernelVars
           \/ \E x \in Hilos : SacarPCB(x) \/ Tramite(x)
  <2>1. UNCHANGED <<estado_ready, estado_exec, estado_blocked, sts>>
    BY <1>7, TramiteDe DEF LargoPlazoSolo, AvisarPrincipal, ProcessCreate, ProcessCreateSigue,
       UsarHiloDestruido, MutexCreate, TomarIO, SacarPCB, Fallar, kEstados, kHilos, kvars,
       kernelVars
  <2>2. ~ (IniciarPrincipal \/ ThreadCreate)
    <3>1. vivos' \subseteq vivos \/ ~ (IniciarPrincipal \/ ThreadCreate)
      <4>1. vivos' = vivos
        BY <1>7, TramiteDe DEF LargoPlazoSolo, AvisarPrincipal, ProcessCreate,
           ProcessCreateSigue, UsarHiloDestruido, MutexCreate, TomarIO, SacarPCB, Fallar,
           kEstados, kHilos, kvars, kernelVars
      <4> QED
        BY <4>1
    <3>2. IniciarPrincipal \/ ThreadCreate => ~ (vivos' \subseteq vivos)
      BY HiloNuevo
    <3> QED
      BY <3>1, <3>2
  <2> QED
    BY <1>1, <1>5, <2>1, <2>2
<1>8. ASSUME vivos' \subseteq vivos PROVE Activo(h)
  BY <1>1, <1>8 DEF Activo
<1>9. CASE IniciarPrincipal
  <2>1. UNCHANGED <<estado_ready, estado_exec, estado_blocked, sts>>
    BY <1>9 DEF IniciarPrincipal, kEstados
  <2>2. CASE Activo(h)
    BY <1>5, <2>1, <2>2
  <2>3. CASE h \notin vivos
    <3>1. ~ Nombrado(h)
      BY <1>9, <2>3, HiloNuevo DEF Activo
    <3> QED
      BY <1>4, <2>1, <3>1 DEF Lugar
  <2> QED
    BY <1>1, <2>2, <2>3
<1>10. CASE ThreadCreate
  <2>1. PICK x \in Hilos : /\ vivos' = vivos \cup {x} /\ x \notin vivos /\ ~ Nombrado(x)
                           /\ estado_ready' = Append(estado_ready, x)
    BY <1>10, HiloNuevo
  <2>2. UNCHANGED <<estado_exec, estado_blocked, sts>>
    BY <1>10 DEF ThreadCreate
  <2>3. CASE Activo(h)
    <3>1. h # x
      BY <2>1, <2>3 DEF Activo
    <3> QED
      BY <1>2, <1>3, <1>6, <2>1, <2>2, <2>3, <3>1 DEF Lugar
  <2>4. CASE h \notin vivos
    <3>1. h = x
      BY <2>1, <2>4 DEF Activo
    <3> QED
      BY <1>4, <1>6, <2>1, <2>2, <3>1 DEF Lugar
  <2> QED
    BY <1>1, <2>3, <2>4
<1>11. CASE AgregarPrincipal
  <2> DEFINE p == proceso_a_inicializar
  <2>1. /\ p \in Pids /\ p \in lista_procesos /\ p \notin admitidos
        /\ estado_ready' = Append(estado_ready, <<p, 0>>)
        /\ UNCHANGED <<estado_exec, estado_blocked, sts, vivos>>
    <3>1. lp = "agregar"
      BY <1>11 DEF AgregarPrincipal, AgregarAReady, Planificador
    <3> QED
      BY <1>11, <3>1, EnCamino DEF AgregarPrincipal, kHilos, KInv
  <2>2. 0 \in Tids
    BY MaxTidAssumption DEF Tids
  <2>3. PICK x \in Hilos : x = <<p, 0>> /\ Pid(x) = p
    BY <2>1, <2>2, NingunHilo
  <2>4. ~ Nombrado(x)
    <3>1. ~ Arrancado(x)
      BY <2>1, <2>3 DEF Arrancado
    <3> QED
      BY <3>1 DEF KInv, Nombres
  <2>5. Activo(h)
    BY <1>8, <2>1
  <2>6. Lugar(h) /\ (h = x => h \notin ToSet(estado_ready) /\ h \notin estado_blocked /\ h # estado_exec)
    BY <1>2, <1>4, <2>4, <2>5
  <2>7. estado_ready' = Append(estado_ready, x)
    BY <2>1, <2>3
  <2> HIDE DEF p
  <2>8. Unico(estado_ready', h) /\ ToSet(estado_ready') = ToSet(estado_ready) \cup {x}
    BY <1>6, <2>6, <2>7 DEF Lugar
  <2> QED
    BY <1>3, <2>1, <2>6, <2>8 DEF Lugar
<1>12. CASE Planificar
  <2>1. Activo(h)
    BY <1>8, <1>12 DEF Planificar, Fallar, kHilos
  <2>2. CASE UNCHANGED <<estado_ready, estado_exec, estado_blocked, sts>>
    BY <1>5, <2>1, <2>2
  <2>3. CASE estado_ready # <<>> /\ Siguiente \in vivos
    <3> DEFINE g == Siguiente
    <3>1. /\ estado_exec' = g /\ estado_ready' = RemoveFirst(estado_ready, g)
          /\ sts' = "cpu" /\ UNCHANGED estado_blocked
      BY <1>12, <2>3 DEF Planificar
    <3>2. g \in ToSet(estado_ready)
      BY <2>3, SiguienteEnReady DEF KInv
    <3> HIDE DEF g
    <3>3. /\ Unico(estado_ready', h) /\ (h = g => h \notin ToSet(estado_ready'))
          /\ ToSet(estado_ready') \subseteq ToSet(estado_ready)
      <4>1. Unico(estado_ready, h)
        BY <1>2, <2>1 DEF Lugar
      <4> QED
        BY <1>3, <3>1, <4>1, UnicoQuitar, QuitarElemento
    <3> QED
      BY <1>2, <2>1, <3>1, <3>2, <3>3 DEF Lugar
  <2> QED
    BY <1>12, <2>2, <2>3 DEF Planificar, Fallar, kEstados
<1>13. CASE Desalojar
  <2>1. /\ estado_exec \in vivos /\ estado_exec' = Ninguno
        /\ estado_ready' = Append(estado_ready, estado_exec)
        /\ UNCHANGED <<estado_blocked, vivos>>
    BY <1>13 DEF Desalojar, kHilos
  <2>2. Activo(h) /\ Lugar(h)
    BY <1>2, <1>8, <2>1
  <2>3. estado_exec \in Hilos
    BY <2>1, EnExec
  <2> QED
    BY <1>3, <1>6, <2>1, <2>2, <2>3 DEF Lugar
<1>14. CASE IO \/ DumpMemory
  <2>1. ExecABlocked /\ UNCHANGED vivos
    BY <1>14 DEF IO, DumpMemory, kHilos
  <2> QED
    BY <1>8, <2>1, LugarExecABlocked
<1>15. CASE ThreadJoin
  <2>1. /\ UNCHANGED vivos
        /\ ExecABlocked \/ (UNCHANGED kEstados /\ sts' = "sin_respuesta" /\ sts = "cpu")
    BY <1>15 DEF ThreadJoin, EnCpuConProceso, EnCpu
  <2>2. Activo(h)
    BY <1>8, <2>1
  <2>3. CASE UNCHANGED kEstados /\ sts' = "sin_respuesta"
    BY <1>2, <2>2, <2>3 DEF Lugar, kEstados
  <2> QED
    BY <2>1, <2>2, <2>3, LugarExecABlocked
<1>16. CASE MutexLock
  <2>1. UNCHANGED vivos /\ (ExecABlocked \/ UNCHANGED <<kEstados, sts>>)
    BY <1>16, EfectoLock DEF kHilos
  <2>2. Activo(h)
    BY <1>8, <2>1
  <2>3. CASE UNCHANGED <<kEstados, sts>>
    BY <1>5, <2>2, <2>3 DEF kEstados
  <2> QED
    BY <2>1, <2>2, <2>3, LugarExecABlocked
<1>17. ASSUME NEW x \in Hilos, BlockedAReady(<<x>>), UNCHANGED <<estado_exec, vivos, sts>>,
              Activo(x) => x \in estado_blocked
       PROVE  Lugar(h)'
  <2>1. /\ <<x>> \in Seq(Hilos) /\ SinRepetir(<<x>>) /\ ToSet(<<x>>) = {x}
    BY <1>17, ListaDeUno
  <2>2. Activo(h)
    BY <1>8, <1>17
  <2>3. h \in ToSet(<<x>>) => h \in estado_blocked
    BY <1>17, <2>1, <2>2
  <2> DEFINE hs == <<x>>
  <2>4. /\ hs \in Seq(Hilos) /\ SinRepetir(hs) /\ (h \in ToSet(hs) => h \in estado_blocked)
        /\ BlockedAReady(hs)
    BY <1>17, <2>1, <2>3
  <2> HIDE DEF hs
  <2> QED
    BY <1>3, <1>17, <2>2, <2>4, LugarBlockedAReady
<1>18. CASE TerminarIO
  <2>1. /\ io_actual \in Hilos /\ BlockedAReady(<<io_actual>>)
        /\ UNCHANGED <<estado_exec, vivos, sts>>
    BY <1>18 DEF TerminarIO, kHilos, KInv, KTypeOK
  <2>2. Activo(io_actual) => io_actual \in estado_blocked
    BY <2>1, Atado
  <2> QED
    BY <1>17, <2>1, <2>2
<1>19. ASSUME NEW x \in Hilos, DumpConfirmado(x) PROVE Lugar(h)'
  <2>1. /\ BlockedAReady(<<x>>) /\ UNCHANGED <<estado_exec, vivos, sts>> /\ x \in volcados
    BY <1>19 DEF DumpConfirmado, kHilos
  <2>2. Activo(x) => x \in estado_blocked
    BY <2>1, Atado
  <2> QED
    BY <1>17, <2>1, <2>2
<1>20. CASE MutexUnlock
  <2> DEFINE p == Pid(estado_exec)
  <2>1. p \in Pids /\ p \in admitidos
    BY <1>20, EnExecConProceso DEF MutexUnlock
  <2>2. CASE UNCHANGED <<kEstados, kHilos, sts>>
    <3>1. Activo(h)
      BY <1>8, <2>2 DEF kHilos
    <3> QED
      BY <1>5, <2>2, <3>1 DEF kEstados
  <2>3. ASSUME NEW i \in 1..Len(mutex[p]), mutex[p][i] \in Mutexes,
               UNCHANGED <<kHilos, sts>>,
               mutex[p][i].hilos_bloqueados # <<>>,
               BlockedAReady(<<Head(mutex[p][i].hilos_bloqueados)>>), UNCHANGED estado_exec
        PROVE  Lugar(h)'
    <3> DEFINE c == mutex[p][i].hilos_bloqueados
    <3>1. c \in Seq(Hilos) /\ c # <<>>
      BY <2>3 DEF Mutexes
    <3>2. PICK x \in Hilos : x = Head(c) /\ x \in ToSet(c)
      BY <3>1, QuitarPrimero, Cola
    <3>3. x \in estado_blocked
      <4>1. DOMAIN mutex[p] = 1..Len(mutex[p])
        BY <2>1, LenProperties DEF KInv, KTypeOK
      <4> QED
        BY <2>1, <3>2, <4>1 DEF KInv, MutexSanos, MutexSano
    <3> QED
      BY <1>17, <2>3, <3>2, <3>3 DEF kHilos
  <2> HIDE DEF p
  <2> QED
    BY <1>20, <2>2, <2>3, EfectoUnlock DEF p
<1>21. CASE ThreadExit
  <2> DEFINE her == Herederos(mutex[Pid(estado_exec)], estado_exec)
             hs == her \o esperan[estado_exec]
  <2>1. /\ hs \in Seq(Hilos) /\ BlockedAReady(hs) /\ SinRepetir(hs)
        /\ ToSet(hs) = ToSet(her) \cup ToSet(esperan[estado_exec])
        /\ \A x \in ToSet(esperan[estado_exec]) : EnJoin(x)
        /\ \A x \in ToSet(her) : EnMutex(x)
    BY <1>21, DespiertosExit
  <2>2. /\ vivos' = vivos \ {estado_exec} /\ UNCHANGED estado_exec
    BY <1>21 DEF ThreadExit
  <2> HIDE DEF her, hs
  <2>3. Activo(h) /\ h # estado_exec
    BY <1>8, <2>2 DEF Activo
  <2>4. h \in ToSet(hs) => h \in estado_blocked
    BY <2>1, <2>3, Atado
  <2> QED
    BY <1>3, <2>1, <2>2, <2>3, <2>4, LugarBlockedAReady
<1>22. CASE ProcessExit
  <2>1. /\ UNCHANGED <<kEstados, vivos>>
        /\ sts' = "finalizar" /\ estado_exec \in buscando'
    BY <1>22 DEF ProcessExit, BuscarProceso, kHilos
  <2>2. Activo(h)
    BY <1>8, <2>1
  <2> QED
    BY <1>2, <2>1, <2>2 DEF Lugar, kEstados
<1>23. ASSUME NEW p \in Pids, PasoFinalizacion(p) PROVE Lugar(h)'
  <2> DEFINE g == <<p, Last(tids[p])>>
  <2>1. p \in finalizando
    BY <1>23 DEF PasoFinalizacion, FinalizarHilo, DescontarReady, TerminarFinalizacion,
       AvisarMemoria, KInv, Hilado
  <2>2. vivos' \subseteq vivos
    BY <1>23 DEF PasoFinalizacion, FinalizarHilo, DescontarReady, TerminarFinalizacion,
       Destruir, kHilos
  <2>3. Activo(h) /\ Pid(h) # p
    BY <1>8, <2>1, <2>2 DEF Activo
  <2>4. CASE TerminarFinalizacion(p)
    <3>1. /\ UNCHANGED kEstados /\ (Pid(estado_exec) # p => sts' = sts)
      BY <2>4 DEF TerminarFinalizacion
    <3> QED
      BY <1>5, <2>3, <3>1 DEF kEstados
  <2>5. CASE DescontarReady(p)
    BY <1>5, <2>3, <2>5 DEF DescontarReady
  <2>6. CASE FinalizarHilo(p)
    <3> DEFINE b == esperan[g]
               a == estado_ready
    <3>1. /\ g \in Hilos /\ Pid(g) = p
      <4>1. tids[p] \in Seq(Tids) /\ tids[p] # <<>>
        BY <2>6 DEF KInv, KTypeOK, FinalizarHilo
      <4> QED
        BY <4>1, QuitarUltimo, NingunHilo
    <3>2. /\ estado_ready' = RemoveFirst(a \o b, g)
          /\ estado_blocked' \subseteq estado_blocked
          /\ UNCHANGED <<estado_exec, sts>>
      BY <2>6 DEF FinalizarHilo
    <3>3. b \in Seq(Hilos) /\ h \notin ToSet(b) /\ a \in Seq(Hilos)
      <4> HIDE DEF g
      <4> QED
        BY <2>3, <3>1 DEF KInv, KTypeOK, Uniones
    <3>4. Unico(a, h)
      BY <1>2, <2>3 DEF Lugar
    <3> HIDE DEF a, b, g
    <3>5. Unico(b, h)
      BY <3>3, UnicoAusente
    <3> DEFINE c == a \o b
    <3>6. c \in Seq(Hilos) /\ Unico(c, h) /\ ToSet(c) = ToSet(a) \cup ToSet(b)
      BY <3>3, <3>4, <3>5, Concatenar, UnicoConcatenar
    <3> HIDE DEF c
    <3>7. Unico(RemoveFirst(c, g), h) /\ ToSet(RemoveFirst(c, g)) \subseteq ToSet(c)
      BY <3>6, UnicoQuitar, QuitarElemento
    <3>8. Unico(estado_ready', h) /\ (h \in ToSet(estado_ready') => h \in ToSet(a))
      BY <3>2, <3>3, <3>6, <3>7 DEF c
    <3> QED
      BY <1>2, <1>3, <2>3, <3>2, <3>8 DEF Lugar, a
  <2> QED
    BY <1>23, <2>4, <2>5, <2>6 DEF PasoFinalizacion
<1> QED
  BY <1>7, <1>9, <1>10, <1>11, <1>12, <1>13, <1>14, <1>15, <1>16, <1>18, <1>19, <1>20,
     <1>21, <1>22, <1>23 DEF KNext, Syscall, PasoLargoPlazo, PasoBaja, Tramite

-----------------------------------------------------------------------------
(* A thread waits for one thing, and exactly while it is blocked. *)

(* MUTEX_CREATE changes nobody's wait. *)
LEMMA EsperaCreate ==
    ASSUME KInv, KTypeOK', MutexCreate, NEW h \in Hilos, NEW j
    PROVE  EsperaMutex(h, j)' <=> EsperaMutex(h, j)
<1> DEFINE p == Pid(estado_exec)
           n == Len(mutex[p])
<1>1. /\ p \in Pids /\ n \in Nat
      /\ \A q \in Pids : q # p => mutex'[q] = mutex[q]
      /\ Len(mutex'[p]) = n + 1
      /\ \A i \in 1..n : mutex'[p][i] = mutex[p][i]
      /\ mutex'[p][n + 1].hilos_bloqueados = <<>>
  BY EfectoCreate
<1>2. \A q \in Pids : DOMAIN mutex[q] = 1..Len(mutex[q]) /\ DOMAIN mutex'[q] = 1..Len(mutex'[q])
  <2>1. \A q \in Pids : mutex[q] \in Seq(Mutexes) /\ mutex'[q] \in Seq(Mutexes)
    BY DEF KInv, KTypeOK
  <2> QED
    BY <2>1, LenProperties
<1>3. ToSet(mutex'[p][n + 1].hilos_bloqueados) = {}
  <2>1. <<>> \in Seq(Hilos)
    OBVIOUS
  <2>2. ToSet(<<>>) = {}
    BY <2>1, Miembros
  <2> QED
    BY <1>1, <2>2
<1>4. DOMAIN mutex[p] = 1..n
  BY <1>1, <1>2
<1> HIDE DEF p, n
<1>5. /\ EsperaMutex(h, j)' <=>
           j \in DOMAIN mutex'[Pid(h)] /\ h \in ToSet(mutex'[Pid(h)][j].hilos_bloqueados)
      /\ EsperaMutex(h, j) <=>
           j \in DOMAIN mutex[Pid(h)] /\ h \in ToSet(mutex[Pid(h)][j].hilos_bloqueados)
      /\ Pid(h) \in Pids
  BY NingunHilo DEF EsperaMutex
<1>6. CASE Pid(h) # p
  BY <1>1, <1>5, <1>6
<1>7. CASE Pid(h) = p
  <2>1. j \in 1..n + 1 <=> j \in 1..n \/ j = n + 1
    BY <1>1
  <2>2. DOMAIN mutex'[p] = 1..n + 1 /\ n + 1 \notin 1..n
    BY <1>1, <1>2
  <2> QED
    BY <1>1, <1>3, <1>4, <1>5, <1>7, <2>1, <2>2
<1> QED
  BY <1>6, <1>7

(* The waiters that THREAD_EXIT wakes wait for no mutex any more.          *)
LEMMA HerederosSueltos ==
    ASSUME KInv, KTypeOK', ThreadExit, NEW h \in Hilos,
           h \in ToSet(Herederos(mutex[Pid(estado_exec)], estado_exec))
    PROVE  ~ EnMutex(h)'
<1> DEFINE e == estado_exec
           p == Pid(e)
           ms == mutex[p]
           I == {i \in 1..Len(ms) : ms[i].hilo_asignado = e /\ ms[i].hilos_bloqueados # <<>>}
<1>1. p \in Pids /\ p \in admitidos /\ p \notin finalizando
  BY EnExecConProceso DEF ThreadExit
<1>2. ms \in Seq(Mutexes) /\ DOMAIN ms = 1..Len(ms)
  <2>1. ms \in Seq(Mutexes)
    BY <1>1 DEF KInv, KTypeOK
  <2> QED
    BY <2>1, LenProperties
<1>3. PICK i \in I : h = Head(ms[i].hilos_bloqueados)
  <2> HIDE DEF ms, e
  <2>1. ToSet(Herederos(ms, e)) = {Head(ms[i].hilos_bloqueados) : i \in I}
    BY <1>2, HerederosDe
  <2> QED
    BY <2>1 DEF ms, e
<1> DEFINE q == ms[i].hilos_bloqueados
<1>4. ms[i] \in Mutexes /\ q \in Seq(Hilos) /\ q # <<>> /\ MutexSano(p, ms[i])
  <2>1. ms[i] \in Mutexes
    BY <1>2, ElementOfSeq
  <2> QED
    BY <1>1, <1>2, <2>1 DEF Mutexes, KInv, MutexSanos
<1>5. h \in ToSet(q) /\ h \notin ToSet(Tail(q))
  BY <1>3, <1>4, QuitarPrimero DEF MutexSano
<1>6. Pid(h) = p /\ h \in vivos /\ EsperaMutex(h, i) /\ Activo(h)
  BY <1>1, <1>2, <1>4, <1>5 DEF MutexSano, EsperaMutex, Activo
<1>7. mutex'[p][i].hilos_bloqueados = Tail(q)
  <2>1. mutex'[p][i] = Liberar(ms[i])
    BY EfectoExit
  <2> QED
    BY <1>4, <2>1, LiberarDe
<1>8. ASSUME NEW j, EsperaMutex(h, j)' PROVE FALSE
  <2>1. EsperaMutex(h, j)
    BY <1>8, EsperaExit
  <2>2. j = i
    BY <1>6, <2>1 DEF KInv, Estados, Espera, EsperaMutex
  <2>3. h \in ToSet(mutex'[p][i].hilos_bloqueados)
    BY <1>6, <1>8, <2>2 DEF EsperaMutex
  <2> QED
    BY <1>5, <1>7, <2>3
<1> QED
  BY <1>8 DEF EnMutex

(* Every step leaves a thread BLOCKED for one reason, or not BLOCKED and   *)
(* for none.                                                               *)
LEMMA EsperaPaso ==
    ASSUME KInv, KTypeOK', [KNext]_kernelVars, NEW h \in Hilos, Activo(h)'
    PROVE  Espera(h)'
<1>1. \/ Activo(h)
      \/ (IniciarPrincipal \/ ThreadCreate) /\ h \notin vivos
  BY ActivoAntes
<1>2. Activo(h) => Espera(h)
  BY DEF KInv, Estados
<1>3. h # Ninguno /\ Pid(h) \in Pids /\ cola_io \in Seq(Hilos)
  BY NingunHilo DEF KInv, KTypeOK
<1> DEFINE Une(k) == k \in vivos /\ h \in ToSet(esperan[k])
           Une1(k) == k \in vivos' /\ h \in ToSet(esperan'[k])
<1>4. ASSUME vivos' \subseteq vivos PROVE Activo(h)
  BY <1>1, <1>4 DEF Activo
(* What Espera says before and after, with the waits as propositions. *)
<1>5. /\ EnJoin(h) <=> \E k : Une(k)
      /\ EnJoin(h)' <=> \E k : Une1(k)
      /\ EnMutex(h) <=> \E j : EsperaMutex(h, j)
      /\ EnMutex(h)' <=> \E j : EsperaMutex(h, j)'
      /\ (\A k, l : Une1(k) /\ Une1(l) => k = l) =>
            \A k, l \in vivos' : h \in ToSet(esperan'[k]) /\ h \in ToSet(esperan'[l]) => k = l
  BY DEF EnJoin, EnMutex, EsperaMutex
<1>6. Activo(h) => /\ \A k, l : Une(k) /\ Une(l) => k = l
                   /\ \A i, j : EsperaMutex(h, i) /\ EsperaMutex(h, j) => i = j
                   /\ Unico(cola_io, h)
  BY <1>2 DEF Espera, EsperaMutex
<1> HIDE DEF Une, Une1
<1>7. ASSUME Unico(cola_io', h),
             \A k, l : Une1(k) /\ Une1(l) => k = l,
             \A i, j : EsperaMutex(h, i)' /\ EsperaMutex(h, j)' => i = j,
             Unidad(EnJoin(h)') + Unidad(EnMutex(h)') + Unidad(h \in ToSet(cola_io'))
               + Unidad(io_actual' = h) + Unidad(h \in volcados')
               = Unidad(h \in estado_blocked')
      PROVE  Espera(h)'
  BY <1>5, <1>7 DEF Espera
<1>8. ASSUME Activo(h), Unico(cola_io', h),
             h \in ToSet(cola_io') <=> h \in ToSet(cola_io),
             io_actual' = h <=> io_actual = h, h \in volcados' <=> h \in volcados,
             h \in estado_blocked' <=> h \in estado_blocked,
             \A k : Une1(k) <=> Une(k),
             \A j : EsperaMutex(h, j)' <=> EsperaMutex(h, j)
      PROVE  Espera(h)'
  <2>1. /\ EnJoin(h)' <=> EnJoin(h)
        /\ EnMutex(h)' <=> EnMutex(h)
    BY <1>5, <1>8
  <2>2. Unidad(EnJoin(h)') + Unidad(EnMutex(h)') + Unidad(h \in ToSet(cola_io'))
               + Unidad(io_actual' = h) + Unidad(h \in volcados')
               = Unidad(h \in estado_blocked')
    BY <1>2, <1>8, <2>1 DEF Espera, Unidad
  <2> QED
    BY <1>6, <1>7, <1>8, <2>2
<1>9. ASSUME UNCHANGED mutex PROVE \A j : EsperaMutex(h, j)' <=> EsperaMutex(h, j)
  BY <1>9 DEF EsperaMutex
<1>10. ASSUME UNCHANGED <<esperan, vivos>> PROVE \A k : Une1(k) <=> Une(k)
  BY <1>10 DEF Une, Une1
<1>11. CASE UNCHANGED <<kIO, mutex, esperan, vivos, estado_blocked>>
  <2>1. Activo(h)
    BY <1>4, <1>11
  <2> QED
    BY <1>6, <1>8, <1>9, <1>10, <1>11, <2>1 DEF kIO
<1>12. CASE \/ LargoPlazoSolo \/ AvisarPrincipal \/ AgregarPrincipal \/ ProcessCreate
            \/ ProcessCreateSigue \/ UsarHiloDestruido \/ Planificar \/ Desalojar
            \/ ProcessExit \/ UNCHANGED kernelVars
  BY <1>11, <1>12 DEF LargoPlazoSolo, AvisarPrincipal, AgregarPrincipal, ProcessCreate,
     ProcessCreateSigue, UsarHiloDestruido, Planificar, Desalojar, ProcessExit, Fallar,
     kEstados, kHilos, kvars, kernelVars
<1>13. ASSUME NEW x \in Hilos, SacarPCB(x) \/ Tramite(x) PROVE Espera(h)'
  <2>1. CASE UNCHANGED <<kIO, mutex, esperan, vivos, estado_blocked>>
    BY <1>11, <2>1
  <2>2. CASE /\ Pid(x) \in finalizando' /\ volcados' = volcados \ {x}
             /\ UNCHANGED <<kEstados, kHilos, cola_io, io_actual, mutex>>
    <3>1. Activo(h) /\ h # x
      BY <1>4, <2>2 DEF Activo, kHilos
    <3> QED
      BY <1>6, <1>8, <1>9, <1>10, <2>2, <3>1 DEF kEstados, kHilos
  <2> QED
    BY <1>13, <2>1, <2>2, TramiteDe DEF SacarPCB, SacarProceso, kHilos, kEstados
<1>14. CASE IniciarPrincipal \/ ThreadCreate
  <2>1. PICK x \in Hilos : /\ vivos' = vivos \cup {x} /\ x \notin vivos /\ ~ Nombrado(x)
                           /\ esperan[x] = <<>>
    BY <1>14, HiloNuevo
  <2>2. UNCHANGED <<estado_blocked, esperan, kIO, mutex>>
    BY <1>14 DEF IniciarPrincipal, ThreadCreate, kEstados
  <2>3. \A k : Une1(k) <=> Une(k)
    <3>1. ToSet(esperan[x]) = {}
      BY <2>1, Miembros DEF KInv, KTypeOK
    <3> QED
      BY <2>1, <2>2, <3>1 DEF Une, Une1
  <2>4. CASE Activo(h)
    BY <1>6, <1>8, <1>9, <2>2, <2>3, <2>4 DEF kIO
  <2>5. CASE h \notin vivos
    <3>1. h = x
      BY <2>1, <2>5 DEF Activo
    <3>2. /\ h \notin ToSet(cola_io) /\ io_actual # h /\ h \notin volcados
          /\ h \notin estado_blocked /\ ~ EnMutex(h) /\ ~ EnJoin(h)
      BY <2>1, <3>1 DEF Nombrado, EnJoin, KInv, KTypeOK
    <3>3. Unico(cola_io, h)
      BY <1>3, <3>2, UnicoAusente
    <3>4. (\A k : ~ Une1(k)) /\ (\A j : ~ EsperaMutex(h, j)')
      BY <1>5, <1>9, <2>2, <2>3, <3>2
    <3>5. ~ EnJoin(h)' /\ ~ EnMutex(h)'
      BY <1>5, <3>4
    <3>6. Unidad(EnJoin(h)') + Unidad(EnMutex(h)') + Unidad(h \in ToSet(cola_io'))
               + Unidad(io_actual' = h) + Unidad(h \in volcados')
               = Unidad(h \in estado_blocked')
      BY <2>2, <3>2, <3>5 DEF Unidad, kIO
    <3> QED
      BY <1>7, <2>2, <3>3, <3>4, <3>6 DEF kIO
  <2> QED
    BY <1>1, <2>4, <2>5
(* Who stops waiting, and is no longer blocked. *)
<1>15. ASSUME Activo(h), h \notin ToSet(cola_io'), io_actual' # h, h \notin volcados',
              h \notin estado_blocked', \A k : ~ Une1(k), \A j : ~ EsperaMutex(h, j)'
       PROVE  Espera(h)'
  <2>1. Unico(cola_io', h)
    <3>1. cola_io' \in Seq(Hilos)
      BY DEF KTypeOK
    <3> QED
      BY <1>15, <3>1, UnicoAusente
  <2>2. ~ EnJoin(h)' /\ ~ EnMutex(h)'
    BY <1>5, <1>15
  <2>3. Unidad(EnJoin(h)') + Unidad(EnMutex(h)') + Unidad(h \in ToSet(cola_io'))
               + Unidad(io_actual' = h) + Unidad(h \in volcados')
               = Unidad(h \in estado_blocked')
    BY <1>15, <2>2 DEF Unidad
  <2> QED
    BY <1>7, <1>15, <2>1, <2>3
<1>16. Activo(h) =>
         /\ EnJoin(h) => /\ h \in estado_blocked /\ (\A j : ~ EsperaMutex(h, j))
                         /\ h \notin ToSet(cola_io) /\ io_actual # h /\ h \notin volcados
         /\ EnMutex(h) => /\ h \in estado_blocked /\ (\A k : ~ Une(k))
                          /\ h \notin ToSet(cola_io) /\ io_actual # h /\ h \notin volcados
         /\ io_actual = h => /\ h \in estado_blocked /\ (\A k : ~ Une(k))
                             /\ (\A j : ~ EsperaMutex(h, j))
                             /\ h \notin ToSet(cola_io) /\ h \notin volcados
         /\ h \in volcados => /\ h \in estado_blocked /\ (\A k : ~ Une(k))
                              /\ (\A j : ~ EsperaMutex(h, j))
                              /\ h \notin ToSet(cola_io) /\ io_actual # h
         /\ h \notin estado_blocked => /\ (\A k : ~ Une(k)) /\ (\A j : ~ EsperaMutex(h, j))
                                       /\ h \notin ToSet(cola_io) /\ io_actual # h
                                       /\ h \notin volcados
  BY <1>5, Atado, Suelto
<1>17. ASSUME NEW x \in Hilos, BlockedAReady(<<x>>)
       PROVE  estado_blocked' = estado_blocked \ {x}
  <2>1. ToSet(<<x>>) = {x}
    BY ListaDeUno
  <2> QED
    BY <1>17, <2>1 DEF BlockedAReady
<1>18. CASE TomarIO
  <2>1. /\ io_actual = Ninguno /\ cola_io # <<>> /\ io_actual' = Head(cola_io)
        /\ cola_io' = Tail(cola_io) /\ UNCHANGED <<estado_blocked, esperan, vivos, volcados, mutex>>
    BY <1>18 DEF TomarIO, kEstados, kHilos
  <2>2. Activo(h)
    BY <1>4, <2>1
  <2>3. /\ Unico(cola_io', h)
        /\ h \in ToSet(cola_io) <=> h = io_actual' \/ h \in ToSet(cola_io')
        /\ h = io_actual' => h \notin ToSet(cola_io')
    BY <1>3, <1>6, <2>1, <2>2, QuitarPrimero
  <2>4. (\A j : EsperaMutex(h, j)' <=> EsperaMutex(h, j)) /\ (\A k : Une1(k) <=> Une(k))
    BY <1>9, <1>10, <2>1
  <2>5. /\ EnJoin(h)' <=> EnJoin(h)
        /\ EnMutex(h)' <=> EnMutex(h)
    BY <1>5, <2>4
  <2>6. io_actual # h /\ h \in volcados' <=> h \in volcados
    BY <1>3, <2>1
  <2>7. Unidad(EnJoin(h)') + Unidad(EnMutex(h)') + Unidad(h \in ToSet(cola_io'))
               + Unidad(io_actual' = h) + Unidad(h \in volcados')
               = Unidad(h \in estado_blocked')
    BY <1>2, <1>3, <2>1, <2>2, <2>3, <2>5 DEF Espera, Unidad
  <2> QED
    BY <1>6, <1>7, <2>2, <2>3, <2>4, <2>7
<1>19. CASE TerminarIO
  <2>1. /\ io_actual \in Hilos /\ estado_blocked' = estado_blocked \ {io_actual}
        /\ io_actual' = Ninguno /\ UNCHANGED <<esperan, vivos, cola_io, volcados, mutex>>
    BY <1>17, <1>19 DEF TerminarIO, kHilos, KInv, KTypeOK
  <2>2. Activo(h)
    BY <1>4, <2>1
  <2>3. (\A j : EsperaMutex(h, j)' <=> EsperaMutex(h, j)) /\ (\A k : Une1(k) <=> Une(k))
    BY <1>9, <1>10, <2>1
  <2>4. CASE h = io_actual
    BY <1>3, <1>15, <1>16, <2>1, <2>2, <2>3, <2>4
  <2>5. CASE h # io_actual
    BY <1>3, <1>6, <1>8, <2>1, <2>2, <2>3, <2>5
  <2> QED
    BY <2>4, <2>5
<1>20. ASSUME NEW x \in Hilos, DumpConfirmado(x) PROVE Espera(h)'
  <2>1. /\ x \in volcados /\ estado_blocked' = estado_blocked \ {x}
        /\ volcados' = volcados \ {x}
        /\ UNCHANGED <<esperan, vivos, cola_io, io_actual, mutex>>
    BY <1>17, <1>20 DEF DumpConfirmado, kHilos
  <2>2. Activo(h)
    BY <1>4, <2>1
  <2>3. (\A j : EsperaMutex(h, j)' <=> EsperaMutex(h, j)) /\ (\A k : Une1(k) <=> Une(k))
    BY <1>9, <1>10, <2>1
  <2>4. CASE h = x
    BY <1>15, <1>16, <2>1, <2>2, <2>3, <2>4
  <2>5. CASE h # x
    BY <1>6, <1>8, <2>1, <2>2, <2>3, <2>5
  <2> QED
    BY <2>4, <2>5
(* The thread in EXEC begins to wait. *)
<1>21. CASE IO
  <2>1. /\ estado_exec \in vivos /\ estado_blocked' = estado_blocked \cup {estado_exec}
        /\ cola_io' = Append(cola_io, estado_exec)
        /\ UNCHANGED <<esperan, vivos, io_actual, volcados, mutex>>
    BY <1>21 DEF IO, EnCpu, ExecABlocked, kHilos
  <2>2. Activo(h) /\ estado_exec \in Hilos
    BY <1>4, <2>1, EnExec
  <2>3. (\A j : EsperaMutex(h, j)' <=> EsperaMutex(h, j)) /\ (\A k : Une1(k) <=> Une(k))
    BY <1>9, <1>10, <2>1
  <2>4. h = estado_exec => h \notin estado_blocked
    BY <2>1, <2>2, EnExec
  <2>5. /\ ToSet(cola_io') = ToSet(cola_io) \cup {estado_exec}
        /\ Unico(cola_io', h)
    BY <1>3, <1>6, <1>16, <2>1, <2>2, <2>4, Agregar, UnicoAgregar
  <2>6. CASE h # estado_exec
    BY <1>8, <2>1, <2>2, <2>3, <2>5, <2>6
  <2>7. CASE h = estado_exec
    <3>1. (\A k : ~ Une1(k)) /\ (\A j : ~ EsperaMutex(h, j)')
          /\ io_actual' # h /\ h \notin volcados'
      BY <1>16, <2>1, <2>2, <2>3, <2>4, <2>7
    <3>2. ~ EnJoin(h)' /\ ~ EnMutex(h)'
      BY <1>5, <3>1
    <3>3. Unidad(EnJoin(h)') + Unidad(EnMutex(h)') + Unidad(h \in ToSet(cola_io'))
               + Unidad(io_actual' = h) + Unidad(h \in volcados')
               = Unidad(h \in estado_blocked')
      BY <2>1, <2>5, <2>7, <3>1, <3>2 DEF Unidad
    <3> QED
      BY <1>7, <2>5, <3>1, <3>3
  <2> QED
    BY <2>6, <2>7
<1>22. CASE DumpMemory
  <2>1. /\ estado_exec \in vivos /\ estado_blocked' = estado_blocked \cup {estado_exec}
        /\ volcados' = volcados \cup {estado_exec}
        /\ UNCHANGED <<esperan, vivos, io_actual, cola_io, mutex>>
    BY <1>22 DEF DumpMemory, EnCpu, ExecABlocked, kHilos
  <2>2. Activo(h) /\ estado_exec \in Hilos
    BY <1>4, <2>1, EnExec
  <2>3. (\A j : EsperaMutex(h, j)' <=> EsperaMutex(h, j)) /\ (\A k : Une1(k) <=> Une(k))
    BY <1>9, <1>10, <2>1
  <2>4. h = estado_exec => h \notin estado_blocked
    BY <2>1, <2>2, EnExec
  <2>5. Unico(cola_io', h)
    BY <1>6, <2>1, <2>2
  <2>6. CASE h # estado_exec
    BY <1>8, <2>1, <2>2, <2>3, <2>5, <2>6
  <2>7. CASE h = estado_exec
    <3>1. (\A k : ~ Une1(k)) /\ (\A j : ~ EsperaMutex(h, j)')
          /\ io_actual' # h /\ h \notin ToSet(cola_io')
      BY <1>16, <2>1, <2>2, <2>3, <2>4, <2>7
    <3>2. ~ EnJoin(h)' /\ ~ EnMutex(h)'
      BY <1>5, <3>1
    <3>3. Unidad(EnJoin(h)') + Unidad(EnMutex(h)') + Unidad(h \in ToSet(cola_io'))
               + Unidad(io_actual' = h) + Unidad(h \in volcados')
               = Unidad(h \in estado_blocked')
      BY <2>1, <2>7, <3>1, <3>2 DEF Unidad
    <3> QED
      BY <1>7, <2>5, <3>1, <3>3
  <2> QED
    BY <2>6, <2>7
<1>23. CASE ThreadJoin
  <2>1. CASE UNCHANGED <<kIO, mutex, esperan, vivos, estado_blocked>>
    BY <1>11, <2>1
  <2>2. ASSUME NEW t \in Tids, t \in ToSet(tids[Pid(estado_exec)]), EnCpuConProceso("THREAD_JOIN"),
               esperan' = [esperan EXCEPT ![<<Pid(estado_exec), t>>] = Append(@, estado_exec)],
               ExecABlocked, UNCHANGED <<vivos, kIO, mutex>>
        PROVE  Espera(h)'
    <3> DEFINE g == <<Pid(estado_exec), t>>
    <3>1. /\ estado_exec \in Hilos /\ Pid(estado_exec) \in Pids /\ estado_exec \notin estado_blocked
      BY <2>2, EnExecConProceso
    <3>2. g \in Hilos /\ g \in vivos
      <4>1. g \in Hilos /\ Pid(g) = Pid(estado_exec) /\ g[2] = t
        BY <2>2, <3>1, NingunHilo
      <4> HIDE DEF g
      <4> QED
        BY <2>2, <4>1 DEF KInv, Hilado
    <3>3. /\ esperan[g] \in Seq(Hilos)
          /\ \A k \in Hilos : esperan'[k] = IF k = g THEN Append(esperan[g], estado_exec) ELSE esperan[k]
      <4> DEFINE w == Append(esperan[g], estado_exec)
      <4>1. esperan' = [esperan EXCEPT ![g] = w] /\ esperan \in [Hilos -> Seq(Hilos)]
        BY <2>2 DEF KInv, KTypeOK
      <4> HIDE DEF g, w
      <4> QED
        BY <3>2, <4>1 DEF w
    <3> HIDE DEF g
    <3>4. ToSet(Append(esperan[g], estado_exec)) = ToSet(esperan[g]) \cup {estado_exec}
      BY <3>1, <3>3, Agregar
    <3>5. \A k : Une1(k) <=> Une(k) \/ (k = g /\ h = estado_exec)
      <4>1. vivos \subseteq Hilos
        BY DEF KInv, KTypeOK
      <4> QED
        BY <2>2, <3>2, <3>3, <3>4, <4>1 DEF Une, Une1
    <3>6. Activo(h)
      BY <1>4, <2>2
    <3>7. \A j : EsperaMutex(h, j)' <=> EsperaMutex(h, j)
      BY <1>9, <2>2
    <3>8. UNCHANGED <<cola_io, io_actual, volcados>> /\ Unico(cola_io', h)
          /\ estado_blocked' = estado_blocked \cup {estado_exec}
      BY <1>6, <2>2, <3>6 DEF kIO, ExecABlocked
    <3>9. CASE h # estado_exec
      BY <1>8, <3>5, <3>6, <3>7, <3>8, <3>9
    <3>10. CASE h = estado_exec
      <4>1. /\ (\A k : ~ Une(k)) /\ (\A j : ~ EsperaMutex(h, j)')
            /\ io_actual' # h /\ h \notin ToSet(cola_io') /\ h \notin volcados'
        BY <1>16, <3>1, <3>6, <3>7, <3>8, <3>10
      <4>2. \A k : Une1(k) <=> k = g
        BY <3>5, <3>10, <4>1
      <4>3. EnJoin(h)' /\ ~ EnMutex(h)'
        BY <1>5, <4>1, <4>2
      <4>4. Unidad(EnJoin(h)') + Unidad(EnMutex(h)') + Unidad(h \in ToSet(cola_io'))
               + Unidad(io_actual' = h) + Unidad(h \in volcados')
               = Unidad(h \in estado_blocked')
        BY <3>8, <3>10, <4>1, <4>3 DEF Unidad
      <4> QED
        BY <1>7, <3>8, <4>1, <4>2, <4>4
    <3> QED
      BY <3>9, <3>10
  <2> QED
    BY <1>23, <2>1, <2>2 DEF ThreadJoin, kEstados
<1>24. CASE MutexCreate
  <2>1. UNCHANGED <<kEstados, kHilos, kIO>>
    BY <1>24 DEF MutexCreate
  <2>2. Activo(h)
    BY <1>4, <2>1 DEF kHilos
  <2>3. \A j : EsperaMutex(h, j)' <=> EsperaMutex(h, j)
    BY <1>24, EsperaCreate
  <2> QED
    BY <1>6, <1>8, <1>10, <2>1, <2>2, <2>3 DEF kEstados, kHilos, kIO
<1>25. ASSUME NEW p \in Pids, NEW i \in 1..Len(mutex[p])
       PROVE  /\ mutex[p][i] \in Mutexes /\ mutex[p][i].hilos_bloqueados \in Seq(Hilos)
              /\ i \in DOMAIN mutex[p]
  <2>1. mutex[p] \in Seq(Mutexes) /\ DOMAIN mutex[p] = 1..Len(mutex[p])
    BY LenProperties DEF KInv, KTypeOK
  <2>2. mutex[p][i] \in Mutexes
    BY <2>1, ElementOfSeq
  <2> QED
    BY <2>1, <2>2 DEF Mutexes
<1>26. CASE MutexLock
  <2> DEFINE p == Pid(estado_exec)
  <2>1. estado_exec \in Hilos /\ p \in Pids /\ estado_exec \notin estado_blocked
    BY <1>26, EnExecConProceso DEF MutexLock
  <2>2. CASE UNCHANGED <<kEstados, kHilos, kIO, mutex>>
    BY <1>11, <2>2 DEF kHilos, kEstados
  <2>3. ASSUME NEW i \in 1..Len(mutex[p]), SoloMutex(p, i), UNCHANGED <<kHilos, kIO>>,
               mutex'[p][i].hilos_bloqueados = mutex[p][i].hilos_bloqueados,
               UNCHANGED kEstados
        PROVE  Espera(h)'
    <3>1. \A j : EsperaMutex(h, j)' <=> EsperaMutex(h, j)
      <4>1. EsperaMutex(h, i) <=>
              i \in DOMAIN mutex[Pid(h)] /\ h \in ToSet(mutex[Pid(h)][i].hilos_bloqueados)
        BY DEF EsperaMutex
      <4> HIDE DEF p
      <4> QED
        BY <1>25, <2>1, <2>3, <4>1, EsperaSolo DEF KInv
    <3>2. Activo(h)
      BY <1>4, <2>3 DEF kHilos
    <3> QED
      BY <1>6, <1>8, <1>10, <2>3, <3>1, <3>2 DEF kEstados, kHilos, kIO
  <2>4. ASSUME NEW i \in 1..Len(mutex[p]), SoloMutex(p, i), UNCHANGED <<kHilos, kIO>>,
               mutex'[p][i].hilos_bloqueados = Append(mutex[p][i].hilos_bloqueados, estado_exec),
               ExecABlocked
        PROVE  Espera(h)'
    <3> DEFINE c == mutex[p][i].hilos_bloqueados
    <3>1. c \in Seq(Hilos) /\ i \in DOMAIN mutex[p]
      BY <1>25, <2>1
    <3>2. ToSet(mutex'[p][i].hilos_bloqueados) = ToSet(c) \cup {estado_exec}
      BY <2>1, <2>4, <3>1, Agregar
    <3>3. \A j : EsperaMutex(h, j)' <=> EsperaMutex(h, j) \/ (j = i /\ h = estado_exec)
      <4>1. EsperaMutex(h, i) <=>
              i \in DOMAIN mutex[Pid(h)] /\ h \in ToSet(mutex[Pid(h)][i].hilos_bloqueados)
        BY DEF EsperaMutex
      <4>2. h = estado_exec => Pid(h) = p
        OBVIOUS
      <4> HIDE DEF p
      <4> QED
        BY <2>1, <2>4, <3>1, <3>2, <4>1, <4>2, EsperaSolo DEF KInv
    <3>4. Activo(h)
      BY <1>4, <2>4 DEF kHilos
    <3>5. \A k : Une1(k) <=> Une(k)
      BY <1>10, <2>4 DEF kHilos
    <3>6. UNCHANGED <<cola_io, io_actual, volcados>> /\ Unico(cola_io', h)
          /\ estado_blocked' = estado_blocked \cup {estado_exec}
      BY <1>6, <2>4, <3>4 DEF kIO, ExecABlocked
    <3>7. CASE h # estado_exec
      BY <1>8, <3>3, <3>4, <3>5, <3>6, <3>7
    <3>8. CASE h = estado_exec
      <4>1. /\ (\A k : ~ Une1(k)) /\ (\A j : ~ EsperaMutex(h, j))
            /\ io_actual' # h /\ h \notin ToSet(cola_io') /\ h \notin volcados'
        BY <1>16, <2>1, <3>4, <3>5, <3>6, <3>8
      <4>2. \A j : EsperaMutex(h, j)' <=> j = i
        BY <3>3, <3>8, <4>1
      <4>3. ~ EnJoin(h)' /\ EnMutex(h)'
        BY <1>5, <4>1, <4>2
      <4>4. Unidad(EnJoin(h)') + Unidad(EnMutex(h)') + Unidad(h \in ToSet(cola_io'))
               + Unidad(io_actual' = h) + Unidad(h \in volcados')
               = Unidad(h \in estado_blocked')
        BY <3>6, <3>8, <4>1, <4>3 DEF Unidad
      <4> QED
        BY <1>7, <3>6, <4>1, <4>2, <4>4
    <3> QED
      BY <3>7, <3>8
  <2> HIDE DEF p
  <2> QED
    BY <1>26, <2>2, <2>3, <2>4, EfectoLock DEF p
<1>27. CASE MutexUnlock
  <2> DEFINE p == Pid(estado_exec)
  <2>1. p \in Pids /\ p \in admitidos
    BY <1>27, EnExecConProceso DEF MutexUnlock
  <2>2. CASE UNCHANGED <<kEstados, kHilos, kIO, mutex>>
    BY <1>11, <2>2 DEF kHilos, kEstados
  <2>3. ASSUME NEW i \in 1..Len(mutex[p]), SoloMutex(p, i), UNCHANGED <<kHilos, kIO>>,
               mutex'[p][i] = Liberar(mutex[p][i]),
               mutex[p][i].hilos_bloqueados = <<>>, UNCHANGED kEstados
        PROVE  Espera(h)'
    <3>1. mutex'[p][i].hilos_bloqueados = mutex[p][i].hilos_bloqueados
      BY <1>25, <2>1, <2>3, LiberarDe
    <3>2. \A j : EsperaMutex(h, j)' <=> EsperaMutex(h, j)
      <4>1. EsperaMutex(h, i) <=>
              i \in DOMAIN mutex[Pid(h)] /\ h \in ToSet(mutex[Pid(h)][i].hilos_bloqueados)
        BY DEF EsperaMutex
      <4> HIDE DEF p
      <4> QED
        BY <1>25, <2>1, <2>3, <3>1, <4>1, EsperaSolo DEF KInv
    <3>3. Activo(h)
      BY <1>4, <2>3 DEF kHilos
    <3> QED
      BY <1>6, <1>8, <1>10, <2>3, <3>2, <3>3 DEF kEstados, kHilos, kIO
  <2>4. ASSUME NEW i \in 1..Len(mutex[p]), SoloMutex(p, i), UNCHANGED <<kHilos, kIO>>,
               mutex'[p][i] = Liberar(mutex[p][i]),
               mutex[p][i].hilos_bloqueados # <<>>,
               BlockedAReady(<<Head(mutex[p][i].hilos_bloqueados)>>)
        PROVE  Espera(h)'
    <3> DEFINE c == mutex[p][i].hilos_bloqueados
    <3>1. c \in Seq(Hilos) /\ i \in DOMAIN mutex[p] /\ MutexSano(p, mutex[p][i])
      BY <1>25, <2>1 DEF KInv, MutexSanos
    <3>2. mutex'[p][i].hilos_bloqueados = Tail(c)
      BY <1>25, <2>1, <2>4, LiberarDe
    <3>3. PICK x \in Hilos : x = Head(c)
      BY <2>4, <3>1, Cola
    <3>4. ToSet(c) = {x} \cup ToSet(Tail(c)) /\ x \notin ToSet(Tail(c)) /\ Pid(x) = p
      BY <2>4, <3>1, <3>3, QuitarPrimero DEF MutexSano
    <3>5. \A j : EsperaMutex(h, j)' <=> EsperaMutex(h, j) /\ ~ (h = x /\ j = i)
      <4>1. EsperaMutex(h, i) <=>
              i \in DOMAIN mutex[Pid(h)] /\ h \in ToSet(mutex[Pid(h)][i].hilos_bloqueados)
        BY DEF EsperaMutex
      <4>2. \A j : EsperaMutex(h, j)' <=>
              IF Pid(h) = p /\ j = i THEN h \in ToSet(mutex'[p][i].hilos_bloqueados)
              ELSE EsperaMutex(h, j)
        BY <2>1, <2>4, EsperaSolo DEF KInv
      <4> HIDE DEF p, c
      <4>3. mutex[p][i].hilos_bloqueados = c
        BY DEF c
      <4> QED
        BY <3>1, <3>2, <3>4, <4>1, <4>2, <4>3
    <3>6. Activo(h)
      BY <1>4, <2>4 DEF kHilos
    <3>7. \A k : Une1(k) <=> Une(k)
      BY <1>10, <2>4 DEF kHilos
    <3>8. UNCHANGED <<cola_io, io_actual, volcados>> /\ Unico(cola_io', h)
          /\ estado_blocked' = estado_blocked \ {x}
      <4>1. BlockedAReady(<<x>>)
        BY <2>4, <3>3
      <4> QED
        BY <1>6, <1>17, <2>4, <3>6, <4>1 DEF kIO
    <3>9. CASE h # x
      BY <1>8, <3>5, <3>6, <3>7, <3>8, <3>9
    <3>10. CASE h = x
      <4>1. EsperaMutex(h, i)
        <5> HIDE DEF p
        <5> QED
          BY <3>1, <3>4, <3>10 DEF EsperaMutex
      <4>2. \A j : ~ EsperaMutex(h, j)'
        BY <1>6, <3>5, <3>6, <3>10, <4>1
      <4>3. EnMutex(h)
        BY <1>5, <4>1
      <4> QED
        BY <1>15, <1>16, <3>6, <3>7, <3>8, <3>10, <4>2, <4>3
    <3> QED
      BY <3>9, <3>10
  <2> HIDE DEF p
  <2> QED
    BY <1>27, <2>2, <2>3, <2>4, EfectoUnlock DEF p
<1>28. CASE ThreadExit
  <2> DEFINE e == estado_exec
             her == Herederos(mutex[Pid(e)], e)
             hs == her \o esperan[e]
  <2>1. /\ BlockedAReady(hs) /\ ToSet(hs) = ToSet(her) \cup ToSet(esperan[e])
        /\ \A x \in ToSet(her) : EnMutex(x)
    BY <1>28, DespiertosExit
  <2>2. /\ e \in vivos /\ e \in Hilos
        /\ vivos' = vivos \ {e} /\ esperan' = [esperan EXCEPT ![e] = <<>>]
        /\ UNCHANGED kIO
    BY <1>28, EnExecConProceso DEF ThreadExit
  <2>3. Activo(h) /\ h # e
    BY <1>4, <2>2 DEF Activo
  <2>4. \A k : Une1(k) <=> Une(k) /\ k # e
    <3>1. \A k \in Hilos : k # e => esperan'[k] = esperan[k]
      BY <2>2 DEF KInv, KTypeOK
    <3>2. vivos \subseteq Hilos
      BY DEF KInv, KTypeOK
    <3> QED
      BY <2>2, <3>1, <3>2 DEF Une, Une1
  <2>5. estado_blocked' = estado_blocked \ (ToSet(her) \cup ToSet(esperan[e]))
    BY <2>1 DEF BlockedAReady
  <2>6. h \in ToSet(esperan[e]) <=> Une(e)
    BY <2>2 DEF Une
  <2>7. \A j : EsperaMutex(h, j)' => EsperaMutex(h, j)
    BY <1>28, EsperaExit
  <2>8. h \notin ToSet(her) => \A j : EsperaMutex(h, j) => EsperaMutex(h, j)'
    BY <1>28, EsperaExit, DespiertosExit
  <2>9. h \in ToSet(her) => \A j : ~ EsperaMutex(h, j)'
    BY <1>5, <1>28, HerederosSueltos
  <2>10. UNCHANGED <<cola_io, io_actual, volcados>> /\ Unico(cola_io', h)
    BY <1>6, <2>2, <2>3 DEF kIO
  <2>11. h \in ToSet(her) => EnMutex(h)
    BY <2>1
  <2> HIDE DEF e, her, hs
  <2>12. CASE h \in ToSet(her)
    <3>1. /\ \A k : ~ Une(k)
          /\ h \notin ToSet(cola_io) /\ io_actual # h /\ h \notin volcados
      BY <1>16, <2>3, <2>11, <2>12
    <3> QED
      BY <1>15, <2>3, <2>4, <2>5, <2>9, <2>10, <2>12, <3>1
  <2>13. CASE Une(e)
    <3>1. EnJoin(h)
      BY <1>5, <2>13
    <3>2. /\ \A j : ~ EsperaMutex(h, j)
          /\ h \notin ToSet(cola_io) /\ io_actual # h /\ h \notin volcados
      BY <1>16, <2>3, <3>1
    <3>3. \A k : ~ Une1(k)
      BY <1>6, <2>3, <2>4, <2>13
    <3> QED
      BY <1>15, <2>3, <2>5, <2>6, <2>7, <2>10, <2>13, <3>2, <3>3
  <2>14. CASE h \notin ToSet(her) /\ ~ Une(e)
    BY <1>8, <2>3, <2>4, <2>5, <2>6, <2>7, <2>8, <2>10, <2>14
  <2> QED
    BY <2>12, <2>13, <2>14
<1>29. ASSUME NEW p \in Pids, PasoFinalizacion(p) PROVE Espera(h)'
  <2> DEFINE g == <<p, Last(tids[p])>>
  <2>1. p \in finalizando
    BY <1>29 DEF PasoFinalizacion, FinalizarHilo, DescontarReady, TerminarFinalizacion,
       AvisarMemoria, KInv, Hilado
  <2>2. vivos' \subseteq vivos
    BY <1>29 DEF PasoFinalizacion, FinalizarHilo, DescontarReady, TerminarFinalizacion,
       Destruir, kHilos
  <2>3. Activo(h) /\ Pid(h) # p
    BY <1>4, <2>1, <2>2 DEF Activo
  <2>4. CASE TerminarFinalizacion(p)
    <3>1. /\ mutex' = [mutex EXCEPT ![p] = <<>>] /\ UNCHANGED <<kEstados, kHilos, kIO>>
      BY <2>4 DEF TerminarFinalizacion
    <3>2. mutex'[Pid(h)] = mutex[Pid(h)]
      BY <1>3, <2>3, <3>1 DEF KInv, KTypeOK
    <3>3. \A j : EsperaMutex(h, j)' <=> EsperaMutex(h, j)
      BY <3>2 DEF EsperaMutex
    <3> QED
      BY <1>6, <1>8, <1>10, <2>3, <3>1, <3>3 DEF kEstados, kHilos, kIO
  <2>5. CASE FinalizarHilo(p) \/ DescontarReady(p)
    <3>1. /\ g \in Hilos /\ Pid(g) = p
      <4>1. tids[p] \in Seq(Tids) /\ tids[p] # <<>>
        BY <2>5 DEF KInv, KTypeOK, FinalizarHilo, DescontarReady, Hilado
      <4> QED
        BY <4>1, QuitarUltimo, NingunHilo
    <3>2. /\ estado_blocked' \in {estado_blocked \ ToSet(esperan[g]),
                                  estado_blocked \ (ToSet(esperan[g]) \cup {g}),
                                  estado_blocked \ {g}}
          /\ esperan' = [esperan EXCEPT ![g] = <<>>]
          /\ vivos' \in {vivos, vivos \ {g}}
          /\ UNCHANGED <<kIO, mutex>>
      BY <2>5 DEF FinalizarHilo, DescontarReady, Destruir
    <3> HIDE DEF g
    <3>3. h \notin ToSet(esperan[g]) /\ h # g
      BY <2>3, <3>1 DEF KInv, Uniones
    <3>4. \A k \in Hilos : esperan'[k] = IF k = g THEN <<>> ELSE esperan[k]
      BY <3>1, <3>2 DEF KInv, KTypeOK
    <3>5. ToSet(<<>>) = {}
      <4>1. <<>> \in Seq(Hilos)
        OBVIOUS
      <4> QED
        BY <4>1, Miembros
    <3>6. \A k : Une1(k) <=> Une(k)
      <4>1. vivos \subseteq Hilos /\ vivos' \subseteq Hilos
        BY DEF KInv, KTypeOK
      <4>2. ASSUME NEW k PROVE Une1(k) <=> Une(k)
        <5>1. CASE k = g
          BY <3>1, <3>3, <3>4, <3>5, <5>1 DEF Une, Une1
        <5>2. CASE k # g
          BY <3>2, <3>4, <4>1, <5>2 DEF Une, Une1
        <5> QED
          BY <5>1, <5>2
      <4> QED
        BY <4>2
    <3>7. h \in estado_blocked' <=> h \in estado_blocked
      BY <3>2, <3>3
    <3> QED
      BY <1>6, <1>8, <1>9, <2>3, <3>2, <3>6, <3>7 DEF kIO
  <2> QED
    BY <1>29, <2>4, <2>5 DEF PasoFinalizacion
<1> QED
  BY <1>12, <1>13, <1>14, <1>18, <1>19, <1>20, <1>21, <1>22, <1>23, <1>24, <1>26, <1>27,
     <1>28, <1>29 DEF KNext, Syscall, PasoLargoPlazo, PasoBaja, Tramite

(* Both of them, for every thread. *)
LEMMA EstadosPaso ==
    ASSUME KInv, KTypeOK', [KNext]_kernelVars
    PROVE  Estados'
BY LugarPaso, EsperaPaso DEF Estados

-----------------------------------------------------------------------------
(* Who joined whom. *)
LEMMA UnionesPaso ==
    ASSUME KInv, KTypeOK', [KNext]_kernelVars
    PROVE  Uniones'
<1>1. esperan \in [Hilos -> Seq(Hilos)] /\ vivos \subseteq Hilos
  BY DEF KInv, KTypeOK
<1>2. SinRepetir(<<>>) /\ ToSet(<<>>) = {}
  <2>1. <<>> \in Seq(Hilos)
    OBVIOUS
  <2>2. ToSet(<<>>) = {}
    BY <2>1, Miembros
  <2> QED
    BY <2>2 DEF SinRepetir
<1>3. ASSUME UNCHANGED esperan, vivos \subseteq vivos' PROVE Uniones'
  BY <1>3 DEF KInv, Uniones
<1>4. ASSUME NEW g \in Hilos, esperan' = [esperan EXCEPT ![g] = <<>>],
             vivos \ {g} \subseteq vivos'
      PROVE  Uniones'
  <2>1. \A k \in Hilos : esperan'[k] = IF k = g THEN <<>> ELSE esperan[k]
    BY <1>1, <1>4
  <2>2. ASSUME NEW k \in Hilos
        PROVE  /\ SinRepetir(esperan'[k])
               /\ \A h \in ToSet(esperan'[k]) : Pid(h) = Pid(k)
               /\ k \notin vivos' => esperan'[k] = <<>>
    <3>1. CASE k = g
      BY <1>2, <2>1, <3>1, Zenon
    <3>2. CASE k # g
      BY <1>4, <2>1, <3>2 DEF KInv, Uniones
    <3> QED
      BY <3>1, <3>2
  <2> QED
    BY <2>2 DEF Uniones
<1>5. CASE IniciarPrincipal \/ ThreadCreate
  BY <1>3, <1>5 DEF IniciarPrincipal, ThreadCreate
<1>6. CASE ThreadExit
  BY <1>4, <1>6, EnExecConProceso DEF ThreadExit
<1>7. CASE ThreadJoin
  <2>1. CASE UNCHANGED <<esperan, vivos>>
    BY <1>3, <2>1
  <2>2. ASSUME NEW t \in Tids, t \in ToSet(tids[Pid(estado_exec)]), EnCpuConProceso("THREAD_JOIN"),
               esperan' = [esperan EXCEPT ![<<Pid(estado_exec), t>>] = Append(@, estado_exec)],
               UNCHANGED vivos
        PROVE  Uniones'
    <3> DEFINE g == <<Pid(estado_exec), t>>
               w == Append(esperan[g], estado_exec)
    <3>1. estado_exec \in Hilos /\ Pid(estado_exec) \in Pids /\ ~ EnJoin(estado_exec)
      BY <2>2, EnExecConProceso
    <3>2. g \in Hilos /\ g \in vivos /\ Pid(g) = Pid(estado_exec)
      <4>1. g \in Hilos /\ Pid(g) = Pid(estado_exec) /\ g[2] = t
        BY <2>2, <3>1, NingunHilo
      <4> HIDE DEF g
      <4> QED
        BY <2>2, <4>1 DEF KInv, Hilado
    <3>3. esperan' = [esperan EXCEPT ![g] = w]
      BY <2>2
    <3> HIDE DEF g
    <3>4. esperan[g] \in Seq(Hilos) /\ SinRepetir(esperan[g]) /\ estado_exec \notin ToSet(esperan[g])
          /\ \A h \in ToSet(esperan[g]) : Pid(h) = Pid(g)
      BY <1>1, <3>1, <3>2 DEF EnJoin, KInv, Uniones
    <3>5. SinRepetir(w) /\ ToSet(w) = ToSet(esperan[g]) \cup {estado_exec}
      BY <3>1, <3>4, Agregar
    <3> HIDE DEF w
    <3>6. \A k \in Hilos : esperan'[k] = IF k = g THEN w ELSE esperan[k]
      BY <1>1, <3>2, <3>3
    <3>7. ASSUME NEW k \in Hilos
          PROVE  /\ SinRepetir(esperan'[k])
                 /\ \A h \in ToSet(esperan'[k]) : Pid(h) = Pid(k)
                 /\ k \notin vivos' => esperan'[k] = <<>>
      <4>1. CASE k = g
        BY <2>2, <3>2, <3>4, <3>5, <3>6, <4>1
      <4>2. CASE k # g
        BY <2>2, <3>6, <4>2 DEF KInv, Uniones
      <4> QED
        BY <4>1, <4>2
    <3> QED
      BY <3>7 DEF Uniones
  <2> QED
    BY <1>7, <2>1, <2>2 DEF ThreadJoin
<1>8. ASSUME NEW p \in Pids, PasoFinalizacion(p) PROVE Uniones'
  <2>1. CASE FinalizarHilo(p) \/ DescontarReady(p)
    <3> DEFINE g == <<p, Last(tids[p])>>
    <3>1. g \in Hilos
      <4>1. tids[p] \in Seq(Tids) /\ tids[p] # <<>>
        BY <2>1 DEF KInv, KTypeOK, FinalizarHilo, DescontarReady, Hilado
      <4> QED
        BY <4>1, QuitarUltimo, NingunHilo
    <3>2. /\ esperan' = [esperan EXCEPT ![g] = <<>>]
          /\ vivos \ {g} \subseteq vivos'
      BY <2>1 DEF FinalizarHilo, DescontarReady, Destruir
    <3> HIDE DEF g
    <3> QED
      BY <1>4, <3>1, <3>2
  <2>2. CASE TerminarFinalizacion(p)
    BY <1>3, <2>2 DEF TerminarFinalizacion, kHilos
  <2> QED
    BY <1>8, <2>1, <2>2 DEF PasoFinalizacion
<1>9. ASSUME UNCHANGED <<esperan, vivos>> PROVE Uniones'
  BY <1>3, <1>9
<1> QED
  <2>1. CASE \/ LargoPlazoSolo \/ AvisarPrincipal \/ AgregarPrincipal \/ ProcessCreate
             \/ ProcessCreateSigue \/ UsarHiloDestruido \/ Planificar \/ Desalojar
             \/ ProcessExit \/ IO \/ DumpMemory \/ MutexCreate \/ MutexLock \/ MutexUnlock
             \/ TomarIO \/ TerminarIO \/ UNCHANGED kernelVars
             \/ \E h \in Hilos : DumpConfirmado(h) \/ SacarPCB(h) \/ Tramite(h)
    BY <1>9, <2>1, TramiteDe DEF LargoPlazoSolo, AvisarPrincipal, AgregarPrincipal, ProcessCreate,
       ProcessCreateSigue, UsarHiloDestruido, Planificar, Desalojar, ProcessExit, IO, DumpMemory,
       MutexCreate, MutexLock, MutexUnlock, TomarIO, TerminarIO, DumpConfirmado, SacarPCB,
       Fallar, kHilos, kvars, kernelVars
  <2> QED
    BY <1>5, <1>6, <1>7, <1>8, <2>1 DEF KNext, Syscall, PasoLargoPlazo, PasoBaja, Tramite

-----------------------------------------------------------------------------
(* Owners and waiters of the mutexes. *)

(* A released mutex: free, or of a thread that waited for it. *)
LEMMA LiberarSano ==
    ASSUME NEW m \in Mutexes, SinRepetir(m.hilos_bloqueados)
    PROVE  LET n == Liberar(m) IN
           /\ n.esta_libre <=> n.hilo_asignado = Ninguno
           /\ n.esta_libre => n.hilos_bloqueados = <<>>
           /\ ~ n.esta_libre => n.hilo_asignado \in ToSet(m.hilos_bloqueados)
           /\ SinRepetir(n.hilos_bloqueados)
           /\ ToSet(n.hilos_bloqueados) \subseteq ToSet(m.hilos_bloqueados)
<1> DEFINE q == m.hilos_bloqueados
<1>1. q \in Seq(Hilos)
  BY DEF Mutexes
<1>2. CASE q = <<>>
  BY <1>2, LiberarDe
<1>3. CASE q # <<>>
  <2>1. /\ Liberar(m).esta_libre = FALSE /\ Liberar(m).hilo_asignado = Head(q)
        /\ Liberar(m).hilos_bloqueados = Tail(q)
    BY <1>3, LiberarDe
  <2>2. /\ Head(q) \in ToSet(q) /\ ToSet(Tail(q)) \subseteq ToSet(q) /\ SinRepetir(Tail(q))
        /\ Head(q) \in Hilos
    BY <1>1, <1>3, QuitarPrimero, Cola
  <2>3. Head(q) # Ninguno
    BY <2>2, NingunHilo
  <2> QED
    BY <2>1, <2>2, <2>3
<1> QED
  BY <1>2, <1>3

(* Every step keeps mutexes with an owner that is alive, or free and       *)
(* without waiters.                                                        *)
LEMMA MutexSanosPaso ==
    ASSUME KInv, KTypeOK', [KNext]_kernelVars, Estados', Invariante'
    PROVE  MutexSanos'
<1> DEFINE Bien(p, m) ==
             /\ m.esta_libre <=> m.hilo_asignado = Ninguno
             /\ m.esta_libre => m.hilos_bloqueados = <<>>
             /\ ~ m.esta_libre => Pid(m.hilo_asignado) = p /\ m.hilo_asignado \in vivos'
             /\ SinRepetir(m.hilos_bloqueados)
             /\ \A h \in ToSet(m.hilos_bloqueados) : Pid(h) = p /\ h \in vivos'
<1>1. [Next]_vars
  BY PasoKernel DEF KInv, Invariante
<1>2. \A q \in Pids : /\ DOMAIN mutex[q] = 1..Len(mutex[q]) /\ Len(mutex[q]) \in Nat
                      /\ DOMAIN mutex'[q] = 1..Len(mutex'[q])
                      /\ \A i \in 1..Len(mutex[q]) : mutex[q][i] \in Mutexes
  <2>1. \A q \in Pids : mutex[q] \in Seq(Mutexes) /\ mutex'[q] \in Seq(Mutexes)
    BY DEF KInv, KTypeOK
  <2> QED
    BY <2>1, LenProperties, ElementOfSeq
<1>3. /\ admitidos \subseteq Pids /\ admitidos' \subseteq Pids
      /\ admitidos \cap finalizando = {} /\ admitidos' \cap finalizando' = {}
  BY DEF KInv, KTypeOK, TypeOK, Invariante, EtapasDisjuntas
<1>4. ASSUME NEW p \in admitidos, NEW i \in 1..Len(mutex[p])
      PROVE  MutexSano(p, mutex[p][i]) /\ mutex[p][i] \in Mutexes
  BY <1>2, <1>3 DEF KInv, MutexSanos
(* That the waiters are blocked is what Estados says of them.              *)
<1>5. ASSUME \A p \in admitidos' : \A i \in 1..Len(mutex'[p]) : Bien(p, mutex'[p][i]),
             \A p \in Pids : mutex'[p] # <<>> => p \in admitidos' \cup finalizando'
      PROVE  MutexSanos'
  <2>1. ASSUME NEW p \in admitidos', NEW i \in DOMAIN mutex'[p],
               NEW h \in ToSet(mutex'[p][i].hilos_bloqueados)
        PROVE  h \in estado_blocked'
    <3>1. h \in vivos' /\ Pid(h) = p
      BY <1>2, <1>3, <1>5, <2>1
    <3>2. h \in Hilos /\ Activo(h)'
      BY <1>3, <3>1 DEF KTypeOK, Activo
    <3>3. EnMutex(h)'
      BY <2>1, <3>1 DEF EnMutex, EsperaMutex
    <3>4. Espera(h)'
      BY <3>2 DEF Estados
    <3> QED
      BY <3>3, <3>4 DEF Espera, Unidad
  <2>2. ASSUME NEW p \in admitidos', NEW i \in DOMAIN mutex'[p]
        PROVE  MutexSano(p, mutex[p][i])'
    <3>1. Bien(p, mutex'[p][i])
      BY <1>2, <1>3, <1>5, <2>2
    <3> QED
      BY <2>1, <3>1 DEF MutexSano
  <2> QED
    BY <1>5, <2>2 DEF MutexSanos
<1>6. ASSUME NEW p \in Pids, p \in admitidos \cup finalizando, ~ AvisarMemoria(p)
      PROVE  p \in admitidos' \cup finalizando'
  <2>1. CASE \/ \E k \in Hilos : BuscarProceso(k) \/ PedirFinalizacion(k) \/ SacarProceso(k)
             \/ \E q \in Pids : AvisarMemoria(q)
    BY <1>6, <2>1 DEF BuscarProceso, PedirFinalizacion, SacarProceso, AvisarMemoria
  <2>2. CASE CrearProceso \/ AgregarANew \/ AvisarNew \/ UNCHANGED vars
    BY <1>6, <2>2 DEF CrearProceso, AgregarANew, AvisarNew, vars
  <2>3. CASE PasoPlanificador
    BY <1>6, <2>3 DEF PasoPlanificador, Planificador, EsperarMemoria, EsperarNew, ObtenerProceso,
       PedirInicializacionProceso, ReponerNew, LiberarMemoriaSuficiente, IniciarHiloPrincipal,
       SacarDeNew, AgregarAReady, AvisarReady
  <2> QED
    BY <1>1, <2>1, <2>2, <2>3 DEF Next
<1>7. ASSUME NEW p \in admitidos' PROVE p \in admitidos \/ mutex[p] = <<>>
  <2>1. CASE AgregarAReady
    <3>1. p \in admitidos \/ p = proceso_a_inicializar
      BY <2>1 DEF AgregarAReady
    <3>2. lp = "agregar"
      BY <2>1 DEF AgregarAReady, Planificador
    <3> QED
      BY <3>1, <3>2, EnCamino DEF KInv, MutexSanos
  <2>2. CASE ~ AgregarAReady
    <3>1. admitidos' \subseteq admitidos
      BY <1>1, <2>2 DEF Next, PasoPlanificador, Planificador, EsperarMemoria,
         EsperarNew, ObtenerProceso, PedirInicializacionProceso, ReponerNew,
         LiberarMemoriaSuficiente, IniciarHiloPrincipal, SacarDeNew, AvisarReady,
         CrearProceso, AgregarANew, AvisarNew, BuscarProceso, PedirFinalizacion, SacarProceso, AvisarMemoria, vars
    <3> QED
      BY <3>1
  <2> QED
    BY <2>1, <2>2
(* A mutex that does not change. *)
<1>8. ASSUME NEW p \in admitidos, NEW i \in 1..Len(mutex[p]),
             \A h \in vivos : /\ Pid(h) = p
                              /\ EnMutex(h) \/ h = mutex[p][i].hilo_asignado
                              => h \in vivos'
      PROVE  Bien(p, mutex[p][i])
  <2>1. MutexSano(p, mutex[p][i])
    BY <1>4
  <2>2. \A h \in ToSet(mutex[p][i].hilos_bloqueados) : EnMutex(h)
    <3>1. i \in DOMAIN mutex[p]
      BY <1>2, <1>3
    <3> QED
      BY <2>1, <3>1 DEF MutexSano, EnMutex, EsperaMutex
  <2> QED
    BY <1>8, <2>1, <2>2 DEF MutexSano
<1> HIDE DEF Bien
<1>9. ASSUME UNCHANGED mutex, \A p \in Pids : ~ AvisarMemoria(p),
             \A h \in vivos : Pid(h) \in admitidos => h \in vivos'
      PROVE  MutexSanos'
  <2>1. ASSUME NEW p \in admitidos', NEW i \in 1..Len(mutex'[p]) PROVE Bien(p, mutex'[p][i])
    <3>1. p \in admitidos
      <4>1. CASE mutex[p] = <<>>
        <5>1. Len(<<>>) = 0
          OBVIOUS
        <5>2. i \in 1..0
          BY <1>9, <2>1, <4>1, <5>1
        <5> QED
          BY <5>2
      <4> QED
        BY <1>7, <4>1
    <3> QED
      BY <1>8, <1>9, <2>1, <3>1
  <2>2. \A p \in Pids : mutex'[p] # <<>> => p \in admitidos' \cup finalizando'
    BY <1>6, <1>9 DEF KInv, MutexSanos
  <2> QED
    BY <1>5, <2>1, <2>2
<1>11. CASE IniciarPrincipal \/ ThreadCreate
  <2>1. UNCHANGED mutex /\ vivos \subseteq vivos'
    BY <1>11 DEF IniciarPrincipal, ThreadCreate
  <2>2. \A p \in Pids : ~ AvisarMemoria(p)
    BY <1>11 DEF IniciarPrincipal, IniciarHiloPrincipal, Planificador, ThreadCreate, AvisarMemoria,
       vars
  <2> QED
    BY <1>9, <2>1, <2>2
<1>12. CASE \/ LargoPlazoSolo \/ AvisarPrincipal \/ AgregarPrincipal \/ ProcessCreate
            \/ ProcessCreateSigue \/ UsarHiloDestruido \/ Planificar \/ Desalojar
            \/ ProcessExit \/ IO \/ DumpMemory \/ ThreadJoin
            \/ TomarIO \/ TerminarIO \/ UNCHANGED kernelVars
            \/ \E h \in Hilos : DumpConfirmado(h) \/ SacarPCB(h) \/ Tramite(h)
  <2>1. UNCHANGED <<mutex, vivos>>
    BY <1>12, TramiteDe DEF LargoPlazoSolo, AvisarPrincipal, AgregarPrincipal, ProcessCreate,
       ProcessCreateSigue, UsarHiloDestruido, Planificar, Desalojar, ProcessExit, IO, DumpMemory,
       ThreadJoin, TomarIO, TerminarIO, DumpConfirmado, SacarPCB, Fallar, kHilos, kvars,
       kernelVars
  <2>2. \A p \in Pids : ~ AvisarMemoria(p)
    <3>1. CASE UNCHANGED vars
      BY <3>1 DEF vars, AvisarMemoria
    <3>2. CASE LargoPlazoSolo \/ AgregarPrincipal \/ AvisarPrincipal \/ ProcessCreate
               \/ ProcessCreateSigue
      BY <3>2 DEF LargoPlazoSolo, AgregarPrincipal, AvisarPrincipal, ProcessCreate,
         ProcessCreateSigue, Planificador, EsperarMemoria, EsperarNew, ObtenerProceso,
         PedirInicializacionProceso, ReponerNew, LiberarMemoriaSuficiente, SacarDeNew,
         AgregarAReady, AvisarReady, CrearProceso, AgregarANew, AvisarNew, AvisarMemoria
    <3>3. CASE ProcessExit \/ \E h \in Hilos : DumpConfirmado(h) \/ SacarPCB(h) \/ Tramite(h)
      <4>1. finalizando \subseteq finalizando'
        BY <3>3, TramiteDe DEF ProcessExit, DumpConfirmado, SacarPCB, BuscarProceso,
           SacarProceso, vars
      <4> QED
        BY <4>1 DEF AvisarMemoria
    <3>4. CASE \/ Planificar \/ Desalojar \/ UsarHiloDestruido \/ TomarIO \/ TerminarIO
               \/ IO \/ DumpMemory \/ ThreadJoin \/ UNCHANGED kernelVars
      BY <3>1, <3>4 DEF Planificar, Desalojar, UsarHiloDestruido, TomarIO, TerminarIO, IO,
         DumpMemory, ThreadJoin, Fallar, kernelVars
    <3> QED
      BY <1>12, <3>2, <3>3, <3>4
  <2> QED
    BY <1>9, <2>1, <2>2
(* A syscall on the mutexes of the process of the thread in EXEC.          *)
<1>13. ASSUME UNCHANGED vars, NEW e \in admitidos,
              \A q \in Pids : q # e => mutex'[q] = mutex[q],
              \A h \in vivos : Pid(h) # e => h \in vivos',
              \A i \in 1..Len(mutex'[e]) : Bien(e, mutex'[e][i])
       PROVE  MutexSanos'
  <2>1. UNCHANGED <<admitidos, finalizando>>
    BY <1>13 DEF vars
  <2>2. ASSUME NEW p \in admitidos', NEW i \in 1..Len(mutex'[p]) PROVE Bien(p, mutex'[p][i])
    <3>1. CASE p = e
      BY <1>13, <2>2, <3>1
    <3>2. CASE p # e
      BY <1>3, <1>8, <1>13, <2>1, <2>2, <3>2
    <3> QED
      BY <3>1, <3>2
  <2>3. \A p \in Pids : mutex'[p] # <<>> => p \in admitidos' \cup finalizando'
    BY <1>13, <2>1 DEF KInv, MutexSanos
  <2> QED
    BY <1>5, <2>2, <2>3
<1> DEFINE e == estado_exec
           p == Pid(e)
<1>14. ASSUME UNCHANGED <<vars, mutex, vivos>> PROVE MutexSanos'
  <2>1. \A q \in Pids : ~ AvisarMemoria(q)
    BY <1>14 DEF vars, AvisarMemoria
  <2> QED
    BY <1>9, <1>14, <2>1
<1>15. CASE MutexCreate
  <2> DEFINE n == Len(mutex[p])
  <2>1. /\ p \in Pids /\ p \in admitidos /\ n \in Nat
        /\ \A q \in Pids : q # p => mutex'[q] = mutex[q]
        /\ Len(mutex'[p]) = n + 1
        /\ \A j \in 1..n : mutex'[p][j] = mutex[p][j]
        /\ mutex'[p][n + 1].esta_libre = TRUE
        /\ mutex'[p][n + 1].hilo_asignado = Ninguno
        /\ mutex'[p][n + 1].hilos_bloqueados = <<>>
    BY <1>15, EfectoCreate
  <2>2. UNCHANGED vars /\ UNCHANGED vivos
    BY <1>15 DEF MutexCreate, kHilos
  <2>3. Bien(p, mutex'[p][n + 1])
    <3>1. SinRepetir(<<>>) /\ ToSet(<<>>) = {}
      <4>1. <<>> \in Seq(Hilos)
        OBVIOUS
      <4>2. ToSet(<<>>) = {}
        BY <4>1, Miembros
      <4> QED
        BY <4>2 DEF SinRepetir
    <3> DEFINE m == mutex'[p][n + 1]
    <3>2. m.esta_libre = TRUE /\ m.hilo_asignado = Ninguno /\ m.hilos_bloqueados = <<>>
      BY <2>1
    <3> HIDE DEF m
    <3>3. SinRepetir(m.hilos_bloqueados) /\ ToSet(m.hilos_bloqueados) = {}
      BY <3>1, <3>2, Zenon
    <3> QED
      BY <3>2, <3>3 DEF Bien, m
  <2>4. ASSUME NEW i \in 1..n PROVE Bien(p, mutex[p][i])
    BY <1>8, <2>1, <2>2, <2>4
  <2>5. \A i \in 1..n + 1 : i \in 1..n \/ i = n + 1
    BY <2>1
  <2> HIDE DEF p, n
  <2>6. \A i \in 1..Len(mutex'[p]) : Bien(p, mutex'[p][i])
    BY <2>1, <2>3, <2>4, <2>5
  <2> QED
    BY <1>13, <2>1, <2>2, <2>6
<1>16. CASE MutexLock
  <2>1. p \in admitidos /\ p \in Pids /\ e \in vivos /\ e # Ninguno /\ ~ EnMutex(e)
    BY <1>16, EnExecConProceso DEF MutexLock
  <2>2. CASE UNCHANGED <<vars, kHilos, mutex>>
    BY <1>14, <2>2 DEF kHilos
  <2>3. ASSUME NEW i \in 1..Len(mutex[p]), SoloMutex(p, i),
               mutex'[p][i].esta_libre = FALSE,
               UNCHANGED <<vars, kHilos>>,
               \/ /\ mutex[p][i].esta_libre
                  /\ mutex'[p][i].hilo_asignado = e
                  /\ mutex'[p][i].hilos_bloqueados = mutex[p][i].hilos_bloqueados
               \/ /\ ~ mutex[p][i].esta_libre
                  /\ mutex'[p][i].hilo_asignado = mutex[p][i].hilo_asignado
                  /\ mutex'[p][i].hilos_bloqueados = Append(mutex[p][i].hilos_bloqueados, e)
        PROVE  MutexSanos'
    <3> DEFINE m == mutex[p][i]
               n == mutex'[p][i]
               c == m.hilos_bloqueados
    <3>1. MutexSano(p, m) /\ m \in Mutexes /\ vivos' = vivos
      BY <1>4, <2>1, <2>3 DEF kHilos
    <3>2. c \in Seq(Hilos) /\ e \in Hilos /\ Pid(e) = p
      BY <2>1, <3>1 DEF Mutexes, KInv, KTypeOK
    <3>3. e \notin ToSet(c)
      BY <1>2, <2>1, <2>3 DEF EnMutex, EsperaMutex
    <3>4. SinRepetir(c) /\ \A h \in ToSet(c) : Pid(h) = p /\ h \in vivos
      BY <3>1 DEF MutexSano
    <3>5. SinRepetir(Append(c, e)) /\ ToSet(Append(c, e)) = ToSet(c) \cup {e}
      BY <3>2, <3>3, <3>4, Agregar
    <3> HIDE DEF p, e
    <3>6. Bien(p, n)
      <4>1. CASE /\ m.esta_libre /\ n.hilo_asignado = e /\ n.hilos_bloqueados = c
        BY <2>1, <2>3, <3>1, <3>2, <3>4, <4>1 DEF Bien
      <4>2. CASE /\ ~ m.esta_libre /\ n.hilo_asignado = m.hilo_asignado
                 /\ n.hilos_bloqueados = Append(c, e)
        <5>1. m.hilo_asignado # Ninguno /\ Pid(m.hilo_asignado) = p /\ m.hilo_asignado \in vivos
          BY <3>1, <4>2 DEF MutexSano
        <5>2. SinRepetir(n.hilos_bloqueados) /\ ToSet(n.hilos_bloqueados) = ToSet(c) \cup {e}
          BY <3>5, <4>2
        <5> QED
          BY <2>1, <2>3, <3>1, <3>2, <3>4, <4>2, <5>1, <5>2 DEF Bien
      <4> QED
        BY <2>3, <4>1, <4>2
    <3>7. \A j \in 1..Len(mutex[p]) : Bien(p, mutex[p][j])
      BY <1>8, <2>1, <3>1
    <3>8. \A j \in 1..Len(mutex'[p]) : Bien(p, mutex'[p][j])
      BY <2>3, <3>6, <3>7 DEF SoloMutex
    <3> QED
      BY <1>13, <2>1, <2>3, <3>1, <3>8 DEF SoloMutex
  <2> HIDE DEF p
  <2> QED
    BY <1>16, <2>2, <2>3, EfectoLock DEF p
<1>17. CASE MutexUnlock
  <2>1. p \in admitidos /\ p \in Pids
    BY <1>17, EnExecConProceso DEF MutexUnlock
  <2>2. CASE UNCHANGED <<vars, kHilos, mutex>>
    BY <1>14, <2>2 DEF kHilos
  <2>3. ASSUME NEW i \in 1..Len(mutex[p]), SoloMutex(p, i),
               mutex'[p][i] = Liberar(mutex[p][i]), UNCHANGED <<vars, kHilos>>
        PROVE  MutexSanos'
    <3> DEFINE m == mutex[p][i]
               n == Liberar(m)
    <3>1. MutexSano(p, m) /\ m \in Mutexes /\ vivos' = vivos
      BY <1>4, <2>1, <2>3 DEF kHilos
    <3>2. /\ SinRepetir(m.hilos_bloqueados)
          /\ \A h \in ToSet(m.hilos_bloqueados) : Pid(h) = p /\ h \in vivos
      BY <3>1 DEF MutexSano
    <3> HIDE DEF p
    <3>3. /\ n.esta_libre <=> n.hilo_asignado = Ninguno
          /\ n.esta_libre => n.hilos_bloqueados = <<>>
          /\ ~ n.esta_libre => n.hilo_asignado \in ToSet(m.hilos_bloqueados)
          /\ SinRepetir(n.hilos_bloqueados)
          /\ ToSet(n.hilos_bloqueados) \subseteq ToSet(m.hilos_bloqueados)
      BY <3>1, <3>2, LiberarSano
    <3> HIDE DEF n
    <3>4. Bien(p, n)
      BY <3>1, <3>2, <3>3 DEF Bien
    <3>5. \A j \in 1..Len(mutex[p]) : Bien(p, mutex[p][j])
      BY <1>8, <2>1, <3>1
    <3>6. \A j \in 1..Len(mutex'[p]) : Bien(p, mutex'[p][j])
      BY <2>3, <3>4, <3>5 DEF SoloMutex, n
    <3> QED
      BY <1>13, <2>1, <2>3, <3>1, <3>6 DEF SoloMutex
  <2> HIDE DEF p
  <2> QED
    BY <1>17, <2>2, <2>3, EfectoUnlock DEF p
<1>18. CASE ThreadExit
  <2>1. /\ p \in admitidos /\ p \in Pids /\ e \in vivos /\ ~ EnMutex(e)
        /\ vivos' = vivos \ {e} /\ UNCHANGED vars
    BY <1>18, EnExecConProceso DEF ThreadExit
  <2>2. /\ \A q \in Pids : q # p => mutex'[q] = mutex[q]
        /\ Len(mutex'[p]) = Len(mutex[p])
        /\ \A i \in 1..Len(mutex[p]) :
              mutex'[p][i] = IF mutex[p][i].hilo_asignado = e
                             THEN Liberar(mutex[p][i]) ELSE mutex[p][i]
    BY <1>18, EfectoExit
  <2>3. ASSUME NEW i \in 1..Len(mutex[p]) PROVE Bien(p, mutex'[p][i])
    <3> DEFINE m == mutex[p][i]
               n == Liberar(m)
    <3>1. MutexSano(p, m) /\ m \in Mutexes
      BY <1>4, <2>1
    <3>2. /\ SinRepetir(m.hilos_bloqueados)
          /\ \A h \in ToSet(m.hilos_bloqueados) : Pid(h) = p /\ h \in vivos /\ h # e
      <4>1. i \in DOMAIN mutex[p]
        BY <1>2, <2>1
      <4> QED
        BY <2>1, <3>1, <4>1 DEF MutexSano, EnMutex, EsperaMutex
    <3>3. CASE m.hilo_asignado = e
      <4> HIDE DEF p
      <4>1. /\ n.esta_libre <=> n.hilo_asignado = Ninguno
            /\ n.esta_libre => n.hilos_bloqueados = <<>>
            /\ ~ n.esta_libre => n.hilo_asignado \in ToSet(m.hilos_bloqueados)
            /\ SinRepetir(n.hilos_bloqueados)
            /\ ToSet(n.hilos_bloqueados) \subseteq ToSet(m.hilos_bloqueados)
        BY <3>1, <3>2, LiberarSano
      <4> HIDE DEF n
      <4>2. Bien(p, n)
        BY <2>1, <3>2, <4>1 DEF Bien
      <4> QED
        BY <2>2, <3>3, <4>2 DEF n
    <3>4. CASE m.hilo_asignado # e
      <4>1. mutex'[p][i] = m
        BY <2>2, <3>4
      <4>2. Bien(p, m)
        BY <1>8, <2>1, <3>4
      <4> QED
        BY <4>1, <4>2
    <3> QED
      BY <3>3, <3>4
  <2>4. \A h \in vivos : Pid(h) # p => h \in vivos'
    BY <2>1
  <2> HIDE DEF p
  <2> QED
    BY <1>13, <2>1, <2>2, <2>3, <2>4
<1>19. ASSUME NEW q \in Pids, PasoFinalizacion(q) PROVE MutexSanos'
  <2>1. q \in finalizando /\ q \notin admitidos
    BY <1>3, <1>19 DEF PasoFinalizacion, FinalizarHilo, DescontarReady, TerminarFinalizacion,
       AvisarMemoria, KInv, Hilado
  <2>2. CASE FinalizarHilo(q) \/ DescontarReady(q)
    <3>1. UNCHANGED <<vars, mutex>> /\ \A h \in vivos : Pid(h) # q => h \in vivos'
      <4>1. vivos \ {<<q, Last(tids[q])>>} \subseteq vivos'
        BY <2>2 DEF FinalizarHilo, DescontarReady, Destruir
      <4> QED
        BY <2>2, <4>1 DEF FinalizarHilo, DescontarReady, Pid
    <3>2. \A r \in Pids : ~ AvisarMemoria(r)
      BY <3>1 DEF vars, AvisarMemoria
    <3> QED
      BY <1>9, <2>1, <3>1, <3>2
  <2>3. CASE TerminarFinalizacion(q)
    <3>1. /\ mutex'[q] = <<>> /\ \A r \in Pids : r # q => mutex'[r] = mutex[r]
          /\ UNCHANGED <<vivos, admitidos>> /\ finalizando' = finalizando \ {q}
      <4>1. mutex' = [mutex EXCEPT ![q] = <<>>]
        BY <2>3 DEF TerminarFinalizacion
      <4> QED
        BY <2>3, <4>1 DEF TerminarFinalizacion, AvisarMemoria, kHilos, KInv, KTypeOK
    <3>2. ASSUME NEW r \in admitidos', NEW i \in 1..Len(mutex'[r]) PROVE Bien(r, mutex'[r][i])
      <4>1. r \in admitidos /\ r # q /\ mutex'[r] = mutex[r]
        BY <1>3, <2>1, <3>1
      <4> QED
        BY <1>8, <3>1, <3>2, <4>1
    <3>3. \A r \in Pids : mutex'[r] # <<>> => r \in admitidos' \cup finalizando'
      BY <3>1 DEF KInv, MutexSanos
    <3> QED
      BY <1>5, <3>2, <3>3
  <2> QED
    BY <1>19, <2>2, <2>3 DEF PasoFinalizacion
<1> QED
  BY <1>11, <1>12, <1>15, <1>16, <1>17, <1>18, <1>19 DEF KNext, Syscall, PasoLargoPlazo,
     PasoBaja, Tramite

-----------------------------------------------------------------------------
(* The invariant of the kernel: the processes, the threads and the mutexes *)
(* are consistent in every state, whatever the programs do.                *)
LEMMA KInvInicial == KInit => KInv
<1> SUFFICES ASSUME KInit PROVE KInv
  OBVIOUS
<1>1. KTypeOK
  BY TiposIniciales
<1>2. Invariante
  BY InvarianteInicial DEF KInit
<1>3. ToSet(<<>>) = {} /\ SinRepetir(<<>>) /\ DOMAIN <<>> = {} /\ Len(<<>>) = 0
  <2>1. <<>> \in Seq(Hilos)
    OBVIOUS
  <2>2. ToSet(<<>>) = {}
    BY <2>1, Miembros
  <2> QED
    BY <2>2 DEF SinRepetir
<1>4. \A p \in Pids : tids[p] = <<>> /\ mutex[p] = <<>>
  BY DEF KInit
<1>5. \A h \in Hilos : Pid(h) \in Pids /\ esperan[h] = <<>> /\ h # Ninguno
  BY NingunHilo DEF KInit
<1>6. /\ vivos = {} /\ descontando = {} /\ estado_ready = <<>> /\ estado_blocked = {}
      /\ estado_exec = Ninguno /\ cola_io = <<>> /\ io_actual = Ninguno /\ volcados = {}
  BY DEF KInit
<1>7. Hilado
  <2>1. \A h \in Hilos : h[2] \notin ToSet(tids[Pid(h)])
    BY <1>3, <1>4, <1>5, Zenon
  <2>2. \A p \in Pids : SinRepetir(tids[p]) /\ ToSet(tids[p]) = {}
    BY <1>3, <1>4, Zenon
  <2> QED
    BY <1>4, <1>6, <2>1, <2>2 DEF Hilado
<1>8. ASSUME NEW h \in Hilos PROVE ~ Nombrado(h)
  <2>1. ToSet(estado_ready) = {} /\ ToSet(cola_io) = {}
    BY <1>3, <1>6, Zenon
  <2>2. \A k \in Hilos : ToSet(esperan[k]) = {}
    BY <1>3, <1>5, Zenon
  <2>3. DOMAIN mutex[Pid(h)] = {}
    BY <1>3, <1>4, <1>5, Zenon
  <2> QED
    BY <1>5, <1>6, <2>1, <2>2, <2>3 DEF Nombrado, EnMutex
<1>9. Uniones
  <2>1. ASSUME NEW k \in Hilos
        PROVE  SinRepetir(esperan[k]) /\ ToSet(esperan[k]) = {} /\ esperan[k] = <<>>
    BY <1>3, <1>5, Zenon
  <2> QED
    BY <2>1 DEF Uniones
<1>10. MutexSanos
  BY <1>4 DEF MutexSanos, KInit, Init
<1> QED
  BY <1>1, <1>2, <1>6, <1>7, <1>8, <1>9, <1>10 DEF KInv, Nombres, Estados, Activo

(* The invariant of the kernel is inductive. *)
LEMMA KInvPaso ==
    ASSUME KInv, [KNext]_kernelVars
    PROVE  KInv'
<1>1. KTypeOK'
  BY TiposPaso
<1>2. Invariante'
  BY PasoKernel, InvarianteInductivo DEF KInv, Invariante
<1>3. Estados'
  BY <1>1, EstadosPaso
<1> QED
  BY <1>1, <1>2, <1>3, HiladoPaso, NombresPaso, UnionesPaso, MutexSanosPaso DEF KInv

(* The state of processes, threads and mutexes is always consistent: the   *)
(* inductive invariant on which the results below rest.                    *)
THEOREM InvarianteDelKernel == KSpec => []KInv
<1>1. KInv /\ [KNext]_kernelVars => KInv'
  BY KInvPaso
<1> QED
  BY KInvInicial, <1>1, PTL DEF KSpec

(* The invariant of the long-term planner holds inside the kernel.         *)
THEOREM InvarianteEnElKernel == KSpec => []Invariante
<1>1. KInv => Invariante
  BY DEF KInv
<1> QED
  BY <1>1, InvarianteDelKernel, PTL

(* The kernel creates one process at a time and finalises only processes   *)
(* that were admitted, whichever of its threads do it and however many at  *)
(* once: it implements LargoPlazo, double finalisations included.          *)
THEOREM KernelUsaLargoPlazo == KSpec => LargoPlazoCompuesto
<1>1. KInit => Init
  BY DEF KInit
<1>2. KInv /\ [KNext]_kernelVars => [Next]_vars
  BY PasoKernel DEF KInv
<1> QED
  BY <1>1, <1>2, InvarianteDelKernel, PTL DEF KSpec, Spec, LargoPlazoCompuesto

(* In the kernel as a whole processes are admitted in order of arrival and *)
(* into memory that has room, no wake-up of the planner is lost, and NEW   *)
(* matches its semaphore, whatever the threads, the device and the dumps   *)
(* do meanwhile.                                                           *)
THEOREM AdmisionDelKernel ==
    KSpec => AdmisionSegura /\ []SinDespertarPerdido /\ []CuentaNew
<1>1. Invariante => SinDespertarPerdido /\ CuentaNew
  BY DEF Invariante
<1> QED
  BY <1>1, InvarianteEnElKernel, KernelUsaLargoPlazo, RefinaAdmision, PTL
     DEF LargoPlazoCompuesto

(* Every variable of the kernel keeps its type.                            *)
THEOREM TiposKernel == KSpec => []KTypeOK
<1>1. KInv => KTypeOK
  BY DEF KInv
<1> QED
  BY <1>1, InvarianteDelKernel, PTL

-----------------------------------------------------------------------------
(* What the invariant says of the threads and of the mutexes.              *)

(* A blocked thread waits for exactly one thing, that will wake it, and    *)
(* one that waits is blocked: no syscall, device, dump or finaliser loses  *)
(* or duplicates a wait (syscalls.c, dispositivo-io.c).                    *)
THEOREM EsperaUnica == KSpec => []BloqueadoPorAlgo
<1>1. KInv => BloqueadoPorAlgo
  <2> SUFFICES ASSUME KInv, NEW h \in vivos, Pid(h) \notin finalizando
               PROVE  MotivosDeEspera(h) = Unidad(h \in estado_blocked)
    BY DEF BloqueadoPorAlgo
  <2>1. h \in Hilos /\ Activo(h) /\ Espera(h)
    BY DEF KInv, KTypeOK, Estados, Activo
  <2>2. Cardinality({k \in vivos : h \in ToSet(esperan[k])}) = Unidad(EnJoin(h))
    <3> DEFINE K == {k \in vivos : h \in ToSet(esperan[k])}
    <3>1. \A x, y \in K : x = y
      BY <2>1 DEF Espera
    <3>2. K = {} <=> ~ EnJoin(h)
      BY DEF EnJoin
    <3> HIDE DEF K
    <3>3. Cardinality(K) = IF K = {} THEN 0 ELSE 1
      BY <3>1, ALoSumoUno
    <3> QED
      BY <3>2, <3>3 DEF Unidad, K
  <2>3. Cardinality({i \in DOMAIN mutex[Pid(h)] :
                        h \in ToSet(mutex[Pid(h)][i].hilos_bloqueados)}) = Unidad(EnMutex(h))
    <3> DEFINE M == {i \in DOMAIN mutex[Pid(h)] :
                        h \in ToSet(mutex[Pid(h)][i].hilos_bloqueados)}
    <3>1. \A x, y \in M : x = y
      BY <2>1 DEF Espera, EsperaMutex
    <3>2. M = {} <=> ~ EnMutex(h)
      BY DEF EnMutex, EsperaMutex
    <3> HIDE DEF M
    <3>3. Cardinality(M) = IF M = {} THEN 0 ELSE 1
      BY <3>1, ALoSumoUno
    <3> QED
      BY <3>2, <3>3 DEF Unidad, M
  <2>4. Veces(cola_io, h) = Unidad(h \in ToSet(cola_io))
    <3> DEFINE V == {i \in DOMAIN cola_io : cola_io[i] = h}
    <3>1. DOMAIN cola_io = 1..Len(cola_io) /\ ToSet(cola_io) = {cola_io[i] : i \in 1..Len(cola_io)}
      BY LenProperties, Miembros DEF KInv, KTypeOK
    <3>2. \A x, y \in V : x = y
      BY <2>1, <3>1 DEF Espera, Unico
    <3>3. V = {} <=> h \notin ToSet(cola_io)
      BY <3>1
    <3> HIDE DEF V
    <3>4. Cardinality(V) = IF V = {} THEN 0 ELSE 1
      BY <3>2, ALoSumoUno
    <3> QED
      BY <3>3, <3>4 DEF Unidad, Veces, V
  <2> QED
    BY <2>1, <2>2, <2>3, <2>4 DEF MotivosDeEspera, Espera
<1> QED
  BY <1>1, InvarianteDelKernel, PTL

(* A mutex is free exactly when nobody owns it, its owner is a thread of   *)
(* the process that still exists, and its waiters are blocked: neither     *)
(* THREAD_EXIT nor MUTEX_UNLOCK leaves a waiter behind (syscalls.c).       *)
THEOREM MutexSinOlvidados == KSpec => []MutexConsistente
<1>1. KInv => MutexConsistente
  <2> SUFFICES ASSUME KInv, NEW p \in lista_procesos, NEW i \in DOMAIN mutex[p]
               PROVE  LET m == mutex[p][i] IN
                      /\ m.esta_libre <=> m.hilo_asignado = Ninguno
                      /\ m.esta_libre => m.hilos_bloqueados = <<>>
                      /\ ~m.esta_libre => /\ Pid(m.hilo_asignado) = p
                                          /\ m.hilo_asignado[2] \in ToSet(tids[p])
                      /\ ToSet(m.hilos_bloqueados) \subseteq estado_blocked
    BY DEF MutexConsistente
  <2>1. p \in Pids /\ p \notin finalizando
    BY DEF KInv, KTypeOK, TypeOK, Invariante, EtapasDisjuntas, PidsCreados, EnUso
  <2>2. mutex[p] # <<>>
    BY DEF KInv
  <2>3. p \in admitidos
    BY <2>1, <2>2 DEF KInv, MutexSanos
  <2>4. MutexSano(p, mutex[p][i])
    BY <2>3 DEF KInv, MutexSanos
  <2>5. \A h \in vivos : h[2] \in ToSet(tids[Pid(h)])
    BY DEF KInv, Hilado
  <2> QED
    BY <2>4, <2>5 DEF MutexSano
<1> QED
  BY <1>1, InvarianteDelKernel, PTL

(* A mutex changes hands only from nobody to the thread in EXEC, or from   *)
(* the thread in EXEC to the one that has waited longest, which becomes    *)
(* READY in the same step (syscalls.c, mutex_lock and liberar_mutex).      *)
THEOREM MutexEnOrden == KSpec => TransferenciaMutex
<1> DEFINE Mano(p, i) ==
             LET m == mutex[p][i]
                 dueno == mutex'[p][i].hilo_asignado
             IN  i \in DOMAIN mutex'[p] /\ dueno # m.hilo_asignado =>
                 \/ m.hilo_asignado = Ninguno /\ dueno = estado_exec
                 \/ /\ m.hilo_asignado = estado_exec
                    /\ IF m.hilos_bloqueados = <<>> THEN dueno = Ninguno
                       ELSE /\ dueno = Head(m.hilos_bloqueados)
                            /\ dueno \in ToSet(estado_ready')
<1>1. ASSUME KInv, KNext, NEW p \in lista_procesos, NEW i \in DOMAIN mutex[p]
      PROVE  Mano(p, i)
  <2> DEFINE e == estado_exec
             m == mutex[p][i]
  <2>1. /\ p \in Pids /\ DOMAIN mutex[p] = 1..Len(mutex[p]) /\ i \in 1..Len(mutex[p])
        /\ m \in Mutexes /\ m.hilos_bloqueados \in Seq(Hilos)
    <3>1. p \in Pids /\ mutex[p] \in Seq(Mutexes)
      BY <1>1 DEF KInv, KTypeOK, TypeOK
    <3>2. DOMAIN mutex[p] = 1..Len(mutex[p]) /\ m \in Mutexes
      BY <1>1, <3>1, LenProperties, ElementOfSeq
    <3> QED
      BY <1>1, <3>1, <3>2 DEF Mutexes
  <2>2. CASE mutex'[p][i] = m
    BY <2>2
  <2>3. ASSUME mutex'[p][i] = Liberar(m), m.hilo_asignado = e,
               m.hilos_bloqueados # <<>> => Head(m.hilos_bloqueados) \in ToSet(estado_ready')
        PROVE  Mano(p, i)
    <3>1. CASE m.hilos_bloqueados = <<>>
      BY <2>1, <2>3, <3>1, LiberarDe
    <3>2. CASE m.hilos_bloqueados # <<>>
      BY <2>1, <2>3, <3>2, LiberarDe
    <3> QED
      BY <3>1, <3>2
  <2>4. CASE UNCHANGED mutex
    BY <2>2, <2>4
  <2>5. ASSUME NEW hs \in Seq(Hilos), BlockedAReady(hs)
        PROVE  ToSet(hs) \subseteq ToSet(estado_ready')
    BY <1>1, <2>5, TiposBlockedAReady DEF KInv
  <2>6. CASE MutexCreate
    BY <1>1, <2>1, <2>2, <2>6, EfectoCreate
  <2>7. CASE MutexLock
    <3>1. CASE p # Pid(e) /\ ~ UNCHANGED mutex
      BY <1>1, <2>1, <2>2, <2>7, <3>1, EfectoLock DEF SoloMutex
    <3>2. CASE p = Pid(e) /\ ~ UNCHANGED mutex
      <4>1. PICK j \in 1..Len(mutex[p]) :
               /\ SoloMutex(p, j)
               /\ \/ mutex[p][j].esta_libre /\ mutex'[p][j].hilo_asignado = e
                  \/ mutex'[p][j].hilo_asignado = mutex[p][j].hilo_asignado
        BY <1>1, <2>7, <3>2, EfectoLock
      <4>2. CASE i # j
        BY <2>1, <2>2, <4>1, <4>2 DEF SoloMutex
      <4>3. CASE i = j
        <5>1. m.esta_libre => m.hilo_asignado = Ninguno
          <6>1. p \in admitidos
            BY <1>1, <2>7, <3>2, EnExecConProceso DEF MutexLock
          <6> QED
            BY <1>1, <6>1 DEF KInv, MutexSanos, MutexSano
        <5> QED
          BY <4>1, <4>3, <5>1
      <4> QED
        BY <4>2, <4>3
    <3> QED
      BY <2>4, <3>1, <3>2
  <2>8. CASE MutexUnlock
    <3>1. CASE p # Pid(e) /\ ~ UNCHANGED mutex
      BY <1>1, <2>1, <2>2, <2>8, <3>1, EfectoUnlock DEF SoloMutex
    <3>2. CASE p = Pid(e) /\ ~ UNCHANGED mutex
      <4>1. PICK j \in 1..Len(mutex[p]) :
               /\ SoloMutex(p, j)
               /\ mutex[p][j].hilo_asignado = e
               /\ mutex'[p][j] = Liberar(mutex[p][j])
               /\ mutex[p][j].hilos_bloqueados # <<>> =>
                     BlockedAReady(<<Head(mutex[p][j].hilos_bloqueados)>>)
        BY <1>1, <2>8, <3>2, EfectoUnlock
      <4>2. CASE i # j
        BY <2>1, <2>2, <4>1, <4>2 DEF SoloMutex
      <4>3. CASE i = j
        <5>1. ASSUME m.hilos_bloqueados # <<>>
              PROVE  Head(m.hilos_bloqueados) \in ToSet(estado_ready')
          <6>1. PICK x \in Hilos : x = Head(m.hilos_bloqueados)
            BY <2>1, <5>1, Cola
          <6>2. <<x>> \in Seq(Hilos) /\ ToSet(<<x>>) = {x} /\ BlockedAReady(<<x>>)
            BY <4>1, <4>3, <5>1, <6>1, ListaDeUno
          <6> QED
            BY <2>5, <6>1, <6>2
        <5> QED
          BY <2>3, <4>1, <4>3, <5>1
      <4> QED
        BY <4>2, <4>3
    <3> QED
      BY <2>4, <3>1, <3>2
  <2>9. CASE ThreadExit
    <3>1. CASE p # Pid(e) \/ m.hilo_asignado # e
      BY <1>1, <2>1, <2>2, <2>9, <3>1, EfectoExit
    <3>2. CASE p = Pid(e) /\ m.hilo_asignado = e
      <4>1. mutex'[p][i] = Liberar(m)
        BY <1>1, <2>1, <2>9, <3>2, EfectoExit
      <4>2. ASSUME m.hilos_bloqueados # <<>>
            PROVE  Head(m.hilos_bloqueados) \in ToSet(estado_ready')
        <5> DEFINE her == Herederos(mutex[Pid(e)], e)
                   hs == her \o esperan[e]
        <5>1. PICK x \in Hilos : x = Head(m.hilos_bloqueados) /\ x \in ToSet(m.hilos_bloqueados)
          BY <2>1, <4>2, QuitarPrimero, Cola
        <5>2. Pid(x) = p
          <6>1. p \in admitidos
            BY <1>1, <2>9, <3>2, EnExecConProceso DEF ThreadExit
          <6> QED
            BY <1>1, <5>1, <6>1 DEF KInv, MutexSanos, MutexSano
        <5>3. x \in ToSet(her)
          BY <1>1, <2>1, <2>9, <3>2, <4>2, <5>1, <5>2, DespiertosExit
        <5>4. hs \in Seq(Hilos) /\ BlockedAReady(hs) /\ ToSet(her) \subseteq ToSet(hs)
          BY <1>1, <2>9, DespiertosExit
        <5> HIDE DEF her, hs
        <5> QED
          BY <2>5, <5>1, <5>3, <5>4
      <4> QED
        BY <2>3, <3>2, <4>1, <4>2
    <3> QED
      BY <3>1, <3>2
  <2>10. ASSUME NEW q \in Pids, PasoFinalizacion(q) PROVE Mano(p, i)
    <3>1. CASE FinalizarHilo(q) \/ DescontarReady(q)
      BY <2>4, <3>1 DEF FinalizarHilo, DescontarReady
    <3>2. CASE TerminarFinalizacion(q)
      <4>1. mutex' = [mutex EXCEPT ![q] = <<>>]
        BY <3>2 DEF TerminarFinalizacion
      <4>2. p # q => mutex'[p] = mutex[p]
        BY <2>1, <4>1 DEF KInv, KTypeOK
      <4>3. p = q => mutex'[p] = <<>>
        BY <1>1, <2>1, <4>1 DEF KInv, KTypeOK
      <4>4. p = q => DOMAIN mutex'[p] = {}
        BY <4>3
      <4> QED
        BY <2>2, <4>2, <4>4
    <3> QED
      BY <2>10, <3>1, <3>2 DEF PasoFinalizacion
  <2>11. CASE \/ PasoLargoPlazo \/ ProcessCreate
              \/ ProcessCreateSigue \/ UsarHiloDestruido \/ Planificar \/ Desalojar
              \/ ProcessExit \/ IO \/ DumpMemory \/ ThreadJoin \/ ThreadCreate
              \/ TomarIO \/ TerminarIO
              \/ \E h \in Hilos : DumpConfirmado(h) \/ SacarPCB(h) \/ Tramite(h)
    BY <2>4, <2>11, TramiteDe DEF PasoLargoPlazo, LargoPlazoSolo, IniciarPrincipal, AvisarPrincipal,
       AgregarPrincipal, ProcessCreate, ProcessCreateSigue, UsarHiloDestruido, Planificar,
       Desalojar, ProcessExit, IO, DumpMemory, ThreadJoin, ThreadCreate, TomarIO, TerminarIO,
       DumpConfirmado, SacarPCB, Fallar, kvars
  <2> QED
    BY <1>1, <2>6, <2>7, <2>8, <2>9, <2>10, <2>11 DEF KNext, Syscall, PasoBaja, Tramite
<1>2. KInv /\ [KNext]_kernelVars =>
        [\A p \in lista_procesos : \A i \in DOMAIN mutex[p] : Mano(p, i)]_kernelVars
  BY <1>1
<1> QED
  BY <1>2, InvarianteDelKernel, PTL DEF KSpec, TransferenciaMutex

-----------------------------------------------------------------------------
(* What a freed thread leaves behind.  Waits outside of the mutexes and    *)
(* ends of whole processes do not go together: a finaliser looks for the   *)
(* threads in READY and BLOCKED only.  With one of the two left out, no    *)
(* list or queue names a freed thread, nor does estado_exec while the CPU  *)
(* has it.                                                                 *)

(* What no list or pointer of the kernel may name unless it is allocated.  *)
Pendiente(h) ==
    \/ h \in ToSet(cola_io) \/ h = io_actual \/ h \in volcados
    \/ \E k \in Hilos : h \in ToSet(esperan[k])

(* The programs never leave a thread waiting for the device, for another   *)
(* thread or for a dump; or they never end a process whole.                *)
SinPendientes == Syscalls \cap {"THREAD_JOIN", "IO", "DUMP_MEMORY"} = {}
SinFinales == Syscalls \cap {"PROCESS_EXIT", "DUMP_FALLIDO"} = {}

(* Who waits outside of READY and of the mutexes still exists. *)
PendientesVivos == \A h \in Hilos : Pendiente(h) => h \in vivos /\ ~ SinPendientes

SinBajas == finalizando = {} /\ buscando = {} /\ sacando = {}

(* Only the thread in EXEC ends its process, with the CPU stopped, one     *)
(* process at a time, and the memory is asked only for what it has.        *)
UnFinal ==
    /\ SinFinales => SinBajas
    /\ \A h \in buscando \cup sacando :
          h = estado_exec /\ sts = "finalizar" /\ finalizando = {}
    /\ \A h \in buscando : h \notin sacando /\ Pid(h) \in en_memoria
    /\ \A p \in finalizando : sts = "finalizar" /\ Pid(estado_exec) = p

(* What the finaliser takes out of READY does not stay there. *)
FinalEnReady ==
    \A p \in finalizando :
        /\ \A h \in vivos : Pid(h) = p => Unico(estado_ready, h)
        /\ p \in descontando => <<p, Last(tids[p])>> \notin ToSet(estado_ready)

(* The tokens of READY: the planner of processes posts after it adds, the  *)
(* finaliser waits after it removes.                                       *)
FichasReady ==
    semaforo_estado_ready + Unidad(lp = "avisar")
        = Len(estado_ready) + Unidad(descontando # {})

(* The main thread of a process exists before it is added to READY. *)
PrincipalCreado == lp \in {"sacar", "agregar"} => <<proceso_a_inicializar, 0>> \in vivos

(* The thread on the CPU and its process exist. *)
CpuViva == sts = "cpu" => estado_exec \in vivos /\ Pid(estado_exec) \in lista_procesos

Firme ==
    /\ SinColgantes /\ PendientesVivos /\ UnFinal /\ FinalEnReady /\ FichasReady
    /\ PrincipalCreado /\ CpuViva /\ SinFalloPropio

(* Outside of a finalisation nothing of it is in progress. *)
LEMMA SinFinalEnCurso ==
    ASSUME KInv, Firme, SinFinales \/ sts # "finalizar"
    PROVE  SinBajas /\ finalizando = {} /\ descontando = {}
BY DEF Firme, UnFinal, KInv, Hilado, SinBajas

(* A thread that exists, and is not being ended, has its PCB and its       *)
(* memory.                                                                 *)
LEMMA ConMemoria ==
    ASSUME KInv, NEW h \in vivos, Pid(h) \notin finalizando
    PROVE  /\ Pid(h) \in lista_procesos
           /\ sacando = {} => Pid(h) \in en_memoria
<1>1. h \in Hilos
  BY DEF KInv, KTypeOK
<1>2. Pid(h) \in Pids /\ tids[Pid(h)] \in Seq(Tids) /\ h[2] \in ToSet(tids[Pid(h)])
  BY <1>1, PidDe DEF KInv, KTypeOK, Hilado
<1>3. tids[Pid(h)] # <<>>
  BY <1>2, Miembros
<1>4. \/ Pid(h) \in admitidos
      \/ Pid(h) = proceso_a_inicializar /\ lp \in {"sacar", "agregar"}
  BY <1>2, <1>3 DEF KInv, Hilado
<1>5. CASE Pid(h) = proceso_a_inicializar /\ lp \in {"sacar", "agregar"}
  BY <1>5, EnCamino DEF KInv, Invariante, CabezaEstable
<1>6. CASE Pid(h) \in admitidos
  <2>1. Pid(h) \in lista_procesos
    BY <1>6 DEF KInv, Invariante, EtapasDisjuntas
  <2>2. sacando = {} => Pid(h) \in en_memoria
    BY <1>6 DEF KInv, Invariante, CabezaEstable, Liberados
  <2> QED
    BY <2>1, <2>2
<1> QED
  BY <1>4, <1>5, <1>6

(* A step that finds no finalisation in progress and leaves none. *)
LEMMA FirmeSinFinal ==
    ASSUME KInv, Firme, SinFinales \/ sts # "finalizar", UNCHANGED descontando,
           SinBajas', SinColgantes', PendientesVivos', FichasReady',
           PrincipalCreado', CpuViva', SinFalloPropio'
    PROVE  Firme'
<1>1. UnFinal'
  BY DEF UnFinal, SinBajas
<1>2. FinalEnReady'
  BY SinFinalEnCurso DEF FinalEnReady, SinBajas
<1> QED
  BY <1>1, <1>2 DEF Firme

(* The process being admitted is not one whose threads end. *)
LEMMA SiguePrincipal ==
    ASSUME KInv, Firme, UNCHANGED varsPlanificador,
           \A h \in vivos \ vivos' : Pid(h) \in admitidos \cup finalizando
    PROVE  PrincipalCreado'
<1> SUFFICES ASSUME lp \in {"sacar", "agregar"}
             PROVE  <<proceso_a_inicializar, 0>> \in vivos'
  BY DEF PrincipalCreado, varsPlanificador
<1> DEFINE x == <<proceso_a_inicializar, 0>>
<1>1. x \in vivos
  BY DEF Firme, PrincipalCreado
<1>2. Pid(x) \notin admitidos \cup finalizando
  BY EnCamino DEF Pid, KInv
<1> QED
  BY <1>1, <1>2

(* A step of which READY, BLOCKED and the waits know nothing. *)
LEMMA FirmeQuieto ==
    ASSUME KInv, Firme, UNCHANGED <<kEstados, kIO, esperan, vivos, tids, sts, descontando>>,
           UNCHANGED <<finalizando, buscando, sacando>>, SinFalloPropio',
           en_memoria \subseteq en_memoria', lista_procesos \subseteq lista_procesos',
           lp' = "avisar" <=> lp = "avisar", PrincipalCreado'
    PROVE  Firme'
<1>1. SinColgantes' /\ CpuViva' /\ UnFinal'
  BY DEF Firme, SinColgantes, CpuViva, UnFinal, SinBajas, kEstados
<1>2. FichasReady'
  BY DEF Firme, FichasReady, kEstados
<1>3. PendientesVivos'
  BY DEF Firme, PendientesVivos, Pendiente, kIO
<1>4. FinalEnReady'
  BY DEF Firme, FinalEnReady, kEstados
<1> QED
  BY <1>1, <1>2, <1>3, <1>4 DEF Firme

(* The planner of processes adds to READY a thread that exists, and posts. *)
LEMMA FirmeLargoPlazo ==
    ASSUME KInv, Firme, SinFalloPropio',
           PasoLargoPlazo \/ ProcessCreate \/ ProcessCreateSigue
    PROVE  Firme'
<1> DEFINE p == proceso_a_inicializar
<1>1. CASE ProcessCreate \/ ProcessCreateSigue
  <2>1. /\ UNCHANGED <<kEstados, kIO, esperan, vivos, tids, sts, descontando>>
        /\ UNCHANGED <<finalizando, buscando, sacando, en_memoria>>
        /\ UNCHANGED varsPlanificador /\ lista_procesos \subseteq lista_procesos'
    BY <1>1 DEF ProcessCreate, ProcessCreateSigue, CrearProceso, AgregarANew, AvisarNew,
       kvars, kHilos, varsBajas, varsMemoria
  <2>2. PrincipalCreado'
    BY <2>1, SiguePrincipal
  <2> QED
    BY <2>1, <2>2, FirmeQuieto DEF varsPlanificador
<1>2. CASE LargoPlazoSolo
  <2>1. /\ UNCHANGED <<kEstados, kIO, esperan, vivos, tids, sts, descontando>>
        /\ UNCHANGED <<finalizando, buscando, sacando, lista_procesos>>
        /\ en_memoria \subseteq en_memoria'
    BY <1>2 DEF LargoPlazoSolo, kvars, kHilos, Planificador, EsperarMemoria, EsperarNew,
       ObtenerProceso, PedirInicializacionProceso, ReponerNew, LiberarMemoriaSuficiente,
       SacarDeNew, varsBajas, varsMemoria
  <2>2. /\ lp' = "avisar" <=> lp = "avisar"
        /\ lp' \in {"sacar", "agregar"} =>
              lp = "sacar" /\ proceso_a_inicializar' = proceso_a_inicializar
    BY <1>2 DEF LargoPlazoSolo, Planificador, EsperarMemoria, EsperarNew,
       ObtenerProceso, PedirInicializacionProceso, ReponerNew, LiberarMemoriaSuficiente,
       SacarDeNew
  <2>3. PrincipalCreado'
    BY <2>1, <2>2 DEF Firme, PrincipalCreado
  <2> QED
    BY <2>1, <2>2, <2>3, FirmeQuieto
<1>3. CASE AvisarPrincipal
  <2>1. /\ lp = "avisar" /\ lp' = "esperar_memoria"
        /\ semaforo_estado_ready' = semaforo_estado_ready + 1
        /\ UNCHANGED <<estado_ready, estado_blocked, estado_exec, kHilos, kIO, sts, descontando,
                       lista_procesos, finalizando, buscando, sacando, en_memoria>>
    BY <1>3 DEF AvisarPrincipal, AvisarReady, Planificador, varsBajas, varsMemoria
  <2>2. SinColgantes' /\ CpuViva' /\ UnFinal' /\ PrincipalCreado'
    BY <2>1 DEF Firme, SinColgantes, CpuViva, UnFinal, SinBajas, PrincipalCreado, kHilos
  <2>3. PendientesVivos'
    BY <2>1 DEF Firme, PendientesVivos, Pendiente, kIO, kHilos
  <2>4. FinalEnReady'
    BY <2>1 DEF Firme, FinalEnReady, kHilos
  <2>5. FichasReady'
    <3>1. semaforo_estado_ready \in Nat /\ Len(estado_ready) \in Nat
      BY LenProperties DEF KInv, KTypeOK
    <3>2. semaforo_estado_ready + 1 = Len(estado_ready) + Unidad(descontando # {})
      BY <2>1 DEF Firme, FichasReady, Unidad
    <3> QED
      BY <2>1, <3>1, <3>2 DEF FichasReady, Unidad
  <2> QED
    BY <2>2, <2>3, <2>4, <2>5 DEF Firme
<1>4. CASE IniciarPrincipal
  <2>1. /\ lp = "hilo" /\ lp' = "sacar" /\ proceso_a_inicializar' = p
        /\ vivos' = vivos \cup {<<p, 0>>}
        /\ tids' = [tids EXCEPT ![p] = Append(@, 0)]
        /\ UNCHANGED <<kEstados, esperan, kIO, sts, descontando, lista_procesos, finalizando,
                       buscando, sacando, en_memoria>>
    BY <1>4 DEF IniciarPrincipal, IniciarHiloPrincipal, Planificador, varsBajas, varsMemoria
  <2>2. p \in Pids /\ p \notin finalizando
    BY <2>1, EnCamino DEF KInv
  <2>3. SinColgantes' /\ CpuViva' /\ UnFinal' /\ PrincipalCreado'
    BY <2>1 DEF Firme, SinColgantes, CpuViva, UnFinal, SinBajas, PrincipalCreado, kEstados
  <2>4. PendientesVivos'
    BY <2>1 DEF Firme, PendientesVivos, Pendiente, kIO
  <2>5. FinalEnReady'
    <3>1. ASSUME NEW q \in finalizando
          PROVE  /\ \A h \in vivos' : Pid(h) = q => h \in vivos
                 /\ tids'[q] = tids[q]
      <4>1. q # p /\ q \in Pids
        BY <2>2 DEF KInv, KTypeOK, TypeOK
      <4>2. tids'[q] = tids[q]
        BY <2>1, <4>1 DEF KInv, KTypeOK
      <4> QED
        BY <2>1, <4>1, <4>2 DEF Pid
    <3> QED
      BY <2>1, <3>1 DEF Firme, FinalEnReady, kEstados
  <2>6. FichasReady'
    BY <2>1 DEF Firme, FichasReady, Unidad, kEstados
  <2> QED
    BY <2>3, <2>4, <2>5, <2>6 DEF Firme
<1>5. CASE AgregarPrincipal
  <2> DEFINE x == <<p, 0>>
  <2>1. /\ lp = "agregar" /\ lp' = "avisar"
        /\ estado_ready' = Append(estado_ready, x)
        /\ UNCHANGED <<semaforo_estado_ready, estado_exec, estado_blocked, kHilos, kIO, sts,
                       descontando, lista_procesos, finalizando, buscando, sacando, en_memoria>>
    BY <1>5 DEF AgregarPrincipal, AgregarAReady, Planificador, varsBajas, varsMemoria
  <2>2. p \in Pids /\ p \notin finalizando /\ x \in Hilos /\ x \in vivos /\ Pid(x) = p
    BY <2>1, EnCamino DEF KInv, KTypeOK, Firme, PrincipalCreado, Pid
  <2>3. estado_ready \in Seq(Hilos)
    BY DEF KInv, KTypeOK
  <2> HIDE DEF x
  <2>4. /\ ToSet(estado_ready') = ToSet(estado_ready) \cup {x}
        /\ Len(estado_ready') = Len(estado_ready) + 1
    BY <2>1, <2>2, <2>3, Agregar, AgregarAlFinal
  <2>5. SinColgantes' /\ CpuViva' /\ UnFinal' /\ PrincipalCreado'
    BY <2>1, <2>2, <2>4 DEF Firme, SinColgantes, CpuViva, UnFinal, SinBajas, PrincipalCreado,
       kHilos
  <2>6. PendientesVivos'
    BY <2>1 DEF Firme, PendientesVivos, Pendiente, kIO, kHilos
  <2>7. FinalEnReady'
    <3>1. ASSUME NEW q \in finalizando, NEW h \in vivos, Pid(h) = q
          PROVE  Unico(estado_ready', h)
      <4>1. h # x /\ Unico(estado_ready, h)
        BY <2>2, <3>1 DEF Firme, FinalEnReady
      <4> QED
        BY <2>1, <2>2, <2>3, <4>1, UnicoAgregar
    <3>2. ASSUME NEW q \in descontando
          PROVE  <<q, Last(tids[q])>> \notin ToSet(estado_ready')
      <4>1. q \in finalizando /\ <<q, Last(tids[q])>> # x
        BY <2>2, <3>2 DEF KInv, Hilado, x
      <4> QED
        BY <2>4, <3>2, <4>1 DEF Firme, FinalEnReady
    <3> QED
      BY <2>1, <3>1, <3>2 DEF FinalEnReady, kHilos
  <2>8. FichasReady'
    <3>1. semaforo_estado_ready \in Nat /\ Len(estado_ready) \in Nat
      BY LenProperties DEF KInv, KTypeOK
    <3>2. semaforo_estado_ready = Len(estado_ready) + Unidad(descontando # {})
      BY <2>1, <3>1 DEF Firme, FichasReady, Unidad
    <3> QED
      BY <2>1, <2>4, <3>1, <3>2 DEF FichasReady, Unidad
  <2> QED
    BY <2>5, <2>6, <2>7, <2>8 DEF Firme
<1> QED
  BY <1>1, <1>2, <1>3, <1>4, <1>5 DEF PasoLargoPlazo

(* A step that moves threads that exist from BLOCKED to READY. *)
LEMMA FirmeDespertar ==
    ASSUME KInv, Firme, SinFinales \/ sts # "finalizar", NEW hs \in Seq(Hilos),
           BlockedAReady(hs), ToSet(hs) \subseteq vivos', estado_exec' = estado_exec,
           \A h \in vivos \ vivos' : /\ Pid(h) \in admitidos
                                     /\ h \notin ToSet(estado_ready) \cup estado_blocked,
           UNCHANGED <<vars, descontando, fallo>>, PendientesVivos',
           sts' = "cpu" => sts = "cpu" /\ vivos' = vivos
    PROVE  Firme'
<1>1. /\ ToSet(estado_ready') = ToSet(estado_ready) \cup ToSet(hs)
      /\ estado_blocked' = estado_blocked \ ToSet(hs)
  BY TiposBlockedAReady DEF KInv
<1>2. SinColgantes'
  BY <1>1 DEF Firme, SinColgantes
<1>3. FichasReady'
  <2>1. Len(estado_ready') = Len(estado_ready) + Len(hs)
    BY DEF BlockedAReady, KInv, KTypeOK
  <2>2. /\ semaforo_estado_ready' = semaforo_estado_ready + Len(hs)
        /\ lp' = lp
    BY DEF BlockedAReady, vars, varsPlanificador
  <2>3. /\ semaforo_estado_ready \in Nat /\ Len(estado_ready) \in Nat /\ Len(hs) \in Nat
        /\ semaforo_estado_ready + Unidad(lp = "avisar")
             = Len(estado_ready) + Unidad(descontando # {})
    BY LenProperties DEF KInv, KTypeOK, Firme, FichasReady
  <2> QED
    BY <2>1, <2>2, <2>3 DEF FichasReady, Unidad
<1>4. PrincipalCreado'
  BY SiguePrincipal DEF vars
<1>5. CpuViva' /\ SinFalloPropio'
  BY DEF Firme, CpuViva, SinFalloPropio, vars, varsBajas
<1>6. SinBajas'
  BY SinFinalEnCurso DEF SinBajas, vars, varsBajas
<1> QED
  BY <1>2, <1>3, <1>4, <1>5, <1>6, FirmeSinFinal

(* A step that blocks the thread in EXEC. *)
LEMMA FirmeExecABlocked ==
    ASSUME KInv, Firme, sts = "cpu", ExecABlocked, PendientesVivos',
           UNCHANGED <<vars, vivos, descontando, fallo>>
    PROVE  Firme'
<1>1. estado_exec \in vivos
  BY DEF Firme, CpuViva
<1>2. SinColgantes' /\ FichasReady'
  BY <1>1 DEF Firme, SinColgantes, FichasReady, ExecABlocked, vars, varsPlanificador
<1>3. CpuViva' /\ SinFalloPropio'
  BY DEF Firme, CpuViva, SinFalloPropio, ExecABlocked, vars, varsBajas
<1>4. PrincipalCreado'
  BY SiguePrincipal DEF vars
<1>5. SinBajas'
  BY SinFinalEnCurso DEF SinBajas, vars, varsBajas
<1> QED
  BY <1>2, <1>3, <1>4, <1>5, FirmeSinFinal

(* A crash for a reason of the program changes nothing else. *)
LEMMA FirmeFallar ==
    ASSUME KInv, Firme, NEW causa, Fallar(causa), causa \in {"mutex_inexistente", "mutex_libre"}
    PROVE  Firme'
<1>1. /\ UNCHANGED <<kEstados, kIO, esperan, vivos, tids, sts, descontando>>
      /\ UNCHANGED <<finalizando, buscando, sacando, en_memoria, lista_procesos>>
      /\ UNCHANGED varsPlanificador /\ SinFalloPropio'
  BY DEF Fallar, kHilos, vars, varsBajas, varsMemoria, Firme, SinFalloPropio
<1>2. PrincipalCreado'
  BY <1>1, SiguePrincipal
<1> QED
  BY <1>1, <1>2, FirmeQuieto DEF varsPlanificador

(* The planner takes a thread that exists, of a process that exists. *)
LEMMA FirmePlanificar ==
    ASSUME KInv, KTypeOK', Firme, Planificar
    PROVE  Firme'
<1>1. SinBajas /\ finalizando = {} /\ descontando = {} /\ sts = "planificar"
  BY SinFinalEnCurso DEF Planificar
<1>2. /\ estado_ready \in Seq(Hilos) /\ semaforo_estado_ready \in Nat \ {0}
      /\ Len(estado_ready) \in Nat
  BY LenProperties DEF Planificar, KInv, KTypeOK
<1>3. semaforo_estado_ready + Unidad(lp = "avisar") = Len(estado_ready)
  BY <1>1, <1>2 DEF Firme, FichasReady, Unidad
<1>4. estado_ready # <<>>
  BY <1>2, <1>3 DEF Unidad
<1> DEFINE g == Siguiente
<1>5. g \in ToSet(estado_ready)
  BY <1>4, SiguienteEnReady DEF KInv
<1>6. g \in vivos /\ g \in Hilos
  BY <1>2, <1>5, Miembros DEF Firme, SinColgantes
<1>7. /\ semaforo_estado_ready' = semaforo_estado_ready - 1
      /\ estado_exec' = g /\ estado_ready' = RemoveFirst(estado_ready, g) /\ sts' = "cpu"
      /\ UNCHANGED <<vars, estado_blocked, kHilos, kIO, mutex, descontando, fallo>>
  BY <1>4, <1>6 DEF Planificar
<1> HIDE DEF g
<1>8. /\ ToSet(estado_ready') \subseteq ToSet(estado_ready)
      /\ Len(estado_ready') = Len(estado_ready) - 1
  BY <1>2, <1>5, <1>7, QuitarElemento
<1>9. Pid(g) \in lista_procesos
  BY <1>1, <1>6, ConMemoria
<1>10. SinColgantes' /\ CpuViva' /\ SinFalloPropio'
  BY <1>6, <1>7, <1>8, <1>9 DEF Firme, SinColgantes, CpuViva, SinFalloPropio, kHilos, vars,
     varsBajas
<1>11. PendientesVivos'
  BY <1>7 DEF Firme, PendientesVivos, Pendiente, kHilos, kIO
<1>12. FichasReady'
  BY <1>1, <1>2, <1>3, <1>7, <1>8 DEF FichasReady, Unidad, vars, varsPlanificador
<1>13. PrincipalCreado'
  BY <1>7, SiguePrincipal DEF vars, kHilos
<1> QED
  BY <1>1, <1>7, <1>10, <1>11, <1>12, <1>13, FirmeSinFinal DEF SinBajas, vars, varsBajas

(* The thread given back at the end of its quantum exists. *)
LEMMA FirmeDesalojar ==
    ASSUME KInv, Firme, Desalojar
    PROVE  Firme'
<1>1. /\ sts = "cpu" /\ sts' = "planificar" /\ estado_exec \in vivos
      /\ estado_ready' = Append(estado_ready, estado_exec)
      /\ semaforo_estado_ready' = semaforo_estado_ready + 1
      /\ UNCHANGED <<vars, estado_blocked, kHilos, kIO, mutex, descontando, fallo>>
  BY DEF Desalojar
<1>2. /\ estado_ready \in Seq(Hilos) /\ semaforo_estado_ready \in Nat
      /\ Len(estado_ready) \in Nat /\ estado_exec \in Hilos
  BY <1>1, EnExec, LenProperties DEF KInv, KTypeOK
<1>3. /\ ToSet(estado_ready') = ToSet(estado_ready) \cup {estado_exec}
      /\ Len(estado_ready') = Len(estado_ready) + 1
  BY <1>1, <1>2, Agregar, AgregarAlFinal
<1>4. SinColgantes' /\ CpuViva' /\ SinFalloPropio'
  BY <1>1, <1>3 DEF Firme, SinColgantes, CpuViva, SinFalloPropio, kHilos, vars, varsBajas
<1>5. PendientesVivos'
  BY <1>1 DEF Firme, PendientesVivos, Pendiente, kHilos, kIO
<1>6. FichasReady'
  <2>1. semaforo_estado_ready + Unidad(lp = "avisar")
          = Len(estado_ready) + Unidad(descontando # {})
    BY DEF Firme, FichasReady
  <2> QED
    BY <1>1, <1>2, <1>3, <2>1 DEF FichasReady, Unidad, vars, varsPlanificador
<1>7. PrincipalCreado'
  BY <1>1, SiguePrincipal DEF vars, kHilos
<1>8. SinBajas'
  BY <1>1, SinFinalEnCurso DEF SinBajas, vars, varsBajas
<1> QED
  BY <1>1, <1>4, <1>5, <1>6, <1>7, <1>8, FirmeSinFinal

(* A new thread exists and is in READY with its token. *)
LEMMA FirmeThreadCreate ==
    ASSUME KInv, Firme, ThreadCreate
    PROVE  Firme'
<1>1. PICK x \in Hilos : vivos' = vivos \cup {x} /\ estado_ready' = Append(estado_ready, x)
  BY HiloNuevo
<1>2. /\ sts = "cpu" /\ semaforo_estado_ready' = semaforo_estado_ready + 1
      /\ UNCHANGED <<vars, estado_exec, estado_blocked, esperan, kIO, mutex,
                     sts, descontando, fallo>>
  BY DEF ThreadCreate, EnCpuConProceso, EnCpu
<1>3. /\ estado_ready \in Seq(Hilos) /\ semaforo_estado_ready \in Nat
      /\ Len(estado_ready) \in Nat
  BY LenProperties DEF KInv, KTypeOK
<1>4. /\ ToSet(estado_ready') = ToSet(estado_ready) \cup {x}
      /\ Len(estado_ready') = Len(estado_ready) + 1
  BY <1>1, <1>3, Agregar, AgregarAlFinal
<1>5. SinColgantes' /\ CpuViva' /\ SinFalloPropio'
  BY <1>1, <1>2, <1>4 DEF Firme, SinColgantes, CpuViva, SinFalloPropio, vars, varsBajas
<1>6. PendientesVivos'
  BY <1>1, <1>2 DEF Firme, PendientesVivos, Pendiente, kIO
<1>7. FichasReady'
  <2>1. semaforo_estado_ready + Unidad(lp = "avisar")
          = Len(estado_ready) + Unidad(descontando # {})
    BY DEF Firme, FichasReady
  <2> QED
    BY <1>2, <1>3, <1>4, <2>1 DEF FichasReady, Unidad, vars, varsPlanificador
<1>8. PrincipalCreado'
  BY <1>1, <1>2, SiguePrincipal DEF vars
<1>9. SinBajas'
  BY <1>2, SinFinalEnCurso DEF SinBajas, vars, varsBajas
<1> QED
  BY <1>2, <1>5, <1>6, <1>7, <1>8, <1>9, FirmeSinFinal

(* The syscalls that leave the thread waiting outside of the mutexes. *)
LEMMA FirmeEsperas ==
    ASSUME KInv, KTypeOK', Firme, ThreadJoin \/ IO \/ DumpMemory
    PROVE  Firme'
<1> DEFINE e == estado_exec
<1>1. sts = "cpu" /\ e \in vivos /\ e \in Hilos
  BY EnExec DEF ThreadJoin, IO, DumpMemory, EnCpuConProceso, EnCpu
<1>2. /\ ~ SinPendientes
      /\ UNCHANGED <<vars, vivos, tids, descontando, fallo>>
  BY DEF ThreadJoin, IO, DumpMemory, EnCpuConProceso, EnCpu, SinPendientes, kHilos
<1>3. \A h \in Hilos : Pendiente(h)' => Pendiente(h) \/ h = e
  <2> SUFFICES ASSUME NEW h \in Hilos, Pendiente(h)', h # e
               PROVE  Pendiente(h)
    OBVIOUS
  <2>1. CASE ThreadJoin
    <3>1. UNCHANGED kIO
      BY <2>1 DEF ThreadJoin
    <3>2. ASSUME NEW k \in Hilos, h \in ToSet(esperan'[k]) PROVE h \in ToSet(esperan[k])
      <4>1. \/ esperan' = esperan
            \/ \E t \in Tids : esperan' = [esperan EXCEPT ![<<Pid(e), t>>] = Append(@, e)]
        BY <2>1 DEF ThreadJoin
      <4>2. esperan \in [Hilos -> Seq(Hilos)]
        BY DEF KInv, KTypeOK
      <4>3. esperan'[k] = esperan[k] \/ esperan'[k] = Append(esperan[k], e)
        BY <4>1, <4>2
      <4>4. ToSet(Append(esperan[k], e)) = ToSet(esperan[k]) \cup {e}
        BY <1>1, <4>2, Agregar
      <4> QED
        BY <3>2, <4>3, <4>4
    <3> QED
      BY <3>1, <3>2 DEF Pendiente, kIO
  <2>2. CASE IO
    <3>1. cola_io' = Append(cola_io, e) /\ UNCHANGED <<io_actual, volcados, esperan>>
      BY <2>2 DEF IO, kHilos
    <3>2. ToSet(Append(cola_io, e)) = ToSet(cola_io) \cup {e}
      BY <1>1, Agregar DEF KInv, KTypeOK
    <3> QED
      BY <3>1, <3>2 DEF Pendiente
  <2>3. CASE DumpMemory
    <3>1. volcados' = volcados \cup {e} /\ UNCHANGED <<cola_io, io_actual, esperan>>
      BY <2>3 DEF DumpMemory, kHilos
    <3> QED
      BY <3>1 DEF Pendiente
  <2> QED
    BY <2>1, <2>2, <2>3
<1>4. PendientesVivos'
  BY <1>1, <1>2, <1>3 DEF Firme, PendientesVivos
<1>5. ExecABlocked \/ (UNCHANGED kEstados /\ sts' = "sin_respuesta")
  BY DEF ThreadJoin, IO, DumpMemory
<1>6. CASE UNCHANGED kEstados /\ sts' = "sin_respuesta"
  <2>1. SinColgantes' /\ FichasReady' /\ CpuViva' /\ SinFalloPropio'
    BY <1>2, <1>6 DEF Firme, SinColgantes, FichasReady, CpuViva, SinFalloPropio, kEstados,
       vars, varsPlanificador, varsBajas
  <2>2. PrincipalCreado'
    BY <1>2, SiguePrincipal DEF vars
  <2>3. SinBajas'
    BY <1>1, <1>2, SinFinalEnCurso DEF SinBajas, vars, varsBajas
  <2> QED
    BY <1>1, <1>2, <1>4, <2>1, <2>2, <2>3, FirmeSinFinal
<1> QED
  BY <1>1, <1>2, <1>4, <1>5, <1>6, FirmeExecABlocked

(* The syscalls of the mutexes: who takes one over, exists. *)
LEMMA FirmeMutex ==
    ASSUME KInv, Firme, MutexCreate \/ MutexLock \/ MutexUnlock
    PROVE  Firme'
<1> DEFINE p == Pid(estado_exec)
<1>1. p \in Pids /\ p \in admitidos /\ sts = "cpu"
  BY EnExecConProceso DEF MutexCreate, MutexLock, MutexUnlock
<1>2. UNCHANGED <<vars, kHilos, kIO, descontando>>
  BY DEF MutexCreate, MutexLock, MutexUnlock, Fallar, kernelVars, kvars
<1>3. PendientesVivos'
  BY <1>2 DEF Firme, PendientesVivos, Pendiente, kHilos, kIO
<1>4. PrincipalCreado'
  BY <1>2, SiguePrincipal DEF vars, kHilos
<1>5. ASSUME UNCHANGED <<kEstados, sts, fallo>> PROVE Firme'
  <2>1. SinFalloPropio'
    BY <1>2, <1>5 DEF Firme, SinFalloPropio, vars, varsBajas
  <2> QED
    BY <1>2, <1>4, <1>5, <2>1, FirmeQuieto
    DEF vars, varsPlanificador, varsBajas, varsMemoria, kHilos
<1>6. CASE MutexCreate
  BY <1>5, <1>6 DEF MutexCreate
<1>7. CASE MutexLock
  <2>1. \/ Fallar("mutex_inexistente")
        \/ UNCHANGED <<kEstados, sts, fallo>>
        \/ ExecABlocked /\ UNCHANGED fallo
    BY <1>7 DEF MutexLock
  <2>2. CASE Fallar("mutex_inexistente")
    BY <2>2, FirmeFallar
  <2>3. CASE ExecABlocked /\ UNCHANGED fallo
    BY <1>1, <1>2, <1>3, <2>3, FirmeExecABlocked DEF kHilos
  <2> QED
    BY <1>5, <2>1, <2>2, <2>3
<1>8. CASE MutexUnlock
  <2>1. CASE \E c \in {"mutex_inexistente", "mutex_libre"} : Fallar(c)
    BY <2>1, FirmeFallar
  <2>2. CASE UNCHANGED kernelVars
    BY <1>5, <2>2 DEF kernelVars, kvars
  <2>3. CASE ~ (UNCHANGED kernelVars) /\ ~ \E c \in {"mutex_inexistente", "mutex_libre"} : Fallar(c)
    <3>1. UNCHANGED <<sts, fallo>>
      BY <1>8, <2>3 DEF MutexUnlock
    <3>2. CASE UNCHANGED kEstados
      BY <1>5, <3>1, <3>2
    <3>3. ASSUME NEW i \in 1..Len(mutex[p]), mutex[p][i] \in Mutexes,
                 mutex[p][i].hilos_bloqueados # <<>>,
                 BlockedAReady(<<Head(mutex[p][i].hilos_bloqueados)>>), UNCHANGED estado_exec
          PROVE  Firme'
      <4> DEFINE c == mutex[p][i].hilos_bloqueados
      <4>1. c \in Seq(Hilos) /\ c # <<>>
        BY <3>3 DEF Mutexes
      <4>2. PICK x \in Hilos : x = Head(c) /\ x \in ToSet(c)
        BY <4>1, QuitarPrimero, Cola
      <4>3. x \in vivos
        <5>1. DOMAIN mutex[p] = 1..Len(mutex[p])
          BY <1>1, LenProperties DEF KInv, KTypeOK
        <5> QED
          BY <1>1, <4>2, <5>1 DEF KInv, MutexSanos, MutexSano
      <4> DEFINE hs == <<x>>
      <4>4. hs \in Seq(Hilos) /\ ToSet(hs) = {x} /\ BlockedAReady(hs)
        BY <3>3, <4>2, ListaDeUno
      <4> HIDE DEF hs
      <4> QED
        BY <1>1, <1>2, <1>3, <3>1, <3>3, <4>3, <4>4, FirmeDespertar DEF kHilos
    <3> HIDE DEF p
    <3> QED
      BY <1>8, <3>1, <3>2, <3>3, EfectoUnlock DEF p
  <2> QED
    BY <2>1, <2>2, <2>3
<1> QED
  BY <1>6, <1>7, <1>8

(* A thread that ends is in no list, and those that it wakes exist. *)
LEMMA FirmeThreadExit ==
    ASSUME KInv, Firme, ThreadExit
    PROVE  Firme'
<1> DEFINE e == estado_exec
           her == Herederos(mutex[Pid(e)], e)
           hs == her \o esperan[e]
<1>1. /\ sts = "cpu" /\ e \in vivos /\ e \in Hilos /\ Pid(e) \in admitidos
      /\ e \notin ToSet(estado_ready) /\ e \notin estado_blocked
      /\ ~ EnJoin(e) /\ ~ EnMutex(e)
      /\ e \notin ToSet(cola_io) /\ io_actual # e /\ e \notin volcados
  BY EnExecConProceso DEF ThreadExit
<1>2. /\ vivos' = vivos \ {e} /\ esperan' = [esperan EXCEPT ![e] = <<>>] /\ sts' = "planificar"
      /\ UNCHANGED <<vars, estado_exec, kIO, descontando, fallo>>
  BY DEF ThreadExit
<1>3. /\ hs \in Seq(Hilos) /\ BlockedAReady(hs)
      /\ ToSet(hs) = ToSet(her) \cup ToSet(esperan[e])
      /\ \A x \in ToSet(esperan[e]) : EnJoin(x)
      /\ \A x \in ToSet(her) : EnMutex(x) /\ Activo(x)
  BY DespiertosExit
<1>4. esperan \in [Hilos -> Seq(Hilos)]
  BY DEF KInv, KTypeOK
<1>5. \A k \in Hilos : e \notin ToSet(esperan[k])
  <2> SUFFICES ASSUME NEW k \in Hilos PROVE e \notin ToSet(esperan[k])
    OBVIOUS
  <2>1. CASE k \in vivos
    BY <1>1, <2>1 DEF EnJoin
  <2>2. CASE k \notin vivos
    <3>1. esperan[k] = <<>>
      BY <2>2 DEF KInv, Uniones
    <3> QED
      BY <1>4, <3>1, Miembros
  <2> QED
    BY <2>1, <2>2
<1>6. \A k \in Hilos : ToSet(esperan'[k]) \subseteq ToSet(esperan[k])
  <2> SUFFICES ASSUME NEW k \in Hilos PROVE ToSet(esperan'[k]) \subseteq ToSet(esperan[k])
    OBVIOUS
  <2>1. k # e => esperan'[k] = esperan[k]
    BY <1>2, <1>4
  <2>2. k = e => esperan'[k] = <<>>
    BY <1>2, <1>4
  <2>3. ToSet(<<>>) = {}
    <3>1. <<>> \in Seq(Hilos)
      OBVIOUS
    <3> QED
      BY <3>1, Miembros
  <2> QED
    BY <2>1, <2>2, <2>3
<1> HIDE DEF her, hs
<1>7. PendientesVivos'
  <2>1. \A h \in Hilos : Pendiente(h)' => Pendiente(h) /\ h # e
    BY <1>1, <1>2, <1>5, <1>6 DEF Pendiente, kIO
  <2> QED
    BY <1>2, <2>1 DEF Firme, PendientesVivos
<1>8. ToSet(hs) \subseteq vivos'
  <2>1. \A x \in ToSet(hs) : x \in Hilos
    BY <1>3, Miembros
  <2>2. \A x \in ToSet(hs) : x # e
    BY <1>1, <1>3
  <2>3. \A x \in ToSet(esperan[e]) : x \in vivos
    BY <1>1, <1>3, <2>1 DEF Firme, PendientesVivos, Pendiente
  <2> QED
    BY <1>2, <1>3, <2>2, <2>3 DEF Activo
<1> QED
  BY <1>1, <1>2, <1>3, <1>7, <1>8, FirmeDespertar

(* The device and the answers of the memory wake threads that exist. *)
LEMMA FirmePendientes ==
    ASSUME KInv, Firme, SinPendientes \/ SinFinales,
           \/ TomarIO \/ TerminarIO
           \/ \E h \in Hilos : DumpConfirmado(h)
    PROVE  Firme'
<1>1. UNCHANGED <<vars, kHilos, sts, descontando, fallo, estado_exec>>
  BY DEF TomarIO, TerminarIO, DumpConfirmado, kEstados
<1>2. cola_io \in Seq(Hilos) /\ io_actual \in Hilos \cup {Ninguno}
  BY DEF KInv, KTypeOK
<1>3. \A h \in Hilos : Pendiente(h)' => Pendiente(h)
  <2>1. CASE TomarIO
    <3>1. /\ io_actual' = Head(cola_io) /\ cola_io' = Tail(cola_io) /\ cola_io # <<>>
          /\ UNCHANGED volcados
      BY <2>1 DEF TomarIO
    <3>2. ToSet(cola_io) = {Head(cola_io)} \cup ToSet(Tail(cola_io))
      BY <1>2, <3>1, QuitarPrimero
    <3> QED
      BY <1>1, <3>1, <3>2 DEF Pendiente, kHilos
  <2>2. CASE TerminarIO
    BY <1>1, <2>2, NingunHilo DEF TerminarIO, Pendiente, kHilos
  <2>3. ASSUME NEW h \in Hilos, DumpConfirmado(h)
        PROVE  \A x \in Hilos : Pendiente(x)' => Pendiente(x)
    BY <1>1, <2>3 DEF DumpConfirmado, Pendiente, kHilos
  <2> QED
    BY <2>1, <2>2, <2>3
<1>4. PendientesVivos'
  BY <1>1, <1>3 DEF Firme, PendientesVivos, kHilos
<1>5. SinFinales
  <2>1. CASE TomarIO
    <3>1. Head(cola_io) \in ToSet(cola_io) /\ Head(cola_io) \in Hilos
      BY <1>2, <2>1, QuitarPrimero, Cola DEF TomarIO
    <3> QED
      BY <3>1 DEF Firme, PendientesVivos, Pendiente
  <2>2. CASE TerminarIO
    BY <1>2, <2>2 DEF TerminarIO, Firme, PendientesVivos, Pendiente
  <2>3. CASE \E h \in Hilos : DumpConfirmado(h)
    BY <2>3 DEF DumpConfirmado, Firme, PendientesVivos, Pendiente
  <2> QED
    BY <2>1, <2>2, <2>3
<1>6. CASE TomarIO
  <2>1. UNCHANGED kEstados
    BY <1>6 DEF TomarIO
  <2>2. SinColgantes' /\ FichasReady' /\ CpuViva' /\ SinFalloPropio'
    BY <1>1, <2>1 DEF Firme, SinColgantes, FichasReady, CpuViva, SinFalloPropio, kEstados,
       kHilos, vars, varsPlanificador, varsBajas
  <2>3. PrincipalCreado'
    BY <1>1, SiguePrincipal DEF vars, kHilos
  <2>4. SinBajas'
    BY <1>1, <1>5, SinFinalEnCurso DEF SinBajas, vars, varsBajas
  <2> QED
    BY <1>1, <1>4, <1>5, <2>2, <2>3, <2>4, FirmeSinFinal
<1>7. ASSUME NEW x \in Hilos, Pendiente(x), BlockedAReady(<<x>>)
      PROVE  Firme'
  <2> DEFINE hs == <<x>>
  <2>1. hs \in Seq(Hilos) /\ ToSet(hs) = {x} /\ BlockedAReady(hs)
    BY <1>7, ListaDeUno
  <2> HIDE DEF hs
  <2>2. x \in vivos
    BY <1>7 DEF Firme, PendientesVivos
  <2> QED
    BY <1>1, <1>4, <1>5, <2>1, <2>2, FirmeDespertar DEF kHilos
<1>8. CASE TerminarIO
  BY <1>2, <1>7, <1>8 DEF TerminarIO, Pendiente
<1>9. CASE \E h \in Hilos : DumpConfirmado(h)
  BY <1>7, <1>9 DEF DumpConfirmado, Pendiente
<1> QED
  BY <1>6, <1>8, <1>9

(* The end of a process begins with the CPU stopped, in a process that has *)
(* its memory.                                                             *)
LEMMA FirmeProcessExit ==
    ASSUME KInv, Firme, ProcessExit
    PROVE  Firme'
<1>1. /\ sts = "cpu" /\ sts' = "finalizar" /\ ~ SinFinales
      /\ buscando' = buscando \cup {estado_exec}
      /\ UNCHANGED <<sacando, finalizando, memoria, en_memoria, lista_procesos>>
      /\ UNCHANGED <<varsPlanificador, kEstados, kHilos, kIO, descontando, fallo>>
  BY DEF ProcessExit, EnCpuConProceso, EnCpu, BuscarProceso, SinFinales, varsMemoria
<1>2. SinBajas /\ descontando = {}
  BY <1>1, SinFinalEnCurso
<1>3. Pid(estado_exec) \in en_memoria
  BY <1>1, <1>2, ConMemoria DEF Firme, CpuViva, SinBajas
<1>4. SinColgantes' /\ FichasReady' /\ CpuViva' /\ SinFalloPropio'
  BY <1>1 DEF Firme, SinColgantes, FichasReady, CpuViva, SinFalloPropio, kEstados, kHilos,
     varsPlanificador
<1>5. UnFinal'
  BY <1>1, <1>2, <1>3 DEF UnFinal, SinBajas, kEstados
<1>6. PendientesVivos'
  BY <1>1 DEF Firme, PendientesVivos, Pendiente, kHilos, kIO
<1>7. FinalEnReady'
  BY <1>1, <1>2 DEF FinalEnReady, SinBajas
<1>8. PrincipalCreado'
  BY <1>1, SiguePrincipal DEF kHilos
<1> QED
  BY <1>4, <1>5, <1>6, <1>7, <1>8 DEF Firme

(* The memory frees what it has. *)
LEMMA FirmePedirBaja ==
    ASSUME KInv, Firme, NEW h \in Hilos, PedirBaja(h)
    PROVE  Firme'
<1>1. /\ h \in buscando
      /\ UNCHANGED <<varsPlanificador, lista_procesos, finalizando>>
      /\ UNCHANGED <<kEstados, kHilos, kIO, sts, descontando, fallo>>
  BY DEF PedirBaja, PedirFinalizacion, kvars
<1>2. /\ h = estado_exec /\ sts = "finalizar" /\ finalizando = {} /\ ~ SinFinales
      /\ buscando = {h} /\ sacando = {} /\ Pid(h) \in en_memoria
  BY <1>1 DEF Firme, UnFinal, SinBajas
<1>3. buscando' = {} /\ sacando' = {h} /\ UNCHANGED memoria
  BY <1>2 DEF PedirBaja, PedirFinalizacion
<1>4. SinColgantes' /\ FichasReady' /\ CpuViva' /\ SinFalloPropio'
  BY <1>1, <1>3 DEF Firme, SinColgantes, FichasReady, CpuViva, SinFalloPropio, kEstados,
     kHilos, varsPlanificador
<1>5. UnFinal'
  BY <1>1, <1>2, <1>3 DEF UnFinal, kEstados
<1>6. PendientesVivos'
  BY <1>1 DEF Firme, PendientesVivos, Pendiente, kHilos, kIO
<1>7. FinalEnReady'
  BY <1>1, <1>2 DEF FinalEnReady
<1>8. PrincipalCreado'
  BY <1>1, SiguePrincipal DEF kHilos
<1> QED
  BY <1>4, <1>5, <1>6, <1>7, <1>8 DEF Firme

(* The PCB leaves its list with the threads of the process each in one     *)
(* place.                                                                  *)
LEMMA FirmeSacarPCB ==
    ASSUME KInv, Firme, NEW h \in Hilos, SacarPCB(h)
    PROVE  Firme'
<1> DEFINE p == Pid(h)
<1>1. /\ h \in sacando /\ sacando' = sacando \ {h} /\ finalizando' = finalizando \cup {p}
      /\ volcados' \subseteq volcados
      /\ UNCHANGED <<varsPlanificador, buscando, memoria, kEstados, kHilos, cola_io, io_actual,
                     sts, descontando, fallo>>
  BY DEF SacarPCB, SacarProceso
<1>2. /\ h = estado_exec /\ sts = "finalizar" /\ finalizando = {} /\ ~ SinFinales
      /\ buscando = {} /\ sacando = {h}
  BY <1>1 DEF Firme, UnFinal, SinBajas
<1>3. SinColgantes' /\ FichasReady' /\ CpuViva' /\ SinFalloPropio'
  BY <1>1, <1>2 DEF Firme, SinColgantes, FichasReady, CpuViva, SinFalloPropio, kEstados,
     kHilos, varsPlanificador
<1>4. UnFinal'
  BY <1>1, <1>2 DEF UnFinal, kEstados
<1>5. PendientesVivos'
  BY <1>1 DEF Firme, PendientesVivos, Pendiente, kHilos
<1>6. FinalEnReady'
  <2>1. \A x \in vivos : Pid(x) = p => Unico(estado_ready, x)
    BY <1>2 DEF KInv, KTypeOK, Estados, Activo, Lugar
  <2>2. descontando = {}
    BY <1>2 DEF KInv, Hilado
  <2> QED
    BY <1>1, <1>2, <2>1, <2>2 DEF FinalEnReady, kEstados, kHilos
<1>7. PrincipalCreado'
  BY <1>1, SiguePrincipal DEF kHilos
<1> QED
  BY <1>3, <1>4, <1>5, <1>6, <1>7 DEF Firme

(* With no dumps, or no whole ends, nobody finds a process gone.           *)
LEMMA SinTropiezos ==
    ASSUME KInv, Firme, SinPendientes \/ SinFinales, NEW h \in Hilos
    PROVE  ~ DumpFallido(h) /\ ~ UsarProcesoLiberado(h)
<1>1. ~ DumpFallido(h)
  BY DEF DumpFallido, Firme, PendientesVivos, Pendiente, SinFinales
<1>2. SUFFICES ASSUME UsarProcesoLiberado(h) PROVE FALSE
  BY <1>1
<1>3. Pid(h) \notin en_memoria /\ (h \in volcados \/ (h = estado_exec /\ sts = "cpu"))
  BY <1>2 DEF UsarProcesoLiberado, EnCpuConProceso, EnCpu
<1>4. h \in vivos /\ (SinFinales \/ sts = "cpu")
  BY <1>3 DEF Firme, PendientesVivos, Pendiente, CpuViva
<1>5. SinBajas
  BY <1>4, SinFinalEnCurso
<1> QED
  BY <1>3, <1>4, <1>5, ConMemoria DEF SinBajas

(* Where a finaliser is: alone, nobody waits outside of the mutexes. *)
LEMMA EnFinal ==
    ASSUME KInv, Firme, SinPendientes \/ SinFinales, NEW p \in finalizando
    PROVE  /\ sts = "finalizar" /\ p \in Pids /\ finalizando = {p}
           /\ descontando \subseteq {p}
           /\ \A h \in Hilos : ~ Pendiente(h) /\ esperan[h] = <<>>
<1>1. /\ sts = "finalizar" /\ finalizando = {p} /\ SinPendientes
  BY DEF Firme, UnFinal, SinBajas
<1>2. \A h \in Hilos : ~ Pendiente(h)
  BY <1>1 DEF Firme, PendientesVivos
<1>3. ASSUME NEW h \in Hilos PROVE esperan[h] = <<>>
  <2>1. esperan[h] \in Seq(Hilos)
    BY DEF KInv, KTypeOK
  <2>2. ToSet(esperan[h]) = {}
    BY <1>2, <2>1, Miembros DEF Pendiente
  <2> QED
    BY <2>1, <2>2, Miembros
<1> QED
  BY <1>1, <1>2, <1>3 DEF KInv, KTypeOK, TypeOK, Hilado

(* The thread that a finaliser goes for is one of its process, and         *)
(* destroying it leaves the others.                                        *)
LEMMA UltimoHilo ==
    ASSUME KInv, NEW p \in Pids, tids[p] # <<>>
    PROVE  /\ <<p, Last(tids[p])>> \in Hilos /\ Pid(<<p, Last(tids[p])>>) = p
           /\ <<p, Last(tids[p])>> \in vivos
<1>1. tids[p] \in Seq(Tids)
  BY DEF KInv, KTypeOK
<1>2. Last(tids[p]) \in Tids /\ Last(tids[p]) \in ToSet(tids[p])
  BY <1>1, QuitarUltimo
<1>3. PICK x \in Hilos : x = <<p, Last(tids[p])>> /\ Pid(x) = p /\ x[2] = Last(tids[p])
  BY <1>2, NingunHilo
<1> QED
  BY <1>2, <1>3 DEF KInv, Hilado

(* One turn of the loop: the thread leaves READY, or it is destroyed once  *)
(* it is not there.                                                        *)
LEMMA FirmeFinalizarHilo ==
    ASSUME KInv, Firme, SinPendientes \/ SinFinales, NEW p \in Pids,
           FinalizarHilo(p) \/ DescontarReady(p)
    PROVE  Firme'
<1> DEFINE h == <<p, Last(tids[p])>>
<1>1. p \in finalizando /\ tids[p] # <<>>
  BY DEF FinalizarHilo, DescontarReady, KInv, Hilado
<1>2. /\ sts = "finalizar" /\ finalizando = {p} /\ descontando \subseteq {p}
      /\ \A x \in Hilos : ~ Pendiente(x) /\ esperan[x] = <<>>
  BY <1>1, EnFinal
<1>3. h \in Hilos /\ Pid(h) = p /\ h \in vivos
  BY <1>1, UltimoHilo
<1>4. /\ estado_ready \in Seq(Hilos) /\ semaforo_estado_ready \in Nat
      /\ Len(estado_ready) \in Nat
      /\ semaforo_estado_ready + Unidad(lp = "avisar")
           = Len(estado_ready) + Unidad(descontando # {})
  BY LenProperties DEF KInv, KTypeOK, Firme, FichasReady
<1>5. /\ UNCHANGED <<vars, estado_exec, kIO, sts, fallo>>
      /\ esperan' = [esperan EXCEPT ![h] = <<>>]
  BY DEF FinalizarHilo, DescontarReady, Destruir
<1>6. PendientesVivos'
  <2>1. esperan' = esperan
    BY <1>2, <1>3, <1>5 DEF KInv, KTypeOK
  <2>2. \A x \in Hilos : ~ Pendiente(x)'
    BY <1>2, <1>5, <2>1 DEF Pendiente, kIO
  <2> QED
    BY <2>2 DEF PendientesVivos
<1>7. vivos' = vivos \/ vivos' = vivos \ {h}
  BY DEF FinalizarHilo, DescontarReady, Destruir
<1>8. PrincipalCreado'
  BY <1>1, <1>3, <1>5, <1>7, SiguePrincipal DEF vars
<1>9. UnFinal' /\ CpuViva' /\ SinFalloPropio'
  BY <1>2, <1>5 DEF Firme, UnFinal, SinBajas, CpuViva, SinFalloPropio, vars, varsBajas,
     varsMemoria
<1>10. Unico(estado_ready, h) /\ \A x \in vivos : Pid(x) = p => Unico(estado_ready, x)
  BY <1>1, <1>3 DEF Firme, FinalEnReady
<1>11. ASSUME vivos' = vivos \ {h}, descontando' = {}, UNCHANGED estado_ready,
              h \notin ToSet(estado_ready), estado_blocked' = estado_blocked \ {h},
              semaforo_estado_ready' + Unidad(lp = "avisar") = Len(estado_ready)
       PROVE  Firme'
  <2>1. SinColgantes'
    BY <1>11 DEF Firme, SinColgantes
  <2>2. FichasReady'
    <3>1. lp' = lp /\ Unidad(descontando' # {}) = 0
      BY <1>5, <1>11 DEF vars, varsPlanificador, Unidad
    <3> QED
      BY <1>4, <1>11, <3>1 DEF FichasReady
  <2>3. FinalEnReady'
    BY <1>2, <1>5, <1>10, <1>11 DEF FinalEnReady, vars
  <2> QED
    BY <1>6, <1>8, <1>9, <2>1, <2>2, <2>3 DEF Firme
<1>12. CASE DescontarReady(p)
  <2>1. /\ p \in descontando /\ semaforo_estado_ready' = semaforo_estado_ready - 1
        /\ semaforo_estado_ready > 0 /\ UNCHANGED estado_ready
        /\ estado_blocked' = estado_blocked \ {h} /\ vivos' = vivos \ {h}
        /\ descontando' = descontando \ {p}
    BY <1>12 DEF DescontarReady, Destruir
  <2>2. h \notin ToSet(estado_ready)
    BY <1>1, <2>1 DEF Firme, FinalEnReady
  <2>3. descontando' = {} /\ Unidad(descontando # {}) = 1
    BY <1>2, <2>1 DEF Unidad
  <2>4. semaforo_estado_ready' + Unidad(lp = "avisar") = Len(estado_ready)
    BY <1>4, <2>1, <2>3 DEF Unidad
  <2> QED
    BY <1>11, <2>1, <2>2, <2>3, <2>4
<1>13. CASE FinalizarHilo(p)
  <2>1. descontando = {}
    BY <1>2, <1>13 DEF FinalizarHilo
  <2>2. /\ esperan[h] = <<>> /\ Len(esperan[h]) = 0 /\ ToSet(esperan[h]) = {}
        /\ estado_ready \o esperan[h] = estado_ready
    <3>1. esperan[h] = <<>>
      BY <1>2, <1>3
    <3>2. <<>> \in Seq(Hilos) /\ Len(<<>>) = 0 /\ estado_ready \o <<>> = estado_ready
      BY <1>4
    <3>3. ToSet(<<>>) = {}
      BY <3>2, Miembros
    <3> QED
      BY <3>1, <3>2, <3>3
  <2>3. /\ estado_ready' = RemoveFirst(estado_ready, h)
        /\ semaforo_estado_ready' = semaforo_estado_ready + 0
    BY <1>13, <2>2 DEF FinalizarHilo
  <2>4. CASE h \in ToSet(estado_ready)
    <3>1. /\ descontando' = {p} /\ estado_blocked' = estado_blocked
          /\ UNCHANGED <<tids, vivos>>
      BY <1>13, <2>1, <2>2, <2>4 DEF FinalizarHilo
    <3> HIDE DEF h
    <3>2. /\ ToSet(estado_ready') \subseteq ToSet(estado_ready)
          /\ Len(estado_ready') = Len(estado_ready) - 1
          /\ h \notin ToSet(estado_ready')
          /\ \A x \in vivos : Pid(x) = p => Unico(estado_ready', x)
      BY <1>4, <1>10, <2>3, <2>4, QuitarElemento, UnicoQuitar
    <3>3. SinColgantes'
      BY <3>1, <3>2 DEF Firme, SinColgantes
    <3>4. FichasReady'
      <4>1. lp' = lp /\ Unidad(descontando # {}) = 0 /\ Unidad(descontando' # {}) = 1
        BY <1>5, <2>1, <3>1 DEF vars, varsPlanificador, Unidad
      <4> QED
        BY <1>4, <2>3, <3>2, <4>1 DEF FichasReady, Unidad
    <3>5. FinalEnReady'
      BY <1>2, <1>5, <3>1, <3>2 DEF FinalEnReady, vars, h
    <3> QED
      BY <1>6, <1>8, <1>9, <3>3, <3>4, <3>5 DEF Firme
  <2>5. CASE h \notin ToSet(estado_ready)
    <3>1. /\ UNCHANGED descontando /\ vivos' = vivos \ {h}
          /\ estado_blocked' = estado_blocked \ {h}
      BY <1>13, <2>2, <2>5 DEF FinalizarHilo, Destruir
    <3>2. UNCHANGED estado_ready
      <4> HIDE DEF h
      <4> QED
        BY <1>4, <2>3, <2>5, QuitarElemento
    <3>3. semaforo_estado_ready' + Unidad(lp = "avisar") = Len(estado_ready)
      BY <1>4, <2>1, <2>3 DEF Unidad
    <3> QED
      BY <1>11, <2>1, <2>5, <3>1, <3>2, <3>3
  <2> QED
    BY <2>4, <2>5
<1> QED
  BY <1>12, <1>13

(* Once it has no threads left, the planner goes on. *)
LEMMA FirmeTerminar ==
    ASSUME KInv, Firme, SinPendientes \/ SinFinales, NEW p \in Pids, TerminarFinalizacion(p)
    PROVE  Firme'
<1>1. /\ p \in finalizando /\ tids[p] = <<>> /\ finalizando' = finalizando \ {p}
      /\ UNCHANGED <<varsPlanificador, buscando, sacando, memoria, kEstados, kHilos, kIO,
                     descontando, fallo>>
      /\ sts' = IF sts = "finalizar" /\ Pid(estado_exec) = p /\ estado_exec \notin buscando
                THEN "planificar" ELSE sts
  BY DEF TerminarFinalizacion, AvisarMemoria
<1>2. /\ sts = "finalizar" /\ finalizando = {p} /\ descontando \subseteq {p}
      /\ buscando = {} /\ sacando = {}
  BY <1>1, EnFinal DEF Firme, UnFinal
<1>3. finalizando' = {} /\ descontando = {} /\ sts' = "planificar"
  BY <1>1, <1>2 DEF KInv, Hilado, Firme, UnFinal
<1>4. SinColgantes' /\ FichasReady' /\ CpuViva' /\ SinFalloPropio' /\ UnFinal' /\ FinalEnReady'
  BY <1>1, <1>2, <1>3 DEF Firme, SinColgantes, FichasReady, CpuViva, SinFalloPropio, UnFinal,
     SinBajas, FinalEnReady, kEstados, kHilos, varsPlanificador
<1>5. PendientesVivos'
  BY <1>1 DEF Firme, PendientesVivos, Pendiente, kHilos, kIO
<1>6. PrincipalCreado'
  BY <1>1, SiguePrincipal DEF kHilos
<1> QED
  BY <1>4, <1>5, <1>6 DEF Firme

(* It holds when the kernel starts. *)
LEMMA FirmeInicial == KInit => Firme
<1> SUFFICES ASSUME KInit PROVE Firme
  OBVIOUS
<1>1. <<>> \in Seq(Hilos) /\ Len(<<>>) = 0
  OBVIOUS
<1>2. ToSet(<<>>) = {}
  BY <1>1, Miembros
<1>3. ~ \E h \in Hilos : Pendiente(h)
  BY <1>2, NingunHilo DEF KInit, Pendiente
<1>4. /\ SinColgantes /\ UnFinal /\ FinalEnReady /\ PrincipalCreado /\ CpuViva
      /\ SinFalloPropio
  BY <1>2 DEF KInit, Init, SinColgantes, UnFinal, SinBajas, FinalEnReady, PrincipalCreado, CpuViva,
     SinFalloPropio
<1>5. FichasReady
  BY <1>1 DEF KInit, Init, FichasReady, Unidad
<1> QED
  BY <1>3, <1>4, <1>5 DEF Firme, PendientesVivos

(* Every step keeps it: no wait is pending when a process is ended whole. *)
LEMMA FirmePaso ==
    ASSUME KInv, Firme, SinPendientes \/ SinFinales, [KNext]_kernelVars
    PROVE  Firme'
<1>1. KTypeOK'
  BY TiposPaso
<1>2. CASE UNCHANGED kernelVars
  <2>1. UNCHANGED <<kEstados, kIO, kHilos, sts, descontando, vars, fallo>> /\ SinFalloPropio'
    BY <1>2 DEF kernelVars, kvars, vars, varsBajas, Firme, SinFalloPropio
  <2>2. PrincipalCreado'
    BY <2>1, SiguePrincipal DEF vars, kHilos
  <2> QED
    BY <2>1, <2>2, FirmeQuieto DEF vars, varsPlanificador, varsBajas, varsMemoria, kHilos
<1>3. CASE PasoLargoPlazo \/ ProcessCreate \/ ProcessCreateSigue
  <2>1. UNCHANGED <<memoria, fallo>>
    <3>1. CASE PasoLargoPlazo
      <4>1. UNCHANGED fallo
        BY <3>1 DEF PasoLargoPlazo, LargoPlazoSolo, IniciarPrincipal, AgregarPrincipal,
           AvisarPrincipal, kvars
      <4>2. PasoPlanificador
        BY <3>1 DEF PasoLargoPlazo, LargoPlazoSolo, IniciarPrincipal, AgregarPrincipal,
           AvisarPrincipal, PasoPlanificador
      <4>3. UNCHANGED varsBajas
        BY <4>2 DEF PasoPlanificador, Planificador, EsperarMemoria, EsperarNew, ObtenerProceso,
           PedirInicializacionProceso, ReponerNew, LiberarMemoriaSuficiente,
           IniciarHiloPrincipal, SacarDeNew, AgregarAReady, AvisarReady
      <4> QED
        BY <4>1, <4>3 DEF varsBajas
    <3>2. CASE ProcessCreate \/ ProcessCreateSigue
      BY <3>2 DEF ProcessCreate, ProcessCreateSigue, CrearProceso, AgregarANew, AvisarNew,
         kvars, varsBajas
    <3> QED
      BY <1>3, <3>1, <3>2
  <2> QED
    BY <1>3, <2>1, FirmeLargoPlazo DEF Firme, SinFalloPropio
<1>4. ~ UsarHiloDestruido
  BY DEF UsarHiloDestruido, Firme, CpuViva
<1>5. \A h \in Hilos : ~ DumpFallido(h) /\ ~ UsarProcesoLiberado(h)
  BY SinTropiezos
<1>6. ASSUME NEW p \in Pids, PasoFinalizacion(p) PROVE Firme'
  BY <1>6, FirmeFinalizarHilo, FirmeTerminar DEF PasoFinalizacion
<1>7. ASSUME NEW h \in Hilos, PasoBaja(h) PROVE Firme'
  BY <1>7, FirmePedirBaja, FirmeSacarPCB DEF PasoBaja
<1> QED
  BY <1>1, <1>2, <1>3, <1>4, <1>5, <1>6, <1>7, FirmePlanificar, FirmeDesalojar, FirmeThreadCreate,
     FirmeEsperas, FirmeMutex, FirmeThreadExit, FirmePendientes, FirmeProcessExit
     DEF KNext, Syscall

(* So it holds always. *)
LEMMA KernelFirme ==
    ASSUME SinPendientes \/ SinFinales
    PROVE  KSpec => []Firme
<1>1. KInv /\ Firme /\ [KNext]_kernelVars => Firme'
  BY FirmePaso
<1> QED
  BY FirmeInicial, <1>1, InvarianteDelKernel, PTL DEF KSpec

(* READY and BLOCKED hold no thread whose TCB was freed (syscalls.c:191),  *)
(* if the programs never wait for another thread, the device or a dump, or *)
(* if they never end a process whole; with one of those waits and a whole  *)
(* end they may.                                                           *)
THEOREM ListasSinColgantes ==
    ASSUME SinPendientes \/ SinFinales
    PROVE  KSpec => []SinColgantes
<1>1. Firme => SinColgantes
  BY DEF Firme
<1> QED
  BY <1>1, KernelFirme, PTL

(* Under the same condition the kernel only crashes when a program misuses *)
(* a mutex.                                                                *)
THEOREM KernelNoSeCae ==
    ASSUME SinPendientes \/ SinFinales
    PROVE  KSpec => []SinFalloPropio
<1>1. Firme => SinFalloPropio
  BY DEF Firme
<1> QED
  BY <1>1, KernelFirme, PTL

(* Under the same condition the planner finds a thread in READY whenever   *)
(* the semaphore lets it pass (planificador-corto-plazo.c:25), and the     *)
(* thread that the CPU executes exists (syscalls.c:191).                   *)
THEOREM PlanificadorSinSorpresas ==
    ASSUME SinPendientes \/ SinFinales
    PROVE  KSpec => []NuncaReadyVacio /\ []ExecVivo
<1>1. Firme => NuncaReadyVacio /\ ExecVivo
  BY DEF Firme, SinFalloPropio, NuncaReadyVacio, CpuViva, ExecVivo
<1> QED
  BY <1>1, KernelFirme, PTL
=============================================================================
