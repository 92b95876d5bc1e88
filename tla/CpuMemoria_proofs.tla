-------------------------- MODULE CpuMemoria_proofs --------------------------
(***************************************************************************)
(* Proofs about CpuMemoria, for any programs, any numbers of processes,    *)
(* threads and threads of the memory module, and any memory: its lists are *)
(* complete, the one way it falls, and the CPU and the memory implement    *)
(* Maquina.                                                                *)
(*                                                                         *)
(* Hypotheses, each with the run that shows what happens without it:       *)
(*   ~Solapadas: no finalisation overlaps with a walk of the lists, of a   *)
(*     dump too (MCCpuMemoriaLiberado);                                    *)
(*   SinDobles: a process has one thread being created at a time           *)
(*     (MCCpuMemoriaDoble); it holds when one thread of the memory serves  *)
(*     the creations, as in the corollaries;                               *)
(*   ProgramasCorrectos: the programs do not write Base nor Limite         *)
(*     (MCCpuMemoriaLimite);                                               *)
(*   EnSuMemoria: no access goes past the end of the memory.               *)
(*                                                                         *)
(* The invariant says of each list that it is sorted, from its head; of    *)
(* each handler, which walks it has left and where it is in the one in     *)
(* course; of each thread, in which queue it is; and of the CPU, what it   *)
(* holds and waits for.                                                    *)
(***************************************************************************)
EXTENDS CpuMemoria, Listas

-----------------------------------------------------------------------------
(* The order of the lists: nodes are appended by PID, and by TID.          *)
Nro(n) == n[Len(n)]

EnLista(l) == {n \in existe : Lista(n) = l}
Mayores(n) == {m \in EnLista(Lista(n)) : Nro(n) < Nro(m)}

(* x is the first of S, or null when there is none. *)
EsPrimero(x, S) == IF S = {} THEN x = Nulo ELSE x \in S /\ \A m \in S : Nro(x) <= Nro(m)

(* The head of a list is its first node, and each node points to the next. *)
Enlazadas ==
    /\ existe \subseteq Nodos
    /\ \A h \in existe \cap Hilos : Proceso(h) \in existe
    /\ \A l \in {<<>>} \cup (existe \cap Procesos) : EsPrimero(primero[l], EnLista(l))
    /\ \A n \in existe : EsPrimero(siguiente[n], Mayores(n))

-----------------------------------------------------------------------------
(* The handlers in course. *)

Consultas == {"DEVOLVER_CONTEXTO", "DEVOLVER_INSTRUCCION", "ACTUALIZAR_CONTEXTO"}
Altas == {"CREAR_PROCESO", "CREAR_HILO"}
Bajas == {"FINALIZAR_PROCESO", "FINALIZAR_HILO"}

(* The walks that may be left of each request. *)
Restos(op, n) ==
    LET p == Hasta(Proceso(n))
        h == Hasta(n)
        u == AlUltimo(n)
    IN  IF op = "CREAR_PROCESO" THEN {<<u>>, <<>>}
        ELSE IF op = "FINALIZAR_PROCESO" THEN {<<h>>, <<>>}
        ELSE IF op = "CREAR_HILO" THEN {<<p, u>>, <<u>>, <<>>}
        ELSE IF op = "DUMP_MEMORY" THEN {<<p>>, <<>>}
        ELSE {<<p, h>>, <<h>>, <<>>}
             \cup (IF op = "DEVOLVER_CONTEXTO" THEN {<<p, p, h>>} ELSE {})
             \cup (IF op = "DEVOLVER_INSTRUCCION" THEN {<<p, h, p, h>>, <<h, p, h>>} ELSE {})

(* previo is the node before n in the list l, null if n is its head. *)
Precede(previo, n, l) ==
    IF previo = Nulo THEN primero[l] = n ELSE previo \in EnLista(l) /\ siguiente[previo] = n

(* A walk has not gone past what it looks for.                             *)
EnCamino(t) ==
    LET r == Head(t.recorridos) IN
    IF r.hasta = Nulo
    THEN IF EnLista(r.lista) = {} THEN t.actual = Nulo ELSE t.actual \in EnLista(r.lista)
    ELSE /\ t.actual \in EnLista(r.lista) \cup {Nulo}
         /\ r.hasta \in t.habia => t.actual # Nulo /\ Nro(t.actual) <= Nro(r.hasta)
         /\ t.op \in Bajas => Precede(t.previo, t.actual, r.lista)

(* What a handler in course knows. *)
EnCurso(t) ==
    /\ t.nodo \in IF t.op \in {"CREAR_PROCESO", "FINALIZAR_PROCESO"} THEN Procesos ELSE Hilos
    /\ t.recorridos \in Restos(t.op, t.nodo)
    /\ t.habia \subseteq existe \cap {t.nodo, Proceso(t.nodo)}
    /\ t.op # "CREAR_PROCESO" => Proceso(t.nodo) \in t.habia
    /\ t.op \notin Altas \cup {"DEVOLVER_CONTEXTO"} => t.nodo \in t.habia
    /\ t.recorridos # <<>> /\ t.andando => EnCamino(t)

(* A creation adds the last node of its list. *)
Alta(t) ==
    /\ t.nodo \notin existe
    /\ \A m \in EnLista(Lista(t.nodo)) : Nro(m) < Nro(t.nodo)
    /\ t.recorridos = <<>> =>
          IF EnLista(Lista(t.nodo)) = {} THEN t.actual = Nulo
          ELSE t.actual \in EnLista(Lista(t.nodo)) /\ Mayores(t.actual) = {}

(* A finalisation knows the node before the one it unlinks. *)
Baja(t) ==
    /\ t.nodo \in terminados
    /\ t.recorridos = <<>> => Precede(t.previo, t.nodo, Lista(t.nodo))

Confirmada == [Libre EXCEPT !.op = "confirmado"]

OpsTodas == Consultas \cup Altas \cup Bajas \cup {"DUMP_MEMORY"}
Tramo == [hasta : Nodos \cup {Nulo}, lista : Listas]

TareaTipo ==
    [op : OpsTodas \cup {"libre", "confirmado"}, nodo : Nodos \cup {Nulo},
     recorridos : Seq(Tramo), andando : BOOLEAN,
     previo : Nodos \cup {Nulo}, actual : Nodos \cup {Nulo}, habia : SUBSET Nodos]

Ops(k) ==
    IF k = "cpu" THEN Consultas
    ELSE IF k = "lp" THEN Altas
    ELSE IF k = "sts" THEN Bajas
    ELSE IF k = "volcado" THEN {"FINALIZAR_PROCESO"}
    ELSE IF k \in Volcadores THEN {"DUMP_MEMORY"}
    ELSE {"CREAR_HILO"}

Activa(t) ==
    /\ EnCurso(t)
    /\ t.op \in Altas => Alta(t)
    /\ t.op \in Bajas => Baja(t)
    /\ t.op = "DEVOLVER_CONTEXTO" /\ t.recorridos = <<>> => t.nodo \in existe

TareaDe(k) ==
    \/ tarea[k] = Libre
    \/ tarea[k] = Confirmada /\ k # "cpu"
    \/ tarea[k].op \in Ops(k) /\ Activa(tarea[k])

Tareas == \A k \in Atencion : TareaDe(k)

(* At most one thread of a process is being created; a finalisation has    *)
(* the memory to itself.                                                   *)
Separadas ==
    /\ \A j, k \in Atencion : j # k /\ {tarea[j].op, tarea[k].op} \subseteq Altas =>
          Lista(tarea[j].nodo) # Lista(tarea[k].nodo)
    /\ \A k \in {"sts", "volcado"} : tarea[k] # Libre =>
          /\ \A j \in Atencion \ {k} : tarea[j] = Libre
          /\ cpu \in {"esperar", "confirmar", "chequear"}
          /\ cpu = "chequear" => instr.op \in {"PROCESS_EXIT", "THREAD_EXIT"}

-----------------------------------------------------------------------------
(* Processes and threads. *)

EnAlta(p) ==
    /\ p = admitidos
    /\ \/ (lp = "proceso" /\ tarea["lp"].op = "confirmado")
       \/ lp \in {"proceso_listo", "hilo"}

Admision ==
    /\ admitidos \in 0..MaxPid + 1
    /\ ultimo_tid \in [Pids -> 0..MaxTid]
    /\ \A p \in Pids : p >= admitidos => ultimo_tid[p] = 0
    /\ \A n \in existe : n[1] < admitidos \/ EnAlta(n[1])
    /\ \A h \in existe \cap Hilos : h[2] <= ultimo_tid[h[1]]
    /\ lp \in {"nada", "proceso", "proceso_listo", "hilo"}
    /\ lp \in {"nada", "proceso_listo"} => tarea["lp"] = Libre
    /\ lp # "nada" => admitidos <= MaxPid
    /\ lp = "proceso" /\ tarea["lp"].op # "confirmado" =>
          tarea["lp"].op = "CREAR_PROCESO" /\ tarea["lp"].nodo = <<admitidos>>
    /\ lp = "proceso" => tarea["lp"] # Libre
    /\ lp = "hilo" => tarea["lp"] # Libre
    /\ lp = "hilo" /\ tarea["lp"].op # "confirmado" =>
          tarea["lp"].op = "CREAR_HILO" /\ tarea["lp"].nodo = <<admitidos, 0>>
    /\ EnAlta(admitidos) => <<admitidos>> \in existe
    /\ \A n \in existe : Lista(n) = <<admitidos>> => lp = "hilo"
    /\ lp = "hilo" /\ tarea["lp"].op = "confirmado" => <<admitidos, 0>> \in existe

Huerfano(k) ==
    LET n == tarea[k].nodo IN
    tarea[k].op = "CREAR_HILO" =>
       n[1] < admitidos /\ n[2] = ultimo_tid[n[1]] /\ ~Terminado(n)

Huerfanos == \A k \in Huerfanas : Huerfano(k)

Terminos ==
    /\ terminados \subseteq Nodos
    /\ \A n \in terminados : n[1] < admitidos
    /\ \A h \in terminados \cap Hilos : h[2] <= ultimo_tid[h[1]]

(* A thread that may be dispatched, created or not. *)
Nace(h) == \E k \in Huerfanas : tarea[k].op = "CREAR_HILO" /\ tarea[k].nodo = h

Admitido(h) ==
    /\ h \in Hilos /\ h[1] < admitidos /\ h[2] <= ultimo_tid[h[1]]
    /\ Proceso(h) \in existe /\ ~Terminado(h)

EnMarcha(h) == Admitido(h) /\ (h \in existe \/ Nace(h))
Corre(h) == Admitido(h) /\ h \in existe
Motivos == {"IO", "DUMP_MEMORY"}

EnReady == ToSet(listos)
Dormidos == {b[1] : b \in bloqueados}

Planificados ==
    /\ listos \in Seq(Hilos) /\ SinRepetir(listos)
    /\ \A h \in EnReady : EnMarcha(h)
    /\ bloqueados \subseteq Hilos \X Motivos
    /\ \A b \in bloqueados : Corre(b[1]) /\ b[1] \notin EnReady
    /\ \A b, c \in bloqueados : b[1] = c[1] => b = c
    /\ estado_exec \in {Nulo, hilo}
    /\ estado_exec # Nulo =>
          /\ estado_exec \in Hilos \ (EnReady \cup Dormidos)
          /\ estado_exec[1] < admitidos /\ estado_exec[2] <= ultimo_tid[estado_exec[1]]

-----------------------------------------------------------------------------
(* The CPU. *)

Pide(op) == tarea["cpu"].op = op /\ tarea["cpu"].nodo = hilo

Salidas == {"PROCESS_EXIT", "THREAD_EXIT"}
Entregado == hilo \in EnReady \/ <<hilo, "IO">> \in bloqueados

CpuBien ==
    /\ cpu \in {"esperar", "contexto", "ciclo", "fetch", "ejecutar", "seg_fault", "avisar", "dump",
                "volcar", "chequear", "confirmar", "actualizar"}
    /\ hilo \in Hilos \cup {Nulo}
    /\ cpu = "contexto" => Pide("DEVOLVER_CONTEXTO") /\ EnMarcha(hilo) /\ estado_exec = hilo
    /\ cpu = "fetch" => Pide("DEVOLVER_INSTRUCCION")
    /\ cpu \in {"seg_fault", "dump", "actualizar"} => Pide("ACTUALIZAR_CONTEXTO")
    /\ cpu \in {"esperar", "ciclo", "ejecutar", "avisar", "volcar", "chequear", "confirmar"} =>
          tarea["cpu"] = Libre
    /\ cpu \in {"ciclo", "fetch", "ejecutar", "seg_fault", "avisar", "dump", "volcar"} =>
          Corre(hilo) /\ estado_exec = hilo
    /\ cpu \in {"chequear", "actualizar"} /\ ~Omite => Corre(hilo) /\ estado_exec = hilo
    /\ cpu \in {"chequear", "actualizar"} /\ Omite => estado_exec = Nulo
    /\ cpu \in {"chequear", "actualizar"} /\ instr.op = "IO" => Corre(hilo) /\ Entregado
    /\ cpu = "actualizar" => ~Omite \/ instr.op = "IO"
    /\ cpu = "confirmar" => instr.op = "THREAD_EXIT" /\ estado_exec = Nulo
    /\ cpu \in {"dump", "volcar"} => instr.op = "DUMP_MEMORY"

Caidas ==
    /\ caida \in {"no", "hilo_sin_crear", "fuera_de_memoria"}
    /\ caida = "hilo_sin_crear" => cpu = "contexto"

MemTipo ==
    /\ tarea \in [Atencion -> TareaTipo]
    /\ primero \in [Listas -> Nodos \cup {Nulo}]
    /\ siguiente \in [Nodos -> Nodos \cup {Nulo}]

Ind ==
    /\ MemTipo /\ Enlazadas /\ Tareas /\ Separadas
    /\ Admision /\ Huerfanos /\ Terminos
    /\ Planificados /\ CpuBien /\ Caidas

(* One creation of a thread at a time in each process. *)
SinDobles ==
    \A j, k \in Huerfanas :
        /\ tarea[j].op = "CREAR_HILO" /\ tarea[k].op = "CREAR_HILO"
        /\ Proceso(tarea[j].nodo) = Proceso(tarea[k].nodo)
        => j = k

-----------------------------------------------------------------------------
(* The refinement. *)
DumpHecho(h, pc) == pc \in 1..Len(Programa(h)) /\ Programa(h)[pc].op = "DUMP_MEMORY"

(* What the registers are between one step and the next. *)
Palabras ==
    /\ ctx \in [Hilos -> [Registros -> Nat]]
    /\ contexto \in [Registros -> Nat]
    /\ memoria \in [0..TAM_MEMORIA - 1 -> Int]

Guardado(h) == contexto = devolver_contexto_ejecucion(h)

EnEjecucion ==
    /\ cpu \notin {"esperar", "contexto"} =>
          hilo \in Hilos /\ contexto.Base = Base(hilo[1]) /\ contexto.Limite = Limite(hilo[1])
    /\ cpu \in {"ejecutar", "seg_fault", "avisar"} =>
          instr = devolver_instruccion(hilo, contexto.PC)
    /\ cpu \in {"seg_fault", "avisar"} => SegFault(contexto, instr)
    /\ cpu \in {"dump", "volcar"} => DumpHecho(hilo, contexto.PC)
    /\ cpu = "volcar" \/ (cpu = "chequear" /\ instr.op = "DUMP_MEMORY") => Guardado(hilo)
    /\ cpu \in {"chequear", "confirmar"} /\ instr.op \in Salidas => Terminado(hilo)
    /\ hilo # Nulo /\ cpu # "contexto" => hilo \in existe \/ Terminado(hilo)

Volcados == \A h \in Hilos : <<h, "DUMP_MEMORY">> \in bloqueados => DumpHecho(h, ctx[h].PC)

Contextos == Palabras /\ EnEjecucion /\ Volcados

-----------------------------------------------------------------------------
(* The names of the nodes. *)
LEMMA Nombres ==
    /\ Nodos = Procesos \cup Hilos /\ Procesos \cap Hilos = {} /\ Nulo \notin Nodos
    /\ Listas = {<<>>} \cup Procesos /\ <<>> \notin Procesos /\ <<>> \notin Nodos
    /\ \A n \in Procesos :
          /\ Lista(n) = <<>> /\ Proceso(n) = n /\ Nro(n) = n[1]
          /\ n[1] \in Pids /\ n = <<n[1]>>
    /\ \A h \in Hilos :
          /\ Lista(h) = Proceso(h) /\ Proceso(h) \in Procesos /\ Nro(h) = h[2]
          /\ h[1] \in Pids /\ h[2] \in 0..MaxTid /\ h = <<h[1], h[2]>>
    /\ \A n \in Nodos : Lista(n) \in Listas /\ Nro(n) \in Nat /\ n[1] \in Pids /\ Pids \subseteq Nat
    /\ \A n \in Nodos : Proceso(n) \in Procesos /\ Proceso(n)[1] = n[1]
    /\ \A m, n \in Nodos : Lista(m) = Lista(n) /\ Nro(m) = Nro(n) => m = n
<1> USE MemoriaAssumption
<1>1. \A p \in Pids : <<p>> \in Procesos /\ p \in Nat
  BY DEF Procesos, Pids
<1>2. ASSUME NEW n \in Procesos
      PROVE  /\ Lista(n) = <<>> /\ Proceso(n) = n /\ Nro(n) = n[1]
             /\ n[1] \in Pids /\ n = <<n[1]>> /\ Len(n) = 1
  <2>1. PICK p \in Pids : n = <<p>>
    BY DEF Procesos
  <2>2. n \in Seq(Pids) /\ Len(n) = 1 /\ n[1] = p
    BY <2>1
  <2>3. Front(n) = <<>>
    <3>1. Len(Front(n)) = 0 /\ Front(n) \in Seq(Pids)
      BY <2>2 DEF Front
    <3> QED
      BY <3>1
  <2> QED
    BY <2>1, <2>2, <2>3 DEF Lista, Proceso, Nro
<1>3. ASSUME NEW h \in Hilos
      PROVE  /\ Lista(h) = Proceso(h) /\ Proceso(h) \in Procesos /\ Nro(h) = h[2]
             /\ h[1] \in Pids /\ h[2] \in 0..MaxTid /\ h = <<h[1], h[2]>> /\ Len(h) = 2
  <2>1. PICK p \in Pids, t \in 0..MaxTid : h = <<p, t>>
    BY DEF Hilos
  <2>2. h \in Seq(Nat) /\ Len(h) = 2 /\ h[1] = p /\ h[2] = t
    BY <2>1 DEF Pids
  <2>3. Front(h) = <<p>>
    <3>1. Front(h) \in Seq(Nat) /\ Len(Front(h)) = 1 /\ Front(h)[1] = p
      BY <2>2 DEF Front
    <3> QED
      BY <3>1
  <2> QED
    BY <1>1, <2>1, <2>2, <2>3 DEF Lista, Proceso, Nro
<1>4. <<>> \notin Procesos /\ <<>> \notin Hilos
  <2>1. Len(<<>>) = 0
    OBVIOUS
  <2> QED
    BY <1>2, <1>3, <2>1
<1>5. Nulo \notin Procesos /\ Nulo \notin Hilos
  <2>1. Len(Nulo) = 1 /\ Nulo[1] = -1
    BY DEF Nulo
  <2> QED
    BY <1>2, <1>3, <2>1 DEF Pids
<1>6. Procesos \cap Hilos = {}
  BY <1>2, <1>3
<1>7. ASSUME NEW n \in Nodos
      PROVE  /\ Lista(n) \in Listas /\ Nro(n) \in Nat /\ n[1] \in Pids /\ Pids \subseteq Nat
             /\ Proceso(n) \in Procesos /\ Proceso(n)[1] = n[1]
  <2>1. CASE n \in Procesos
    BY <1>1, <1>2, <2>1 DEF Listas
  <2>2. CASE n \in Hilos
    <3>1. /\ Lista(n) = Proceso(n) /\ Proceso(n) \in Procesos /\ Nro(n) = n[2]
          /\ n[1] \in Pids /\ n[2] \in Nat
      BY <1>3, <2>2
    <3>2. Proceso(n)[1] = n[1]
      BY DEF Proceso
    <3>3. Pids \subseteq Nat
      BY DEF Pids
    <3> QED
      BY <3>1, <3>2, <3>3 DEF Listas
  <2> QED
    BY <2>1, <2>2 DEF Nodos
<1>8. ASSUME NEW m \in Nodos, NEW n \in Nodos, Lista(m) = Lista(n), Nro(m) = Nro(n)
      PROVE  m = n
  <2>1. CASE m \in Procesos /\ n \in Procesos
    BY <1>2, <1>8, <2>1
  <2>2. CASE m \in Hilos /\ n \in Hilos
    <3>1. Proceso(m) = Proceso(n) /\ m[2] = n[2]
      BY <1>3, <1>8, <2>2
    <3>2. m[1] = n[1]
      BY <3>1 DEF Proceso
    <3>3. m = <<m[1], m[2]>> /\ n = <<n[1], n[2]>>
      BY <1>3, <2>2
    <3> QED
      BY <3>1, <3>2, <3>3
  <2>3. CASE m \in Procesos /\ n \in Hilos
    BY <1>2, <1>3, <1>4, <1>8, <2>3
  <2>4. CASE m \in Hilos /\ n \in Procesos
    BY <1>2, <1>3, <1>4, <1>8, <2>4
  <2> QED
    BY <2>1, <2>2, <2>3, <2>4 DEF Nodos
<1> QED
  BY <1>2, <1>3, <1>4, <1>5, <1>6, <1>7, <1>8 DEF Nodos, Listas

-----------------------------------------------------------------------------
(* A node appended after the last one of its list. *)
LEMMA ListaCrece ==
    ASSUME Enlazadas,
           primero \in [Listas -> Nodos \cup {Nulo}], siguiente \in [Nodos -> Nodos \cup {Nulo}],
           NEW n \in Nodos, n \notin existe, n \in Hilos => Proceso(n) \in existe,
           \A m \in EnLista(Lista(n)) : Nro(m) < Nro(n),
           NEW ultimo,
           IF EnLista(Lista(n)) = {} THEN ultimo = Nulo
           ELSE ultimo \in EnLista(Lista(n)) /\ Mayores(ultimo) = {},
           existe' = existe \cup {n},
           primero' = IF n \in Procesos THEN [PrimeroCon(n, ultimo) EXCEPT ![n] = Nulo]
                      ELSE PrimeroCon(n, ultimo),
           siguiente' = [m \in Nodos |-> IF m = ultimo THEN n
                                         ELSE IF m = n THEN Nulo ELSE siguiente[m]]
    PROVE  Enlazadas'
<1> DEFINE L == Lista(n)
<1>1. /\ existe \subseteq Nodos
      /\ \A h \in existe \cap Hilos : Proceso(h) \in existe
      /\ \A l \in {<<>>} \cup (existe \cap Procesos) : EsPrimero(primero[l], EnLista(l))
      /\ \A m \in existe : EsPrimero(siguiente[m], Mayores(m))
  BY DEF Enlazadas
<1>2. \A l : EnLista(l)' = IF l = L THEN EnLista(l) \cup {n} ELSE EnLista(l)
  BY DEF EnLista
<1>3. /\ L \in Listas /\ n # L /\ n # Nulo /\ Nro(n) \in Nat
      /\ L = <<>> \/ (L \in existe /\ L \in Procesos)
      /\ \A m \in existe : m \in Nodos /\ Nro(m) \in Nat /\ Nro(n) \in Nat /\ m # Nulo
      /\ \A l : \A m \in EnLista(l) : m \in existe /\ Lista(m) = l
  BY <1>1, Nombres DEF EnLista
<1>4. n \in Procesos => n # <<>> /\ EnLista(n)' = {}
  <2> SUFFICES ASSUME n \in Procesos, NEW m \in EnLista(n)
               PROVE  FALSE
    BY <1>2, <1>3, Nombres
  <2>1. m \in existe /\ Lista(m) = n
    BY DEF EnLista
  <2> QED
    BY <1>1, <2>1, Nombres
<1>5. ASSUME NEW l \in {<<>>} \cup (existe' \cap Procesos)
      PROVE  EsPrimero(primero[l], EnLista(l))'
  <2>1. l \in Listas
    BY Nombres
  <2>2. CASE l = n
    BY <1>3, <1>4, <2>1, <2>2, Nombres DEF EsPrimero, PrimeroCon
  <2>3. CASE l = L
    <3>1. EsPrimero(primero[L], EnLista(L))
      BY <1>1, <1>3
    <3>2. primero'[L] = IF ultimo = Nulo THEN n ELSE primero[L]
      BY <1>3, <2>1, <2>3 DEF PrimeroCon
    <3>3. CASE EnLista(L) = {}
      BY <1>2, <1>3, <2>3, <3>2, <3>3 DEF EsPrimero
    <3>4. CASE EnLista(L) # {}
      <4>1. ultimo # Nulo
        BY <1>3, <3>4
      <4>2. primero[L] \in EnLista(L) /\ \A m \in EnLista(L) : Nro(primero[L]) <= Nro(m)
        BY <3>1, <3>4 DEF EsPrimero
      <4>3. primero'[L] \in EnLista(L)' /\ Nro(primero[L]) <= Nro(n)
        BY <1>2, <1>3, <3>2, <4>1, <4>2
      <4> QED
        BY <1>2, <2>3, <3>2, <4>1, <4>2, <4>3 DEF EsPrimero
    <3> QED
      BY <3>3, <3>4
  <2>4. CASE l # n /\ l # L
    <3>1. primero'[l] = primero[l]
      BY <1>3, <2>1, <2>4 DEF PrimeroCon
    <3>2. l \in {<<>>} \cup (existe \cap Procesos)
      BY <2>4
    <3> QED
      BY <1>1, <1>2, <2>4, <3>1, <3>2 DEF EsPrimero
  <2> QED
    BY <2>2, <2>3, <2>4
<1>6. \A m \in existe : Mayores(m)' = IF Lista(m) = L THEN Mayores(m) \cup {n} ELSE Mayores(m)
  BY <1>2, <1>3 DEF Mayores, EnLista
<1>7. Mayores(n)' = {}
  BY <1>2, <1>3 DEF Mayores
<1>8. ASSUME NEW m \in existe'
      PROVE  EsPrimero(siguiente[m], Mayores(m))'
  <2>1. CASE m = n
    <3>1. n # ultimo
      BY <1>3 DEF EnLista
    <3> QED
      BY <1>7, <2>1, <3>1 DEF EsPrimero
  <2>2. CASE m \in existe /\ m = ultimo
    <3>1. Lista(m) = L /\ Mayores(m) = {}
      BY <1>3, <2>2
    <3>2. siguiente'[m] = n /\ Mayores(m)' = {n}
      BY <1>3, <1>6, <2>2, <3>1
    <3> QED
      BY <1>3, <2>2, <3>2 DEF EsPrimero
  <2>3. CASE m \in existe /\ m # ultimo /\ Lista(m) = L
    <3>1. m \in EnLista(L)
      BY <2>3 DEF EnLista
    <3>2. ultimo \in EnLista(L) /\ Mayores(ultimo) = {} /\ ultimo \in Nodos /\ m \in Nodos
          /\ Lista(ultimo) = L
      BY <1>3, <3>1
    <3>3. ~(Nro(ultimo) < Nro(m))
      BY <3>1, <3>2 DEF Mayores
    <3>4. ultimo \in Mayores(m)
      BY <1>3, <2>3, <3>2, <3>3, Nombres DEF Mayores
    <3>5. siguiente[m] \in Mayores(m) /\ \A j \in Mayores(m) : Nro(siguiente[m]) <= Nro(j)
      BY <1>1, <2>3, <3>4 DEF EsPrimero
    <3>6. siguiente'[m] = siguiente[m]
      BY <1>3, <2>3
    <3>7. Nro(siguiente[m]) <= Nro(n)
      BY <1>3, <2>3, <3>5 DEF Mayores
    <3> QED
      BY <1>6, <2>3, <3>5, <3>6, <3>7 DEF EsPrimero
  <2>4. CASE m \in existe /\ m # ultimo /\ Lista(m) # L
    <3>1. siguiente'[m] = siguiente[m]
      BY <1>3, <2>4
    <3> QED
      BY <1>1, <1>6, <2>4, <3>1 DEF EsPrimero
  <2> QED
    BY <2>1, <2>2, <2>3, <2>4
<1>9. /\ existe' \subseteq Nodos
      /\ \A h \in existe' \cap Hilos : Proceso(h) \in existe'
  BY <1>1
<1> QED
  BY <1>5, <1>8, <1>9 DEF Enlazadas

(* A node unlinked from the one before it. *)
LEMMA ListaDecrece ==
    ASSUME Enlazadas,
           primero \in [Listas -> Nodos \cup {Nulo}], siguiente \in [Nodos -> Nodos \cup {Nulo}],
           NEW n \in existe, n \in Procesos => EnLista(n) = {},
           NEW previo, Precede(previo, n, Lista(n)),
           existe' = existe \ {n},
           primero' = PrimeroSin(n, previo),
           siguiente' = [m \in Nodos |-> IF m = previo THEN siguiente[n] ELSE siguiente[m]]
    PROVE  Enlazadas'
<1> DEFINE L == Lista(n)
<1>1. /\ existe \subseteq Nodos
      /\ \A h \in existe \cap Hilos : Proceso(h) \in existe
      /\ \A l \in {<<>>} \cup (existe \cap Procesos) : EsPrimero(primero[l], EnLista(l))
      /\ \A m \in existe : EsPrimero(siguiente[m], Mayores(m))
  BY DEF Enlazadas
<1>2. \A l : EnLista(l)' = EnLista(l) \ {n}
  BY DEF EnLista
<1>3. /\ L \in Listas /\ n # L /\ n # Nulo /\ n \in Nodos
      /\ L = <<>> \/ (L \in existe /\ L \in Procesos)
      /\ \A m \in existe : m \in Nodos /\ Nro(m) \in Nat /\ Nro(n) \in Nat /\ m # Nulo
      /\ \A l : \A m \in EnLista(l) : m \in existe /\ Lista(m) = l
      /\ n \in EnLista(L)
  <2>1. n \in Nodos /\ n # Nulo /\ L \in Listas
    BY <1>1, Nombres
  <2>2. n # L /\ (L = <<>> \/ (L \in existe /\ L \in Procesos))
    <3>1. CASE n \in Procesos
      BY <3>1, Nombres
    <3>2. CASE n \in Hilos
      BY <1>1, <3>2, Nombres
    <3> QED
      BY <2>1, <3>1, <3>2, Nombres
  <2>3. \A m \in existe : m \in Nodos /\ Nro(m) \in Nat /\ Nro(n) \in Nat /\ m # Nulo
    BY <1>1, Nombres
  <2> QED
    BY <2>1, <2>2, <2>3 DEF EnLista
<1>4. \A m \in existe : Mayores(m)' = Mayores(m) \ {n}
  BY <1>2, <1>3 DEF Mayores, EnLista
<1>5. EsPrimero(siguiente[n], Mayores(n))
  BY <1>1
<1>8. \A h \in existe' \cap Hilos : Proceso(h) \in existe'
  <2> SUFFICES ASSUME NEW h \in existe' \cap Hilos
               PROVE  Proceso(h) # n
    BY <1>1
  <2>1. h \in existe /\ Lista(h) = Proceso(h) /\ Proceso(h) \in Procesos
    BY Nombres
  <2> QED
    BY <2>1 DEF EnLista
<1>6. CASE previo = Nulo
  <2>1. primero[L] = n /\ primero' = [primero EXCEPT ![L] = siguiente[n]]
    BY <1>6 DEF Precede, PrimeroSin
  <2>2. \A m \in EnLista(L) : Nro(n) <= Nro(m)
    BY <1>1, <1>3, <2>1 DEF EsPrimero
  <2>3. EnLista(L)' = Mayores(n)
    <3>1. \A m \in EnLista(L) : m # n => Nro(n) < Nro(m)
      BY <1>1, <1>3, <2>2, Nombres
    <3> QED
      BY <1>2, <1>3, <3>1 DEF Mayores
  <2>4. ASSUME NEW l \in {<<>>} \cup (existe' \cap Procesos)
        PROVE  EsPrimero(primero[l], EnLista(l))'
    <3>1. CASE l = L
      BY <1>3, <1>5, <2>1, <2>3, <3>1 DEF EsPrimero
    <3>2. CASE l # L
      <4>1. n \notin EnLista(l) /\ primero'[l] = primero[l]
        BY <1>3, <2>1, <3>2, Nombres
      <4> QED
        BY <1>1, <1>2, <4>1 DEF EsPrimero
    <3> QED
      BY <3>1, <3>2
  <2>5. ASSUME NEW m \in existe'
        PROVE  EsPrimero(siguiente[m], Mayores(m))'
    <3>1. m \in existe /\ n \notin Mayores(m)
      BY <1>3, <2>2 DEF Mayores, EnLista
    <3>2. siguiente'[m] = siguiente[m]
      BY <1>3, <1>6, <3>1
    <3> QED
      BY <1>1, <1>4, <3>1, <3>2 DEF EsPrimero
  <2> QED
    BY <1>1, <1>8, <2>4, <2>5 DEF Enlazadas
<1>7. CASE previo # Nulo
  <2>1. previo \in EnLista(L) /\ siguiente[previo] = n /\ primero' = primero
    BY <1>7 DEF Precede, PrimeroSin
  <2>2. previo \in existe /\ previo \in Nodos /\ Lista(previo) = L
    BY <1>3, <2>1
  <2>3. n \in Mayores(previo) /\ \A m \in Mayores(previo) : Nro(n) <= Nro(m)
    BY <1>1, <1>3, <2>1, <2>2 DEF EsPrimero
  <2>4. Nro(previo) < Nro(n)
    BY <2>3 DEF Mayores
  <2>5. Mayores(previo)' = Mayores(n)
    <3>1. \A m \in Mayores(previo) : m # n => Nro(n) < Nro(m)
      BY <1>1, <1>3, <2>2, <2>3, Nombres DEF Mayores
    <3>2. \A m \in EnLista(L) : Nro(n) < Nro(m) => Nro(previo) < Nro(m)
      BY <1>3, <2>2, <2>4
    <3>3. n \notin Mayores(n)
      BY <1>3 DEF Mayores
    <3> QED
      BY <1>4, <2>2, <2>3, <3>1, <3>2, <3>3 DEF Mayores
  <2>6. ASSUME NEW l \in {<<>>} \cup (existe' \cap Procesos)
        PROVE  EsPrimero(primero[l], EnLista(l))'
    <3>1. EsPrimero(primero[l], EnLista(l))
      BY <1>1
    <3>2. CASE l = L
      <4>1. primero[L] \in EnLista(L) /\ \A m \in EnLista(L) : Nro(primero[L]) <= Nro(m)
        BY <1>3, <3>1, <3>2 DEF EsPrimero
      <4>2. primero[L] # n
        BY <1>3, <2>1, <2>2, <2>4, <4>1
      <4> QED
        BY <1>2, <2>1, <3>2, <4>1, <4>2 DEF EsPrimero
    <3>3. CASE l # L
      BY <1>2, <1>3, <2>1, <3>1, <3>3 DEF EsPrimero
    <3> QED
      BY <3>2, <3>3
  <2>7. ASSUME NEW m \in existe'
        PROVE  EsPrimero(siguiente[m], Mayores(m))'
    <3>1. CASE m = previo
      BY <1>5, <2>2, <2>5, <3>1 DEF EsPrimero
    <3>2. CASE m # previo
      <4>1. m \in existe /\ siguiente'[m] = siguiente[m] /\ EsPrimero(siguiente[m], Mayores(m))
        BY <1>1, <1>3, <3>2
      <4>2. CASE n \in Mayores(m)
        <5>1. /\ siguiente[m] \in Mayores(m)
              /\ \A j \in Mayores(m) : Nro(siguiente[m]) <= Nro(j)
          BY <4>1, <4>2 DEF EsPrimero
        <5>2. Lista(m) = L /\ Nro(m) < Nro(n) /\ Nro(m) \in Nat
          BY <1>3, <4>1, <4>2 DEF Mayores
        <5>3. previo \in Mayores(m) \/ Nro(m) = Nro(previo) \/ m \in Mayores(previo)
          BY <1>3, <2>1, <2>2, <4>1, <5>2 DEF Mayores, EnLista
        <5>4. m \notin Mayores(previo)
          BY <1>3, <2>3, <4>1, <5>2
        <5>5. Nro(m) # Nro(previo)
          BY <1>3, <2>2, <3>2, <4>1, <5>2, Nombres
        <5>6. siguiente[m] # n
          BY <1>3, <2>2, <2>4, <5>1, <5>3, <5>4, <5>5
        <5> QED
          BY <1>4, <4>1, <5>1, <5>6 DEF EsPrimero
      <4>3. CASE n \notin Mayores(m)
        BY <1>4, <4>1, <4>3 DEF EsPrimero
      <4> QED
        BY <4>2, <4>3
    <3> QED
      BY <3>1, <3>2
  <2> QED
    BY <1>1, <1>8, <2>6, <2>7 DEF Enlazadas
<1> QED
  BY <1>6, <1>7
-----------------------------------------------------------------------------
(* The walks of the handlers. *)
LEMMA TramosDe ==
    ASSUME NEW n \in Nodos
    PROVE  /\ Hasta(n) \in Tramo /\ Hasta(Proceso(n)) \in Tramo /\ AlUltimo(n) \in Tramo
           /\ Hasta(n).hasta = n /\ Hasta(n).lista = Lista(n)
           /\ Hasta(Proceso(n)).hasta = Proceso(n) /\ Hasta(Proceso(n)).lista = <<>>
           /\ AlUltimo(n).hasta = Nulo /\ AlUltimo(n).lista = Lista(n)
           /\ AlUltimo(n) \notin {Hasta(n), Hasta(Proceso(n))}
<1>1. /\ Lista(n) \in Listas /\ Proceso(n) \in Nodos /\ Lista(Proceso(n)) = <<>> /\ <<>> \in Listas
      /\ Nulo \notin Nodos
  BY Nombres
<1> QED
  BY <1>1 DEF Hasta, AlUltimo, Tramo

(* What is left after a walk is what may be left; the last walk ends at    *)
(* the node of the request, or at the end of its list.                     *)
LEMMA Recorrer ==
    ASSUME NEW op \in OpsTodas, NEW n \in Nodos, NEW s \in Restos(op, n)
    PROVE  /\ s \in Seq(Tramo)
           /\ s # <<>> =>
                 /\ Tail(s) \in Restos(op, n)
                 /\ Head(s) \in {Hasta(Proceso(n)), Hasta(n), AlUltimo(n)}
                 /\ Head(s) = AlUltimo(n) => op \in Altas /\ Tail(s) = <<>>
                 /\ Tail(s) = <<>> =>
                       Head(s) = IF op \in Altas THEN AlUltimo(n)
                                 ELSE IF op = "DUMP_MEMORY" THEN Hasta(Proceso(n)) ELSE Hasta(n)
                 /\ op = "CREAR_PROCESO" => Head(s) = AlUltimo(n)
                 /\ Head(s) = Hasta(n) => op \notin Altas \/ n = Proceso(n)
<1> DEFINE p == Hasta(Proceso(n))
           h == Hasta(n)
           u == AlUltimo(n)
<1>1. /\ p \in Tramo /\ h \in Tramo /\ u \in Tramo /\ u # p /\ u # h
      /\ p.hasta = Proceso(n) /\ h.hasta = n
  BY TramosDe
<1> HIDE DEF p, h, u
<1>2. CASE op = "CREAR_PROCESO"
  <2>1. s \in {<<u>>, <<>>} /\ Restos(op, n) = {<<u>>, <<>>}
    BY <1>2 DEF Restos, p, h, u
  <2>2. op \in Altas /\ (p = h => n = Proceso(n))
    BY <1>1, <1>2 DEF Altas
  <2>4. CASE s = <<u>>
    <3>1. Tail(s) = <<>> /\ Head(s) = u /\ s \in Seq(Tramo)
      BY <1>1, <2>4
    <3>2. Tail(s) \in Restos(op, n)
      BY <2>1, <3>1
    <3> QED
      BY <1>1, <2>2, <3>1, <3>2 DEF p, h, u
  <2>5. CASE s = <<>>
    BY <2>5
  <2> QED
    BY <2>1, <2>4, <2>5
<1>3. CASE op = "FINALIZAR_PROCESO"
  <2>1. s \in {<<h>>, <<>>} /\ Restos(op, n) = {<<h>>, <<>>}
    BY <1>3 DEF Restos, h
  <2>2. op \notin Altas
    BY <1>3 DEF Altas
  <2>3. CASE s = <<h>>
    <3>1. Tail(s) = <<>> /\ Head(s) = h /\ s \in Seq(Tramo)
      BY <1>1, <2>3
    <3>2. Tail(s) \in Restos(op, n)
      BY <2>1, <3>1
    <3> QED
      BY <1>1, <1>3, <2>2, <3>1, <3>2 DEF p, h, u
  <2>4. CASE s = <<>>
    BY <2>4
  <2> QED
    BY <2>1, <2>3, <2>4
<1>4. CASE op = "CREAR_HILO"
  <2>1. s \in {<<p, u>>, <<u>>, <<>>} /\ Restos(op, n) = {<<p, u>>, <<u>>, <<>>}
    BY <1>4 DEF Restos, p, h, u
  <2>2. op \in Altas /\ (p = h => n = Proceso(n))
    BY <1>1, <1>4 DEF Altas
  <2>3. CASE s = <<p, u>>
    <3>1. Tail(s) = <<u>> /\ Head(s) = p /\ s \in Seq(Tramo) /\ Tail(s) # <<>>
      BY <1>1, <2>3
    <3>2. Tail(s) \in Restos(op, n) /\ op # "CREAR_PROCESO"
      BY <1>4, <2>1, <3>1
    <3> QED
      BY <1>1, <2>2, <3>1, <3>2 DEF p, h, u
  <2>4. CASE s = <<u>>
    <3>1. Tail(s) = <<>> /\ Head(s) = u /\ s \in Seq(Tramo)
      BY <1>1, <2>4
    <3>2. Tail(s) \in Restos(op, n)
      BY <2>1, <3>1
    <3> QED
      BY <1>1, <2>2, <3>1, <3>2 DEF p, h, u
  <2>5. CASE s = <<>>
    BY <2>5
  <2> QED
    BY <2>1, <2>3, <2>4, <2>5
<1>5. CASE op = "DEVOLVER_CONTEXTO"
  <2>1. s \in {<<p, p, h>>, <<p, h>>, <<h>>, <<>>} /\ Restos(op, n) = {<<p, p, h>>, <<p, h>>, <<h>>, <<>>}
    BY <1>5 DEF Restos, p, h
  <2>2. op \notin Altas
    BY <1>5 DEF Altas
  <2>3. CASE s = <<p, p, h>>
    <3>1. /\ Tail(s) = <<p, h>> /\ Head(s) = p /\ s \in Seq(Tramo)
          /\ Tail(s) # <<>> \/ Head(s) = h
      BY <1>1, <2>3
    <3>2. Tail(s) \in Restos(op, n)
      BY <2>1, <3>1
    <3> QED
      BY <1>1, <1>5, <2>2, <3>1, <3>2 DEF p, h, u
  <2>4. CASE s = <<p, h>>
    <3>1. /\ Tail(s) = <<h>> /\ Head(s) = p /\ s \in Seq(Tramo)
          /\ Tail(s) # <<>> \/ Head(s) = h
      BY <1>1, <2>4
    <3>2. Tail(s) \in Restos(op, n)
      BY <2>1, <3>1
    <3> QED
      BY <1>1, <1>5, <2>2, <3>1, <3>2 DEF p, h, u
  <2>5. CASE s = <<h>>
    <3>1. /\ Tail(s) = <<>> /\ Head(s) = h /\ s \in Seq(Tramo)
          /\ Tail(s) # <<>> \/ Head(s) = h
      BY <1>1, <2>5
    <3>2. Tail(s) \in Restos(op, n)
      BY <2>1, <3>1
    <3> QED
      BY <1>1, <1>5, <2>2, <3>1, <3>2 DEF p, h, u
  <2>6. CASE s = <<>>
    BY <2>6
  <2> QED
    BY <2>1, <2>3, <2>4, <2>5, <2>6
<1>6. CASE op = "DEVOLVER_INSTRUCCION"
  <2>1. s \in {<<p, h, p, h>>, <<h, p, h>>, <<p, h>>, <<h>>, <<>>} /\ Restos(op, n) = {<<p, h, p, h>>, <<h, p, h>>, <<p, h>>, <<h>>, <<>>}
    BY <1>6 DEF Restos, p, h
  <2>2. op \notin Altas
    BY <1>6 DEF Altas
  <2>3. CASE s = <<p, h, p, h>>
    <3>1. /\ Tail(s) = <<h, p, h>> /\ Head(s) = p /\ s \in Seq(Tramo)
          /\ Tail(s) # <<>> \/ Head(s) = h
      BY <1>1, <2>3
    <3>2. Tail(s) \in Restos(op, n)
      BY <2>1, <3>1
    <3> QED
      BY <1>1, <1>6, <2>2, <3>1, <3>2 DEF p, h, u
  <2>4. CASE s = <<h, p, h>>
    <3>1. /\ Tail(s) = <<p, h>> /\ Head(s) = h /\ s \in Seq(Tramo)
          /\ Tail(s) # <<>> \/ Head(s) = h
      BY <1>1, <2>4
    <3>2. Tail(s) \in Restos(op, n)
      BY <2>1, <3>1
    <3> QED
      BY <1>1, <1>6, <2>2, <3>1, <3>2 DEF p, h, u
  <2>5. CASE s = <<p, h>>
    <3>1. /\ Tail(s) = <<h>> /\ Head(s) = p /\ s \in Seq(Tramo)
          /\ Tail(s) # <<>> \/ Head(s) = h
      BY <1>1, <2>5
    <3>2. Tail(s) \in Restos(op, n)
      BY <2>1, <3>1
    <3> QED
      BY <1>1, <1>6, <2>2, <3>1, <3>2 DEF p, h, u
  <2>6. CASE s = <<h>>
    <3>1. /\ Tail(s) = <<>> /\ Head(s) = h /\ s \in Seq(Tramo)
          /\ Tail(s) # <<>> \/ Head(s) = h
      BY <1>1, <2>6
    <3>2. Tail(s) \in Restos(op, n)
      BY <2>1, <3>1
    <3> QED
      BY <1>1, <1>6, <2>2, <3>1, <3>2 DEF p, h, u
  <2>7. CASE s = <<>>
    BY <2>7
  <2> QED
    BY <2>1, <2>3, <2>4, <2>5, <2>6, <2>7
<1>7. CASE op \in {"ACTUALIZAR_CONTEXTO", "FINALIZAR_HILO"}
  <2>1. s \in {<<p, h>>, <<h>>, <<>>} /\ Restos(op, n) = {<<p, h>>, <<h>>, <<>>}
    BY <1>7 DEF Restos, p, h
  <2>2. op \notin Altas
    BY <1>7 DEF Altas
  <2>3. CASE s = <<p, h>>
    <3>1. /\ Tail(s) = <<h>> /\ Head(s) = p /\ s \in Seq(Tramo)
          /\ Tail(s) # <<>> \/ Head(s) = h
      BY <1>1, <2>3
    <3>2. Tail(s) \in Restos(op, n)
      BY <2>1, <3>1
    <3> QED
      BY <1>1, <1>7, <2>2, <3>1, <3>2 DEF p, h, u
  <2>4. CASE s = <<h>>
    <3>1. /\ Tail(s) = <<>> /\ Head(s) = h /\ s \in Seq(Tramo)
          /\ Tail(s) # <<>> \/ Head(s) = h
      BY <1>1, <2>4
    <3>2. Tail(s) \in Restos(op, n)
      BY <2>1, <3>1
    <3> QED
      BY <1>1, <1>7, <2>2, <3>1, <3>2 DEF p, h, u
  <2>5. CASE s = <<>>
    BY <2>5
  <2> QED
    BY <2>1, <2>3, <2>4, <2>5
<1>8. CASE op = "DUMP_MEMORY"
  <2>1. s \in {<<p>>, <<>>} /\ Restos(op, n) = {<<p>>, <<>>}
    BY <1>8 DEF Restos, p
  <2>2. op \notin Altas
    BY <1>8 DEF Altas
  <2>3. CASE s = <<p>>
    <3>1. Tail(s) = <<>> /\ Head(s) = p /\ s \in Seq(Tramo)
      BY <1>1, <2>3
    <3>2. Tail(s) \in Restos(op, n)
      BY <2>1, <3>1
    <3> QED
      BY <1>1, <1>8, <2>2, <3>1, <3>2 DEF p, h, u
  <2>4. CASE s = <<>>
    BY <2>4
  <2> QED
    BY <2>1, <2>3, <2>4
<1> QED
  BY <1>2, <1>3, <1>4, <1>5, <1>6, <1>7, <1>8 DEF OpsTodas, Consultas, Altas, Bajas

(* A request starts with all its walks to make. *)
LEMMA Pedida ==
    ASSUME NEW op \in OpsTodas, NEW n \in Nodos,
           op \notin {"CREAR_PROCESO", "FINALIZAR_PROCESO"} => n \in Hilos
    PROVE  /\ Recorridos(op, n) \in Restos(op, n) /\ Recorridos(op, n) # <<>>
           /\ Recorridos(op, n) \in Seq(Tramo)
<1> DEFINE p == Hasta(Proceso(n))
           h == Hasta(n)
           u == AlUltimo(n)
<1>1. /\ p \in Tramo /\ h \in Tramo /\ u \in Tramo
  BY TramosDe
<1>2. Recorridos(op, n) \in Restos(op, n) /\ Recorridos(op, n) # <<>>
  <2> HIDE DEF p, h, u
  <2>1. BuscarHilo(n) = <<p, h>>
    BY DEF BuscarHilo, p, h
  <2>2. CASE op = "CREAR_PROCESO"
    BY <2>2 DEF Restos, Recorridos
  <2>3. CASE op = "FINALIZAR_PROCESO"
    BY <2>3 DEF Restos, Recorridos
  <2>4. CASE op = "CREAR_HILO"
    BY <2>4 DEF Restos, Recorridos
  <2>5. CASE op = "DEVOLVER_CONTEXTO"
    <3>1. Recorridos(op, n) = <<p, p, h>>
      BY <2>5 DEF Recorridos, p, h
    <3> QED
      BY <2>5, <3>1 DEF Restos, p, h
  <2>6. CASE op = "DEVOLVER_INSTRUCCION"
    <3>1. Recorridos(op, n) = <<p, h, p, h>>
      BY <2>6 DEF Recorridos, p, h
    <3> QED
      BY <2>6, <3>1 DEF Restos, p, h
  <2>7. CASE op \in {"ACTUALIZAR_CONTEXTO", "FINALIZAR_HILO"}
    <3>1. Recorridos(op, n) = <<p, h>>
      BY <2>1, <2>7 DEF Recorridos
    <3> QED
      BY <2>7, <3>1 DEF Restos, p, h
  <2>8. CASE op = "DUMP_MEMORY"
    <3>1. Recorridos(op, n) = <<p>>
      BY <2>8 DEF Recorridos, p
    <3> QED
      BY <2>8, <3>1 DEF Restos, p
  <2> QED
    BY <2>2, <2>3, <2>4, <2>5, <2>6, <2>7, <2>8 DEF OpsTodas, Consultas, Altas, Bajas
<1> QED
  BY <1>2, Recorrer
(* The walk in course goes along a list that exists, and to a node that was *)
(* there when the request arrived, unless it is a thread to be dispatched.  *)
LEMMA TramoActual ==
    ASSUME Enlazadas, NEW t \in TareaTipo, t.op \in OpsTodas, Activa(t), t.recorridos # <<>>,
           NEW r, r = Head(t.recorridos)
    PROVE  /\ r \in Tramo /\ t.nodo \in Nodos /\ t.recorridos \in Seq(Tramo)
           /\ Tail(t.recorridos) \in Restos(t.op, t.nodo)
           /\ r.lista \in {<<>>} \cup (existe \cap Procesos)
           /\ r.hasta = Nulo =>
                 t.op \in Altas /\ Tail(t.recorridos) = <<>> /\ r.lista = Lista(t.nodo)
           /\ r.hasta # Nulo =>
                 /\ r.hasta \in Nodos /\ r.lista = Lista(r.hasta)
                 /\ r.hasta \in t.habia \/ (t.op = "DEVOLVER_CONTEXTO" /\ r.hasta \in Hilos)
           /\ Tail(t.recorridos) = <<>> =>
                 IF t.op \in Altas THEN r.hasta = Nulo
                 ELSE t.op = "DUMP_MEMORY" \/ r.hasta = t.nodo
<1> DEFINE n == t.nodo
           s == t.recorridos
<1>1. /\ n \in IF t.op \in {"CREAR_PROCESO", "FINALIZAR_PROCESO"} THEN Procesos ELSE Hilos
      /\ s \in Restos(t.op, n)
      /\ t.habia \subseteq existe
      /\ t.op # "CREAR_PROCESO" => Proceso(n) \in t.habia
      /\ t.op \notin Altas \cup {"DEVOLVER_CONTEXTO"} => n \in t.habia
  BY DEF Activa, EnCurso
<1>2. n \in Nodos /\ Proceso(n) \in Procesos /\ Proceso(n) \in Nodos /\ Nulo \notin Nodos
  BY <1>1, Nombres
<1>3. /\ s \in Seq(Tramo)
      /\ Tail(s) \in Restos(t.op, n)
      /\ r \in {Hasta(Proceso(n)), Hasta(n), AlUltimo(n)}
      /\ r = AlUltimo(n) => t.op \in Altas /\ Tail(s) = <<>>
      /\ Tail(s) = <<>> => r = IF t.op \in Altas THEN AlUltimo(n)
                               ELSE IF t.op = "DUMP_MEMORY" THEN Hasta(Proceso(n)) ELSE Hasta(n)
      /\ t.op = "CREAR_PROCESO" => r = AlUltimo(n)
      /\ r = Hasta(n) => t.op \notin Altas \/ n = Proceso(n)
  BY <1>1, <1>2, Recorrer
<1>4. /\ Hasta(n) \in Tramo /\ Hasta(Proceso(n)) \in Tramo /\ AlUltimo(n) \in Tramo
      /\ Hasta(n).hasta = n /\ Hasta(n).lista = Lista(n)
      /\ Hasta(Proceso(n)).hasta = Proceso(n) /\ Hasta(Proceso(n)).lista = <<>>
      /\ AlUltimo(n).hasta = Nulo /\ AlUltimo(n).lista = Lista(n)
      /\ AlUltimo(n) \notin {Hasta(n), Hasta(Proceso(n))}
  BY <1>2, TramosDe
<1>5. Lista(n) \in {<<>>} \cup (existe \cap Procesos) /\ Lista(Proceso(n)) = <<>>
  <2>1. CASE n \in Procesos
    BY <1>2, <2>1, Nombres
  <2>2. CASE n \in Hilos
    BY <1>1, <1>2, <2>2, Nombres
  <2> QED
    BY <1>1, <2>1, <2>2
<1>6. r.hasta # Nulo =>
         /\ r.hasta \in Nodos /\ r.lista = Lista(r.hasta)
         /\ r.hasta \in t.habia \/ (t.op = "DEVOLVER_CONTEXTO" /\ r.hasta \in Hilos)
  <2>1. CASE r = Hasta(Proceso(n))
    BY <1>1, <1>2, <1>3, <1>4, <1>5, <2>1
  <2>2. CASE r = Hasta(n)
    <3>1. t.op # "CREAR_PROCESO"
      BY <1>3, <1>4, <2>2
    <3>2. CASE n = Proceso(n)
      BY <1>1, <1>2, <1>4, <2>2, <3>1, <3>2
    <3>3. CASE t.op \notin Altas
      BY <1>1, <1>2, <1>4, <2>2, <3>3
    <3> QED
      BY <1>3, <2>2, <3>2, <3>3
  <2>3. CASE r = AlUltimo(n)
    BY <1>4, <2>3
  <2> QED
    BY <1>3, <2>1, <2>2, <2>3
<1>7. r.lista \in {<<>>} \cup (existe \cap Procesos)
  BY <1>3, <1>4, <1>5
<1>8. r.hasta = Nulo => r = AlUltimo(n)
  BY <1>2, <1>3, <1>4
<1> QED
  BY <1>2, <1>3, <1>4, <1>6, <1>7, <1>8

(* What a handler with walks to make is. *)
LEMMA ConRecorridos ==
    ASSUME MemTipo, NEW k \in Atencion, TareaDe(k), tarea[k].recorridos # <<>>
    PROVE  /\ tarea[k] \in TareaTipo /\ tarea[k].op \in Ops(k) /\ tarea[k].op \in OpsTodas
           /\ Activa(tarea[k])
<1>1. tarea[k] \in TareaTipo
  BY DEF MemTipo
<1>2. tarea[k] # Libre /\ tarea[k] # Confirmada
  BY DEF Libre, Confirmada
<1>3. tarea[k].op \in Ops(k) /\ Activa(tarea[k])
  BY <1>2 DEF TareaDe
<1> QED
  BY <1>1, <1>3 DEF Ops, OpsTodas, Consultas, Altas, Bajas

(* While the lists do not change, what a handler knows goes on holding.    *)
LEMMA MismasListas ==
    ASSUME UNCHANGED <<primero, siguiente, existe>>, terminados \subseteq terminados'
    PROVE  /\ Enlazadas => Enlazadas'
           /\ \A l : EnLista(l)' = EnLista(l)
           /\ \A n : Mayores(n)' = Mayores(n)
           /\ \A t : Activa(t) => Activa(t)'
<1>1. \A l : EnLista(l)' = EnLista(l)
  BY DEF EnLista
<1>2. \A n : Mayores(n)' = Mayores(n)
  BY <1>1 DEF Mayores
<1>3. Enlazadas => Enlazadas'
  BY <1>1, <1>2 DEF Enlazadas
<1>4. \A p, n, l : Precede(p, n, l) => Precede(p, n, l)'
  BY <1>1 DEF Precede
<1>5. \A t : EnCamino(t) => EnCamino(t)'
  BY <1>1, <1>4 DEF EnCamino
<1>6. \A t : EnCurso(t) => EnCurso(t)'
  BY <1>5 DEF EnCurso
<1>7. \A t : Alta(t) => Alta(t)'
  BY <1>1, <1>2 DEF Alta
<1>8. \A t : Baja(t) => Baja(t)'
  BY <1>4 DEF Baja
<1> QED
  BY <1>1, <1>2, <1>3, <1>6, <1>7, <1>8 DEF Activa

(* A handler starts a walk.                                                *)
LEMMA PasoEntrar ==
    ASSUME MemTipo, Enlazadas, NEW k \in Atencion, TareaDe(k), Entrar(k), UNCHANGED terminados
    PROVE  /\ UNCHANGED <<primero, siguiente, existe, ctx, memoria, caida>>
           /\ tarea' \in [Atencion -> TareaTipo]
           /\ \A j \in Atencion \ {k} : tarea'[j] = tarea[j]
           /\ tarea'[k].op = tarea[k].op /\ tarea'[k].nodo = tarea[k].nodo
           /\ tarea[k].op \in OpsTodas /\ TareaDe(k)'
<1> DEFINE t == tarea[k]
           r == Head(t.recorridos)
           l == r.lista
<1>1. /\ t \in TareaTipo /\ t.op \in OpsTodas /\ Activa(t) /\ t.recorridos # <<>>
      /\ t.op \in Ops(k)
  BY ConRecorridos DEF Entrar
<1>2. /\ l \in {<<>>} \cup (existe \cap Procesos)
      /\ r.hasta # Nulo => r.hasta \in Nodos /\ l = Lista(r.hasta)
  BY <1>1, TramoActual
<1>3. l \in Listas /\ primero[l] \in Nodos \cup {Nulo}
  BY <1>2, Nombres DEF MemTipo
<1>4. /\ tarea' = [tarea EXCEPT ![k].andando = TRUE, ![k].previo = Nulo,
                                ![k].actual = primero[l]]
      /\ UNCHANGED <<primero, siguiente, existe, ctx, memoria, caida>>
  BY <1>2 DEF Entrar
<1>entra. PICK u : u = [t EXCEPT !.andando = TRUE, !.previo = Nulo, !.actual = primero[l]]
  OBVIOUS
<1>5. tarea' = [tarea EXCEPT ![k] = u]
  BY <1>4, <1>entra
<1>6. /\ u \in TareaTipo /\ u.op = t.op /\ u.nodo = t.nodo /\ u.recorridos = t.recorridos
      /\ u.habia = t.habia /\ u.andando = TRUE /\ u.previo = Nulo /\ u.actual = primero[l]
  BY <1>1, <1>3, <1>entra DEF TareaTipo
<1>7. /\ tarea'[k] = u /\ tarea' \in [Atencion -> TareaTipo]
      /\ \A j \in Atencion \ {k} : tarea'[j] = tarea[j]
  BY <1>5, <1>6 DEF MemTipo
<1>8. EnCamino(u)
  <2>1. EsPrimero(primero[l], EnLista(l)) /\ Nulo \notin Nodos /\ EnLista(l) \subseteq Nodos
    BY <1>2, Nombres DEF Enlazadas, EnLista
  <2>2. CASE r.hasta = Nulo
    BY <1>6, <2>1, <2>2 DEF EnCamino, EsPrimero
  <2>3. CASE r.hasta # Nulo
    <3>1. r.hasta \in t.habia => r.hasta \in EnLista(l)
      BY <1>1, <1>2, <2>3 DEF EnLista, Activa, EnCurso
    <3>2. primero[l] \in EnLista(l) \cup {Nulo}
      BY <2>1 DEF EsPrimero
    <3>3. r.hasta \in t.habia => primero[l] # Nulo /\ Nro(primero[l]) <= Nro(r.hasta)
      BY <2>1, <3>1 DEF EsPrimero
    <3>4. Precede(Nulo, primero[l], l)
      BY DEF Precede
    <3> QED
      BY <1>6, <2>3, <3>2, <3>3, <3>4 DEF EnCamino
  <2> QED
    BY <2>2, <2>3
<1>9. Activa(u)
  <2>1. EnCurso(u)
    BY <1>1, <1>6, <1>8 DEF Activa, EnCurso
  <2>2. u.op \in Altas => Alta(u)
    BY <1>1, <1>6 DEF Activa, Alta
  <2>3. u.op \in Bajas => Baja(u)
    BY <1>1, <1>6 DEF Activa, Baja
  <2> QED
    BY <1>1, <1>6, <2>1, <2>2, <2>3 DEF Activa
<1>10. Activa(u)'
  BY <1>4, <1>9, MismasListas
<1>11. TareaDe(k)'
  BY <1>1, <1>6, <1>7, <1>10, ConRecorridos DEF TareaDe
<1>12. tarea'[k].op = tarea[k].op /\ tarea'[k].nodo = tarea[k].nodo
  BY <1>6, <1>7
<1> QED
  BY <1>1, <1>4, <1>7, <1>11, <1>12

(* A handler goes on with a walk, or ends it; the only walk that finds no   *)
(* node is that of a thread to be dispatched.                               *)
LEMMA PasoAvanzar ==
    ASSUME MemTipo, Enlazadas, NEW k \in Atencion, TareaDe(k), Avanzar(k), UNCHANGED terminados
    PROVE  /\ UNCHANGED <<primero, siguiente, existe, ctx, memoria>>
           /\ tarea' \in [Atencion -> TareaTipo]
           /\ \A j \in Atencion \ {k} : tarea'[j] = tarea[j]
           /\ tarea'[k].op = tarea[k].op /\ tarea'[k].nodo = tarea[k].nodo
           /\ tarea[k].op \in OpsTodas /\ TareaDe(k)'
           /\ \/ caida' = caida
              \/ caida' = "hilo_sin_crear" /\ tarea' = tarea /\ tarea[k].op = "DEVOLVER_CONTEXTO"
<1> DEFINE t == tarea[k]
           r == Head(t.recorridos)
           l == r.lista
<1>1. /\ t \in TareaTipo /\ t.op \in OpsTodas /\ Activa(t) /\ t.recorridos # <<>>
      /\ t.op \in Ops(k) /\ t.andando
  BY ConRecorridos DEF Avanzar
<1>2. /\ r \in Tramo /\ t.nodo \in Nodos /\ t.recorridos \in Seq(Tramo)
      /\ Tail(t.recorridos) \in Restos(t.op, t.nodo)
      /\ l \in {<<>>} \cup (existe \cap Procesos)
      /\ r.hasta = Nulo =>
            t.op \in Altas /\ Tail(t.recorridos) = <<>> /\ l = Lista(t.nodo)
      /\ r.hasta # Nulo =>
            /\ r.hasta \in Nodos /\ l = Lista(r.hasta)
            /\ r.hasta \in t.habia \/ (t.op = "DEVOLVER_CONTEXTO" /\ r.hasta \in Hilos)
      /\ Tail(t.recorridos) = <<>> =>
            IF t.op \in Altas THEN r.hasta = Nulo
            ELSE t.op = "DUMP_MEMORY" \/ r.hasta = t.nodo
  BY <1>1, TramoActual
<1>3. EnCamino(t) /\ t.habia \subseteq existe
  BY <1>1 DEF Activa, EnCurso
<1>4. /\ EnLista(l) \subseteq existe /\ existe \subseteq Nodos /\ Nulo \notin Nodos
      /\ \A m \in EnLista(l) : Lista(m) = l /\ Nro(m) \in Nat
      /\ t.actual \in EnLista(l) \cup {Nulo}
  BY <1>3, Nombres DEF Enlazadas, EnLista, EnCamino
<1>5. t.actual # Nulo => /\ t.actual \in EnLista(l) /\ t.actual \in existe
                        /\ EsPrimero(siguiente[t.actual], Mayores(t.actual))
                        /\ Mayores(t.actual) \subseteq EnLista(l)
  BY <1>4 DEF Enlazadas, Mayores
<1>6. CASE Llega(t)
  <2>a. PICK u : u = [t EXCEPT !.recorridos = Tail(@), !.andando = FALSE]
    OBVIOUS
  <2>1. /\ tarea' = [tarea EXCEPT ![k].recorridos = Tail(@), ![k].andando = FALSE]
        /\ UNCHANGED <<primero, siguiente, existe, ctx, memoria, caida>>
    BY <1>5, <1>6 DEF Avanzar
  <2>2. tarea' = [tarea EXCEPT ![k] = u]
    BY <2>1, <2>a
  <2>3. /\ u \in TareaTipo /\ u.op = t.op /\ u.nodo = t.nodo
        /\ u.recorridos = Tail(t.recorridos) /\ u.habia = t.habia /\ u.andando = FALSE
        /\ u.previo = t.previo /\ u.actual = t.actual
    <3>1. Tail(t.recorridos) \in Seq(Tramo)
      BY <1>1, <1>2
    <3> QED
      BY <1>1, <2>a, <3>1 DEF TareaTipo
  <2>4. /\ tarea'[k] = u /\ tarea' \in [Atencion -> TareaTipo]
        /\ \A j \in Atencion \ {k} : tarea'[j] = tarea[j]
    BY <2>2, <2>3 DEF MemTipo
  <2>5. EnCurso(u)
    BY <1>1, <1>2, <2>3 DEF Activa, EnCurso
  <2>6. ASSUME u.op \in Altas
        PROVE  Alta(u)
    <3>1. Alta(t)
      BY <1>1, <2>3, <2>6 DEF Activa
    <3>2. ASSUME u.recorridos = <<>>
          PROVE  IF EnLista(Lista(t.nodo)) = {} THEN t.actual = Nulo
                 ELSE t.actual \in EnLista(Lista(t.nodo)) /\ Mayores(t.actual) = {}
      <4>1. r.hasta = Nulo /\ l = Lista(t.nodo)
        BY <1>2, <2>3, <2>6, <3>2
      <4>2. IF EnLista(l) = {} THEN t.actual = Nulo ELSE t.actual \in EnLista(l)
        BY <1>3, <4>1 DEF EnCamino
      <4>3. t.actual # Nulo => siguiente[t.actual] = Nulo
        BY <1>6, <4>1 DEF Llega
      <4>4. t.actual # Nulo => Mayores(t.actual) = {}
        BY <1>4, <1>5, <4>3 DEF EsPrimero
      <4> QED
        BY <1>4, <4>1, <4>2, <4>4
    <3> QED
      BY <2>3, <3>1, <3>2 DEF Alta
  <2>7. ASSUME u.op \notin Altas \cup {"DUMP_MEMORY"}, u.recorridos = <<>>
        PROVE  /\ t.nodo \in existe
               /\ u.op \in Bajas => Precede(t.previo, t.nodo, Lista(t.nodo))
    <3>1. r.hasta = t.nodo /\ r.hasta # Nulo /\ l = Lista(t.nodo)
      BY <1>2, <1>4, <2>3, <2>7
    <3>2. t.actual = t.nodo
      BY <1>6, <3>1 DEF Llega
    <3>3. u.op \in Bajas => Precede(t.previo, t.actual, l)
      BY <1>3, <2>3, <3>1 DEF EnCamino
    <3> QED
      BY <1>4, <1>5, <3>1, <3>2, <3>3
  <2>8. u.op \in Bajas => Baja(u)
    <3>1. u.op \in Bajas => u.op \notin Altas \cup {"DUMP_MEMORY"} /\ Baja(t)
      BY <1>1, <2>3 DEF Bajas, Altas, Activa
    <3> QED
      BY <2>3, <2>7, <3>1 DEF Baja
  <2>9. Activa(u)
    BY <2>3, <2>5, <2>6, <2>7, <2>8 DEF Activa, Altas
  <2>10. Activa(u)'
    BY <2>1, <2>9, MismasListas
  <2>11. TareaDe(k)'
    BY <1>1, <2>3, <2>4, <2>10 DEF TareaDe
  <2>12. tarea'[k].op = tarea[k].op /\ tarea'[k].nodo = tarea[k].nodo
    BY <2>3, <2>4
  <2> QED
    BY <1>1, <2>1, <2>4, <2>11, <2>12
<1>7. CASE ~Llega(t) /\ t.actual = Nulo
  <2>1. r.hasta # Nulo
    BY <1>7 DEF Llega
  <2>2. r.hasta \notin t.habia
    BY <1>3, <1>7, <2>1 DEF EnCamino
  <2>3. t.op = "DEVOLVER_CONTEXTO" /\ r.hasta \in Hilos \ t.habia
    BY <1>2, <2>1, <2>2
  <2>4. Caer("hilo_sin_crear")
    BY <1>7, <2>3 DEF Avanzar
  <2>5. /\ UNCHANGED <<primero, siguiente, existe, ctx, memoria, tarea>>
        /\ caida' = "hilo_sin_crear"
    BY <2>4 DEF Caer
  <2>6. Activa(t)' /\ tarea'[k] = t
    BY <1>1, <2>5, MismasListas
  <2>7. TareaDe(k)'
    BY <1>1, <2>6 DEF TareaDe
  <2> QED
    BY <1>1, <2>3, <2>5, <2>7 DEF MemTipo
<1>8. CASE ~Llega(t) /\ t.actual # Nulo
  <2> DEFINE a == t.actual
             b == siguiente[t.actual]
  <2>a. PICK u : u = [t EXCEPT !.previo = a, !.actual = b]
    OBVIOUS
  <2>1. /\ tarea' = [tarea EXCEPT ![k].previo = a, ![k].actual = b]
        /\ UNCHANGED <<primero, siguiente, existe, ctx, memoria, caida>>
    BY <1>5, <1>8 DEF Avanzar
  <2>2. tarea' = [tarea EXCEPT ![k] = u]
    BY <2>1, <2>a
  <2>3. a \in Nodos /\ b \in Nodos \cup {Nulo}
    BY <1>4, <1>5, <1>8 DEF MemTipo
  <2>4. /\ u \in TareaTipo /\ u.op = t.op /\ u.nodo = t.nodo
        /\ u.recorridos = t.recorridos /\ u.habia = t.habia /\ u.andando = t.andando
        /\ u.previo = a /\ u.actual = b
    BY <1>1, <2>3, <2>a DEF TareaTipo
  <2>5. /\ tarea'[k] = u /\ tarea' \in [Atencion -> TareaTipo]
        /\ \A j \in Atencion \ {k} : tarea'[j] = tarea[j]
    BY <2>2, <2>4 DEF MemTipo
  <2>6. /\ a \in EnLista(l) /\ Nro(a) \in Nat /\ Lista(a) = l
        /\ Mayores(a) \subseteq EnLista(l) /\ EsPrimero(b, Mayores(a))
    BY <1>4, <1>5, <1>8
  <2>7. b \in EnLista(l) \cup {Nulo}
    BY <2>6 DEF EsPrimero
  <2>8. EnCamino(u)
    <3>1. CASE r.hasta = Nulo
      <4>1. b # Nulo
        BY <1>8, <3>1 DEF Llega
      <4>2. b \in EnLista(l)
        BY <2>7, <4>1
      <4> QED
        BY <2>4, <3>1, <4>2 DEF EnCamino
    <3>2. CASE r.hasta # Nulo
      <4>1. a # r.hasta
        BY <1>8, <3>2 DEF Llega
      <4>2. ASSUME r.hasta \in t.habia
            PROVE  b # Nulo /\ Nro(b) <= Nro(r.hasta)
        <5>1. Nro(a) <= Nro(r.hasta)
          BY <1>3, <3>2, <4>2 DEF EnCamino
        <5>2. r.hasta \in EnLista(l)
          BY <1>2, <1>3, <3>2, <4>2 DEF EnLista
        <5>3. Nro(a) # Nro(r.hasta)
          BY <1>2, <1>4, <2>6, <3>2, <4>1, Nombres
        <5>4. r.hasta \in Mayores(a)
          BY <1>4, <2>6, <5>1, <5>2, <5>3 DEF Mayores
        <5> QED
          BY <1>4, <2>6, <5>4 DEF EsPrimero
      <4>3. Precede(a, b, l)
        BY <1>4, <2>6 DEF Precede
      <4> QED
        BY <2>4, <2>7, <3>2, <4>2, <4>3 DEF EnCamino
    <3> QED
      BY <3>1, <3>2
  <2>9. Activa(u)
    <3>1. EnCurso(u)
      BY <1>1, <2>4, <2>8 DEF Activa, EnCurso
    <3>2. u.op \in Altas => Alta(u)
      BY <1>1, <2>4 DEF Activa, Alta
    <3>3. u.op \in Bajas => Baja(u)
      BY <1>1, <2>4 DEF Activa, Baja
    <3> QED
      BY <1>1, <2>4, <3>1, <3>2, <3>3 DEF Activa
  <2>10. Activa(u)'
    BY <2>1, <2>9, MismasListas
  <2>11. TareaDe(k)'
    BY <1>1, <2>4, <2>5, <2>10 DEF TareaDe
  <2>12. tarea'[k].op = tarea[k].op /\ tarea'[k].nodo = tarea[k].nodo
    BY <2>4, <2>5
  <2> QED
    BY <1>1, <2>1, <2>5, <2>11, <2>12
<1> QED
  BY <1>6, <1>7, <1>8
(* A handler that does not unlink nodes goes on as if others had not       *)
(* appended theirs.                                                        *)
LEMMA OtroCrece ==
    ASSUME Enlazadas, NEW t \in TareaTipo, t.op \in OpsTodas \ Bajas, Activa(t),
           NEW n \in Nodos, existe' = existe \cup {n}, UNCHANGED terminados,
           t.op \in Altas => Lista(t.nodo) # Lista(n)
    PROVE  Activa(t)'
<1>1. \A l : EnLista(l)' = IF l = Lista(n) THEN EnLista(l) \cup {n} ELSE EnLista(l)
  BY DEF EnLista
<1>2. EnCurso(t) /\ existe \subseteq existe'
  BY DEF Activa
<1>3. t.op \notin Bajas /\ t.nodo \in Nodos
  BY <1>2, Nombres DEF EnCurso, Nodos
<1>4. ASSUME t.recorridos # <<>>, t.andando
      PROVE  EnCamino(t)'
  <2>1. EnCamino(t)
    BY <1>2, <1>4 DEF EnCurso
  <2>2. PICK r : r = Head(t.recorridos)
    OBVIOUS
  <2>3. CASE r.hasta = Nulo
    <3>1. t.op \in Altas /\ r.lista = Lista(t.nodo)
      BY <1>4, <2>2, <2>3, TramoActual
    <3>2. EnLista(r.lista)' = EnLista(r.lista)
      BY <1>1, <3>1
    <3> QED
      BY <2>1, <2>2, <2>3, <3>2 DEF EnCamino
  <2>4. CASE r.hasta # Nulo
    <3>1. EnLista(r.lista) \subseteq EnLista(r.lista)'
      BY <1>1
    <3> QED
      BY <1>3, <2>1, <2>2, <2>4, <3>1 DEF EnCamino
  <2> QED
    BY <2>3, <2>4
<1>5. EnCurso(t)'
  BY <1>2, <1>4 DEF EnCurso
<1>6. ASSUME t.op \in Altas
      PROVE  Alta(t)'
  <2>1. Alta(t) /\ Lista(t.nodo) # Lista(n)
    BY <1>6 DEF Activa
  <2>2. t.nodo \notin existe' /\ EnLista(Lista(t.nodo))' = EnLista(Lista(t.nodo))
    BY <1>1, <2>1 DEF Alta
  <2>3. \A m \in EnLista(Lista(t.nodo)) : Mayores(m)' = Mayores(m)
    BY <2>2 DEF Mayores, EnLista
  <2> QED
    BY <2>1, <2>2, <2>3 DEF Alta
<1> QED
  BY <1>2, <1>3, <1>5, <1>6 DEF Activa

(* The handlers with nothing to do. *)
LEMMA Libres ==
    /\ Libre \in TareaTipo /\ Confirmada \in TareaTipo
    /\ Libre.op = "libre" /\ Confirmada.op = "confirmado"
    /\ Libre.recorridos = <<>> /\ Confirmada.recorridos = <<>>
    /\ {"libre", "confirmado"} \cap OpsTodas = {}
    /\ OpsTodas = Consultas \cup Altas \cup Bajas \cup {"DUMP_MEMORY"}
<1>1. <<>> \in Seq(Tramo)
  OBVIOUS
<1>2. Libre \in TareaTipo
  BY <1>1 DEF Libre, TareaTipo
<1>3. Confirmada \in TareaTipo
  BY <1>2 DEF Confirmada, TareaTipo
<1> QED
  BY <1>2, <1>3 DEF Libre, Confirmada, OpsTodas, Consultas, Altas, Bajas

(* What the others are doing when a handler links or unlinks a node.       *)
LEMMA Quietas ==
    ASSUME MemTipo, Tareas, Separadas, NEW k \in Atencion
    PROVE  /\ tarea[k] \in TareaTipo
           /\ tarea[k] = Libre \/ tarea[k] = Confirmada
              \/ (tarea[k].op \in Ops(k) /\ tarea[k].op \in OpsTodas /\ Activa(tarea[k]))
           /\ tarea[k].op \in Bajas => k \in {"sts", "volcado"}
           /\ tarea[k].op \in Altas => k \notin {"cpu", "sts", "volcado"} \cup Volcadores
           /\ tarea[k].op \in Consultas => k = "cpu"
           /\ tarea[k].op = "DUMP_MEMORY" => k \in Volcadores
           /\ Libre.op \notin OpsTodas /\ Confirmada.op \notin OpsTodas
           /\ Libre.op = "libre" /\ Confirmada.op = "confirmado"
<1>1. tarea[k] \in TareaTipo /\ TareaDe(k)
  BY DEF MemTipo, Tareas
<1>2. Libre.op = "libre" /\ Confirmada.op = "confirmado"
  BY DEF Libre, Confirmada
<1>3. {"libre", "confirmado"} \cap OpsTodas = {}
  BY DEF OpsTodas, Consultas, Altas, Bajas
<1>4. Ops(k) \subseteq OpsTodas
  BY DEF Ops, OpsTodas, Consultas, Altas, Bajas
<1>5. /\ tarea[k].op \in Bajas \cap Ops(k) => k \in {"sts", "volcado"}
      /\ tarea[k].op \in Altas \cap Ops(k) => k \notin {"cpu", "sts", "volcado"} \cup Volcadores
      /\ tarea[k].op \in Consultas \cap Ops(k) => k = "cpu"
      /\ tarea[k].op = "DUMP_MEMORY" /\ tarea[k].op \in Ops(k) => k \in Volcadores
  BY CpuMemoriaAssumption DEF Ops, Consultas, Altas, Bajas
<1>6. tarea[k] = Libre \/ tarea[k] = Confirmada \/ (tarea[k].op \in Ops(k) /\ Activa(tarea[k]))
  BY <1>1 DEF TareaDe
<1> QED
  BY <1>1, <1>2, <1>3, <1>4, <1>5, <1>6 DEF OpsTodas

(* A creation links its node.                                              *)
LEMMA PasoEnlazar ==
    ASSUME MemTipo, Enlazadas, Tareas, Separadas, NEW k \in Atencion, Enlazar(k),
           UNCHANGED terminados
    PROVE  /\ tarea[k].op \in Altas /\ tarea[k].nodo \in Nodos
           /\ existe' = existe \cup {tarea[k].nodo} /\ UNCHANGED <<memoria, caida>>
           /\ tarea' = [tarea EXCEPT ![k] = Confirmada]
           /\ MemTipo' /\ Enlazadas' /\ Tareas'
           /\ ctx' = [h \in Hilos |->
                        IF h = tarea[k].nodo THEN ContextoInicial(Base(h[1]), Limite(h[1]))
                        ELSE ctx[h]]
<1>1. PICK t : t = tarea[k]
  OBVIOUS
<1>2. PICK n : n = t.nodo
  OBVIOUS
<1>3. PICK ultimo : ultimo = t.actual
  OBVIOUS
<1>4. t.op \in Altas /\ t.recorridos = <<>>
  BY <1>1 DEF Enlazar, Termino, Altas
<1>5. t \in TareaTipo /\ t.op \in Ops(k) /\ t.op \in OpsTodas /\ Activa(t) /\ t.op \notin Bajas
      /\ k # "cpu"
  BY <1>1, <1>4, Quietas DEF Altas, OpsTodas, Bajas
<1>6. /\ n \notin existe
      /\ \A m \in EnLista(Lista(n)) : Nro(m) < Nro(n)
      /\ IF EnLista(Lista(n)) = {} THEN ultimo = Nulo
         ELSE ultimo \in EnLista(Lista(n)) /\ Mayores(ultimo) = {}
  BY <1>2, <1>3, <1>4, <1>5 DEF Activa, Alta
<1>7. /\ n \in IF t.op = "CREAR_PROCESO" THEN Procesos ELSE Hilos
      /\ t.op # "CREAR_PROCESO" => Proceso(n) \in existe
  BY <1>2, <1>4, <1>5 DEF Activa, EnCurso, Altas
<1>8. n \in Nodos /\ (n \in Hilos => Proceso(n) \in existe /\ Lista(n) = Proceso(n))
      /\ (n \in Procesos => Lista(n) = <<>>)
  BY <1>7, Nombres
<1>9. LET duenio == IF ultimo = Nulo THEN Lista(n) ELSE ultimo
      IN  ~(duenio # <<>> /\ duenio \notin existe)
  BY <1>6, <1>8, Nombres DEF EnLista
<1>10. /\ primero' = IF n \in Procesos THEN [PrimeroCon(n, ultimo) EXCEPT ![n] = Nulo]
                     ELSE PrimeroCon(n, ultimo)
       /\ siguiente' = [m \in Nodos |-> IF m = ultimo THEN n
                                        ELSE IF m = n THEN Nulo ELSE siguiente[m]]
       /\ existe' = existe \cup {n}
       /\ ctx' = [h \in Hilos |->
                     IF h = n THEN ContextoInicial(Base(n[1]), Limite(n[1])) ELSE ctx[h]]
       /\ tarea' = [tarea EXCEPT ![k] = Confirmada]
       /\ UNCHANGED <<memoria, caida>>
  BY <1>1, <1>2, <1>3, <1>9 DEF Enlazar, Confirmada
<1>11. Enlazadas'
  BY <1>6, <1>8, <1>10, ListaCrece DEF MemTipo
<1>12. Confirmada \in TareaTipo
  BY Libres
<1>13. MemTipo'
  <2>1. tarea' \in [Atencion -> TareaTipo]
    BY <1>10, <1>12 DEF MemTipo
  <2>2. primero' \in [Listas -> Nodos \cup {Nulo}]
    BY <1>8, <1>10 DEF MemTipo, PrimeroCon
  <2>3. siguiente' \in [Nodos -> Nodos \cup {Nulo}]
    BY <1>8, <1>10 DEF MemTipo
  <2> QED
    BY <2>1, <2>2, <2>3 DEF MemTipo
<1>14. ASSUME NEW j \in Atencion
       PROVE  TareaDe(j)'
  <2>1. PICK u : u = tarea[j]
    OBVIOUS
  <2>2. CASE j = k
    BY <1>5, <1>10, <2>2 DEF TareaDe, MemTipo
  <2>3. CASE j # k
    <3>1. tarea'[j] = u
      BY <1>10, <2>1, <2>3 DEF MemTipo
    <3>2. ASSUME u.op \in Ops(j), Activa(u), u # Libre, u # Confirmada
          PROVE  Activa(u)'
      <4>1. u \in TareaTipo /\ u.op \in OpsTodas
        BY <2>1, <3>2, Quietas
      <4>2. u.op \notin Bajas
        <5>1. t # Libre
          BY <1>1, <1>4, Quietas DEF OpsTodas
        <5>2. u.op \in Bajas => j \in {"sts", "volcado"}
          BY <2>1, Quietas
        <5> QED
          BY <1>1, <2>1, <2>3, <3>2, <5>1, <5>2 DEF Separadas
      <4>3. u.op \in Altas => Lista(u.nodo) # Lista(n)
        BY <1>1, <1>2, <1>4, <2>1, <2>3 DEF Separadas
      <4> QED
        BY <1>8, <1>10, <3>2, <4>1, <4>2, <4>3, OtroCrece
    <3>3. u = Libre \/ (u = Confirmada /\ j # "cpu") \/ (u.op \in Ops(j) /\ Activa(u))
      BY <2>1 DEF Tareas, TareaDe
    <3>4. CASE u = Libre \/ (u = Confirmada /\ j # "cpu")
      BY <3>1, <3>4 DEF TareaDe
    <3>5. CASE u.op \in Ops(j) /\ Activa(u) /\ u # Libre /\ u # Confirmada
      <4>1. Activa(u)'
        BY <3>2, <3>5
      <4> QED
        BY <3>1, <3>5, <4>1 DEF TareaDe
    <3>6. u = Confirmada => j # "cpu"
      BY <3>3, Quietas DEF Ops, Consultas
    <3> QED
      BY <3>3, <3>4, <3>5, <3>6
  <2> QED
    BY <2>2, <2>3
<1> QED
  BY <1>1, <1>2, <1>4, <1>8, <1>10, <1>11, <1>13, <1>14 DEF Tareas
(* A finalisation has the memory to itself. *)
LEMMA Finaliza ==
    ASSUME MemTipo, Tareas, Separadas, NEW k \in Atencion, tarea[k].op \in Bajas
    PROVE  /\ k \in {"sts", "volcado"} /\ tarea[k] # Libre
           /\ tarea[k].op \in Ops(k) /\ Activa(tarea[k])
           /\ \A j \in Atencion \ {k} : tarea[j] = Libre
           /\ tarea[k].nodo \in existe /\ tarea[k].nodo \in terminados
<1>1. tarea[k].op \in OpsTodas /\ tarea[k] # Libre /\ tarea[k] # Confirmada
  BY Libres
<1>2. k \in {"sts", "volcado"} /\ tarea[k].op \in Ops(k) /\ Activa(tarea[k])
  BY <1>1, Quietas
<1>3. tarea[k].op \notin Altas \cup {"DEVOLVER_CONTEXTO"}
  BY DEF Bajas, Altas
<1>4. tarea[k].nodo \in existe /\ tarea[k].nodo \in terminados
  BY <1>2, <1>3 DEF Activa, EnCurso, Baja
<1> QED
  BY <1>1, <1>2, <1>4 DEF Separadas

(* The first thread of a process that is finalised goes.                   *)
LEMMA PasoVaciar ==
    ASSUME MemTipo, Enlazadas, Tareas, Separadas, NEW k \in Atencion, VaciarHilos(k),
           UNCHANGED terminados
    PROVE  /\ tarea[k].op \in Bajas /\ UNCHANGED <<ctx, memoria, tarea, caida>>
           /\ \E h \in existe : h \in Hilos /\ Proceso(h) = tarea[k].nodo /\ existe' = existe \ {h}
           /\ MemTipo' /\ Enlazadas' /\ Tareas'
<1>1. PICK t : t = tarea[k]
  OBVIOUS
<1>2. PICK n : n = t.nodo
  OBVIOUS
<1>3. PICK h : h = primero[n]
  OBVIOUS
<1>4. t.op = "FINALIZAR_PROCESO" /\ t.op \in Bajas /\ t.recorridos = <<>> /\ h # Nulo
  BY <1>1, <1>2, <1>3 DEF VaciarHilos, Termino, Bajas
<1>5. /\ k \in {"sts", "volcado"} /\ t # Libre /\ t.op \in Ops(k) /\ Activa(t)
      /\ \A j \in Atencion \ {k} : tarea[j] = Libre
      /\ n \in existe /\ n \in terminados
  BY <1>1, <1>2, <1>4, Finaliza
<1>6. n \in Procesos /\ t.habia \subseteq {n}
  BY <1>2, <1>4, <1>5, Nombres DEF Activa, EnCurso
<1>7. h \in EnLista(n)
  BY <1>3, <1>4, <1>5, <1>6 DEF Enlazadas, EsPrimero
<1>8. h \in existe /\ Lista(h) = n /\ h \in Hilos /\ Proceso(h) = n /\ h \notin Procesos /\ n # <<>>
  BY <1>6, <1>7, Nombres DEF EnLista, Enlazadas
<1>9. /\ primero' = [primero EXCEPT ![n] = siguiente[h]]
      /\ existe' = existe \ {h}
      /\ UNCHANGED <<siguiente, ctx, memoria, tarea, caida>>
  BY <1>1, <1>2, <1>3, <1>8 DEF VaciarHilos
<1>10. n \in Listas /\ h \in Nodos /\ Nulo \notin Nodos
  BY <1>6, <1>8, Nombres
<1>11. siguiente' = [m \in Nodos |-> IF m = Nulo THEN siguiente[h] ELSE siguiente[m]]
  BY <1>9, <1>10 DEF MemTipo
<1>12. Precede(Nulo, h, Lista(h)) /\ primero' = PrimeroSin(h, Nulo)
  BY <1>3, <1>8, <1>9 DEF Precede, PrimeroSin
<1>13. Enlazadas'
  BY <1>8, <1>9, <1>11, <1>12, ListaDecrece DEF MemTipo
<1>14. MemTipo'
  BY <1>9, <1>10 DEF MemTipo
<1>15. Activa(t)'
  <2>1. EnCurso(t)'
    BY <1>4, <1>5, <1>6, <1>8, <1>9 DEF Activa, EnCurso
  <2>2. Baja(t)'
    <3>1. Precede(t.previo, n, <<>>)
      BY <1>2, <1>4, <1>5, <1>6, Nombres DEF Activa, Baja
    <3>2. primero'[<<>>] = primero[<<>>] /\ siguiente' = siguiente
      BY <1>8, <1>9, <1>10, Nombres DEF MemTipo
    <3>3. EnLista(<<>>)' = EnLista(<<>>)
      BY <1>8, <1>9 DEF EnLista
    <3>4. Precede(t.previo, n, <<>>)'
      BY <3>1, <3>2, <3>3 DEF Precede
    <3>5. n \in terminados' /\ Lista(n) = <<>>
      BY <1>5, <1>6, Nombres
    <3> QED
      BY <1>2, <3>4, <3>5 DEF Baja
  <2>3. t.op \notin Altas /\ t.op # "DEVOLVER_CONTEXTO"
    BY <1>4 DEF Altas
  <2> QED
    BY <2>1, <2>2, <2>3 DEF Activa
<1>16. Tareas'
  <2>1. TareaDe(k)'
    BY <1>1, <1>5, <1>9, <1>15 DEF TareaDe
  <2>2. \A j \in Atencion \ {k} : TareaDe(j)'
    BY <1>5, <1>9 DEF TareaDe
  <2> QED
    BY <2>1, <2>2 DEF Tareas
<1> QED
  BY <1>1, <1>2, <1>4, <1>8, <1>9, <1>13, <1>14, <1>16

(* The node that is finalised goes. *)
LEMMA PasoDesenlazar ==
    ASSUME MemTipo, Enlazadas, Tareas, Separadas, NEW k \in Atencion, Desenlazar(k),
           UNCHANGED terminados
    PROVE  /\ tarea[k].op \in Bajas /\ UNCHANGED <<ctx, memoria, caida>>
           /\ tarea' = [tarea EXCEPT ![k] = Confirmada]
           /\ existe' = existe \ {tarea[k].nodo}
           /\ MemTipo' /\ Enlazadas' /\ Tareas'
<1>1. PICK t : t = tarea[k]
  OBVIOUS
<1>2. PICK n : n = t.nodo
  OBVIOUS
<1>3. PICK previo : previo = t.previo
  OBVIOUS
<1>4. /\ t.op \in Bajas /\ t.recorridos = <<>>
      /\ t.op = "FINALIZAR_PROCESO" => primero[n] = Nulo
  BY <1>1, <1>2, <1>3 DEF Desenlazar, Termino, Bajas
<1>5. /\ k \in {"sts", "volcado"} /\ t # Libre /\ t.op \in Ops(k) /\ Activa(t)
      /\ \A j \in Atencion \ {k} : tarea[j] = Libre
      /\ n \in existe /\ n \in terminados
  BY <1>1, <1>2, <1>4, Finaliza
<1>6. Precede(previo, n, Lista(n))
  BY <1>2, <1>3, <1>4, <1>5 DEF Activa, Baja
<1>7. ({n, previo} \ {Nulo}) \subseteq existe /\ existe \subseteq Nodos
  BY <1>5, <1>6 DEF Precede, EnLista, Enlazadas
<1>8. /\ primero' = PrimeroSin(n, previo)
      /\ siguiente' = [m \in Nodos |-> IF m = previo THEN siguiente[n] ELSE siguiente[m]]
      /\ existe' = existe \ {n}
      /\ tarea' = [tarea EXCEPT ![k] = Confirmada]
      /\ UNCHANGED <<ctx, memoria, caida>>
  BY <1>1, <1>2, <1>3, <1>7 DEF Desenlazar, Confirmada
<1>9. n \in Procesos => EnLista(n) = {}
  <2> SUFFICES ASSUME n \in Procesos
               PROVE  EnLista(n) = {}
    OBVIOUS
  <2>1. t.op = "FINALIZAR_PROCESO"
    BY <1>2, <1>4, <1>5, Nombres DEF Activa, EnCurso, Bajas
  <2>2. EsPrimero(Nulo, EnLista(n)) /\ Nulo \notin existe
    BY <1>4, <1>5, <1>7, <2>1, Nombres DEF Enlazadas
  <2> QED
    BY <2>2 DEF EsPrimero, EnLista
<1>10. Enlazadas'
  BY <1>5, <1>6, <1>8, <1>9, ListaDecrece DEF MemTipo
<1>11. MemTipo'
  <2>1. primero' \in [Listas -> Nodos \cup {Nulo}]
    BY <1>5, <1>7, <1>8 DEF MemTipo, PrimeroSin
  <2>2. siguiente' \in [Nodos -> Nodos \cup {Nulo}]
    BY <1>5, <1>7, <1>8 DEF MemTipo
  <2>3. tarea' \in [Atencion -> TareaTipo]
    BY <1>8, Libres DEF MemTipo
  <2> QED
    BY <2>1, <2>2, <2>3 DEF MemTipo
<1>12. Tareas'
  <2>1. tarea'[k] = Confirmada /\ k # "cpu" /\ \A j \in Atencion \ {k} : tarea'[j] = Libre
    BY <1>5, <1>8 DEF MemTipo
  <2> QED
    BY <2>1 DEF Tareas, TareaDe
<1> QED
  BY <1>1, <1>2, <1>4, <1>8, <1>10, <1>11, <1>12
-----------------------------------------------------------------------------
(* What a step of the memory changes of the rest of the invariant.         *)
Resto == Separadas /\ Admision /\ Huerfanos /\ Terminos /\ Planificados /\ CpuBien /\ Caidas

(* The thread of the CPU that waits in each of its states. *)
LEMMA EsperaDeLaCpu ==
    ASSUME CpuBien, tarea["cpu"].op = "DEVOLVER_CONTEXTO"
    PROVE  cpu = "contexto"
<1>1. tarea["cpu"] # Libre
  BY DEF Libre
<1> QED
  BY <1>1 DEF CpuBien, Pide

(* A handler goes on: nothing else changes.                                *)
LEMMA RestoAlRecorrer ==
    ASSUME Resto, NEW k \in Atencion, tarea[k].op \in OpsTodas,
           UNCHANGED <<existe, kernelVars, cpuVars>>,
           \A j \in Atencion \ {k} : tarea'[j] = tarea[j],
           tarea'[k].op = tarea[k].op, tarea'[k].nodo = tarea[k].nodo,
           \/ caida' = caida
           \/ caida' = "hilo_sin_crear" /\ tarea[k].op = "DEVOLVER_CONTEXTO" /\ k = "cpu"
    PROVE  Resto'
<1>1. /\ "cpu" \in Atencion /\ "lp" \in Atencion /\ "sts" \in Atencion /\ "volcado" \in Atencion
      /\ Huerfanas \subseteq Atencion
  BY CpuMemoriaAssumption
<1>2. \A j \in Atencion : /\ tarea'[j].op = tarea[j].op /\ tarea'[j].nodo = tarea[j].nodo
                          /\ (tarea'[j] = Libre) <=> (tarea[j] = Libre)
  BY Libres
<1>3. UNCHANGED <<admitidos, lp, listos, bloqueados, estado_exec, ultimo_tid, terminados,
                  cpu, hilo, contexto, instr>>
  BY DEF kernelVars, cpuVars
<1>4. Separadas'
  BY <1>1, <1>2, <1>3 DEF Resto, Separadas
<1>5. Admision'
  BY <1>1, <1>2, <1>3 DEF Resto, Admision, EnAlta, EnLista
<1>6. Huerfanos'
  BY <1>1, <1>2, <1>3 DEF Resto, Huerfanos, Huerfano, Terminado
<1>7. Terminos'
  BY <1>3 DEF Resto, Terminos
<1>8. \A h : /\ EnMarcha(h) => EnMarcha(h)'
             /\ Corre(h) => Corre(h)'
  BY <1>1, <1>2, <1>3 DEF EnMarcha, Corre, Admitido, Nace, Terminado
<1>9. Planificados'
  BY <1>3, <1>8 DEF Resto, Planificados, EnReady, Dormidos
<1>10. CpuBien'
  BY <1>1, <1>2, <1>3, <1>8 DEF Resto, CpuBien, Pide, Omite, Entregado, EnReady
<1>11. Caidas'
  <2>1. tarea["cpu"].op = "DEVOLVER_CONTEXTO" => cpu = "contexto"
    BY EsperaDeLaCpu DEF Resto
  <2> QED
    BY <1>3, <2>1 DEF Resto, Caidas
<1> QED
  BY <1>4, <1>5, <1>6, <1>7, <1>9, <1>10, <1>11 DEF Resto

(* A node is linked.                                                       *)
LEMMA RestoAlEnlazar ==
    ASSUME MemTipo, Tareas, Resto, NEW k \in Atencion, tarea[k].op \in Altas,
           UNCHANGED <<caida, kernelVars, cpuVars>>,
           existe' = existe \cup {tarea[k].nodo}, tarea' = [tarea EXCEPT ![k] = Confirmada]
    PROVE  Resto'
<1>1. /\ "cpu" \in Atencion /\ "lp" \in Atencion /\ "sts" \in Atencion /\ "volcado" \in Atencion
      /\ Atencion = {"cpu", "lp", "sts", "volcado"} \cup Huerfanas \cup Volcadores
      /\ (Huerfanas \cup Volcadores) \cap {"cpu", "lp", "sts", "volcado"} = {}
      /\ Huerfanas \cap Volcadores = {}
  BY CpuMemoriaAssumption
<1>2. UNCHANGED <<admitidos, lp, listos, bloqueados, estado_exec, ultimo_tid, terminados,
                  cpu, hilo, contexto, instr, caida>>
  BY DEF kernelVars, cpuVars
<1>3. /\ tarea'[k].op = "confirmado" /\ \A j \in Atencion \ {k} : tarea'[j] = tarea[j]
  BY Libres DEF MemTipo
<1>4. PICK n : n = tarea[k].nodo
  OBVIOUS
<1>5. /\ tarea[k] # Libre /\ tarea[k].op # "confirmado" /\ Resto
      /\ k = "lp" \/ k \in Huerfanas
      /\ Activa(tarea[k])
  BY <1>1, Libres, Quietas DEF Resto
<1>6. /\ n \in Nodos /\ n[1] <= admitidos
      /\ n \in Hilos => n[2] <= ultimo_tid[n[1]]
      /\ Lista(n) = <<admitidos>> => lp = "hilo"
      /\ n[1] = admitidos => k = "lp" /\ lp \in {"proceso", "hilo"}
      /\ k = "lp" /\ lp = "proceso" => n = <<admitidos>>
      /\ k = "lp" /\ lp = "hilo" => n = <<admitidos, 0>>
  <2>1. n \in IF tarea[k].op = "CREAR_PROCESO" THEN Procesos ELSE Hilos
    BY <1>4, <1>5 DEF Activa, EnCurso, Altas
  <2>2. CASE k = "lp"
    <3>1. \/ lp = "proceso" /\ tarea[k].op = "CREAR_PROCESO" /\ n = <<admitidos>>
          \/ lp = "hilo" /\ tarea[k].op = "CREAR_HILO" /\ n = <<admitidos, 0>>
      BY <1>4, <1>5, <2>2 DEF Resto, Admision
    <3>2. admitidos \in Nat /\ admitidos <= MaxPid /\ ultimo_tid[admitidos] \in Nat
      BY <3>1, MemoriaAssumption DEF Resto, Admision, Pids
    <3>3. CASE lp = "proceso" /\ n = <<admitidos>> /\ n \in Procesos
      <4>1. n[1] = admitidos /\ n \notin Hilos /\ Lista(n) = <<>>
        BY <3>3, Nombres
      <4>2. <<>> # <<admitidos>>
        BY <3>3, Nombres
      <4> QED
        BY <2>2, <3>2, <3>3, <4>1, <4>2 DEF Nodos
    <3>4. CASE lp = "hilo" /\ n = <<admitidos, 0>> /\ n \in Hilos
      <4>1. n[1] = admitidos /\ n[2] = 0
        BY <3>4
      <4> QED
        BY <2>2, <3>2, <3>4, <4>1 DEF Nodos
    <3> QED
      BY <2>1, <3>1, <3>3, <3>4
  <2>3. CASE k \in Huerfanas
    <3>1. tarea[k].op = "CREAR_HILO"
      <4>1. tarea[k].op \in Ops(k) /\ k \notin {"cpu", "lp", "sts", "volcado"} \cup Volcadores
        BY <1>1, <1>5, <2>3, Quietas, Libres DEF Resto
      <4> QED
        BY <4>1 DEF Ops
    <3>2. n[1] < admitidos /\ n[2] = ultimo_tid[n[1]] /\ n \in Hilos
      BY <1>4, <2>1, <2>3, <3>1 DEF Resto, Huerfanos, Huerfano
    <3>a. n \in Nodos /\ Lista(n) = <<n[1]>>
      BY <3>2, Nombres DEF Proceso, Nodos
    <3>b. n[1] \in Nat /\ n[2] \in Nat
      BY <3>2, <3>a, Nombres
    <3>c. admitidos \in Nat
      BY MemoriaAssumption DEF Resto, Admision
    <3>3. Lista(n) = <<n[1]>> /\ n[1] \in Nat /\ n[2] \in Nat /\ admitidos \in Nat /\ n \in Nodos
      BY <3>a, <3>b, <3>c
    <3>4. <<n[1]>> # <<admitidos>>
      BY <3>2, <3>3
    <3> QED
      BY <1>1, <2>3, <3>2, <3>3, <3>4
  <2> QED
    BY <1>5, <2>2, <2>3
<1>8. Separadas'
  <2>1. \A j \in Atencion : tarea'[j].op \in Altas =>
           j # k /\ tarea[j].op \in Altas /\ tarea'[j].nodo = tarea[j].nodo
    BY <1>3, Libres
  <2>2. ASSUME NEW j \in {"sts", "volcado"}, tarea'[j] # Libre
        PROVE  FALSE
    <3>1. j # k
      BY <1>1, <1>5, <2>2
    <3> QED
      BY <1>1, <1>3, <1>5, <2>2, <3>1 DEF Resto, Separadas
  <2> QED
    BY <2>1, <2>2 DEF Resto, Separadas
<1>9. Admision'
  <2> USE DEF Resto, Admision
  <2>1. EnAlta(admitidos) => EnAlta(admitidos)'
    BY <1>2, <1>3, <1>5 DEF EnAlta
  <2>2. n[1] = admitidos => EnAlta(admitidos)'
    BY <1>2, <1>3, <1>6 DEF EnAlta
  <2>3. \A m \in existe' : m[1] < admitidos' \/ EnAlta(m[1])'
    <3>1. n[1] \in Nat /\ admitidos \in Nat
      BY <1>6, Nombres
    <3>2. \A m \in existe : m[1] < admitidos \/ (m[1] = admitidos /\ EnAlta(admitidos))
      BY DEF EnAlta
    <3>3. n[1] < admitidos \/ n[1] = admitidos
      BY <1>6, <3>1
    <3>4. PICK a : a = admitidos
      OBVIOUS
    <3>5. EnAlta(a)' <=> EnAlta(admitidos)'
      BY <1>2, <3>4 DEF EnAlta
    <3> QED
      BY <1>2, <1>4, <2>1, <2>2, <3>2, <3>3, <3>4, <3>5
  <2>4. \A h \in existe' \cap Hilos : h[2] <= ultimo_tid'[h[1]]
    BY <1>2, <1>4, <1>6
  <2>5. EnAlta(admitidos)' => <<admitidos>> \in existe'
    <3>1. CASE EnAlta(admitidos)
      BY <3>1
    <3>2. CASE ~EnAlta(admitidos) /\ EnAlta(admitidos)'
      <4>1. lp = "proceso" /\ tarea'["lp"].op = "confirmado" /\ tarea["lp"].op # "confirmado"
        BY <1>2, <3>2 DEF EnAlta
      <4>2. k = "lp"
        BY <1>1, <1>3, <4>1
      <4> QED
        BY <1>4, <1>6, <4>1, <4>2
    <3> QED
      BY <3>1, <3>2
  <2>6. \A m \in existe' : Lista(m) = <<admitidos'>> => lp' = "hilo"
    BY <1>2, <1>4, <1>6
  <2>7. lp = "hilo" /\ tarea'["lp"].op = "confirmado" => <<admitidos, 0>> \in existe'
    <3>1. CASE k = "lp"
      BY <1>4, <1>6, <3>1
    <3>2. CASE k # "lp"
      BY <1>1, <1>3, <3>2
    <3> QED
      BY <3>1, <3>2
  <2>8. /\ lp \in {"nada", "proceso_listo"} => tarea'["lp"] = Libre
        /\ tarea'["lp"].op # "confirmado" => tarea'["lp"] = tarea["lp"]
        /\ tarea["lp"] # Libre => tarea'["lp"] # Libre
    BY <1>1, <1>3, <1>5, <1>6, Libres
  <2> QED
    BY <1>2, <2>3, <2>4, <2>5, <2>6, <2>7, <2>8
<1>10. Huerfanos'
  <2> SUFFICES ASSUME NEW j \in Huerfanas
               PROVE  Huerfano(j)'
    BY DEF Huerfanos
  <2>1. tarea'[j].op = "CREAR_HILO" => tarea'[j] = tarea[j]
    BY <1>1, <1>3
  <2> QED
    BY <1>2, <2>1 DEF Resto, Huerfanos, Huerfano, Terminado
<1>11. Terminos'
  BY <1>2 DEF Resto, Terminos
<1>12. /\ \A h : EnMarcha(h) => EnMarcha(h)'
       /\ \A h : Corre(h) => Corre(h)'
  <2>1. \A h : Admitido(h) => Admitido(h)'
    BY <1>2 DEF Admitido, Terminado
  <2>2. \A h : Nace(h) => Nace(h)' \/ h \in existe'
    BY <1>1, <1>3 DEF Nace
  <2> QED
    BY <2>1, <2>2 DEF EnMarcha, Corre
<1>13. Planificados'
  BY <1>2, <1>12 DEF Resto, Planificados, EnReady, Dormidos
<1>14. CpuBien'
  <2>1. tarea'["cpu"] = tarea["cpu"]
    BY <1>1, <1>3, <1>5
  <2> QED
    BY <1>2, <1>12, <2>1 DEF Resto, CpuBien, Pide, Omite, Entregado, EnReady
<1>15. Caidas'
  BY <1>2 DEF Resto, Caidas
<1> QED
  BY <1>8, <1>9, <1>10, <1>11, <1>13, <1>14, <1>15 DEF Resto
(* A node is unlinked: it belongs to what is being finalised. *)
LEMMA RestoAlQuitar ==
    ASSUME MemTipo, Enlazadas, Tareas, Resto, NEW k \in Atencion, tarea[k].op \in Bajas,
           UNCHANGED <<caida, kernelVars, cpuVars>>,
           NEW x \in existe, existe' = existe \ {x},
           x = tarea[k].nodo \/ (x \in Hilos /\ Proceso(x) = tarea[k].nodo),
           tarea' = tarea \/ tarea' = [tarea EXCEPT ![k] = Confirmada]
    PROVE  Resto'
<1>1. /\ "cpu" \in Atencion /\ "lp" \in Atencion /\ "sts" \in Atencion /\ "volcado" \in Atencion
      /\ Atencion = {"cpu", "lp", "sts", "volcado"} \cup Huerfanas \cup Volcadores
      /\ (Huerfanas \cup Volcadores) \cap {"cpu", "lp", "sts", "volcado"} = {}
      /\ Huerfanas \cap Volcadores = {}
  BY CpuMemoriaAssumption
<1>2. UNCHANGED <<admitidos, lp, listos, bloqueados, estado_exec, ultimo_tid, terminados,
                  cpu, hilo, contexto, instr, caida>>
  BY DEF kernelVars, cpuVars
<1>3. /\ k \in {"sts", "volcado"} /\ tarea[k] # Libre
      /\ \A j \in Atencion \ {k} : tarea[j] = Libre
      /\ tarea[k].nodo \in terminados
  BY Finaliza DEF Resto
<1>4. tarea'[k] # Libre /\ \A j \in Atencion \ {k} : tarea'[j] = tarea[j]
  <2>1. Confirmada # Libre
    BY Libres
  <2> QED
    BY <1>3, <2>1 DEF MemTipo
<1>5. x \in terminados \/ (x \in Hilos /\ Proceso(x) \in terminados)
  BY <1>3
<1>6. x[1] < admitidos
  <2>1. CASE x \in terminados
    BY <2>1 DEF Resto, Terminos
  <2>2. CASE x \in Hilos /\ Proceso(x) \in terminados
    <3>1. Proceso(x)[1] = x[1]
      BY DEF Proceso
    <3> QED
      BY <2>2, <3>1 DEF Resto, Terminos
  <2> QED
    BY <1>5, <2>1, <2>2
<1>7. Separadas'
  <2>1. tarea'[k].op \notin Altas
    BY <1>4, Libres DEF MemTipo, Altas, Bajas
  <2>2. \A j \in Atencion \ {k} : tarea'[j] = Libre
    BY <1>3, <1>4
  <2>3. Libre.op \notin Altas
    BY Libres
  <2>4. \A j \in Atencion : tarea'[j].op \notin Altas
    BY <2>1, <2>2, <2>3
  <2>5. /\ cpu \in {"esperar", "confirmar", "chequear"}
        /\ cpu = "chequear" => instr.op \in {"PROCESS_EXIT", "THREAD_EXIT"}
    BY <1>3 DEF Resto, Separadas
  <2> QED
    BY <1>1, <1>2, <1>3, <2>2, <2>4, <2>5 DEF Separadas
<1>8. Admision'
  <2> USE DEF Resto, Admision
  <2>1. k # "lp" /\ tarea'["lp"] = tarea["lp"] /\ x # <<admitidos>> /\ x # <<admitidos, 0>>
        /\ admitidos \in Int
    <3>1. <<admitidos>>[1] = admitidos /\ <<admitidos, 0>>[1] = admitidos
      OBVIOUS
    <3>2. admitidos \in Int
      OBVIOUS
    <3> QED
      BY <1>1, <1>3, <1>4, <1>6, <3>1, <3>2
  <2>2. EnAlta(admitidos)' <=> EnAlta(admitidos)
    BY <1>2, <2>1 DEF EnAlta
  <2>3. \A m \in existe' : m[1] < admitidos' \/ EnAlta(m[1])'
    BY <1>2, <2>1 DEF EnAlta
  <2> QED
    BY <1>2, <2>1, <2>2, <2>3
<1>9. Huerfanos'
  <2> SUFFICES ASSUME NEW j \in Huerfanas
               PROVE  Huerfano(j)'
    BY DEF Huerfanos
  <2>1. tarea'[j].op # "CREAR_HILO"
    BY <1>1, <1>3, <1>4, Libres DEF Altas
  <2> QED
    BY <2>1 DEF Huerfano
<1>10. Terminos'
  BY <1>2 DEF Resto, Terminos
<1>11. /\ \A h : EnMarcha(h) => EnMarcha(h)'
       /\ \A h : Corre(h) => Corre(h)'
  <2>1. \A h : Admitido(h) => Admitido(h)' /\ h # x
    <3> SUFFICES ASSUME NEW h, Admitido(h)
                 PROVE  Admitido(h)' /\ h # x
      OBVIOUS
    <3>1. h \in Hilos /\ h \notin terminados /\ Proceso(h) \notin terminados
      BY DEF Admitido, Terminado
    <3>2. h # x
      BY <1>5, <3>1
    <3>3. Proceso(h) # x
      BY <1>5, <3>1, Nombres
    <3> QED
      BY <1>2, <3>2, <3>3 DEF Admitido, Terminado
  <2>2. \A h : Nace(h) => Nace(h)'
    BY <1>1, <1>3, <1>4 DEF Nace
  <2> QED
    BY <2>1, <2>2 DEF EnMarcha, Corre, Admitido
<1>12. Planificados'
  BY <1>2, <1>11 DEF Resto, Planificados, EnReady, Dormidos
<1>13. CpuBien'
  <2>1. tarea'["cpu"] = tarea["cpu"]
    BY <1>1, <1>3, <1>4
  <2> QED
    BY <1>2, <1>11, <2>1 DEF Resto, CpuBien, Pide, Omite, Entregado, EnReady
<1>14. Caidas'
  BY <1>2 DEF Resto, Caidas
<1> QED
  BY <1>7, <1>8, <1>9, <1>10, <1>12, <1>13, <1>14 DEF Resto

(* A handler starts, or ends: what the others know goes on holding.        *)
LEMMA TareasSiguen ==
    ASSUME MemTipo, Enlazadas, Tareas, UNCHANGED <<primero, siguiente, existe>>,
           terminados \subseteq terminados',
           NEW k \in Atencion, NEW u \in TareaTipo, tarea' = [tarea EXCEPT ![k] = u],
           u = Libre \/ (u.op \in Ops(k) /\ Activa(u)')
    PROVE  /\ MemTipo' /\ Enlazadas' /\ Tareas'
           /\ tarea'[k] = u /\ \A j \in Atencion \ {k} : tarea'[j] = tarea[j]
<1>1. tarea' \in [Atencion -> TareaTipo] /\ tarea'[k] = u
      /\ (\A j \in Atencion \ {k} : tarea'[j] = tarea[j])
  BY DEF MemTipo
<1>2. MemTipo' /\ Enlazadas'
  BY <1>1, MismasListas DEF MemTipo
<1>3. ASSUME NEW j \in Atencion \ {k}
      PROVE  TareaDe(j)'
  <2>1. PICK t : t = tarea[j]
    OBVIOUS
  <2>2. t = Libre \/ (t = Confirmada /\ j # "cpu") \/ (t.op \in Ops(j) /\ Activa(t))
    BY <2>1 DEF Tareas, TareaDe
  <2>3. Activa(t) => Activa(t)'
    BY MismasListas
  <2> QED
    BY <1>1, <2>1, <2>2, <2>3 DEF TareaDe
<1>4. TareaDe(k)'
  BY <1>1 DEF TareaDe
<1> QED
  BY <1>1, <1>2, <1>3, <1>4 DEF Tareas

(* A handler ends: the answer is received. *)
LEMMA AlSoltar ==
    ASSUME MemTipo, Enlazadas, Tareas, UNCHANGED <<primero, siguiente, existe>>,
           terminados \subseteq terminados',
           NEW k \in Atencion, tarea' = [tarea EXCEPT ![k] = Libre]
    PROVE  /\ MemTipo' /\ Enlazadas' /\ Tareas'
           /\ tarea'[k] = Libre /\ \A j \in Atencion \ {k} : tarea'[j] = tarea[j]
BY Libres, TareasSiguen

(* A dump copies the partition of a process that is in the lists.          *)
LEMMA PasoVolcar ==
    ASSUME MemTipo, Tareas, Separadas, NEW k \in Atencion, Volcar(k)
    PROVE  /\ UNCHANGED <<primero, siguiente, existe, ctx, memoria, caida>>
           /\ tarea' = [tarea EXCEPT ![k] = Libre]
           /\ k \in Volcadores
<1>1. tarea[k].op = "DUMP_MEMORY" /\ tarea[k].op \notin {"libre", "confirmado"}
  BY DEF Volcar, Termino
<1>2. k \in Volcadores /\ Activa(tarea[k])
  BY <1>1, Quietas, Libres
<1>3. Proceso(tarea[k].nodo) \in existe
  BY <1>1, <1>2 DEF Activa, EnCurso
<1> QED
  BY <1>2, <1>3 DEF Volcar

(* Nobody waits for the handler of a dump to end.                          *)
LEMMA RestoAlVolcar ==
    ASSUME Resto, NEW k \in Volcadores, UNCHANGED <<existe, caida, kernelVars, cpuVars>>,
           tarea'[k] = Libre, \A j \in Atencion \ {k} : tarea'[j] = tarea[j]
    PROVE  Resto'
<1>1. /\ {"cpu", "lp", "sts", "volcado"} \cup Huerfanas \subseteq Atencion \ {k}
      /\ k \in Atencion
  BY CpuMemoriaAssumption
<1>2. UNCHANGED <<admitidos, lp, listos, bloqueados, estado_exec, ultimo_tid, terminados,
                  cpu, hilo, contexto, instr, caida>>
  BY DEF kernelVars, cpuVars
<1>3. \A j \in {"cpu", "lp", "sts", "volcado"} \cup Huerfanas : tarea'[j] = tarea[j]
  BY <1>1
<1>4. Libre.op \notin Altas
  BY Libres
<1>5. Separadas'
  <2>1. \A j \in Atencion : tarea'[j].op \in Altas => tarea'[j] = tarea[j]
    BY <1>4
  <2>2. ASSUME NEW i \in {"sts", "volcado"}, tarea'[i] # Libre
        PROVE  /\ \A j \in Atencion \ {i} : tarea'[j] = Libre
               /\ cpu' \in {"esperar", "confirmar", "chequear"}
               /\ cpu' = "chequear" => instr'.op \in {"PROCESS_EXIT", "THREAD_EXIT"}
    <3>1. tarea[i] # Libre
      BY <1>3, <2>2
    <3> QED
      BY <1>2, <3>1 DEF Resto, Separadas
  <2>3. \A i, j \in Atencion : i # j /\ {tarea'[i].op, tarea'[j].op} \subseteq Altas =>
           Lista(tarea'[i].nodo) # Lista(tarea'[j].nodo)
    BY <2>1 DEF Resto, Separadas
  <2> QED
    BY <2>2, <2>3 DEF Separadas
<1>6. Admision'
  BY <1>2, <1>3 DEF Resto, Admision, EnAlta, EnLista
<1>7. Huerfanos' /\ Terminos'
  BY <1>2, <1>3 DEF Resto, Huerfanos, Huerfano, Terminos, Terminado
<1>8. \A h : /\ EnMarcha(h) => EnMarcha(h)'
             /\ Corre(h) => Corre(h)'
  BY <1>2, <1>3 DEF EnMarcha, Corre, Admitido, Nace, Terminado
<1>9. Planificados'
  BY <1>2, <1>8 DEF Resto, Planificados, EnReady, Dormidos
<1>10. CpuBien'
  BY <1>2, <1>3, <1>8 DEF Resto, CpuBien, Pide, Omite, Entregado, EnReady
<1>11. Caidas'
  BY <1>2 DEF Resto, Caidas
<1> QED
  BY <1>5, <1>6, <1>7, <1>9, <1>10, <1>11 DEF Resto

(* A step of the memory module. *)
LEMMA PasoDeMemoria ==
    ASSUME Ind, NEW k \in Atencion, PasoMemoria(k), UNCHANGED <<kernelVars, cpuVars>>
    PROVE  Ind'
<1>1. MemTipo /\ Enlazadas /\ Tareas /\ Resto /\ Separadas /\ TareaDe(k)
  BY DEF Ind, Resto, Tareas
<1>2. UNCHANGED terminados
  BY DEF kernelVars
<1>3. ASSUME UNCHANGED <<primero, siguiente, existe>>,
             tarea' \in [Atencion -> TareaTipo],
             \A j \in Atencion \ {k} : tarea'[j] = tarea[j],
             TareaDe(k)'
      PROVE  MemTipo' /\ Enlazadas' /\ Tareas'
  <2>1. MemTipo' /\ Enlazadas'
    BY <1>1, <1>2, <1>3, MismasListas DEF MemTipo
  <2>2. ASSUME NEW j \in Atencion \ {k}
        PROVE  TareaDe(j)'
    <3>1. PICK t : t = tarea[j]
      OBVIOUS
    <3>2. t = Libre \/ (t = Confirmada /\ j # "cpu") \/ (t.op \in Ops(j) /\ Activa(t))
      BY <1>1, <3>1 DEF Tareas, TareaDe
    <3>3. Activa(t) => Activa(t)'
      BY <1>2, <1>3, MismasListas
    <3>4. tarea'[j] = t
      BY <1>3, <3>1
    <3> QED
      BY <3>2, <3>3, <3>4 DEF TareaDe
  <2> QED
    BY <1>3, <2>1, <2>2 DEF Tareas
<1>4. CASE Entrar(k)
  <2>1. MemTipo' /\ Enlazadas' /\ Tareas'
    BY <1>1, <1>2, <1>3, <1>4, PasoEntrar
  <2>2. Resto'
    BY <1>1, <1>2, <1>4, PasoEntrar, RestoAlRecorrer
  <2> QED
    BY <2>1, <2>2 DEF Ind, Resto
<1>5. CASE Avanzar(k)
  <2>1. MemTipo' /\ Enlazadas' /\ Tareas'
    BY <1>1, <1>2, <1>3, <1>5, PasoAvanzar
  <2>2. tarea[k].op = "DEVOLVER_CONTEXTO" => k = "cpu"
    BY <1>1, Quietas DEF Consultas
  <2>3. Resto'
    BY <1>1, <1>2, <1>5, <2>2, PasoAvanzar, RestoAlRecorrer
  <2> QED
    BY <2>1, <2>3 DEF Ind, Resto
<1>6. CASE Enlazar(k)
  <2>1. /\ MemTipo' /\ Enlazadas' /\ Tareas' /\ tarea[k].op \in Altas
        /\ UNCHANGED caida /\ existe' = existe \cup {tarea[k].nodo}
        /\ tarea' = [tarea EXCEPT ![k] = Confirmada]
    BY <1>1, <1>2, <1>6, PasoEnlazar
  <2>2. Resto'
    BY <1>1, <2>1, RestoAlEnlazar
  <2> QED
    BY <2>1, <2>2 DEF Ind, Resto
<1>7. CASE VaciarHilos(k)
  <2>1. /\ MemTipo' /\ Enlazadas' /\ Tareas' /\ tarea[k].op \in Bajas
        /\ UNCHANGED <<caida, tarea>>
        /\ \E h \in existe : h \in Hilos /\ Proceso(h) = tarea[k].nodo /\ existe' = existe \ {h}
    BY <1>1, <1>2, <1>7, PasoVaciar
  <2>2. PICK h \in existe : h \in Hilos /\ Proceso(h) = tarea[k].nodo /\ existe' = existe \ {h}
    BY <2>1
  <2>3. Resto'
    BY <1>1, <2>1, <2>2, RestoAlQuitar
  <2> QED
    BY <2>1, <2>3 DEF Ind, Resto
<1>8. CASE Desenlazar(k)
  <2>1. /\ MemTipo' /\ Enlazadas' /\ Tareas' /\ tarea[k].op \in Bajas /\ UNCHANGED caida
        /\ tarea' = [tarea EXCEPT ![k] = Confirmada]
        /\ existe' = existe \ {tarea[k].nodo}
    BY <1>1, <1>2, <1>8, PasoDesenlazar
  <2>2. PICK x : x = tarea[k].nodo
    OBVIOUS
  <2>3. x \in existe
    BY <1>1, <2>1, <2>2, Finaliza
  <2>4. Resto'
    BY <1>1, <2>1, <2>2, <2>3, RestoAlQuitar
  <2> QED
    BY <2>1, <2>4 DEF Ind, Resto
<1>9. CASE Volcar(k)
  <2>1. /\ UNCHANGED <<primero, siguiente, existe, ctx, memoria, caida>>
        /\ tarea' = [tarea EXCEPT ![k] = Libre]
        /\ k \in Volcadores
    BY <1>1, <1>9, PasoVolcar
  <2>2. /\ MemTipo' /\ Enlazadas' /\ Tareas'
        /\ tarea'[k] = Libre /\ \A j \in Atencion \ {k} : tarea'[j] = tarea[j]
    BY <1>1, <1>2, <2>1, AlSoltar
  <2>3. Resto'
    BY <1>1, <2>1, <2>2, RestoAlVolcar
  <2> QED
    BY <2>2, <2>3 DEF Ind, Resto
<1> QED
  BY <1>4, <1>5, <1>6, <1>7, <1>8, <1>9 DEF PasoMemoria
-----------------------------------------------------------------------------
(* What the steps of the kernel and of the CPU do to the handlers.         *)

(* READY without the threads of a process.                                 *)
LEMMA Quitados ==
    ASSUME NEW s \in Seq(Hilos), SinRepetir(s), NEW p, NEW q, q = Quitando(s, p)
    PROVE  /\ q \in Seq(Hilos) /\ SinRepetir(q)
           /\ ToSet(q) = {h \in ToSet(s) : h[1] # p}
<1> DEFINE N == Len(s)
           V == Seq(Hilos)
           Quita(u, i) == IF s[i][1] = p THEN u ELSE Append(u, s[i])
           Recorre(g) == g = [i \in 0..N |-> IF i = 0 THEN <<>> ELSE Quita(g[i - 1], i)]
           hasta == CHOOSE g : Recorre(g)
<1>1. q = hasta[N]
  <2>1. q = LET f == CHOOSE g : g = [i \in 0..Len(s) |-> IF i = 0 THEN <<>>
                                       ELSE IF s[i][1] = p THEN g[i - 1]
                                       ELSE Append(g[i - 1], s[i])]
            IN  f[Len(s)]
    BY Zenon DEF Quitando
  <2> QED
    BY <2>1, Zenon
<1>2. N \in Nat /\ \A i \in 1..N : s[i] \in Hilos
  OBVIOUS
<1>3. \A u \in V, i \in 1..N : Quita(u, i) \in V
  BY <1>2, AppendProperties
<1>4. \E g : Recorre(g) /\ g \in [0..N -> V]
  <2> DEFINE paso == [u \in V |-> [i \in Nat |-> IF i \in 1..N THEN Quita(u, i) ELSE u]]
  <2>1. <<>> \in V
    OBVIOUS
  <2> HIDE DEF V, Quita
  <2>2. /\ paso \in [V -> [Nat -> V]]
        /\ \A u \in V : \A i \in 1..N : paso[u][i] = Quita(u, i)
    BY <1>2, <1>3
  <2> HIDE DEF paso
  <2>3. PICK f \in [0..N -> V] : f[0] = <<>> /\ \A i \in 1..N : f[i] = paso[f[i - 1]][i]
    <3>1. Iteradas(V, <<>>, paso, N) # {}
      BY <1>2, <2>1, <2>2, Recurrencia
    <3>2. PICK f \in Iteradas(V, <<>>, paso, N) : TRUE
      BY <3>1
    <3> QED
      BY <3>2 DEF Iteradas
  <2>4. \A i \in 0..N : f[i] = IF i = 0 THEN <<>> ELSE Quita(f[i - 1], i)
    <3> SUFFICES ASSUME NEW i \in 1..N
                 PROVE  f[i] = Quita(f[i - 1], i)
      BY <1>2, <2>3
    <3>1. i - 1 \in 0..N /\ f[i - 1] \in V
      BY <1>2
    <3> QED
      BY <2>2, <2>3, <3>1
  <2>5. Recorre(f)
    BY <2>4
  <2> HIDE DEF Recorre
  <2> QED
    BY <2>5
<1>5. Recorre(hasta)
  BY <1>4, Zenon
<1> HIDE DEF hasta
<1>6. hasta[0] = <<>> /\ \A i \in 1..N : hasta[i] = Quita(hasta[i - 1], i)
  <2> HIDE DEF Quita
  <2>1. \A i \in 0..N : hasta[i] = IF i = 0 THEN <<>> ELSE Quita(hasta[i - 1], i)
    BY <1>5
  <2> QED
    BY <1>2, <2>1
<1> HIDE DEF Recorre
<1> DEFINE Quedan(n) == {s[i] : i \in {j \in 1..n : s[j][1] # p}}
           Bien(n) == /\ hasta[n] \in V /\ SinRepetir(hasta[n])
                      /\ ToSet(hasta[n]) = Quedan(n)
           P == {n \in Nat : n <= N => Bien(n)}
<1>7. 0 \in P
  <2>1. PICK e \in V : e = <<>>
    <3>1. <<>> \in V
      OBVIOUS
    <3> QED
      BY <3>1, Zenon
  <2>2. Len(e) = 0
    BY <2>1
  <2>3. ToSet(e) = {} /\ SinRepetir(e)
    <3>1. ToSet(e) = {}
      BY <2>1, Miembros
    <3>2. SinRepetir(e)
      BY <2>2 DEF SinRepetir
    <3> QED
      BY <3>1, <3>2
  <2>4. Quedan(0) = {} /\ hasta[0] = e
    BY <1>6, <2>1
  <2> QED
    BY <2>3, <2>4
<1>8. ASSUME NEW n \in Nat, n \in P
      PROVE  n + 1 \in P
  <2> SUFFICES ASSUME n + 1 <= N
               PROVE  Bien(n + 1)
    OBVIOUS
  <2>1. Bien(n) /\ n + 1 \in 1..N
    BY <1>2, <1>8
  <2>2. hasta[n + 1] = Quita(hasta[n], n + 1) /\ s[n + 1] \in Hilos
    BY <1>2, <1>6, <2>1
  <2>3. CASE s[n + 1][1] = p
    <3>1. Quedan(n + 1) = Quedan(n)
      BY <2>3
    <3> QED
      BY <2>1, <2>2, <2>3, <3>1
  <2>4. CASE s[n + 1][1] # p
    <3>1. Quedan(n + 1) = Quedan(n) \cup {s[n + 1]}
      BY <1>2, <2>4
    <3>2. s[n + 1] \notin Quedan(n)
      BY <2>1 DEF SinRepetir
    <3>3. hasta[n + 1] = Append(hasta[n], s[n + 1])
      BY <2>2, <2>4
    <3> QED
      BY <2>1, <2>2, <3>1, <3>2, <3>3, Agregar
  <2> QED
    BY <2>3, <2>4
<1> HIDE DEF P
<1>9. N \in P
  BY <1>2, <1>7, <1>8, Induccion
<1>10. Bien(N)
  BY <1>2, <1>9 DEF P
<1>11. Quedan(N) = {h \in ToSet(s) : h[1] # p}
  BY <1>2, Miembros
<1> QED
  BY <1>1, <1>10, <1>11
(* Nothing starts or ends. *)
LEMMA TareasIguales ==
    ASSUME MemTipo, Enlazadas, Tareas, UNCHANGED <<primero, siguiente, existe, tarea>>,
           terminados \subseteq terminados'
    PROVE  MemTipo' /\ Enlazadas' /\ Tareas'
<1>1. MemTipo' /\ Enlazadas'
  BY MismasListas DEF MemTipo
<1>2. ASSUME NEW j \in Atencion
      PROVE  TareaDe(j)'
  <2>1. PICK t : t = tarea[j]
    OBVIOUS
  <2>2. t = Libre \/ (t = Confirmada /\ j # "cpu") \/ (t.op \in Ops(j) /\ Activa(t))
    BY <2>1 DEF Tareas, TareaDe
  <2>3. Activa(t) => Activa(t)'
    BY MismasListas
  <2> QED
    BY <2>1, <2>2, <2>3 DEF TareaDe
<1> QED
  BY <1>1, <1>2 DEF Tareas

(* A handler starts, for a request that the lists justify. *)
LEMMA AlPedir ==
    ASSUME MemTipo, Enlazadas, Tareas, UNCHANGED <<primero, siguiente, existe>>,
           terminados \subseteq terminados',
           NEW k \in Atencion, NEW op \in Ops(k), NEW n \in Nodos, Pedir(k, op, n),
           n \in IF op \in {"CREAR_PROCESO", "FINALIZAR_PROCESO"} THEN Procesos ELSE Hilos,
           op # "CREAR_PROCESO" => Proceso(n) \in existe,
           op \notin Altas \cup {"DEVOLVER_CONTEXTO"} => n \in existe,
           op \in Altas => n \notin existe /\ \A m \in EnLista(Lista(n)) : Nro(m) < Nro(n),
           op \in Bajas => n \in terminados'
    PROVE  /\ MemTipo' /\ Enlazadas' /\ Tareas'
           /\ tarea[k] = Libre /\ tarea'[k].op = op /\ tarea'[k].nodo = n /\ tarea'[k] # Libre
           /\ \A j \in Atencion \ {k} : tarea'[j] = tarea[j]
<1>1. PICK u : u = Pedido(op, n)
  OBVIOUS
<1>2. op \in OpsTodas
  BY DEF Ops, OpsTodas, Consultas, Altas, Bajas
<1>3. /\ Recorridos(op, n) \in Restos(op, n) /\ Recorridos(op, n) # <<>>
      /\ Recorridos(op, n) \in Seq(Tramo)
  <2>1. op \notin {"CREAR_PROCESO", "FINALIZAR_PROCESO"} => n \in Hilos
    OBVIOUS
  <2> QED
    BY <1>2, <2>1, Pedida
<1>4. /\ u.op = op /\ u.nodo = n /\ u.recorridos = Recorridos(op, n) /\ u.andando = FALSE
      /\ u.habia = existe \cap {n, Proceso(n)}
      /\ u.previo = Nulo /\ u.actual = Nulo
      /\ DOMAIN u = DOMAIN Libre
  BY <1>1 DEF Pedido, Libre
<1>5. u \in TareaTipo
  <2>1. Nodos \cap existe \subseteq Nodos /\ existe \subseteq Nodos
    BY DEF Enlazadas
  <2> QED
    BY <1>1, <1>2, <1>3, <2>1 DEF Pedido, Libre, TareaTipo
<1>6. tarea[k] = Libre /\ tarea' = [tarea EXCEPT ![k] = u]
  BY <1>1 DEF Pedir
<1>7. Activa(u)'
  <2>1. EnCurso(u)'
    <3>1. u.habia \subseteq existe' \cap {n, Proceso(n)}
      BY <1>4
    <3> QED
      BY <1>3, <1>4, <3>1 DEF EnCurso
  <2>2. op \in Altas => Alta(u)'
    <3>1. \A l : EnLista(l)' = EnLista(l)
      BY MismasListas
    <3> QED
      BY <1>3, <1>4, <3>1 DEF Alta
  <2>3. op \in Bajas => Baja(u)'
    BY <1>3, <1>4 DEF Baja
  <2> QED
    BY <1>3, <1>4, <2>1, <2>2, <2>3 DEF Activa
<1>8. u # Libre
  BY <1>2, <1>4, Libres
<1> QED
  BY <1>4, <1>5, <1>6, <1>7, <1>8, TareasSiguen

(* The long-term planner goes on as it was. *)
LEMMA MismaAdmision ==
    ASSUME Admision, UNCHANGED <<existe, admitidos, lp, ultimo_tid>>, tarea'["lp"] = tarea["lp"]
    PROVE  Admision'
BY DEF Admision, EnAlta

(* Threads that may run go on so while their processes are not finalised. *)
LEMMA SiguenEnMarcha ==
    ASSUME UNCHANGED <<existe, admitidos, ultimo_tid>>, NEW T, terminados' = terminados \cup T,
           \A k \in Huerfanas : tarea'[k] = tarea[k]
    PROVE  \A h : {h, Proceso(h)} \cap T = {} =>
                     (EnMarcha(h) => EnMarcha(h)') /\ (Corre(h) => Corre(h)')
<1>1. \A h : {h, Proceso(h)} \cap T = {} => (Admitido(h) => Admitido(h)')
  BY DEF Admitido, Terminado
<1>2. \A h : Nace(h) => Nace(h)'
  BY DEF Nace
<1> QED
  BY <1>1, <1>2 DEF EnMarcha, Corre

(* A finalisation is asked for, with no other request in course.           *)
LEMMA AlTerminar ==
    ASSUME Ind, NEW k \in {"sts", "volcado"}, NEW op \in Ops(k), NEW n \in existe,
           n \in IF op = "FINALIZAR_PROCESO" THEN Procesos ELSE Hilos,
           n \in Hilos => n[2] <= ultimo_tid[n[1]],
           n[1] < admitidos, Pedir(k, op, n), Ocupadas = {}, tarea["cpu"] = Libre,
           terminados' = terminados \cup {n},
           UNCHANGED <<primero, siguiente, existe, admitidos, lp, ultimo_tid, hilo>>,
           listos' \in Seq(Hilos), SinRepetir(listos'), EnReady' \subseteq EnReady,
           bloqueados' \subseteq bloqueados,
           \A h \in EnReady' \cup Dormidos' : h # n /\ Proceso(h) # n,
           estado_exec' \in {Nulo, estado_exec},
           cpu' \in {"esperar", "confirmar", "chequear"},
           cpu' = "chequear" => instr'.op \in Salidas
    PROVE  /\ MemTipo' /\ Enlazadas' /\ Tareas' /\ Separadas' /\ Admision' /\ Huerfanos'
           /\ Terminos' /\ Planificados' /\ tarea'["cpu"] = Libre
<1>1. /\ "cpu" \in Atencion /\ "lp" \in Atencion /\ "sts" \in Atencion /\ "volcado" \in Atencion
      /\ Atencion = {"cpu", "lp", "sts", "volcado"} \cup Huerfanas \cup Volcadores
      /\ (Huerfanas \cup Volcadores) \cap {"cpu", "lp", "sts", "volcado"} = {}
      /\ Huerfanas \cap Volcadores = {}
  BY CpuMemoriaAssumption
<1>2. \A j \in Atencion : tarea[j] = Libre
  BY <1>1 DEF Ocupadas
<1>3. op \in Bajas /\ k \in Atencion
  BY <1>1 DEF Ops, Bajas
<1>4. n \in Nodos /\ Proceso(n) \in existe
  <2>1. existe \subseteq Nodos /\ \A h \in existe \cap Hilos : Proceso(h) \in existe
    BY DEF Ind, Enlazadas
  <2>2. n \in Procesos => Proceso(n) = n
    BY Nombres
  <2> QED
    BY <2>1, <2>2
<1>5. /\ MemTipo' /\ Enlazadas' /\ Tareas'
      /\ tarea'[k].op = op /\ tarea'[k].nodo = n
      /\ \A j \in Atencion \ {k} : tarea'[j] = tarea[j]
  <2>1. op \notin Altas /\ op # "CREAR_PROCESO"
    BY <1>3 DEF Altas, Bajas
  <2>2. n \in IF op \in {"CREAR_PROCESO", "FINALIZAR_PROCESO"} THEN Procesos ELSE Hilos
    BY <2>1
  <2>3. terminados \subseteq terminados' /\ n \in terminados'
    OBVIOUS
  <2>4. MemTipo /\ Enlazadas /\ Tareas
    BY DEF Ind
  <2> QED
    BY <1>3, <1>4, <2>1, <2>2, <2>3, <2>4, AlPedir
<1>6. \A j \in Atencion \ {k} : tarea'[j] = Libre
  BY <1>2, <1>5
<1>7. Separadas'
  <2>1. tarea'[k].op \notin Altas /\ Libre.op \notin Altas
    BY <1>3, <1>5, Libres DEF Altas, Bajas
  <2>2. \A j \in Atencion : tarea'[j].op \notin Altas
    BY <1>6, <2>1
  <2> QED
    BY <1>1, <1>6, <2>2 DEF Separadas, Salidas
<1>8. Admision'
  BY <1>1, <1>2, <1>6, MismaAdmision DEF Ind
<1>9. Huerfanos'
  <2>1. \A j \in Huerfanas : tarea'[j].op # "CREAR_HILO"
    BY <1>1, <1>6, Libres DEF Altas
  <2> QED
    BY <2>1 DEF Huerfanos, Huerfano
<1>10. Terminos'
  BY <1>4 DEF Ind, Terminos
<1>11. \A h : h # n /\ Proceso(h) # n => (EnMarcha(h) => EnMarcha(h)') /\ (Corre(h) => Corre(h)')
  <2>1. PICK T : T = {n}
    OBVIOUS
  <2>2. \A j \in Huerfanas : tarea'[j] = tarea[j]
    <3>1. \A j \in Huerfanas : j \in Atencion \ {k}
      BY <1>1
    <3> QED
      BY <1>5, <3>1
  <2>3. \A h : {h, Proceso(h)} \cap T = {} =>
                 (EnMarcha(h) => EnMarcha(h)') /\ (Corre(h) => Corre(h)')
    BY <2>1, <2>2, SiguenEnMarcha
  <2> QED
    BY <2>1, <2>3
<1>12. Planificados'
  <2>1. Planificados
    BY DEF Ind
  <2>2. Dormidos' \subseteq Dormidos
    BY DEF Dormidos
  <2>3. \A h \in EnReady' : EnMarcha(h)'
    BY <1>11, <2>1 DEF Planificados
  <2>4. \A b \in bloqueados' : Corre(b[1])' /\ b[1] \notin EnReady'
    <3> SUFFICES ASSUME NEW b \in bloqueados'
                 PROVE  Corre(b[1])' /\ b[1] \notin EnReady'
      OBVIOUS
    <3>1. PICK h : h = b[1]
      OBVIOUS
    <3>2. h \in Dormidos' /\ Corre(h) /\ h \notin EnReady
      BY <2>1, <3>1 DEF Planificados, Dormidos
    <3>3. Corre(h)'
      BY <1>11, <3>2
    <3> QED
      BY <3>1, <3>2, <3>3
  <2>5. /\ estado_exec' \in {Nulo, hilo'}
        /\ estado_exec' # Nulo =>
              /\ estado_exec' \in Hilos \ (EnReady' \cup Dormidos')
              /\ estado_exec'[1] < admitidos' /\ estado_exec'[2] <= ultimo_tid'[estado_exec'[1]]
    BY <2>1, <2>2 DEF Planificados
  <2>6. bloqueados' \subseteq Hilos \X Motivos /\ \A b, c \in bloqueados' : b[1] = c[1] => b = c
    BY <2>1 DEF Planificados
  <2> QED
    BY <2>3, <2>4, <2>5, <2>6 DEF Planificados
<1> QED
  BY <1>1, <1>5, <1>6, <1>7, <1>8, <1>9, <1>10, <1>12
-----------------------------------------------------------------------------
(* The steps of the kernel.                                                *)

(* The names of the memory threads. *)
LEMMA Atenciones ==
    /\ "cpu" \in Atencion /\ "lp" \in Atencion /\ "sts" \in Atencion /\ "volcado" \in Atencion
    /\ Huerfanas \subseteq Atencion /\ Volcadores \subseteq Atencion
    /\ \A k \in Huerfanas : k \notin {"cpu", "lp", "sts", "volcado"} \cup Volcadores
    /\ \A k \in Volcadores : k \notin {"cpu", "lp", "sts", "volcado"}
    /\ \A k \in Atencion :
          k \in {"cpu", "lp", "sts", "volcado"} \/ k \in Huerfanas \/ k \in Volcadores
BY CpuMemoriaAssumption

(* What the invariant says of PIDs, creations and finalisations. *)
LEMMA DeInd ==
    ASSUME Ind
    PROVE  /\ MemTipo /\ Enlazadas /\ Tareas /\ Separadas /\ Admision /\ Huerfanos /\ Terminos
           /\ Planificados /\ CpuBien /\ Caidas
           /\ admitidos \in Nat /\ existe \subseteq Nodos
           /\ \A k \in Huerfanas : tarea[k].op \in Altas =>
                 /\ tarea[k].op = "CREAR_HILO" /\ tarea[k].nodo \in Hilos
                 /\ tarea[k].nodo[1] < admitidos
                 /\ Lista(tarea[k].nodo) = <<tarea[k].nodo[1]>>
           /\ ~Finalizando <=> tarea["sts"] = Libre /\ tarea["volcado"] = Libre
           /\ cpu \notin {"esperar", "confirmar", "chequear"} => ~Finalizando
<1>1. /\ MemTipo /\ Enlazadas /\ Tareas /\ Separadas /\ Admision /\ Huerfanos /\ Terminos
      /\ Planificados /\ CpuBien /\ Caidas
  BY DEF Ind
<1>2. admitidos \in Nat /\ existe \subseteq Nodos
  BY <1>1, MemoriaAssumption DEF Admision, Enlazadas
<1>3. ASSUME NEW k \in Huerfanas, tarea[k].op \in Altas
      PROVE  /\ tarea[k].op = "CREAR_HILO" /\ tarea[k].nodo \in Hilos
             /\ tarea[k].nodo[1] < admitidos
             /\ Lista(tarea[k].nodo) = <<tarea[k].nodo[1]>>
  <2>1. tarea[k].op \in Ops(k) /\ Activa(tarea[k])
    BY <1>1, <1>3, Atenciones, Quietas, Libres
  <2>2. tarea[k].op = "CREAR_HILO"
    BY <1>3, <2>1, Atenciones DEF Ops
  <2>3. tarea[k].nodo \in Hilos
    BY <2>1, <2>2 DEF Activa, EnCurso
  <2>4. Lista(tarea[k].nodo) = <<tarea[k].nodo[1]>>
    BY <2>3, Nombres DEF Proceso
  <2> QED
    BY <1>1, <1>3, <2>2, <2>3, <2>4 DEF Huerfanos, Huerfano
<1>4. ~Finalizando <=> tarea["sts"] = Libre /\ tarea["volcado"] = Libre
  BY DEF Finalizando
<1>5. cpu \notin {"esperar", "confirmar", "chequear"} => ~Finalizando
  BY <1>1, <1>4 DEF Separadas
<1> QED
  BY <1>1, <1>2, <1>3, <1>4, <1>5

(* While only the planner asks for something. *)
LEMMA RestoDelPlanificador ==
    ASSUME Ind, UNCHANGED <<existe, caida, listos, bloqueados, estado_exec, ultimo_tid, terminados,
                            cpuVars>>,
           \A j \in Atencion \ {"lp"} : tarea'[j] = tarea[j],
           admitidos' = admitidos,
           tarea["sts"] = Libre, tarea["volcado"] = Libre
    PROVE  /\ Huerfanos' /\ Terminos' /\ Planificados' /\ CpuBien' /\ Caidas'
           /\ \A j \in {"sts", "volcado"} : tarea'[j] = Libre
<1>1. /\ "cpu" \in Atencion \ {"lp"} /\ Huerfanas \subseteq Atencion \ {"lp"}
      /\ "sts" \in Atencion \ {"lp"} /\ "volcado" \in Atencion \ {"lp"}
  BY Atenciones
<1>2. UNCHANGED <<cpu, hilo, contexto, instr>>
  BY DEF cpuVars
<1>3. /\ \A h : EnMarcha(h) => EnMarcha(h)'
      /\ \A h : Corre(h) => Corre(h)'
  BY <1>1 DEF EnMarcha, Corre, Admitido, Nace, Terminado
<1>4. Huerfanos'
  BY <1>1 DEF Ind, Huerfanos, Huerfano, Terminado
<1>5. Terminos'
  BY DEF Ind, Terminos
<1>6. Planificados'
  BY <1>2, <1>3 DEF Ind, Planificados, EnReady, Dormidos
<1>7. CpuBien'
  BY <1>1, <1>2, <1>3 DEF Ind, CpuBien, Pide, Omite, Entregado, EnReady
<1>8. Caidas'
  BY <1>2 DEF Ind, Caidas
<1> QED
  BY <1>1, <1>4, <1>5, <1>6, <1>7, <1>8

(* The planner asks for a process, whose PID is new. *)
LEMMA PasoLpCrearProceso ==
    ASSUME Ind, ~Solapadas, LpCrearProceso
    PROVE  Ind'
<1>1. /\ MemTipo /\ Enlazadas /\ Tareas /\ Separadas /\ Admision /\ Planificados
      /\ admitidos \in Nat /\ existe \subseteq Nodos
  BY DeInd
<1>2. PICK n : n = <<admitidos>>
  OBVIOUS
<1>3. /\ lp = "nada" /\ admitidos <= MaxPid /\ ~Finalizando
      /\ Pedir("lp", "CREAR_PROCESO", n) /\ lp' = "proceso"
      /\ UNCHANGED <<primero, siguiente, existe, ctx, memoria, caida, admitidos, listos,
                     bloqueados, estado_exec, ultimo_tid, terminados, cpuVars>>
  BY <1>2 DEF LpCrearProceso, memSinTarea
<1>4. n \in Procesos /\ n \in Nodos /\ Lista(n) = <<>> /\ Nro(n) = admitidos /\ n[1] = admitidos
  <2>1. n \in Procesos
    BY <1>1, <1>2, <1>3 DEF Procesos, Pids
  <2> QED
    BY <1>2, <2>1, Nombres
<1>5. ~EnAlta(admitidos) /\ \A m \in existe : m[1] < admitidos
  BY <1>1, <1>3 DEF EnAlta, Admision
<1>6. n \notin existe /\ \A m \in EnLista(Lista(n)) : Nro(m) < Nro(n)
  <2>1. \A m \in EnLista(<<>>) : m \in existe /\ Nro(m) = m[1]
    BY <1>1, Nombres DEF EnLista
  <2> QED
    BY <1>1, <1>4, <1>5, <2>1
<1>7. /\ MemTipo' /\ Enlazadas' /\ Tareas'
      /\ tarea'["lp"].op = "CREAR_PROCESO" /\ tarea'["lp"].nodo = n /\ tarea'["lp"] # Libre
      /\ \A j \in Atencion \ {"lp"} : tarea'[j] = tarea[j]
  <2>1. "lp" \in Atencion /\ "CREAR_PROCESO" \in Ops("lp") /\ "CREAR_PROCESO" \in Altas
        /\ "CREAR_PROCESO" \notin Bajas
    BY Atenciones DEF Ops, Altas, Bajas
  <2>2. PICK k, op : k = "lp" /\ op = "CREAR_PROCESO"
    OBVIOUS
  <2> QED
    BY <1>1, <1>3, <1>4, <1>6, <2>1, <2>2, AlPedir
<1>8. /\ Huerfanos' /\ Terminos' /\ Planificados' /\ CpuBien' /\ Caidas'
      /\ \A j \in {"sts", "volcado"} : tarea'[j] = Libre
  BY <1>3, <1>7, DeInd, RestoDelPlanificador
<1>9. Separadas'
  <2>1. \A j \in Atencion \ {"lp"} : tarea'[j].op \in Altas =>
           tarea'[j] = tarea[j] /\ Lista(tarea'[j].nodo) # Lista(n)
    <3> SUFFICES ASSUME NEW j \in Atencion \ {"lp"}, tarea'[j].op \in Altas
                 PROVE  tarea'[j] = tarea[j] /\ Lista(tarea'[j].nodo) # Lista(n)
      OBVIOUS
    <3>1. tarea'[j] = tarea[j] /\ j \in Huerfanas
      BY <1>1, <1>7, Atenciones, Quietas
    <3>2. \E x : Lista(tarea[j].nodo) = <<x>>
      BY <3>1, DeInd
    <3> QED
      BY <1>4, <3>1, <3>2
  <2> QED
    BY <1>1, <1>7, <1>8, <2>1 DEF Separadas
<1>10. Admision'
  <2>1. ~EnAlta(admitidos)' /\ admitidos' = admitidos
    BY <1>3, <1>7 DEF EnAlta
  <2>2. \A m \in existe' : m[1] < admitidos'
    BY <1>3, <1>5
  <2>3. \A m \in existe : Lista(m) # <<admitidos>>
    BY <1>1, <1>3 DEF Admision
  <2> QED
    BY <1>1, <1>2, <1>3, <1>7, <2>1, <2>2, <2>3 DEF Admision
<1> QED
  BY <1>7, <1>8, <1>9, <1>10 DEF Ind

(* The planner asks for its main thread. *)
LEMMA PasoLpCrearHilo ==
    ASSUME Ind, ~Solapadas, LpCrearHilo
    PROVE  Ind'
<1>1. /\ MemTipo /\ Enlazadas /\ Tareas /\ Separadas /\ Admision /\ Planificados
      /\ admitidos \in Nat /\ existe \subseteq Nodos
  BY DeInd
<1>2. PICK n : n = <<admitidos, 0>>
  OBVIOUS
<1>3. /\ lp = "proceso_listo" /\ ~Finalizando
      /\ Pedir("lp", "CREAR_HILO", n) /\ lp' = "hilo"
      /\ UNCHANGED <<primero, siguiente, existe, ctx, memoria, caida, admitidos, listos,
                     bloqueados, estado_exec, ultimo_tid, terminados, cpuVars>>
  BY <1>2 DEF LpCrearHilo, memSinTarea
<1>4. n \in Hilos /\ n \in Nodos /\ Lista(n) = <<admitidos>> /\ Proceso(n) = <<admitidos>>
  <2>1. admitidos \in Pids /\ 0 \in 0..MaxTid
    BY <1>1, <1>3, MemoriaAssumption DEF Admision, Pids
  <2>2. n \in Hilos
    BY <1>2, <2>1 DEF Hilos
  <2>3. n[1] = admitidos
    BY <1>2
  <2> QED
    BY <2>2, <2>3, Nombres DEF Proceso, Nodos
<1>5. EnAlta(admitidos) /\ <<admitidos>> \in existe
  BY <1>1, <1>3 DEF EnAlta, Admision
<1>6. n \notin existe /\ EnLista(Lista(n)) = {}
  BY <1>1, <1>3, <1>4 DEF Admision, EnLista
<1>7. /\ MemTipo' /\ Enlazadas' /\ Tareas'
      /\ tarea'["lp"].op = "CREAR_HILO" /\ tarea'["lp"].nodo = n /\ tarea'["lp"] # Libre
      /\ \A j \in Atencion \ {"lp"} : tarea'[j] = tarea[j]
  <2>1. "lp" \in Atencion /\ "CREAR_HILO" \in Ops("lp") /\ "CREAR_HILO" \in Altas
        /\ "CREAR_HILO" \notin Bajas
    BY Atenciones DEF Ops, Altas, Bajas
  <2>2. PICK k, op : k = "lp" /\ op = "CREAR_HILO"
    OBVIOUS
  <2> QED
    BY <1>1, <1>3, <1>4, <1>5, <1>6, <2>1, <2>2, AlPedir
<1>8. /\ Huerfanos' /\ Terminos' /\ Planificados' /\ CpuBien' /\ Caidas'
      /\ \A j \in {"sts", "volcado"} : tarea'[j] = Libre
  BY <1>3, <1>7, DeInd, RestoDelPlanificador
<1>9. Separadas'
  <2>1. \A j \in Atencion \ {"lp"} : tarea'[j].op \in Altas =>
           tarea'[j] = tarea[j] /\ Lista(tarea'[j].nodo) # Lista(n)
    <3> SUFFICES ASSUME NEW j \in Atencion \ {"lp"}, tarea'[j].op \in Altas
                 PROVE  tarea'[j] = tarea[j] /\ Lista(tarea'[j].nodo) # Lista(n)
      OBVIOUS
    <3>1. tarea'[j] = tarea[j] /\ j \in Huerfanas
      BY <1>1, <1>7, Atenciones, Quietas
    <3>2. \E x : Lista(tarea[j].nodo) = <<x>> /\ x < admitidos
      BY <3>1, DeInd
    <3> QED
      BY <1>1, <1>4, <3>1, <3>2
  <2> QED
    BY <1>1, <1>7, <1>8, <2>1 DEF Separadas
<1>10. Admision'
  <2>1. EnAlta(admitidos)' /\ admitidos' = admitidos
    BY <1>3 DEF EnAlta
  <2>2. \A m \in existe' : m[1] < admitidos' \/ EnAlta(m[1])'
    BY <1>1, <1>3 DEF EnAlta, Admision
  <2> QED
    BY <1>1, <1>2, <1>3, <1>5, <1>7, <2>1, <2>2 DEF Admision
<1> QED
  BY <1>7, <1>8, <1>9, <1>10 DEF Ind
(* What the planner created is in the lists; the main thread goes to READY. *)
LEMMA PasoLpConfirmado ==
    ASSUME Ind, ~Solapadas, LpConfirmado
    PROVE  Ind'
<1>1. /\ MemTipo /\ Enlazadas /\ Tareas /\ Separadas /\ Admision /\ Huerfanos /\ Terminos
      /\ Planificados /\ CpuBien /\ Caidas
      /\ admitidos \in Nat /\ existe \subseteq Nodos
  BY DeInd
<1>2. /\ tarea["lp"].op = "confirmado" /\ tarea' = [tarea EXCEPT !["lp"] = Libre]
      /\ IF lp = "proceso"
         THEN lp' = "proceso_listo" /\ UNCHANGED <<admitidos, listos>>
         ELSE /\ lp' = "nada" /\ admitidos' = admitidos + 1
              /\ listos' = Append(listos, <<admitidos, 0>>)
      /\ UNCHANGED <<primero, siguiente, existe, ctx, memoria, caida, bloqueados, estado_exec,
                     ultimo_tid, terminados, cpu, hilo, contexto, instr>>
  BY DEF LpConfirmado, Confirmado, memSinTarea, cpuVars
<1>3. /\ MemTipo' /\ Enlazadas' /\ Tareas'
      /\ tarea'["lp"] = Libre /\ \A j \in Atencion \ {"lp"} : tarea'[j] = tarea[j]
  <2>1. PICK k : k = "lp"
    OBVIOUS
  <2> QED
    BY <1>1, <1>2, <2>1, Atenciones, AlSoltar
<1>4. lp \in {"proceso", "hilo"} /\ tarea["lp"] # Libre
  BY <1>1, <1>2, Libres DEF Admision
<1>5. EnAlta(admitidos) /\ <<admitidos>> \in existe
  BY <1>1, <1>2, <1>4 DEF EnAlta, Admision
<1>6. \A m \in existe : m[1] < admitidos \/ m[1] = admitidos
  BY <1>1 DEF EnAlta, Admision
<1>7. Separadas'
  <2>1. tarea["sts"] = Libre /\ tarea["volcado"] = Libre
    BY <1>1, <1>4, Atenciones DEF Separadas
  <2>2. tarea'["sts"] = Libre /\ tarea'["volcado"] = Libre
    BY <1>3, <2>1, Atenciones
  <2>3. tarea'["lp"].op \notin Altas
    BY <1>3, Libres
  <2> QED
    BY <1>1, <1>3, <2>2, <2>3 DEF Separadas
<1>8. Huerfanos'
  <2>1. \A k \in Huerfanas : tarea'[k] = tarea[k]
    BY <1>3, Atenciones
  <2>2. admitidos' >= admitidos /\ admitidos' \in Nat
    BY <1>1, <1>2
  <2>3. \A k \in Huerfanas : tarea[k].op = "CREAR_HILO" => tarea[k].nodo[1] \in Nat
    <3>1. \A k \in Huerfanas : tarea[k].op = "CREAR_HILO" => tarea[k].nodo \in Nodos
      BY DeInd DEF Altas, Nodos
    <3> QED
      BY <3>1, Nombres
  <2> QED
    BY <1>1, <1>2, <2>1, <2>2, <2>3 DEF Huerfanos, Huerfano, Terminado
<1>9. Terminos'
  <2>1. \A n \in terminados : n[1] \in Nat
    BY <1>1, Nombres DEF Terminos
  <2> QED
    BY <1>1, <1>2, <2>1 DEF Terminos
<1>10. /\ \A h : EnMarcha(h) => EnMarcha(h)'
       /\ \A h : Corre(h) => Corre(h)'
  <2>1. \A h \in Hilos : h[1] \in Nat
    BY Nombres DEF Nodos
  <2>2. \A h : Admitido(h) => Admitido(h)'
    BY <1>1, <1>2, <2>1 DEF Admitido, Terminado
  <2>3. \A h : Nace(h) => Nace(h)'
    BY <1>3, Atenciones DEF Nace
  <2> QED
    BY <1>2, <2>2, <2>3 DEF EnMarcha, Corre
<1>11. CASE lp = "proceso"
  <2>1. Planificados'
    BY <1>1, <1>2, <1>10, <1>11 DEF Planificados, EnReady, Dormidos
  <2>2. CpuBien'
    <3>1. tarea'["cpu"] = tarea["cpu"]
      BY <1>3, Atenciones
    <3> QED
      BY <1>1, <1>2, <1>10, <1>11, <3>1 DEF CpuBien, Pide, Omite, Entregado, EnReady
  <2>3. Caidas'
    BY <1>1, <1>2 DEF Caidas
  <2>4. Admision'
    <3>1. EnAlta(admitidos)' /\ admitidos' = admitidos /\ lp' = "proceso_listo"
      BY <1>2, <1>11 DEF EnAlta
    <3>2. \A m \in existe' : m[1] < admitidos' \/ EnAlta(m[1])'
      BY <1>2, <1>6, <3>1 DEF EnAlta
    <3>3. \A m \in existe : Lista(m) # <<admitidos>>
      BY <1>1, <1>11 DEF Admision
    <3> QED
      BY <1>1, <1>2, <1>3, <1>5, <1>11, <3>1, <3>2, <3>3 DEF Admision
  <2> QED
    BY <1>3, <1>7, <1>8, <1>9, <2>1, <2>2, <2>3, <2>4 DEF Ind
<1>12. CASE lp = "hilo"
  <2>1. PICK n : n = <<admitidos, 0>>
    OBVIOUS
  <2>2. /\ n[1] = admitidos /\ n[2] = 0 /\ Proceso(n) = <<admitidos>> /\ admitidos \in Pids
        /\ n \in Hilos /\ n \in existe
    <3>1. admitidos \in Pids /\ 0 \in 0..MaxTid
      BY <1>1, <1>12, MemoriaAssumption DEF Admision, Pids
    <3>2. n \in Hilos
      BY <2>1, <3>1 DEF Hilos
    <3> QED
      BY <1>1, <1>2, <1>12, <2>1, <3>1, <3>2 DEF Admision, Proceso
  <2>3. listos' = Append(listos, n) /\ admitidos' = admitidos + 1 /\ lp' = "nada"
    BY <1>2, <1>12, <2>1
  <2>4. Corre(n)'
    <3>1. n \notin terminados /\ Proceso(n) \notin terminados
      <4>1. <<admitidos>>[1] = admitidos
        OBVIOUS
      <4> QED
        BY <1>1, <2>2, <4>1 DEF Terminos
    <3>2. ultimo_tid[admitidos] \in Nat
      BY <1>1, <2>2, MemoriaAssumption DEF Admision
    <3> QED
      BY <1>1, <1>2, <1>5, <2>2, <2>3, <3>1, <3>2 DEF Corre, Admitido, Terminado
  <2>5. /\ \A h \in EnReady \cup Dormidos : h # n
        /\ estado_exec # n
    <3>1. \A h : Admitido(h) => h # n
      BY <1>1, <2>2 DEF Admitido
    <3>2. estado_exec # n
      <4>1. n # Nulo
        BY <2>2, Nombres DEF Nodos
      <4> QED
        BY <1>1, <2>2, <4>1 DEF Planificados
    <3> QED
      BY <1>1, <3>1, <3>2 DEF Planificados, EnMarcha, Corre, Dormidos
  <2>6. /\ listos' \in Seq(Hilos) /\ SinRepetir(listos') /\ EnReady' = EnReady \cup {n}
    BY <1>1, <2>2, <2>3, <2>5, Agregar DEF Planificados, EnReady
  <2>7. Planificados'
    <3>1. Dormidos' = Dormidos
      BY <1>2 DEF Dormidos
    <3>2. \A h \in EnReady' : EnMarcha(h)'
      <4>1. \A h \in EnReady : EnMarcha(h)'
        BY <1>1, <1>10 DEF Planificados
      <4>2. EnMarcha(n)'
        BY <2>4 DEF EnMarcha, Corre
      <4> QED
        BY <2>6, <4>1, <4>2
    <3>3. \A b \in bloqueados' : Corre(b[1])' /\ b[1] \notin EnReady'
      BY <1>1, <1>2, <1>10, <2>5, <2>6 DEF Planificados, Dormidos
    <3>4. estado_exec' # Nulo =>
            /\ estado_exec' \in Hilos \ (EnReady' \cup Dormidos')
            /\ estado_exec'[1] < admitidos' /\ estado_exec'[2] <= ultimo_tid'[estado_exec'[1]]
      <4>1. \A h \in Hilos : h[1] \in Nat
        BY Nombres DEF Nodos
      <4> QED
        BY <1>1, <1>2, <2>3, <2>5, <2>6, <3>1, <4>1 DEF Planificados
    <3> QED
      BY <1>1, <1>2, <2>6, <3>2, <3>3, <3>4 DEF Planificados
  <2>8. CpuBien'
    <3>1. tarea'["cpu"] = tarea["cpu"]
      BY <1>3, Atenciones
    <3> QED
      BY <1>1, <1>2, <1>10, <2>6, <3>1 DEF CpuBien, Pide, Omite, Entregado
  <2>9. Caidas'
    BY <1>1, <1>2 DEF Caidas
  <2>10. Admision'
    <3>1. ~EnAlta(admitidos)' /\ lp' = "nada"
      BY <1>1, <2>3 DEF EnAlta
    <3>2. \A m \in existe' : m[1] < admitidos'
      <4>1. \A m \in existe : m[1] \in Nat
        BY <1>1, Nombres
      <4> QED
        BY <1>1, <1>2, <1>6, <2>3, <4>1
    <3>3. \A m \in existe' : Lista(m) # <<admitidos'>>
      <4>1. \A m \in existe : Lista(m) = <<>> \/ Lista(m) = <<m[1]>>
        BY <1>1, Nombres DEF Nodos, Proceso
      <4>2. \A m \in existe : m[1] # admitidos'
        BY <1>1, <1>2, <3>2, <2>3
      <4> QED
        BY <1>2, <4>1, <4>2
    <3>4. admitidos' \in 0..MaxPid + 1
      BY <1>1, <1>12, <2>3, MemoriaAssumption DEF Admision
    <3>5. \A p \in Pids : p >= admitidos' => ultimo_tid'[p] = 0
      <4>1. \A p \in Pids : p \in Nat
        BY DEF Pids
      <4> QED
        BY <1>1, <1>2, <2>3, <4>1 DEF Admision
    <3>6. ~EnAlta(admitidos)'
      BY <3>1 DEF EnAlta
    <3> QED
      BY <1>1, <1>2, <1>3, <3>1, <3>2, <3>3, <3>4, <3>5, <3>6 DEF Admision, EnAlta
  <2> QED
    BY <1>3, <1>7, <1>8, <1>9, <2>7, <2>8, <2>9, <2>10 DEF Ind
<1> QED
  BY <1>4, <1>11, <1>12

(* The CPU asks for the context of the first of READY. *)
LEMMA PasoDespachar ==
    ASSUME Ind, ~Solapadas, Despachar
    PROVE  Ind'
<1>1. /\ MemTipo /\ Enlazadas /\ Tareas /\ Separadas /\ Admision /\ Huerfanos /\ Terminos
      /\ Planificados /\ CpuBien /\ Caidas
      /\ admitidos \in Nat /\ existe \subseteq Nodos
  BY DeInd
<1>2. PICK h : h = Head(listos)
  OBVIOUS
<1>3. /\ cpu = "esperar" /\ estado_exec = Nulo /\ tarea["sts"] = Libre /\ tarea["volcado"] = Libre
      /\ listos # <<>> /\ estado_exec' = h /\ listos' = Tail(listos) /\ hilo' = h
      /\ Pedir("cpu", "DEVOLVER_CONTEXTO", h) /\ cpu' = "contexto"
      /\ UNCHANGED <<primero, siguiente, existe, ctx, memoria, caida, admitidos, lp, bloqueados,
                     ultimo_tid, terminados, contexto, instr>>
  BY <1>2 DEF Despachar, memSinTarea
<1>4. /\ listos' \in Seq(Hilos) /\ h \in EnReady /\ EnReady = {h} \cup EnReady'
      /\ SinRepetir(listos') /\ h \notin EnReady'
  BY <1>1, <1>2, <1>3, QuitarPrimero DEF Planificados, EnReady
<1>5. EnMarcha(h) /\ h \in Hilos /\ h \in Nodos /\ Proceso(h) \in existe
  BY <1>1, <1>4 DEF Planificados, EnMarcha, Admitido, Nodos
<1>6. /\ MemTipo' /\ Enlazadas' /\ Tareas'
      /\ tarea'["cpu"].op = "DEVOLVER_CONTEXTO" /\ tarea'["cpu"].nodo = h
      /\ \A j \in Atencion \ {"cpu"} : tarea'[j] = tarea[j]
  <2>1. /\ "cpu" \in Atencion /\ "DEVOLVER_CONTEXTO" \in Ops("cpu")
        /\ "DEVOLVER_CONTEXTO" \notin Altas \cup Bajas
    BY Atenciones DEF Ops, Consultas, Altas, Bajas
  <2>2. PICK k, op : k = "cpu" /\ op = "DEVOLVER_CONTEXTO"
    OBVIOUS
  <2> QED
    BY <1>1, <1>3, <1>5, <2>1, <2>2, AlPedir
<1>7. /\ \A j \in Huerfanas : tarea'[j] = tarea[j]
      /\ tarea'["lp"] = tarea["lp"] /\ tarea'["sts"] = Libre /\ tarea'["volcado"] = Libre
  <2>1. Huerfanas \cup {"lp", "sts", "volcado"} \subseteq Atencion \ {"cpu"}
    BY Atenciones
  <2> QED
    BY <1>3, <1>6, <2>1
<1>8. Separadas'
  <2>1. tarea'["cpu"].op \notin Altas
    BY <1>6 DEF Altas
  <2> QED
    BY <1>1, <1>6, <1>7, <2>1 DEF Separadas
<1>9. Admision'
  BY <1>1, <1>3, <1>7, MismaAdmision
<1>10. Huerfanos'
  BY <1>1, <1>3, <1>7 DEF Huerfanos, Huerfano, Terminado
<1>11. Terminos'
  BY <1>1, <1>3 DEF Terminos
<1>12. \A j : (EnMarcha(j) => EnMarcha(j)') /\ (Corre(j) => Corre(j)')
  BY <1>3, <1>7 DEF EnMarcha, Corre, Admitido, Terminado, Nace
<1>13. Planificados'
  <2>1. Dormidos' = Dormidos /\ h \notin Dormidos
    BY <1>1, <1>3, <1>4 DEF Planificados, Dormidos
  <2>2. estado_exec' = hilo' /\ estado_exec' \in Hilos \ (EnReady' \cup Dormidos')
    BY <1>3, <1>4, <1>5, <2>1
  <2>3. estado_exec'[1] < admitidos' /\ estado_exec'[2] <= ultimo_tid'[estado_exec'[1]]
    BY <1>3, <1>5 DEF EnMarcha, Admitido
  <2>4. \A j \in EnReady' : EnMarcha(j)'
    BY <1>1, <1>4, <1>12 DEF Planificados
  <2>5. \A b \in bloqueados' : Corre(b[1])' /\ b[1] \notin EnReady'
    BY <1>1, <1>3, <1>4, <1>12 DEF Planificados
  <2> QED
    BY <1>1, <1>3, <1>4, <2>2, <2>3, <2>4, <2>5 DEF Planificados
<1>14. CpuBien'
  <2>1. EnMarcha(h)'
    BY <1>5, <1>12
  <2>2. EnMarcha(hilo)' /\ Pide("DEVOLVER_CONTEXTO")'
    BY <1>3, <1>6, <2>1 DEF Pide
  <2> QED
    BY <1>3, <1>5, <2>2 DEF CpuBien
<1>15. Caidas'
  BY <1>1, <1>3 DEF Caidas
<1> QED
  BY <1>6, <1>8, <1>9, <1>10, <1>11, <1>13, <1>14, <1>15 DEF Ind
(* A thread that waited goes to READY. *)
LEMMA PasoDespertar ==
    ASSUME Ind, NEW h \in Hilos, NEW motivo \in Motivos, Despertar(h, motivo)
    PROVE  Ind'
<1>1. /\ MemTipo /\ Enlazadas /\ Tareas /\ Separadas /\ Admision /\ Huerfanos /\ Terminos
      /\ Planificados /\ CpuBien /\ Caidas
  BY DeInd
<1>2. /\ <<h, motivo>> \in bloqueados /\ bloqueados' = bloqueados \ {<<h, motivo>>}
      /\ listos' = Append(listos, h)
      /\ UNCHANGED <<primero, siguiente, existe, ctx, memoria, tarea, caida, admitidos, lp,
                     estado_exec, ultimo_tid, terminados, cpu, hilo, contexto, instr>>
  BY DEF Despertar, memVars, cpuVars
<1>3. MemTipo' /\ Enlazadas' /\ Tareas'
  BY <1>1, <1>2, TareasIguales
<1>4. Separadas' /\ Admision' /\ Terminos' /\ Caidas'
  <2>1. Admision'
    BY <1>1, <1>2, MismaAdmision
  <2> QED
    BY <1>1, <1>2, <2>1 DEF Separadas, Terminos, Caidas
<1>5. Huerfanos'
  BY <1>1, <1>2 DEF Huerfanos, Huerfano, Terminado
<1>6. \A j : (EnMarcha(j) => EnMarcha(j)') /\ (Corre(j) => Corre(j)')
  BY <1>2 DEF EnMarcha, Corre, Admitido, Terminado, Nace
<1>7. Corre(h) /\ h \notin EnReady
  <2>1. PICK b : b = <<h, motivo>>
    OBVIOUS
  <2> QED
    BY <1>1, <1>2, <2>1 DEF Planificados
<1>8. /\ listos' \in Seq(Hilos) /\ SinRepetir(listos') /\ EnReady' = EnReady \cup {h}
  BY <1>1, <1>2, <1>7, Agregar DEF Planificados, EnReady
<1>9. Planificados'
  <2>1. \A j \in EnReady' : EnMarcha(j)'
    <3>1. EnMarcha(h)
      BY <1>7 DEF EnMarcha, Corre
    <3> QED
      BY <1>1, <1>6, <1>8, <3>1 DEF Planificados
  <2>2. \A b \in bloqueados' : b \in bloqueados /\ b[1] # h
    <3> SUFFICES ASSUME NEW b \in bloqueados, b # <<h, motivo>>, b[1] = h
                 PROVE  FALSE
      BY <1>2
    <3>1. PICK c \in bloqueados : c = <<h, motivo>>
      BY <1>2
    <3> QED
      BY <1>1, <3>1 DEF Planificados
  <2>3. \A b \in bloqueados' : Corre(b[1])' /\ b[1] \notin EnReady'
    BY <1>1, <1>6, <1>8, <2>2 DEF Planificados
  <2>4. estado_exec # Nulo => estado_exec # h /\ Dormidos' \subseteq Dormidos
    <3>1. h \in Dormidos
      <4>1. PICK b \in bloqueados : b = <<h, motivo>>
        BY <1>2
      <4> QED
        BY <4>1 DEF Dormidos
    <3>2. Dormidos' \subseteq Dormidos
      BY <1>2 DEF Dormidos
    <3> QED
      BY <1>1, <3>1, <3>2 DEF Planificados
  <2>5. /\ bloqueados' \subseteq Hilos \X Motivos
        /\ \A b, c \in bloqueados' : b[1] = c[1] => b = c
    BY <1>1, <1>2 DEF Planificados
  <2> QED
    BY <1>1, <1>2, <1>8, <2>1, <2>3, <2>4, <2>5 DEF Planificados
<1>10. CpuBien'
  <2>1. Entregado => Entregado'
    BY <1>2, <1>8 DEF Entregado
  <2> QED
    BY <1>1, <1>2, <1>6, <2>1 DEF CpuBien, Pide, Omite
<1> QED
  BY <1>3, <1>4, <1>5, <1>9, <1>10 DEF Ind

(* The threads that stay when a process is finalised. *)
LEMMA AlQuitarProceso ==
    ASSUME Planificados, NEW n \in Procesos, NEW p, p = n[1], SinProceso(p)
    PROVE  /\ listos' \in Seq(Hilos) /\ SinRepetir(listos') /\ EnReady' \subseteq EnReady
           /\ bloqueados' \subseteq bloqueados
           /\ \A h \in EnReady' \cup Dormidos' : h # n /\ Proceso(h) # n
<1>1. PICK q : q = Quitando(listos, p)
  OBVIOUS
<1>2. listos' = q /\ bloqueados' = {b \in bloqueados : b[1][1] # p}
  BY <1>1 DEF SinProceso
<1>3. q \in Seq(Hilos) /\ SinRepetir(q) /\ ToSet(q) = {h \in EnReady : h[1] # p}
  BY <1>1, Quitados DEF Planificados, EnReady
<1>4. EnReady' = {h \in EnReady : h[1] # p} /\ Dormidos' = {h \in Dormidos : h[1] # p}
  BY <1>2, <1>3 DEF EnReady, Dormidos
<1>5. EnReady \cup Dormidos \subseteq Hilos
  BY DEF Planificados, EnMarcha, Admitido, Corre, Dormidos
<1>6. \A h \in Hilos : h[1] # p => h # n /\ Proceso(h) # n
  BY Nombres DEF Nodos
<1> QED
  BY <1>2, <1>3, <1>4, <1>5, <1>6

(* A failed dump finalises its process. *)
LEMMA PasoVolcadoFallido ==
    ASSUME Ind, ~Solapadas, NEW h \in Hilos, VolcadoFallido(h)
    PROVE  Ind'
<1>1. /\ MemTipo /\ Enlazadas /\ Tareas /\ Separadas /\ Admision /\ Huerfanos /\ Terminos
      /\ Planificados /\ CpuBien /\ Caidas
  BY DeInd
<1>2. PICK n : n = Proceso(h)
  OBVIOUS
<1>3. /\ <<h, "DUMP_MEMORY">> \in bloqueados /\ Ocupadas = {} /\ cpu = "esperar"
      /\ Pedir("volcado", "FINALIZAR_PROCESO", n) /\ terminados' = terminados \cup {n}
      /\ SinProceso(h[1])
      /\ UNCHANGED <<primero, siguiente, existe, ctx, memoria, caida, admitidos, lp, estado_exec,
                     ultimo_tid, cpu, hilo, contexto, instr>>
  BY <1>2 DEF VolcadoFallido, memSinTarea, cpuVars
<1>4. Corre(h)
  <2>1. PICK b \in bloqueados : b = <<h, "DUMP_MEMORY">>
    BY <1>3
  <2> QED
    BY <1>1, <2>1 DEF Planificados
<1>5. n \in existe /\ n \in Procesos /\ n[1] = h[1] /\ n[1] < admitidos /\ n \notin Hilos
  BY <1>2, <1>4, Nombres DEF Corre, Admitido, Proceso
<1>6. /\ listos' \in Seq(Hilos) /\ SinRepetir(listos') /\ EnReady' \subseteq EnReady
      /\ bloqueados' \subseteq bloqueados
      /\ \A j \in EnReady' \cup Dormidos' : j # n /\ Proceso(j) # n
  BY <1>1, <1>3, <1>5, AlQuitarProceso
<1>7. /\ MemTipo' /\ Enlazadas' /\ Tareas' /\ Separadas' /\ Admision' /\ Huerfanos'
      /\ Terminos' /\ Planificados' /\ tarea'["cpu"] = Libre
  <2>1. PICK k, op : k = "volcado" /\ op = "FINALIZAR_PROCESO"
    OBVIOUS
  <2>2. k \in {"sts", "volcado"} /\ op \in Ops(k)
    BY <2>1 DEF Ops
  <2>3. n \in IF op = "FINALIZAR_PROCESO" THEN Procesos ELSE Hilos
    BY <1>5, <2>1
  <2>4. Pedir(k, op, n) /\ tarea["cpu"] = Libre
    BY <1>1, <1>3, <2>1 DEF CpuBien
  <2>5. /\ cpu' \in {"esperar", "confirmar", "chequear"}
        /\ cpu' = "chequear" => instr'.op \in Salidas
        /\ estado_exec' \in {Nulo, estado_exec}
    BY <1>3
  <2> QED
    BY <1>3, <1>5, <1>6, <2>2, <2>3, <2>4, <2>5, AlTerminar
<1>8. CpuBien' /\ Caidas'
  BY <1>1, <1>3, <1>7 DEF CpuBien, Caidas
<1> QED
  BY <1>7, <1>8 DEF Ind

(* The memory confirms, and the planner goes on. *)
LEMMA PasoStsConfirmado ==
    ASSUME Ind, NEW k \in Atencion, StsConfirmado(k)
    PROVE  Ind'
<1>1. /\ MemTipo /\ Enlazadas /\ Tareas /\ Separadas /\ Admision /\ Huerfanos /\ Terminos
      /\ Planificados /\ CpuBien /\ Caidas
  BY DeInd
<1>2. /\ k # "lp" /\ tarea[k].op = "confirmado" /\ tarea' = [tarea EXCEPT ![k] = Libre]
      /\ cpu' = IF k = "sts" /\ cpu = "confirmar" THEN "chequear" ELSE cpu
      /\ UNCHANGED <<primero, siguiente, existe, ctx, memoria, caida, admitidos, lp, listos,
                     bloqueados, estado_exec, ultimo_tid, terminados, hilo, contexto, instr>>
  BY DEF StsConfirmado, Confirmado, memSinTarea, kernelVars
<1>3. /\ MemTipo' /\ Enlazadas' /\ Tareas'
      /\ tarea'[k] = Libre /\ \A j \in Atencion \ {k} : tarea'[j] = tarea[j]
  BY <1>1, <1>2, AlSoltar
<1>4. k # "cpu" /\ tarea[k] # Libre
  <2>1. "confirmado" \notin Ops("cpu")
    BY DEF Ops, Consultas
  <2> QED
    BY <1>1, <1>2, <2>1, Atenciones, Libres DEF Tareas, TareaDe
<1>5. tarea'["cpu"] = tarea["cpu"] /\ tarea'["lp"] = tarea["lp"]
  BY <1>2, <1>3, <1>4, Atenciones
<1>6. Separadas'
  <2>1. Libre.op \notin Altas
    BY Libres
  <2>2. \A j \in Atencion : tarea'[j].op \in Altas => j # k /\ tarea'[j] = tarea[j]
    BY <1>3, <2>1
  <2>3. ASSUME NEW i \in {"sts", "volcado"}, tarea'[i] # Libre
        PROVE  FALSE
    <3>1. i \in Atencion /\ i # k /\ tarea[i] # Libre
      BY <1>3, <2>3, Atenciones
    <3> QED
      BY <1>1, <1>4, <3>1 DEF Separadas
  <2> QED
    BY <1>1, <2>2, <2>3 DEF Separadas
<1>7. Admision'
  BY <1>1, <1>2, <1>5, MismaAdmision
<1>8. Huerfanos'
  <2>1. \A j \in Huerfanas : tarea'[j] = tarea[j] \/ tarea'[j] = Libre
    BY <1>3, Atenciones
  <2>2. Libre.op # "CREAR_HILO"
    BY Libres DEF Altas
  <2> QED
    BY <1>1, <1>2, <2>1, <2>2 DEF Huerfanos, Huerfano, Terminado
<1>9. Terminos' /\ Caidas'
  BY <1>1, <1>2 DEF Terminos, Caidas
<1>10. \A j : (EnMarcha(j) => EnMarcha(j)') /\ (Corre(j) => Corre(j)')
  <2>1. \A j \in Huerfanas : tarea[j].op = "CREAR_HILO" => tarea'[j] = tarea[j]
    BY <1>2, <1>3, Atenciones
  <2>2. \A j : Nace(j) => Nace(j)'
    BY <2>1 DEF Nace
  <2> QED
    BY <1>2, <2>2 DEF EnMarcha, Corre, Admitido, Terminado
<1>11. Planificados'
  BY <1>1, <1>2, <1>10 DEF Planificados, EnReady, Dormidos
<1>12. CpuBien'
  <2>1. CASE cpu' = cpu
    BY <1>1, <1>2, <1>5, <1>10, <2>1 DEF CpuBien, Pide, Omite, Entregado, EnReady
  <2>2. CASE cpu = "confirmar" /\ cpu' = "chequear"
    BY <1>1, <1>2, <1>5, <2>2 DEF CpuBien, Omite
  <2> QED
    BY <1>2, <2>1, <2>2
<1> QED
  BY <1>3, <1>6, <1>7, <1>8, <1>9, <1>11, <1>12 DEF Ind
-----------------------------------------------------------------------------
(* The steps of the CPU.                                                   *)

(* Those that only change the CPU and its handler. *)
LEMMA SoloCpu ==
    ASSUME Ind, UNCHANGED <<existe, kernelVars, hilo>>,
           \A j \in Atencion \ {"cpu"} : tarea'[j] = tarea[j], tarea'["cpu"].op \notin Altas,
           Finalizando => /\ tarea'["cpu"] = Libre /\ cpu' \in {"esperar", "confirmar", "chequear"}
                          /\ cpu' = "chequear" => instr'.op \in Salidas
    PROVE  /\ Separadas' /\ Admision' /\ Huerfanos' /\ Terminos' /\ Planificados'
           /\ \A h : (EnMarcha(h) => EnMarcha(h)') /\ (Corre(h) => Corre(h)')
           /\ estado_exec' = estado_exec /\ (Entregado => Entregado')
<1>1. /\ MemTipo /\ Enlazadas /\ Tareas /\ Separadas /\ Admision /\ Huerfanos /\ Terminos
      /\ Planificados
      /\ ~Finalizando <=> tarea["sts"] = Libre /\ tarea["volcado"] = Libre
  BY DeInd
<1>2. /\ Huerfanas \cup {"lp", "sts", "volcado"} \subseteq Atencion \ {"cpu"}
      /\ \A j \in Huerfanas \cup {"lp", "sts", "volcado"} : tarea'[j] = tarea[j]
  <2>1. Huerfanas \cup {"lp", "sts", "volcado"} \subseteq Atencion \ {"cpu"}
    BY Atenciones
  <2> QED
    BY <2>1
<1>3. UNCHANGED <<admitidos, lp, listos, bloqueados, estado_exec, ultimo_tid, terminados>>
  BY DEF kernelVars
<1>4. Separadas'
  <2>1. \A j \in Atencion : tarea'[j].op \in Altas => tarea'[j] = tarea[j]
    OBVIOUS
  <2>2. ASSUME NEW i \in {"sts", "volcado"}, tarea'[i] # Libre
        PROVE  /\ \A j \in Atencion \ {i} : tarea'[j] = Libre
               /\ cpu' \in {"esperar", "confirmar", "chequear"}
               /\ cpu' = "chequear" => instr'.op \in {"PROCESS_EXIT", "THREAD_EXIT"}
    <3>1. tarea[i] # Libre /\ Finalizando
      BY <1>1, <1>2, <2>2
    <3>2. \A j \in Atencion \ {i} : tarea[j] = Libre
      BY <1>1, <3>1 DEF Separadas
    <3> QED
      BY <3>1, <3>2 DEF Salidas
  <2> QED
    BY <1>1, <2>1, <2>2 DEF Separadas
<1>5. Admision'
  BY <1>1, <1>2, <1>3, MismaAdmision
<1>6. Huerfanos'
  BY <1>1, <1>2, <1>3 DEF Huerfanos, Huerfano, Terminado
<1>7. Terminos'
  BY <1>1, <1>3 DEF Terminos
<1>8. \A h : (EnMarcha(h) => EnMarcha(h)') /\ (Corre(h) => Corre(h)')
  BY <1>2, <1>3 DEF EnMarcha, Corre, Admitido, Terminado, Nace
<1>9. Planificados' /\ (Entregado => Entregado')
  BY <1>1, <1>3, <1>8 DEF Planificados, EnReady, Dormidos, Entregado
<1> QED
  BY <1>3, <1>4, <1>5, <1>6, <1>7, <1>8, <1>9

(* The CPU asks for something about its thread. *)
LEMMA PedirCpu ==
    ASSUME Ind, Corre(hilo), NEW op \in {"DEVOLVER_INSTRUCCION", "ACTUALIZAR_CONTEXTO"},
           Pedir("cpu", op, hilo), UNCHANGED <<primero, siguiente, existe, terminados, hilo>>
    PROVE  /\ MemTipo' /\ Enlazadas' /\ Tareas' /\ Pide(op)' /\ tarea'["cpu"].op \notin Altas
           /\ \A j \in Atencion \ {"cpu"} : tarea'[j] = tarea[j]
<1>1. PICK h, k : h = hilo /\ k = "cpu"
  OBVIOUS
<1>2. /\ k \in Atencion /\ op \in Ops(k) /\ op \notin Altas \cup Bajas
      /\ op \notin {"CREAR_PROCESO", "FINALIZAR_PROCESO"}
  BY <1>1, Atenciones DEF Ops, Consultas, Altas, Bajas
<1>3. h \in Hilos /\ h \in Nodos /\ h \in existe /\ Proceso(h) \in existe
  BY <1>1 DEF Corre, Admitido, Nodos
<1>4. /\ MemTipo' /\ Enlazadas' /\ Tareas'
      /\ tarea'[k].op = op /\ tarea'[k].nodo = h
      /\ \A j \in Atencion \ {k} : tarea'[j] = tarea[j]
  <2>1. MemTipo /\ Enlazadas /\ Tareas
    BY DeInd
  <2>2. h \in IF op \in {"CREAR_PROCESO", "FINALIZAR_PROCESO"} THEN Procesos ELSE Hilos
    BY <1>2, <1>3
  <2> QED
    BY <1>1, <1>2, <1>3, <2>1, <2>2, AlPedir
<1> QED
  BY <1>1, <1>2, <1>4 DEF Pide

(* The CPU receives the answer: the node was there. *)
LEMMA ServirCpu ==
    ASSUME Ind, NEW op \in Consultas, Pide(op), Servida(op, hilo),
           UNCHANGED <<primero, siguiente, existe, terminados>>
    PROVE  /\ MemTipo' /\ Enlazadas' /\ Tareas' /\ tarea'["cpu"] = Libre
           /\ tarea'["cpu"].op \notin Altas
           /\ \A j \in Atencion \ {"cpu"} : tarea'[j] = tarea[j]
           /\ caida' = "no" /\ hilo \in existe
<1>1. /\ tarea["cpu"].op = op /\ tarea["cpu"].recorridos = <<>> /\ tarea["cpu"].nodo = hilo
      /\ tarea' = [tarea EXCEPT !["cpu"] = Libre]
      /\ caida' = IF hilo \in existe THEN "no" ELSE "nodo_liberado"
  BY DEF Pide, Servida, Termino
<1>2. PICK t, k : t = tarea["cpu"] /\ k = "cpu"
  OBVIOUS
<1>3. Activa(t)
  BY <1>1, <1>2, DeInd, Atenciones, Quietas, Libres
<1>4. op \notin Altas
  BY DEF Consultas, Altas
<1>5. hilo \in existe
  BY <1>1, <1>2, <1>3, <1>4 DEF Activa, EnCurso
<1>6. /\ MemTipo' /\ Enlazadas' /\ Tareas' /\ tarea'[k] = Libre
      /\ \A j \in Atencion \ {k} : tarea'[j] = tarea[j]
  <2>1. MemTipo /\ Enlazadas /\ Tareas /\ terminados \subseteq terminados' /\ k \in Atencion
    BY <1>2, DeInd, Atenciones
  <2> QED
    BY <1>1, <1>2, <2>1, AlSoltar
<1>7. Libre.op \notin Altas
  BY Libres
<1> QED
  BY <1>1, <1>2, <1>5, <1>6, <1>7

(* The context arrives: the thread exists. *)
LEMMA PasoRecibirContexto ==
    ASSUME Ind, RecibirContexto
    PROVE  Ind'
<1>1. /\ cpu = "contexto" /\ cpu' = "ciclo" /\ Servida("DEVOLVER_CONTEXTO", hilo)
      /\ UNCHANGED <<primero, siguiente, existe, kernelVars, hilo, instr, terminados>>
  BY DEF RecibirContexto, Cpu, kernelVars, listas
<1>2. CpuBien /\ ~Finalizando
  BY <1>1, DeInd
<1>3. Pide("DEVOLVER_CONTEXTO") /\ EnMarcha(hilo) /\ estado_exec = hilo /\ hilo \in Hilos
  BY <1>1, <1>2 DEF CpuBien, EnMarcha, Admitido
<1>4. /\ MemTipo' /\ Enlazadas' /\ Tareas' /\ tarea'["cpu"] = Libre
      /\ tarea'["cpu"].op \notin Altas
      /\ \A j \in Atencion \ {"cpu"} : tarea'[j] = tarea[j]
      /\ caida' = "no" /\ hilo \in existe
  BY <1>1, <1>3, ServirCpu DEF Consultas
<1>5. /\ Separadas' /\ Admision' /\ Huerfanos' /\ Terminos' /\ Planificados'
      /\ Corre(hilo) => Corre(hilo)'
      /\ estado_exec' = estado_exec
  BY <1>1, <1>2, <1>4, SoloCpu
<1>6. CpuBien'
  <2>1. Corre(hilo)
    BY <1>3, <1>4 DEF Corre, EnMarcha
  <2> QED
    BY <1>1, <1>3, <1>4, <1>5, <2>1 DEF CpuBien
<1>7. Caidas'
  BY <1>4 DEF Caidas
<1> QED
  BY <1>4, <1>5, <1>6, <1>7 DEF Ind

(* The CPU asks for an instruction. *)
LEMMA PasoPedirInstruccion ==
    ASSUME Ind, PedirInstruccion
    PROVE  Ind'
<1>1. /\ cpu = "ciclo" /\ cpu' = "fetch" /\ Pedir("cpu", "DEVOLVER_INSTRUCCION", hilo)
      /\ caida = "no"
      /\ UNCHANGED <<primero, siguiente, existe, caida, kernelVars, hilo, instr, terminados>>
  BY DEF PedirInstruccion, Cpu, kernelVars, memSinTarea
<1>2. CpuBien /\ ~Finalizando
  BY <1>1, DeInd
<1>3. Corre(hilo) /\ estado_exec = hilo /\ hilo \in Hilos
  BY <1>1, <1>2 DEF CpuBien, Corre, Admitido
<1>4. /\ MemTipo' /\ Enlazadas' /\ Tareas' /\ Pide("DEVOLVER_INSTRUCCION")'
      /\ tarea'["cpu"].op \notin Altas
      /\ \A j \in Atencion \ {"cpu"} : tarea'[j] = tarea[j]
  BY <1>1, <1>3, PedirCpu
<1>5. /\ Separadas' /\ Admision' /\ Huerfanos' /\ Terminos' /\ Planificados'
      /\ Corre(hilo) => Corre(hilo)'
      /\ estado_exec' = estado_exec
  BY <1>1, <1>2, <1>4, SoloCpu
<1>6. CpuBien' /\ Caidas'
  BY <1>1, <1>3, <1>4, <1>5 DEF CpuBien, Caidas
<1> QED
  BY <1>4, <1>5, <1>6 DEF Ind

(* The instruction arrives. *)
LEMMA PasoRecibirInstruccion ==
    ASSUME Ind, RecibirInstruccion
    PROVE  Ind'
<1>1. /\ cpu = "fetch" /\ cpu' = "ejecutar" /\ Servida("DEVOLVER_INSTRUCCION", hilo)
      /\ UNCHANGED <<primero, siguiente, existe, kernelVars, hilo, terminados>>
  BY DEF RecibirInstruccion, Cpu, kernelVars, listas
<1>2. CpuBien /\ ~Finalizando
  BY <1>1, DeInd
<1>3. Pide("DEVOLVER_INSTRUCCION") /\ Corre(hilo) /\ estado_exec = hilo /\ hilo \in Hilos
  BY <1>1, <1>2 DEF CpuBien, Corre, Admitido
<1>4. /\ MemTipo' /\ Enlazadas' /\ Tareas' /\ tarea'["cpu"] = Libre
      /\ tarea'["cpu"].op \notin Altas
      /\ \A j \in Atencion \ {"cpu"} : tarea'[j] = tarea[j]
      /\ caida' = "no"
  BY <1>1, <1>3, ServirCpu DEF Consultas
<1>5. /\ Separadas' /\ Admision' /\ Huerfanos' /\ Terminos' /\ Planificados'
      /\ Corre(hilo) => Corre(hilo)'
      /\ estado_exec' = estado_exec
  BY <1>1, <1>2, <1>4, SoloCpu
<1>6. CpuBien' /\ Caidas'
  BY <1>1, <1>3, <1>4, <1>5 DEF CpuBien, Caidas
<1> QED
  BY <1>4, <1>5, <1>6 DEF Ind

(* Instructions that only use the registers and the user memory.           *)
LEMMA PasoSinPedir ==
    ASSUME Ind, EjecutarCalculo \/ EjecutarAcceso
    PROVE  Ind'
<1>1. /\ cpu = "ejecutar" /\ cpu' = "chequear" /\ ~Omite /\ instr.op # "IO"
      /\ caida' \in {"no", "fuera_de_memoria"}
      /\ UNCHANGED <<primero, siguiente, existe, tarea, kernelVars, hilo, instr, terminados>>
  <2>1. CASE EjecutarCalculo
    BY <2>1 DEF EjecutarCalculo, Cpu, kernelVars, memVars, Omite
  <2>2. CASE EjecutarAcceso
    BY <2>2 DEF EjecutarAcceso, Cpu, kernelVars, Omite, Accede
  <2> QED
    BY <2>1, <2>2
<1>2. CpuBien /\ ~Finalizando /\ MemTipo /\ Enlazadas /\ Tareas
  BY <1>1, DeInd
<1>3. Corre(hilo) /\ estado_exec = hilo /\ hilo \in Hilos /\ tarea["cpu"] = Libre
  BY <1>1, <1>2 DEF CpuBien, Corre, Admitido
<1>4. MemTipo' /\ Enlazadas' /\ Tareas'
  BY <1>1, <1>2, TareasIguales
<1>5. /\ Separadas' /\ Admision' /\ Huerfanos' /\ Terminos' /\ Planificados'
      /\ Corre(hilo) => Corre(hilo)'
      /\ estado_exec' = estado_exec
  <2>1. tarea'["cpu"].op \notin Altas
    BY <1>1, <1>3, Libres
  <2> QED
    BY <1>1, <1>2, <2>1, SoloCpu
<1>6. CpuBien' /\ Caidas'
  BY <1>1, <1>3, <1>5 DEF CpuBien, Caidas, Omite
<1> QED
  BY <1>4, <1>5, <1>6 DEF Ind

(* The context is going to be saved. *)
LEMMA PasoGuardar ==
    ASSUME Ind, EjecutarSegFault \/ EjecutarDump
    PROVE  Ind'
<1>1. /\ cpu = "ejecutar" /\ Pedir("cpu", "ACTUALIZAR_CONTEXTO", hilo)
      /\ cpu' \in {"seg_fault", "dump"} /\ caida = "no"
      /\ cpu' = "dump" => instr.op = "DUMP_MEMORY"
      /\ UNCHANGED <<primero, siguiente, existe, caida, kernelVars, hilo, instr, terminados>>
  BY DEF EjecutarSegFault, EjecutarDump, Cpu, kernelVars, memSinTarea
<1>2. CpuBien /\ ~Finalizando
  BY <1>1, DeInd
<1>3. Corre(hilo) /\ estado_exec = hilo /\ hilo \in Hilos
  BY <1>1, <1>2 DEF CpuBien, Corre, Admitido
<1>4. /\ MemTipo' /\ Enlazadas' /\ Tareas' /\ Pide("ACTUALIZAR_CONTEXTO")'
      /\ tarea'["cpu"].op \notin Altas
      /\ \A j \in Atencion \ {"cpu"} : tarea'[j] = tarea[j]
  BY <1>1, <1>3, PedirCpu
<1>5. /\ Separadas' /\ Admision' /\ Huerfanos' /\ Terminos' /\ Planificados'
      /\ Corre(hilo) => Corre(hilo)'
      /\ estado_exec' = estado_exec
  BY <1>1, <1>2, <1>4, SoloCpu
<1>6. CpuBien' /\ Caidas'
  BY <1>1, <1>3, <1>4, <1>5 DEF CpuBien, Caidas
<1> QED
  BY <1>4, <1>5, <1>6 DEF Ind

(* The context is saved, of a thread that is to be finalised or to wait for *)
(* a dump.                                                                 *)
LEMMA PasoActualizar ==
    ASSUME Ind, ActualizarSegFault \/ ActualizarDump
    PROVE  Ind'
<1>1. /\ cpu \in {"seg_fault", "dump"} /\ cpu' \in {"avisar", "volcar"}
      /\ cpu' = "volcar" => cpu = "dump"
      /\ Servida("ACTUALIZAR_CONTEXTO", hilo)
      /\ UNCHANGED <<primero, siguiente, existe, kernelVars, hilo, instr, terminados>>
  BY DEF ActualizarSegFault, ActualizarDump, Actualizar, Cpu, kernelVars, listas
<1>2. CpuBien /\ ~Finalizando
  BY <1>1, DeInd
<1>3. Pide("ACTUALIZAR_CONTEXTO") /\ Corre(hilo) /\ estado_exec = hilo /\ hilo \in Hilos
  BY <1>1, <1>2 DEF CpuBien, Corre, Admitido
<1>4. /\ MemTipo' /\ Enlazadas' /\ Tareas' /\ tarea'["cpu"] = Libre
      /\ tarea'["cpu"].op \notin Altas
      /\ \A j \in Atencion \ {"cpu"} : tarea'[j] = tarea[j]
      /\ caida' = "no"
  BY <1>1, <1>3, ServirCpu DEF Consultas
<1>5. /\ Separadas' /\ Admision' /\ Huerfanos' /\ Terminos' /\ Planificados'
      /\ Corre(hilo) => Corre(hilo)'
      /\ estado_exec' = estado_exec
  BY <1>1, <1>2, <1>4, SoloCpu
<1>6. cpu' = "volcar" => instr.op = "DUMP_MEMORY"
  BY <1>1, <1>2 DEF CpuBien
<1>7. CpuBien' /\ Caidas'
  BY <1>1, <1>3, <1>4, <1>5, <1>6 DEF CpuBien, Caidas
<1> QED
  BY <1>4, <1>5, <1>7 DEF Ind

(* The end of an instruction. *)
LEMMA PasoChequear ==
    ASSUME Ind, NEW hay \in BOOLEAN, Chequear(hay)
    PROVE  Ind'
<1> DEFINE actualizar == (hay /\ ~Omite) \/ instr.op = "IO"
<1>1. /\ cpu = "chequear" /\ caida = "no"
      /\ cpu' = IF actualizar THEN "actualizar"
                ELSE IF Omite \/ instr.op = "PC INVALIDO" THEN "esperar" ELSE "ciclo"
      /\ IF actualizar THEN Pedir("cpu", "ACTUALIZAR_CONTEXTO", hilo) ELSE UNCHANGED tarea
      /\ UNCHANGED <<primero, siguiente, existe, caida, kernelVars, hilo, instr, terminados>>
  BY DEF Chequear, Cpu, kernelVars, memSinTarea
<1>2. /\ CpuBien /\ MemTipo /\ Enlazadas /\ Tareas /\ tarea["cpu"] = Libre
      /\ Finalizando => instr.op \in Salidas
  <2>1. CpuBien /\ MemTipo /\ Enlazadas /\ Tareas /\ Separadas
        /\ (~Finalizando <=> tarea["sts"] = Libre /\ tarea["volcado"] = Libre)
    BY DeInd
  <2> QED
    BY <1>1, <2>1 DEF CpuBien, Separadas, Salidas
<1>3. CASE actualizar
  <2>1. Corre(hilo) /\ ~Finalizando
    BY <1>1, <1>2, <1>3 DEF CpuBien, Salidas, Omite
  <2>2. /\ MemTipo' /\ Enlazadas' /\ Tareas' /\ Pide("ACTUALIZAR_CONTEXTO")'
        /\ tarea'["cpu"].op \notin Altas
        /\ \A j \in Atencion \ {"cpu"} : tarea'[j] = tarea[j]
    BY <1>1, <1>3, <2>1, PedirCpu
  <2>3. /\ Separadas' /\ Admision' /\ Huerfanos' /\ Terminos' /\ Planificados'
        /\ Corre(hilo) => Corre(hilo)'
        /\ estado_exec' = estado_exec /\ (Entregado => Entregado')
    BY <1>1, <2>1, <2>2, SoloCpu
  <2>4. CpuBien' /\ Caidas'
    <3>1. cpu' = "actualizar" /\ (~Omite \/ instr.op = "IO")
      BY <1>1, <1>3
    <3> QED
      BY <1>1, <1>2, <2>1, <2>2, <2>3, <3>1 DEF CpuBien, Caidas, Omite
  <2> QED
    BY <2>2, <2>3, <2>4 DEF Ind
<1>4. CASE ~actualizar
  <2>1. /\ tarea' = tarea /\ instr.op # "IO"
        /\ cpu' = "esperar" \/ (cpu' = "ciclo" /\ ~Omite)
        /\ Omite => cpu' = "esperar"
    BY <1>1, <1>4
  <2>2. MemTipo' /\ Enlazadas' /\ Tareas'
    BY <1>1, <1>2, <2>1, TareasIguales
  <2>3. /\ Separadas' /\ Admision' /\ Huerfanos' /\ Terminos' /\ Planificados'
        /\ Corre(hilo) => Corre(hilo)'
        /\ estado_exec' = estado_exec
    <3>1. tarea'["cpu"].op \notin Altas
      BY <1>2, <2>1, Libres
    <3>2. Finalizando => cpu' = "esperar"
      BY <1>2, <2>1 DEF Salidas, Omite
    <3> QED
      BY <1>1, <1>2, <2>1, <3>1, <3>2, SoloCpu
  <2>4. CpuBien' /\ Caidas'
    BY <1>1, <1>2, <2>1, <2>3 DEF CpuBien, Caidas
  <2> QED
    BY <2>2, <2>3, <2>4 DEF Ind
<1> QED
  BY <1>3, <1>4
(* What the CPU knows of the thread it executes. *)
LEMMA AlEjecutar ==
    ASSUME Ind, cpu \in {"ciclo", "fetch", "ejecutar", "seg_fault", "avisar", "dump", "volcar"}
    PROVE  /\ Corre(hilo) /\ estado_exec = hilo /\ hilo \in Hilos /\ hilo \in Nodos /\ hilo # Nulo
           /\ hilo \in existe /\ Proceso(hilo) \in existe /\ Proceso(hilo) \in Procesos
           /\ Proceso(hilo)[1] = hilo[1] /\ hilo[1] \in Pids
           /\ hilo[1] < admitidos /\ hilo[2] <= ultimo_tid[hilo[1]]
           /\ hilo \notin EnReady \cup Dormidos /\ ~Finalizando
           /\ cpu \in {"ejecutar", "avisar", "volcar"} => tarea["cpu"] = Libre
<1>1. CpuBien /\ Planificados /\ ~Finalizando
  BY DeInd
<1>2. Corre(hilo) /\ estado_exec = hilo
  BY <1>1 DEF CpuBien
<1>3. /\ hilo \in Hilos /\ hilo \in existe /\ Proceso(hilo) \in existe
      /\ hilo[1] < admitidos /\ hilo[2] <= ultimo_tid[hilo[1]]
  BY <1>2 DEF Corre, Admitido
<1>4. hilo \in Nodos /\ hilo # Nulo
  BY <1>3, Nombres DEF Nodos
<1>5. Proceso(hilo) \in Procesos /\ Proceso(hilo)[1] = hilo[1] /\ hilo[1] \in Pids
  BY <1>4, Nombres
<1>6. hilo \notin EnReady \cup Dormidos
  BY <1>1, <1>2, <1>4 DEF Planificados
<1>7. cpu \in {"ejecutar", "avisar", "volcar"} => tarea["cpu"] = Libre
  BY <1>1 DEF CpuBien
<1> QED
  BY <1>1, <1>2, <1>3, <1>4, <1>5, <1>6, <1>7

(* The thread of the CPU is put to wait: an IO, or a dump once the context *)
(* was saved.                                                              *)
LEMMA AlBloquear ==
    ASSUME Ind, Corre(hilo), estado_exec = hilo, hilo # Nulo, hilo \notin EnReady \cup Dormidos,
           NEW motivo \in Motivos, ~Finalizando,
           bloqueados' = bloqueados \cup {<<hilo, motivo>>}, estado_exec' = Nulo,
           UNCHANGED <<existe, admitidos, lp, listos, ultimo_tid, terminados, hilo>>,
           \A j \in Atencion :
               tarea'[j] = tarea[j] \/ (j \in Volcadores \cup {"cpu"} /\ tarea'[j].op \notin Altas)
    PROVE  /\ Separadas' /\ Admision' /\ Huerfanos' /\ Terminos' /\ Planificados'
           /\ \A h : (EnMarcha(h) => EnMarcha(h)') /\ (Corre(h) => Corre(h)')
<1>1. /\ Separadas /\ Admision /\ Huerfanos /\ Terminos /\ Planificados
      /\ ~Finalizando <=> tarea["sts"] = Libre /\ tarea["volcado"] = Libre
  BY DeInd
<1>2. /\ \A j \in Huerfanas : tarea'[j] = tarea[j]
      /\ tarea'["lp"] = tarea["lp"] /\ tarea'["sts"] = Libre /\ tarea'["volcado"] = Libre
  <2>1. Huerfanas \cup {"lp", "sts", "volcado"} \subseteq Atencion \ ({"cpu"} \cup Volcadores)
    BY Atenciones
  <2> QED
    BY <1>1, <2>1
<1>3. Separadas'
  <2>1. \A j \in Atencion : tarea'[j].op \in Altas => tarea'[j] = tarea[j]
    OBVIOUS
  <2> QED
    BY <1>1, <1>2, <2>1 DEF Separadas
<1>4. Admision' /\ Huerfanos' /\ Terminos'
  <2>1. Admision'
    BY <1>1, <1>2, MismaAdmision
  <2> QED
    BY <1>1, <1>2, <2>1 DEF Huerfanos, Huerfano, Terminos, Terminado
<1>5. \A h : (EnMarcha(h) => EnMarcha(h)') /\ (Corre(h) => Corre(h)')
  BY <1>2 DEF EnMarcha, Corre, Admitido, Terminado, Nace
<1>6. Planificados'
  <2>1. PICK c : c = <<hilo, motivo>>
    OBVIOUS
  <2>2. c[1] = hilo /\ hilo \in Hilos /\ c \in Hilos \X Motivos /\ bloqueados' = bloqueados \cup {c}
    BY <2>1 DEF Corre, Admitido
  <2>3. \A b \in bloqueados : b[1] # hilo
    BY DEF Dormidos
  <2>4. EnReady' = EnReady
    BY DEF EnReady
  <2>5. \A b \in bloqueados' : Corre(b[1])' /\ b[1] \notin EnReady'
    BY <1>1, <1>5, <2>2, <2>4 DEF Planificados
  <2>6. \A h \in EnReady' : EnMarcha(h)'
    BY <1>1, <1>5, <2>4 DEF Planificados
  <2>7. \A a, b \in bloqueados' : a[1] = b[1] => a = b
    BY <1>1, <2>2, <2>3 DEF Planificados
  <2> QED
    BY <1>1, <2>2, <2>5, <2>6, <2>7 DEF Planificados
<1> QED
  BY <1>3, <1>4, <1>5, <1>6

(* An IO puts the thread to wait. *)
LEMMA PasoIO ==
    ASSUME Ind, EjecutarIO
    PROVE  Ind'
<1>1. /\ cpu = "ejecutar" /\ cpu' = "chequear" /\ caida = "no" /\ instr.op = "IO"
      /\ bloqueados' = bloqueados \cup {<<hilo, "IO">>} /\ estado_exec' = Nulo
      /\ UNCHANGED <<primero, siguiente, existe, tarea, caida, admitidos, lp, listos, ultimo_tid,
                     terminados, hilo, instr>>
  BY DEF EjecutarIO, Cpu, memVars
<1>2. /\ Corre(hilo) /\ estado_exec = hilo /\ hilo \in Hilos /\ hilo # Nulo
      /\ hilo \notin EnReady \cup Dormidos /\ ~Finalizando /\ tarea["cpu"] = Libre
  BY <1>1, AlEjecutar
<1>3. MemTipo' /\ Enlazadas' /\ Tareas'
  <2>1. MemTipo /\ Enlazadas /\ Tareas
    BY DeInd
  <2> QED
    BY <1>1, <2>1, TareasIguales
<1>4. /\ Separadas' /\ Admision' /\ Huerfanos' /\ Terminos' /\ Planificados'
      /\ Corre(hilo) => Corre(hilo)'
  <2>1. tarea'["cpu"].op \notin Altas /\ "IO" \in Motivos
    BY <1>1, <1>2, Libres DEF Motivos
  <2> QED
    BY <1>1, <1>2, <2>1, AlBloquear
<1>5. CpuBien' /\ Caidas'
  BY <1>1, <1>2, <1>4 DEF CpuBien, Caidas, Omite, Entregado
<1> QED
  BY <1>3, <1>4, <1>5 DEF Ind

(* So does a dump, whose thread of the memory starts.                      *)
LEMMA PasoPedirDump ==
    ASSUME Ind, PedirDump
    PROVE  Ind'
<1>1. PICK k \in Volcadores : Pedir(k, "DUMP_MEMORY", hilo)
  BY DEF PedirDump
<1>2. /\ cpu = "volcar" /\ cpu' = "chequear" /\ caida = "no"
      /\ bloqueados' = bloqueados \cup {<<hilo, "DUMP_MEMORY">>} /\ estado_exec' = Nulo
      /\ UNCHANGED <<primero, siguiente, existe, caida, admitidos, lp, listos, ultimo_tid,
                     terminados, hilo, instr>>
  BY DEF PedirDump, Cpu, memSinTarea
<1>3. /\ Corre(hilo) /\ estado_exec = hilo /\ hilo \in Hilos /\ hilo # Nulo /\ hilo \in Nodos
      /\ hilo \in existe /\ Proceso(hilo) \in existe
      /\ hilo \notin EnReady \cup Dormidos /\ ~Finalizando /\ tarea["cpu"] = Libre
  BY <1>2, AlEjecutar
<1>4. CpuBien /\ MemTipo /\ Enlazadas /\ Tareas /\ instr.op = "DUMP_MEMORY"
  BY <1>2, DeInd DEF CpuBien
<1>5. /\ MemTipo' /\ Enlazadas' /\ Tareas' /\ tarea'[k].op = "DUMP_MEMORY"
      /\ \A j \in Atencion \ {k} : tarea'[j] = tarea[j]
  <2>1. PICK op, h : op = "DUMP_MEMORY" /\ h = hilo
    OBVIOUS
  <2>2. k \in Atencion /\ op \in Ops(k) /\ op \notin Altas \cup Bajas
    BY <2>1, Atenciones DEF Ops, Altas, Bajas
  <2>3. h \in IF op \in {"CREAR_PROCESO", "FINALIZAR_PROCESO"} THEN Procesos ELSE Hilos
    BY <1>3, <2>1
  <2>4. Pedir(k, op, h) /\ h \in Nodos /\ h \in existe /\ Proceso(h) \in existe
    BY <1>1, <1>3, <2>1
  <2>5. terminados \subseteq terminados'
    BY <1>2
  <2> QED
    BY <1>2, <1>4, <2>1, <2>2, <2>3, <2>4, <2>5, AlPedir
<1>6. k # "cpu" /\ tarea'["cpu"] = Libre
  BY <1>3, <1>5, Atenciones
<1>7. Separadas' /\ Admision' /\ Huerfanos' /\ Terminos' /\ Planificados'
  <2>1. "DUMP_MEMORY" \in Motivos /\ "DUMP_MEMORY" \notin Altas
    BY DEF Motivos, Altas
  <2> QED
    BY <1>2, <1>3, <1>5, <2>1, AlBloquear
<1>8. CpuBien' /\ Caidas'
  BY <1>2, <1>3, <1>4, <1>6 DEF CpuBien, Caidas, Omite
<1> QED
  BY <1>5, <1>7, <1>8 DEF Ind

(* The thread leaves the CPU; unless it waits, it goes to READY.           *)
LEMMA PasoSalir ==
    ASSUME Ind, Salir
    PROVE  Ind'
<1>1. /\ cpu = "actualizar" /\ cpu' = "esperar" /\ Servida("ACTUALIZAR_CONTEXTO", hilo)
      /\ IF instr.op = "IO" THEN UNCHANGED <<listos, estado_exec>>
         ELSE listos' = Append(listos, hilo) /\ estado_exec' = Nulo
      /\ UNCHANGED <<primero, siguiente, existe, admitidos, lp, bloqueados, ultimo_tid,
                     terminados, hilo, instr>>
  BY DEF Salir, Actualizar, Cpu, listas
<1>2. /\ MemTipo /\ Separadas /\ Admision /\ Huerfanos /\ Terminos /\ Planificados /\ CpuBien
      /\ ~Finalizando <=> tarea["sts"] = Libre /\ tarea["volcado"] = Libre
      /\ ~Finalizando
  BY <1>1, DeInd
<1>3. Pide("ACTUALIZAR_CONTEXTO")
  BY <1>1, <1>2 DEF CpuBien
<1>4. /\ MemTipo' /\ Enlazadas' /\ Tareas' /\ tarea'["cpu"] = Libre
      /\ tarea'["cpu"].op \notin Altas
      /\ \A j \in Atencion \ {"cpu"} : tarea'[j] = tarea[j]
      /\ caida' = "no"
  BY <1>1, <1>3, ServirCpu DEF Consultas
<1>5. CpuBien' /\ Caidas'
  BY <1>1, <1>2, <1>4 DEF CpuBien, Caidas
<1>6. /\ \A j \in Huerfanas : tarea'[j] = tarea[j]
      /\ tarea'["lp"] = tarea["lp"] /\ tarea'["sts"] = Libre /\ tarea'["volcado"] = Libre
  <2>1. Huerfanas \cup {"lp", "sts", "volcado"} \subseteq Atencion \ {"cpu"}
    BY Atenciones
  <2> QED
    BY <1>2, <1>4, <2>1
<1>7. Separadas'
  BY <1>2, <1>4, <1>6 DEF Separadas
<1>8. Admision' /\ Huerfanos' /\ Terminos'
  <2>1. Admision'
    BY <1>1, <1>2, <1>6, MismaAdmision
  <2> QED
    BY <1>1, <1>2, <1>6, <2>1 DEF Huerfanos, Huerfano, Terminos, Terminado
<1>9. \A h : (EnMarcha(h) => EnMarcha(h)') /\ (Corre(h) => Corre(h)')
  BY <1>1, <1>6 DEF EnMarcha, Corre, Admitido, Terminado, Nace
<1>10. CASE instr.op = "IO"
  <2>1. Planificados'
    BY <1>1, <1>2, <1>9, <1>10 DEF Planificados, EnReady, Dormidos
  <2> QED
    BY <1>4, <1>5, <1>7, <1>8, <2>1 DEF Ind
<1>11. CASE instr.op # "IO"
  <2>1. Corre(hilo) /\ estado_exec = hilo
    BY <1>1, <1>2, <1>11 DEF CpuBien
  <2>2. hilo \in Hilos /\ EnMarcha(hilo) /\ hilo \notin EnReady \cup Dormidos
    <3>1. hilo \in Hilos /\ EnMarcha(hilo)
      BY <2>1 DEF Corre, EnMarcha, Admitido
    <3>2. hilo # Nulo
      BY <3>1, Nombres DEF Nodos
    <3> QED
      BY <1>2, <2>1, <3>1, <3>2 DEF Planificados
  <2>3. /\ listos' \in Seq(Hilos) /\ SinRepetir(listos') /\ EnReady' = EnReady \cup {hilo}
    <3>1. PICK h : h = hilo
      OBVIOUS
    <3>2. h \in Hilos /\ h \notin EnReady /\ listos' = Append(listos, h)
      BY <1>1, <1>11, <2>2, <3>1
    <3>3. /\ listos' \in Seq(Hilos) /\ SinRepetir(listos') /\ EnReady' = EnReady \cup {h}
      BY <1>2, <3>2, Agregar DEF Planificados, EnReady
    <3> QED
      BY <3>1, <3>3
  <2>4. Planificados'
    <3>1. \A h \in EnReady' : EnMarcha(h)'
      BY <1>2, <1>9, <2>2, <2>3 DEF Planificados
    <3>2. \A b \in bloqueados' : Corre(b[1])' /\ b[1] \notin EnReady'
      BY <1>1, <1>2, <1>9, <2>2, <2>3 DEF Planificados, Dormidos
    <3> QED
      BY <1>1, <1>2, <1>11, <2>3, <3>1, <3>2 DEF Planificados
  <2> QED
    BY <1>4, <1>5, <1>7, <1>8, <2>4 DEF Ind
<1> QED
  BY <1>10, <1>11

(* PROCESS_EXIT, and a segmentation fault. *)
LEMMA PasoFinalizarProceso ==
    ASSUME Ind, ~Solapadas, AvisarSegFault \/ EjecutarProcessExit
    PROVE  Ind'
<1>1. PICK n : n = Proceso(hilo)
  OBVIOUS
<1>2. /\ cpu \in {"avisar", "ejecutar"} /\ cpu' \in {"esperar", "chequear"} /\ caida = "no"
      /\ cpu' = "chequear" => instr.op = "PROCESS_EXIT"
      /\ Ocupadas = {} /\ terminados' = terminados \cup {n} /\ SinProceso(hilo[1])
      /\ estado_exec' = Nulo /\ Pedir("sts", "FINALIZAR_PROCESO", n)
      /\ UNCHANGED <<primero, siguiente, existe, caida, admitidos, lp, ultimo_tid, hilo, instr>>
  BY <1>1 DEF AvisarSegFault, EjecutarProcessExit, FinalizarProceso, Cpu, memSinTarea
<1>3. /\ n \in existe /\ n \in Procesos /\ n[1] = hilo[1] /\ n[1] < admitidos /\ n \notin Hilos
      /\ hilo \in Hilos /\ tarea["cpu"] = Libre /\ Planificados
  BY <1>1, <1>2, AlEjecutar, Nombres, DeInd
<1>4. /\ listos' \in Seq(Hilos) /\ SinRepetir(listos') /\ EnReady' \subseteq EnReady
      /\ bloqueados' \subseteq bloqueados
      /\ \A j \in EnReady' \cup Dormidos' : j # n /\ Proceso(j) # n
  BY <1>2, <1>3, AlQuitarProceso
<1>5. /\ MemTipo' /\ Enlazadas' /\ Tareas' /\ Separadas' /\ Admision' /\ Huerfanos'
      /\ Terminos' /\ Planificados' /\ tarea'["cpu"] = Libre
  <2>1. PICK k, op : k = "sts" /\ op = "FINALIZAR_PROCESO"
    OBVIOUS
  <2>2. k \in {"sts", "volcado"} /\ op \in Ops(k) /\ Pedir(k, op, n)
    BY <1>2, <2>1 DEF Ops, Bajas
  <2>3. n \in IF op = "FINALIZAR_PROCESO" THEN Procesos ELSE Hilos
    BY <1>3, <2>1
  <2>4. /\ cpu' \in {"esperar", "confirmar", "chequear"}
        /\ cpu' = "chequear" => instr'.op \in Salidas
        /\ estado_exec' \in {Nulo, estado_exec}
    BY <1>2 DEF Salidas
  <2> QED
    BY <1>2, <1>3, <1>4, <2>2, <2>3, <2>4, AlTerminar
<1>6. CpuBien' /\ Caidas'
  BY <1>2, <1>3, <1>5 DEF CpuBien, Caidas, Omite
<1> QED
  BY <1>5, <1>6 DEF Ind

(* THREAD_EXIT. *)
LEMMA PasoThreadExit ==
    ASSUME Ind, ~Solapadas, EjecutarThreadExit
    PROVE  Ind'
<1>1. PICK n : n = hilo
  OBVIOUS
<1>2. /\ cpu = "ejecutar" /\ cpu' = "confirmar" /\ caida = "no" /\ instr.op = "THREAD_EXIT"
      /\ Ocupadas = {} /\ terminados' = terminados \cup {n}
      /\ estado_exec' = Nulo /\ Pedir("sts", "FINALIZAR_HILO", n)
      /\ UNCHANGED <<primero, siguiente, existe, caida, admitidos, lp, listos, bloqueados,
                     ultimo_tid, hilo, instr>>
  BY <1>1 DEF EjecutarThreadExit, Cpu, memSinTarea
<1>3. /\ n \in existe /\ n \in Hilos /\ n[1] < admitidos /\ n[2] <= ultimo_tid[n[1]]
      /\ n \notin EnReady \cup Dormidos /\ tarea["cpu"] = Libre /\ Planificados
  BY <1>1, <1>2, AlEjecutar, DeInd
<1>4. /\ listos' \in Seq(Hilos) /\ SinRepetir(listos') /\ EnReady' \subseteq EnReady
      /\ bloqueados' \subseteq bloqueados
      /\ \A j \in EnReady' \cup Dormidos' : j # n /\ Proceso(j) # n
  <2>1. EnReady' = EnReady /\ Dormidos' = Dormidos
    BY <1>2 DEF EnReady, Dormidos
  <2>2. EnReady \cup Dormidos \subseteq Hilos
    BY <1>3 DEF Planificados, EnMarcha, Admitido, Corre, Dormidos
  <2>3. \A j \in Hilos : Proceso(j) # n
    BY <1>3, Nombres DEF Nodos
  <2> QED
    BY <1>2, <1>3, <2>1, <2>2, <2>3 DEF Planificados
<1>5. /\ MemTipo' /\ Enlazadas' /\ Tareas' /\ Separadas' /\ Admision' /\ Huerfanos'
      /\ Terminos' /\ Planificados' /\ tarea'["cpu"] = Libre
  <2>1. PICK k, op : k = "sts" /\ op = "FINALIZAR_HILO"
    OBVIOUS
  <2>2. k \in {"sts", "volcado"} /\ op \in Ops(k) /\ Pedir(k, op, n)
    BY <1>2, <2>1 DEF Ops, Bajas
  <2>3. n \in IF op = "FINALIZAR_PROCESO" THEN Procesos ELSE Hilos
    BY <1>3, <2>1
  <2>4. /\ cpu' \in {"esperar", "confirmar", "chequear"}
        /\ cpu' = "chequear" => instr'.op \in Salidas
        /\ estado_exec' \in {Nulo, estado_exec}
    BY <1>2 DEF Salidas
  <2> QED
    BY <1>2, <1>3, <1>4, <2>2, <2>3, <2>4, AlTerminar
<1>6. CpuBien' /\ Caidas'
  BY <1>1, <1>2, <1>3, <1>5 DEF CpuBien, Caidas
<1> QED
  BY <1>5, <1>6 DEF Ind
(* The last TID of a process grows.                                        *)
LEMMA CreceTid ==
    ASSUME Ind, NEW p \in Pids, p < admitidos, ultimo_tid[p] + 1 \in 0..MaxTid,
           ultimo_tid' = [ultimo_tid EXCEPT ![p] = @ + 1],
           UNCHANGED <<existe, admitidos, lp, terminados>>, tarea'["lp"] = tarea["lp"]
    PROVE  /\ Admision' /\ Terminos'
           /\ \A h : Admitido(h) => Admitido(h)'
<1>1. Admision /\ Terminos /\ existe \subseteq Nodos
  BY DeInd
<1>2. /\ ultimo_tid \in [Pids -> 0..MaxTid] /\ ultimo_tid' \in [Pids -> 0..MaxTid]
      /\ \A q \in Pids : ultimo_tid[q] <= ultimo_tid'[q] /\ ultimo_tid[q] \in Nat
      /\ \A q \in Pids \ {p} : ultimo_tid[q] = ultimo_tid'[q]
      /\ \A q \in Pids : ultimo_tid'[q] \in Nat
  BY <1>1, MemoriaAssumption DEF Admision
<1>3. \A h \in Hilos : h[1] \in Pids /\ h[2] \in Nat
  BY Nombres
<1>4. \A h \in Hilos : h[2] <= ultimo_tid[h[1]] => h[2] <= ultimo_tid'[h[1]]
  <2> SUFFICES ASSUME NEW h \in Hilos, h[2] <= ultimo_tid[h[1]]
               PROVE  h[2] <= ultimo_tid'[h[1]]
    OBVIOUS
  <2>1. PICK q \in Pids : q = h[1]
    BY <1>3
  <2>2. ultimo_tid[q] <= ultimo_tid'[q] /\ ultimo_tid[q] \in Nat /\ ultimo_tid'[q] \in Nat
    BY <1>2
  <2> QED
    BY <1>3, <2>1, <2>2
<1>5. Terminos'
  <2>1. Hilos \cap terminados' = Hilos \cap terminados
    OBVIOUS
  <2> QED
    BY <1>1, <1>4 DEF Terminos
<1>6. Admision'
  <2>1. \A q \in Pids : q >= admitidos' => ultimo_tid'[q] = 0
    <3>1. admitidos \in Nat /\ Pids \subseteq Nat
      BY DeInd DEF Pids
    <3> QED
      BY <1>1, <1>2, <3>1 DEF Admision
  <2>2. \A h \in existe' \cap Hilos : h[2] <= ultimo_tid'[h[1]]
    BY <1>1, <1>4 DEF Admision
  <2> QED
    BY <1>1, <1>2, <2>1, <2>2 DEF Admision, EnAlta
<1>7. \A h : Admitido(h) => Admitido(h)'
  BY <1>4 DEF Admitido, Terminado
<1> QED
  BY <1>5, <1>6, <1>7

(* THREAD_CREATE: the new thread has the last TID of its process. *)
LEMMA PasoThreadCreate ==
    ASSUME Ind, SinDobles', EjecutarThreadCreate
    PROVE  Ind'
<1>1. /\ MemTipo /\ Enlazadas /\ Tareas /\ Separadas /\ Admision /\ Huerfanos /\ Terminos
      /\ Planificados /\ CpuBien /\ Caidas
      /\ admitidos \in Nat /\ existe \subseteq Nodos
      /\ ~Finalizando <=> tarea["sts"] = Libre /\ tarea["volcado"] = Libre
  BY DeInd
<1> DEFINE Crea(k, n, p) ==
              /\ p = hilo[1] /\ n = <<p, ultimo_tid[p] + 1>> /\ n \in Hilos
              /\ cpu = "ejecutar" /\ cpu' = "chequear" /\ caida = "no" /\ instr.op = "THREAD_CREATE"
              /\ ultimo_tid' = [ultimo_tid EXCEPT ![p] = @ + 1]
              /\ listos' = Append(listos, n)
              /\ Pedir(k, "CREAR_HILO", n)
              /\ UNCHANGED <<primero, siguiente, existe, caida, admitidos, lp, bloqueados,
                         estado_exec, terminados, hilo, instr>>
<1>crea. PICK k \in Huerfanas : Crea(k, <<hilo[1], ultimo_tid[hilo[1]] + 1>>, hilo[1])
  BY DEF EjecutarThreadCreate, Cpu, memSinTarea
<1>nuevo. PICK n, p : n = <<hilo[1], ultimo_tid[hilo[1]] + 1>> /\ p = hilo[1]
  OBVIOUS
<1>2. Crea(k, n, p)
  BY <1>crea, <1>nuevo
<1>3. /\ Corre(hilo) /\ estado_exec = hilo /\ hilo \in Hilos /\ hilo # Nulo
      /\ Proceso(hilo) \in existe /\ p \in Pids /\ p < admitidos /\ hilo[2] <= ultimo_tid[p]
      /\ hilo \notin EnReady \cup Dormidos /\ ~Finalizando
      /\ tarea["cpu"] = Libre
  BY <1>2, AlEjecutar
<1>4. tarea["sts"] = Libre /\ tarea["volcado"] = Libre
  BY <1>1, <1>3
<1>5. PICK u \in Nat : u = ultimo_tid[p]
  BY <1>1, <1>3, MemoriaAssumption DEF Admision
<1>6. /\ n[1] = p /\ n[2] = u + 1 /\ n = <<p, u + 1>> /\ n \in Nodos /\ u + 1 \in 0..MaxTid
      /\ Proceso(n) = Proceso(hilo) /\ Lista(n) = Proceso(hilo) /\ Proceso(hilo) = <<p>>
      /\ ultimo_tid'[p] = u + 1 /\ \A q \in Pids \ {p} : ultimo_tid'[q] = ultimo_tid[q]
  <2>1. n[1] = p /\ n[2] = u + 1 /\ n \in Nodos /\ n = <<p, u + 1>>
    BY <1>2, <1>5 DEF Nodos
  <2>2. u + 1 \in 0..MaxTid
    BY <1>2, <2>1, Nombres
  <2>3. Proceso(n) = <<p>> /\ Proceso(hilo) = <<p>>
    BY <1>2, <2>1 DEF Proceso
  <2>4. Lista(n) = Proceso(n)
    BY <1>2, Nombres
  <2>5. ultimo_tid'[p] = u + 1 /\ \A q \in Pids \ {p} : ultimo_tid'[q] = ultimo_tid[q]
    BY <1>1, <1>2, <1>3, <1>5 DEF Admision
  <2> QED
    BY <2>1, <2>2, <2>3, <2>4, <2>5
<1>7. \A h \in Hilos : h[1] = p /\ h[2] <= ultimo_tid[p] => h # n
  BY <1>5, <1>6
<1>8. n \notin existe /\ \A m \in EnLista(Lista(n)) : Nro(m) < Nro(n)
  <2>1. n \notin existe
    BY <1>1, <1>2, <1>6, <1>7 DEF Admision
  <2>2. ASSUME NEW m \in EnLista(Lista(n))
        PROVE  Nro(m) < Nro(n)
    <3>1. m \in existe /\ m \in Nodos /\ Lista(m) = <<p>>
      BY <1>1, <1>6, <2>2 DEF EnLista
    <3>2. m \in Hilos
      <4>1. Len(<<p>>) = 1 /\ Len(<<>>) = 0
        OBVIOUS
      <4>2. m \notin Procesos
        BY <3>1, <4>1, Nombres
      <4> QED
        BY <3>1, <4>2, Nombres
    <3>3. m[1] = p
      <4>1. Proceso(m) = <<p>>
        BY <3>1, <3>2, Nombres
      <4> QED
        BY <4>1 DEF Proceso
    <3>4. m[2] <= u
      BY <1>1, <1>5, <3>1, <3>2, <3>3 DEF Admision
    <3>5. Nro(m) = m[2] /\ m[2] \in Nat /\ Nro(n) = u + 1
      BY <1>2, <1>6, <3>2, Nombres
    <3> QED
      BY <3>4, <3>5
  <2> QED
    BY <2>1, <2>2
<1>9. /\ MemTipo' /\ Enlazadas' /\ Tareas'
      /\ tarea'[k].op = "CREAR_HILO" /\ tarea'[k].nodo = n
      /\ \A j \in Atencion \ {k} : tarea'[j] = tarea[j]
  <2>1. k \in Atencion /\ "CREAR_HILO" \in Ops(k) /\ "CREAR_HILO" \in Altas
        /\ "CREAR_HILO" \notin Bajas
    <3>1. k \in Atencion /\ k \notin {"cpu", "lp", "sts", "volcado"} \cup Volcadores
      BY Atenciones
    <3> QED
      BY <3>1 DEF Ops, Altas, Bajas
  <2>2. PICK op : op = "CREAR_HILO"
    OBVIOUS
  <2> QED
    BY <1>1, <1>2, <1>3, <1>6, <1>8, <2>1, <2>2, AlPedir
<1>10. /\ "lp" # k /\ tarea'["lp"] = tarea["lp"]
       /\ tarea'["cpu"] = Libre /\ tarea'["sts"] = Libre /\ tarea'["volcado"] = Libre
       /\ Huerfanas \subseteq Atencion
  <2>1. {"cpu", "lp", "sts", "volcado"} \subseteq Atencion \ {k} /\ Huerfanas \subseteq Atencion
    BY Atenciones
  <2> QED
    BY <1>3, <1>4, <1>9, <2>1
<1>11. Admision' /\ Terminos' /\ \A h : Admitido(h) => Admitido(h)'
  BY <1>2, <1>3, <1>5, <1>6, <1>10, CreceTid
<1>12. ASSUME NEW j \in Huerfanas \ {k}, tarea[j].op = "CREAR_HILO"
       PROVE  tarea[j].nodo[1] # p /\ Lista(tarea[j].nodo) # <<p>>
  <2>1. tarea'[j] = tarea[j]
    BY <1>9, <1>10
  <2>2. Proceso(tarea'[j].nodo) # Proceso(tarea'[k].nodo)
    BY <1>9, <1>12, <2>1 DEF SinDobles
  <2>3. Proceso(tarea[j].nodo) # <<p>>
    BY <1>6, <1>9, <2>1, <2>2
  <2>4. Lista(tarea[j].nodo) = Proceso(tarea[j].nodo)
    <3>1. tarea[j].nodo \in Hilos
      BY <1>12, DeInd DEF Altas
    <3> QED
      BY <3>1, Nombres
  <2> QED
    BY <2>3, <2>4 DEF Proceso
<1>13. Separadas'
  <2>1. ASSUME NEW j \in Atencion \ {k}, tarea[j].op \in Altas
        PROVE  Lista(tarea[j].nodo) # <<p>>
    <3>1. CASE j \in Huerfanas
      BY <1>12, <2>1, <3>1, DeInd
    <3>2. CASE j \notin Huerfanas
      <4>a. j \notin {"cpu", "sts", "volcado"} \cup Volcadores
        BY <1>1, <2>1, Quietas
      <4>1. j = "lp"
        BY <3>2, <4>a, Atenciones
      <4>2. lp = "proceso" \/ lp = "hilo"
        <5>1. tarea["lp"] # Libre
          BY <2>1, <4>1, Libres
        <5> QED
          BY <1>1, <5>1 DEF Admision
      <4>3. tarea["lp"].op # "confirmado" /\ admitidos \in Pids
        BY <1>1, <2>1, <4>1, <4>2 DEF Altas, Admision, Pids
      <4>4. CASE lp = "proceso"
        <5>1. tarea["lp"].nodo = <<admitidos>> /\ <<admitidos>> \in Procesos
          BY <1>1, <4>3, <4>4 DEF Admision, Procesos
        <5>2. Lista(tarea["lp"].nodo) = <<>>
          BY <5>1, Nombres
        <5> QED
          BY <4>1, <5>2
      <4>5. CASE lp = "hilo"
        <5>1. PICK m : m = <<admitidos, 0>>
          OBVIOUS
        <5>4. m \in Hilos
          <6>1. 0 \in 0..MaxTid
            BY MemoriaAssumption
          <6> QED
            BY <4>3, <5>1, <6>1 DEF Hilos
        <5>2. tarea["lp"].nodo = m
          BY <1>1, <4>3, <4>5, <5>1 DEF Admision
        <5>3. Lista(m) = <<admitidos>>
          <6>1. m[1] = admitidos
            BY <5>1
          <6> QED
            BY <5>4, <6>1, Nombres DEF Proceso
        <5> QED
          BY <1>1, <1>3, <4>1, <5>2, <5>3
      <4> QED
        BY <4>2, <4>4, <4>5
    <3> QED
      BY <3>1, <3>2
  <2>2. \A j \in Atencion \ {k} : tarea'[j].op \in Altas => Lista(tarea'[j].nodo) # Lista(tarea'[k].nodo)
    BY <1>6, <1>9, <2>1
  <2> QED
    BY <1>1, <1>9, <1>10, <2>2 DEF Separadas
<1>14. ~Terminado(n)'
  <2>1. n \notin terminados
    BY <1>1, <1>2, <1>6, <1>7 DEF Terminos
  <2>2. Proceso(n) \notin terminados
    BY <1>3, <1>6 DEF Corre, Admitido, Terminado
  <2> QED
    BY <1>2, <2>1, <2>2 DEF Terminado
<1>15. Huerfanos'
  <2>1. Huerfano(k)'
    BY <1>2, <1>3, <1>6, <1>9, <1>14 DEF Huerfano
  <2>2. ASSUME NEW j \in Huerfanas \ {k}
        PROVE  Huerfano(j)'
    <3>1. tarea'[j] = tarea[j]
      BY <1>9, <1>10
    <3> SUFFICES ASSUME tarea[j].op = "CREAR_HILO"
                 PROVE  Huerfano(j)'
      BY <3>1 DEF Huerfano
    <3>2. PICK m : m = tarea[j].nodo
      OBVIOUS
    <3>3. m \in Hilos /\ m[1] \in Pids /\ m[1] # p
      BY <1>12, <3>2, DeInd, Nombres DEF Altas
    <3>4. m[1] < admitidos /\ m[2] = ultimo_tid[m[1]] /\ ~Terminado(m)
      BY <1>1, <3>2 DEF Huerfanos, Huerfano
    <3> QED
      BY <1>2, <1>6, <3>1, <3>2, <3>3, <3>4 DEF Huerfano, Terminado
  <2> QED
    BY <2>1, <2>2 DEF Huerfanos
<1>16. \A h : (EnMarcha(h) => EnMarcha(h)') /\ (Corre(h) => Corre(h)')
  <2>1. \A j \in Huerfanas : tarea[j].op = "CREAR_HILO" => tarea'[j] = tarea[j]
    <3>1. tarea[k].op # "CREAR_HILO"
      <4>1. tarea[k] = Libre
        BY <1>2 DEF Pedir
      <4> QED
        BY <4>1, Libres DEF Altas
    <3> QED
      BY <1>9, <1>10, <3>1
  <2>2. \A h : Nace(h) => Nace(h)'
    BY <2>1 DEF Nace
  <2> QED
    BY <1>2, <1>11, <2>2 DEF EnMarcha, Corre
<1>17. EnMarcha(n)'
  <2>1. Nace(n)'
    BY <1>9 DEF Nace
  <2>2. Admitido(n)'
    BY <1>2, <1>3, <1>6, <1>14 DEF Admitido
  <2> QED
    BY <2>1, <2>2 DEF EnMarcha
<1>18. n \notin EnReady \cup Dormidos /\ n # hilo
  <2>1. \A h : Admitido(h) => h # n
    BY <1>6, <1>7 DEF Admitido
  <2> QED
    BY <1>1, <1>3, <2>1 DEF Planificados, EnMarcha, Corre, Dormidos
<1>19. /\ listos' \in Seq(Hilos) /\ SinRepetir(listos') /\ EnReady' = EnReady \cup {n}
  BY <1>1, <1>2, <1>18, Agregar DEF Planificados, EnReady
<1>20. Planificados'
  <2>1. \A h \in EnReady' : EnMarcha(h)'
    BY <1>1, <1>16, <1>17, <1>19 DEF Planificados
  <2>2. \A b \in bloqueados' : Corre(b[1])' /\ b[1] \notin EnReady'
    BY <1>1, <1>2, <1>16, <1>18, <1>19 DEF Planificados, Dormidos
  <2>3. hilo \notin EnReady' \cup Dormidos'
    BY <1>2, <1>3, <1>18, <1>19 DEF Dormidos
  <2>4. hilo[1] < admitidos' /\ hilo[2] <= ultimo_tid'[hilo[1]]
    BY <1>3, <1>11 DEF Corre, Admitido
  <2> QED
    BY <1>1, <1>2, <1>3, <1>19, <2>1, <2>2, <2>3, <2>4 DEF Planificados
<1>21. CpuBien' /\ Caidas'
  BY <1>2, <1>3, <1>10, <1>16 DEF CpuBien, Caidas, Omite
<1> QED
  BY <1>9, <1>11, <1>13, <1>15, <1>20, <1>21 DEF Ind
-----------------------------------------------------------------------------
(* The invariant.                                                          *)

(* It holds at first. *)
LEMMA AlInicio ==
    ASSUME Init
    PROVE  Ind
<1>1. /\ primero = [l \in Listas |-> Nulo] /\ siguiente = [n \in Nodos |-> Nulo] /\ existe = {}
      /\ tarea = [k \in Atencion |-> Libre] /\ caida = "no"
      /\ admitidos = 0 /\ lp = "nada" /\ listos = <<>> /\ bloqueados = {} /\ estado_exec = Nulo
      /\ ultimo_tid = [p \in Pids |-> 0] /\ terminados = {}
      /\ cpu = "esperar" /\ hilo = Nulo
  BY DEF Init, MInit
<1>2. \A k \in Atencion : tarea[k] = Libre
  BY <1>1
<1>3. MemTipo
  BY <1>1, Libres DEF MemTipo
<1>4. Enlazadas
  <2>1. \A l : EnLista(l) = {}
    BY <1>1 DEF EnLista
  <2>2. <<>> \in Listas
    BY DEF Listas
  <2> QED
    BY <1>1, <2>1, <2>2 DEF Enlazadas, EsPrimero
<1>5. Tareas
  BY <1>2 DEF Tareas, TareaDe
<1>6. Separadas
  <2>1. Libre.op \notin Altas
    BY Libres
  <2> QED
    BY <1>2, <2>1, Atenciones DEF Separadas
<1>7. Admision
  <2>1. 0 \in 0..MaxPid + 1 /\ 0 \in 0..MaxTid
    BY MemoriaAssumption
  <2>2. tarea["lp"] = Libre
    BY <1>2, Atenciones
  <2> QED
    BY <1>1, <2>1, <2>2 DEF Admision, EnAlta
<1>8. Huerfanos
  BY <1>2, Libres, Atenciones DEF Huerfanos, Huerfano, Altas
<1>9. Terminos
  BY <1>1 DEF Terminos
<1>10. Planificados
  <2>1. listos \in Seq(Hilos) /\ SinRepetir(listos) /\ EnReady = {}
    <3>1. PICK e : e = <<>>
      OBVIOUS
    <3>2. e \in Seq(Hilos) /\ Len(e) = 0
      BY <3>1
    <3>3. SinRepetir(e)
      BY <3>2 DEF SinRepetir
    <3>4. ToSet(e) = {}
      BY <3>1, <3>2, Miembros
    <3> QED
      BY <1>1, <3>1, <3>2, <3>3, <3>4 DEF EnReady
  <2> QED
    BY <1>1, <2>1 DEF Planificados
<1>11. CpuBien
  BY <1>1, <1>2, Atenciones DEF CpuBien
<1>12. Caidas
  BY <1>1 DEF Caidas
<1> QED
  BY <1>3, <1>4, <1>5, <1>6, <1>7, <1>8, <1>9, <1>10, <1>11, <1>12 DEF Ind

(* It holds when nothing happens. *)
LEMMA AlParar ==
    ASSUME Ind, UNCHANGED vars
    PROVE  Ind'
<1>1. /\ UNCHANGED <<primero, siguiente, existe, ctx, memoria, tarea, caida, admitidos, lp,
                     listos, bloqueados, estado_exec, ultimo_tid, terminados, cpu, hilo,
                     contexto, instr>>
  BY DEF vars, memVars, kernelVars, cpuVars
<1>2. MemTipo' /\ Enlazadas' /\ Tareas'
  BY <1>1, DeInd, TareasIguales
<1>3. Separadas' /\ Admision' /\ Huerfanos' /\ Terminos' /\ Planificados' /\ CpuBien' /\ Caidas'
  <2>1. Separadas' /\ Terminos' /\ Caidas'
    BY <1>1, DeInd DEF Separadas, Terminos, Caidas
  <2>2. Admision'
    BY <1>1, DeInd, MismaAdmision
  <2>3. Huerfanos'
    BY <1>1, DeInd DEF Huerfanos, Huerfano, Terminado
  <2>4. \A j : (EnMarcha(j) => EnMarcha(j)') /\ (Corre(j) => Corre(j)')
    BY <1>1 DEF EnMarcha, Corre, Admitido, Terminado, Nace
  <2>5. Planificados'
    BY <1>1, <2>4, DeInd DEF Planificados, EnReady, Dormidos
  <2>6. CpuBien'
    BY <1>1, <2>4, DeInd DEF CpuBien, Pide, Omite, Entregado, EnReady
  <2> QED
    BY <2>1, <2>2, <2>3, <2>5, <2>6
<1> QED
  BY <1>2, <1>3 DEF Ind

(* The steps of the CPU preserve it. *)
LEMMA PasoDeCpu ==
    ASSUME Ind, ~Solapadas, SinDobles', PasoCpu
    PROVE  Ind'
<1>1. CASE RecibirContexto
  BY <1>1, PasoRecibirContexto
<1>2. CASE PedirInstruccion
  BY <1>2, PasoPedirInstruccion
<1>3. CASE RecibirInstruccion
  BY <1>3, PasoRecibirInstruccion
<1>4. CASE EjecutarCalculo \/ EjecutarAcceso
  BY <1>4, PasoSinPedir
<1>5. CASE EjecutarIO
  BY <1>5, PasoIO
<1>6. CASE EjecutarSegFault \/ EjecutarDump
  BY <1>6, PasoGuardar
<1>7. CASE ActualizarSegFault \/ ActualizarDump
  BY <1>7, PasoActualizar
<1>8. CASE AvisarSegFault \/ EjecutarProcessExit
  BY <1>8, PasoFinalizarProceso
<1>9. CASE EjecutarThreadExit
  BY <1>9, PasoThreadExit
<1>10. CASE EjecutarThreadCreate
  BY <1>10, PasoThreadCreate
<1>11. CASE PedirDump
  BY <1>11, PasoPedirDump
<1>12. CASE Chequear(TRUE) \/ Chequear(FALSE)
  <2>1. PICK hay \in BOOLEAN : Chequear(hay)
    BY <1>12
  <2> QED
    BY <2>1, PasoChequear
<1>13. CASE Salir
  BY <1>13, PasoSalir
<1> QED
  BY <1>1, <1>2, <1>3, <1>4, <1>5, <1>6, <1>7, <1>8, <1>9, <1>10, <1>11, <1>12, <1>13
  DEF PasoCpu

(* Every step preserves it. *)
LEMMA PasoInd ==
    ASSUME Ind, ~Solapadas, SinDobles', [Next]_vars
    PROVE  Ind'
<1>1. CASE PasoKernel
  <2>1. CASE LpCrearProceso
    BY <2>1, PasoLpCrearProceso
  <2>2. CASE LpConfirmado
    BY <2>2, PasoLpConfirmado
  <2>3. CASE LpCrearHilo
    BY <2>3, PasoLpCrearHilo
  <2>4. ASSUME NEW k \in Atencion, StsConfirmado(k)
        PROVE  Ind'
    BY <2>4, PasoStsConfirmado
  <2> QED
    BY <1>1, <2>1, <2>2, <2>3, <2>4 DEF PasoKernel
<1>2. CASE Despachar
  BY <1>2, PasoDespachar
<1>3. CASE PasoCpu
  BY <1>3, PasoDeCpu
<1>4. ASSUME NEW h \in Hilos, NEW motivo \in {"IO", "DUMP_MEMORY"}, Despertar(h, motivo)
      PROVE  Ind'
  <2>1. motivo \in Motivos
    BY DEF Motivos
  <2> QED
    BY <1>4, <2>1, PasoDespertar
<1>5. ASSUME NEW h \in Hilos, VolcadoFallido(h)
      PROVE  Ind'
  BY <1>5, PasoVolcadoFallido
<1>6. ASSUME NEW k \in Atencion, PasoMemoria(k), UNCHANGED <<kernelVars, cpuVars>>
      PROVE  Ind'
  BY <1>6, PasoDeMemoria
<1>7. CASE UNCHANGED vars
  BY <1>7, AlParar
<1> QED
  BY <1>1, <1>2, <1>3, <1>4, <1>5, <1>6, <1>7 DEF Next

(* While no finalisation overlaps with other requests and no process has   *)
(* two threads being created at once, every reachable state satisfies the  *)
(* invariant of the lists, the handlers, the planner and the CPU.          *)
THEOREM Invariante ==
    ASSUME ~Solapadas
    PROVE  Spec /\ []SinDobles => []Ind
<1>1. Init => Ind
  BY AlInicio
<1>2. Ind /\ SinDobles' /\ [Next]_vars => Ind'
  BY PasoInd
<1> QED
  BY <1>1, <1>2, PTL DEF Spec

(* The types of the memory's lists and handlers. *)
THEOREM Tipos ==
    ASSUME ~Solapadas
    PROVE  Spec /\ []SinDobles => []MemTipo
<1>1. Ind => MemTipo
  BY DEF Ind
<1> QED
  BY <1>1, Invariante, PTL
-----------------------------------------------------------------------------
(* The lists hold what was created in them and not finalised.              *)

Ordenada(s) == \A i, j \in 1..Len(s) : i < j => Nro(s[i]) < Nro(s[j])

(* The nodes of a list, in order. *)
LEMMA Ordenados ==
    ASSUME Enlazadas, NEW l \in Listas
    PROVE  \E s \in Seq(Nodos) : Ordenada(s) /\ ToSet(s) = EnLista(l)
<1> DEFINE Hasta_(n) == {m \in EnLista(l) : Nro(m) < n}
           P == {n \in Nat : \E s \in Seq(Nodos) : Ordenada(s) /\ ToSet(s) = Hasta_(n)}
<1>1. EnLista(l) \subseteq Nodos /\ \A m \in EnLista(l) : Lista(m) = l /\ Nro(m) \in Nat
  BY Nombres DEF Enlazadas, EnLista
<1>2. 0 \in P
  <2>1. PICK e : e = <<>>
    OBVIOUS
  <2>2. e \in Seq(Nodos) /\ Len(e) = 0
    BY <2>1
  <2>3. ToSet(e) = {} /\ Ordenada(e)
    <3>1. ToSet(e) = {}
      BY <2>1, <2>2, Miembros
    <3>2. Ordenada(e)
      BY <2>2 DEF Ordenada
    <3> QED
      BY <3>1, <3>2
  <2>4. Hasta_(0) = {}
    BY <1>1
  <2> QED
    BY <2>2, <2>3, <2>4
<1>3. ASSUME NEW n \in Nat, n \in P
      PROVE  n + 1 \in P
  <2>1. PICK s \in Seq(Nodos) : Ordenada(s) /\ ToSet(s) = Hasta_(n)
    BY <1>3
  <2>2. CASE \E m \in EnLista(l) : Nro(m) = n
    <3>1. PICK m \in EnLista(l) : Nro(m) = n
      BY <2>2
    <3>2. \A j \in EnLista(l) : Nro(j) = n => j = m
      BY <1>1, <3>1, Nombres
    <3>3. Hasta_(n + 1) = Hasta_(n) \cup {m}
      BY <1>1, <3>1, <3>2
    <3>4. PICK t : t = Append(s, m)
      OBVIOUS
    <3>5. /\ t \in Seq(Nodos) /\ ToSet(t) = ToSet(s) \cup {m}
          /\ Len(t) = Len(s) + 1 /\ t[Len(t)] = m
          /\ \A i \in 1..Len(s) : t[i] = s[i] /\ s[i] \in Hasta_(n)
          /\ Len(s) \in Nat
      BY <1>1, <2>1, <3>1, <3>4, Agregar, AppendProperties, Miembros
    <3>6. Ordenada(t)
      <4> SUFFICES ASSUME NEW i \in 1..Len(t), NEW j \in 1..Len(t), i < j
                   PROVE  Nro(t[i]) < Nro(t[j])
        BY DEF Ordenada
      <4>1. i \in 1..Len(s) /\ t[i] = s[i] /\ Nro(s[i]) < n
        BY <3>5
      <4>2. CASE j = Len(t)
        BY <3>1, <3>5, <4>1, <4>2
      <4>3. CASE j # Len(t)
        <5>1. j \in 1..Len(s) /\ t[j] = s[j]
          BY <3>5, <4>3
        <5> QED
          BY <2>1, <4>1, <5>1 DEF Ordenada
      <4> QED
        BY <4>2, <4>3
    <3> QED
      BY <2>1, <3>3, <3>5, <3>6
  <2>3. CASE ~ \E m \in EnLista(l) : Nro(m) = n
    <3>1. Hasta_(n + 1) = Hasta_(n)
      BY <1>1, <2>3
    <3> QED
      BY <2>1, <3>1
  <2> QED
    BY <2>2, <2>3
<1> HIDE DEF P
<1>4. PICK N \in Nat : N = MaxPid + MaxTid + 1
  BY MemoriaAssumption
<1>5. N \in P
  BY <1>2, <1>3, Induccion
<1>6. Hasta_(N) = EnLista(l)
  <2>1. \A m \in Nodos : Nro(m) < N
    <3>1. \A m \in Procesos : Nro(m) \in 0..MaxPid
      BY Nombres DEF Pids
    <3>2. \A m \in Hilos : Nro(m) \in 0..MaxTid
      BY Nombres
    <3> QED
      BY <1>4, <3>1, <3>2, MemoriaAssumption DEF Nodos
  <2> QED
    BY <1>1, <2>1
<1> QED
  BY <1>5, <1>6 DEF P

(* Ordered, the sequence has one position for each node. *)
LEMMA Enumera ==
    ASSUME NEW s \in Seq(Nodos), Ordenada(s)
    PROVE  s \in SetToSeqs(ToSet(s))
<1>0. Len(s) \in Nat
  OBVIOUS
<1>1. PICK S, n : S = ToSet(s) /\ n = Len(s) /\ n \in Nat
  BY <1>0
<1>2. s \in [1..n -> S] /\ S = {s[i] : i \in 1..n} /\ \A i \in 1..n : Nro(s[i]) \in Nat
  <2>1. \A i \in 1..Len(s) : s[i] \in Nodos
    OBVIOUS
  <2> QED
    BY <1>1, <2>1, Miembros, Nombres
<1>3. \A i, j \in 1..n : i # j => s[i] # s[j]
  <2> SUFFICES ASSUME NEW i \in 1..n, NEW j \in 1..n, i # j, s[i] = s[j]
               PROVE  FALSE
    OBVIOUS
  <2>1. i < j \/ j < i
    OBVIOUS
  <2>2. Nro(s[i]) < Nro(s[j]) \/ Nro(s[j]) < Nro(s[i])
    BY <1>1, <2>1 DEF Ordenada
  <2> QED
    BY <1>2, <2>2
<1>4. s \in Bijection(1..n, S)
  BY <1>2, <1>3 DEF Bijection, Injection, Surjection, IsInjective
<1>5. Cardinality(S) = n
  <2>1. IsFiniteSet(1..n) /\ Cardinality(1..n) = n
    <3>1. IsFiniteSet(1..n) /\ Cardinality(1..n) = IF 1 > n THEN 0 ELSE n - 1 + 1
      <4>1. 1 \in Int /\ n \in Int
        BY <1>1
      <4> QED
        BY <4>1, FS_Interval
    <3>2. n \in Nat => (IF 1 > n THEN 0 ELSE n - 1 + 1) = n
      OBVIOUS
    <3> QED
      BY <1>1, <3>1, <3>2
  <2>2. ExistsBijection(1..n, S)
    BY <1>4 DEF ExistsBijection
  <2> QED
    BY <2>1, <2>2, FS_Bijection
<1> QED
  BY <1>1, <1>2, <1>3, <1>5 DEF SetToSeqs

(* The first of a set is only one. *)
LEMMA UnPrimero ==
    ASSUME NEW l \in Listas, NEW S \in SUBSET Nodos, \A m \in S : Lista(m) = l,
           NEW x, NEW y, EsPrimero(x, S), EsPrimero(y, S)
    PROVE  x = y
<1>1. CASE S = {}
  BY <1>1 DEF EsPrimero
<1>2. CASE S # {}
  <2>1. x \in S /\ y \in S /\ Nro(x) <= Nro(y) /\ Nro(y) <= Nro(x)
    BY <1>2 DEF EsPrimero
  <2>2. Nro(x) = Nro(y)
    BY <2>1, Nombres
  <2> QED
    BY <2>1, <2>2, Nombres
<1> QED
  BY <1>1, <1>2

(* A walk from the head of a list visits all of it. *)
LEMMA Recorrida ==
    ASSUME Enlazadas, NEW l \in {<<>>} \cup (existe \cap Procesos)
    PROVE  \E s \in SetToSeqs({n \in existe : Lista(n) = l}) : Visita(l, s)
<1>1. l \in Listas
  BY DEF Listas
<1>2. PICK s \in Seq(Nodos) : Ordenada(s) /\ ToSet(s) = EnLista(l)
  BY <1>1, Ordenados
<1>3. s \in SetToSeqs(EnLista(l))
  BY <1>2, Enumera
<1>4. /\ Len(s) \in Nat /\ EnLista(l) \subseteq Nodos
      /\ \A m \in EnLista(l) : Lista(m) = l /\ Nro(m) \in Nat /\ m \in existe
      /\ EnLista(l) = {s[i] : i \in 1..Len(s)}
      /\ s = <<>> <=> EnLista(l) = {}
  BY <1>2, Miembros, Nombres DEF Enlazadas, EnLista
<1>5. primero[l] = IF s = <<>> THEN Nulo ELSE s[1]
  <2>1. EsPrimero(primero[l], EnLista(l))
    BY DEF Enlazadas
  <2>2. CASE s = <<>>
    BY <1>4, <2>1, <2>2 DEF EsPrimero
  <2>3. CASE s # <<>>
    <3>1. Len(s) # 0
      BY <2>3
    <3>2. \A i \in 1..Len(s) : Nro(s[1]) <= Nro(s[i])
      <4> SUFFICES ASSUME NEW i \in 1..Len(s), i # 1
                   PROVE  Nro(s[1]) < Nro(s[i])
        BY <1>4, <3>1
      <4>1. 1 \in 1..Len(s) /\ 1 < i
        BY <1>4, <3>1
      <4> QED
        BY <1>2, <4>1 DEF Ordenada
    <3>3. EsPrimero(s[1], EnLista(l))
      BY <1>4, <3>1, <3>2 DEF EsPrimero
    <3> QED
      BY <1>1, <1>4, <2>1, <2>3, <3>3, UnPrimero
  <2> QED
    BY <2>2, <2>3
<1>6. ASSUME NEW i \in 1..Len(s)
      PROVE  siguiente[s[i]] = IF i = Len(s) THEN Nulo ELSE s[i + 1]
  <2>1. PICK n \in EnLista(l) : n = s[i]
    BY <1>4
  <2>2. Mayores(n) = {m \in EnLista(l) : Nro(n) < Nro(m)} /\ n \in existe
    BY <1>4 DEF Mayores
  <2>3. EsPrimero(siguiente[n], Mayores(n))
    BY <2>2 DEF Enlazadas
  <2>4. \A j \in 1..Len(s) : s[j] \in Mayores(n) <=> i < j
    <3> SUFFICES ASSUME NEW j \in 1..Len(s)
                 PROVE  Nro(s[i]) < Nro(s[j]) <=> i < j
      BY <1>4, <2>1, <2>2
    <3>1. j < i => Nro(s[j]) < Nro(s[i])
      BY <1>2 DEF Ordenada
    <3>2. i < j => Nro(s[i]) < Nro(s[j])
      BY <1>2 DEF Ordenada
    <3>3. Nro(s[i]) \in Nat /\ Nro(s[j]) \in Nat
      BY <1>4
    <3> QED
      BY <3>1, <3>2, <3>3
  <2>5. CASE i = Len(s)
    <3>1. Mayores(n) = {}
      BY <1>4, <2>2, <2>4, <2>5
    <3> QED
      BY <2>1, <2>3, <2>5, <3>1 DEF EsPrimero
  <2>6. CASE i # Len(s)
    <3>1. i + 1 \in 1..Len(s) /\ s[i + 1] \in Mayores(n)
      BY <1>4, <2>4, <2>6
    <3>2. \A m \in Mayores(n) : Nro(s[i + 1]) <= Nro(m)
      <4> SUFFICES ASSUME NEW m \in Mayores(n)
                   PROVE  Nro(s[i + 1]) <= Nro(m)
        OBVIOUS
      <4>1. PICK j \in 1..Len(s) : m = s[j]
        BY <1>4, <2>2
      <4>2. i < j
        BY <2>4, <4>1
      <4>3. i + 1 < j => Nro(s[i + 1]) < Nro(s[j])
        BY <1>2, <3>1 DEF Ordenada
      <4>4. Nro(s[i + 1]) \in Nat /\ Nro(s[j]) \in Nat
        BY <1>4, <3>1
      <4>5. i + 1 = j \/ i + 1 < j
        BY <4>2
      <4> QED
        BY <4>1, <4>3, <4>4, <4>5
    <3>3. EsPrimero(s[i + 1], Mayores(n))
      BY <3>1, <3>2 DEF EsPrimero
    <3>4. Mayores(n) \in SUBSET Nodos /\ \A m \in Mayores(n) : Lista(m) = l
      BY <1>4, <2>2
    <3>5. siguiente[n] = s[i + 1]
      BY <1>1, <2>3, <3>3, <3>4, UnPrimero
    <3> QED
      BY <2>1, <2>6, <3>5
  <2> QED
    BY <2>5, <2>6
<1>7. Visita(l, s)
  BY <1>5, <1>6 DEF Visita
<1> QED
  BY <1>3, <1>7 DEF EnLista

(* No node is lost, repeated or left in a list after it was freed, however *)
(* the walks of the handlers interleave (manejo-estructuras.c): a walk     *)
(* from the head visits exactly the nodes created and not finalised.       *)
THEOREM ListasSiempreCompletas ==
    ASSUME ~Solapadas
    PROVE  Spec /\ []SinDobles => []ListasCompletas
<1>1. Ind => ListasCompletas
  <2> SUFFICES ASSUME Ind
               PROVE  ListasCompletas
    OBVIOUS
  <2>1. Enlazadas
    BY DEF Ind
  <2>2. \A h \in existe \cap Hilos : Proceso(h) \in existe
    BY <2>1 DEF Enlazadas
  <2>3. \A l \in {<<>>} \cup (existe \cap Procesos) :
            \E s \in SetToSeqs({n \in existe : Lista(n) = l}) : Visita(l, s)
    BY <2>1, Recorrida
  <2> QED
    BY <2>2, <2>3 DEF ListasCompletas
<1> QED
  BY <1>1, Invariante, PTL

(* With one thread of the memory for the creations, no hypothesis is left  *)
(* on the behaviour.                                                       *)
LEMMA ConUnaHuerfana ==
    ASSUME NEW c, Huerfanas = {c}
    PROVE  []SinDobles
<1>1. SinDobles
  BY DEF SinDobles
<1> QED
  BY <1>1, PTL

(* The lists, without the hypothesis on the creations. *)
COROLLARY ListasConUnaHuerfana ==
    ASSUME ~Solapadas, NEW c, Huerfanas = {c}
    PROVE  Spec => []ListasCompletas
<1>1. []SinDobles
  BY ConUnaHuerfana
<1> QED
  BY <1>1, ListasSiempreCompletas, PTL
-----------------------------------------------------------------------------
(* The only fall of the memory. *)

(* No program goes past the end of the memory: mmu lets an access start at *)
(* the limit of the partition (cpu/src/main.c:566).                        *)
EnSuMemoria == cpu = "ejecutar" => ~FueraDeMemoria(contexto, instr)

(* Only an access past the end causes that fall. *)
LEMMA CausaDeCaida ==
    ASSUME Ind, EnSuMemoria, caida # "fuera_de_memoria", [Next]_vars
    PROVE  caida' # "fuera_de_memoria"
<1>1. CASE PasoKernel
  BY <1>1 DEF PasoKernel, LpCrearProceso, LpConfirmado, LpCrearHilo, StsConfirmado, memSinTarea
<1>2. CASE Despachar
  BY <1>2 DEF Despachar, memSinTarea
<1>3. CASE PasoCpu
  <2>1. CASE RecibirContexto \/ RecibirInstruccion \/ ActualizarSegFault \/ ActualizarDump \/ Salir
    BY <2>1 DEF RecibirContexto, RecibirInstruccion, ActualizarSegFault, ActualizarDump, Salir,
                Actualizar, Servida
  <2>2. CASE PedirInstruccion \/ EjecutarSegFault \/ AvisarSegFault \/ EjecutarProcessExit
             \/ EjecutarThreadExit \/ EjecutarThreadCreate \/ EjecutarDump \/ PedirDump
    BY <2>2 DEF PedirInstruccion, EjecutarSegFault, AvisarSegFault, EjecutarProcessExit,
                EjecutarThreadExit, EjecutarThreadCreate, EjecutarDump, PedirDump, memSinTarea
  <2>3. CASE EjecutarCalculo \/ EjecutarIO
    BY <2>3 DEF EjecutarCalculo, EjecutarIO, memVars
  <2>4. CASE EjecutarAcceso
    BY <2>4 DEF EjecutarAcceso, Cpu, EnSuMemoria
  <2>5. CASE Chequear(TRUE) \/ Chequear(FALSE)
    BY <2>5 DEF Chequear, memSinTarea
  <2> QED
    BY <1>3, <2>1, <2>2, <2>3, <2>4, <2>5 DEF PasoCpu
<1>4. ASSUME NEW h \in Hilos, NEW motivo \in {"IO", "DUMP_MEMORY"}, Despertar(h, motivo)
      PROVE  caida' # "fuera_de_memoria"
  BY <1>4 DEF Despertar, memVars
<1>5. ASSUME NEW h \in Hilos, VolcadoFallido(h)
      PROVE  caida' # "fuera_de_memoria"
  BY <1>5 DEF VolcadoFallido, memSinTarea
<1>6. ASSUME NEW k \in Atencion, PasoMemoria(k)
      PROVE  caida' # "fuera_de_memoria"
  <2>1. CASE Entrar(k)
    BY <2>1 DEF Entrar, Caer
  <2>2. CASE Avanzar(k)
    BY <2>2 DEF Avanzar, Caer
  <2>3. CASE Enlazar(k)
    BY <2>3 DEF Enlazar, Caer
  <2>4. CASE VaciarHilos(k)
    BY <2>4 DEF VaciarHilos, Caer
  <2>5. CASE Desenlazar(k)
    BY <2>5 DEF Desenlazar, Caer
  <2>6. CASE Volcar(k)
    BY <2>6 DEF Volcar, Caer
  <2> QED
    BY <1>6, <2>1, <2>2, <2>3, <2>4, <2>5, <2>6 DEF PasoMemoria
<1>7. CASE UNCHANGED vars
  BY <1>7 DEF vars, memVars
<1> QED
  BY <1>1, <1>2, <1>3, <1>4, <1>5, <1>6, <1>7 DEF Next

(* The other fall is of a thread that nobody finalised. *)
LEMMA CaidaDeInd ==
    ASSUME Ind, caida # "fuera_de_memoria"
    PROVE  SinCaida
<1>1. Caidas /\ CpuBien
  BY DEF Ind
<1>2. caida = "hilo_sin_crear" => ~Terminado(hilo)
  BY <1>1 DEF Caidas, CpuBien, EnMarcha, Admitido
<1> QED
  BY <1>1, <1>2 DEF Caidas, SinCaida

(* The memory finds what it is asked for, by the CPU and by the dumps,     *)
(* while others append to the same lists and no finalisation overlaps with *)
(* a walk: it only falls on a thread that the kernel dispatched before it  *)
(* was created, and that nobody finalised (syscalls.c:103).                *)
THEOREM SiempreSinCaida ==
    ASSUME ~Solapadas
    PROVE  Spec /\ []SinDobles /\ []EnSuMemoria => []SinCaida
<1>1. Init => caida # "fuera_de_memoria"
  BY DEF Init, MInit
<1>2. Ind /\ EnSuMemoria /\ caida # "fuera_de_memoria" /\ [Next]_vars
        => (caida # "fuera_de_memoria")'
  BY CausaDeCaida
<1>3. Ind /\ caida # "fuera_de_memoria" => SinCaida
  BY CaidaDeInd
<1>4. Spec /\ []SinDobles => []Ind
  BY Invariante
<1> QED
  BY <1>1, <1>2, <1>3, <1>4, PTL DEF Spec
-----------------------------------------------------------------------------
(* The words of the registers.                                             *)

(* What a program may be: its instructions name registers and numbers, it  *)
(* does not write Base nor Limite (the code lets it, and loses what it     *)
(* writes: MCCpuMemoriaLimite.cfg), and its lines fit in a word.           *)
Escribibles == Registros \ {"Base", "Limite"}

BienFormada(i) ==
    /\ i.op = "SET" => i.a \in Escribibles /\ i.b \in Int
    /\ i.op \in {"SUM", "SUB", "READ_MEM"} => i.a \in Escribibles /\ i.b \in Registros
    /\ i.op = "JNZ" => i.a \in Registros /\ i.b \in Int
    /\ i.op = "WRITE_MEM" => i.a \in Registros /\ i.b \in Registros

ProgramasCorrectos ==
    /\ \A h \in Hilos :
          /\ Len(Programa(h)) \in 0..Palabra - 1
          /\ \A j \in 1..Len(Programa(h)) : BienFormada(Programa(h)[j])
    /\ \A p \in Pids : Base(p) \in Nat /\ Limite(p) \in Nat

(* The weights of the bytes of a word are positive. *)
LEMMA Pesos ==
    /\ \A k \in 0..Ancho : Peso[k] \in Nat \ {0}
    /\ Palabra \in Nat \ {0}
<1> DEFINE V == Nat \ {0}
           Recorre(g) == g = [k \in 0..Ancho |-> IF k = 0 THEN 1 ELSE Byte * g[k - 1]]
           peso == CHOOSE g : Recorre(g)
           paso == [u \in V |-> [i \in Nat |-> Byte * u]]
<1>1. Peso = peso
  BY Zenon DEF Peso
<1>2. Ancho \in Nat /\ Byte \in Nat \ {0}
  BY InstruccionesAssumption
<1>3. \A u \in V : Byte * u \in V
  BY <1>2
<1>4. 1 \in V /\ paso \in [V -> [Nat -> V]]
  BY <1>3
<1>5. \E g : Recorre(g)
  <2>1. \A u \in V : \A i \in 1..Ancho : paso[u][i] = Byte * u
    BY <1>2
  <2> HIDE DEF V, paso
  <2>2. PICK f \in [0..Ancho -> V] : f[0] = 1 /\ \A i \in 1..Ancho : f[i] = paso[f[i - 1]][i]
    <3>1. Iteradas(V, 1, paso, Ancho) # {}
      BY <1>2, <1>4, Recurrencia
    <3>2. PICK f \in Iteradas(V, 1, paso, Ancho) : TRUE
      BY <3>1
    <3> QED
      BY <3>2 DEF Iteradas
  <2>3. \A i \in 1..Ancho : f[i] = Byte * f[i - 1]
    <3> SUFFICES ASSUME NEW i \in 1..Ancho
                 PROVE  f[i] = Byte * f[i - 1]
      OBVIOUS
    <3>1. i - 1 \in 0..Ancho /\ f[i - 1] \in V
      BY <1>2
    <3> QED
      BY <2>1, <2>2, <3>1
  <2>4. \A i \in 0..Ancho : f[i] = IF i = 0 THEN 1 ELSE Byte * f[i - 1]
    BY <1>2, <2>2, <2>3
  <2>5. Recorre(f)
    BY <2>4
  <2> HIDE DEF Recorre
  <2> QED
    BY <2>5
<1>6. Recorre(peso)
  BY <1>5, Zenon
<1> HIDE DEF peso
<1>7. peso[0] = 1 /\ \A k \in 1..Ancho : peso[k] = Byte * peso[k - 1]
  <2>1. \A k \in 0..Ancho : peso[k] = IF k = 0 THEN 1 ELSE Byte * peso[k - 1]
    BY <1>6
  <2> QED
    BY <1>2, <2>1
<1> DEFINE P == {n \in Nat : n <= Ancho => peso[n] \in V}
<1>8. 0 \in P
  BY <1>4, <1>7
<1>9. ASSUME NEW n \in Nat, n \in P
      PROVE  n + 1 \in P
  <2> SUFFICES ASSUME n + 1 <= Ancho
               PROVE  peso[n + 1] \in V
    OBVIOUS
  <2>1. peso[n] \in V /\ n + 1 \in 1..Ancho /\ (n + 1) - 1 = n
    BY <1>2, <1>9
  <2>2. peso[n + 1] = Byte * peso[n]
    BY <1>7, <2>1
  <2> QED
    BY <1>3, <2>1, <2>2
<1> HIDE DEF P
<1>10. \A n \in Nat : n \in P
  BY <1>8, <1>9, Induccion
<1>11. \A k \in 0..Ancho : peso[k] \in V
  BY <1>2, <1>10 DEF P
<1> QED
  BY <1>1, <1>2, <1>11 DEF Palabra

(* A word read from the memory is a number. *)
LEMMA Leido ==
    ASSUME NEW mem \in [0..TAM_MEMORIA - 1 -> Int], NEW d \in Nat, d + Ancho <= TAM_MEMORIA
    PROVE  leer_memoria(mem, d) \in Int
<1> DEFINE Suma(u, k) == u + mem[d + k - 1] * Peso[k - 1]
           Recorre(g) == g = [k \in 0..Ancho |-> IF k = 0 THEN 0 ELSE Suma(g[k - 1], k)]
           leido == CHOOSE g : Recorre(g)
           paso == [u \in Int |-> [i \in Nat |-> IF i \in 1..Ancho THEN Suma(u, i) ELSE u]]
<1>1. leer_memoria(mem, d) = leido[Ancho]
  <2>1. leer_memoria(mem, d) =
            LET f == CHOOSE g : g = [k \in 0..Ancho |->
                        IF k = 0 THEN 0 ELSE g[k - 1] + mem[d + k - 1] * Peso[k - 1]]
            IN  f[Ancho]
    BY Zenon DEF leer_memoria
  <2> QED
    BY <2>1, Zenon
<1>2. Ancho \in Nat /\ TAM_MEMORIA \in Int
  BY Pesos, InstruccionesAssumption
<1>3. \A u \in Int, k \in 1..Ancho : Suma(u, k) \in Int
  <2> SUFFICES ASSUME NEW u \in Int, NEW k \in 1..Ancho
               PROVE  Suma(u, k) \in Int
    OBVIOUS
  <2>1. d + k - 1 \in 0..TAM_MEMORIA - 1 /\ k - 1 \in 0..Ancho
    BY <1>2
  <2>2. mem[d + k - 1] \in Int /\ Peso[k - 1] \in Int
    BY <2>1, Pesos
  <2>3. \A x, y, z \in Int : x + y * z \in Int
    OBVIOUS
  <2> QED
    BY <2>2, <2>3
<1> HIDE DEF Suma
<1>4. 0 \in Int /\ paso \in [Int -> [Nat -> Int]]
  BY <1>3
<1>5. \E g : Recorre(g) /\ g \in [0..Ancho -> Int]
  <2>1. \A u \in Int : \A i \in 1..Ancho : paso[u][i] = Suma(u, i)
    BY <1>2
  <2> HIDE DEF paso
  <2>2. PICK f \in [0..Ancho -> Int] : f[0] = 0 /\ \A i \in 1..Ancho : f[i] = paso[f[i - 1]][i]
    <3>1. Iteradas(Int, 0, paso, Ancho) # {}
      BY <1>2, <1>4, Recurrencia
    <3>2. PICK f \in Iteradas(Int, 0, paso, Ancho) : TRUE
      BY <3>1
    <3> QED
      BY <3>2 DEF Iteradas
  <2>3. \A i \in 1..Ancho : f[i] = Suma(f[i - 1], i)
    <3> SUFFICES ASSUME NEW i \in 1..Ancho
                 PROVE  f[i] = Suma(f[i - 1], i)
      OBVIOUS
    <3>1. i - 1 \in 0..Ancho /\ f[i - 1] \in Int
      BY <1>2
    <3> QED
      BY <2>1, <2>2, <3>1
  <2>4. \A i \in 0..Ancho : f[i] = IF i = 0 THEN 0 ELSE Suma(f[i - 1], i)
    BY <1>2, <2>2, <2>3
  <2>5. Recorre(f)
    BY <2>4
  <2> HIDE DEF Recorre
  <2> QED
    BY <2>5
<1>6. Recorre(leido)
  BY <1>5, Zenon
<1> HIDE DEF leido
<1>7. leido[0] = 0 /\ \A k \in 1..Ancho : leido[k] = Suma(leido[k - 1], k)
  <2>1. \A k \in 0..Ancho : leido[k] = IF k = 0 THEN 0 ELSE Suma(leido[k - 1], k)
    BY <1>6
  <2> QED
    BY <1>2, <2>1
<1> DEFINE P == {n \in Nat : n <= Ancho => leido[n] \in Int}
<1>8. 0 \in P
  BY <1>7
<1>9. ASSUME NEW n \in Nat, n \in P
      PROVE  n + 1 \in P
  <2> SUFFICES ASSUME n + 1 <= Ancho
               PROVE  leido[n + 1] \in Int
    OBVIOUS
  <2>1. leido[n] \in Int /\ n + 1 \in 1..Ancho /\ (n + 1) - 1 = n
    BY <1>2, <1>9
  <2>2. leido[n + 1] = Suma(leido[n], n + 1)
    BY <1>7, <2>1
  <2> QED
    BY <1>3, <2>1, <2>2
<1> HIDE DEF P
<1>10. \A n \in Nat : n \in P
  BY <1>8, <1>9, Induccion
<1> QED
  BY <1>1, <1>2, <1>10 DEF P

(* A word written to the memory leaves bytes. *)
LEMMA Escrito ==
    ASSUME NEW mem \in [0..TAM_MEMORIA - 1 -> Int], NEW d \in Nat, NEW dato \in Nat
    PROVE  escribir_memoria(mem, d, dato) \in [0..TAM_MEMORIA - 1 -> Int]
<1>1. Ancho \in Nat \ {0} /\ Byte \in Nat \ {0} /\ TAM_MEMORIA \in Int
  BY Pesos, InstruccionesAssumption
<1>2. \A x \in Int, y \in Nat \ {0} : (x \div y) \in Int /\ (x % y) \in Int
  OBVIOUS
<1>3. ASSUME NEW e \in 0..TAM_MEMORIA - 1, e \in d..d + Ancho - 1
      PROVE  (dato \div Peso[e - d]) % Byte \in Int
  <2>1. e - d \in 0..Ancho
    BY <1>1, <1>3
  <2>2. Peso[e - d] \in Nat \ {0}
    BY <2>1, Pesos
  <2> QED
    BY <1>1, <1>2, <2>2
<1> QED
  BY <1>3 DEF escribir_memoria

(* Registers hold words, and Base and Limite stay as they were. *)
Fijo(c, d) == d \in [Registros -> Nat] /\ d.Base = c.Base /\ d.Limite = c.Limite

(* SET of a register leaves words. *)
LEMMA Seteado ==
    ASSUME NEW c \in [Registros -> Nat], NEW r \in Escribibles, NEW v \in Int
    PROVE  Fijo(c, setear_registro(c, r, v))
<1>1. v % Palabra \in Nat
  BY Pesos
<1> QED
  BY <1>1 DEF setear_registro, Fijo, Escribibles, Registros

(* So does moving the PC, which wraps around only at the last word. *)
LEMMA Incrementado ==
    ASSUME NEW c \in [Registros -> Nat]
    PROVE  /\ Fijo(c, incrementar_pc(c))
           /\ c.PC + 1 < Palabra => incrementar_pc(c).PC = c.PC + 1
<1>1. c.PC \in Nat
  BY DEF Registros
<1>2. (c.PC + 1) % Palabra \in Nat
  BY <1>1, Pesos
<1>3. c.PC + 1 < Palabra => (c.PC + 1) % Palabra = c.PC + 1
  BY <1>1, Pesos
<1> QED
  BY <1>2, <1>3 DEF incrementar_pc, Fijo, Registros

(* So do the instructions on registers. *)
LEMMA Calculado ==
    ASSUME NEW c \in [Registros -> Nat], NEW i, BienFormada(i)
    PROVE  Fijo(c, Calcular(c, i))
<1>1. \A r \in Registros : c[r] \in Nat
  OBVIOUS
<1>2. \A d \in [Registros -> Nat] : Fijo(c, d) => Fijo(c, incrementar_pc(d))
  BY Incrementado DEF Fijo
<1>3. \A r \in Escribibles, v \in Int :
          setear_registro(c, r, v) \in [Registros -> Nat] /\ Fijo(c, setear_registro(c, r, v))
  BY Seteado DEF Fijo
<1>4. Escribibles \subseteq Registros /\ "PC" \in Escribibles
  BY DEF Escribibles, Registros
<1>5. CASE i.op = "SET"
  <2>1. Calcular(c, i) = incrementar_pc(setear_registro(c, i.a, i.b))
    BY <1>5 DEF Calcular
  <2> QED
    BY <1>2, <1>3, <1>5, <2>1 DEF BienFormada
<1>6. CASE i.op = "SUM"
  <2>1. Calcular(c, i) = incrementar_pc(setear_registro(c, i.a, c[i.a] + c[i.b]))
    BY <1>6 DEF Calcular, sum_registro
  <2>2. c[i.a] + c[i.b] \in Int /\ i.a \in Escribibles
    BY <1>1, <1>4, <1>6 DEF BienFormada
  <2> QED
    BY <1>2, <1>3, <2>1, <2>2
<1>7. CASE i.op = "SUB"
  <2>1. Calcular(c, i) = incrementar_pc(setear_registro(c, i.a, c[i.a] - c[i.b]))
    BY <1>7 DEF Calcular, sub_registro
  <2>2. c[i.a] - c[i.b] \in Int /\ i.a \in Escribibles
    BY <1>1, <1>4, <1>7 DEF BienFormada
  <2> QED
    BY <1>2, <1>3, <2>1, <2>2
<1>8. CASE i.op = "JNZ"
  <2>1. Calcular(c, i) = IF c[i.a] # 0 THEN setear_registro(c, "PC", i.b) ELSE incrementar_pc(c)
    BY <1>8 DEF Calcular, jnz_pc
  <2>2. i.b \in Int
    BY <1>8 DEF BienFormada
  <2> QED
    BY <1>3, <1>4, <2>1, <2>2, Incrementado
<1>9. CASE i.op \notin {"SET", "SUM", "SUB", "JNZ"}
  <2>1. Calcular(c, i) = incrementar_pc(c)
    BY <1>9 DEF Calcular
  <2> QED
    BY <2>1, Incrementado
<1> QED
  BY <1>5, <1>6, <1>7, <1>8, <1>9

(* So do the accesses that are within the memory. *)
LEMMA Accedido ==
    ASSUME NEW c \in [Registros -> Nat], NEW mem \in [0..TAM_MEMORIA - 1 -> Int],
           NEW i, BienFormada(i), Accede(i), ~SegFault(c, i), ~FueraDeMemoria(c, i)
    PROVE  /\ i.op = "READ_MEM" => Fijo(c, read_mem(c, mem, i))
           /\ i.op = "WRITE_MEM" => write_mem(c, mem, i) \in [0..TAM_MEMORIA - 1 -> Int]
<1> DEFINE d == mmu_dirLog_dirfis(c, Direccion(c, i))
<1>1. Direccion(c, i) \in Nat /\ c.Base \in Nat
  <2>1. \A r \in Registros : c[r] \in Nat
    OBVIOUS
  <2> QED
    BY <2>1 DEF Direccion, BienFormada, Accede, Escribibles, Registros
<1>2. d \in Nat
  BY <1>1, Pesos DEF mmu_dirLog_dirfis
<1>3. d + Ancho <= TAM_MEMORIA
  <2>1. ~ (d + Ancho > TAM_MEMORIA)
    BY DEF FueraDeMemoria
  <2>2. Ancho \in Nat /\ TAM_MEMORIA \in Int
    BY Pesos, InstruccionesAssumption
  <2> QED
    BY <1>2, <2>1, <2>2
<1>4. CASE i.op = "READ_MEM"
  <2>1. leer_memoria(mem, d) \in Int
    BY <1>2, <1>3, Leido
  <2>2. Fijo(c, setear_registro(c, i.a, leer_memoria(mem, d)))
    BY <1>4, <2>1, Seteado DEF BienFormada
  <2>3. read_mem(c, mem, i) = incrementar_pc(setear_registro(c, i.a, leer_memoria(mem, d)))
    BY DEF read_mem
  <2> QED
    BY <1>4, <2>2, <2>3, Incrementado DEF Fijo
<1>5. CASE i.op = "WRITE_MEM"
  <2>1. c[i.b] \in Nat
    BY <1>5 DEF BienFormada
  <2>2. write_mem(c, mem, i) = escribir_memoria(mem, d, c[i.b])
    BY DEF write_mem
  <2> QED
    BY <1>2, <1>5, <2>1, <2>2, Escrito
<1> QED
  BY <1>4, <1>5
-----------------------------------------------------------------------------
(* The contexts, through every step.                                       *)

(* The instruction that was fetched. *)
LEMMA Traida ==
    ASSUME Ind, Contextos, ProgramasCorrectos, cpu \in {"ejecutar", "seg_fault", "avisar"}
    PROVE  /\ contexto \in [Registros -> Nat] /\ contexto.PC \in Nat
           /\ contexto.Base = Base(hilo[1]) /\ contexto.Limite = Limite(hilo[1])
           /\ instr.op # "PC INVALIDO" =>
                 /\ contexto.PC < Len(Programa(hilo)) /\ instr = Programa(hilo)[contexto.PC + 1]
                 /\ contexto.PC + 1 \in 1..Len(Programa(hilo)) /\ contexto.PC + 1 < Palabra
                 /\ BienFormada(instr)
<1>1. /\ contexto \in [Registros -> Nat] /\ instr = devolver_instruccion(hilo, contexto.PC)
      /\ contexto.Base = Base(hilo[1]) /\ contexto.Limite = Limite(hilo[1])
  BY DEF Contextos, Palabras, EnEjecucion
<1>2. contexto.PC \in Nat
  BY <1>1 DEF Registros
<1>3. hilo \in Hilos
  BY AlEjecutar, DeInd DEF CpuBien
<1>4. PICK n : n = Len(Programa(hilo))
  OBVIOUS
<1>5. n \in 0..Palabra - 1 /\ \A j \in 1..n : BienFormada(Programa(hilo)[j])
  BY <1>3, <1>4 DEF ProgramasCorrectos
<1>6. ASSUME instr.op # "PC INVALIDO"
      PROVE  contexto.PC < n /\ instr = Programa(hilo)[contexto.PC + 1]
  <2>1. ~ (contexto.PC >= n)
    BY <1>1, <1>4, <1>6 DEF devolver_instruccion
  <2>2. n \in Int
    BY <1>5
  <2>3. instr = Programa(hilo)[contexto.PC + 1]
    BY <1>1, <1>4, <2>1 DEF devolver_instruccion
  <2>4. contexto.PC < n
    BY <1>2, <2>1, <2>2
  <2> QED
    BY <2>3, <2>4
<1>7. n \in Nat /\ Palabra \in Nat /\ n < Palabra
  BY <1>5, Pesos
<1>8. contexto.PC < n => contexto.PC + 1 \in 1..n /\ contexto.PC + 1 < Palabra
  BY <1>2, <1>7
<1> QED
  BY <1>1, <1>2, <1>4, <1>5, <1>6, <1>8

(* What a thread loads is what it saved. *)
LEMMA Guarda ==
    ASSUME Contextos, NEW h \in Hilos, ctx' = [ctx EXCEPT ![h] = actualizar_contexto_ejecucion(h, contexto)],
           contexto.Base = Base(h[1]), contexto.Limite = Limite(h[1]), contexto' = contexto
    PROVE  /\ ctx' \in [Hilos -> [Registros -> Nat]] /\ ctx'[h].PC = contexto.PC
           /\ devolver_contexto_ejecucion(h)' = contexto'
           /\ \A k \in Hilos \ {h} : /\ ctx'[k] = ctx[k]
                                     /\ devolver_contexto_ejecucion(k)' = devolver_contexto_ejecucion(k)
<1>1. ctx \in [Hilos -> [Registros -> Nat]] /\ contexto \in [Registros -> Nat]
  BY DEF Contextos, Palabras
<1>2. PICK c : c = actualizar_contexto_ejecucion(h, contexto)
  OBVIOUS
<1>3. c = [contexto EXCEPT !.Base = ctx[h].Base, !.Limite = ctx[h].Limite]
  BY <1>2 DEF actualizar_contexto_ejecucion
<1>4. ctx[h].Base \in Nat /\ ctx[h].Limite \in Nat
  BY <1>1 DEF Registros
<1>5. c \in [Registros -> Nat] /\ \A r \in Escribibles : c[r] = contexto[r]
  BY <1>1, <1>3, <1>4 DEF Registros, Escribibles
<1>6. ctx' \in [Hilos -> [Registros -> Nat]] /\ ctx'[h] = c /\ \A k \in Hilos \ {h} : ctx'[k] = ctx[k]
  BY <1>1, <1>2, <1>5
<1>7. devolver_contexto_ejecucion(h)' = [c EXCEPT !.Base = Base(h[1]), !.Limite = Limite(h[1])]
  BY <1>6 DEF devolver_contexto_ejecucion
<1>8. [c EXCEPT !.Base = Base(h[1]), !.Limite = Limite(h[1])] = contexto
  BY <1>1, <1>5 DEF Escribibles
<1>9. c.PC = contexto.PC
  BY <1>5 DEF Escribibles, Registros
<1>10. \A k \in Hilos \ {h} : devolver_contexto_ejecucion(k)' = devolver_contexto_ejecucion(k)
  BY <1>6 DEF devolver_contexto_ejecucion
<1> QED
  BY <1>6, <1>7, <1>8, <1>9, <1>10

(* A context that is loaded has the base and the limit of its process. *)
LEMMA Cargado ==
    ASSUME Contextos, ProgramasCorrectos, NEW h \in Hilos
    PROVE  /\ devolver_contexto_ejecucion(h) \in [Registros -> Nat]
           /\ devolver_contexto_ejecucion(h).Base = Base(h[1])
           /\ devolver_contexto_ejecucion(h).Limite = Limite(h[1])
           /\ devolver_contexto_ejecucion(h).PC = ctx[h].PC
<1>1. ctx[h] \in [Registros -> Nat]
  BY DEF Contextos, Palabras
<1>2. Base(h[1]) \in Nat /\ Limite(h[1]) \in Nat
  BY Nombres DEF ProgramasCorrectos
<1> QED
  BY <1>1, <1>2 DEF devolver_contexto_ejecucion, Registros

(* The steps that leave the CPU and the contexts alone. *)
LEMMA MismosContextos ==
    ASSUME Ind, Contextos, UNCHANGED <<ctx, contexto, memoria, cpu, hilo, instr>>,
           bloqueados' \cap (Hilos \X {"DUMP_MEMORY"}) \subseteq bloqueados,
           terminados \subseteq terminados',
           \A h \in Hilos \cap existe : h \in existe' \/ Terminado(h)'
    PROVE  Contextos'
<1>1. hilo \in Hilos \cup {Nulo}
  BY DeInd DEF CpuBien
<1>2. \A h : Terminado(h) => Terminado(h)'
  BY DEF Terminado
<1>3. Palabras'
  BY DEF Contextos, Palabras
<1>4. EnEjecucion'
  <2>1. hilo # Nulo /\ cpu # "contexto" => hilo \in existe' \/ Terminado(hilo)'
    BY <1>1, <1>2 DEF Contextos, EnEjecucion
  <2>2. Guardado(hilo) => Guardado(hilo)'
    BY DEF Guardado, devolver_contexto_ejecucion
  <2>3. Terminado(hilo) => Terminado(hilo)'
    BY <1>2 DEF Terminado
  <2>4. Terminado(hilo)' <=> {hilo, Proceso(hilo)} \cap terminados' # {}
    BY DEF Terminado
  <2> QED
    BY <2>1, <2>2, <2>3 DEF Contextos, EnEjecucion
<1>5. Volcados'
  BY DEF Contextos, Volcados
<1> QED
  BY <1>3, <1>4, <1>5 DEF Contextos

(* The kernel does not touch them. *)
LEMMA ContextosDelKernel ==
    ASSUME Ind, Contextos,
           PasoKernel \/ (\E h \in Hilos, motivo \in {"IO", "DUMP_MEMORY"} : Despertar(h, motivo))
              \/ (\E h \in Hilos : VolcadoFallido(h)) \/ UNCHANGED vars
    PROVE  Contextos'
<1>1. CASE LpCrearProceso \/ LpConfirmado \/ LpCrearHilo
  BY <1>1, MismosContextos DEF LpCrearProceso, LpConfirmado, LpCrearHilo, memSinTarea, cpuVars
<1>2. ASSUME NEW k \in Atencion, StsConfirmado(k)
      PROVE  Contextos'
  <2>1. /\ UNCHANGED <<existe, ctx, memoria, contexto, hilo, instr, bloqueados, terminados>>
        /\ cpu' = IF k = "sts" /\ cpu = "confirmar" THEN "chequear" ELSE cpu
    BY <1>2 DEF StsConfirmado, memSinTarea, kernelVars
  <2>2. CASE cpu' = cpu
    BY <2>1, <2>2, MismosContextos
  <2>3. CASE cpu = "confirmar" /\ cpu' = "chequear"
    <3>1. Palabras' /\ Volcados'
      BY <2>1 DEF Contextos, Palabras, Volcados
    <3>2. instr.op = "THREAD_EXIT"
      BY <2>3, DeInd DEF CpuBien
    <3>3. EnEjecucion'
      BY <2>1, <2>3, <3>2 DEF Contextos, EnEjecucion, Terminado, Salidas
    <3> QED
      BY <3>1, <3>3 DEF Contextos
  <2> QED
    BY <2>1, <2>2, <2>3
<1>3. ASSUME NEW h \in Hilos, NEW motivo \in {"IO", "DUMP_MEMORY"}, Despertar(h, motivo)
      PROVE  Contextos'
  BY <1>3, MismosContextos DEF Despertar, memVars, cpuVars
<1>4. ASSUME NEW h \in Hilos, VolcadoFallido(h)
      PROVE  Contextos'
  BY <1>4, MismosContextos DEF VolcadoFallido, SinProceso, memSinTarea, cpuVars
<1>5. CASE UNCHANGED vars
  BY <1>5, MismosContextos DEF vars, memVars, kernelVars, cpuVars
<1> QED
  BY <1>1, <1>2, <1>3, <1>4, <1>5 DEF PasoKernel

(* A dispatch leaves them. *)
LEMMA ContextosAlDespachar ==
    ASSUME Ind, Contextos, Despachar
    PROVE  Contextos'
<1>1. /\ UNCHANGED <<ctx, memoria, contexto, bloqueados>>
      /\ cpu' = "contexto"
  BY DEF Despachar, memSinTarea
<1>2. Palabras' /\ Volcados' /\ EnEjecucion'
  BY <1>1 DEF Contextos, Palabras, Volcados, EnEjecucion
<1> QED
  BY <1>2 DEF Contextos
-----------------------------------------------------------------------------
(* The contexts, through the steps of the CPU.                             *)

(* An instruction that ends in the CPU. *)
LEMMA ContextosAlTerminar ==
    ASSUME Ind, Contextos, cpu = "ejecutar", cpu' \in {"chequear", "confirmar"},
           instr.op # "DUMP_MEMORY", instr.op \in Salidas => Terminado(hilo)',
           contexto' = contexto \/ Fijo(contexto, contexto'),
           memoria' \in [0..TAM_MEMORIA - 1 -> Int],
           UNCHANGED <<ctx, instr, hilo, existe>>, terminados \subseteq terminados',
           bloqueados' \cap (Hilos \X {"DUMP_MEMORY"}) \subseteq bloqueados
    PROVE  Contextos'
<1>1. /\ ctx \in [Hilos -> [Registros -> Nat]] /\ contexto \in [Registros -> Nat]
      /\ contexto.Base = Base(hilo[1]) /\ contexto.Limite = Limite(hilo[1])
  BY DEF Contextos, Palabras, EnEjecucion
<1>2. /\ contexto' \in [Registros -> Nat]
      /\ contexto'.Base = Base(hilo[1]) /\ contexto'.Limite = Limite(hilo[1])
  BY <1>1 DEF Fijo
<1>3. Palabras'
  BY <1>1, <1>2 DEF Palabras
<1>4. EnEjecucion'
  <2>1. hilo \in existe /\ hilo \in Hilos
    BY AlEjecutar
  <2> QED
    BY <1>2, <2>1 DEF EnEjecucion
<1>5. Volcados'
  BY DEF Contextos, Volcados
<1> QED
  BY <1>3, <1>4, <1>5 DEF Contextos

(* A context is loaded. *)
LEMMA ContextosAlCargar ==
    ASSUME Ind, Contextos, ProgramasCorrectos, RecibirContexto
    PROVE  Contextos'
<1>1. /\ cpu = "contexto" /\ cpu' = "ciclo" /\ contexto' = devolver_contexto_ejecucion(hilo)
      /\ Servida("DEVOLVER_CONTEXTO", hilo)
      /\ UNCHANGED <<primero, siguiente, existe, ctx, memoria, bloqueados, terminados, hilo>>
  BY DEF RecibirContexto, Cpu, listas
<1>2. Pide("DEVOLVER_CONTEXTO") /\ EnMarcha(hilo)
  BY <1>1, DeInd DEF CpuBien
<1>3. hilo \in Hilos
  BY <1>2 DEF EnMarcha, Admitido
<1>4. hilo \in existe
  BY <1>1, <1>2, ServirCpu DEF Consultas
<1>5. /\ contexto' \in [Registros -> Nat]
      /\ contexto'.Base = Base(hilo[1]) /\ contexto'.Limite = Limite(hilo[1])
  BY <1>1, <1>3, Cargado
<1>6. Palabras' /\ Volcados'
  BY <1>1, <1>5 DEF Contextos, Palabras, Volcados
<1>7. EnEjecucion'
  BY <1>1, <1>3, <1>4, <1>5 DEF EnEjecucion
<1> QED
  BY <1>6, <1>7 DEF Contextos

(* An instruction is fetched, or does not pass the check of its address. *)
LEMMA ContextosAlTraer ==
    ASSUME Ind, Contextos, PedirInstruccion \/ RecibirInstruccion \/ EjecutarSegFault
    PROVE  Contextos'
<1>1. /\ cpu \in {"ciclo", "fetch", "ejecutar"} /\ cpu' \in {"fetch", "ejecutar", "seg_fault"}
      /\ UNCHANGED <<existe, ctx, memoria, bloqueados, terminados, hilo, contexto>>
      /\ cpu' = "ejecutar" => instr' = devolver_instruccion(hilo, contexto.PC)
      /\ cpu' = "seg_fault" => cpu = "ejecutar" /\ instr' = instr /\ SegFault(contexto, instr)
  BY DEF PedirInstruccion, RecibirInstruccion, EjecutarSegFault, Cpu, memSinTarea, listas
<1>2. Palabras' /\ Volcados'
  BY <1>1 DEF Contextos, Palabras, Volcados
<1>3. EnEjecucion'
  <2>1. hilo \in existe
    BY <1>1, AlEjecutar
  <2> QED
    BY <1>1, <2>1 DEF Contextos, EnEjecucion
<1> QED
  BY <1>2, <1>3 DEF Contextos

(* An instruction on registers, or a syscall. *)
LEMMA ContextosAlEjecutar ==
    ASSUME Ind, Contextos, ProgramasCorrectos,
           EjecutarCalculo \/ EjecutarIO \/ EjecutarThreadCreate
              \/ EjecutarProcessExit \/ EjecutarThreadExit
    PROVE  Contextos'
<1>1. /\ cpu = "ejecutar" /\ cpu' \in {"chequear", "confirmar"}
      /\ instr.op \notin {"DUMP_MEMORY", "READ_MEM", "WRITE_MEM"}
      /\ contexto' = contexto
            \/ (instr.op # "PC INVALIDO" /\ contexto' = Calcular(contexto, instr))
      /\ UNCHANGED <<ctx, memoria, instr, hilo, existe>>
  BY DEF EjecutarCalculo, EjecutarIO, EjecutarThreadCreate, EjecutarProcessExit,
         EjecutarThreadExit, Cpu, memVars, memSinTarea
<1>2. contexto' = contexto \/ Fijo(contexto, contexto')
  BY <1>1, Traida, Calculado
<1>3. instr.op \in Salidas => Terminado(hilo)'
  BY DEF EjecutarCalculo, EjecutarIO, EjecutarThreadCreate, EjecutarProcessExit,
         EjecutarThreadExit, FinalizarProceso, Terminado, Proceso, Salidas
<1>4. /\ terminados \subseteq terminados'
      /\ bloqueados' \cap (Hilos \X {"DUMP_MEMORY"}) \subseteq bloqueados
  <2>1. CASE EjecutarIO
    <3>1. PICK d : d = <<hilo, "IO">>
      OBVIOUS
    <3>2. d \notin Hilos \X {"DUMP_MEMORY"} /\ bloqueados' = bloqueados \cup {d}
      BY <2>1, <3>1 DEF EjecutarIO
    <3> QED
      BY <2>1, <3>2 DEF EjecutarIO
  <2>2. CASE EjecutarCalculo \/ EjecutarThreadCreate \/ EjecutarThreadExit
    BY <2>2 DEF EjecutarCalculo, EjecutarThreadCreate, EjecutarThreadExit
  <2>3. CASE EjecutarProcessExit
    BY <2>3 DEF EjecutarProcessExit, FinalizarProceso, SinProceso
  <2> QED
    BY <2>1, <2>2, <2>3
<1>5. memoria' \in [0..TAM_MEMORIA - 1 -> Int]
  BY <1>1 DEF Contextos, Palabras
<1> QED
  BY <1>1, <1>2, <1>3, <1>4, <1>5, ContextosAlTerminar

(* An access to the memory. *)
LEMMA ContextosAlAcceder ==
    ASSUME Ind, Contextos, ProgramasCorrectos, EjecutarAcceso
    PROVE  Contextos'
<1>1. /\ cpu = "ejecutar" /\ cpu' = "chequear" /\ Accede(instr) /\ ~SegFault(contexto, instr)
      /\ UNCHANGED <<ctx, instr, hilo, existe, bloqueados, terminados>>
      /\ IF FueraDeMemoria(contexto, instr) THEN UNCHANGED <<memoria, contexto>>
         ELSE /\ contexto' = IF instr.op = "READ_MEM" THEN read_mem(contexto, memoria, instr)
                             ELSE incrementar_pc(contexto)
              /\ memoria' = IF instr.op = "WRITE_MEM" THEN write_mem(contexto, memoria, instr)
                            ELSE memoria
  BY DEF EjecutarAcceso, Cpu
<1>2. instr.op \in {"READ_MEM", "WRITE_MEM"}
  BY <1>1 DEF Accede
<1>3. contexto \in [Registros -> Nat] /\ BienFormada(instr)
  BY <1>1, <1>2, Traida
<1>4. memoria \in [0..TAM_MEMORIA - 1 -> Int]
  BY DEF Contextos, Palabras
<1>5. /\ contexto' = contexto \/ Fijo(contexto, contexto')
      /\ memoria' \in [0..TAM_MEMORIA - 1 -> Int]
  <2>1. CASE FueraDeMemoria(contexto, instr)
    BY <1>1, <1>4, <2>1
  <2>2. CASE ~ FueraDeMemoria(contexto, instr)
    <3>1. instr.op = "READ_MEM" => Fijo(contexto, read_mem(contexto, memoria, instr))
      BY <1>1, <1>3, <1>4, <2>2, Accedido
    <3>2. instr.op = "WRITE_MEM"
            => write_mem(contexto, memoria, instr) \in [0..TAM_MEMORIA - 1 -> Int]
      BY <1>1, <1>3, <1>4, <2>2, Accedido
    <3>3. Fijo(contexto, incrementar_pc(contexto))
      BY <1>3, Incrementado
    <3> QED
      BY <1>1, <1>4, <2>2, <3>1, <3>2, <3>3
  <2> QED
    BY <2>1, <2>2
<1>6. instr.op # "DUMP_MEMORY" /\ instr.op \notin Salidas
  BY <1>2 DEF Salidas
<1> QED
  BY <1>1, <1>5, <1>6, ContextosAlTerminar

(* The context goes back to the node of the thread. *)
LEMMA ContextosAlGuardar ==
    ASSUME Ind, Contextos, ActualizarSegFault \/ ActualizarDump \/ Salir
    PROVE  Contextos'
<1>1. /\ cpu \in {"seg_fault", "dump", "actualizar"} /\ Actualizar(contexto)
      /\ UNCHANGED <<existe, memoria, bloqueados, hilo, contexto, instr, terminados>>
      /\ cpu = "seg_fault" => cpu' = "avisar"
      /\ cpu = "dump" => cpu' = "volcar"
      /\ cpu = "actualizar" => cpu' = "esperar"
  BY DEF ActualizarSegFault, ActualizarDump, Salir, Cpu, Actualizar, listas
<1>2. /\ Pide("ACTUALIZAR_CONTEXTO") /\ Planificados
      /\ cpu = "actualizar" => ~Omite \/ instr.op = "IO"
  BY <1>1, DeInd DEF CpuBien
<1>3. hilo \in Hilos /\ hilo # Nulo /\ <<hilo, "DUMP_MEMORY">> \notin bloqueados
  <2>1. CASE cpu \in {"seg_fault", "dump"}
    <3>1. hilo \in Hilos /\ hilo # Nulo /\ hilo \notin Dormidos
      BY <2>1, AlEjecutar
    <3> QED
      BY <3>1 DEF Dormidos
  <2>2. CASE cpu = "actualizar" /\ ~Omite
    <3>1. Corre(hilo) /\ estado_exec = hilo
      BY <2>2, DeInd DEF CpuBien
    <3>2. hilo \in Hilos /\ hilo # Nulo
      BY <3>1, Nombres DEF Corre, Admitido, Nodos
    <3>3. hilo \notin Dormidos
      BY <1>2, <3>1, <3>2 DEF Planificados
    <3> QED
      BY <3>2, <3>3 DEF Dormidos
  <2>3. CASE cpu = "actualizar" /\ instr.op = "IO"
    <3>1. Corre(hilo) /\ Entregado
      BY <2>3, DeInd DEF CpuBien
    <3>2. hilo \in Hilos /\ hilo # Nulo
      BY <3>1, Nombres DEF Corre, Admitido, Nodos
    <3>3. PICK c, d : c = <<hilo, "DUMP_MEMORY">> /\ d = <<hilo, "IO">>
      OBVIOUS
    <3>4. c[1] = hilo /\ d[1] = hilo /\ c # d
      BY <3>3
    <3>5. c \notin bloqueados
      BY <1>2, <3>1, <3>3, <3>4 DEF Planificados, Entregado
    <3> QED
      BY <2>3, <3>2, <3>3, <3>5
  <2> QED
    BY <1>1, <1>2, <2>1, <2>2, <2>3
<1>4. contexto.Base = Base(hilo[1]) /\ contexto.Limite = Limite(hilo[1])
  BY <1>1 DEF Contextos, EnEjecucion
<1>5. ctx' = [ctx EXCEPT ![hilo] = actualizar_contexto_ejecucion(hilo, contexto)]
  BY <1>1 DEF Actualizar
<1>6. PICK h : h = hilo
  OBVIOUS
<1>7. /\ ctx' \in [Hilos -> [Registros -> Nat]]
      /\ devolver_contexto_ejecucion(h)' = contexto'
      /\ \A k \in Hilos \ {h} : ctx'[k] = ctx[k]
  <2>1. h \in Hilos /\ ctx' = [ctx EXCEPT ![h] = actualizar_contexto_ejecucion(h, contexto)]
    BY <1>3, <1>5, <1>6
  <2>2. contexto.Base = Base(h[1]) /\ contexto.Limite = Limite(h[1]) /\ contexto' = contexto
    BY <1>1, <1>4, <1>6
  <2> QED
    BY <2>1, <2>2, Guarda
<1>8. Palabras'
  BY <1>1, <1>7 DEF Contextos, Palabras
<1>9. Volcados'
  <2> SUFFICES ASSUME NEW k \in Hilos, <<k, "DUMP_MEMORY">> \in bloqueados'
               PROVE  DumpHecho(k, ctx'[k].PC)
    BY DEF Volcados, DumpHecho
  <2>1. <<k, "DUMP_MEMORY">> \in bloqueados /\ k # h
    BY <1>1, <1>3, <1>6
  <2> QED
    BY <1>7, <2>1 DEF Contextos, Volcados
<1>10. EnEjecucion'
  <2>1. hilo \in existe \/ Terminado(hilo)
    BY <1>1, <1>3 DEF Contextos, EnEjecucion
  <2>2. hilo \in existe' \/ Terminado(hilo)'
    BY <1>1, <2>1 DEF Terminado
  <2>3. Guardado(hilo)'
    <3>1. hilo' = h
      BY <1>1, <1>6
    <3> QED
      BY <1>7, <3>1 DEF Guardado
  <2>4. cpu = "dump" => DumpHecho(hilo, contexto.PC)'
    BY <1>1 DEF Contextos, EnEjecucion, DumpHecho
  <2> QED
    BY <1>1, <1>3, <1>4, <2>2, <2>3, <2>4 DEF Contextos, EnEjecucion
<1> QED
  BY <1>8, <1>9, <1>10 DEF Contextos

(* A thread that waits for its dump has saved its context, past it. *)
LEMMA ContextosAlPedirDump ==
    ASSUME Ind, Contextos, ProgramasCorrectos, PedirDump
    PROVE  Contextos'
<1>1. /\ cpu = "volcar" /\ cpu' = "chequear"
      /\ bloqueados' = bloqueados \cup {<<hilo, "DUMP_MEMORY">>}
      /\ UNCHANGED <<existe, ctx, memoria, terminados, hilo, contexto, instr>>
  BY DEF PedirDump, Cpu, memSinTarea
<1>2. /\ hilo \in Hilos /\ DumpHecho(hilo, contexto.PC) /\ Guardado(hilo)
      /\ contexto.Base = Base(hilo[1]) /\ contexto.Limite = Limite(hilo[1])
  BY <1>1 DEF Contextos, EnEjecucion
<1>3. instr.op = "DUMP_MEMORY"
  BY <1>1, DeInd DEF CpuBien
<1>4. DumpHecho(hilo, ctx[hilo].PC)
  BY <1>2, Cargado DEF Guardado
<1>5. Palabras'
  BY <1>1 DEF Contextos, Palabras
<1>6. Volcados'
  <2> SUFFICES ASSUME NEW k \in Hilos, <<k, "DUMP_MEMORY">> \in bloqueados'
               PROVE  DumpHecho(k, ctx[k].PC)
    BY <1>1 DEF Volcados, DumpHecho
  <2>1. CASE k = hilo
    BY <1>4, <2>1
  <2>2. CASE k # hilo
    <3>1. PICK c, d : c = <<k, "DUMP_MEMORY">> /\ d = <<hilo, "DUMP_MEMORY">>
      OBVIOUS
    <3>2. c # d /\ c \in bloqueados'
      BY <2>2, <3>1
    <3>3. c \in bloqueados
      BY <1>1, <3>1, <3>2
    <3> QED
      BY <3>1, <3>3 DEF Contextos, Volcados
  <2> QED
    BY <2>1, <2>2
<1>7. EnEjecucion'
  <2>1. Guardado(hilo)'
    BY <1>1, <1>2 DEF Guardado, devolver_contexto_ejecucion
  <2>2. hilo # Nulo => hilo \in existe' \/ Terminado(hilo)'
    BY <1>1 DEF Contextos, EnEjecucion, Terminado
  <2> QED
    BY <1>1, <1>2, <1>3, <2>1, <2>2 DEF EnEjecucion, Salidas
<1> QED
  BY <1>5, <1>6, <1>7 DEF Contextos

(* A dump: the PC is already past it. *)
LEMMA ContextosAlVolcar ==
    ASSUME Ind, Contextos, ProgramasCorrectos, EjecutarDump
    PROVE  Contextos'
<1>1. /\ cpu = "ejecutar" /\ cpu' = "dump" /\ instr.op = "DUMP_MEMORY"
      /\ contexto' = Calcular(contexto, instr)
      /\ UNCHANGED <<existe, ctx, memoria, bloqueados, terminados, hilo>>
  BY DEF EjecutarDump, Cpu, memSinTarea
<1>2. /\ contexto \in [Registros -> Nat] /\ instr = Programa(hilo)[contexto.PC + 1]
      /\ contexto.Base = Base(hilo[1]) /\ contexto.Limite = Limite(hilo[1])
      /\ contexto.PC + 1 \in 1..Len(Programa(hilo)) /\ contexto.PC + 1 < Palabra
  BY <1>1, Traida
<1>3. contexto' = incrementar_pc(contexto)
  BY <1>1 DEF Calcular
<1>4. Fijo(contexto, contexto') /\ contexto'.PC = contexto.PC + 1
  BY <1>2, <1>3, Incrementado
<1>5. DumpHecho(hilo, contexto'.PC)
  BY <1>1, <1>2, <1>4 DEF DumpHecho
<1>6. Palabras' /\ Volcados'
  BY <1>1, <1>4 DEF Contextos, Palabras, Volcados, Fijo
<1>7. EnEjecucion'
  <2>1. hilo \in existe /\ hilo \in Hilos
    BY <1>1, AlEjecutar
  <2>2. DumpHecho(hilo, contexto.PC)'
    BY <1>1, <1>5 DEF DumpHecho
  <2> QED
    BY <1>1, <1>2, <1>4, <2>1, <2>2 DEF EnEjecucion, Fijo
<1> QED
  BY <1>6, <1>7 DEF Contextos

(* The thread goes on, or leaves the CPU. *)
LEMMA ContextosAlSalir ==
    ASSUME Ind, Contextos, AvisarSegFault \/ Chequear(TRUE) \/ Chequear(FALSE)
    PROVE  Contextos'
<1>1. /\ cpu \in {"avisar", "chequear"} /\ cpu' \in {"esperar", "actualizar", "ciclo"}
      /\ UNCHANGED <<existe, ctx, memoria, hilo, contexto, instr>>
      /\ bloqueados' \subseteq bloqueados /\ terminados \subseteq terminados'
  BY DEF AvisarSegFault, Chequear, Cpu, FinalizarProceso, SinProceso, memSinTarea
<1>2. Palabras' /\ Volcados'
  BY <1>1 DEF Contextos, Palabras, Volcados
<1>3. EnEjecucion'
  BY <1>1 DEF Contextos, EnEjecucion, Terminado
<1> QED
  BY <1>2, <1>3 DEF Contextos

-----------------------------------------------------------------------------
(* The contexts, through the steps of the memory. *)

(* What is being created was not finalised. *)
LEMMA SinTerminar ==
    ASSUME Ind, NEW k \in Atencion, tarea[k].op \in Altas
    PROVE  ~Terminado(tarea[k].nodo) /\ tarea[k].nodo \notin existe
<1>1. /\ MemTipo /\ Tareas /\ Separadas /\ Admision /\ Huerfanos /\ Terminos
      /\ admitidos \in Nat
  BY DeInd
<1>2. /\ k \notin {"cpu", "sts", "volcado"} \cup Volcadores /\ tarea[k].op # "libre"
      /\ tarea[k].op \in Ops(k) /\ Activa(tarea[k]) /\ tarea[k].op # "confirmado"
  BY <1>1, Quietas DEF Altas
<1>3. tarea[k].nodo \notin existe
  BY <1>2 DEF Activa, Alta
<1>4. CASE k = "lp"
  <2>1. tarea[k].nodo \in {<<admitidos>>, <<admitidos, 0>>}
    BY <1>1, <1>2, <1>4, Libres DEF Admision
  <2>2. tarea[k].nodo[1] = admitidos /\ Proceso(tarea[k].nodo)[1] = admitidos
    BY <2>1 DEF Proceso
  <2>3. \A n \in terminados : n[1] # admitidos
    <3>1. \A n \in terminados : n[1] \in Nat /\ n[1] < admitidos
      BY <1>1, Nombres DEF Terminos
    <3> QED
      BY <1>1, <3>1
  <2> QED
    BY <1>3, <2>2, <2>3 DEF Terminado
<1>5. CASE k \in Huerfanas
  <2>1. tarea[k].op = "CREAR_HILO"
    BY <1>5, DeInd
  <2> QED
    BY <1>1, <1>3, <1>5, <2>1 DEF Huerfanos, Huerfano
<1> QED
  BY <1>2, <1>4, <1>5, Atenciones

(* A new node has new registers, and the others keep theirs. *)
LEMMA ContextosDeMemoria ==
    ASSUME Ind, Contextos, ProgramasCorrectos, NEW k \in Atencion, PasoMemoria(k),
           UNCHANGED <<kernelVars, cpuVars>>
    PROVE  Contextos'
<1>1. /\ UNCHANGED <<listos, bloqueados, terminados, cpu, hilo, contexto, instr>>
      /\ MemTipo /\ Enlazadas /\ Tareas /\ Separadas /\ Planificados
  BY DeInd DEF kernelVars, cpuVars
<1>2. \A h : Terminado(h)' <=> Terminado(h)
  BY <1>1 DEF Terminado
<1>3. CASE Entrar(k) \/ Avanzar(k) \/ Volcar(k)
  <2>1. UNCHANGED <<existe, ctx, memoria>>
    BY <1>3 DEF Entrar, Avanzar, Volcar, Caer
  <2> QED
    BY <1>1, <2>1, MismosContextos
<1>4. CASE VaciarHilos(k)
  <2>1. PICK h \in existe : h \in Hilos /\ Proceso(h) = tarea[k].nodo /\ existe' = existe \ {h}
    BY <1>1, <1>4, PasoVaciar
  <2>2. tarea[k].op \in Bajas /\ UNCHANGED <<ctx, memoria>>
    BY <1>1, <1>4, PasoVaciar
  <2>3. tarea[k].nodo \in terminados
    BY <1>1, <2>2, Finaliza
  <2>4. Terminado(h)'
    BY <1>1, <2>1, <2>3 DEF Terminado
  <2> QED
    BY <1>1, <2>1, <2>2, <2>4, MismosContextos
<1>5. CASE Desenlazar(k)
  <2>1. PICK n : n = tarea[k].nodo
    OBVIOUS
  <2>2. tarea[k].op \in Bajas /\ UNCHANGED <<ctx, memoria>> /\ existe' = existe \ {n}
    BY <1>1, <1>5, <2>1, PasoDesenlazar
  <2>3. n \in terminados
    BY <1>1, <2>1, <2>2, Finaliza
  <2>4. Terminado(n)'
    BY <1>1, <2>3 DEF Terminado
  <2> QED
    BY <1>1, <2>2, <2>4, MismosContextos
<1>6. CASE Enlazar(k)
  <2>1. PICK n : n = tarea[k].nodo
    OBVIOUS
  <2>2. /\ tarea[k].op \in Altas /\ n \in Nodos
        /\ existe' = existe \cup {n} /\ UNCHANGED memoria
        /\ ctx' = [h \in Hilos |-> IF h = n THEN ContextoInicial(Base(h[1]), Limite(h[1]))
                                   ELSE ctx[h]]
    BY <1>1, <1>6, <2>1, PasoEnlazar
  <2>3. n \notin existe
    BY <1>1, <2>1, <2>2, Quietas DEF Activa, Alta, Altas
  <2>4. \A h \in Hilos : h # n => ctx'[h] = ctx[h]
    BY <2>2
  <2>5. Palabras'
    <3>1. \A h \in Hilos : ContextoInicial(Base(h[1]), Limite(h[1])) \in [Registros -> Nat]
      <4>1. \A h \in Hilos : Base(h[1]) \in Nat /\ Limite(h[1]) \in Nat
        BY Nombres DEF ProgramasCorrectos
      <4> QED
        BY <4>1 DEF ContextoInicial
    <3>2. ctx' \in [Hilos -> [Registros -> Nat]]
      BY <2>2, <3>1 DEF Contextos, Palabras
    <3> QED
      BY <1>1, <2>2, <3>2 DEF Contextos, Palabras
  <2>6. Volcados'
    <3> SUFFICES ASSUME NEW h \in Hilos, <<h, "DUMP_MEMORY">> \in bloqueados
                 PROVE  DumpHecho(h, ctx'[h].PC)
      BY <1>1 DEF Volcados, DumpHecho
    <3>1. PICK b : b = <<h, "DUMP_MEMORY">>
      OBVIOUS
    <3>2. b[1] = h /\ b \in bloqueados
      BY <3>1
    <3>3. h \in existe
      BY <1>1, <3>2 DEF Planificados, Corre
    <3>4. ctx'[h] = ctx[h]
      BY <2>3, <2>4, <3>3
    <3> QED
      BY <3>4 DEF Contextos, Volcados
  <2>7. EnEjecucion'
    <3>1. cpu = "volcar" \/ (cpu = "chequear" /\ instr.op = "DUMP_MEMORY") => Guardado(hilo)'
      <4> SUFFICES ASSUME cpu = "volcar" \/ (cpu = "chequear" /\ instr.op = "DUMP_MEMORY")
                   PROVE  Guardado(hilo)'
        OBVIOUS
      <4>1. Guardado(hilo) /\ (hilo # Nulo => hilo \in existe \/ Terminado(hilo))
        BY DEF Contextos, EnEjecucion
      <4>2. hilo \in Hilos /\ hilo # Nulo
        BY Nombres DEF Contextos, EnEjecucion, Nodos
      <4>3. hilo # n
        BY <2>1, <2>2, <2>3, <4>1, <4>2, SinTerminar
      <4>4. devolver_contexto_ejecucion(hilo)' = devolver_contexto_ejecucion(hilo)
        BY <1>1, <2>4, <4>2, <4>3 DEF devolver_contexto_ejecucion
      <4> QED
        BY <1>1, <4>1, <4>4 DEF Guardado
    <3> QED
      BY <1>1, <1>2, <2>2, <3>1 DEF Contextos, EnEjecucion
  <2> QED
    BY <2>5, <2>6, <2>7 DEF Contextos
<1> QED
  BY <1>3, <1>4, <1>5, <1>6 DEF PasoMemoria

-----------------------------------------------------------------------------
(* The contexts are right. *)

(* They are right at first. *)
LEMMA ContextosAlInicio ==
    ASSUME Init
    PROVE  Contextos
<1>1. ContextoInicial(0, 0) \in [Registros -> Nat]
  BY DEF ContextoInicial
<1>2. /\ ctx = [h \in Hilos |-> ContextoInicial(0, 0)] /\ contexto = ContextoInicial(0, 0)
      /\ memoria = [d \in 0..TAM_MEMORIA - 1 |-> 0]
      /\ cpu = "esperar" /\ hilo = Nulo /\ bloqueados = {}
  BY DEF Init, MInit
<1>3. Palabras
  BY <1>1, <1>2 DEF Palabras
<1>4. EnEjecucion /\ Volcados
  BY <1>2 DEF EnEjecucion, Volcados
<1> QED
  BY <1>3, <1>4 DEF Contextos

(* Every step preserves them. *)
LEMMA PasoContextos ==
    ASSUME Ind, Contextos, ProgramasCorrectos, [Next]_vars
    PROVE  Contextos'
<1>1. CASE PasoKernel \/ (\E h \in Hilos, motivo \in {"IO", "DUMP_MEMORY"} : Despertar(h, motivo))
              \/ (\E h \in Hilos : VolcadoFallido(h)) \/ UNCHANGED vars
  BY <1>1, ContextosDelKernel
<1>2. CASE Despachar
  BY <1>2, ContextosAlDespachar
<1>3. CASE PasoCpu
  <2>1. CASE RecibirContexto
    BY <2>1, ContextosAlCargar
  <2>2. CASE PedirInstruccion \/ RecibirInstruccion \/ EjecutarSegFault
    BY <2>2, ContextosAlTraer
  <2>3. CASE EjecutarCalculo \/ EjecutarIO \/ EjecutarThreadCreate
                \/ EjecutarProcessExit \/ EjecutarThreadExit
    BY <2>3, ContextosAlEjecutar
  <2>4. CASE EjecutarAcceso
    BY <2>4, ContextosAlAcceder
  <2>5. CASE ActualizarSegFault \/ ActualizarDump \/ Salir
    BY <2>5, ContextosAlGuardar
  <2>6. CASE EjecutarDump
    BY <2>6, ContextosAlVolcar
  <2>7. CASE AvisarSegFault \/ Chequear(TRUE) \/ Chequear(FALSE)
    BY <2>7, ContextosAlSalir
  <2>8. CASE PedirDump
    BY <2>8, ContextosAlPedirDump
  <2> QED
    BY <1>3, <2>1, <2>2, <2>3, <2>4, <2>5, <2>6, <2>7, <2>8 DEF PasoCpu
<1>4. ASSUME NEW k \in Atencion, PasoMemoria(k), UNCHANGED <<kernelVars, cpuVars>>
      PROVE  Contextos'
  BY <1>4, ContextosDeMemoria
<1> QED
  BY <1>1, <1>2, <1>3, <1>4 DEF Next

(* The registers of the thread in the CPU and those kept in the nodes are  *)
(* words, the instruction in course is the one of its PC, and what a       *)
(* waiting thread saved is what it will load.                              *)
THEOREM ContextosCorrectos ==
    ASSUME ~Solapadas, ProgramasCorrectos
    PROVE  Spec /\ []SinDobles => []Contextos
<1>1. Init => Contextos
  BY ContextosAlInicio
<1>2. Ind /\ Contextos /\ [Next]_vars => Contextos'
  BY PasoContextos
<1>3. Spec /\ []SinDobles => []Ind
  BY Invariante
<1> QED
  BY <1>1, <1>2, <1>3, PTL DEF Spec
-----------------------------------------------------------------------------
(* The machine of the programmer.                                          *)

(* The copies of the operators that the instance makes. *)
LEMMA MismasOperaciones ==
    /\ M!Palabra = Palabra
    /\ \A c, i : M!Calcular(c, i) = Calcular(c, i)
    /\ \A c, i : M!SegFault(c, i) <=> SegFault(c, i)
    /\ \A c, mem, i : M!read_mem(c, mem, i) = read_mem(c, mem, i)
    /\ \A c, mem, i : M!write_mem(c, mem, i) = write_mem(c, mem, i)
    /\ \A h : M!Nuevo(h) = ContextoInicial(Base(h[1]), Limite(h[1]))
<1>1. M!Peso = Peso
  BY Zenon DEF M!Peso, Peso
<1>2. M!Palabra = Palabra
  BY <1>1, Zenon DEF M!Palabra, Palabra
<1>3. \A c, r, v : M!setear_registro(c, r, v) = setear_registro(c, r, v)
  BY <1>2, Zenon DEF M!setear_registro, setear_registro
<1>4. \A c : M!incrementar_pc(c) = incrementar_pc(c)
  BY <1>2, Zenon DEF M!incrementar_pc, incrementar_pc
<1>5. \A c, i : M!Calcular(c, i) = Calcular(c, i)
  BY <1>3, <1>4 DEF M!Calcular, Calcular, M!sum_registro, sum_registro, M!sub_registro,
                    sub_registro, M!jnz_pc, jnz_pc
<1>6. \A c, d : M!mmu_dirLog_dirfis(c, d) = mmu_dirLog_dirfis(c, d)
  BY <1>2, Zenon DEF M!mmu_dirLog_dirfis, mmu_dirLog_dirfis
<1>7. \A c, i : M!Direccion(c, i) = Direccion(c, i)
  BY DEF M!Direccion, Direccion
<1>8. \A c, i : M!SegFault(c, i) <=> SegFault(c, i)
  BY <1>6, <1>7 DEF M!SegFault, SegFault, M!mmu, mmu, M!Accede, Accede
<1>9. \A mem, d : M!leer_memoria(mem, d) = leer_memoria(mem, d)
  BY <1>1, Zenon DEF M!leer_memoria, leer_memoria
<1>10. \A mem, d, v : M!escribir_memoria(mem, d, v) = escribir_memoria(mem, d, v)
  BY <1>1, Zenon DEF M!escribir_memoria, escribir_memoria
<1>11. \A c, mem, i : M!read_mem(c, mem, i) = read_mem(c, mem, i)
  BY <1>3, <1>4, <1>6, <1>7, <1>9 DEF M!read_mem, read_mem
<1>12. \A c, mem, i : M!write_mem(c, mem, i) = write_mem(c, mem, i)
  BY <1>6, <1>7, <1>10 DEF M!write_mem, write_mem
<1>13. \A h : M!Nuevo(h) = ContextoInicial(Base(h[1]), Limite(h[1]))
  BY Zenon DEF M!Nuevo, M!ContextoInicial, ContextoInicial, M!Registros, Registros
<1> QED
  BY <1>2, <1>5, <1>8, <1>11, <1>12, <1>13

(* The registers of a thread, wherever they are. *)
Inicial(h) == ContextoInicial(Base(h[1]), Limite(h[1]))

EnMaquina(h) ==
    IF Vida(h) # "vivo" THEN Inicial(h)
    ELSE IF CpuTiene(h) THEN contexto
    ELSE devolver_contexto_ejecucion(h)

Maquina_registros == [h \in Hilos |-> EnMaquina(h)]
Maquina_vida == [h \in Hilos |-> Vida(h)]

(* A step that the machine does not see. *)
LEMMA Quieta ==
    ASSUME \A h \in Hilos : Vida(h)' = Vida(h) /\ EnMaquina(h)' = EnMaquina(h), memoria' = memoria
    PROVE  UNCHANGED M!vars
<1>1. Maquina_registros' = Maquina_registros /\ Maquina_vida' = Maquina_vida
  BY DEF Maquina_registros, Maquina_vida
<1> QED
  BY <1>1 DEF M!vars, Maquina_registros, Maquina_vida, EnMaquina, Inicial

(* An instruction of the machine that does not end threads. *)
LEMMA Instruye ==
    ASSUME NEW h \in Hilos, Vida(h) = "vivo", NEW c, c = EnMaquina(h), NEW i,
           c.PC < Len(Programa(h)), i = Programa(h)[c.PC + 1],
           ~SegFault(c, i), i.op \notin Salidas,
           \A k \in Hilos : Vida(k)' = Vida(k),
           \A k \in Hilos \ {h} : EnMaquina(k)' = EnMaquina(k),
           EnMaquina(h)' = IF i.op = "READ_MEM" THEN read_mem(c, memoria, i) ELSE Calcular(c, i),
           memoria' = IF i.op = "WRITE_MEM" THEN write_mem(c, memoria, i) ELSE memoria
    PROVE  M!Next
<1>1. /\ Maquina_vida' = Maquina_vida /\ Maquina_vida[h] = "vivo" /\ Maquina_registros[h] = c
      /\ Maquina_registros' = [Maquina_registros EXCEPT ![h] =
             IF i.op = "READ_MEM" THEN M!read_mem(c, memoria, i) ELSE M!Calcular(c, i)]
      /\ memoria' = IF i.op = "WRITE_MEM" THEN M!write_mem(c, memoria, i) ELSE memoria
      /\ ~M!SegFault(c, i) /\ i.op # "PROCESS_EXIT" /\ i.op # "THREAD_EXIT"
  BY MismasOperaciones DEF Maquina_vida, Maquina_registros, Salidas
<1>2. M!Instruccion(h)
  BY <1>1 DEF M!Instruccion, Maquina_registros, Maquina_vida, EnMaquina, Inicial
<1> QED
  BY <1>2 DEF M!Next

(* Some threads end. *)
Terminaron(hs) ==
    /\ \A k \in Hilos : Vida(k)' = IF k \in hs THEN "muerto" ELSE Vida(k)
    /\ \A k \in Hilos : EnMaquina(k)' = IF k \in hs THEN Inicial(k) ELSE EnMaquina(k)
    /\ memoria' = memoria

(* The threads that end, on the machine. *)
LEMMA Terminan ==
    ASSUME NEW hs, Terminaron(hs)
    PROVE  M!Terminan(hs)
<1>1. /\ Maquina_vida' = [h \in Hilos |-> IF h \in hs THEN "muerto" ELSE Maquina_vida[h]]
      /\ Maquina_registros' =
            [h \in Hilos |-> IF h \in hs THEN M!Nuevo(h) ELSE Maquina_registros[h]]
      /\ memoria' = memoria
  BY MismasOperaciones DEF Terminaron, Maquina_vida, Maquina_registros, Inicial
<1> QED
  BY <1>1 DEF M!Terminan, Maquina_registros, Maquina_vida, EnMaquina, Inicial

(* An instruction of the machine that ends threads. *)
LEMMA Muere ==
    ASSUME NEW h \in Hilos, Vida(h) = "vivo", NEW c, c = EnMaquina(h), NEW i,
           c.PC < Len(Programa(h)), i = Programa(h)[c.PC + 1],
           \/ (SegFault(c, i) \/ i.op = "PROCESS_EXIT") /\ Terminaron({k \in Hilos : k[1] = h[1]})
           \/ i.op = "THREAD_EXIT" /\ Terminaron({h})
    PROVE  M!Next
<1>1. i.op = "THREAD_EXIT" => ~SegFault(c, i)
  BY DEF SegFault, Accede
<1>2. IF M!SegFault(c, i) \/ i.op = "PROCESS_EXIT" THEN M!Terminan(M!DelProceso(h))
      ELSE i.op = "THREAD_EXIT" /\ M!Terminan({h})
  BY <1>1, Terminan, MismasOperaciones DEF M!DelProceso
<1>3. Maquina_vida[h] = "vivo" /\ Maquina_registros[h] = c
  BY DEF Maquina_vida, Maquina_registros
<1>4. M!Instruccion(h)
  BY <1>2, <1>3 DEF M!Instruccion, Maquina_registros, Maquina_vida, EnMaquina, Inicial
<1> QED
  BY <1>4 DEF M!Next

(* A dump that fails, on the machine. *)
LEMMA VuelcaMal ==
    ASSUME NEW h \in Hilos, Vida(h) = "vivo", DumpHecho(h, EnMaquina(h).PC),
           Terminaron({k \in Hilos : k[1] = h[1]})
    PROVE  M!Next
<1>1. M!Terminan(M!DelProceso(h))
  BY Terminan DEF M!DelProceso
<1>2. Maquina_vida[h] = "vivo" /\ Maquina_registros[h] = EnMaquina(h)
  BY DEF Maquina_vida, Maquina_registros
<1>3. M!VolcadoFallido(h)
  BY <1>1, <1>2 DEF M!VolcadoFallido, DumpHecho, Maquina_registros, Maquina_vida, EnMaquina, Inicial
<1> QED
  BY <1>3 DEF M!Next

(* A thread that is born, on the machine. *)
LEMMA Nacio ==
    ASSUME NEW h \in Hilos, Vida(h) = "por_nacer", Vida(h)' = "vivo",
           \A k \in Hilos \ {h} : Vida(k)' = Vida(k),
           \A k \in Hilos : EnMaquina(k)' = EnMaquina(k), memoria' = memoria
    PROVE  M!Next
<1>1. /\ Maquina_vida[h] = "por_nacer" /\ Maquina_vida' = [Maquina_vida EXCEPT ![h] = "vivo"]
      /\ Maquina_registros' = Maquina_registros
  BY DEF Maquina_vida, Maquina_registros
<1>2. M!Nacer(h)
  BY <1>1 DEF M!Nacer, Maquina_registros, Maquina_vida, EnMaquina, Inicial
<1> QED
  BY <1>2 DEF M!Next
-----------------------------------------------------------------------------
(* What each step does on that machine. *)

(* What changes neither registers nor lives is not seen. *)
LEMMA SinCambio ==
    ASSUME UNCHANGED <<existe, terminados, ctx, memoria, contexto>>,
           \A h \in Hilos : CpuTiene(h)' <=> CpuTiene(h)
    PROVE  UNCHANGED M!vars
<1>1. \A h \in Hilos : Vida(h)' = Vida(h)
  BY DEF Vida, Terminado
<1>2. \A h \in Hilos : EnMaquina(h)' = EnMaquina(h)
  BY <1>1 DEF EnMaquina, Inicial, devolver_contexto_ejecucion
<1> QED
  BY <1>1, <1>2, Quieta

(* The threads that a finalisation reaches. *)
LEMMA Alcanzados ==
    ASSUME NEW n \in Nodos, terminados' = terminados \cup {n},
           UNCHANGED <<existe, ctx, memoria>>,
           NEW hs, hs = {k \in Hilos : k = n \/ Proceso(k) = n},
           \A k \in Hilos \ hs : (CpuTiene(k)' <=> CpuTiene(k)) /\ (CpuTiene(k) => contexto' = contexto)
    PROVE  Terminaron(hs)
<1>1. \A k \in Hilos : Terminado(k)' <=> k \in hs \/ Terminado(k)
  BY DEF Terminado
<1>2. \A k \in Hilos : Vida(k)' = IF k \in hs THEN "muerto" ELSE Vida(k)
  BY <1>1 DEF Vida
<1>3. \A k \in Hilos : EnMaquina(k)' = IF k \in hs THEN Inicial(k) ELSE EnMaquina(k)
  BY <1>2 DEF EnMaquina, Inicial, devolver_contexto_ejecucion
<1> QED
  BY <1>2, <1>3 DEF Terminaron

(* The threads that end with a process, and with a thread. *)
LEMMA DelMismoProceso ==
    ASSUME NEW h \in Hilos
    PROVE  /\ {k \in Hilos : k = Proceso(h) \/ Proceso(k) = Proceso(h)} = {k \in Hilos : k[1] = h[1]}
           /\ {k \in Hilos : k = h \/ Proceso(k) = h} = {h}
           /\ Proceso(h) \in Nodos /\ h \in Nodos
<1>1. h \in Nodos /\ Proceso(h) \in Nodos /\ Proceso(h) \notin Hilos
  BY Nombres DEF Nodos
<1>2. \A k \in Hilos : Proceso(k) # h
  BY Nombres DEF Nodos
<1>3. \A k \in Hilos : Proceso(k) = Proceso(h) <=> k[1] = h[1]
  BY DEF Proceso
<1> QED
  BY <1>1, <1>2, <1>3

(* The steps of the kernel are not seen. *)
LEMMA SimulaElKernel ==
    ASSUME Ind,
           PasoKernel \/ (\E h \in Hilos, motivo \in {"IO", "DUMP_MEMORY"} : Despertar(h, motivo))
              \/ UNCHANGED vars
    PROVE  UNCHANGED M!vars
<1>1. /\ UNCHANGED <<existe, terminados, ctx, memoria, contexto, hilo, estado_exec>>
      /\ cpu' = cpu \/ (cpu = "confirmar" /\ cpu' = "chequear")
  <2>1. CASE LpCrearProceso \/ LpConfirmado \/ LpCrearHilo
    BY <2>1 DEF LpCrearProceso, LpConfirmado, LpCrearHilo, memSinTarea, cpuVars
  <2>2. ASSUME NEW k \in Atencion, StsConfirmado(k)
        PROVE  <1>1!1 /\ <1>1!2
    BY <2>2 DEF StsConfirmado, memSinTarea, kernelVars
  <2>3. ASSUME NEW h \in Hilos, NEW motivo \in {"IO", "DUMP_MEMORY"}, Despertar(h, motivo)
        PROVE  <1>1!1 /\ <1>1!2
    BY <2>3 DEF Despertar, memVars, cpuVars
  <2>4. CASE UNCHANGED vars
    BY <2>4 DEF vars, memVars, kernelVars, cpuVars
  <2> QED
    BY <2>1, <2>2, <2>3, <2>4 DEF PasoKernel
<1>2. \A h \in Hilos : CpuTiene(h)' <=> CpuTiene(h)
  BY <1>1 DEF CpuTiene
<1> QED
  BY <1>1, <1>2, SinCambio

(* A dispatch asks for the context, and then it is in the CPU. *)
LEMMA SimulaDespachar ==
    ASSUME Ind, Despachar
    PROVE  UNCHANGED M!vars
<1>1. /\ UNCHANGED <<existe, terminados, ctx, memoria, contexto>>
      /\ cpu = "esperar" /\ estado_exec = Nulo /\ cpu' = "contexto"
  BY DEF Despachar, memSinTarea
<1>2. \A h \in Hilos : ~CpuTiene(h) /\ ~CpuTiene(h)'
  BY <1>1, Nombres DEF CpuTiene, Nodos
<1> QED
  BY <1>1, <1>2, SinCambio

(* A loaded context is what the node kept. *)
LEMMA SimulaCargar ==
    ASSUME Ind, RecibirContexto
    PROVE  UNCHANGED M!vars
<1>1. /\ cpu = "contexto" /\ cpu' = "ciclo" /\ contexto' = devolver_contexto_ejecucion(hilo)
      /\ UNCHANGED <<existe, terminados, ctx, memoria, hilo>>
  BY DEF RecibirContexto, Cpu, listas
<1>2. \A h \in Hilos : Vida(h)' = Vida(h)
  BY <1>1 DEF Vida, Terminado
<1>3. \A h \in Hilos : ~CpuTiene(h) /\ (CpuTiene(h)' <=> h = hilo)
  BY <1>1 DEF CpuTiene
<1>4. \A h \in Hilos : devolver_contexto_ejecucion(h)' = devolver_contexto_ejecucion(h)
  BY <1>1 DEF devolver_contexto_ejecucion
<1>5. \A h \in Hilos : EnMaquina(h)' = EnMaquina(h)
  BY <1>1, <1>2, <1>3, <1>4 DEF EnMaquina, Inicial
<1> QED
  BY <1>1, <1>2, <1>5, Quieta

(* Fetching an instruction is not seen. *)
LEMMA SimulaTraer ==
    ASSUME Ind, PedirInstruccion \/ RecibirInstruccion \/ EjecutarSegFault
    PROVE  UNCHANGED M!vars
<1>1. /\ cpu \in {"ciclo", "fetch", "ejecutar"} /\ cpu' \in {"fetch", "ejecutar", "seg_fault"}
      /\ UNCHANGED <<existe, terminados, ctx, memoria, contexto, hilo>>
  BY DEF PedirInstruccion, RecibirInstruccion, EjecutarSegFault, Cpu, memSinTarea, listas
<1>2. \A h \in Hilos : CpuTiene(h)' <=> CpuTiene(h)
  BY <1>1 DEF CpuTiene
<1> QED
  BY <1>1, <1>2, SinCambio

(* The thread that the CPU executes, on that machine. *)
LEMMA EnElCpu ==
    ASSUME Ind, Contextos, ProgramasCorrectos, cpu \in {"ejecutar", "avisar"}
    PROVE  /\ hilo \in Hilos /\ Vida(hilo) = "vivo" /\ EnMaquina(hilo) = contexto
           /\ \A k \in Hilos : CpuTiene(k) <=> k = hilo
           /\ instr.op # "PC INVALIDO" =>
                 contexto.PC < Len(Programa(hilo)) /\ instr = Programa(hilo)[contexto.PC + 1]
<1>1. hilo \in Hilos /\ hilo \in existe /\ ~Terminado(hilo)
  BY AlEjecutar DEF Corre, Admitido
<1>2. Vida(hilo) = "vivo"
  BY <1>1 DEF Vida
<1>3. \A k \in Hilos : CpuTiene(k) <=> k = hilo
  BY DEF CpuTiene
<1>4. EnMaquina(hilo) = contexto
  BY <1>1, <1>2, <1>3 DEF EnMaquina
<1> QED
  BY <1>1, <1>2, <1>3, <1>4, Traida

(* An instruction that does not end its thread. *)
LEMMA Ejecutada ==
    ASSUME Ind, Contextos, ProgramasCorrectos, cpu = "ejecutar", cpu' \in {"chequear", "dump"},
           instr.op \notin Salidas \cup {"PC INVALIDO"}, ~SegFault(contexto, instr),
           UNCHANGED <<existe, terminados, ctx, hilo>>,
           contexto' = IF instr.op = "READ_MEM" THEN read_mem(contexto, memoria, instr)
                       ELSE Calcular(contexto, instr),
           memoria' = IF instr.op = "WRITE_MEM" THEN write_mem(contexto, memoria, instr)
                      ELSE memoria
    PROVE  M!Next
<1>1. /\ hilo \in Hilos /\ Vida(hilo) = "vivo" /\ EnMaquina(hilo) = contexto
      /\ \A k \in Hilos : CpuTiene(k) <=> k = hilo
      /\ contexto.PC < Len(Programa(hilo)) /\ instr = Programa(hilo)[contexto.PC + 1]
  BY EnElCpu
<1>2. PICK h, c, i : h = hilo /\ c = contexto /\ i = instr
  OBVIOUS
<1>3. \A k \in Hilos : Vida(k)' = Vida(k)
  BY DEF Vida, Terminado
<1>4. \A k \in Hilos : CpuTiene(k)' <=> k = h
  BY <1>2 DEF CpuTiene
<1>5. /\ EnMaquina(h)' = contexto'
      /\ \A k \in Hilos \ {h} : EnMaquina(k)' = EnMaquina(k)
  BY <1>1, <1>2, <1>3, <1>4 DEF EnMaquina, Inicial, devolver_contexto_ejecucion
<1>6. /\ h \in Hilos /\ Vida(h) = "vivo" /\ c = EnMaquina(h)
      /\ c.PC < Len(Programa(h)) /\ i = Programa(h)[c.PC + 1]
      /\ ~SegFault(c, i) /\ i.op \notin Salidas
      /\ EnMaquina(h)' = IF i.op = "READ_MEM" THEN read_mem(c, memoria, i) ELSE Calcular(c, i)
      /\ memoria' = IF i.op = "WRITE_MEM" THEN write_mem(c, memoria, i) ELSE memoria
  BY <1>1, <1>2, <1>5
<1> QED
  BY <1>3, <1>5, <1>6, Instruye

(* Instructions on registers and syscalls. *)
LEMMA SimulaEjecutar ==
    ASSUME Ind, Contextos, ProgramasCorrectos,
           EjecutarCalculo \/ EjecutarIO \/ EjecutarThreadCreate \/ EjecutarDump
    PROVE  M!Next \/ UNCHANGED M!vars
<1>1. /\ cpu = "ejecutar" /\ cpu' \in {"chequear", "dump"}
      /\ instr.op \notin Salidas \cup {"READ_MEM", "WRITE_MEM"}
      /\ contexto' = IF instr.op = "PC INVALIDO" THEN contexto ELSE Calcular(contexto, instr)
      /\ UNCHANGED <<existe, terminados, ctx, memoria, hilo>>
  BY DEF EjecutarCalculo, EjecutarIO, EjecutarThreadCreate, EjecutarDump, Cpu, memVars,
         memSinTarea, Salidas
<1>2. CASE instr.op = "PC INVALIDO"
  <2>1. \A h \in Hilos : CpuTiene(h)' <=> CpuTiene(h)
    BY <1>1 DEF CpuTiene
  <2> QED
    BY <1>1, <1>2, <2>1, SinCambio
<1>3. CASE instr.op # "PC INVALIDO"
  <2>1. ~SegFault(contexto, instr)
    BY <1>1 DEF SegFault, Accede
  <2> QED
    BY <1>1, <1>3, <2>1, Ejecutada
<1> QED
  BY <1>2, <1>3

(* Accesses to the memory. *)
LEMMA SimulaAcceder ==
    ASSUME Ind, Contextos, ProgramasCorrectos, EjecutarAcceso
    PROVE  M!Next \/ UNCHANGED M!vars
<1>1. /\ cpu = "ejecutar" /\ cpu' = "chequear" /\ Accede(instr) /\ ~SegFault(contexto, instr)
      /\ UNCHANGED <<ctx, hilo, existe, terminados>>
      /\ IF FueraDeMemoria(contexto, instr) THEN UNCHANGED <<memoria, contexto>>
         ELSE /\ contexto' = IF instr.op = "READ_MEM" THEN read_mem(contexto, memoria, instr)
                             ELSE incrementar_pc(contexto)
              /\ memoria' = IF instr.op = "WRITE_MEM" THEN write_mem(contexto, memoria, instr)
                            ELSE memoria
  BY DEF EjecutarAcceso, Cpu
<1>2. CASE FueraDeMemoria(contexto, instr)
  <2>1. \A h \in Hilos : CpuTiene(h)' <=> CpuTiene(h)
    BY <1>1 DEF CpuTiene
  <2> QED
    BY <1>1, <1>2, <2>1, SinCambio
<1>3. CASE ~FueraDeMemoria(contexto, instr)
  <2>1. instr.op \in {"READ_MEM", "WRITE_MEM"} /\ instr.op \notin Salidas \cup {"PC INVALIDO"}
    BY <1>1 DEF Accede, Salidas
  <2>2. instr.op = "WRITE_MEM" => Calcular(contexto, instr) = incrementar_pc(contexto)
    BY DEF Calcular
  <2> QED
    BY <1>1, <1>3, <2>1, <2>2, Ejecutada
<1> QED
  BY <1>2, <1>3

(* PROCESS_EXIT, THREAD_EXIT, and a segmentation fault. *)
LEMMA SimulaTerminar ==
    ASSUME Ind, Contextos, ProgramasCorrectos,
           AvisarSegFault \/ EjecutarProcessExit \/ EjecutarThreadExit
    PROVE  M!Next
<1>1. /\ cpu \in {"ejecutar", "avisar"}
      /\ UNCHANGED <<existe, ctx, memoria, hilo>>
      /\ \/ (cpu = "avisar" \/ instr.op = "PROCESS_EXIT")
               /\ terminados' = terminados \cup {Proceso(hilo)}
         \/ cpu = "ejecutar" /\ instr.op = "THREAD_EXIT" /\ terminados' = terminados \cup {hilo}
  BY DEF AvisarSegFault, EjecutarProcessExit, EjecutarThreadExit, FinalizarProceso, Cpu,
         memSinTarea
<1>2. cpu = "avisar" => SegFault(contexto, instr)
  BY DEF Contextos, EnEjecucion
<1>3. instr.op # "PC INVALIDO"
  BY <1>1, <1>2 DEF SegFault, Accede
<1>4. /\ hilo \in Hilos /\ Vida(hilo) = "vivo" /\ EnMaquina(hilo) = contexto
      /\ \A k \in Hilos : CpuTiene(k) <=> k = hilo
      /\ contexto.PC < Len(Programa(hilo)) /\ instr = Programa(hilo)[contexto.PC + 1]
  BY <1>1, <1>3, EnElCpu
<1>5. PICK h, c, i : h = hilo /\ c = contexto /\ i = instr
  OBVIOUS
<1>6. \A k \in Hilos : k # h => ~CpuTiene(k) /\ ~CpuTiene(k)'
  BY <1>1, <1>4, <1>5 DEF CpuTiene
<1>7. CASE (cpu = "avisar" \/ instr.op = "PROCESS_EXIT")
              /\ terminados' = terminados \cup {Proceso(hilo)}
  <2>1. PICK n, hs : n = Proceso(h) /\ hs = {k \in Hilos : k[1] = h[1]}
    OBVIOUS
  <2>2. n \in Nodos /\ hs = {k \in Hilos : k = n \/ Proceso(k) = n} /\ h \in hs
    BY <1>4, <1>5, <2>1, DelMismoProceso
  <2>3. terminados' = terminados \cup {n}
    BY <1>5, <1>7, <2>1
  <2>4. Terminaron(hs)
    BY <1>1, <1>6, <2>2, <2>3, Alcanzados
  <2> QED
    BY <1>2, <1>4, <1>5, <1>7, <2>1, <2>4, Muere
<1>8. CASE instr.op = "THREAD_EXIT" /\ terminados' = terminados \cup {hilo}
  <2>1. PICK hs : hs = {h}
    OBVIOUS
  <2>2. h \in Nodos /\ hs = {k \in Hilos : k = h \/ Proceso(k) = h}
    BY <1>4, <1>5, <2>1, DelMismoProceso
  <2>3. terminados' = terminados \cup {h}
    BY <1>5, <1>8
  <2>4. Terminaron(hs)
    BY <1>1, <1>6, <2>1, <2>2, <2>3, Alcanzados
  <2> QED
    BY <1>4, <1>5, <1>8, <2>1, <2>4, Muere
<1> QED
  BY <1>1, <1>7, <1>8

(* The failed dump is of a thread that is past its DUMP_MEMORY. *)
LEMMA SimulaVolcadoFallido ==
    ASSUME Ind, Contextos, ~Solapadas, NEW h \in Hilos, VolcadoFallido(h)
    PROVE  M!Next
<1>1. /\ cpu = "esperar" /\ <<h, "DUMP_MEMORY">> \in bloqueados
      /\ terminados' = terminados \cup {Proceso(h)}
      /\ UNCHANGED <<existe, ctx, memoria, estado_exec, cpu, hilo, contexto>>
  BY DEF VolcadoFallido, memSinTarea, cpuVars
<1>2. Corre(h) /\ h # estado_exec
  <2>1. PICK b : b = <<h, "DUMP_MEMORY">>
    OBVIOUS
  <2>2. b[1] = h /\ b \in bloqueados
    BY <1>1, <2>1
  <2>3. Planificados /\ h # Nulo
    BY DeInd, Nombres DEF Nodos
  <2> QED
    BY <2>2, <2>3 DEF Planificados, Dormidos
<1>3. Vida(h) = "vivo"
  BY <1>2 DEF Vida, Corre, Admitido
<1>4. ~CpuTiene(h)
  BY <1>1, <1>2 DEF CpuTiene
<1>5. EnMaquina(h).PC = ctx[h].PC
  <2>1. ctx[h] \in [Registros -> Nat]
    BY DEF Contextos, Palabras
  <2>2. devolver_contexto_ejecucion(h).PC = ctx[h].PC
    BY <2>1 DEF devolver_contexto_ejecucion, Registros
  <2> QED
    BY <1>3, <1>4, <2>2 DEF EnMaquina
<1>6. DumpHecho(h, EnMaquina(h).PC)
  BY <1>1, <1>5 DEF Contextos, Volcados
<1>7. \A k \in Hilos : CpuTiene(k)' <=> CpuTiene(k)
  BY <1>1 DEF CpuTiene
<1>8. Terminaron({k \in Hilos : k[1] = h[1]})
  <2>1. PICK n, hs : n = Proceso(h) /\ hs = {k \in Hilos : k[1] = h[1]}
    OBVIOUS
  <2>2. n \in Nodos /\ hs = {k \in Hilos : k = n \/ Proceso(k) = n}
    BY <2>1, DelMismoProceso
  <2>3. terminados' = terminados \cup {n}
    BY <1>1, <2>1
  <2>4. Terminaron(hs)
    BY <1>1, <1>7, <2>2, <2>3, Alcanzados
  <2> QED
    BY <2>1, <2>4
<1> QED
  BY <1>3, <1>6, <1>8, VuelcaMal

(* A saved context is what the thread will load. *)
LEMMA SimulaGuardar ==
    ASSUME Ind, Contextos, ActualizarSegFault \/ ActualizarDump \/ Salir
    PROVE  UNCHANGED M!vars
<1>1. /\ cpu \in {"seg_fault", "dump", "actualizar"} /\ Actualizar(contexto)
      /\ UNCHANGED <<existe, memoria, hilo, contexto, instr, terminados>>
      /\ cpu' \in {"avisar", "volcar"} \/ (cpu' = "esperar" /\ estado_exec' \in {Nulo, estado_exec})
      /\ cpu' = "esperar" => cpu = "actualizar" /\ (instr.op = "IO" \/ estado_exec' = Nulo)
  BY DEF ActualizarSegFault, ActualizarDump, Salir, Cpu, Actualizar, listas
<1>2. /\ hilo \in Hilos /\ contexto.Base = Base(hilo[1]) /\ contexto.Limite = Limite(hilo[1])
      /\ ctx' = [ctx EXCEPT ![hilo] = actualizar_contexto_ejecucion(hilo, contexto)]
  BY <1>1 DEF Contextos, EnEjecucion, Actualizar
<1>3. PICK h : h = hilo
  OBVIOUS
<1>4. /\ devolver_contexto_ejecucion(h)' = contexto
      /\ \A k \in Hilos \ {h} : devolver_contexto_ejecucion(k)' = devolver_contexto_ejecucion(k)
  <2>1. /\ h \in Hilos /\ ctx' = [ctx EXCEPT ![h] = actualizar_contexto_ejecucion(h, contexto)]
        /\ contexto.Base = Base(h[1]) /\ contexto.Limite = Limite(h[1]) /\ contexto' = contexto
    BY <1>1, <1>2, <1>3
  <2> QED
    BY <1>1, <2>1, Guarda
<1>5. \A k \in Hilos : Vida(k)' = Vida(k)
  BY <1>1 DEF Vida, Terminado
<1>6. \A k \in Hilos : (CpuTiene(k) <=> k = h) /\ (CpuTiene(k)' => k = h)
  BY <1>1, <1>3 DEF CpuTiene
<1>7. \A k \in Hilos : EnMaquina(k)' = EnMaquina(k)
  BY <1>1, <1>4, <1>5, <1>6 DEF EnMaquina, Inicial
<1> QED
  BY <1>1, <1>5, <1>7, Quieta

(* The kernel asks for the dump of a thread that saved its context. *)
LEMMA SimulaPedirDump ==
    ASSUME PedirDump
    PROVE  UNCHANGED M!vars
<1>1. /\ cpu = "volcar" /\ cpu' = "chequear"
      /\ UNCHANGED <<existe, terminados, ctx, memoria, hilo, contexto>>
  BY DEF PedirDump, Cpu, memSinTarea
<1>2. \A h \in Hilos : CpuTiene(h)' <=> CpuTiene(h)
  BY <1>1 DEF CpuTiene
<1> QED
  BY <1>1, <1>2, SinCambio

(* A thread that leaves the CPU had saved its context, or ended. *)
LEMMA SimulaChequear ==
    ASSUME Ind, Contextos, NEW hay \in BOOLEAN, Chequear(hay)
    PROVE  UNCHANGED M!vars
<1>1. /\ cpu = "chequear" /\ cpu' \in {"esperar", "actualizar", "ciclo"}
      /\ UNCHANGED <<existe, terminados, ctx, memoria, hilo, contexto, instr, estado_exec>>
      /\ cpu' = "esperar" => instr.op # "IO" /\ (Omite \/ instr.op = "PC INVALIDO")
  BY DEF Chequear, Cpu, memSinTarea
<1>2. CpuBien /\ hilo \in Hilos
  BY <1>1, DeInd DEF Contextos, EnEjecucion
<1>3. \A k \in Hilos : Vida(k)' = Vida(k)
  BY <1>1 DEF Vida, Terminado
<1>4. \A k \in Hilos : (CpuTiene(k) <=> k = hilo) /\ (CpuTiene(k)' => k = hilo)
  BY <1>1 DEF CpuTiene
<1>5. \A k \in Hilos : devolver_contexto_ejecucion(k)' = devolver_contexto_ejecucion(k)
  BY <1>1 DEF devolver_contexto_ejecucion
<1>6. EnMaquina(hilo)' = EnMaquina(hilo)
  <2>1. PICK h : h = hilo
    OBVIOUS
  <2>2. CASE CpuTiene(h)'
    BY <1>1, <1>2, <1>3, <1>4, <2>1, <2>2 DEF EnMaquina, Inicial
  <2>3. CASE ~CpuTiene(h)'
    <3>1. cpu' = "esperar" /\ estado_exec # hilo
      BY <1>1, <2>1, <2>3 DEF CpuTiene
    <3>2. Omite
      BY <1>1, <1>2, <3>1 DEF CpuBien
    <3>3. instr.op = "DUMP_MEMORY" \/ instr.op \in Salidas
      BY <1>1, <3>1, <3>2 DEF Omite, Salidas
    <3>4. contexto = devolver_contexto_ejecucion(hilo) \/ Terminado(hilo)
      BY <1>1, <3>3 DEF Contextos, EnEjecucion, Guardado
    <3> QED
      BY <1>1, <1>2, <1>3, <1>4, <1>5, <2>1, <2>3, <3>4 DEF EnMaquina, Inicial, Vida
  <2> QED
    BY <1>1, <2>1, <2>2, <2>3
<1>7. \A k \in Hilos : EnMaquina(k)' = EnMaquina(k)
  <2> SUFFICES ASSUME NEW k \in Hilos, k # hilo
               PROVE  EnMaquina(k)' = EnMaquina(k)
    BY <1>1, <1>6
  <2> QED
    BY <1>3, <1>4, <1>5 DEF EnMaquina, Inicial
<1> QED
  BY <1>1, <1>3, <1>7, Quieta

(* A node that is linked may be a thread that is born; those that are      *)
(* unlinked had ended.                                                     *)
LEMMA SimulaMemoria ==
    ASSUME Ind, Contextos, ProgramasCorrectos, NEW k \in Atencion, PasoMemoria(k),
           UNCHANGED <<kernelVars, cpuVars>>
    PROVE  M!Next \/ UNCHANGED M!vars
<1>1. /\ UNCHANGED <<estado_exec, terminados, cpu, hilo, contexto>>
      /\ MemTipo /\ Enlazadas /\ Tareas /\ Separadas
  BY DeInd DEF kernelVars, cpuVars
<1>2. /\ \A h : Terminado(h)' <=> Terminado(h)
      /\ \A h \in Hilos : CpuTiene(h)' <=> CpuTiene(h)
  BY <1>1 DEF Terminado, CpuTiene
<1>3. CASE Entrar(k) \/ Avanzar(k) \/ Volcar(k)
  <2>1. UNCHANGED <<existe, ctx, memoria>>
    BY <1>3 DEF Entrar, Avanzar, Volcar, Caer
  <2> QED
    BY <1>1, <1>2, <2>1, SinCambio
<1>4. ASSUME NEW n \in existe, Terminado(n), existe' = existe \ {n}, UNCHANGED <<ctx, memoria>>
      PROVE  UNCHANGED M!vars
  <2>1. \A h \in Hilos : Vida(h)' = Vida(h)
    BY <1>2, <1>4 DEF Vida
  <2>2. \A h \in Hilos : EnMaquina(h)' = EnMaquina(h)
    BY <1>1, <1>2, <1>4, <2>1 DEF EnMaquina, Inicial, devolver_contexto_ejecucion
  <2> QED
    BY <1>4, <2>1, <2>2, Quieta
<1>5. CASE VaciarHilos(k)
  <2>1. PICK n \in existe : n \in Hilos /\ Proceso(n) = tarea[k].nodo /\ existe' = existe \ {n}
    BY <1>1, <1>5, PasoVaciar
  <2>2. tarea[k].op \in Bajas /\ UNCHANGED <<ctx, memoria>>
    BY <1>1, <1>5, PasoVaciar
  <2>3. Terminado(n)
    BY <1>1, <2>1, <2>2, Finaliza DEF Terminado
  <2> QED
    BY <1>4, <2>1, <2>2, <2>3
<1>6. CASE Desenlazar(k)
  <2>1. PICK n : n = tarea[k].nodo
    OBVIOUS
  <2>2. tarea[k].op \in Bajas /\ UNCHANGED <<ctx, memoria>> /\ existe' = existe \ {n}
    BY <1>1, <1>6, <2>1, PasoDesenlazar
  <2>3. n \in existe /\ Terminado(n)
    BY <1>1, <2>1, <2>2, Finaliza DEF Terminado
  <2> QED
    BY <1>4, <2>2, <2>3
<1>7. CASE Enlazar(k)
  <2>1. PICK n : n = tarea[k].nodo
    OBVIOUS
  <2>2. /\ tarea[k].op \in Altas /\ n \in Nodos
        /\ existe' = existe \cup {n} /\ UNCHANGED memoria
        /\ ctx' = [h \in Hilos |-> IF h = n THEN Inicial(h) ELSE ctx[h]]
    BY <1>1, <1>7, <2>1, PasoEnlazar DEF Inicial
  <2>3. ~Terminado(n) /\ n \notin existe
    BY <2>1, <2>2, SinTerminar
  <2>4. \A h \in Hilos \ {n} : ctx'[h] = ctx[h] /\ Vida(h)' = Vida(h)
    BY <1>2, <2>2 DEF Vida
  <2>5. \A h \in Hilos \ {n} : EnMaquina(h)' = EnMaquina(h)
    BY <1>1, <1>2, <2>4 DEF EnMaquina, Inicial, devolver_contexto_ejecucion
  <2>6. CASE n \in Hilos
    <3>1. Vida(n) = "por_nacer" /\ Vida(n)' = "vivo"
      BY <1>2, <2>2, <2>3 DEF Vida
    <3>2. ~CpuTiene(n)'
      <4>1. n # Nulo
        BY <2>2, Nombres
      <4>2. ~CpuTiene(n)
        BY <2>3, <4>1 DEF CpuTiene, Contextos, EnEjecucion
      <4> QED
        BY <1>2, <2>6, <4>2
    <3>3. ctx'[n] = Inicial(n)
      BY <2>2, <2>6
    <3>4. devolver_contexto_ejecucion(n)' = Inicial(n)
      <4>1. [Inicial(n) EXCEPT !.Base = Base(n[1]), !.Limite = Limite(n[1])] = Inicial(n)
        BY DEF Inicial, ContextoInicial
      <4> QED
        BY <3>3, <4>1 DEF devolver_contexto_ejecucion
    <3>5. EnMaquina(n)' = EnMaquina(n)
      BY <3>1, <3>2, <3>4 DEF EnMaquina, Inicial
    <3> QED
      BY <2>2, <2>4, <2>5, <2>6, <3>1, <3>5, Nacio
  <2>7. CASE n \notin Hilos
    BY <2>2, <2>4, <2>5, <2>7, Quieta
  <2> QED
    BY <2>6, <2>7
<1> QED
  BY <1>3, <1>5, <1>6, <1>7 DEF PasoMemoria

(* Both start alike. *)
LEMMA ArrancaLaMaquina ==
    ASSUME Init
    PROVE  M!Init
<1>1. existe = {} /\ terminados = {} /\ memoria = [d \in 0..TAM_MEMORIA - 1 |-> 0]
  BY DEF Init, MInit
<1>2. \A h \in Hilos : Vida(h) = "por_nacer"
  BY <1>1 DEF Vida, Terminado
<1>3. \A h \in Hilos : EnMaquina(h) = M!Nuevo(h)
  BY <1>2, MismasOperaciones DEF EnMaquina, Inicial
<1>4. Maquina_vida = [h \in Hilos |-> "por_nacer"] /\ Maquina_registros = [h \in Hilos |-> M!Nuevo(h)]
  BY <1>2, <1>3 DEF Maquina_vida, Maquina_registros
<1> QED
  BY <1>1, <1>4 DEF M!Init, Maquina_vida, Maquina_registros, EnMaquina, Inicial

(* Every step is one of the machine, or is not seen. *)
LEMMA Simulacion ==
    ASSUME Ind, Contextos, ProgramasCorrectos, ~Solapadas, [Next]_vars
    PROVE  M!Next \/ UNCHANGED M!vars
<1>1. CASE PasoKernel \/ (\E h \in Hilos, motivo \in {"IO", "DUMP_MEMORY"} : Despertar(h, motivo))
              \/ UNCHANGED vars
  BY <1>1, SimulaElKernel
<1>2. CASE Despachar
  BY <1>2, SimulaDespachar
<1>3. CASE PasoCpu
  <2>1. CASE RecibirContexto
    BY <2>1, SimulaCargar
  <2>2. CASE PedirInstruccion \/ RecibirInstruccion \/ EjecutarSegFault
    BY <2>2, SimulaTraer
  <2>3. CASE EjecutarCalculo \/ EjecutarIO \/ EjecutarThreadCreate \/ EjecutarDump
    BY <2>3, SimulaEjecutar
  <2>4. CASE EjecutarAcceso
    BY <2>4, SimulaAcceder
  <2>5. CASE AvisarSegFault \/ EjecutarProcessExit \/ EjecutarThreadExit
    BY <2>5, SimulaTerminar
  <2>6. CASE ActualizarSegFault \/ ActualizarDump \/ Salir
    BY <2>6, SimulaGuardar
  <2>7. CASE Chequear(TRUE) \/ Chequear(FALSE)
    <3>1. PICK hay \in BOOLEAN : Chequear(hay)
      BY <2>7
    <3> QED
      BY <3>1, SimulaChequear
  <2>8. CASE PedirDump
    BY <2>8, SimulaPedirDump
  <2> QED
    BY <1>3, <2>1, <2>2, <2>3, <2>4, <2>5, <2>6, <2>7, <2>8 DEF PasoCpu
<1>4. ASSUME NEW h \in Hilos, VolcadoFallido(h)
      PROVE  M!Next
  BY <1>4, SimulaVolcadoFallido
<1>5. ASSUME NEW k \in Atencion, PasoMemoria(k), UNCHANGED <<kernelVars, cpuVars>>
      PROVE  M!Next \/ UNCHANGED M!vars
  BY <1>5, SimulaMemoria
<1> QED
  BY <1>1, <1>2, <1>3, <1>4, <1>5 DEF Next

(* Loading, fetching, saving and the walks of the memory add up to whole   *)
(* instructions: every thread computes what it would on a machine of its   *)
(* own, whatever gets in between, if no program writes its own base or     *)
(* limit.                                                                  *)
THEOREM SimulaLaMaquina ==
    ASSUME ~Solapadas, ProgramasCorrectos
    PROVE  Spec /\ []SinDobles => ImplementaMaquina
<1>1. Init => M!Init
  BY ArrancaLaMaquina
<1>2. Ind /\ Contextos /\ [Next]_vars => [M!Next]_M!vars
  BY Simulacion
<1>3. Spec /\ []SinDobles => []Ind
  BY Invariante
<1>4. Spec /\ []SinDobles => []Contextos
  BY ContextosCorrectos
<1> QED
  BY <1>1, <1>2, <1>3, <1>4, PTL DEF Spec, ImplementaMaquina, M!Spec

(* The refinement, without the hypothesis on the creations. *)
COROLLARY MaquinaConUnaHuerfana ==
    ASSUME ~Solapadas, ProgramasCorrectos, NEW c, Huerfanas = {c}
    PROVE  Spec => ImplementaMaquina
<1>1. []SinDobles
  BY ConUnaHuerfana
<1> QED
  BY <1>1, SimulaLaMaquina, PTL
=============================================================================
