------------------------- MODULE Particiones_proofs -------------------------
(***************************************************************************)
(* Proofs about Particiones, for any memory, any sizes, any configuration  *)
(* and any set of processes.  The search chooses what the algorithm says   *)
(* whatever the list is.  With one request at a time the list tiles the    *)
(* memory, room is monotone, every process owns exactly one partition and  *)
(* two passes of the consolidation are enough; with more, the index or the *)
(* pointer that a handler keeps may be stale, and none of it holds.        *)
(***************************************************************************)
EXTENDS Particiones, Listas

-----------------------------------------------------------------------------
(* The inductive invariants. *)

Fichas == [base : Nat, limite : Nat, tamanio : Nat, esta_libre : BOOLEAN,
           pid : Procesos \cup {SinPid}, punteros : SUBSET Procesos]

Tareas == {"ausente", "partir", "asignar", "presente", "buscar", "desasignar",
           "consolidar", "reconsolidar", "quitar"}

(* The types, without the bounds of TypeOK, which the partitions of the    *)
(* configuration file respect only if their sum fits in the memory.        *)
Tipos ==
    /\ config \in Configuraciones
    /\ particiones \in Seq(Fichas)
    /\ proceso \in [Procesos -> [base : Nat, limite : Nat, tamanio : Tamanios \cup {0}]]
    /\ tarea \in [Procesos -> Tareas]
    /\ indice \in Nat
    /\ pid_auxiliar \in Procesos \cup {SinPid}
    /\ caida \in BOOLEAN

(* No partition passes the last address that a word holds. *)
Acotadas ==
    \A i \in 1..Len(particiones) : particiones[i].base + particiones[i].tamanio < Palabra

(* The index that a creation keeps is not stale. *)
Vigente ==
    \A p \in Procesos : tarea[p] = "partir" =>
        /\ Dinamicas /\ indice \in 1..Len(particiones)
        /\ Cabe(particiones, indice, proceso[p].tamanio)

InvParticiones == Tipos /\ Cobertura /\ Acotadas /\ Vigente

(* With one request at a time: where each pointer and each PID is. *)
Duenio == {"presente", "buscar", "desasignar"}

Orden ==
    /\ ~ caida
    /\ \A p, q \in EnCurso : p = q
    /\ \A p \in Procesos : tarea[p] = "buscar" => pid_auxiliar = p

Punteros ==
    /\ \A i \in 1..Len(particiones) : \A p \in particiones[i].punteros :
          /\ tarea[p] \in {"asignar", "desasignar"}
          /\ tarea[p] = "asignar" => /\ particiones[i].pid = SinPid
                                     /\ particiones[i].tamanio >= proceso[p].tamanio
          /\ tarea[p] = "desasignar" => particiones[i].pid = p
          /\ \A j \in 1..Len(particiones) : p \in particiones[j].punteros => i = j
    /\ \A p \in Procesos : tarea[p] \in {"asignar", "desasignar"} =>
          \E i \in 1..Len(particiones) : p \in particiones[i].punteros

Pertenencia ==
    /\ \A i \in 1..Len(particiones) :
          /\ particiones[i].esta_libre <=> particiones[i].pid = SinPid
          /\ \A p \in Procesos : particiones[i].pid = p =>
                /\ tarea[p] \in Duenio
                /\ particiones[i].base = proceso[p].base
                /\ proceso[p].limite = proceso[p].base + particiones[i].tamanio
                /\ particiones[i].tamanio >= proceso[p].tamanio
                /\ \A j \in 1..Len(particiones) : particiones[j].pid = p => i = j
    /\ \A p \in Procesos : tarea[p] \in Duenio =>
          \E i \in 1..Len(particiones) : particiones[i].pid = p

(* The pairs of free neighbours of the dynamic scheme: only around the     *)
(* partition being created or the one just freed.                          *)
Vecinas ==
    Dinamicas =>
        /\ ParesLibres(particiones) # {} =>
              \E p \in Procesos : tarea[p] \in {"asignar", "consolidar", "reconsolidar"}
        /\ \A p \in Procesos : \A k, l \in ParesLibres(particiones) :
              /\ tarea[p] = "asignar" => p \in particiones[k].punteros
              /\ tarea[p] = "consolidar" => l <= k + 1
              /\ tarea[p] = "reconsolidar" => l = k

InvDeAUno == InvParticiones /\ Orden /\ Punteros /\ Pertenencia /\ Vecinas

-----------------------------------------------------------------------------
(* The two loops. *)

(* What SeleccionCorrecta asks of the loop of buscar_particion_libre: by   *)
(* induction on the partitions seen, the one selected is the first of the  *)
(* best ones that fit.                                                     *)
Mejores(ps, t) ==
    LET libres == {i \in 1..Len(ps) : Cabe(ps, i, t)}
        tam(i) == ps[i].tamanio
    IN  {i \in libres : \A j \in libres :
            /\ config.algoritmo = "BEST" => tam(i) <= tam(j)
            /\ config.algoritmo = "WORST" => tam(i) >= tam(j)}

(* buscar_particion_libre: the first of the partitions that the            *)
(* algorithm prefers, or none if none fits.                                *)
LEMMA SeleccionDe ==
    ASSUME NEW ps \in Seq(Fichas), NEW t, config \in Configuraciones
    PROVE  LET s == Seleccion(ps, t)
               libres == {i \in 1..Len(ps) : Cabe(ps, i, t)}
           IN  IF libres = {} THEN s = 0
               ELSE s \in Mejores(ps, t) /\ \A j \in Mejores(ps, t) : s <= j
<1> DEFINE N == Len(ps)
           libres == {i \in 1..N : Cabe(ps, i, t)}
           mejora(i, s) == s = 0 \/ Mejora(ps[i], ps[s])
           elige(s, i) == IF Cabe(ps, i, t) /\ mejora(i, s) THEN i ELSE s
           Recorre(g) == g = [i \in 0..N |-> IF i = 0 THEN 0 ELSE elige(g[i - 1], i)]
           sel == CHOOSE g : Recorre(g)
<1>1. Seleccion(ps, t) = sel[N]
  BY Zenon DEF Seleccion
<1>2. N \in Nat
  BY LenProperties
<1>3. \E g : Recorre(g)
  <2> DEFINE paso == [s \in Nat |-> [i \in Nat |-> elige(s, i)]]
  <2>1. paso \in [Nat -> [Nat -> Nat]]
    OBVIOUS
  <2>2. \A s, i \in Nat : paso[s][i] = elige(s, i)
    OBVIOUS
  <2> HIDE DEF paso, elige
  <2>3. PICK f \in [0..N -> Nat] : f[0] = 0 /\ \A n \in 1..N : f[n] = paso[f[n - 1]][n]
    <3>1. \A b \in Nat : Iteradas(Nat, b, paso, N) # {}
      BY <1>2, <2>1, Recurrencia
    <3>2. PICK f \in Iteradas(Nat, 0, paso, N) : TRUE
      BY <3>1
    <3> QED
      BY <3>2 DEF Iteradas
  <2>4. \A i \in 0..N : f[i] = IF i = 0 THEN 0 ELSE elige(f[i - 1], i)
    <3> SUFFICES ASSUME NEW i \in 1..N
                 PROVE  f[i] = elige(f[i - 1], i)
      BY <1>2, <2>3
    <3>1. i - 1 \in 0..N /\ f[i - 1] \in Nat /\ i \in Nat
      BY <1>2
    <3> QED
      BY <2>2, <2>3, <3>1
  <2>5. Recorre(f)
    BY <2>4
  <2> HIDE DEF Recorre
  <2> QED
    BY <2>5
<1>4. Recorre(sel)
  BY <1>3, Zenon
<1> HIDE DEF sel
<1>5. sel[0] = 0 /\ \A i \in 1..N : sel[i] = elige(sel[i - 1], i)
  <2> HIDE DEF elige
  <2>1. \A i \in 0..N : sel[i] = IF i = 0 THEN 0 ELSE elige(sel[i - 1], i)
    BY <1>4
  <2> QED
    BY <1>2, <2>1
<1>6. \A i \in 1..N : ps[i] \in Fichas
  BY ElementOfSeq
<1>7. config.algoritmo \in {"FIRST", "BEST", "WORST"}
  BY ParticionesAssumption
<1> DEFINE tam(i) == ps[i].tamanio
           alg == config.algoritmo
           (* s goes before j: it is better, or as good and earlier *)
           antes(s, j) == \/ alg = "FIRST" /\ s <= j
                          \/ alg = "BEST" /\ (tam(s) < tam(j) \/ (tam(s) = tam(j) /\ s <= j))
                          \/ alg = "WORST" /\ (tam(s) > tam(j) \/ (tam(s) = tam(j) /\ s <= j))
           bien(n) == \/ sel[n] = 0 /\ \A j \in libres : j > n
                      \/ /\ sel[n] \in libres /\ sel[n] <= n
                         /\ \A j \in libres : j <= n => antes(sel[n], j)
           P == {n \in Nat : n <= N => bien(n)}
<1>8. \A i \in 1..N : tam(i) \in Nat
  BY <1>6 DEF Fichas
<1>9. 0 \in P
  BY <1>2, <1>5
<1>10. ASSUME NEW n \in Nat, n \in P
       PROVE  n + 1 \in P
  <2> SUFFICES ASSUME n + 1 <= N
               PROVE  bien(n + 1)
    OBVIOUS
  <2>1. bien(n) /\ sel[n + 1] = elige(sel[n], n + 1) /\ n + 1 \in 1..N
    <3>1. n <= N /\ n + 1 \in 1..N /\ n + 1 - 1 = n
      BY <1>2
    <3> QED
      BY <1>5, <1>10, <3>1
  <2>2. n + 1 \in libres <=> Cabe(ps, n + 1, t)
    BY <2>1
  <2>3. \A j \in libres : j <= n + 1 <=> j <= n \/ j = n + 1
    BY <1>2
  <2>4. CASE n + 1 \notin libres
    <3>1. sel[n + 1] = sel[n]
      BY <2>1, <2>2, <2>4
    <3>2. \A j \in libres : (j <= n + 1 <=> j <= n) /\ (j > n => j > n + 1)
      BY <1>2, <2>4
    <3> HIDE DEF antes, libres, elige
    <3> QED
      BY <2>1, <3>1, <3>2
  <2>5. CASE n + 1 \in libres /\ sel[n] = 0
    <3>1. sel[n + 1] = n + 1
      BY <2>1, <2>2, <2>5
    <3>2. \A j \in libres : j <= n + 1 => j = n + 1
      BY <1>2, <2>1, <2>5
    <3>3. antes(n + 1, n + 1)
      BY <1>7, <1>8, <2>1
    <3> HIDE DEF antes, elige
    <3> QED
      BY <2>1, <2>5, <3>1, <3>2, <3>3
  <2>6. CASE n + 1 \in libres /\ sel[n] # 0
    <3>1. /\ sel[n] \in libres /\ sel[n] <= n
          /\ \A j \in libres : j <= n => antes(sel[n], j)
      BY <2>1, <2>6
    <3>2. PICK s \in 1..N : s = sel[n]
      BY <3>1
    <3>3. CASE Mejora(ps[n + 1], ps[s])
      <4>1. sel[n + 1] = n + 1
        BY <2>1, <2>2, <2>6, <3>2, <3>3
      <4>2. \A j \in libres : j <= n => antes(n + 1, j)
        <5> TAKE j \in libres
        <5>1. tam(j) \in Nat /\ tam(s) \in Nat /\ tam(n + 1) \in Nat
          BY <1>8, <2>1
        <5>2. j <= n => antes(s, j)
          BY <3>1, <3>2
        <5>3. PICK x, y, z \in Nat : x = tam(n + 1) /\ y = tam(s) /\ z = tam(j)
          BY <5>1
        <5>4. (alg = "BEST" /\ x < y) \/ (alg = "WORST" /\ x > y)
          BY <3>3, <5>3 DEF Mejora
        <5> HIDE DEF tam, alg
        <5>5. j <= n => \/ alg = "FIRST" /\ s <= j
                        \/ alg = "BEST" /\ y <= z
                        \/ alg = "WORST" /\ y >= z
          BY <5>1, <5>2, <5>3
        <5>6. j <= n => \/ alg = "BEST" /\ x < z
                        \/ alg = "WORST" /\ x > z
          BY <5>4, <5>5
        <5> QED
          BY <5>3, <5>6
      <4>3. antes(n + 1, n + 1)
        BY <1>7, <1>8, <2>1
      <4> HIDE DEF antes, elige
      <4> QED
        BY <2>3, <2>6, <4>1, <4>2, <4>3
    <3>4. CASE ~ Mejora(ps[n + 1], ps[s])
      <4>1. sel[n + 1] = s
        BY <2>1, <2>6, <3>2, <3>4
      <4>2. antes(s, n + 1)
        <5>1. tam(s) \in Nat /\ tam(n + 1) \in Nat /\ s <= n + 1
          BY <1>8, <2>1, <3>1, <3>2
        <5> QED
          BY <1>7, <3>4, <5>1 DEF Mejora
      <4>3. s <= n + 1
        BY <3>1, <3>2
      <4> HIDE DEF antes, elige
      <4> QED
        BY <2>3, <3>1, <3>2, <4>1, <4>2, <4>3
    <3> QED
      BY <3>3, <3>4
  <2> QED
    BY <2>4, <2>5, <2>6
<1>11. bien(N)
  <2> HIDE DEF P
  <2>1. N \in P
    BY <1>2, <1>9, <1>10, Induccion
  <2> QED
    BY <1>2, <2>1 DEF P
<1>12. CASE libres = {}
  BY <1>1, <1>11, <1>12
<1>13. CASE libres # {}
  <2>1. PICK s \in libres : s = Seleccion(ps, t) /\ \A j \in libres : antes(s, j)
    <3>1. \A j \in libres : j <= N
      BY <1>2
    <3> HIDE DEF antes
    <3> QED
      BY <1>1, <1>2, <1>11, <1>13, <3>1
  <2>2. \A i, j \in libres : tam(i) \in Nat /\ i \in Nat
    BY <1>8
  <2>3. s \in Mejores(ps, t)
    BY <1>7, <2>1, <2>2 DEF Mejores
  <2>4. ASSUME NEW j \in Mejores(ps, t)
        PROVE  s <= j
    <3>1. j \in libres /\ antes(s, j)
      BY <2>1 DEF Mejores
    <3>2. alg = "BEST" => tam(j) <= tam(s)
      BY <2>1, <2>4 DEF Mejores
    <3>3. alg = "WORST" => tam(j) >= tam(s)
      BY <2>1, <2>4 DEF Mejores
    <3> QED
      BY <2>2, <3>1, <3>2, <3>3
  <2> QED
    BY <1>13, <2>1, <2>3, <2>4
<1> QED
  BY <1>12, <1>13

(* crear_particion, and inicializar_particiones in the fixed scheme: the   *)
(* partitions follow one another from address 0, all free.                 *)
LEMMA ParticionNueva ==
    ASSUME NEW base \in Nat, NEW tamanio \in Nat
    PROVE  /\ Particion(base, tamanio) \in Fichas
           /\ Particion(base, tamanio).base = base
           /\ Particion(base, tamanio).tamanio = tamanio
           /\ tamanio > 0 => Particion(base, tamanio).limite = base + tamanio - 1
           /\ tamanio = 0 => Particion(base, tamanio).limite = base
           /\ Particion(base, tamanio).esta_libre
           /\ Particion(base, tamanio).pid = SinPid
           /\ Particion(base, tamanio).punteros = {}
<1>1. tamanio > 0 => base + tamanio - 1 \in Nat
  OBVIOUS
<1> QED
  BY <1>1 DEF Particion, Fichas

Libres(ps) ==
    \A i \in 1..Len(ps) : ps[i].esta_libre /\ ps[i].pid = SinPid /\ ps[i].punteros = {}

Final(ps, i) == IF i = 0 THEN 0 ELSE ps[i].base + ps[i].tamanio

Contiguas(ps) ==
    /\ ps \in Seq(Fichas)
    /\ \A i \in 1..Len(ps) : ps[i].base = Final(ps, i - 1)

ConUnaMas(ps, t, u) ==
    /\ u \in Seq(Fichas) /\ Len(u) = Len(ps) + 1 /\ \A i \in 1..Len(ps) : u[i] = ps[i]
    /\ \E x \in Fichas :
          /\ u[Len(ps) + 1] = x
          /\ x.base = IF ps = <<>> THEN 0 ELSE ps[Len(ps)].limite + 1
          /\ x.tamanio = t /\ x.limite = x.base + t - 1
          /\ x.esta_libre /\ x.pid = SinPid /\ x.punteros = {}

(* crear_particion appends a free partition where the last one ends. *)
LEMMA CrearAlFinal ==
    ASSUME NEW ps \in Seq(Fichas), NEW t \in Nat \ {0}
    PROVE  ConUnaMas(ps, t, CrearParticion(ps, t))
<1> DEFINE b == IF ps = <<>> THEN 0 ELSE ps[Len(ps)].limite + 1
           x == Particion(b, t)
<1>1. b \in Nat
  <2>1. ps # <<>> => ps[Len(ps)] \in Fichas
    <3>1. ps # <<>> => Len(ps) \in 1..Len(ps)
      BY EmptySeq, LenProperties
    <3> QED
      BY <3>1, ElementOfSeq
  <2> QED
    BY <2>1 DEF Fichas
<1>2. CrearParticion(ps, t) = Append(ps, x)
  BY DEF CrearParticion, Last
<1> HIDE DEF b
<1>3. /\ x \in Fichas /\ x.base = b /\ x.tamanio = t /\ x.limite = b + t - 1
      /\ x.esta_libre /\ x.pid = SinPid /\ x.punteros = {}
  <2>1. t \in Nat /\ t > 0 /\ t # 0
    OBVIOUS
  <2> QED
    BY <1>1, <2>1, ParticionNueva, Zenon
<1> HIDE DEF x
<1>4. /\ Append(ps, x) \in Seq(Fichas) /\ Len(Append(ps, x)) = Len(ps) + 1
      /\ \A i \in 1..Len(ps) : Append(ps, x)[i] = ps[i]
      /\ Append(ps, x)[Len(ps) + 1] = x
  BY <1>3, AppendProperties
<1> QED
  BY <1>2, <1>3, <1>4 DEF b, ConUnaMas

(* The partitions of the fixed scheme are contiguous and free. *)
LEMMA Fijas == Contiguas(ParticionesFijas) /\ Libres(ParticionesFijas)
<1> DEFINE N == Len(PARTICIONES)
           Crea(g, i) == CrearParticion(g[i - 1], PARTICIONES[i])
           Recorre(g) == g = [i \in 0..N |-> IF i = 0 THEN <<>> ELSE Crea(g, i)]
           lista == CHOOSE g : Recorre(g)
           V == Seq(Fichas)
<1>1. ParticionesFijas = lista[N]
  BY Zenon DEF ParticionesFijas
<1>2. N \in Nat /\ \A i \in 1..N : PARTICIONES[i] \in Nat \ {0}
  <2>1. PARTICIONES \in Seq(1..TAM_MEMORIA) /\ TAM_MEMORIA \in Nat
    BY ParticionesAssumption
  <2>2. \A i \in 1..N : PARTICIONES[i] \in 1..TAM_MEMORIA
    BY <2>1, ElementOfSeq
  <2> QED
    BY <2>1, <2>2, LenProperties
<1> HIDE DEF N, lista
<1>3. \E g \in [0..N -> V] : Recorre(g)
  <2> DEFINE paso == [s \in V |-> [i \in Nat |->
                          IF i \in 1..N THEN CrearParticion(s, PARTICIONES[i]) ELSE s]]
  <2>1. paso \in [V -> [Nat -> V]]
    <3>1. \A s \in V, i \in 1..N : CrearParticion(s, PARTICIONES[i]) \in V
      BY <1>2, CrearAlFinal DEF ConUnaMas
    <3> HIDE DEF V
    <3> QED
      BY <3>1
  <2>2. <<>> \in V
    OBVIOUS
  <2> HIDE DEF V
  <2>3. \A s \in V, i \in 1..N : paso[s][i] = CrearParticion(s, PARTICIONES[i])
    BY <1>2
  <2> HIDE DEF paso
  <2>4. \A b \in V : Iteradas(V, b, paso, N) # {}
    BY <1>2, <2>1, Recurrencia
  <2>5. PICK f \in Iteradas(V, <<>>, paso, N) : TRUE
    BY <2>2, <2>4
  <2>6. f \in [0..N -> V] /\ f[0] = <<>> /\ \A n \in 1..N : f[n] = paso[f[n - 1]][n]
    BY <2>5 DEF Iteradas
  <2>7. \A i \in 0..N : f[i] = IF i = 0 THEN <<>> ELSE Crea(f, i)
    <3> SUFFICES ASSUME NEW i \in 1..N
                 PROVE  f[i] = Crea(f, i)
      BY <1>2, <2>6
    <3>1. i - 1 \in 0..N /\ f[i - 1] \in V
      BY <1>2, <2>6
    <3> QED
      BY <2>3, <2>6, <3>1
  <2> HIDE DEF Crea
  <2>8. Recorre(f)
    BY <2>6, <2>7
  <2> HIDE DEF Recorre
  <2> QED
    BY <2>6, <2>8
<1>4. Recorre(lista)
  <2>1. \E g : Recorre(g)
    <3> HIDE DEF Recorre
    <3> QED
      BY <1>3
  <2> QED
    BY <2>1, Zenon DEF lista
<1>5. lista[0] = <<>> /\ \A i \in 1..N : lista[i] = Crea(lista, i)
  <2> HIDE DEF Crea
  <2>1. \A i \in 0..N : lista[i] = IF i = 0 THEN <<>> ELSE Crea(lista, i)
    BY <1>4
  <2> QED
    BY <1>2, <2>1
<1> DEFINE Bien(s) == /\ Contiguas(s) /\ Libres(s)
                      /\ \A i \in 1..Len(s) : s[i].limite + 1 = s[i].base + s[i].tamanio
           P == {n \in Nat : n <= N => Bien(lista[n])}
<1>6. 0 \in P
  <2>1. <<>> \in Seq(Fichas) /\ Len(<<>>) = 0
    OBVIOUS
  <2>2. Bien(<<>>)
    BY <2>1 DEF Contiguas, Libres
  <2> HIDE DEF Bien
  <2> QED
    BY <1>5, <2>2
<1>7. ASSUME NEW n \in Nat, n \in P
      PROVE  n + 1 \in P
  <2> SUFFICES ASSUME n + 1 <= N PROVE Bien(lista[n + 1])
    OBVIOUS
  <2>1. n + 1 \in 1..N /\ n + 1 - 1 = n /\ Bien(lista[n])
    BY <1>2, <1>7
  <2> DEFINE s == lista[n]
             u == lista[n + 1]
             k == Len(s)
  <2>2. u = CrearParticion(s, PARTICIONES[n + 1]) /\ PARTICIONES[n + 1] \in Nat \ {0}
    BY <1>2, <1>5, <2>1
  <2>3. s \in Seq(Fichas) /\ k \in Nat /\ Bien(s)
    BY <2>1, LenProperties DEF Contiguas
  <2> HIDE DEF s, u
  <2>4. /\ u \in Seq(Fichas) /\ Len(u) = k + 1 /\ \A i \in 1..k : u[i] = s[i]
        /\ \E x \in Fichas :
                 /\ u[k + 1] = x
                 /\ x.base = IF s = <<>> THEN 0 ELSE s[k].limite + 1
                 /\ x.tamanio = PARTICIONES[n + 1]
                 /\ x.limite = x.base + PARTICIONES[n + 1] - 1
                 /\ x.esta_libre /\ x.pid = SinPid /\ x.punteros = {}
    <3>1. ConUnaMas(s, PARTICIONES[n + 1], u)
      BY <2>2, <2>3, CrearAlFinal
    <3> QED
      BY <3>1 DEF ConUnaMas
  <2>5. u[k + 1].base = Final(s, k)
    <3>1. s = <<>> <=> k = 0
      BY <2>3, EmptySeq
    <3>2. k # 0 => k \in 1..k
      BY <2>3
    <3> QED
      BY <2>3, <2>4, <3>1, <3>2 DEF Final
  <2>6. \A i \in 1..k + 1 : i \in 1..k \/ i = k + 1
    BY <2>3
  <2>7. ASSUME NEW i \in 0..k
        PROVE  Final(u, i) = Final(s, i)
    <3>1. i # 0 => i \in 1..k
      BY <2>3
    <3> QED
      BY <2>4, <3>1 DEF Final
  <2>8. \A i \in 1..k + 1 : u[i].base = Final(u, i - 1)
    <3> TAKE i \in 1..k + 1
    <3>1. i - 1 \in 0..k /\ Final(u, i - 1) = Final(s, i - 1)
      BY <2>3, <2>7
    <3>2. CASE i \in 1..k
      BY <2>3, <2>4, <3>1, <3>2 DEF Contiguas
    <3>3. CASE i = k + 1
      <4>1. i - 1 = k
        BY <2>3, <3>3
      <4> QED
        BY <2>5, <3>1, <3>3, <4>1
    <3> QED
      BY <2>6, <3>2, <3>3
  <2>9. Contiguas(u)
    BY <2>4, <2>8 DEF Contiguas
  <2>10. Libres(u)
    BY <2>3, <2>4, <2>6 DEF Libres
  <2>11. \A i \in 1..k + 1 : u[i].limite + 1 = u[i].base + u[i].tamanio
    <3>1. PICK x \in Fichas : /\ u[k + 1] = x /\ x.tamanio = PARTICIONES[n + 1]
                              /\ x.limite = x.base + PARTICIONES[n + 1] - 1
      BY <2>4
    <3>2. x.base \in Nat /\ x.limite + 1 = x.base + x.tamanio
      BY <2>2, <3>1 DEF Fichas
    <3> QED
      BY <2>3, <2>4, <2>6, <3>1, <3>2
  <2> QED
    BY <2>4, <2>9, <2>10, <2>11 DEF u
<1>8. Bien(lista[N])
  <2> HIDE DEF Bien
  <2>1. N \in P
    <3> HIDE DEF P
    <3> QED
      BY <1>2, <1>6, <1>7, Induccion
  <2> QED
    BY <1>2, <2>1
<1> QED
  BY <1>1, <1>8

-----------------------------------------------------------------------------
(* What each step does to the list.                                        *)

(* x is y but for the fields that the handlers of a request write.         *)
MismaZona(x, y) == x.base = y.base /\ x.tamanio = y.tamanio

(* The steps that change one partition in place.                           *)
EnLugar(i) ==
    /\ i \in 1..Len(particiones)
    /\ particiones' \in Seq(Fichas) /\ Len(particiones') = Len(particiones)
    /\ MismaZona(particiones'[i], particiones[i])
    /\ \A j \in 1..Len(particiones) : j # i => particiones'[j] = particiones[j]

(* crear_particion_en_indice: i gives its first t bytes to p.              *)
Partida(i, p, t) ==
    LET n == particiones'
    IN  /\ i \in 1..Len(particiones)
        /\ n \in Seq(Fichas) /\ Len(n) = Len(particiones) + 1
        /\ n[i].base = particiones[i].base /\ n[i].tamanio = t
        /\ n[i].esta_libre /\ n[i].pid = SinPid /\ n[i].punteros = {p}
        /\ n[i + 1].base = particiones[i].base + t
        /\ n[i + 1].tamanio = (particiones[i].tamanio - t) % Palabra
        /\ n[i + 1].esta_libre = particiones[i].esta_libre
        /\ n[i + 1].pid = particiones[i].pid
        /\ n[i + 1].punteros = particiones[i].punteros
        /\ \A j \in 1..Len(particiones) : j < i => n[j] = particiones[j]
        /\ \A j \in 1..Len(particiones) : j > i => n[j + 1] = particiones[j]

(* consolidar_particiones_libres: i and the next one become one.           *)
Unidas(i) ==
    LET n == particiones'
    IN  /\ i \in ParesLibres(particiones)
        /\ \A j \in ParesLibres(particiones) : i <= j
        /\ n \in Seq(Fichas) /\ Len(n) = Len(particiones) - 1
        /\ n[i].base = particiones[i].base
        /\ n[i].tamanio = (particiones[i].tamanio + particiones[i + 1].tamanio) % Palabra
        /\ n[i].esta_libre = particiones[i].esta_libre
        /\ n[i].pid = particiones[i].pid
        /\ n[i].punteros = particiones[i].punteros
        /\ \A j \in 1..Len(particiones) : j < i => n[j] = particiones[j]
        /\ \A j \in 1..Len(particiones) : j > i + 1 => n[j - 1] = particiones[j]

(* The search finds a free partition that is large enough. *)
LEMMA SeleccionCabe ==
    ASSUME Tipos, NEW t, Seleccion(particiones, t) # 0
    PROVE  /\ Seleccion(particiones, t) \in 1..Len(particiones)
           /\ Cabe(particiones, Seleccion(particiones, t), t)
<1>1. particiones \in Seq(Fichas) /\ config \in Configuraciones
  BY DEF Tipos
<1> QED
  BY <1>1, SeleccionDe DEF Mejores

(* Unsigned arithmetic of a word. *)
LEMMA EnPalabra ==
    ASSUME NEW x \in Int
    PROVE  /\ x % Palabra \in Nat
           /\ 0 <= x /\ x < Palabra => x % Palabra = x
<1>1. Palabra \in Nat \ {0}
  BY ParticionesAssumption
<1>2. x % Palabra \in Nat
  BY <1>1
<1>3. 0 <= x /\ x < Palabra => x % Palabra = x
  BY <1>1
<1> QED
  BY <1>2, <1>3

(* What a process asked for is a size. *)
LEMMA TamanioPedido ==
    ASSUME Tipos, NEW p \in Procesos
    PROVE  proceso[p].tamanio \in Nat
<1>1. Tamanios \subseteq Nat
  BY ParticionesAssumption
<1>2. \A t \in Tamanios \cup {0} : t \in Nat
  BY <1>1
<1>3. proceso[p].tamanio \in Tamanios \cup {0}
  BY DEF Tipos
<1> QED
  BY <1>2, <1>3, Zenon

(* The search of a creation keeps, in the dynamic scheme, the index of a   *)
(* partition where the process fits and, in the fixed one, the partition.  *)
LEMMA EfectoBusqueda ==
    ASSUME Tipos, NEW p \in Procesos, NEW t \in Tamanios, BuscarParticionLibre(p, t)
    PROVE  /\ proceso' = [proceso EXCEPT ![p].tamanio = t]
           /\ UNCHANGED <<config, pid_auxiliar, caida>>
           /\ \/ /\ Dinamicas /\ particiones' = particiones
                 /\ tarea' = [tarea EXCEPT ![p] = "partir"]
                 /\ indice' \in 1..Len(particiones) /\ Cabe(particiones, indice', t)
              \/ /\ ~ Dinamicas /\ tarea' = [tarea EXCEPT ![p] = "asignar"]
                 /\ indice' = indice
                 /\ \E i \in 1..Len(particiones) :
                       /\ Cabe(particiones, i, t) /\ EnLugar(i)
                       /\ particiones'[i].esta_libre = particiones[i].esta_libre
                       /\ particiones'[i].pid = particiones[i].pid
                       /\ particiones'[i].punteros = particiones[i].punteros \cup {p}
<1> DEFINE i == Seleccion(particiones, t)
           x == particiones[i]
<1>1. i \in 1..Len(particiones) /\ Cabe(particiones, i, t)
  BY SeleccionCabe DEF BuscarParticionLibre
<1>2. x \in Fichas
  BY <1>1, ElementOfSeq DEF Tipos
<1>3. /\ proceso' = [proceso EXCEPT ![p].tamanio = t]
      /\ UNCHANGED <<config, pid_auxiliar, caida>>
  BY DEF BuscarParticionLibre
<1>4. CASE Dinamicas
  <2>1. /\ particiones' = particiones /\ tarea' = [tarea EXCEPT ![p] = "partir"]
        /\ indice' = i
    BY <1>4 DEF BuscarParticionLibre
  <2> QED
    BY <1>1, <1>3, <1>4, <2>1
<1>5. CASE ~ Dinamicas
  <2> DEFINE y == [x EXCEPT !.punteros = @ \cup {p}]
  <2>1. /\ particiones' = [particiones EXCEPT ![i] = y]
        /\ tarea' = [tarea EXCEPT ![p] = "asignar"] /\ indice' = indice
    BY <1>5 DEF BuscarParticionLibre
  <2>2. /\ y \in Fichas /\ y.base = x.base /\ y.tamanio = x.tamanio
        /\ y.esta_libre = x.esta_libre /\ y.pid = x.pid /\ y.punteros = x.punteros \cup {p}
    <3> HIDE DEF x
    <3> QED
      BY <1>2 DEF Fichas
  <2> HIDE DEF y
  <2>3. EnLugar(i) /\ particiones'[i] = y
    <3>1. particiones \in Seq(Fichas)
      BY DEF Tipos
    <3> HIDE DEF i
    <3> QED
      BY <1>1, <2>1, <2>2, <3>1, ExceptSeq DEF EnLugar, MismaZona
  <2> HIDE DEF i
  <2> QED
    BY <1>1, <1>3, <1>5, <2>1, <2>2, <2>3
<1> QED
  BY <1>4, <1>5

(* The split of the partition at the index found; without one the memory   *)
(* crashes, and past its end the process is not created.                   *)
LEMMA EfectoParticion ==
    ASSUME Tipos, NEW p \in Procesos, CrearParticionEnIndice(p)
    PROVE  \/ indice \notin 1..Len(particiones) /\ Caer
           \/ /\ indice' = 0 /\ UNCHANGED <<config, pid_auxiliar, caida>>
              /\ \/ /\ particiones' = particiones
                    /\ tarea' = [tarea EXCEPT ![p] = "ausente"]
                    /\ proceso' = [proceso EXCEPT ![p].tamanio = 0]
                 \/ /\ indice \in 1..Len(particiones)
                    /\ Partida(indice, p, proceso[p].tamanio)
                    /\ tarea' = [tarea EXCEPT ![p] = "asignar"]
                    /\ proceso' = proceso
<1> DEFINE i == indice
           x == particiones[i]
           t == proceso[p].tamanio
           nueva == [Particion(x.base, t) EXCEPT !.punteros = {p}]
           resto == [x EXCEPT !.base = IF nueva.tamanio = 0 THEN nueva.limite
                                       ELSE nueva.limite + 1,
                              !.tamanio = (@ - nueva.tamanio) % Palabra]
<1>1. DOMAIN particiones = 1..Len(particiones)
  BY DEF Tipos
<1>2. CASE i \notin 1..Len(particiones)
  BY <1>1, <1>2 DEF CrearParticionEnIndice
<1>3. CASE i \in 1..Len(particiones)
  <2>1. /\ indice' = 0 /\ UNCHANGED <<config, pid_auxiliar, caida>>
        /\ \/ /\ particiones' = particiones
              /\ tarea' = [tarea EXCEPT ![p] = "ausente"]
              /\ proceso' = [proceso EXCEPT ![p].tamanio = 0]
           \/ /\ particiones' = Partir(particiones, i, nueva)
              /\ tarea' = [tarea EXCEPT ![p] = "asignar"]
              /\ proceso' = proceso
    BY <1>1, <1>3 DEF CrearParticionEnIndice
  <2>2. SUFFICES ASSUME particiones' = Partir(particiones, i, nueva)
                 PROVE  Partida(i, p, t)
    BY <1>3, <2>1
  <2>3. x \in Fichas /\ x.base \in Nat /\ x.tamanio \in Nat /\ t \in Nat
    <3>1. x \in Fichas
      BY <1>3, ElementOfSeq DEF Tipos
    <3>2. t \in Nat
      BY TamanioPedido
    <3> QED
      BY <3>1, <3>2 DEF Fichas
  <2> HIDE DEF t
  <2>4. /\ nueva \in Fichas /\ nueva.base = x.base /\ nueva.tamanio = t
        /\ nueva.esta_libre /\ nueva.pid = SinPid /\ nueva.punteros = {p}
        /\ (IF nueva.tamanio = 0 THEN nueva.limite ELSE nueva.limite + 1) = x.base + t
    <3> DEFINE b == x.base
               w == Particion(b, t)
    <3>1. /\ w \in Fichas /\ w.base = b /\ w.tamanio = t
          /\ t > 0 => w.limite = b + t - 1
          /\ t = 0 => w.limite = b
          /\ w.esta_libre /\ w.pid = SinPid /\ w.punteros = {}
      <4>1. b \in Nat /\ t \in Nat
        BY <2>3
      <4> HIDE DEF b
      <4> QED
        BY <4>1, ParticionNueva
    <3>2. b \in Nat /\ t \in Nat
      BY <2>3
    <3> HIDE DEF w, b
    <3>3. /\ [w EXCEPT !.punteros = {p}] \in Fichas
          /\ [w EXCEPT !.punteros = {p}].base = b
          /\ [w EXCEPT !.punteros = {p}].tamanio = t
          /\ [w EXCEPT !.punteros = {p}].limite = w.limite
          /\ [w EXCEPT !.punteros = {p}].esta_libre
          /\ [w EXCEPT !.punteros = {p}].pid = SinPid
          /\ [w EXCEPT !.punteros = {p}].punteros = {p}
      BY <3>1 DEF Fichas
    <3>4. (IF t = 0 THEN w.limite ELSE w.limite + 1) = b + t
      BY <3>1, <3>2
    <3> QED
      BY <3>3, <3>4 DEF w, b
  <2> HIDE DEF nueva
  <2>5. /\ resto \in Fichas /\ resto.base = x.base + t /\ resto.tamanio = (x.tamanio - t) % Palabra
        /\ resto.esta_libre = x.esta_libre /\ resto.pid = x.pid
        /\ resto.punteros = x.punteros
    <3> DEFINE b == IF nueva.tamanio = 0 THEN nueva.limite ELSE nueva.limite + 1
               c == (x.tamanio - nueva.tamanio) % Palabra
    <3>1. b = x.base + t /\ b \in Nat /\ c \in Nat /\ c = (x.tamanio - t) % Palabra
      BY <2>3, <2>4, EnPalabra
    <3>2. resto = [x EXCEPT !.base = b, !.tamanio = c]
      OBVIOUS
    <3> HIDE DEF b, c, x, resto
    <3> QED
      BY <2>3, <3>1, <3>2 DEF Fichas
  <2>6. Partir(particiones, i, nueva)
          = InsertAt(ReplaceAt(particiones, i, resto), i, nueva)
    BY DEF Partir
  <2> HIDE DEF resto
  <2>7. /\ particiones' \in Seq(Fichas)
        /\ Len(particiones') = Len(particiones) + 1
        /\ \A j \in 1..Len(particiones) + 1 :
              particiones'[j] = IF j < i THEN particiones[j] ELSE IF j = i THEN nueva
                                ELSE IF j = i + 1 THEN resto ELSE particiones[j - 1]
    <3>1. particiones \in Seq(Fichas)
      BY DEF Tipos
    <3> HIDE DEF i
    <3>2. /\ particiones' \in Seq(Fichas)
          /\ ConDos(particiones, particiones', i, nueva, resto)
      BY <1>3, <2>2, <2>4, <2>5, <2>6, <3>1, PartirPosicion
    <3> QED
      BY <3>2 DEF ConDos
  <2>8. /\ particiones'[i] = nueva /\ particiones'[i + 1] = resto
        /\ \A j \in 1..Len(particiones) : j < i => particiones'[j] = particiones[j]
        /\ \A j \in 1..Len(particiones) : j > i => particiones'[j + 1] = particiones[j]
    <3>1. Len(particiones) \in Nat
      BY LenProperties DEF Tipos
    <3>2. i \in 1..Len(particiones) + 1 /\ i + 1 \in 1..Len(particiones) + 1
          /\ ~ (i < i) /\ ~ (i + 1 < i) /\ i + 1 # i
      BY <1>3, <3>1
    <3>3. \A j \in 1..Len(particiones) :
             /\ j \in 1..Len(particiones) + 1 /\ j + 1 \in 1..Len(particiones) + 1
             /\ j + 1 - 1 = j
             /\ j > i => ~ (j + 1 < i) /\ j + 1 # i /\ j + 1 # i + 1
      BY <1>3, <3>1
    <3> HIDE DEF i
    <3> QED
      BY <2>7, <3>2, <3>3
  <2> HIDE DEF i
  <2> QED
    BY <1>3, <2>4, <2>5, <2>7, <2>8 DEF Partida
<1> QED
  BY <1>2, <1>3

(* A step that writes fields of one partition other than its zone. *)
LEMMA EscribirEnLugar ==
    ASSUME Tipos, NEW i \in 1..Len(particiones), NEW y \in Fichas,
           MismaZona(y, particiones[i]), particiones' = [particiones EXCEPT ![i] = y]
    PROVE  EnLugar(i) /\ particiones'[i] = y
<1>1. particiones \in Seq(Fichas)
  BY DEF Tipos
<1> QED
  BY <1>1, ExceptSeq DEF EnLugar

(* The loops that look for the partition that a handler holds, and for the *)
(* one of the PID that the global names.                                   *)
LEMMA ElegidaDe ==
    ASSUME Tipos, NEW p \in Procesos
    PROVE  IF \E i \in 1..Len(particiones) : p \in particiones[i].punteros
           THEN /\ Elegida(p) \in 1..Len(particiones)
                /\ p \in particiones[Elegida(p)].punteros
           ELSE Elegida(p) = 0
<1> DEFINE I == {i \in 1..Len(particiones) : p \in particiones[i].punteros}
<1>1. Elegida(p) = IF I # {} THEN Min(I) ELSE 0
  BY Zenon DEF Elegida, SelectInSeq
<1>2. I \in SUBSET Nat
  OBVIOUS
<1>3. I # {} => Min(I) \in I
  BY <1>2, Minimo
<1> HIDE DEF I
<1>4. I # {} => Elegida(p) \in I
  BY <1>1, <1>3
<1>5. I = {} => Elegida(p) = 0
  BY <1>1
<1> QED
  BY <1>4, <1>5 DEF I

(* list_find with pid_auxiliar: a partition of that PID, if there is       *)
(* one.                                                                    *)
LEMMA EncontradaDe ==
    ASSUME Tipos, NEW k, k = SelectInSeq(particiones, LAMBDA x : x.pid = pid_auxiliar)
    PROVE  IF \E i \in 1..Len(particiones) : particiones[i].pid = pid_auxiliar
           THEN k \in 1..Len(particiones) /\ particiones[k].pid = pid_auxiliar
           ELSE k = 0
<1> DEFINE I == {i \in 1..Len(particiones) : particiones[i].pid = pid_auxiliar}
<1>1. k = IF I # {} THEN Min(I) ELSE 0
  BY Zenon DEF SelectInSeq
<1>2. I \in SUBSET Nat
  OBVIOUS
<1>3. I # {} => Min(I) \in I
  BY <1>2, Minimo
<1> HIDE DEF I
<1>4. I # {} => k \in I
  BY <1>1, <1>3
<1>5. I = {} => k = 0
  BY <1>1
<1> QED
  BY <1>4, <1>5 DEF I

(* asignar_particion writes the partition that the handler holds; if it    *)
(* was freed, the memory crashes.                                          *)
LEMMA EfectoAsignacion ==
    ASSUME Tipos, NEW p \in Procesos, IniciarProceso(p)
    PROVE  \/ /\ \A i \in 1..Len(particiones) : p \notin particiones[i].punteros
              /\ Caer
           \/ \E i \in 1..Len(particiones) :
                 /\ p \in particiones[i].punteros
                 /\ EnLugar(i)
                 /\ ~ particiones'[i].esta_libre /\ particiones'[i].pid = p
                 /\ particiones'[i].punteros = particiones[i].punteros \ {p}
                 /\ proceso' = [proceso EXCEPT
                       ![p].base = particiones[i].base,
                       ![p].limite = (particiones[i].base + particiones[i].tamanio) % Palabra]
                 /\ tarea' = [tarea EXCEPT ![p] = "presente"]
                 /\ UNCHANGED <<config, indice, pid_auxiliar, caida>>
<1> DEFINE i == Elegida(p)
<1>1. CASE i = 0
  <2>1. Caer
    BY <1>1 DEF IniciarProceso
  <2>2. \A j \in 1..Len(particiones) : p \notin particiones[j].punteros
    BY <1>1, ElegidaDe
  <2> QED
    BY <2>1, <2>2
<1>2. CASE i # 0
  <2>1. i \in 1..Len(particiones) /\ p \in particiones[i].punteros
    BY <1>2, ElegidaDe
  <2>2. AsignarParticion(p, i) /\ tarea' = [tarea EXCEPT ![p] = "presente"]
        /\ UNCHANGED <<config, indice, pid_auxiliar, caida>>
    BY <1>2 DEF IniciarProceso
  <2> HIDE DEF i
  <2> DEFINE x == particiones[i]
             y == [x EXCEPT !.pid = p, !.esta_libre = FALSE, !.punteros = @ \ {p}]
  <2>3. particiones' = [particiones EXCEPT ![i] = y]
    BY <2>2 DEF AsignarParticion
  <2>4. x \in Fichas
    BY <2>1, ElementOfSeq DEF Tipos
  <2>5. /\ y \in Fichas /\ MismaZona(y, x) /\ ~ y.esta_libre /\ y.pid = p
        /\ y.punteros = x.punteros \ {p}
    <3> HIDE DEF x
    <3> QED
      BY <2>4 DEF Fichas, MismaZona
  <2> HIDE DEF y
  <2>6. EnLugar(i) /\ particiones'[i] = y
    BY <2>1, <2>3, <2>5, EscribirEnLugar
  <2> QED
    BY <2>1, <2>2, <2>5, <2>6 DEF AsignarParticion
<1> QED
  BY <1>1, <1>2

(* buscar_particion_por_pid gives the handler a partition of the PID in    *)
(* pid_auxiliar; without one, the memory crashes.                          *)
LEMMA EfectoEncontrar ==
    ASSUME Tipos, NEW p \in Procesos, EncontrarParticion(p)
    PROVE  \/ /\ \A i \in 1..Len(particiones) : particiones[i].pid # pid_auxiliar
              /\ Caer
           \/ \E i \in 1..Len(particiones) :
                 /\ particiones[i].pid = pid_auxiliar
                 /\ EnLugar(i)
                 /\ particiones'[i].esta_libre = particiones[i].esta_libre
                 /\ particiones'[i].pid = particiones[i].pid
                 /\ particiones'[i].punteros = particiones[i].punteros \cup {p}
                 /\ tarea' = [tarea EXCEPT ![p] = "desasignar"]
                 /\ UNCHANGED <<config, proceso, indice, pid_auxiliar, caida>>
<1> DEFINE i == SelectInSeq(particiones, LAMBDA x : x.pid = pid_auxiliar)
<1>1. IF \E j \in 1..Len(particiones) : particiones[j].pid = pid_auxiliar
      THEN i \in 1..Len(particiones) /\ particiones[i].pid = pid_auxiliar
      ELSE i = 0
  BY EncontradaDe
<1>2. IF i = 0
      THEN Caer
      ELSE /\ particiones' = [particiones EXCEPT ![i].punteros = @ \cup {p}]
           /\ tarea' = [tarea EXCEPT ![p] = "desasignar"]
           /\ UNCHANGED <<config, proceso, indice, pid_auxiliar, caida>>
  BY Zenon DEF EncontrarParticion
<1> HIDE DEF i
<1>3. CASE i = 0
  BY <1>1, <1>2, <1>3
<1>4. CASE i # 0
  <2>1. i \in 1..Len(particiones) /\ particiones[i].pid = pid_auxiliar
    BY <1>1, <1>4
  <2> DEFINE x == particiones[i]
             y == [x EXCEPT !.punteros = @ \cup {p}]
  <2>3. particiones' = [particiones EXCEPT ![i] = y]
    BY <1>2, <1>4
  <2>4. x \in Fichas
    BY <2>1, ElementOfSeq DEF Tipos
  <2>5. /\ y \in Fichas /\ MismaZona(y, x) /\ y.esta_libre = x.esta_libre
        /\ y.pid = x.pid /\ y.punteros = x.punteros \cup {p}
    <3> HIDE DEF x
    <3> QED
      BY <2>4 DEF Fichas, MismaZona
  <2> HIDE DEF y
  <2>6. EnLugar(i) /\ particiones'[i] = y
    BY <2>1, <2>3, <2>5, EscribirEnLugar
  <2> QED
    BY <1>2, <1>4, <2>1, <2>5, <2>6
<1> QED
  BY <1>3, <1>4

(* desasignar_particion frees the partition that the handler holds. *)
LEMMA EfectoDesasignacion ==
    ASSUME Tipos, NEW p \in Procesos, DesasignarParticion(p)
    PROVE  \/ /\ \A i \in 1..Len(particiones) : p \notin particiones[i].punteros
              /\ Caer
           \/ \E i \in 1..Len(particiones) :
                 /\ p \in particiones[i].punteros
                 /\ EnLugar(i)
                 /\ particiones'[i].esta_libre /\ particiones'[i].pid = SinPid
                 /\ particiones'[i].punteros = particiones[i].punteros \ {p}
                 /\ tarea' = [tarea EXCEPT
                                 ![p] = IF Dinamicas THEN "consolidar" ELSE "quitar"]
                 /\ UNCHANGED <<config, proceso, indice, pid_auxiliar, caida>>
<1> DEFINE i == Elegida(p)
<1>1. CASE i = 0
  <2>1. Caer
    BY <1>1 DEF DesasignarParticion
  <2>2. \A j \in 1..Len(particiones) : p \notin particiones[j].punteros
    BY <1>1, ElegidaDe
  <2> QED
    BY <2>1, <2>2
<1>2. CASE i # 0
  <2>1. i \in 1..Len(particiones) /\ p \in particiones[i].punteros
    BY <1>2, ElegidaDe
  <2>2. /\ particiones' = [particiones EXCEPT ![i].esta_libre = TRUE,
                                              ![i].pid = SinPid,
                                              ![i].punteros = @ \ {p}]
        /\ tarea' = [tarea EXCEPT ![p] = IF Dinamicas THEN "consolidar" ELSE "quitar"]
        /\ UNCHANGED <<config, proceso, indice, pid_auxiliar, caida>>
    BY <1>2 DEF DesasignarParticion
  <2> HIDE DEF i
  <2> DEFINE x == particiones[i]
             y == [x EXCEPT !.esta_libre = TRUE, !.pid = SinPid, !.punteros = @ \ {p}]
  <2>3. particiones' = [particiones EXCEPT ![i] = y]
    BY <2>2
  <2>4. x \in Fichas
    BY <2>1, ElementOfSeq DEF Tipos
  <2>5. /\ y \in Fichas /\ MismaZona(y, x) /\ y.esta_libre /\ y.pid = SinPid
        /\ y.punteros = x.punteros \ {p}
    <3> HIDE DEF x
    <3> QED
      BY <2>4 DEF Fichas, MismaZona
  <2> HIDE DEF y
  <2>6. EnLugar(i) /\ particiones'[i] = y
    BY <2>1, <2>3, <2>5, EscribirEnLugar
  <2> QED
    BY <2>1, <2>2, <2>5, <2>6
<1> QED
  BY <1>1, <1>2

(* consolidar_particiones_libres merges one pair, if there is any. *)
LEMMA EfectoConsolidacion ==
    ASSUME Tipos, particiones' = Consolidar(particiones)
    PROVE  \/ ParesLibres(particiones) = {} /\ particiones' = particiones
           \/ \E i \in 1..Len(particiones) - 1 : Unidas(i)
<1> DEFINE T == ParesLibres(particiones)
<1>1. CASE T = {}
  BY <1>1 DEF Consolidar
<1>2. CASE T # {}
  <2> DEFINE i == CHOOSE k \in T : \A j \in T : k <= j
             x == particiones[i]
             z == particiones[i + 1]
             total == (x.tamanio + z.tamanio) % Palabra
             lim == (x.base + total) % Palabra
             r == [x EXCEPT !.tamanio = total, !.limite = lim]
  <2>1. \E k \in T : \A j \in T : k <= j
    <3>1. T \in SUBSET Nat
      BY DEF ParesLibres
    <3> QED
      BY <1>2, <3>1, Minimo
  <2>2. i \in T /\ \A j \in T : i <= j
    BY <2>1
  <2>3. particiones' = Unir(particiones, i)
    BY <1>2 DEF Consolidar
  <2> HIDE DEF i
  <2>4. /\ i \in 1..Len(particiones) - 1 /\ Len(particiones) \in Nat
        /\ i \in 1..Len(particiones) /\ i + 1 \in 1..Len(particiones)
        /\ particiones \in Seq(Fichas)
    <3>1. particiones \in Seq(Fichas)
      BY DEF Tipos
    <3>2. Len(particiones) \in Nat
      BY <3>1, LenProperties
    <3> QED
      BY <2>2, <3>1, <3>2 DEF ParesLibres
  <2>5. x \in Fichas /\ z \in Fichas
    BY <2>4, ElementOfSeq
  <2>6. /\ r \in Fichas /\ r.base = x.base /\ r.tamanio = total
        /\ r.esta_libre = x.esta_libre /\ r.pid = x.pid /\ r.punteros = x.punteros
    <3>1. x.tamanio + z.tamanio \in Int /\ x.base \in Int
      BY <2>5 DEF Fichas
    <3>2. total \in Nat
      BY <3>1, EnPalabra
    <3>3. x.base + total \in Int
      BY <3>1, <3>2
    <3>4. lim \in Nat
      BY <3>3, EnPalabra
    <3> HIDE DEF total, lim, x
    <3> QED
      BY <2>5, <3>2, <3>4 DEF Fichas
  <2>7. particiones' = RemoveAt(ReplaceAt(particiones, i, r), i + 1)
    BY <2>3 DEF Unir
  <2> HIDE DEF r
  <2>8. particiones' \in Seq(Fichas) /\ ConUno(particiones, particiones', i, r)
    BY <2>4, <2>6, <2>7, UnirPosiciones
  <2>9. /\ particiones'[i] = r /\ Len(particiones') = Len(particiones) - 1
        /\ \A j \in 1..Len(particiones) : j < i => particiones'[j] = particiones[j]
        /\ \A j \in 1..Len(particiones) : j > i + 1 => particiones'[j - 1] = particiones[j]
    <3>1. /\ i \in 1..Len(particiones) - 1
          /\ \A j \in 1..Len(particiones) :
                /\ j < i => j \in 1..Len(particiones) - 1
                /\ j > i + 1 => /\ j - 1 \in 1..Len(particiones) - 1
                                /\ ~ (j - 1 < i) /\ j - 1 # i /\ j - 1 + 1 = j
      BY <2>4
    <3> QED
      BY <2>8, <3>1 DEF ConUno
  <2>10. Unidas(i)
    BY <2>2, <2>6, <2>8, <2>9 DEF Unidas
  <2> QED
    BY <2>4, <2>10
<1> QED
  BY <1>1, <1>2

-----------------------------------------------------------------------------
(* The types, whatever the requests in progress, and the list.             *)

(* Every step keeps the types, however many requests are in progress. *)
LEMMA TiposPaso ==
    ASSUME Tipos, [Next]_vars
    PROVE  Tipos'
<1>1. ASSUME NEW p \in Procesos, NEW t \in Tamanios, BuscarParticionLibre(p, t)
      PROVE  Tipos'
  <2>1. /\ particiones' \in Seq(Fichas) /\ indice' \in Nat
        /\ tarea' = [tarea EXCEPT ![p] = "partir"] \/ tarea' = [tarea EXCEPT ![p] = "asignar"]
        /\ proceso' = [proceso EXCEPT ![p].tamanio = t]
        /\ UNCHANGED <<config, pid_auxiliar, caida>>
    BY <1>1, EfectoBusqueda DEF EnLugar, Tipos
  <2> QED
    BY <2>1 DEF Tipos, Tareas
<1>2. ASSUME NEW p \in Procesos, IniciarProceso(p)
      PROVE  Tipos'
  <2>1. CASE Caer
    BY <2>1 DEF Tipos, Caer
  <2>2. ASSUME NEW i \in 1..Len(particiones), EnLugar(i),
               proceso' = [proceso EXCEPT
                       ![p].base = particiones[i].base,
                       ![p].limite = (particiones[i].base + particiones[i].tamanio) % Palabra],
               tarea' = [tarea EXCEPT ![p] = "presente"],
               UNCHANGED <<config, indice, pid_auxiliar, caida>>
        PROVE  Tipos'
    <3>1. particiones[i] \in Fichas
      BY ElementOfSeq DEF Tipos
    <3>2. PICK b \in Nat, l \in Nat :
             /\ b = particiones[i].base
             /\ l = (particiones[i].base + particiones[i].tamanio) % Palabra
      <4>1. particiones[i].base \in Nat /\ particiones[i].base + particiones[i].tamanio \in Int
        BY <3>1 DEF Fichas
      <4> QED
        BY <4>1, EnPalabra
    <3>3. proceso' = [proceso EXCEPT ![p].base = b, ![p].limite = l]
      BY <2>2, <3>2
    <3>4. proceso' \in [Procesos -> [base : Nat, limite : Nat, tamanio : Tamanios \cup {0}]]
      BY <3>3 DEF Tipos
    <3> QED
      BY <2>2, <3>4 DEF Tipos, Tareas, EnLugar
  <2> QED
    BY <1>2, <2>1, <2>2, EfectoAsignacion
<1>3. ASSUME NEW p \in Procesos, BuscarParticionPorPid(p)
      PROVE  Tipos'
  BY <1>3 DEF BuscarParticionPorPid, Tipos, Tareas
<1>4. ASSUME NEW p \in Procesos, EncontrarParticion(p)
      PROVE  Tipos'
  BY <1>4, EfectoEncontrar DEF Tipos, Tareas, EnLugar, Caer
<1>5. ASSUME NEW p \in Procesos, DesasignarParticion(p)
      PROVE  Tipos'
  BY <1>5, EfectoDesasignacion DEF Tipos, Tareas, EnLugar, Caer
<1>6. ASSUME NEW p \in Procesos, ConsolidarParticionesLibres(p)
      PROVE  Tipos'
  <2>1. particiones' \in Seq(Fichas)
    BY <1>6, EfectoConsolidacion DEF ConsolidarParticionesLibres, Unidas, Tipos
  <2> QED
    BY <1>6, <2>1 DEF ConsolidarParticionesLibres, Tipos, Tareas
<1>7. ASSUME NEW p \in Procesos, QuitarProceso(p)
      PROVE  Tipos'
  BY <1>7 DEF QuitarProceso, Tipos, Tareas
<1>8. ASSUME NEW p \in Procesos, CrearParticionEnIndice(p)
      PROVE  Tipos'
  <2>1. CASE Caer
    BY <2>1 DEF Tipos, Caer
  <2>2. CASE ~ Caer
    <3>1. /\ particiones' \in Seq(Fichas) /\ indice' \in Nat
          /\ tarea' = [tarea EXCEPT ![p] = "ausente"]
                \/ tarea' = [tarea EXCEPT ![p] = "asignar"]
          /\ proceso' = proceso \/ proceso' = [proceso EXCEPT ![p].tamanio = 0]
          /\ UNCHANGED <<config, pid_auxiliar, caida>>
      BY <1>8, <2>2, EfectoParticion DEF Partida, Tipos
    <3> QED
      BY <3>1 DEF Tipos, Tareas
  <2> QED
    BY <2>1, <2>2
<1>9. CASE UNCHANGED vars
  BY <1>9 DEF vars, Tipos
<1> QED
  BY <1>1, <1>2, <1>3, <1>4, <1>5, <1>6, <1>7, <1>8, <1>9 DEF Next

(* A split of a partition that is large enough, with no wrap. *)
LEMMA PartidaExacta ==
    ASSUME Tipos, Acotadas, NEW i \in 1..Len(particiones), NEW p, NEW t \in Nat,
           Cabe(particiones, i, t), Partida(i, p, t)
    PROVE  particiones'[i + 1].tamanio = particiones[i].tamanio - t
<1>1. particiones[i] \in Fichas
  BY ElementOfSeq DEF Tipos
<1>2. PICK b \in Nat, x \in Nat : b = particiones[i].base /\ x = particiones[i].tamanio
  BY <1>1 DEF Fichas
<1>3. x >= t /\ b + x < Palabra
  BY <1>2 DEF Cabe, Acotadas
<1>4. Palabra \in Nat
  BY ParticionesAssumption
<1>5. x - t \in Int /\ 0 <= x - t /\ x - t < Palabra
  BY <1>3, <1>4
<1>6. (x - t) % Palabra = x - t
  BY <1>5, EnPalabra
<1> QED
  BY <1>2, <1>6 DEF Partida

(* A merge of two neighbours, with no wrap. *)
LEMMA UnidasExactas ==
    ASSUME Tipos, Cobertura, Acotadas, NEW i, Unidas(i)
    PROVE  particiones'[i].tamanio = particiones[i].tamanio + particiones[i + 1].tamanio
<1>1. /\ i \in 1..Len(particiones) - 1 /\ Len(particiones) \in Nat
      /\ DOMAIN particiones = 1..Len(particiones)
  BY LenProperties DEF Unidas, ParesLibres, Tipos
<1>2. i \in 1..Len(particiones) /\ i + 1 \in 1..Len(particiones) /\ i # 0 /\ i + 1 - 1 = i
  BY <1>1
<1>3. particiones[i] \in Fichas /\ particiones[i + 1] \in Fichas
  BY <1>2, ElementOfSeq DEF Tipos
<1>4. PICK b \in Nat, x \in Nat, z \in Nat :
          /\ b = particiones[i].base /\ x = particiones[i].tamanio
          /\ z = particiones[i + 1].tamanio
  BY <1>3 DEF Fichas
<1>5. particiones[i + 1].base = b + x
  <2>1. \A k \in 1..Len(particiones) : particiones[k].base =
           IF k - 1 = 0 THEN 0 ELSE particiones[k - 1].base + particiones[k - 1].tamanio
    BY <1>1 DEF Cobertura
  <2> QED
    BY <1>2, <1>4, <2>1
<1>6. b + x + z < Palabra
  BY <1>2, <1>4, <1>5 DEF Acotadas
<1>7. Palabra \in Nat
  BY ParticionesAssumption
<1>8. x + z \in Int /\ 0 <= x + z /\ x + z < Palabra
  BY <1>6, <1>7
<1>9. (x + z) % Palabra = x + z
  BY <1>8, EnPalabra
<1> QED
  BY <1>4, <1>9 DEF Unidas

(* The list of the next state is the list, changed in place, with one      *)
(* partition split, or with two of them merged.                            *)
LEMMA PasosDeLista ==
    ASSUME Tipos, Vigente, [Next]_vars
    PROVE  /\ config' = config
           /\ \/ particiones' = particiones
              \/ \E i \in 1..Len(particiones) : EnLugar(i)
              \/ \E p \in Procesos, t \in Nat, i \in 1..Len(particiones) :
                    Cabe(particiones, i, t) /\ Partida(i, p, t)
              \/ \E i \in 1..Len(particiones) - 1 : Unidas(i)
<1>1. config' = config
  <2>1. ASSUME NEW p \in Procesos, NEW t \in Tamanios, BuscarParticionLibre(p, t)
        PROVE  config' = config
    BY <2>1 DEF BuscarParticionLibre
  <2>2. ASSUME NEW p \in Procesos, IniciarProceso(p)
        PROVE  config' = config
    BY <2>2, EfectoAsignacion DEF Caer
  <2>3. ASSUME NEW p \in Procesos, EncontrarParticion(p)
        PROVE  config' = config
    BY <2>3, EfectoEncontrar DEF Caer
  <2>4. ASSUME NEW p \in Procesos, DesasignarParticion(p)
        PROVE  config' = config
    BY <2>4, EfectoDesasignacion DEF Caer
  <2>5. ASSUME NEW p \in Procesos,
               ConsolidarParticionesLibres(p) \/ BuscarParticionPorPid(p) \/ QuitarProceso(p)
        PROVE  config' = config
    BY <2>5 DEF ConsolidarParticionesLibres, BuscarParticionPorPid, QuitarProceso
  <2>6. ASSUME NEW p \in Procesos, CrearParticionEnIndice(p)
        PROVE  config' = config
    BY <2>6, EfectoParticion DEF Caer
  <2> QED
    BY <2>1, <2>2, <2>3, <2>4, <2>5, <2>6 DEF Next, vars
<1>2. ASSUME NEW p \in Procesos, NEW t \in Tamanios, BuscarParticionLibre(p, t)
      PROVE  particiones' = particiones \/ \E i \in 1..Len(particiones) : EnLugar(i)
  BY <1>2, EfectoBusqueda
<1>3. ASSUME NEW p \in Procesos, IniciarProceso(p)
      PROVE  particiones' = particiones \/ \E i \in 1..Len(particiones) : EnLugar(i)
  BY <1>3, EfectoAsignacion DEF Caer
<1>4. ASSUME NEW p \in Procesos, EncontrarParticion(p)
      PROVE  particiones' = particiones \/ \E i \in 1..Len(particiones) : EnLugar(i)
  BY <1>4, EfectoEncontrar DEF Caer
<1>5. ASSUME NEW p \in Procesos, DesasignarParticion(p)
      PROVE  particiones' = particiones \/ \E i \in 1..Len(particiones) : EnLugar(i)
  BY <1>5, EfectoDesasignacion DEF Caer
<1>6. ASSUME NEW p \in Procesos, ConsolidarParticionesLibres(p)
      PROVE  \/ particiones' = particiones
             \/ \E i \in 1..Len(particiones) - 1 : Unidas(i)
  BY <1>6, EfectoConsolidacion DEF ConsolidarParticionesLibres
<1>7. ASSUME NEW p \in Procesos, BuscarParticionPorPid(p) \/ QuitarProceso(p)
      PROVE  particiones' = particiones
  BY <1>7 DEF BuscarParticionPorPid, QuitarProceso
<1>8. ASSUME NEW p \in Procesos, CrearParticionEnIndice(p)
      PROVE  \/ particiones' = particiones
             \/ \E t \in Nat, i \in 1..Len(particiones) :
                   Cabe(particiones, i, t) /\ Partida(i, p, t)
  <2>1. proceso[p].tamanio \in Nat
    BY TamanioPedido
  <2>2. Cabe(particiones, indice, proceso[p].tamanio)
    BY <1>8 DEF CrearParticionEnIndice, Vigente
  <2> QED
    BY <1>8, <2>1, <2>2, EfectoParticion DEF Caer
<1>9. UNCHANGED vars => particiones' = particiones
  BY DEF vars
<1> QED
  BY <1>1, <1>2, <1>3, <1>4, <1>5, <1>6, <1>7, <1>8, <1>9 DEF Next

(* Every step keeps the partitions contiguous, from the start of the       *)
(* memory to its end, as long as the index of a creation is not stale.     *)
LEMMA CoberturaPaso ==
    ASSUME InvParticiones, [Next]_vars
    PROVE  Cobertura' /\ Acotadas'
<1> DEFINE n == particiones'
           L == Len(particiones)
<1>1. particiones \in Seq(Fichas) /\ n \in Seq(Fichas) /\ L \in Nat /\ Len(n) \in Nat
      /\ \A j \in 1..L : particiones[j] \in Fichas
  <2>1. particiones \in Seq(Fichas) /\ n \in Seq(Fichas)
    BY TiposPaso DEF InvParticiones, Tipos
  <2> QED
    BY <2>1, LenProperties, ElementOfSeq
<1>2. /\ \A j \in 1..L : particiones[j].base = Final(particiones, j - 1)
      /\ Dinamicas => Final(particiones, L) = TAM_MEMORIA
      /\ \A j \in 1..L : Final(particiones, j) < Palabra
      /\ Tipos /\ Cobertura /\ Acotadas /\ Vigente
  <2>1. Tipos /\ Cobertura /\ Acotadas /\ Vigente
    BY DEF InvParticiones
  <2>2. \A j \in 1..L : Final(particiones, j) < Palabra
    <3>1. \A j \in 1..L : j # 0
      BY <1>1
    <3> QED
      BY <2>1, <3>1 DEF Acotadas, Final
  <2> QED
    BY <1>1, <2>1, <2>2, LenProperties DEF Cobertura, Final
<1> HIDE DEF n
<1> DEFINE Bien == /\ \A j \in 1..Len(n) : n[j].base = Final(n, j - 1)
                   /\ Dinamicas => Final(n, Len(n)) = TAM_MEMORIA
                   /\ \A j \in 1..Len(n) : Final(n, j) < Palabra
<1>3. SUFFICES Bien
  <2>1. config' = config /\ DOMAIN n = 1..Len(n)
    BY <1>1, <1>2, PasosDeLista, LenProperties
  <2>2. Cobertura'
    BY <1>1, <1>3, <2>1 DEF Cobertura, Final, Dinamicas, n
  <2>3. \A j \in 1..Len(n) : j # 0
    BY <1>1
  <2>4. Acotadas'
    BY <1>3, <2>3 DEF Acotadas, Final, n
  <2> QED
    BY <2>2, <2>4
<1>4. CASE n = particiones
  BY <1>2, <1>4
<1>5. ASSUME NEW i \in 1..L, EnLugar(i)
      PROVE  Bien
  <2>1. Len(n) = L /\ \A j \in 1..L : MismaZona(n[j], particiones[j])
    BY <1>5 DEF EnLugar, MismaZona, n
  <2>2. \A j \in 0..L : Final(n, j) = Final(particiones, j)
    <3> TAKE j \in 0..L
    <3>1. j # 0 => j \in 1..L
      BY <1>1
    <3> QED
      BY <2>1, <3>1 DEF Final, MismaZona
  <2>3. \A j \in 1..L : j \in 0..L /\ j - 1 \in 0..L /\ L \in 0..L
    BY <1>1
  <2> QED
    BY <1>1, <1>2, <2>1, <2>2, <2>3 DEF MismaZona
<1>6. ASSUME NEW p \in Procesos, NEW t \in Nat, NEW i \in 1..L,
             Cabe(particiones, i, t), Partida(i, p, t)
      PROVE  Bien
  <2>1. /\ Len(n) = L + 1
        /\ n[i].base = particiones[i].base /\ n[i].tamanio = t
        /\ n[i + 1].base = particiones[i].base + t
        /\ n[i + 1].tamanio = particiones[i].tamanio - t
        /\ \A j \in 1..L : j < i => n[j] = particiones[j]
        /\ \A j \in 1..L : j > i => n[j + 1] = particiones[j]
    BY <1>2, <1>6, PartidaExacta DEF Partida, n
  <2>2. particiones[i].base \in Nat /\ particiones[i].tamanio \in Nat
    BY <1>1 DEF Fichas
  <2>3. \A j \in 0..L : j < i => Final(n, j) = Final(particiones, j)
    <3> TAKE j \in 0..L
    <3>1. j # 0 => j \in 1..L
      BY <1>1
    <3> QED
      BY <2>1, <3>1 DEF Final
  <2>4. Final(n, i) = particiones[i].base + t
    BY <2>1 DEF Final
  <2>5. \A j \in 1..L : j >= i => Final(n, j + 1) = Final(particiones, j)
    <3> TAKE j \in 1..L
    <3>1. j # 0 /\ j + 1 # 0 /\ (j >= i => j = i \/ j > i)
      BY <1>1
    <3>2. Final(n, i + 1) = Final(particiones, i)
      <4>1. i + 1 # 0 /\ i # 0
        BY <1>1
      <4> QED
        BY <2>1, <2>2, <4>1 DEF Final
    <3> QED
      BY <2>1, <3>1, <3>2 DEF Final
  <2>6. ASSUME NEW j \in 1..L + 1
        PROVE  n[j].base = Final(n, j - 1)
    <3>1. CASE j < i
      <4>1. j \in 1..L /\ j - 1 \in 0..L /\ j - 1 < i
        BY <1>1, <3>1
      <4> QED
        BY <1>2, <2>1, <2>3, <3>1, <4>1
    <3>2. CASE j = i
      <4>1. i - 1 \in 0..L /\ i - 1 < i
        BY <1>1
      <4> QED
        BY <1>2, <2>1, <2>3, <3>2, <4>1
    <3>3. CASE j = i + 1
      <4>1. j - 1 = i
        BY <1>1, <3>3
      <4> QED
        BY <2>1, <2>4, <3>3, <4>1
    <3>4. CASE j > i + 1
      <4>1. j - 1 \in 1..L /\ j - 2 \in 1..L /\ j - 2 >= i /\ j - 2 + 1 = j - 1
            /\ j - 1 > i /\ j - 1 + 1 = j /\ j - 1 - 1 = j - 2
        BY <1>1, <3>4
      <4>2. n[j] = particiones[j - 1]
        BY <2>1, <4>1
      <4>3. particiones[j - 1].base = Final(particiones, j - 2)
        BY <1>2, <4>1
      <4>4. Final(n, j - 1) = Final(particiones, j - 2)
        BY <2>5, <4>1
      <4> QED
        BY <4>2, <4>3, <4>4
    <3> QED
      BY <1>1, <3>1, <3>2, <3>3, <3>4
  <2>7. L \in 1..L /\ L >= i
    BY <1>1
  <2>8. ASSUME NEW j \in 1..L + 1
        PROVE  Final(n, j) < Palabra
    <3>1. CASE j < i
      <4>1. j \in 0..L /\ j \in 1..L
        BY <1>1, <3>1
      <4> QED
        BY <1>2, <2>3, <3>1, <4>1
    <3>2. CASE j = i
      <4>1. particiones[i].base + particiones[i].tamanio < Palabra
        BY <1>2 DEF Acotadas
      <4>2. particiones[i].tamanio >= t /\ Palabra \in Nat
        BY <1>6, ParticionesAssumption DEF Cabe
      <4> QED
        BY <2>2, <2>4, <3>2, <4>1, <4>2
    <3>3. CASE j > i
      <4>1. j - 1 \in 1..L /\ j - 1 >= i /\ j - 1 + 1 = j
        BY <1>1, <3>3
      <4>2. Final(n, j) = Final(particiones, j - 1)
        BY <2>5, <4>1
      <4> QED
        BY <1>2, <4>1, <4>2
    <3> QED
      BY <1>1, <3>1, <3>2, <3>3
  <2> QED
    BY <1>2, <2>1, <2>5, <2>6, <2>7, <2>8
<1>7. ASSUME NEW i \in 1..L - 1, Unidas(i)
      PROVE  Bien
  <2>1. /\ Len(n) = L - 1
        /\ n[i].base = particiones[i].base
        /\ n[i].tamanio = particiones[i].tamanio + particiones[i + 1].tamanio
        /\ \A j \in 1..L : j < i => n[j] = particiones[j]
        /\ \A j \in 1..L : j > i + 1 => n[j - 1] = particiones[j]
    BY <1>2, <1>7, UnidasExactas DEF Unidas, n
  <2>2. i \in 1..L /\ i + 1 \in 1..L /\ i # 0 /\ i + 1 # 0 /\ i + 1 - 1 = i
    BY <1>1
  <2>3. /\ particiones[i].base \in Nat /\ particiones[i].tamanio \in Nat
        /\ particiones[i + 1].tamanio \in Nat
    BY <1>1, <2>2 DEF Fichas
  <2>4. \A j \in 0..L : j < i => Final(n, j) = Final(particiones, j)
    <3> TAKE j \in 0..L
    <3>1. j # 0 => j \in 1..L
      BY <1>1
    <3> QED
      BY <2>1, <3>1 DEF Final
  <2>5. Final(n, i) = Final(particiones, i + 1)
    <3>1. particiones[i + 1].base = particiones[i].base + particiones[i].tamanio
      BY <1>2, <2>2 DEF Final
    <3> QED
      BY <2>1, <2>2, <2>3, <3>1 DEF Final
  <2>6. \A j \in 1..L : j > i => Final(n, j - 1) = Final(particiones, j)
    <3> TAKE j \in 1..L
    <3>1. CASE j = i + 1
      BY <2>2, <2>5, <3>1
    <3>2. CASE j > i + 1
      <4>1. j # 0 /\ j - 1 # 0
        BY <1>1, <3>2
      <4> QED
        BY <2>1, <3>2, <4>1 DEF Final
    <3> QED
      BY <1>1, <3>1, <3>2
  <2>7. ASSUME NEW j \in 1..L - 1
        PROVE  n[j].base = Final(n, j - 1)
    <3>1. CASE j < i
      <4>1. j \in 1..L /\ j - 1 \in 0..L /\ j - 1 < i
        BY <1>1, <3>1
      <4> QED
        BY <1>2, <2>1, <2>4, <3>1, <4>1
    <3>2. CASE j = i
      <4>1. i - 1 \in 0..L /\ i - 1 < i
        BY <1>1
      <4> QED
        BY <1>2, <2>1, <2>2, <2>4, <3>2, <4>1
    <3>3. CASE j > i
      <4>1. j \in 1..L /\ j + 1 \in 1..L /\ j + 1 > i + 1 /\ j + 1 - 1 = j
        BY <1>1, <3>3
      <4>2. n[j] = particiones[j + 1]
        BY <2>1, <4>1
      <4>3. particiones[j + 1].base = Final(particiones, j)
        BY <1>2, <4>1
      <4>4. Final(n, j - 1) = Final(particiones, j)
        BY <2>6, <3>3, <4>1
      <4> QED
        BY <4>2, <4>3, <4>4
    <3> QED
      BY <1>1, <3>1, <3>2, <3>3
  <2>8. L \in 1..L /\ L > i
    BY <1>1
  <2>9. ASSUME NEW j \in 1..L - 1
        PROVE  Final(n, j) < Palabra
    <3>1. CASE j < i
      <4>1. j \in 0..L /\ j \in 1..L
        BY <1>1, <3>1
      <4> QED
        BY <1>2, <2>4, <3>1, <4>1
    <3>2. CASE j >= i
      <4>1. j + 1 \in 1..L /\ j + 1 > i /\ j + 1 - 1 = j
        BY <1>1, <3>2
      <4>2. Final(n, j) = Final(particiones, j + 1)
        BY <2>6, <4>1
      <4> QED
        BY <1>2, <4>1, <4>2
    <3> QED
      BY <1>1, <3>1, <3>2
  <2> QED
    BY <1>2, <2>1, <2>6, <2>7, <2>8, <2>9
<1> HIDE DEF Bien
<1> QED
  BY <1>2, <1>4, <1>5, <1>6, <1>7, PasosDeLista DEF n

(* The lists that inicializar_particiones makes. *)
LEMMA Inicial == Init => InvParticiones
<1> SUFFICES ASSUME Init PROVE InvParticiones
  OBVIOUS
<1>1. Contiguas(particiones) /\ Libres(particiones)
      /\ (Dinamicas => Len(particiones) = 1 /\ particiones[1].tamanio = TAM_MEMORIA)
  <2>1. CASE Dinamicas
    <3>1. particiones = CrearParticion(<<>>, TAM_MEMORIA)
      BY <2>1 DEF Init
    <3>2. <<>> \in Seq(Fichas) /\ Len(<<>>) = 0 /\ TAM_MEMORIA \in Nat \ {0}
      BY ParticionesAssumption
    <3>3. ConUnaMas(<<>>, TAM_MEMORIA, particiones)
      BY <3>1, <3>2, CrearAlFinal
    <3>4. PICK x \in Fichas : /\ particiones[1] = x /\ x.base = 0
                              /\ x.tamanio = TAM_MEMORIA
                              /\ x.esta_libre /\ x.pid = SinPid /\ x.punteros = {}
      BY <3>2, <3>3 DEF ConUnaMas
    <3>5. particiones \in Seq(Fichas) /\ Len(particiones) = 1
      BY <3>2, <3>3 DEF ConUnaMas
    <3>6. \A i \in 1..1 : i = 1
      OBVIOUS
    <3> QED
      BY <3>4, <3>5, <3>6 DEF Contiguas, Libres, Final
  <2>2. CASE ~ Dinamicas
    BY <2>2, Fijas DEF Init
  <2> QED
    BY <2>1, <2>2
<1>2. particiones \in Seq(Fichas)
  BY <1>1 DEF Contiguas
<1>3. Tipos
  BY <1>2 DEF Init, Tipos, Tareas
<1>4. Cobertura
  <2>1. DOMAIN particiones = 1..Len(particiones)
    BY <1>2
  <2>2. \A i \in DOMAIN particiones : particiones[i].base = Final(particiones, i - 1)
    BY <1>1, <2>1 DEF Contiguas
  <2>3. Dinamicas => Final(particiones, Len(particiones)) = TAM_MEMORIA
    <3>1. Dinamicas => 1 \in 1..Len(particiones) /\ particiones[1].base = Final(particiones, 0)
      <4>1. Dinamicas => 1 \in 1..Len(particiones)
        BY <1>1
      <4> QED
        BY <1>1, <4>1 DEF Contiguas
    <3>2. TAM_MEMORIA \in Nat
      BY ParticionesAssumption
    <3>3. Dinamicas => Final(particiones, 1) = TAM_MEMORIA
      <4>1. Dinamicas => particiones[1].base = 0
        BY <3>1 DEF Final
      <4> QED
        BY <1>1, <3>2, <4>1 DEF Final
    <3> QED
      BY <1>1, <3>3
  <2> QED
    BY <2>2, <2>3 DEF Cobertura, Final
<1>5. Acotadas
  <2>1. CASE Dinamicas
    <3>1. \A i \in 1..Len(particiones) : i = 1
      <4>1. \A i \in 1..1 : i = 1
        OBVIOUS
      <4> QED
        BY <1>1, <2>1, <4>1
    <3>2. particiones[1].base = 0 /\ TAM_MEMORIA \in Nat /\ TAM_MEMORIA < Palabra
      <4>1. particiones[1].base = Final(particiones, 0)
        <5>1. 1 \in 1..Len(particiones)
          BY <1>1, <2>1
        <5> QED
          BY <1>1, <5>1 DEF Contiguas
      <4>2. TAM_MEMORIA \in Nat /\ Palabra \in Nat /\ TAM_MEMORIA + 1 < Palabra
        BY ParticionesAssumption
      <4> QED
        BY <4>1, <4>2 DEF Final
    <3> QED
      BY <1>1, <2>1, <3>1, <3>2 DEF Acotadas
  <2>2. CASE ~ Dinamicas
    <3>1. particiones = ParticionesFijas /\ DOMAIN particiones = 1..Len(particiones)
      BY <1>2, <2>2 DEF Init
    <3> QED
      BY <3>1, FijasAssumption DEF Acotadas
  <2> QED
    BY <2>1, <2>2
<1>6. Vigente
  BY DEF Init, Vigente
<1> QED
  BY <1>3, <1>4, <1>5, <1>6 DEF InvParticiones

(* The types hold, whatever the interleaving of the requests. *)
THEOREM TiposSiempre == Spec => []Tipos
<1>1. Tipos /\ [Next]_vars => Tipos'
  BY TiposPaso
<1>2. Init => Tipos
  BY Inicial DEF InvParticiones
<1> QED
  BY <1>1, <1>2, PTL DEF Spec

(* The search of a partition gives the one that FIRST, BEST or WORST name, *)
(* and none only if none fits.                                             *)
THEOREM BusquedaCorrecta == Spec => []SeleccionCorrecta
<1>1. ASSUME Tipos
      PROVE  SeleccionCorrecta
  <2>1. particiones \in Seq(Fichas) /\ config \in Configuraciones
    BY <1>1 DEF Tipos
  <2>2. config.algoritmo \in {"FIRST", "BEST", "WORST"}
    BY <2>1, ParticionesAssumption
  <2>3. DOMAIN particiones = 1..Len(particiones)
    BY <2>1
  <2> SUFFICES ASSUME NEW t \in Tamanios
               PROVE
        LET libres == {i \in DOMAIN particiones :
                          particiones[i].esta_libre /\ particiones[i].tamanio >= t}
            tam(i) == particiones[i].tamanio
            mejores == CASE config.algoritmo = "FIRST" -> libres
                         [] config.algoritmo = "BEST" ->
                                {i \in libres : \A j \in libres : tam(i) <= tam(j)}
                         [] config.algoritmo = "WORST" ->
                                {i \in libres : \A j \in libres : tam(i) >= tam(j)}
            s == Seleccion(particiones, t)
        IN  IF libres = {} THEN s = 0
            ELSE s \in mejores /\ \A j \in mejores : s <= j
    BY Zenon DEF SeleccionCorrecta
  <2> DEFINE libres == {i \in DOMAIN particiones :
                          particiones[i].esta_libre /\ particiones[i].tamanio >= t}
             tam(i) == particiones[i].tamanio
             mejores == CASE config.algoritmo = "FIRST" -> libres
                         [] config.algoritmo = "BEST" ->
                                {i \in libres : \A j \in libres : tam(i) <= tam(j)}
                         [] config.algoritmo = "WORST" ->
                                {i \in libres : \A j \in libres : tam(i) >= tam(j)}
             s == Seleccion(particiones, t)
             M == Mejores(particiones, t)
  <2>4. libres = {i \in 1..Len(particiones) : Cabe(particiones, i, t)}
    BY <2>3 DEF Cabe
  <2>5. IF libres = {} THEN s = 0 ELSE s \in M /\ \A j \in M : s <= j
    <3> HIDE DEF libres, s, M
    <3>1. LET l == {i \in 1..Len(particiones) : Cabe(particiones, i, t)}
          IN  IF l = {} THEN s = 0 ELSE s \in M /\ \A j \in M : s <= j
      BY <2>1, SeleccionDe DEF s, M
    <3> QED
      BY <2>4, <3>1
  <2>6. M = {i \in libres : \A j \in libres :
              /\ config.algoritmo = "BEST" => tam(i) <= tam(j)
              /\ config.algoritmo = "WORST" => tam(i) >= tam(j)}
    <3> HIDE DEF libres
    <3> QED
      BY <2>4 DEF Mejores
  <2>7. mejores = M
    <3> HIDE DEF libres, tam, M
    <3>1. CASE config.algoritmo = "FIRST"
      <4>1. mejores = libres
        BY <3>1, Zenon
      <4> QED
        BY <2>6, <3>1, <4>1
    <3>2. CASE config.algoritmo = "BEST"
      <4>1. "BEST" # "FIRST" /\ "BEST" # "WORST"
        OBVIOUS
      <4>2. mejores = {i \in libres : \A j \in libres : tam(i) <= tam(j)}
        BY <3>2, <4>1, Zenon
      <4> QED
        BY <2>6, <3>2, <4>2
    <3>3. CASE config.algoritmo = "WORST"
      <4>1. "WORST" # "FIRST" /\ "WORST" # "BEST"
        OBVIOUS
      <4>2. mejores = {i \in libres : \A j \in libres : tam(i) >= tam(j)}
        BY <3>3, <4>1, Zenon
      <4> QED
        BY <2>6, <3>3, <4>2
    <3> QED
      BY <2>2, <3>1, <3>2, <3>3
  <2>8. IF libres = {} THEN s = 0 ELSE s \in mejores /\ \A j \in mejores : s <= j
    <3> HIDE DEF libres, s, mejores, M
    <3> QED
      BY <2>5, <2>7
  <2> QED
    BY <2>8, Zenon
<1> QED
  BY TiposSiempre, <1>1, PTL

(* The creation of a process makes no room and its end takes none away, as *)
(* long as the index of a creation is not stale.                           *)
LEMMA LugarPorPaso ==
    ASSUME InvParticiones, Next, NEW t \in Tamanios
    PROVE  IF \E p \in Procesos : /\ tarea[p] \in {"ausente", "partir", "asignar"}
                                 /\ tarea'[p] # tarea[p]
           THEN HayLugar(t)' => HayLugar(t)
           ELSE HayLugar(t) => HayLugar(t)'
<1> DEFINE n == particiones'
           L == Len(particiones)
           Creacion == \E p \in Procesos : /\ tarea[p] \in {"ausente", "partir", "asignar"}
                                          /\ tarea'[p] # tarea[p]
<1>0. Tipos /\ Cobertura /\ Acotadas /\ Vigente
  BY DEF InvParticiones
<1>1. /\ particiones \in Seq(Fichas) /\ n \in Seq(Fichas) /\ L \in Nat /\ Len(n) \in Nat
      /\ \A i \in 1..L : particiones[i] \in Fichas
      /\ \A i \in 1..Len(n) : n[i] \in Fichas
      /\ DOMAIN particiones = 1..L /\ DOMAIN n = 1..Len(n)
      /\ tarea \in [Procesos -> Tareas]
      /\ t \in Nat
  <2>1. particiones \in Seq(Fichas) /\ n \in Seq(Fichas)
    BY <1>0, TiposPaso DEF Tipos
  <2> QED
    BY <1>0, <2>1, LenProperties, ElementOfSeq, ParticionesAssumption DEF Tipos
<1> HIDE DEF n
<1>2. /\ HayLugar(t) <=> \E i \in 1..L : Cabe(particiones, i, t)
      /\ HayLugar(t)' <=> \E i \in 1..Len(n) : Cabe(n, i, t)
  BY <1>1 DEF HayLugar, n, Cabe
<1>3. n = particiones => (HayLugar(t)' <=> HayLugar(t))
  BY <1>2
<1>4. ASSUME NEW p \in Procesos, NEW x \in Tamanios, BuscarParticionLibre(p, x)
      PROVE  n = particiones \/ (Creacion /\ (HayLugar(t)' => HayLugar(t)))
  <2>1. ASSUME NEW i \in 1..L, EnLugar(i), n[i].esta_libre = particiones[i].esta_libre,
               tarea' = [tarea EXCEPT ![p] = "asignar"]
        PROVE  Creacion /\ (HayLugar(t)' => HayLugar(t))
    <3>1. Creacion
      BY <1>1, <1>4, <2>1 DEF BuscarParticionLibre
    <3>2. ASSUME NEW j \in 1..Len(n), Cabe(n, j, t)
          PROVE  \E k \in 1..L : Cabe(particiones, k, t)
      <4>1. j \in 1..L /\ n[j].tamanio = particiones[j].tamanio
            /\ n[j].esta_libre = particiones[j].esta_libre
        BY <2>1 DEF EnLugar, MismaZona, n
      <4>2. particiones[j].esta_libre /\ particiones[j].tamanio >= t
        BY <3>2, <4>1 DEF Cabe
      <4> QED
        BY <4>1, <4>2 DEF Cabe
    <3> QED
      BY <1>2, <3>1, <3>2
  <2> QED
    BY <1>0, <1>4, <2>1, EfectoBusqueda DEF n
<1>5. ASSUME NEW p \in Procesos, IniciarProceso(p)
      PROVE  n = particiones \/ (Creacion /\ (HayLugar(t)' => HayLugar(t)))
  <2>1. CASE Caer
    BY <2>1 DEF Caer, n
  <2>2. ASSUME NEW i \in 1..L, EnLugar(i), ~ n[i].esta_libre,
               tarea' = [tarea EXCEPT ![p] = "presente"]
        PROVE  Creacion /\ (HayLugar(t)' => HayLugar(t))
    <3>1. Creacion
      BY <1>1, <1>5, <2>2 DEF IniciarProceso
    <3>2. ASSUME NEW j \in 1..Len(n), Cabe(n, j, t)
          PROVE  Cabe(particiones, j, t) /\ j \in 1..L
      BY <2>2, <3>2 DEF EnLugar, Cabe, n
    <3> QED
      BY <1>2, <3>1, <3>2
  <2> QED
    BY <1>0, <1>5, <2>1, <2>2, EfectoAsignacion DEF n
<1>6. ASSUME NEW p \in Procesos, EncontrarParticion(p)
      PROVE  n = particiones \/ (~ Creacion /\ (HayLugar(t) => HayLugar(t)'))
  <2>1. CASE Caer
    BY <2>1 DEF Caer, n
  <2>2. ASSUME NEW i \in 1..L, EnLugar(i), n[i].esta_libre = particiones[i].esta_libre,
               tarea' = [tarea EXCEPT ![p] = "desasignar"]
        PROVE  ~ Creacion /\ (HayLugar(t) => HayLugar(t)')
    <3>1. ~ Creacion
      BY <1>1, <1>6, <2>2 DEF EncontrarParticion
    <3>2. ASSUME NEW j \in 1..L, Cabe(particiones, j, t)
          PROVE  Cabe(n, j, t) /\ j \in 1..Len(n)
      <4>1. /\ j \in 1..Len(n) /\ n[j].tamanio = particiones[j].tamanio
            /\ n[j].esta_libre = particiones[j].esta_libre
        BY <2>2 DEF EnLugar, MismaZona, n
      <4>2. n[j].esta_libre /\ n[j].tamanio >= t
        BY <3>2, <4>1 DEF Cabe
      <4> QED
        BY <4>1, <4>2 DEF Cabe
    <3> QED
      BY <1>2, <3>1, <3>2
  <2> QED
    BY <1>0, <1>6, <2>1, <2>2, EfectoEncontrar DEF n
<1>7. ASSUME NEW p \in Procesos, DesasignarParticion(p)
      PROVE  n = particiones \/ (~ Creacion /\ (HayLugar(t) => HayLugar(t)'))
  <2>1. CASE Caer
    BY <2>1 DEF Caer, n
  <2>2. ASSUME NEW i \in 1..L, EnLugar(i), n[i].esta_libre,
               tarea' = [tarea EXCEPT ![p] = IF Dinamicas THEN "consolidar" ELSE "quitar"]
        PROVE  ~ Creacion /\ (HayLugar(t) => HayLugar(t)')
    <3>1. ~ Creacion
      BY <1>1, <1>7, <2>2 DEF DesasignarParticion
    <3>2. ASSUME NEW j \in 1..L, Cabe(particiones, j, t)
          PROVE  Cabe(n, j, t) /\ j \in 1..Len(n)
      BY <2>2, <3>2 DEF EnLugar, MismaZona, Cabe, n
    <3> QED
      BY <1>2, <3>1, <3>2
  <2> QED
    BY <1>0, <1>7, <2>1, <2>2, EfectoDesasignacion DEF n
<1>8. ASSUME NEW p \in Procesos, ConsolidarParticionesLibres(p)
      PROVE  ~ Creacion /\ (HayLugar(t) => HayLugar(t)')
  <2>1. ~ Creacion
    BY <1>1, <1>8 DEF ConsolidarParticionesLibres
  <2>2. CASE n = particiones
    BY <1>3, <2>1, <2>2
  <2>3. ASSUME NEW i \in 1..L - 1, Unidas(i)
        PROVE  HayLugar(t) => HayLugar(t)'
    <3>1. /\ Len(n) = L - 1
          /\ n[i].tamanio = particiones[i].tamanio + particiones[i + 1].tamanio
          /\ n[i].esta_libre = particiones[i].esta_libre
          /\ particiones[i].esta_libre
          /\ \A j \in 1..L : j < i => n[j] = particiones[j]
          /\ \A j \in 1..L : j > i + 1 => n[j - 1] = particiones[j]
      BY <1>0, <2>3, UnidasExactas DEF Unidas, ParesLibres, n
    <3>2. n[i].esta_libre /\ i \in 1..Len(n) /\ i \in 1..L /\ i + 1 \in 1..L
      BY <1>1, <3>1
    <3>3. particiones[i].tamanio \in Nat /\ particiones[i + 1].tamanio \in Nat
      BY <1>1, <3>2 DEF Fichas
    <3>4. ASSUME NEW j \in 1..L, Cabe(particiones, j, t)
          PROVE  \E k \in 1..Len(n) : Cabe(n, k, t)
      <4>1. CASE j < i
        <5>1. j \in 1..Len(n)
          BY <1>1, <3>1, <4>1
        <5> QED
          BY <3>1, <3>4, <4>1, <5>1 DEF Cabe
      <4>2. CASE j = i \/ j = i + 1
        <5>1. n[i].tamanio >= t
          BY <1>1, <3>1, <3>3, <3>4, <4>2 DEF Cabe
        <5> QED
          BY <3>2, <5>1 DEF Cabe
      <4>3. CASE j > i + 1
        <5>1. j - 1 \in 1..Len(n)
          BY <1>1, <3>1, <4>3
        <5> QED
          BY <3>1, <3>4, <4>3, <5>1 DEF Cabe
      <4> QED
        BY <1>1, <4>1, <4>2, <4>3
    <3> QED
      BY <1>2, <3>4
  <2> QED
    BY <1>0, <1>8, <2>1, <2>2, <2>3, EfectoConsolidacion DEF ConsolidarParticionesLibres, n
<1>9. ASSUME NEW p \in Procesos, BuscarParticionPorPid(p) \/ QuitarProceso(p)
      PROVE  n = particiones
  BY <1>9 DEF BuscarParticionPorPid, QuitarProceso, n
<1>10. ASSUME NEW p \in Procesos, CrearParticionEnIndice(p)
       PROVE  n = particiones \/ (Creacion /\ (HayLugar(t)' => HayLugar(t)))
  <2> DEFINE i == indice
             x == proceso[p].tamanio
  <2>1. ASSUME i \in 1..L, Partida(i, p, x), tarea' = [tarea EXCEPT ![p] = "asignar"]
        PROVE  Creacion /\ (HayLugar(t)' => HayLugar(t))
    <3>1. Creacion
      BY <1>1, <1>10, <2>1 DEF CrearParticionEnIndice
    <3>2. x \in Nat /\ particiones[i].tamanio \in Nat /\ Cabe(particiones, i, x)
      <4>1. x \in Nat /\ particiones[i].tamanio \in Nat
        BY <1>0, <1>1, <2>1, TamanioPedido DEF Fichas
      <4>2. Cabe(particiones, i, x)
        BY <1>0, <1>10 DEF CrearParticionEnIndice, Vigente
      <4> QED
        BY <4>1, <4>2
    <3>3. n[i + 1].tamanio = particiones[i].tamanio - x
      BY <1>0, <2>1, <3>2, PartidaExacta DEF n
    <3> HIDE DEF i, x
    <3>4. /\ Len(n) = L + 1 /\ n[i].tamanio = x
          /\ \A k \in 1..L : k < i => n[k] = particiones[k]
          /\ \A k \in 1..L : k > i => n[k + 1] = particiones[k]
      BY <2>1 DEF Partida, n
    <3>5. ASSUME NEW j \in 1..Len(n), Cabe(n, j, t)
          PROVE  \E k \in 1..L : Cabe(particiones, k, t)
      <4>1. n[j].esta_libre /\ n[j].tamanio >= t
        BY <3>5 DEF Cabe
      <4>2. CASE j < i
        <5>1. j \in 1..L /\ n[j] = particiones[j]
          BY <1>1, <2>1, <3>4, <4>2
        <5> QED
          BY <4>1, <5>1 DEF Cabe
      <4>3. CASE j = i \/ j = i + 1
        <5>1. particiones[i].tamanio >= t
          BY <1>1, <3>2, <3>3, <3>4, <4>1, <4>3 DEF Cabe
        <5> QED
          BY <2>1, <3>2, <5>1 DEF Cabe
      <4>4. CASE j > i + 1
        <5>1. j - 1 \in 1..L /\ j - 1 > i /\ j - 1 + 1 = j
          BY <1>1, <2>1, <3>4, <4>4
        <5>2. n[j] = particiones[j - 1]
          BY <3>4, <5>1
        <5> QED
          BY <4>1, <5>1, <5>2 DEF Cabe
      <4> QED
        BY <1>1, <2>1, <4>2, <4>3, <4>4
    <3> QED
      BY <1>2, <3>1, <3>5
  <2> QED
    BY <1>0, <1>10, <2>1, EfectoParticion DEF n, Caer
<1> HIDE DEF Creacion
<1>11. IF Creacion THEN HayLugar(t)' => HayLugar(t) ELSE HayLugar(t) => HayLugar(t)'
  BY <1>3, <1>4, <1>5, <1>6, <1>7, <1>8, <1>9, <1>10 DEF Next
<1> QED
  BY <1>11 DEF Creacion

-----------------------------------------------------------------------------
(* With one request at a time: how positions move when a partition is      *)
(* split or two are merged. The new list, but for J, is the old one, but   *)
(* for I, in the same order.                                               *)

DeAUno == Simultaneos = 1

Corresponde(o, I, J) ==
    LET viejas == 1..Len(particiones) \ I
        nuevas == 1..Len(particiones') \ J
    IN  /\ o \in [nuevas -> viejas]
        /\ \A j \in nuevas : particiones'[j] = particiones[o[j]]
        /\ \A j, k \in nuevas : o[j] = o[k] => j = k
        /\ \A m \in viejas : \E j \in nuevas : o[j] = m

(* The partitions before and after a split. *)
LEMMA CorrespondePartida ==
    ASSUME Tipos, NEW i, NEW p, NEW t, Partida(i, p, t)
    PROVE  \E o : Corresponde(o, {i}, {i, i + 1})
<1> DEFINE L == Len(particiones)
           nuevas == 1..Len(particiones') \ {i, i + 1}
           viejas == 1..L \ {i}
           o == [j \in nuevas |-> IF j < i THEN j ELSE j - 1]
<1>1. L \in Nat /\ i \in 1..L /\ Len(particiones') = L + 1
  BY LenProperties DEF Tipos, Partida
<1>2. \A j \in nuevas : o[j] \in viejas /\ (j < i => o[j] = j) /\ (j > i => o[j] = j - 1)
  BY <1>1
<1>3. o \in [nuevas -> viejas]
  <2>1. o \in [nuevas -> {o[j] : j \in nuevas}]
    OBVIOUS
  <2> HIDE DEF o, nuevas, viejas
  <2> QED
    BY <1>2, <2>1
<1>4. \A j, k \in nuevas : o[j] = o[k] => j = k
  BY <1>1
<1>5. ASSUME NEW m \in viejas
      PROVE  \E j \in nuevas : o[j] = m
  <2>1. CASE m < i
    <3>1. m \in nuevas
      BY <1>1, <2>1
    <3> QED
      BY <2>1, <3>1
  <2>2. CASE m > i
    <3>1. m + 1 \in nuevas /\ ~ (m + 1 < i) /\ m + 1 - 1 = m
      BY <1>1, <2>2
    <3>2. o[m + 1] = m
      BY <3>1
    <3> QED
      BY <3>1, <3>2
  <2> QED
    BY <1>1, <2>1, <2>2
<1>6. ASSUME NEW j \in nuevas
      PROVE  particiones'[j] = particiones[o[j]]
  <2>1. CASE j < i
    <3>1. j \in 1..L
      BY <1>1, <2>1
    <3> QED
      BY <1>2, <2>1, <3>1 DEF Partida
  <2>2. CASE j > i
    <3>1. j - 1 \in 1..L /\ j - 1 > i /\ j - 1 + 1 = j
      BY <1>1, <2>2
    <3>2. particiones'[j - 1 + 1] = particiones[j - 1]
      BY <3>1 DEF Partida
    <3> QED
      BY <1>2, <2>2, <3>1, <3>2
  <2> QED
    BY <1>1, <2>1, <2>2
<1> HIDE DEF o
<1>7. Corresponde(o, {i}, {i, i + 1})
  BY <1>3, <1>4, <1>5, <1>6 DEF Corresponde
<1> QED
  BY <1>7

(* The partitions before and after a merge. *)
LEMMA CorrespondeUnidas ==
    ASSUME Tipos, NEW i, Unidas(i)
    PROVE  \E o : Corresponde(o, {i, i + 1}, {i})
<1> DEFINE L == Len(particiones)
           nuevas == 1..Len(particiones') \ {i}
           viejas == 1..L \ {i, i + 1}
           o == [j \in nuevas |-> IF j < i THEN j ELSE j + 1]
<1>1. L \in Nat /\ i \in 1..L - 1 /\ Len(particiones') = L - 1
  BY LenProperties DEF Tipos, Unidas, ParesLibres
<1>2. \A j \in nuevas : o[j] \in viejas /\ (j < i => o[j] = j) /\ (j > i => o[j] = j + 1)
  BY <1>1
<1>3. o \in [nuevas -> viejas]
  <2>1. o \in [nuevas -> {o[j] : j \in nuevas}]
    OBVIOUS
  <2> HIDE DEF o, nuevas, viejas
  <2> QED
    BY <1>2, <2>1
<1>4. \A j, k \in nuevas : o[j] = o[k] => j = k
  BY <1>1
<1>5. ASSUME NEW m \in viejas
      PROVE  \E j \in nuevas : o[j] = m
  <2>1. CASE m < i
    <3>1. m \in nuevas
      BY <1>1, <2>1
    <3> QED
      BY <2>1, <3>1
  <2>2. CASE m > i + 1
    <3>1. m - 1 \in nuevas /\ ~ (m - 1 < i) /\ m - 1 + 1 = m
      BY <1>1, <2>2
    <3>2. o[m - 1] = m
      BY <3>1
    <3> QED
      BY <3>1, <3>2
  <2> QED
    BY <1>1, <2>1, <2>2
<1>6. ASSUME NEW j \in nuevas
      PROVE  particiones'[j] = particiones[o[j]]
  <2>1. CASE j < i
    <3>1. j \in 1..L
      BY <1>1, <2>1
    <3> QED
      BY <1>2, <2>1, <3>1 DEF Unidas
  <2>2. CASE j > i
    <3>1. j + 1 \in 1..L /\ j + 1 > i + 1 /\ j + 1 - 1 = j
      BY <1>1, <2>2
    <3>2. particiones'[j + 1 - 1] = particiones[j + 1]
      BY <3>1 DEF Unidas
    <3> QED
      BY <1>2, <2>2, <3>1, <3>2
  <2> QED
    BY <1>1, <2>1, <2>2
<1> HIDE DEF o
<1>7. Corresponde(o, {i, i + 1}, {i})
  BY <1>3, <1>4, <1>5, <1>6 DEF Corresponde
<1> QED
  BY <1>7

(* The owners are the same after a step that replaces free partitions by   *)
(* free partitions and does not touch the nodes of the owners.             *)
LEMMA MismosDuenios ==
    ASSUME Tipos, Tipos', Pertenencia, NEW o, NEW I, NEW J, Corresponde(o, I, J),
           \A i \in I : particiones[i].pid = SinPid,
           \A j \in J \cap 1..Len(particiones') :
               particiones'[j].esta_libre /\ particiones'[j].pid = SinPid,
           \A q \in Procesos : tarea[q] \in Duenio => proceso'[q] = proceso[q],
           \A q \in Procesos : tarea'[q] \in Duenio <=> tarea[q] \in Duenio
    PROVE  Pertenencia'
<1> DEFINE n == particiones'
           nuevas == 1..Len(n) \ J
           viejas == 1..Len(particiones) \ I
<1>1. SinPid \notin Procesos
  BY ParticionesAssumption
<1>2. /\ o \in [nuevas -> viejas]
      /\ \A j \in nuevas : n[j] = particiones[o[j]]
      /\ \A j, k \in nuevas : o[j] = o[k] => j = k
      /\ \A m \in viejas : \E j \in nuevas : o[j] = m
  BY DEF Corresponde
<1> HIDE DEF n
<1>3. ASSUME NEW j \in 1..Len(n)
      PROVE  n[j].esta_libre <=> n[j].pid = SinPid
  <2>1. CASE j \in J
    BY <2>1 DEF n
  <2>2. CASE j \notin J
    <3>1. j \in nuevas /\ o[j] \in 1..Len(particiones) /\ n[j] = particiones[o[j]]
      BY <1>2, <2>2
    <3> QED
      BY <3>1 DEF Pertenencia
  <2> QED
    BY <2>1, <2>2
<1>4. ASSUME NEW j \in 1..Len(n), NEW q \in Procesos, n[j].pid = q
      PROVE  j \in nuevas
  BY <1>1, <1>4 DEF n
<1>5. ASSUME NEW j \in 1..Len(n), NEW q \in Procesos, n[j].pid = q
      PROVE  /\ tarea'[q] \in Duenio
             /\ n[j].base = proceso'[q].base
             /\ proceso'[q].limite = proceso'[q].base + n[j].tamanio
             /\ n[j].tamanio >= proceso'[q].tamanio
             /\ \A k \in 1..Len(n) : n[k].pid = q => j = k
  <2>1. /\ j \in nuevas /\ n[j] = particiones[o[j]] /\ o[j] \in 1..Len(particiones)
    BY <1>2, <1>4, <1>5
  <2>2. particiones[o[j]].pid = q
    BY <1>5, <2>1
  <2>3. /\ tarea[q] \in Duenio
        /\ particiones[o[j]].base = proceso[q].base
        /\ proceso[q].limite = proceso[q].base + particiones[o[j]].tamanio
        /\ particiones[o[j]].tamanio >= proceso[q].tamanio
        /\ \A k \in 1..Len(particiones) : particiones[k].pid = q => o[j] = k
    BY <2>1, <2>2 DEF Pertenencia
  <2>4. ASSUME NEW k \in 1..Len(n), n[k].pid = q
        PROVE  j = k
    <3>1. k \in nuevas /\ n[k] = particiones[o[k]] /\ o[k] \in 1..Len(particiones)
      BY <1>2, <1>4, <2>4
    <3>2. o[j] = o[k]
      BY <2>3, <2>4, <3>1
    <3> QED
      BY <1>2, <2>1, <3>1, <3>2
  <2>5. proceso'[q] = proceso[q] /\ tarea'[q] \in Duenio
    BY <2>3
  <2> QED
    BY <2>1, <2>3, <2>4, <2>5
<1>6. ASSUME NEW q \in Procesos, tarea'[q] \in Duenio
      PROVE  \E j \in 1..Len(n) : n[j].pid = q
  <2>1. PICK m \in 1..Len(particiones) : particiones[m].pid = q
    BY <1>6 DEF Pertenencia
  <2>2. m \in viejas
    BY <1>1, <2>1
  <2>3. PICK j \in nuevas : o[j] = m
    BY <1>2, <2>2
  <2> QED
    BY <1>2, <2>1, <2>3
<1> QED
  BY <1>3, <1>5, <1>6 DEF Pertenencia, n

(* The free neighbours after a split and after a merge.                    *)
LEMMA ParesPartida ==
    ASSUME Tipos, NEW i, NEW p, NEW t, Partida(i, p, t), particiones[i].esta_libre,
           ParesLibres(particiones) = {}
    PROVE  ParesLibres(particiones') \subseteq {i}
<1> SUFFICES ASSUME NEW k \in ParesLibres(particiones'), k # i
             PROVE  FALSE
  OBVIOUS
<1> DEFINE L == Len(particiones)
           n == particiones'
<1>1. L \in Nat /\ i \in 1..L /\ Len(n) = L + 1
  BY LenProperties DEF Tipos, Partida
<1>2. k \in 1..L /\ n[k].esta_libre /\ n[k + 1].esta_libre
  BY <1>1 DEF ParesLibres
<1>3. \A j \in 1..L - 1 : ~ (particiones[j].esta_libre /\ particiones[j + 1].esta_libre)
  BY DEF ParesLibres
<1>4. /\ \A j \in 1..L : j < i => n[j] = particiones[j]
      /\ \A j \in 1..L : j > i => n[j + 1] = particiones[j]
  BY DEF Partida
<1> HIDE DEF n
<1>5. CASE k + 1 < i
  <2>1. k + 1 \in 1..L /\ k \in 1..L - 1 /\ k < i
    BY <1>1, <1>2, <1>5
  <2> QED
    BY <1>2, <1>3, <1>4, <1>5, <2>1
<1>6. CASE k + 1 = i
  <2>1. k \in 1..L - 1 /\ k < i
    BY <1>1, <1>2, <1>6
  <2> QED
    BY <1>2, <1>3, <1>4, <1>6, <2>1
<1>7. CASE k = i + 1
  <2>1. i \in 1..L - 1 /\ i + 1 \in 1..L /\ i + 1 > i
    BY <1>1, <1>2, <1>7
  <2>2. n[k + 1] = particiones[i + 1]
    BY <1>4, <1>7, <2>1
  <2> QED
    BY <1>2, <1>3, <2>1, <2>2
<1>8. CASE k > i + 1
  <2>1. k - 1 \in 1..L - 1 /\ k - 1 \in 1..L /\ k - 1 > i /\ k > i /\ k - 1 + 1 = k
    BY <1>1, <1>2, <1>8
  <2>2. n[k] = particiones[k - 1] /\ n[k + 1] = particiones[k]
    BY <1>2, <1>4, <2>1
  <2> QED
    BY <1>2, <1>3, <2>1, <2>2
<1> QED
  BY <1>1, <1>2, <1>5, <1>6, <1>7, <1>8

(* After a merge, the pairs of free neighbours that are left were there,   *)
(* one position later.                                                     *)
LEMMA ParesUnidas ==
    ASSUME Tipos, NEW i, Unidas(i), NEW k \in ParesLibres(particiones')
    PROVE  k \in Nat /\ k >= i /\ k + 1 \in ParesLibres(particiones)
<1> DEFINE L == Len(particiones)
           n == particiones'
<1>1. L \in Nat /\ i \in 1..L - 1 /\ Len(n) = L - 1
  BY LenProperties DEF Tipos, Unidas, ParesLibres
<1>2. k \in 1..L - 2 /\ n[k].esta_libre /\ n[k + 1].esta_libre
  BY <1>1 DEF ParesLibres
<1>3. /\ \A j \in 1..L - 1 : particiones[j].esta_libre /\ particiones[j + 1].esta_libre
                                => j >= i
      /\ particiones[i].esta_libre /\ particiones[i + 1].esta_libre
  BY <1>1 DEF ParesLibres, Unidas
<1>4. /\ \A j \in 1..L : j < i => n[j] = particiones[j]
      /\ \A j \in 1..L : j > i + 1 => n[j - 1] = particiones[j]
  BY DEF Unidas
<1>5. SUFFICES k >= i /\ particiones[k + 1].esta_libre /\ particiones[k + 2].esta_libre
  <2>1. k + 1 \in 1..L - 1 /\ k + 1 + 1 = k + 2
    BY <1>1, <1>2
  <2> QED
    BY <1>2, <1>5, <2>1 DEF ParesLibres
<1> HIDE DEF n
<1>6. ~ (k + 1 < i)
  <2> SUFFICES ASSUME k + 1 < i PROVE FALSE
    OBVIOUS
  <2>1. k + 1 \in 1..L /\ k \in 1..L - 1 /\ k < i /\ k \in 1..L
    BY <1>1, <1>2
  <2>2. n[k] = particiones[k] /\ n[k + 1] = particiones[k + 1]
    BY <1>4, <2>1
  <2>3. k >= i
    BY <1>2, <1>3, <2>1, <2>2
  <2> QED
    BY <1>1, <1>2, <2>1, <2>3
<1>7. k + 1 # i
  <2> SUFFICES ASSUME k + 1 = i PROVE FALSE
    OBVIOUS
  <2>1. k \in 1..L - 1 /\ k < i /\ k \in 1..L
    BY <1>1, <1>2
  <2>2. n[k] = particiones[k]
    BY <1>4, <2>1
  <2>3. k >= i
    BY <1>2, <1>3, <2>1, <2>2
  <2> QED
    BY <1>1, <1>2, <2>1, <2>3
<1>8. k >= i
  BY <1>1, <1>2, <1>6, <1>7
<1>9. PICK j \in 1..L : j = k + 2 /\ j > i + 1 /\ j - 1 = k + 1
  BY <1>1, <1>2, <1>8
<1>10. n[k + 1] = particiones[k + 2]
  <2>1. n[j - 1] = particiones[j]
    BY <1>4, <1>9
  <2> QED
    BY <1>9, <2>1
<1>11. particiones[k + 1].esta_libre
  <2>1. CASE k = i
    BY <1>3, <2>1
  <2>2. CASE k > i
    <3>1. PICK h \in 1..L : h = k + 1 /\ h > i + 1 /\ h - 1 = k
      BY <1>1, <1>2, <2>2
    <3>2. n[h - 1] = particiones[h]
      BY <1>4, <3>1
    <3> QED
      BY <1>2, <3>1, <3>2
  <2> QED
    BY <1>1, <1>2, <1>8, <2>1, <2>2
<1> QED
  BY <1>2, <1>8, <1>9, <1>10, <1>11

-----------------------------------------------------------------------------
(* With one request at a time: each part of the invariant.                 *)

(* A request is attended only when no other one is.                        *)
LEMMA NadieMas ==
    ASSUME DeAUno, HayLugarParaAtender
    PROVE  EnCurso = {}
<1>1. IsFiniteSet(EnCurso)
  BY ParticionesAssumption, FS_Subset DEF EnCurso
<1>2. Cardinality(EnCurso) \in Nat /\ Cardinality(EnCurso) < 1
  BY <1>1, FS_CardinalityType DEF DeAUno, HayLugarParaAtender
<1>3. Cardinality(EnCurso) = 0
  BY <1>2
<1> QED
  BY <1>1, <1>3, FS_EmptySet

(* Only the handlers of a creation, before the assignment, and of an end,  *)
(* once the partition was found, hold a pointer.                           *)
LEMMA SinPunteros ==
    ASSUME Punteros, Tipos,
           \A p \in Procesos : tarea[p] \notin {"asignar", "desasignar"}
    PROVE  \A i \in 1..Len(particiones) : particiones[i].punteros = {}
<1>1. \A i \in 1..Len(particiones) : particiones[i].punteros \subseteq Procesos
  <2> TAKE i \in 1..Len(particiones)
  <2>1. particiones[i] \in Fichas
    BY ElementOfSeq DEF Tipos
  <2> QED
    BY <2>1 DEF Fichas
<1> QED
  BY <1>1 DEF Punteros

(* The task of p goes from one stage to another.                           *)
LEMMA Etapa ==
    ASSUME Tipos, NEW p \in Procesos, NEW a, tarea' = [tarea EXCEPT ![p] = a]
    PROVE  tarea'[p] = a /\ \A q \in Procesos : q # p => tarea'[q] = tarea[q]
BY DEF Tipos

(* Every step keeps one request in progress, the PID it looks for in       *)
(* pid_auxiliar, and the memory running.                                   *)
LEMMA OrdenPaso ==
    ASSUME DeAUno, InvDeAUno, Next
    PROVE  Orden'
<1>1. Tipos /\ Orden /\ Punteros /\ Pertenencia /\ Vigente
  BY DEF InvDeAUno, InvParticiones
<1>2. ASSUME NEW p \in Procesos, EnCurso \subseteq {p}, ~ caida', NEW a,
             tarea' = [tarea EXCEPT ![p] = a],
             pid_auxiliar' = pid_auxiliar \/ pid_auxiliar' = p,
             a = "buscar" => pid_auxiliar' = p
      PROVE  Orden'
  <2>1. tarea'[p] = a /\ \A q \in Procesos : q # p => tarea'[q] = tarea[q]
    BY <1>1, <1>2, Etapa
  <2>2. \A q \in Procesos : q # p => tarea[q] \in {"ausente", "presente"}
    BY <1>2 DEF EnCurso
  <2>3. \A q \in EnCurso' : q = p
    BY <2>1, <2>2 DEF EnCurso
  <2>4. \A q \in Procesos : tarea'[q] = "buscar" => q = p
    BY <2>1, <2>2
  <2> QED
    BY <1>2, <2>1, <2>3, <2>4 DEF Orden
<1>3. \A p \in Procesos : p \in EnCurso => EnCurso \subseteq {p}
  BY <1>1 DEF Orden
<1>4. ASSUME NEW p \in Procesos, NEW t \in Tamanios, BuscarParticionLibre(p, t)
      PROVE  Orden'
  <2>1. EnCurso \subseteq {p}
    BY <1>4, NadieMas DEF BuscarParticionLibre
  <2>2. PICK a \in {"partir", "asignar"} : tarea' = [tarea EXCEPT ![p] = a]
    BY <1>1, <1>4, EfectoBusqueda
  <2>3. ~ caida' /\ pid_auxiliar' = pid_auxiliar
    BY <1>1, <1>4, EfectoBusqueda DEF Orden
  <2> QED
    BY <1>2, <2>1, <2>2, <2>3
<1>5. ASSUME NEW p \in Procesos, IniciarProceso(p)
      PROVE  Orden'
  <2>1. tarea[p] = "asignar"
    BY <1>5 DEF IniciarProceso
  <2>2. EnCurso \subseteq {p}
    BY <1>3, <2>1 DEF EnCurso
  <2>3. \E i \in 1..Len(particiones) : p \in particiones[i].punteros
    BY <1>1, <2>1 DEF Punteros
  <2>4. tarea' = [tarea EXCEPT ![p] = "presente"] /\ UNCHANGED <<pid_auxiliar, caida>>
    BY <1>1, <1>5, <2>3, EfectoAsignacion
  <2> QED
    BY <1>1, <1>2, <2>2, <2>4 DEF Orden
<1>6. ASSUME NEW p \in Procesos, BuscarParticionPorPid(p)
      PROVE  Orden'
  <2>1. EnCurso \subseteq {p}
    BY <1>6, NadieMas DEF BuscarParticionPorPid
  <2>2. ~ caida' /\ tarea' = [tarea EXCEPT ![p] = "buscar"] /\ pid_auxiliar' = p
    BY <1>1, <1>6 DEF BuscarParticionPorPid, Orden
  <2> QED
    BY <1>2, <2>1, <2>2
<1>7. ASSUME NEW p \in Procesos, EncontrarParticion(p)
      PROVE  Orden'
  <2>1. tarea[p] = "buscar"
    BY <1>7 DEF EncontrarParticion
  <2>2. EnCurso \subseteq {p}
    BY <1>3, <2>1 DEF EnCurso
  <2>3. \E i \in 1..Len(particiones) : particiones[i].pid = pid_auxiliar
    BY <1>1, <2>1 DEF Orden, Pertenencia, Duenio
  <2>4. tarea' = [tarea EXCEPT ![p] = "desasignar"] /\ UNCHANGED <<pid_auxiliar, caida>>
    BY <1>1, <1>7, <2>3, EfectoEncontrar
  <2> QED
    BY <1>1, <1>2, <2>2, <2>4 DEF Orden
<1>8. ASSUME NEW p \in Procesos, DesasignarParticion(p)
      PROVE  Orden'
  <2>1. tarea[p] = "desasignar"
    BY <1>8 DEF DesasignarParticion
  <2>2. EnCurso \subseteq {p}
    BY <1>3, <2>1 DEF EnCurso
  <2>3. \E i \in 1..Len(particiones) : p \in particiones[i].punteros
    BY <1>1, <2>1 DEF Punteros
  <2>4. /\ tarea' = [tarea EXCEPT ![p] = IF Dinamicas THEN "consolidar" ELSE "quitar"]
        /\ UNCHANGED <<pid_auxiliar, caida>>
    BY <1>1, <1>8, <2>3, EfectoDesasignacion
  <2> QED
    BY <1>1, <1>2, <2>2, <2>4 DEF Orden
<1>9. ASSUME NEW p \in Procesos, ConsolidarParticionesLibres(p)
      PROVE  Orden'
  <2>1. tarea[p] \in {"consolidar", "reconsolidar"}
    BY <1>9 DEF ConsolidarParticionesLibres
  <2>2. EnCurso \subseteq {p}
    BY <1>3, <2>1 DEF EnCurso
  <2>3. /\ tarea' = [tarea EXCEPT
                        ![p] = IF tarea[p] = "consolidar" /\ Len(particiones') > 1
                               THEN "reconsolidar" ELSE "quitar"]
        /\ UNCHANGED <<pid_auxiliar, caida>>
    BY <1>9 DEF ConsolidarParticionesLibres
  <2> QED
    BY <1>1, <1>2, <2>2, <2>3 DEF Orden
<1>10. ASSUME NEW p \in Procesos, QuitarProceso(p)
       PROVE  Orden'
  <2>1. tarea[p] = "quitar"
    BY <1>10 DEF QuitarProceso
  <2>2. EnCurso \subseteq {p}
    BY <1>3, <2>1 DEF EnCurso
  <2>3. tarea' = [tarea EXCEPT ![p] = "ausente"] /\ UNCHANGED <<pid_auxiliar, caida>>
    BY <1>10 DEF QuitarProceso
  <2> QED
    BY <1>1, <1>2, <2>2, <2>3 DEF Orden
<1>11. ASSUME NEW p \in Procesos, CrearParticionEnIndice(p)
       PROVE  Orden'
  <2>1. tarea[p] = "partir" /\ indice \in 1..Len(particiones)
    BY <1>1, <1>11 DEF CrearParticionEnIndice, Vigente
  <2>2. EnCurso \subseteq {p}
    BY <1>3, <2>1 DEF EnCurso
  <2>3. PICK a \in {"ausente", "asignar"} : tarea' = [tarea EXCEPT ![p] = a]
    BY <1>1, <1>11, <2>1, EfectoParticion
  <2>4. UNCHANGED <<pid_auxiliar, caida>>
    BY <1>1, <1>11, <2>1, EfectoParticion
  <2> QED
    BY <1>1, <1>2, <2>2, <2>3, <2>4 DEF Orden
<1> QED
  BY <1>4, <1>5, <1>6, <1>7, <1>8, <1>9, <1>10, <1>11 DEF Next

(* The index of a creation is fresh when it is used: the only request in   *)
(* progress is the one that keeps it.                                      *)
LEMMA VigentePaso ==
    ASSUME DeAUno, InvDeAUno, Next
    PROVE  Vigente'
<1>1. Tipos /\ Orden /\ Vigente
  BY DEF InvDeAUno, InvParticiones
<1>2. ASSUME NEW p \in Procesos, EnCurso \subseteq {p}, NEW a, a # "partir",
             tarea' = [tarea EXCEPT ![p] = a]
      PROVE  Vigente'
  <2>1. tarea'[p] = a /\ \A q \in Procesos : q # p => tarea'[q] = tarea[q]
    BY <1>1, <1>2, Etapa
  <2>2. \A q \in Procesos : tarea'[q] # "partir"
    BY <1>2, <2>1 DEF EnCurso
  <2> QED
    BY <2>2 DEF Vigente
<1>3. \A p \in Procesos : p \in EnCurso => EnCurso \subseteq {p}
  BY <1>1 DEF Orden
<1>4. ASSUME Caer
      PROVE  Vigente'
  BY <1>1, <1>4 DEF Caer, Vigente, Dinamicas, Cabe
<1>5. ASSUME NEW p \in Procesos, NEW t \in Tamanios, BuscarParticionLibre(p, t)
      PROVE  Vigente'
  <2>1. EnCurso \subseteq {p}
    BY <1>5, NadieMas DEF BuscarParticionLibre
  <2>2. CASE ~ Dinamicas
    BY <1>1, <1>2, <1>5, <2>1, <2>2, EfectoBusqueda
  <2>3. CASE Dinamicas
    <3>1. /\ config' = config /\ particiones' = particiones
          /\ tarea' = [tarea EXCEPT ![p] = "partir"]
          /\ proceso' = [proceso EXCEPT ![p].tamanio = t]
          /\ indice' \in 1..Len(particiones) /\ Cabe(particiones, indice', t)
      BY <1>1, <1>5, <2>3, EfectoBusqueda
    <3>2. \A q \in Procesos : q # p => tarea'[q] = tarea[q]
      BY <1>1, <3>1, Etapa
    <3>3. \A q \in Procesos : tarea'[q] = "partir" => q = p
      BY <2>1, <3>2 DEF EnCurso
    <3>4. proceso'[p].tamanio = t /\ Dinamicas'
      BY <1>1, <2>3, <3>1 DEF Tipos, Dinamicas
    <3> QED
      BY <3>1, <3>3, <3>4 DEF Vigente, Cabe
  <2> QED
    BY <2>2, <2>3
<1>6. ASSUME NEW p \in Procesos, CrearParticionEnIndice(p)
      PROVE  Vigente'
  <2>1. EnCurso \subseteq {p}
    BY <1>3, <1>6 DEF CrearParticionEnIndice, EnCurso
  <2> QED
    BY <1>1, <1>2, <1>4, <1>6, <2>1, EfectoParticion
<1>7. ASSUME NEW p \in Procesos, IniciarProceso(p)
      PROVE  Vigente'
  <2>1. EnCurso \subseteq {p}
    BY <1>3, <1>7 DEF IniciarProceso, EnCurso
  <2> QED
    BY <1>1, <1>2, <1>4, <1>7, <2>1, EfectoAsignacion
<1>8. ASSUME NEW p \in Procesos, BuscarParticionPorPid(p)
      PROVE  Vigente'
  <2>1. EnCurso \subseteq {p} /\ tarea' = [tarea EXCEPT ![p] = "buscar"]
    BY <1>8, NadieMas DEF BuscarParticionPorPid
  <2> QED
    BY <1>2, <2>1
<1>9. ASSUME NEW p \in Procesos, EncontrarParticion(p)
      PROVE  Vigente'
  <2>1. EnCurso \subseteq {p}
    BY <1>3, <1>9 DEF EncontrarParticion, EnCurso
  <2> QED
    BY <1>1, <1>2, <1>4, <1>9, <2>1, EfectoEncontrar
<1>10. ASSUME NEW p \in Procesos, DesasignarParticion(p)
       PROVE  Vigente'
  <2>1. EnCurso \subseteq {p}
    BY <1>3, <1>10 DEF DesasignarParticion, EnCurso
  <2>2. Caer \/ \E a \in {"consolidar", "quitar"} : tarea' = [tarea EXCEPT ![p] = a]
    BY <1>1, <1>10, EfectoDesasignacion
  <2> QED
    BY <1>2, <1>4, <2>1, <2>2
<1>11. ASSUME NEW p \in Procesos, ConsolidarParticionesLibres(p)
       PROVE  Vigente'
  <2>1. EnCurso \subseteq {p}
    BY <1>3, <1>11 DEF ConsolidarParticionesLibres, EnCurso
  <2>2. \E a \in {"reconsolidar", "quitar"} : tarea' = [tarea EXCEPT ![p] = a]
    BY <1>11 DEF ConsolidarParticionesLibres
  <2> QED
    BY <1>2, <2>1, <2>2
<1>12. ASSUME NEW p \in Procesos, QuitarProceso(p)
       PROVE  Vigente'
  <2>1. EnCurso \subseteq {p} /\ tarea' = [tarea EXCEPT ![p] = "ausente"]
    BY <1>3, <1>12 DEF QuitarProceso, EnCurso
  <2> QED
    BY <1>2, <2>1
<1> QED
  BY <1>5, <1>6, <1>7, <1>8, <1>9, <1>10, <1>11, <1>12 DEF Next

(* A step after which nobody holds a pointer, or only p to partition i.    *)
LEMMA PunterosDeNadie ==
    ASSUME Tipos, NEW p \in Procesos, NEW a, a \notin {"asignar", "desasignar"},
           tarea' = [tarea EXCEPT ![p] = a],
           \A q \in Procesos : q # p => tarea[q] \notin {"asignar", "desasignar"},
           \A i \in 1..Len(particiones') : particiones'[i].punteros = {}
    PROVE  Punteros'
<1>1. tarea'[p] = a /\ \A q \in Procesos : q # p => tarea'[q] = tarea[q]
  BY Etapa
<1> QED
  BY <1>1 DEF Punteros

(* The pointer of the only handler in progress. *)
LEMMA PunterosDeUno ==
    ASSUME Tipos, NEW p \in Procesos, NEW a, tarea' = [tarea EXCEPT ![p] = a],
           \A q \in Procesos : q # p => tarea[q] \notin {"asignar", "desasignar"},
           NEW i \in 1..Len(particiones'), particiones'[i].punteros = {p},
           \A j \in 1..Len(particiones') : j # i => particiones'[j].punteros = {},
           \/ /\ a = "asignar" /\ particiones'[i].pid = SinPid
              /\ particiones'[i].tamanio >= proceso'[p].tamanio
           \/ a = "desasignar" /\ particiones'[i].pid = p
    PROVE  Punteros'
<1>1. tarea'[p] = a /\ \A q \in Procesos : q # p => tarea'[q] = tarea[q]
  BY Etapa
<1>2. \A j \in 1..Len(particiones') : \A q \in particiones'[j].punteros : q = p /\ j = i
  OBVIOUS
<1>3. \A q \in Procesos : tarea'[q] \in {"asignar", "desasignar"} => q = p
  BY <1>1
<1>4. p \in particiones'[i].punteros
  OBVIOUS
<1> QED
  BY <1>1, <1>2, <1>3, <1>4 DEF Punteros

(* Every step keeps the pointer of the handler in progress on the          *)
(* partition it is for.                                                    *)
LEMMA PunterosPaso ==
    ASSUME DeAUno, InvDeAUno, Next
    PROVE  Punteros'
<1>1. Tipos /\ Orden /\ Punteros /\ Pertenencia /\ Vigente /\ Tipos'
  BY TiposPaso DEF InvDeAUno, InvParticiones
<1>2. ASSUME NEW p \in Procesos, EnCurso \subseteq {p}
      PROVE  \A q \in Procesos : q # p => tarea[q] \notin {"asignar", "desasignar"}
  BY <1>2 DEF EnCurso
<1>3. \A p \in Procesos : p \in EnCurso => EnCurso \subseteq {p}
  BY <1>1 DEF Orden
<1>4. ASSUME NEW p \in Procesos, EnCurso \subseteq {p},
             tarea[p] \notin {"asignar", "desasignar"}
      PROVE  \A i \in 1..Len(particiones) : particiones[i].punteros = {}
  BY <1>1, <1>2, <1>4, SinPunteros
<1>5. \A i \in 1..Len(particiones) : particiones[i].punteros \subseteq Procesos
  <2> TAKE i \in 1..Len(particiones)
  <2>1. particiones[i] \in Fichas
    BY <1>1, ElementOfSeq DEF Tipos
  <2> QED
    BY <2>1 DEF Fichas
(* a pointer that p holds: it is the only one *)
<1>6. ASSUME NEW p \in Procesos, EnCurso \subseteq {p}, NEW i \in 1..Len(particiones),
             p \in particiones[i].punteros
      PROVE  /\ particiones[i].punteros = {p}
             /\ \A j \in 1..Len(particiones) : j # i => particiones[j].punteros = {}
  <2>1. \A j \in 1..Len(particiones) : particiones[j].punteros \subseteq {p}
    BY <1>1, <1>2, <1>5, <1>6 DEF Punteros
  <2>2. \A j \in 1..Len(particiones) : p \in particiones[j].punteros => i = j
    BY <1>1, <1>6 DEF Punteros
  <2> QED
    BY <1>6, <2>1, <2>2
<1>7. ASSUME NEW p \in Procesos, NEW t \in Tamanios, BuscarParticionLibre(p, t)
      PROVE  Punteros'
  <2>1. EnCurso = {} /\ EnCurso \subseteq {p}
    BY <1>7, NadieMas DEF BuscarParticionLibre
  <2>2. /\ tarea[p] = "ausente" /\ proceso' = [proceso EXCEPT ![p].tamanio = t]
    BY <1>7 DEF BuscarParticionLibre
  <2>3. proceso'[p].tamanio = t
    BY <1>1, <2>2 DEF Tipos
  <2>4. \A j \in 1..Len(particiones) : particiones[j].punteros = {}
    BY <1>4, <2>1, <2>2
  <2>5. \A q \in Procesos : q # p => tarea[q] \notin {"asignar", "desasignar"}
    BY <1>2, <2>1
  <2>6. ASSUME particiones' = particiones, tarea' = [tarea EXCEPT ![p] = "partir"]
        PROVE  Punteros'
    BY <1>1, <2>4, <2>5, <2>6, PunterosDeNadie
  <2>7. ASSUME NEW i \in 1..Len(particiones), Cabe(particiones, i, t), EnLugar(i),
               tarea' = [tarea EXCEPT ![p] = "asignar"],
               particiones'[i].pid = particiones[i].pid,
               particiones'[i].punteros = particiones[i].punteros \cup {p}
        PROVE  Punteros'
    <3> DEFINE n == particiones'
    <3>1. particiones[i].pid = SinPid
      BY <1>1, <2>7 DEF Pertenencia, Cabe
    <3>2. /\ i \in 1..Len(n) /\ n[i].punteros = {p} /\ n[i].pid = SinPid
          /\ \A j \in 1..Len(n) : j # i => n[j].punteros = {}
      BY <2>4, <2>7, <3>1 DEF EnLugar
    <3>3. n[i].tamanio >= proceso'[p].tamanio
      BY <2>3, <2>7 DEF EnLugar, MismaZona, Cabe
    <3> QED
      BY <1>1, <2>5, <2>7, <3>2, <3>3, PunterosDeUno
  <2> QED
    BY <1>1, <1>7, <2>6, <2>7, EfectoBusqueda
<1>8. ASSUME NEW p \in Procesos, IniciarProceso(p)
      PROVE  Punteros'
  <2>1. tarea[p] = "asignar"
    BY <1>8 DEF IniciarProceso
  <2>2. EnCurso \subseteq {p}
    BY <1>3, <2>1 DEF EnCurso
  <2>3. PICK i \in 1..Len(particiones) :
                 /\ p \in particiones[i].punteros /\ EnLugar(i)
                 /\ particiones'[i].punteros = particiones[i].punteros \ {p}
                 /\ tarea' = [tarea EXCEPT ![p] = "presente"]
    <3>1. \E i \in 1..Len(particiones) : p \in particiones[i].punteros
      BY <1>1, <2>1 DEF Punteros
    <3> QED
      BY <1>1, <1>8, <3>1, EfectoAsignacion
  <2>4. \A j \in 1..Len(particiones') : particiones'[j].punteros = {}
    BY <1>6, <2>2, <2>3 DEF EnLugar
  <2> QED
    BY <1>1, <1>2, <2>2, <2>3, <2>4, PunterosDeNadie
<1>9. ASSUME NEW p \in Procesos, BuscarParticionPorPid(p)
      PROVE  Punteros'
  <2>1. EnCurso \subseteq {p}
    BY <1>9, NadieMas DEF BuscarParticionPorPid
  <2>2. /\ tarea[p] = "presente" /\ tarea' = [tarea EXCEPT ![p] = "buscar"]
        /\ particiones' = particiones
    BY <1>9 DEF BuscarParticionPorPid
  <2> QED
    BY <1>1, <1>2, <1>4, <2>1, <2>2, PunterosDeNadie
<1>10. ASSUME NEW p \in Procesos, EncontrarParticion(p)
       PROVE  Punteros'
  <2>1. tarea[p] = "buscar"
    BY <1>10 DEF EncontrarParticion
  <2>2. EnCurso \subseteq {p}
    BY <1>3, <2>1 DEF EnCurso
  <2>3. pid_auxiliar = p /\ \E i \in 1..Len(particiones) : particiones[i].pid = pid_auxiliar
    BY <1>1, <2>1 DEF Orden, Pertenencia, Duenio
  <2>4. PICK i \in 1..Len(particiones) :
                 /\ particiones[i].pid = p /\ EnLugar(i)
                 /\ particiones'[i].pid = particiones[i].pid
                 /\ particiones'[i].punteros = particiones[i].punteros \cup {p}
                 /\ tarea' = [tarea EXCEPT ![p] = "desasignar"]
    BY <1>1, <1>10, <2>3, EfectoEncontrar
  <2>5. \A j \in 1..Len(particiones) : particiones[j].punteros = {}
    BY <1>4, <2>1, <2>2
  <2>6. /\ i \in 1..Len(particiones') /\ particiones'[i].punteros = {p}
        /\ particiones'[i].pid = p
        /\ \A j \in 1..Len(particiones') : j # i => particiones'[j].punteros = {}
    BY <2>4, <2>5 DEF EnLugar
  <2> QED
    BY <1>1, <1>2, <2>2, <2>4, <2>6, PunterosDeUno
<1>11. ASSUME NEW p \in Procesos, DesasignarParticion(p)
       PROVE  Punteros'
  <2>1. tarea[p] = "desasignar"
    BY <1>11 DEF DesasignarParticion
  <2>2. EnCurso \subseteq {p}
    BY <1>3, <2>1 DEF EnCurso
  <2>3. PICK i \in 1..Len(particiones) :
                 /\ p \in particiones[i].punteros /\ EnLugar(i)
                 /\ particiones'[i].punteros = particiones[i].punteros \ {p}
                 /\ tarea' = [tarea EXCEPT
                                 ![p] = IF Dinamicas THEN "consolidar" ELSE "quitar"]
    <3>1. \E i \in 1..Len(particiones) : p \in particiones[i].punteros
      BY <1>1, <2>1 DEF Punteros
    <3> QED
      BY <1>1, <1>11, <3>1, EfectoDesasignacion
  <2>4. \A j \in 1..Len(particiones') : particiones'[j].punteros = {}
    BY <1>6, <2>2, <2>3 DEF EnLugar
  <2>5. PICK a \in {"consolidar", "quitar"} : tarea' = [tarea EXCEPT ![p] = a]
    BY <2>3
  <2> QED
    BY <1>1, <1>2, <2>2, <2>4, <2>5, PunterosDeNadie
<1>12. ASSUME NEW p \in Procesos, ConsolidarParticionesLibres(p)
       PROVE  Punteros'
  <2>1. /\ tarea[p] \in {"consolidar", "reconsolidar"}
        /\ particiones' = Consolidar(particiones)
        /\ tarea' = [tarea EXCEPT
                        ![p] = IF tarea[p] = "consolidar" /\ Len(particiones') > 1
                               THEN "reconsolidar" ELSE "quitar"]
    BY <1>12 DEF ConsolidarParticionesLibres
  <2>2. EnCurso \subseteq {p}
    BY <1>3, <2>1 DEF EnCurso
  <2>3. \A j \in 1..Len(particiones) : particiones[j].punteros = {}
    BY <1>4, <2>1, <2>2
  <2>4. ASSUME NEW j \in 1..Len(particiones')
        PROVE  particiones'[j].punteros = {}
    <3>1. CASE particiones' = particiones
      BY <2>3, <3>1
    <3>2. ASSUME NEW i \in 1..Len(particiones) - 1, Unidas(i)
          PROVE  particiones'[j].punteros = {}
      <4>1. CASE j = i
        <5>1. i \in 1..Len(particiones)
          <6>1. Len(particiones) \in Nat
            BY <1>1, LenProperties DEF Tipos
          <6> QED
            BY <6>1
        <5> QED
          BY <2>3, <3>2, <4>1, <5>1 DEF Unidas
      <4>2. CASE j # i
        <5>1. PICK o : Corresponde(o, {i, i + 1}, {i})
          BY <1>1, <3>2, CorrespondeUnidas
        <5>2. o[j] \in 1..Len(particiones) /\ particiones'[j] = particiones[o[j]]
          BY <4>2, <5>1 DEF Corresponde
        <5> QED
          BY <2>3, <5>2
      <4> QED
        BY <4>1, <4>2
    <3> QED
      BY <1>1, <2>1, <3>1, <3>2, EfectoConsolidacion
  <2> QED
    BY <1>1, <1>2, <2>1, <2>2, <2>4, PunterosDeNadie
<1>13. ASSUME NEW p \in Procesos, QuitarProceso(p)
       PROVE  Punteros'
  <2>1. /\ tarea[p] = "quitar" /\ tarea' = [tarea EXCEPT ![p] = "ausente"]
        /\ particiones' = particiones
    BY <1>13 DEF QuitarProceso
  <2>2. EnCurso \subseteq {p}
    BY <1>3, <2>1 DEF EnCurso
  <2> QED
    BY <1>1, <1>2, <1>4, <2>1, <2>2, PunterosDeNadie
<1>14. ASSUME NEW p \in Procesos, CrearParticionEnIndice(p)
       PROVE  Punteros'
  <2> DEFINE i == indice
             t == proceso[p].tamanio
  <2>1. /\ tarea[p] = "partir" /\ i \in 1..Len(particiones) /\ Cabe(particiones, i, t)
    BY <1>1, <1>14 DEF CrearParticionEnIndice, Vigente
  <2>2. EnCurso \subseteq {p}
    BY <1>3, <2>1 DEF EnCurso
  <2>3. t \in Nat
    BY <1>1, TamanioPedido
  <2>4. \A j \in 1..Len(particiones) : particiones[j].punteros = {}
    BY <1>4, <2>1, <2>2
  <2>5. \A q \in Procesos : q # p => tarea[q] \notin {"asignar", "desasignar"}
    BY <1>2, <2>2
  <2>6. ASSUME particiones' = particiones, tarea' = [tarea EXCEPT ![p] = "ausente"]
        PROVE  Punteros'
    BY <1>1, <2>4, <2>5, <2>6, PunterosDeNadie
  <2>7. ASSUME Partida(i, p, t), tarea' = [tarea EXCEPT ![p] = "asignar"],
               proceso' = proceso
        PROVE  Punteros'
    <3> DEFINE n == particiones'
    <3> HIDE DEF i
    <3>1. /\ n[i].tamanio = t /\ n[i].pid = SinPid /\ n[i].punteros = {p}
          /\ n[i + 1].punteros = particiones[i].punteros
          /\ Len(n) = Len(particiones) + 1
      BY <2>7 DEF Partida
    <3>2. PICK o : Corresponde(o, {i}, {i, i + 1})
      BY <1>1, <2>7, CorrespondePartida
    <3>3. ASSUME NEW j \in 1..Len(n), j # i
          PROVE  n[j].punteros = {}
      <4>1. CASE j = i + 1
        BY <2>1, <2>4, <3>1, <4>1
      <4>2. CASE j # i + 1
        <5>1. o[j] \in 1..Len(particiones) /\ n[j] = particiones[o[j]]
          BY <3>2, <3>3, <4>2 DEF Corresponde
        <5> QED
          BY <2>4, <5>1
      <4> QED
        BY <4>1, <4>2
    <3>4. i \in 1..Len(n)
      <4>1. Len(particiones) \in Nat
        BY <1>1, LenProperties DEF Tipos
      <4> QED
        BY <2>1, <3>1, <4>1
    <3>5. n[i].tamanio >= proceso'[p].tamanio
      BY <2>3, <2>7, <3>1
    <3> QED
      BY <1>1, <2>5, <2>7, <3>1, <3>3, <3>4, <3>5, PunterosDeUno
  <2> QED
    BY <1>1, <1>14, <2>1, <2>6, <2>7, EfectoParticion
<1> QED
  BY <1>7, <1>8, <1>9, <1>10, <1>11, <1>12, <1>13, <1>14 DEF Next

(* Every step leaves each process present in one partition, and the        *)
(* others in none.                                                         *)
LEMMA PertenenciaPaso ==
    ASSUME DeAUno, InvDeAUno, Next
    PROVE  Pertenencia'
<1>1. /\ Tipos /\ Acotadas /\ Vigente /\ Orden /\ Punteros /\ Pertenencia
      /\ Tipos' /\ SinPid \notin Procesos
  BY TiposPaso, ParticionesAssumption DEF InvDeAUno, InvParticiones
(* the fields of the owners and of the tasks, when neither changes *)
<1>2. ASSUME Len(particiones') = Len(particiones),
             \A j \in 1..Len(particiones) :
                /\ MismaZona(particiones'[j], particiones[j])
                /\ particiones'[j].esta_libre = particiones[j].esta_libre
                /\ particiones'[j].pid = particiones[j].pid,
             \A q \in Procesos : tarea[q] \in Duenio => proceso'[q] = proceso[q],
             \A q \in Procesos : tarea'[q] \in Duenio <=> tarea[q] \in Duenio
      PROVE  Pertenencia'
  BY <1>1, <1>2 DEF Pertenencia, MismaZona
<1>3. ASSUME NEW p \in Procesos, NEW t \in Tamanios, BuscarParticionLibre(p, t)
      PROVE  Pertenencia'
  <2>1. /\ tarea[p] = "ausente" /\ proceso' = [proceso EXCEPT ![p].tamanio = t]
        /\ tarea' = [tarea EXCEPT ![p] = "partir"] \/ tarea' = [tarea EXCEPT ![p] = "asignar"]
    BY <1>1, <1>3, EfectoBusqueda DEF BuscarParticionLibre
  <2>2. /\ \A q \in Procesos : tarea[q] \in Duenio => proceso'[q] = proceso[q]
        /\ \A q \in Procesos : tarea'[q] \in Duenio <=> tarea[q] \in Duenio
    BY <1>1, <2>1 DEF Duenio, Tipos
  <2>3. CASE particiones' = particiones
    BY <1>2, <2>2, <2>3 DEF MismaZona
  <2>4. ASSUME NEW i \in 1..Len(particiones), EnLugar(i),
               particiones'[i].esta_libre = particiones[i].esta_libre,
               particiones'[i].pid = particiones[i].pid
        PROVE  Pertenencia'
    BY <1>2, <2>2, <2>4 DEF EnLugar, MismaZona
  <2> QED
    BY <1>1, <1>3, <2>3, <2>4, EfectoBusqueda
<1>4. ASSUME NEW p \in Procesos, IniciarProceso(p)
      PROVE  Pertenencia'
  <2>1. tarea[p] = "asignar"
    BY <1>4 DEF IniciarProceso
  <2>2. PICK i \in 1..Len(particiones) :
                 /\ p \in particiones[i].punteros
                 /\ EnLugar(i)
                 /\ ~ particiones'[i].esta_libre /\ particiones'[i].pid = p
                 /\ proceso' = [proceso EXCEPT
                       ![p].base = particiones[i].base,
                       ![p].limite = particiones[i].base + particiones[i].tamanio]
                 /\ tarea' = [tarea EXCEPT ![p] = "presente"]
    <3>1. \E i \in 1..Len(particiones) : p \in particiones[i].punteros
      BY <1>1, <2>1 DEF Punteros
    <3>2. ASSUME NEW i \in 1..Len(particiones)
          PROVE  (particiones[i].base + particiones[i].tamanio) % Palabra
                   = particiones[i].base + particiones[i].tamanio
      <4>1. particiones[i] \in Fichas
        BY <1>1, ElementOfSeq DEF Tipos
      <4>2. PICK v \in Nat : v = particiones[i].base + particiones[i].tamanio
        BY <4>1 DEF Fichas
      <4>3. v \in Int /\ 0 <= v /\ v < Palabra
        BY <1>1, <4>2 DEF Acotadas
      <4>4. v % Palabra = v
        BY <4>3, EnPalabra
      <4> QED
        BY <4>2, <4>4
    <3> QED
      BY <1>1, <1>4, <3>1, <3>2, EfectoAsignacion
  <2>3. particiones[i].pid = SinPid /\ particiones[i].tamanio >= proceso[p].tamanio
    BY <1>1, <2>1, <2>2 DEF Punteros
  <2>4. \A j \in 1..Len(particiones) : particiones[j].pid # p
    BY <1>1, <2>1 DEF Pertenencia, Duenio
  <2>5. /\ proceso'[p].base = particiones[i].base
        /\ proceso'[p].limite = particiones[i].base + particiones[i].tamanio
        /\ proceso'[p].tamanio = proceso[p].tamanio
        /\ \A q \in Procesos : q # p => proceso'[q] = proceso[q]
        /\ \A q \in Procesos : q # p => tarea'[q] = tarea[q]
        /\ tarea'[p] \in Duenio
    BY <1>1, <2>2 DEF Tipos, Duenio
  <2>6. /\ Len(particiones') = Len(particiones)
        /\ particiones'[i].base = particiones[i].base
        /\ particiones'[i].tamanio = particiones[i].tamanio
        /\ \A j \in 1..Len(particiones) : j # i => particiones'[j] = particiones[j]
    BY <2>2 DEF EnLugar, MismaZona
  <2>7. \A j \in 1..Len(particiones) :
           particiones'[j].esta_libre <=> particiones'[j].pid = SinPid
    BY <1>1, <2>2, <2>6 DEF Pertenencia
  <2>8. ASSUME NEW j \in 1..Len(particiones), NEW q \in Procesos, particiones'[j].pid = q
        PROVE  /\ tarea'[q] \in Duenio
               /\ particiones'[j].base = proceso'[q].base
               /\ proceso'[q].limite = proceso'[q].base + particiones'[j].tamanio
               /\ particiones'[j].tamanio >= proceso'[q].tamanio
               /\ \A k \in 1..Len(particiones) : particiones'[k].pid = q => j = k
    <3>1. CASE j = i
      BY <2>2, <2>3, <2>4, <2>5, <2>6, <2>8, <3>1
    <3>2. CASE j # i
      <4>1. q # p /\ particiones'[j] = particiones[j] /\ particiones[j].pid = q
        BY <2>4, <2>6, <2>8, <3>2
      <4>2. particiones'[i].pid = p
        BY <2>2
      <4>3. \A k \in 1..Len(particiones) : particiones'[k].pid = q =>
               k # i /\ particiones[k].pid = q
        BY <2>6, <4>1, <4>2
      <4>4. /\ tarea[q] \in Duenio
            /\ particiones[j].base = proceso[q].base
            /\ proceso[q].limite = proceso[q].base + particiones[j].tamanio
            /\ particiones[j].tamanio >= proceso[q].tamanio
            /\ \A k \in 1..Len(particiones) : particiones[k].pid = q => j = k
        BY <1>1, <4>1 DEF Pertenencia
      <4>5. proceso'[q] = proceso[q] /\ tarea'[q] = tarea[q]
        BY <2>5, <4>1
      <4> QED
        BY <4>1, <4>3, <4>4, <4>5
    <3> QED
      BY <3>1, <3>2
  <2>9. ASSUME NEW q \in Procesos, tarea'[q] \in Duenio
        PROVE  \E j \in 1..Len(particiones) : particiones'[j].pid = q
    <3>1. CASE q = p
      BY <2>2, <3>1
    <3>2. CASE q # p
      <4>1. PICK j \in 1..Len(particiones) : particiones[j].pid = q
        BY <1>1, <2>5, <2>9, <3>2 DEF Pertenencia
      <4>2. j # i
        BY <1>1, <2>3, <4>1
      <4> QED
        BY <2>6, <4>1, <4>2
    <3> QED
      BY <3>1, <3>2
  <2> QED
    BY <2>6, <2>7, <2>8, <2>9 DEF Pertenencia
<1>5. ASSUME NEW p \in Procesos, BuscarParticionPorPid(p)
      PROVE  Pertenencia'
  <2>1. /\ tarea[p] = "presente" /\ tarea' = [tarea EXCEPT ![p] = "buscar"]
        /\ UNCHANGED <<particiones, proceso>>
    BY <1>5 DEF BuscarParticionPorPid
  <2>2. \A q \in Procesos : tarea'[q] \in Duenio <=> tarea[q] \in Duenio
    BY <1>1, <2>1 DEF Duenio, Tipos
  <2> QED
    BY <1>2, <2>1, <2>2 DEF MismaZona
<1>6. ASSUME NEW p \in Procesos, EncontrarParticion(p)
      PROVE  Pertenencia'
  <2>1. tarea[p] = "buscar"
    BY <1>6 DEF EncontrarParticion
  <2>2. \E i \in 1..Len(particiones) : particiones[i].pid = pid_auxiliar
    BY <1>1, <2>1 DEF Orden, Pertenencia, Duenio
  <2>3. PICK i \in 1..Len(particiones) :
                 /\ EnLugar(i)
                 /\ particiones'[i].esta_libre = particiones[i].esta_libre
                 /\ particiones'[i].pid = particiones[i].pid
                 /\ tarea' = [tarea EXCEPT ![p] = "desasignar"]
                 /\ UNCHANGED proceso
    BY <1>1, <1>6, <2>2, EfectoEncontrar
  <2>4. \A q \in Procesos : tarea'[q] \in Duenio <=> tarea[q] \in Duenio
    BY <1>1, <2>1, <2>3 DEF Duenio, Tipos
  <2> QED
    BY <1>2, <2>3, <2>4 DEF EnLugar, MismaZona
<1>7. ASSUME NEW p \in Procesos, DesasignarParticion(p)
      PROVE  Pertenencia'
  <2>1. tarea[p] = "desasignar"
    BY <1>7 DEF DesasignarParticion
  <2>2. PICK i \in 1..Len(particiones) :
                 /\ p \in particiones[i].punteros
                 /\ EnLugar(i)
                 /\ particiones'[i].esta_libre /\ particiones'[i].pid = SinPid
                 /\ tarea' = [tarea EXCEPT
                                 ![p] = IF Dinamicas THEN "consolidar" ELSE "quitar"]
                 /\ UNCHANGED proceso
    <3>1. \E i \in 1..Len(particiones) : p \in particiones[i].punteros
      BY <1>1, <2>1 DEF Punteros
    <3> QED
      BY <1>1, <1>7, <3>1, EfectoDesasignacion
  <2>3. particiones[i].pid = p
    BY <1>1, <2>1, <2>2 DEF Punteros
  <2>4. \A j \in 1..Len(particiones) : particiones[j].pid = p => i = j
    BY <1>1, <2>3 DEF Pertenencia
  <2>5. tarea'[p] \notin Duenio /\ \A q \in Procesos : q # p => tarea'[q] = tarea[q]
    BY <1>1, <2>2 DEF Tipos, Duenio
  <2>6. /\ Len(particiones') = Len(particiones)
        /\ \A j \in 1..Len(particiones) : j # i => particiones'[j] = particiones[j]
    BY <2>2 DEF EnLugar
  <2>7. \A j \in 1..Len(particiones) :
           particiones'[j].esta_libre <=> particiones'[j].pid = SinPid
    BY <1>1, <2>2, <2>6 DEF Pertenencia
  <2>8. ASSUME NEW j \in 1..Len(particiones), NEW q \in Procesos, particiones'[j].pid = q
        PROVE  /\ tarea'[q] \in Duenio
               /\ particiones'[j].base = proceso'[q].base
               /\ proceso'[q].limite = proceso'[q].base + particiones'[j].tamanio
               /\ particiones'[j].tamanio >= proceso'[q].tamanio
               /\ \A k \in 1..Len(particiones) : particiones'[k].pid = q => j = k
    <3>1. j # i
      BY <1>1, <2>2, <2>8
    <3>2. particiones'[j] = particiones[j] /\ particiones[j].pid = q /\ q # p
      BY <2>4, <2>6, <2>8, <3>1
    <3>3. \A k \in 1..Len(particiones) : particiones'[k].pid = q =>
             k # i /\ particiones[k].pid = q
      BY <1>1, <2>2, <2>6
    <3> QED
      BY <1>1, <2>2, <2>5, <3>2, <3>3 DEF Pertenencia
  <2>9. ASSUME NEW q \in Procesos, tarea'[q] \in Duenio
        PROVE  \E j \in 1..Len(particiones) : particiones'[j].pid = q
    <3>1. q # p /\ tarea[q] \in Duenio
      BY <2>5, <2>9
    <3>2. PICK j \in 1..Len(particiones) : particiones[j].pid = q
      BY <1>1, <3>1 DEF Pertenencia
    <3>3. j # i
      BY <2>3, <3>1, <3>2
    <3> QED
      BY <2>6, <3>2, <3>3
  <2> QED
    BY <2>6, <2>7, <2>8, <2>9 DEF Pertenencia
<1>8. ASSUME NEW p \in Procesos, ConsolidarParticionesLibres(p)
      PROVE  Pertenencia'
  <2>1. /\ tarea[p] \in {"consolidar", "reconsolidar"}
        /\ particiones' = Consolidar(particiones)
        /\ tarea' = [tarea EXCEPT
                        ![p] = IF tarea[p] = "consolidar" /\ Len(particiones') > 1
                               THEN "reconsolidar" ELSE "quitar"]
        /\ UNCHANGED proceso
    BY <1>8 DEF ConsolidarParticionesLibres
  <2>2. \A q \in Procesos : tarea'[q] \in Duenio <=> tarea[q] \in Duenio
    BY <1>1, <2>1 DEF Duenio, Tipos
  <2>3. CASE particiones' = particiones
    BY <1>2, <2>1, <2>2, <2>3 DEF MismaZona
  <2>4. ASSUME NEW i \in 1..Len(particiones) - 1, Unidas(i)
        PROVE  Pertenencia'
    <3>1. i \in 1..Len(particiones) /\ i + 1 \in 1..Len(particiones)
      <4>1. Len(particiones) \in Nat
        BY <1>1, LenProperties DEF Tipos
      <4> QED
        BY <4>1
    <3>2. /\ particiones[i].esta_libre /\ particiones[i + 1].esta_libre
          /\ particiones[i].pid = SinPid /\ particiones[i + 1].pid = SinPid
      BY <1>1, <2>4, <3>1 DEF Unidas, ParesLibres, Pertenencia
    <3>3. PICK o : Corresponde(o, {i, i + 1}, {i})
      BY <1>1, <2>4, CorrespondeUnidas
    <3>4. particiones'[i].esta_libre /\ particiones'[i].pid = SinPid
      BY <2>4, <3>2 DEF Unidas
    <3> QED
      BY <1>1, <2>1, <2>2, <3>2, <3>3, <3>4, MismosDuenios
  <2> QED
    BY <1>1, <2>1, <2>3, <2>4, EfectoConsolidacion
<1>9. ASSUME NEW p \in Procesos, QuitarProceso(p)
      PROVE  Pertenencia'
  <2>1. /\ tarea[p] = "quitar" /\ tarea' = [tarea EXCEPT ![p] = "ausente"]
        /\ particiones' = particiones
        /\ proceso' = [proceso EXCEPT ![p] = [base |-> 0, limite |-> 0, tamanio |-> 0]]
    BY <1>9 DEF QuitarProceso
  <2>2. /\ \A q \in Procesos : tarea[q] \in Duenio => proceso'[q] = proceso[q]
        /\ \A q \in Procesos : tarea'[q] \in Duenio <=> tarea[q] \in Duenio
    BY <1>1, <2>1 DEF Duenio, Tipos
  <2> QED
    BY <1>2, <2>1, <2>2 DEF MismaZona
<1>10. ASSUME NEW p \in Procesos, CrearParticionEnIndice(p)
       PROVE  Pertenencia'
  <2> DEFINE i == indice
             t == proceso[p].tamanio
  <2>1. /\ tarea[p] = "partir" /\ i \in 1..Len(particiones) /\ Cabe(particiones, i, t)
        /\ tarea' = [tarea EXCEPT ![p] = "ausente"]
              \/ tarea' = [tarea EXCEPT ![p] = "asignar"]
        /\ proceso' = proceso \/ proceso' = [proceso EXCEPT ![p].tamanio = 0]
    BY <1>1, <1>10, EfectoParticion DEF CrearParticionEnIndice, Vigente
  <2>2. /\ \A q \in Procesos : tarea[q] \in Duenio => proceso'[q] = proceso[q]
        /\ \A q \in Procesos : tarea'[q] \in Duenio <=> tarea[q] \in Duenio
    BY <1>1, <2>1 DEF Duenio, Tipos
  <2>3. CASE particiones' = particiones
    BY <1>2, <2>2, <2>3 DEF MismaZona
  <2>4. ASSUME Partida(i, p, t)
        PROVE  Pertenencia'
    <3> HIDE DEF i, t
    <3>1. particiones[i].esta_libre /\ particiones[i].pid = SinPid
      BY <1>1, <2>1 DEF Cabe, Pertenencia
    <3>2. PICK o : Corresponde(o, {i}, {i, i + 1})
      BY <1>1, <2>4, CorrespondePartida
    <3>3. \A j \in {i, i + 1} : particiones'[j].esta_libre /\ particiones'[j].pid = SinPid
      BY <2>4, <3>1 DEF Partida
    <3> QED
      BY <1>1, <2>2, <3>1, <3>2, <3>3, MismosDuenios
  <2> QED
    BY <1>1, <1>10, <2>1, <2>3, <2>4, EfectoParticion
<1> QED
  BY <1>3, <1>4, <1>5, <1>6, <1>7, <1>8, <1>9, <1>10 DEF Next


(* Free neighbours only appear where a partition was split or freed, and   *)
(* each pass of the consolidation leaves one pair less.                    *)
LEMMA VecinasPaso ==
    ASSUME DeAUno, InvDeAUno, Next
    PROVE  Vecinas'
<1> DEFINE T == ParesLibres(particiones)
           L == Len(particiones)
           Armado == {"asignar", "consolidar", "reconsolidar"}
<1>1. Tipos /\ Vigente /\ Orden /\ Punteros /\ Pertenencia /\ Vecinas /\ SinPid \notin Procesos
  BY ParticionesAssumption DEF InvDeAUno, InvParticiones
<1>2. L \in Nat
  BY <1>1, LenProperties DEF Tipos
<1>3. ASSUME NEW p \in Procesos, EnCurso \subseteq {p}, config' = config,
             NEW a, tarea' = [tarea EXCEPT ![p] = a],
             Dinamicas => /\ T' # {} => a \in Armado
                          /\ \A k, l \in T' :
                                /\ a = "asignar" => p \in particiones'[k].punteros
                                /\ a = "consolidar" => l <= k + 1
                                /\ a = "reconsolidar" => l = k
      PROVE  Vecinas'
  <2>1. Dinamicas' <=> Dinamicas
    BY <1>3 DEF Dinamicas
  <2>2. tarea'[p] = a /\ \A q \in Procesos : q # p => tarea'[q] = tarea[q]
    BY <1>1, <1>3, Etapa
  <2>3. \A q \in Procesos : q # p => tarea'[q] \in {"ausente", "presente"}
    BY <1>3, <2>2 DEF EnCurso
  <2>4. \A q \in Procesos : tarea'[q] \in Armado => q = p
    BY <2>3
  <2>5. Dinamicas => (T' # {} => \E q \in Procesos : tarea'[q] \in Armado)
    BY <1>3, <2>2
  <2>6. ASSUME Dinamicas, NEW q \in Procesos, NEW k \in T', NEW l \in T'
        PROVE  /\ tarea'[q] = "asignar" => q \in particiones'[k].punteros
               /\ tarea'[q] = "consolidar" => l <= k + 1
               /\ tarea'[q] = "reconsolidar" => l = k
    BY <1>3, <2>2, <2>4, <2>6
  <2> HIDE DEF T
  <2>7. Dinamicas' => /\ T' # {} => \E q \in Procesos : tarea'[q] \in Armado
                      /\ \A q \in Procesos : \A k, l \in T' :
                            /\ tarea'[q] = "asignar" => q \in particiones'[k].punteros
                            /\ tarea'[q] = "consolidar" => l <= k + 1
                            /\ tarea'[q] = "reconsolidar" => l = k
    BY <2>1, <2>5, <2>6
  <2> QED
    BY <2>7 DEF Vecinas, T
<1>4. ASSUME Dinamicas, \A q \in Procesos : tarea[q] \notin Armado
      PROVE  T = {}
  BY <1>1, <1>4 DEF Vecinas
<1>5. \A p \in Procesos : p \in EnCurso => EnCurso \subseteq {p}
  BY <1>1 DEF Orden
<1>6. ASSUME NEW p \in Procesos, EnCurso \subseteq {p}, tarea[p] \notin Armado
      PROVE  \A q \in Procesos : tarea[q] \notin Armado
  BY <1>6 DEF EnCurso
<1>7. ASSUME NEW p \in Procesos, NEW t \in Tamanios, BuscarParticionLibre(p, t)
      PROVE  Vecinas'
  <2>1. EnCurso = {} /\ tarea[p] = "ausente"
    BY <1>7, NadieMas DEF BuscarParticionLibre
  <2>2. config' = config
    BY <1>1, <1>7, EfectoBusqueda
  <2>3. CASE Dinamicas
    <3>1. T = {}
      BY <1>4, <1>6, <2>1, <2>3
    <3>2. particiones' = particiones /\ tarea' = [tarea EXCEPT ![p] = "partir"]
      BY <1>1, <1>7, <2>3, EfectoBusqueda
    <3>3. T' = {}
      BY <3>1, <3>2
    <3> QED
      BY <1>3, <2>1, <2>2, <3>2, <3>3
  <2>4. CASE ~ Dinamicas
    <3>1. tarea' = [tarea EXCEPT ![p] = "asignar"]
      BY <1>1, <1>7, <2>4, EfectoBusqueda
    <3> QED
      BY <1>3, <2>1, <2>2, <2>4, <3>1
  <2> QED
    BY <2>3, <2>4
<1>8. ASSUME NEW p \in Procesos, IniciarProceso(p)
      PROVE  Vecinas'
  <2>1. tarea[p] = "asignar"
    BY <1>8 DEF IniciarProceso
  <2>2. EnCurso \subseteq {p}
    BY <1>5, <2>1 DEF EnCurso
  <2>3. PICK i \in 1..L :
                 /\ p \in particiones[i].punteros /\ EnLugar(i)
                 /\ ~ particiones'[i].esta_libre
                 /\ tarea' = [tarea EXCEPT ![p] = "presente"]
                 /\ config' = config
    <3>1. \E i \in 1..L : p \in particiones[i].punteros
      BY <1>1, <2>1 DEF Punteros
    <3> QED
      BY <1>1, <1>8, <3>1, EfectoAsignacion
  <2>4. ASSUME Dinamicas, NEW k \in T'
        PROVE  FALSE
    <3>1. k \in 1..L - 1 /\ particiones'[k].esta_libre /\ particiones'[k + 1].esta_libre
      BY <2>3, <2>4 DEF ParesLibres, EnLugar
    <3>2. k # i /\ k + 1 # i
      BY <2>3, <3>1
    <3>3. k \in 1..L /\ k + 1 \in 1..L
      BY <1>2, <3>1
    <3>4. k \in T
      BY <2>3, <3>1, <3>2, <3>3 DEF ParesLibres, EnLugar
    <3>5. p \in particiones[k].punteros
      BY <1>1, <2>1, <2>4, <3>4 DEF Vecinas
    <3>6. i = k
      BY <1>1, <2>3, <3>3, <3>5 DEF Punteros
    <3> QED
      BY <3>2, <3>6
  <2>5. Dinamicas => T' = {}
    BY <2>4
  <2> QED
    BY <1>3, <2>2, <2>3, <2>5
<1>9. ASSUME NEW p \in Procesos, BuscarParticionPorPid(p)
      PROVE  Vecinas'
  <2>1. EnCurso = {} /\ tarea[p] = "presente"
    BY <1>9, NadieMas DEF BuscarParticionPorPid
  <2>2. /\ config' = config /\ tarea' = [tarea EXCEPT ![p] = "buscar"]
        /\ particiones' = particiones
    BY <1>9 DEF BuscarParticionPorPid
  <2>3. Dinamicas => T' = {}
    BY <1>4, <1>6, <2>1, <2>2
  <2> QED
    BY <1>3, <2>1, <2>2, <2>3
<1>10. ASSUME NEW p \in Procesos, EncontrarParticion(p)
       PROVE  Vecinas'
  <2>1. tarea[p] = "buscar"
    BY <1>10 DEF EncontrarParticion
  <2>2. EnCurso \subseteq {p}
    BY <1>5, <2>1 DEF EnCurso
  <2>3. \E i \in 1..L : particiones[i].pid = pid_auxiliar
    BY <1>1, <2>1 DEF Orden, Pertenencia, Duenio
  <2>4. PICK i \in 1..L :
                 /\ EnLugar(i) /\ particiones'[i].esta_libre = particiones[i].esta_libre
                 /\ tarea' = [tarea EXCEPT ![p] = "desasignar"]
                 /\ config' = config
    BY <1>1, <1>10, <2>3, EfectoEncontrar
  <2>5. /\ Len(particiones') = L
        /\ \A j \in 1..L : particiones'[j].esta_libre = particiones[j].esta_libre
    BY <2>4 DEF EnLugar
  <2>6. \A j \in 1..L - 1 : j \in 1..L /\ j + 1 \in 1..L
    BY <1>2
  <2>7. T' = T
    BY <2>5, <2>6 DEF ParesLibres
  <2>8. Dinamicas => T' = {}
    BY <1>4, <1>6, <2>1, <2>2, <2>7
  <2> QED
    BY <1>3, <2>2, <2>4, <2>8
<1>11. ASSUME NEW p \in Procesos, DesasignarParticion(p)
       PROVE  Vecinas'
  <2>1. tarea[p] = "desasignar"
    BY <1>11 DEF DesasignarParticion
  <2>2. EnCurso \subseteq {p}
    BY <1>5, <2>1 DEF EnCurso
  <2>3. PICK i \in 1..L :
                 /\ EnLugar(i)
                 /\ tarea' = [tarea EXCEPT
                                 ![p] = IF Dinamicas THEN "consolidar" ELSE "quitar"]
                 /\ config' = config
    <3>1. \E i \in 1..L : p \in particiones[i].punteros
      BY <1>1, <2>1 DEF Punteros
    <3> QED
      BY <1>1, <1>11, <3>1, EfectoDesasignacion
  <2>4. PICK a \in {"consolidar", "quitar"} :
                 tarea' = [tarea EXCEPT ![p] = a] /\ (Dinamicas => a = "consolidar")
    BY <2>3
  <2>5. ASSUME Dinamicas, NEW k \in T'
        PROVE  k \in Nat /\ (k = i \/ k + 1 = i)
    <3>1. T = {}
      BY <1>4, <1>6, <2>1, <2>2, <2>5
    <3>2. k \in 1..L - 1 /\ particiones'[k].esta_libre /\ particiones'[k + 1].esta_libre
      BY <2>3, <2>5 DEF ParesLibres, EnLugar
    <3>3. k \in 1..L /\ k + 1 \in 1..L /\ k \in Nat
      BY <1>2, <3>2
    <3>4. k # i /\ k + 1 # i => k \in T
      BY <2>3, <3>2, <3>3 DEF ParesLibres, EnLugar
    <3> QED
      BY <3>1, <3>3, <3>4
  <2>6. i \in Nat
    BY <1>2
  <2>7. Dinamicas => \A k, l \in T' : l <= k + 1
    BY <2>5, <2>6
  <2> QED
    BY <1>3, <2>2, <2>3, <2>4, <2>7
<1>12. ASSUME NEW p \in Procesos, ConsolidarParticionesLibres(p)
       PROVE  Vecinas'
  <2>1. /\ tarea[p] \in {"consolidar", "reconsolidar"}
        /\ particiones' = Consolidar(particiones)
        /\ tarea' = [tarea EXCEPT
                        ![p] = IF tarea[p] = "consolidar" /\ Len(particiones') > 1
                               THEN "reconsolidar" ELSE "quitar"]
        /\ config' = config
    BY <1>12 DEF ConsolidarParticionesLibres
  <2>2. EnCurso \subseteq {p}
    BY <1>5, <2>1 DEF EnCurso
  <2>3. PICK a \in {"reconsolidar", "quitar"} :
                 /\ tarea' = [tarea EXCEPT ![p] = a]
                 /\ a = IF tarea[p] = "consolidar" /\ Len(particiones') > 1
                        THEN "reconsolidar" ELSE "quitar"
    BY <2>1
  <2>4. ASSUME NEW i \in 1..L - 1, Unidas(i), Dinamicas, NEW k \in T'
        PROVE  a = "reconsolidar" /\ k = i
    <3>1. k \in Nat /\ k >= i /\ k + 1 \in T /\ i \in T /\ i \in Nat
      <4>1. k \in Nat /\ k >= i /\ k + 1 \in T
        BY <1>1, <2>4, ParesUnidas
      <4> QED
        BY <1>2, <2>4, <4>1 DEF Unidas
    <3>2. tarea[p] = "reconsolidar" => FALSE
      <4>1. tarea[p] = "reconsolidar" => k + 1 = i
        BY <1>1, <2>4, <3>1 DEF Vecinas
      <4> QED
        BY <3>1, <4>1
    <3>3. k + 1 <= i + 1
      BY <1>1, <2>1, <2>4, <3>1, <3>2 DEF Vecinas
    <3>4. Len(particiones') > 1
      <4>1. Len(particiones') = L - 1 /\ k \in 1..Len(particiones') - 1
        BY <2>4 DEF Unidas, ParesLibres
      <4> QED
        BY <1>2, <4>1
    <3> QED
      BY <2>1, <2>3, <3>1, <3>2, <3>3, <3>4
  <2>5. ASSUME NEW i \in 1..L - 1, Unidas(i)
        PROVE  Vecinas'
    <3>1. Dinamicas => /\ T' # {} => a = "reconsolidar"
                       /\ \A k, l \in T' : l = k
      BY <2>4, <2>5
    <3> QED
      BY <1>3, <2>1, <2>2, <2>3, <3>1
  <2>6. ASSUME T = {}, particiones' = particiones
        PROVE  Vecinas'
    BY <1>3, <2>1, <2>2, <2>3, <2>6
  <2> QED
    BY <1>1, <2>1, <2>5, <2>6, EfectoConsolidacion
<1>13. ASSUME NEW p \in Procesos, QuitarProceso(p)
       PROVE  Vecinas'
  <2>1. /\ tarea[p] = "quitar" /\ tarea' = [tarea EXCEPT ![p] = "ausente"]
        /\ particiones' = particiones /\ config' = config
    BY <1>13 DEF QuitarProceso
  <2>2. EnCurso \subseteq {p}
    BY <1>5, <2>1 DEF EnCurso
  <2>3. Dinamicas => T' = {}
    BY <1>4, <1>6, <2>1, <2>2
  <2> QED
    BY <1>3, <2>1, <2>2, <2>3
<1>14. ASSUME NEW p \in Procesos, CrearParticionEnIndice(p)
       PROVE  Vecinas'
  <2> DEFINE i == indice
             t == proceso[p].tamanio
  <2>1. tarea[p] = "partir" /\ Dinamicas /\ i \in 1..L /\ Cabe(particiones, i, t)
    BY <1>1, <1>14 DEF CrearParticionEnIndice, Vigente
  <2>2. EnCurso \subseteq {p}
    BY <1>5, <2>1 DEF EnCurso
  <2>3. T = {}
    BY <1>4, <1>6, <2>1, <2>2
  <2>4. config' = config
    BY <1>1, <1>14, <2>1, EfectoParticion
  <2>5. ASSUME particiones' = particiones, tarea' = [tarea EXCEPT ![p] = "ausente"]
        PROVE  Vecinas'
    <3>1. T' = {}
      BY <2>3, <2>5
    <3> QED
      BY <1>3, <2>2, <2>4, <2>5, <3>1
  <2>6. ASSUME Partida(i, p, t), tarea' = [tarea EXCEPT ![p] = "asignar"]
        PROVE  Vecinas'
    <3> HIDE DEF i, t
    <3>1. T' \subseteq {i}
      BY <1>1, <2>1, <2>3, <2>6, ParesPartida DEF Cabe
    <3>2. \A k \in T' : p \in particiones'[k].punteros
      BY <2>6, <3>1 DEF Partida
    <3> QED
      BY <1>3, <2>2, <2>4, <2>6, <3>2
  <2> QED
    BY <1>1, <1>14, <2>1, <2>5, <2>6, EfectoParticion
<1> QED
  BY <1>7, <1>8, <1>9, <1>10, <1>11, <1>12, <1>13, <1>14 DEF Next

-----------------------------------------------------------------------------
(* With one request at a time: the theorems.                               *)

(* At start-up there are no processes, and no two free neighbours in the   *)
(* dynamic scheme.                                                         *)
LEMMA InicialDeAUno == Init => InvDeAUno
<1> SUFFICES ASSUME Init PROVE InvDeAUno
  OBVIOUS
<1>1. InvParticiones
  BY Inicial
<1>2. SinPid \notin Procesos
  BY ParticionesAssumption
<1>3. /\ \A p \in Procesos : tarea[p] = "ausente"
      /\ EnCurso = {} /\ ~ caida
  BY DEF Init, EnCurso
<1>4. Libres(particiones) /\ (Dinamicas => Len(particiones) = 1)
  <2>1. CASE Dinamicas
    <3>1. particiones = CrearParticion(<<>>, TAM_MEMORIA)
      BY <2>1 DEF Init
    <3>2. <<>> \in Seq(Fichas) /\ Len(<<>>) = 0 /\ TAM_MEMORIA \in Nat \ {0}
      BY ParticionesAssumption
    <3>3. ConUnaMas(<<>>, TAM_MEMORIA, particiones)
      BY <3>1, <3>2, CrearAlFinal
    <3>4. /\ Len(particiones) = 1 /\ particiones[1].esta_libre
          /\ particiones[1].pid = SinPid /\ particiones[1].punteros = {}
      BY <3>2, <3>3 DEF ConUnaMas
    <3>5. \A i \in 1..1 : i = 1
      OBVIOUS
    <3> QED
      BY <3>4, <3>5 DEF Libres
  <2>2. CASE ~ Dinamicas
    BY <2>2, Fijas DEF Init
  <2> QED
    BY <2>1, <2>2
<1>5. Orden
  BY <1>3 DEF Orden
<1>6. Punteros
  BY <1>3, <1>4 DEF Punteros, Libres
<1>7. Pertenencia
  BY <1>2, <1>3, <1>4 DEF Pertenencia, Libres, Duenio
<1>8. Vecinas
  <2>1. ASSUME Dinamicas, NEW i \in ParesLibres(particiones)
        PROVE  FALSE
    <3>1. i \in 1..Len(particiones) - 1 /\ Len(particiones) = 1
      BY <1>4, <2>1 DEF ParesLibres
    <3> QED
      BY <3>1
  <2> QED
    BY <2>1 DEF Vecinas
<1> QED
  BY <1>1, <1>5, <1>6, <1>7, <1>8 DEF InvDeAUno

(* With one request at a time every pointer and every PID of the list has  *)
(* its place, and so do the free neighbours.                               *)
THEOREM InvarianteDeAUno ==
    ASSUME DeAUno
    PROVE  Spec => []InvDeAUno
<1>1. InvDeAUno /\ [Next]_vars => InvDeAUno'
  <2> SUFFICES ASSUME InvDeAUno, [Next]_vars
               PROVE  InvDeAUno'
    OBVIOUS
  <2>1. CASE Next
    <3>1. InvParticiones'
      BY <2>1, TiposPaso, CoberturaPaso, VigentePaso DEF InvDeAUno, InvParticiones
    <3> QED
      BY <2>1, <3>1, OrdenPaso, PunterosPaso, PertenenciaPaso, VecinasPaso DEF InvDeAUno
  <2>2. CASE UNCHANGED vars
    <3>1. InvParticiones'
      BY <2>2 DEF InvDeAUno, InvParticiones, Tipos, Cobertura, Acotadas, Vigente, Cabe,
                  Dinamicas, vars
    <3>2. Orden' /\ Punteros'
      BY <2>2 DEF InvDeAUno, Orden, Punteros, EnCurso, vars
    <3>3. Pertenencia' /\ Vecinas'
      BY <2>2 DEF InvDeAUno, Pertenencia, Vecinas, Dinamicas, vars
    <3> QED
      BY <3>1, <3>2, <3>3 DEF InvDeAUno
  <2> QED
    BY <2>1, <2>2
<1> QED
  BY InicialDeAUno, <1>1, PTL DEF Spec

(* No byte of the memory is lost and none is in two partitions, however    *)
(* many times they were split and merged.                                  *)
THEOREM ListaCubreMemoria ==
    ASSUME DeAUno
    PROVE  Spec => []Cobertura
<1>1. InvDeAUno => Cobertura
  BY DEF InvDeAUno, InvParticiones
<1> QED
  BY InvarianteDeAUno, <1>1, PTL

(* A creation never makes room and a finalisation never takes it: the      *)
(* kernel is right to retry an admission only when a process ends.         *)
THEOREM LugarSinSorpresas ==
    ASSUME DeAUno
    PROVE  Spec => LugarMonotono
<1>1. InvDeAUno /\ [Next]_vars =>
        [\A t \in Tamanios :
            IF \E p \in Procesos : /\ tarea[p] \in {"ausente", "partir", "asignar"}
                                /\ tarea'[p] # tarea[p]
            THEN HayLugar(t)' => HayLugar(t)
            ELSE HayLugar(t) => HayLugar(t)']_vars
  BY LugarPorPaso DEF InvDeAUno
<1> QED
  BY <1>1, InvarianteDeAUno, PTL DEF Spec, LugarMonotono

(* The process that is being created has its place, the one that is ending *)
(* finds it, every other one owns exactly one partition: the one its node  *)
(* describes, as large as it asked for.                                    *)
THEOREM ProcesosYParticiones ==
    ASSUME DeAUno
    PROVE  Spec => []ProcesoConSuParticion
<1>1. ASSUME InvDeAUno
      PROVE  ProcesoConSuParticion
  <2> DEFINE suya(p) == {i \in DOMAIN particiones : particiones[i].pid = p}
  <2>1. Tipos /\ Orden /\ Pertenencia /\ ~ caida
    BY <1>1 DEF InvDeAUno, InvParticiones, Orden
  <2>2. DOMAIN particiones = 1..Len(particiones)
    BY <2>1 DEF Tipos
  <2>3. ASSUME NEW p \in Procesos, tarea[p] \in Duenio
        PROVE  /\ Cardinality(suya(p)) = 1
               /\ \A i \in suya(p) :
                     /\ ~ particiones[i].esta_libre
                     /\ particiones[i].base = proceso[p].base
                     /\ particiones[i].tamanio = proceso[p].limite - proceso[p].base
                     /\ particiones[i].tamanio >= proceso[p].tamanio
    <3>1. PICK i \in 1..Len(particiones) : particiones[i].pid = p
      BY <2>1, <2>3 DEF Pertenencia
    <3>2. \A j \in 1..Len(particiones) : particiones[j].pid = p => i = j
      BY <2>1, <3>1 DEF Pertenencia
    <3>3. suya(p) = {i}
      BY <2>2, <3>1, <3>2
    <3>4. Cardinality(suya(p)) = 1
      BY <3>3, FS_Singleton
    <3>5. /\ ~ particiones[i].esta_libre
          /\ particiones[i].base = proceso[p].base
          /\ proceso[p].limite = proceso[p].base + particiones[i].tamanio
          /\ particiones[i].tamanio >= proceso[p].tamanio
      BY <2>1, <3>1, ParticionesAssumption DEF Pertenencia
    <3>6. PICK b \in Nat, t \in Nat : b = proceso[p].base /\ t = particiones[i].tamanio
      <4>1. particiones[i] \in Fichas /\ proceso[p].base \in Nat
        BY <2>1, <3>1, ElementOfSeq DEF Tipos
      <4> QED
        BY <4>1 DEF Fichas
    <3>7. particiones[i].tamanio = proceso[p].limite - proceso[p].base
      BY <3>5, <3>6
    <3> QED
      BY <3>3, <3>4, <3>5, <3>7
  <2>4. ASSUME NEW p \in Procesos, tarea[p] \notin Duenio
        PROVE  suya(p) = {}
    BY <2>1, <2>2, <2>4 DEF Pertenencia
  <2>5. \A i \in DOMAIN particiones :
           particiones[i].esta_libre <=> particiones[i].pid = SinPid
    BY <2>1, <2>2 DEF Pertenencia
  <2> HIDE DEF suya
  <2>6. \A p \in Procesos :
           IF tarea[p] \in {"presente", "buscar", "desasignar"}
           THEN /\ Cardinality(suya(p)) = 1
                /\ \A i \in suya(p) :
                      /\ ~ particiones[i].esta_libre
                      /\ particiones[i].base = proceso[p].base
                      /\ particiones[i].tamanio = proceso[p].limite - proceso[p].base
                      /\ particiones[i].tamanio >= proceso[p].tamanio
           ELSE suya(p) = {}
    BY <2>3, <2>4 DEF Duenio
  <2> QED
    BY <2>1, <2>5, <2>6 DEF ProcesoConSuParticion, suya
<1> QED
  BY InvarianteDeAUno, <1>1, PTL

(* The two passes of the consolidation are enough.                         *)
THEOREM SinHuecosContiguos ==
    ASSUME DeAUno
    PROVE  Spec => []SinLibresContiguas
<1>1. ASSUME InvDeAUno
      PROVE  SinLibresContiguas
  <2>1. EnCurso = {} => \A p \in Procesos :
           tarea[p] \notin {"asignar", "consolidar", "reconsolidar"}
    BY DEF EnCurso
  <2> QED
    BY <1>1, <2>1 DEF InvDeAUno, Vecinas, SinLibresContiguas
<1> QED
  BY InvarianteDeAUno, <1>1, PTL

(* The partition chosen for a process stays in the list, free and large    *)
(* enough, until it is split and assigned; the one found for a PID is that *)
(* of the PID.                                                             *)
THEOREM PunterosVigentes ==
    ASSUME DeAUno
    PROVE  Spec => [](ElegidaIntacta /\ EncuentraLaSuya)
<1>1. ASSUME InvDeAUno
      PROVE  ElegidaIntacta /\ EncuentraLaSuya
  <2>1. /\ Vigente /\ Punteros /\ Pertenencia
        /\ DOMAIN particiones = 1..Len(particiones)
    BY <1>1 DEF InvDeAUno, InvParticiones, Tipos
  <2>2. ElegidaIntacta
    BY <2>1 DEF Vigente, Punteros, Pertenencia, ElegidaIntacta, Cabe
  <2>3. EncuentraLaSuya
    BY <2>1 DEF Punteros, EncuentraLaSuya
  <2> QED
    BY <2>2, <2>3
<1> QED
  BY InvarianteDeAUno, <1>1, PTL
=============================================================================
