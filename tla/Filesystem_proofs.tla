--------------------------- MODULE Filesystem_proofs ---------------------------
(***************************************************************************)
(* Proofs about Filesystem, for any disk and any dumps, one at a time and  *)
(* without a stop in the middle of one (between dumps the module stops and *)
(* starts as it likes): blocks are exclusive, the bitmap follows them, and *)
(* what was confirmed can be read back.                                    *)
(***************************************************************************)
EXTENDS Filesystem, Listas

-----------------------------------------------------------------------------
(* The inductive invariant, with one dump at a time and no stop in the     *)
(* middle of one.                                                          *)

DeAUno == Simultaneos = 1 /\ ~ CaidaEnCurso

Hebras == [paso : Pasos, bloques : Seq(Bloques), i : Nat, leido : SUBSET Bloques]

Tipos ==
    /\ bitmap \in SUBSET Bloques /\ bitmap_dat \in SUBSET Bloques
    /\ hilo \in [Archivos -> Hebras]
    /\ tamanio \in [Archivos -> Tamanios \cup {0}]
    /\ respuesta \in [Archivos -> {"ninguna", "ok", "error"}]

Uno == \A a, b \in EnCurso : a = b

(* Where the local variables of the thread of a dump may be at each step.  *)
Marcando == {"leer_byte", "set_bit"}
Guardando == {"abrir_bitmap", "copiar_bitmap", "cerrar_bitmap"}
Escribiendo == {"abrir_metadata", "cerrar_metadata", "indice", "datos"}

Etapa(a, h) ==
    /\ h.paso \in {"sin_pedir", "buscar", "rechazar"} =>
          h.bloques = <<>> /\ respuesta[a] = "ninguna"
    /\ h.paso \in Marcando \cup Guardando \cup Escribiendo =>
          h.bloques # <<>> /\ respuesta[a] = "ninguna"
    /\ h.paso \in Marcando \cup {"datos"} => h.i \in 1..Len(h.bloques)
    /\ h.paso \in Guardando \cup {"abrir_metadata", "cerrar_metadata", "indice"} => h.i = 1
    /\ h.paso \in {"sin_pedir", "buscar"} => h.i = 1
    /\ h.paso = "fin" => IF h.bloques = <<>> THEN respuesta[a] = "error"
                         ELSE respuesta[a] = "ok" /\ h.i = Len(h.bloques)
    /\ h.paso # "perdido"
    /\ h.bloques # <<>> =>
          /\ Len(h.bloques) = CalcularBloquesNecesarios(tamanio[a]) + 1
          /\ SinRepetir(h.bloques)

Etapas == \A a \in Archivos : Etapa(a, hilo[a])

(* The blocks of a dump whose bits are already set.                        *)
Marcados(h) ==
    IF h.paso \in Marcando THEN {h.bloques[k] : k \in 1..h.i - 1}
    ELSE ToSet(h.bloques)

Mapa ==
    /\ bitmap = UNION {Marcados(hilo[a]) : a \in Archivos}
    /\ BloquesExclusivos
    /\ \A a \in Archivos :
          /\ hilo[a].paso = "set_bit" =>
                hilo[a].leido = bitmap \cap MismoByte(hilo[a].bloques[hilo[a].i])
          /\ hilo[a].paso = "cerrar_bitmap" => hilo[a].leido = bitmap
    /\ (\A a \in Archivos : hilo[a].paso \notin Marcando \cup Guardando) =>
          bitmap_dat = bitmap

InvMapa == Tipos /\ Uno /\ Etapas /\ Mapa

(* What the files of a dump hold at each step.                             *)
Palabra(b, r) == bloques_dat[b * BLOCK_SIZE + r]

Contenido(a, h) ==
    /\ h.paso \in {"indice", "datos", "fin"} /\ h.bloques # <<>> =>
          metadata[a] = [size |-> tamanio[a], index_block |-> h.bloques[1]]
    /\ h.paso \in {"datos", "fin"} /\ h.bloques # <<>> =>
          /\ \A k \in 1..Len(h.bloques) - 1 :
                Palabra(h.bloques[1], k - 1) = Puntero(a, h.bloques[k + 1])
          /\ \A q \in 1..h.i - 1 : \A r \in 0..BLOCK_SIZE - 1 :
                (q - 1) * BLOCK_SIZE + r < tamanio[a] =>
                    Palabra(h.bloques[q + 1], r) = Dato(a, (q - 1) * BLOCK_SIZE + r)

Contenidos == \A a \in Archivos : Contenido(a, hilo[a])

-----------------------------------------------------------------------------
(* The arithmetic of blocks of S words. *)

(* The blocks before c end where c begins, or earlier. *)
LEMMA Producto ==
    ASSUME NEW S \in Nat \ {0}, NEW b \in Nat, NEW c \in Nat, b < c
    PROVE  b * S + S <= c * S /\ b * S \in Nat /\ c * S \in Nat
<1>1. PICK d \in Nat : c = b + 1 + d
  <2>1. c - b - 1 \in Nat /\ c = b + 1 + (c - b - 1)
    OBVIOUS
  <2> QED
    BY <2>1
<1>2. b * S \in Nat /\ d * S \in Nat
  OBVIOUS
<1>3. c * S = b * S + S + d * S
  BY <1>1
<1> QED
  BY <1>2, <1>3

(* A word is a block and a position in it. *)
LEMMA Division ==
    ASSUME NEW S \in Nat \ {0}, NEW k \in Nat
    PROVE  /\ k \div S \in Nat /\ k % S \in 0..S - 1
           /\ k = (k \div S) * S + (k % S)
  OBVIOUS

(* Each word is in one block only. *)
LEMMA UnSoloBloque ==
    ASSUME NEW S \in Nat \ {0}, NEW b \in Nat, NEW c \in Nat,
           NEW r \in 0..S - 1, NEW s \in 0..S - 1, b * S + r = c * S + s
    PROVE  b = c /\ r = s
<1>1. b * S \in Nat /\ c * S \in Nat
  OBVIOUS
<1>2. ~ (b < c)
  <2>1. b < c => b * S + S <= c * S
    BY Producto
  <2> QED
    BY <1>1, <2>1
<1>3. ~ (c < b)
  <2>1. c < b => c * S + S <= b * S
    BY Producto
  <2> QED
    BY <1>1, <2>1
<1>4. b = c
  BY <1>2, <1>3
<1> QED
  BY <1>1, <1>4

(* Which word it is, from its block and its position. *)
LEMMA BloqueYPalabra ==
    ASSUME NEW S \in Nat \ {0}, NEW q \in Nat, NEW r \in 0..S - 1
    PROVE  (q * S + r) \div S = q /\ (q * S + r) % S = r
<1> DEFINE k == q * S + r
<1>1. k \in Nat
  OBVIOUS
<1> HIDE DEF k
<1>2. /\ k \div S \in Nat /\ k % S \in 0..S - 1
      /\ q * S + r = (k \div S) * S + (k % S)
  BY <1>1, Division DEF k
<1>3. q = k \div S /\ r = k % S
  BY <1>2, UnSoloBloque
<1> QED
  BY <1>3 DEF k

(* A word of the contents is in one of the blocks that they need. *)
LEMMA Necesarios ==
    ASSUME NEW t \in Nat
    PROVE  /\ CalcularBloquesNecesarios(t) \in Nat
           /\ \A q \in Nat : \A r \in 0..BLOCK_SIZE - 1 :
                 q * BLOCK_SIZE + r < t => q < CalcularBloquesNecesarios(t)
<1> DEFINE S == BLOCK_SIZE
           x == t + S - 1
           d == x \div S
<1>1. S \in Nat \ {0} /\ x \in Nat
  BY FilesystemAssumption
<1> HIDE DEF S
<1>2. d \in Nat /\ x % S \in 0..S - 1 /\ x = d * S + (x % S)
  BY <1>1, Division
<1>3. PICK e \in 0..S - 1 : x = d * S + e
  BY <1>2
<1>4. CalcularBloquesNecesarios(t) = d
  BY DEF CalcularBloquesNecesarios, S
<1> HIDE DEF d
<1>5. ASSUME NEW q \in Nat, NEW r \in 0..S - 1, q * S + r < t, ~ (q < d)
      PROVE  FALSE
  <2>1. q * S \in Nat /\ d * S \in Nat
    BY <1>1, <1>2
  <2>2. d * S <= q * S
    <3>1. CASE d = q
      BY <2>1, <3>1
    <3>2. CASE d < q
      <4>1. d * S + S <= q * S
        BY <1>1, <1>2, <3>2, Producto
      <4> QED
        BY <1>1, <2>1, <4>1
    <3> QED
      BY <1>2, <1>5, <3>1, <3>2
  <2>3. x <= q * S + S - 1 /\ x >= q * S + S
    BY <1>1, <1>3, <1>5, <2>1, <2>2
  <2> QED
    BY <1>1, <2>1, <2>3
<1> QED
  BY <1>2, <1>4, <1>5 DEF S

(* The empty list (NULL in the code). *)
LEMMA Vacia ==
    ASSUME NEW S
    PROVE  \E e \in Seq(S) : /\ e = <<>> /\ Len(e) = 0 /\ ToSet(e) = {} /\ SinRepetir(e)
<1>1. PICK e \in Seq(S) : e = <<>>
  <2>1. <<>> \in Seq(S)
    OBVIOUS
  <2> QED
    BY <2>1, Zenon
<1>2. Len(e) = 0
  BY <1>1
<1>3. ToSet(e) = {}
  BY <1>1, Miembros
<1>4. SinRepetir(e)
  BY <1>2 DEF SinRepetir
<1> QED
  BY <1>1, <1>2, <1>3, <1>4

(* encontrar_bloques_libres: the loop collects free blocks, none of them   *)
(* twice, and never more than it was asked for.                            *)
LEMMA BloquesLibres ==
    ASSUME NEW t \in Nat, NEW s, s = EncontrarBloquesLibres(t)
    PROVE  /\ s \in Seq(Bloques) /\ SinRepetir(s) /\ ToSet(s) \cap bitmap = {}
           /\ s # <<>> => Len(s) = CalcularBloquesNecesarios(t) + 1
<1> DEFINE N == BLOCK_COUNT
           cantidad == CalcularBloquesNecesarios(t) + 1
           Anotar(u, i) == IF i \in bitmap \/ Len(u) = cantidad THEN u ELSE Append(u, i)
           Recorre(g) == g = [n \in 0..N |-> IF n = 0 THEN <<>> ELSE Anotar(g[n - 1], n - 1)]
           hallados == CHOOSE g : Recorre(g)
           V == Seq(Int)
<1>1. s = IF Len(hallados[N]) < cantidad THEN <<>> ELSE hallados[N]
  BY Zenon DEF EncontrarBloquesLibres
<1>2. N \in Nat \ {0} /\ cantidad \in Nat \ {0}
  BY FilesystemAssumption, Necesarios
<1> HIDE DEF cantidad
<1>3. \A u \in V, i \in Int : Anotar(u, i) \in V
  BY AppendProperties
<1>4. \E g : Recorre(g)
  <2> DEFINE paso == [u \in V |-> [n \in Nat |-> Anotar(u, n - 1)]]
  <2>1. <<>> \in V
    OBVIOUS
  <2> HIDE DEF V, Anotar
  <2>2. \A u \in V, n \in Nat : Anotar(u, n - 1) \in V
    <3>1. \A n \in Nat : n - 1 \in Int
      OBVIOUS
    <3> QED
      BY <1>3, <3>1
  <2>3. paso \in [V -> [Nat -> V]] /\ \A u \in V, n \in Nat : paso[u][n] = Anotar(u, n - 1)
    BY <2>2
  <2> HIDE DEF paso
  <2>4. PICK f \in [0..N -> V] : f[0] = <<>> /\ \A n \in 1..N : f[n] = paso[f[n - 1]][n]
    <3>1. Iteradas(V, <<>>, paso, N) # {}
      BY <1>2, <2>1, <2>3, Recurrencia
    <3>2. PICK f \in Iteradas(V, <<>>, paso, N) : TRUE
      BY <3>1
    <3> QED
      BY <3>2 DEF Iteradas
  <2>5. \A n \in 0..N : f[n] = IF n = 0 THEN <<>> ELSE Anotar(f[n - 1], n - 1)
    <3> SUFFICES ASSUME NEW n \in 1..N
                 PROVE  f[n] = Anotar(f[n - 1], n - 1)
      BY <1>2, <2>4
    <3>1. n - 1 \in 0..N /\ f[n - 1] \in V /\ n \in Nat
      BY <1>2
    <3> QED
      BY <2>3, <2>4, <3>1
  <2>6. Recorre(f)
    BY <2>5
  <2> HIDE DEF Recorre
  <2> QED
    BY <2>6
<1>5. Recorre(hallados)
  BY <1>4, Zenon
<1> HIDE DEF hallados
<1>6. hallados[0] = <<>> /\ \A n \in 1..N : hallados[n] = Anotar(hallados[n - 1], n - 1)
  <2> HIDE DEF Anotar
  <2>1. \A n \in 0..N : hallados[n] = IF n = 0 THEN <<>> ELSE Anotar(hallados[n - 1], n - 1)
    BY <1>5
  <2> QED
    BY <1>2, <2>1
<1> DEFINE Bueno(u, n) == /\ u \in V /\ SinRepetir(u) /\ Len(u) <= cantidad
                          /\ \A b \in ToSet(u) : b \in 0..n - 1 /\ b \notin bitmap
           P == {n \in Nat : n <= N => Bueno(hallados[n], n)}
<1>7. 0 \in P
  <2>1. PICK e \in V : e = <<>> /\ Len(e) = 0 /\ ToSet(e) = {} /\ SinRepetir(e)
    BY Vacia
  <2>2. hallados[0] = e
    BY <1>6, <2>1
  <2>3. Bueno(hallados[0], 0)
    BY <1>2, <2>1, <2>2
  <2> HIDE DEF Bueno
  <2> QED
    BY <2>3
<1>8. ASSUME NEW n \in Nat, n \in P
      PROVE  n + 1 \in P
  <2> SUFFICES ASSUME n + 1 <= N
               PROVE  Bueno(hallados[n + 1], n + 1)
    OBVIOUS
  <2>1. Bueno(hallados[n], n) /\ n + 1 \in 1..N /\ n + 1 - 1 = n
    BY <1>2, <1>8
  <2>2. hallados[n + 1] = Anotar(hallados[n], n)
    <3> HIDE DEF Anotar
    <3> QED
      BY <1>6, <2>1
  <2> DEFINE u == hallados[n]
  <2>3. \A b \in ToSet(u) : b \in 0..n /\ b # n
    BY <2>1
  <2>4. CASE n \in bitmap \/ Len(u) = cantidad
    BY <2>1, <2>2, <2>3, <2>4
  <2>5. CASE n \notin bitmap /\ Len(u) # cantidad
    <3>1. hallados[n + 1] = Append(u, n)
      BY <2>2, <2>5
    <3> HIDE DEF u
    <3>2. u \in Seq(Int) /\ SinRepetir(u) /\ n \notin ToSet(u) /\ n \in Int
      BY <2>1, <2>3 DEF u
    <3>3. /\ Append(u, n) \in Seq(Int) /\ ToSet(Append(u, n)) = ToSet(u) \cup {n}
          /\ SinRepetir(Append(u, n))
      BY <3>2, Agregar
    <3>4. Len(Append(u, n)) = Len(u) + 1 /\ Len(u) \in Nat
      BY <3>2, AppendProperties, LenProperties
    <3>5. Len(u) <= cantidad
      BY <2>1 DEF u
    <3>6. Len(Append(u, n)) <= cantidad
      BY <1>2, <2>5, <3>4, <3>5 DEF u
    <3>7. \A b \in ToSet(Append(u, n)) : b \in 0..n /\ b \notin bitmap
      <4>1. \A b \in ToSet(u) : b \notin bitmap
        BY <2>1 DEF u
      <4> QED
        BY <2>3, <2>5, <3>3, <4>1 DEF u
    <3> QED
      BY <3>1, <3>3, <3>6, <3>7
  <2> QED
    BY <2>4, <2>5
<1> HIDE DEF P, Bueno
<1>9. N \in P
  BY <1>2, <1>7, <1>8, Induccion
<1>10. Bueno(hallados[N], N)
  BY <1>2, <1>9 DEF P
<1> DEFINE w == hallados[N]
<1>11. /\ w \in Seq(Int) /\ SinRepetir(w) /\ Len(w) <= cantidad
       /\ \A b \in ToSet(w) : b \in Bloques /\ b \notin bitmap
  BY <1>10 DEF Bueno, Bloques
<1> HIDE DEF w
<1>12. w \in Seq(Bloques)
  <2>1. ToSet(w) = {w[i] : i \in 1..Len(w)} /\ Len(w) \in Nat
    BY <1>11, Miembros, LenProperties
  <2>2. \A i \in 1..Len(w) : w[i] \in Bloques
    BY <1>11, <2>1
  <2>3. w = [i \in 1..Len(w) |-> w[i]]
    BY <1>11
  <2> QED
    BY <2>1, <2>2, <2>3
<1>13. CASE Len(w) < cantidad
  <2>1. s = <<>>
    BY <1>1, <1>13 DEF w
  <2>2. PICK e \in Seq(Bloques) : e = <<>> /\ ToSet(e) = {} /\ SinRepetir(e)
    BY Vacia
  <2> QED
    BY <2>1, <2>2
<1>14. CASE ~ (Len(w) < cantidad)
  <2>1. s = w
    BY <1>1, <1>14 DEF w
  <2>2. Len(w) = cantidad
    <3>1. Len(w) \in Nat
      BY <1>11, LenProperties
    <3> QED
      BY <1>2, <1>11, <1>14, <3>1
  <2> QED
    BY <1>11, <1>12, <2>1, <2>2 DEF cantidad
<1> QED
  BY <1>13, <1>14

-----------------------------------------------------------------------------
(* What each step does to the thread of its dump. *)

Queda(a, p, s, i, l) ==
    /\ hilo' \in [Archivos -> Hebras]
    /\ hilo'[a].paso = p /\ hilo'[a].bloques = s /\ hilo'[a].i = i /\ hilo'[a].leido = l
    /\ \A b \in Archivos : b # a => hilo'[b] = hilo[b]

(* A step that writes the variables of one thread. *)
LEMMA Reescribe ==
    ASSUME Tipos, NEW a \in Archivos, NEW h \in Hebras, hilo' = [hilo EXCEPT ![a] = h]
    PROVE  Queda(a, h.paso, h.bloques, h.i, h.leido)
BY DEF Tipos, Queda

(* A step that writes only where a thread is. *)
LEMMA PasoDe ==
    ASSUME Tipos, NEW a \in Archivos, NEW d, NEW p \in Pasos, Paso(a, d, p)
    PROVE  /\ hilo[a].paso = d
           /\ Queda(a, p, hilo[a].bloques, hilo[a].i, hilo[a].leido)
<1> DEFINE h == [hilo[a] EXCEPT !.paso = p]
<1>1. hilo' = [hilo EXCEPT ![a] = h] /\ hilo[a].paso = d
  BY DEF Paso
<1>2. hilo[a] \in Hebras
  BY DEF Tipos
<1>3. /\ h \in Hebras /\ h.paso = p /\ h.bloques = hilo[a].bloques
      /\ h.i = hilo[a].i /\ h.leido = hilo[a].leido
  BY <1>2 DEF Hebras
<1> HIDE DEF h
<1>4. Queda(a, h.paso, h.bloques, h.i, h.leido)
  BY <1>1, <1>3, Reescribe
<1> QED
  BY <1>1, <1>3, <1>4

(* The words of the steps that write more than the step. *)
LEMMA EfectoBuscar ==
    ASSUME Tipos, NEW a \in Archivos, BuscarBloques(a)
    PROVE  \E s \in Seq(Bloques) :
              /\ SinRepetir(s) /\ ToSet(s) \cap bitmap = {}
              /\ s # <<>> => Len(s) = CalcularBloquesNecesarios(tamanio[a]) + 1
              /\ Queda(a, IF s = <<>> THEN "rechazar" ELSE "leer_byte", s,
                       hilo[a].i, hilo[a].leido)
<1> DEFINE s == EncontrarBloquesLibres(tamanio[a])
           p == IF s = <<>> THEN "rechazar" ELSE "leer_byte"
           h == [hilo[a] EXCEPT !.bloques = s, !.paso = p]
<1>1. tamanio[a] \in Nat
  <2>1. tamanio[a] \in Tamanios \cup {0}
    BY DEF Tipos
  <2>2. \A t \in Tamanios : t \in Nat
    BY FilesystemAssumption
  <2> QED
    BY <2>1, <2>2
<1>2. hilo' = [hilo EXCEPT ![a] = h]
  BY DEF BuscarBloques
<1>3. /\ s \in Seq(Bloques) /\ SinRepetir(s) /\ ToSet(s) \cap bitmap = {}
      /\ s # <<>> => Len(s) = CalcularBloquesNecesarios(tamanio[a]) + 1
  BY <1>1, BloquesLibres
<1>4. p \in Pasos
  BY DEF Pasos
<1> HIDE DEF s, p
<1>5. hilo[a] \in Hebras
  BY DEF Tipos
<1>6. /\ h \in Hebras /\ h.paso = p /\ h.bloques = s
      /\ h.i = hilo[a].i /\ h.leido = hilo[a].leido
  BY <1>3, <1>4, <1>5 DEF Hebras
<1> HIDE DEF h
<1>7. Queda(a, h.paso, h.bloques, h.i, h.leido)
  BY <1>2, <1>6, Reescribe
<1> QED
  BY <1>3, <1>6, <1>7 DEF p

(* LeerByte keeps the byte of the bitmap that it read. *)
LEMMA EfectoLeer ==
    ASSUME Tipos, NEW a \in Archivos, LeerByte(a)
    PROVE  Queda(a, "set_bit", hilo[a].bloques, hilo[a].i,
                 bitmap \cap MismoByte(hilo[a].bloques[hilo[a].i]))
<1> DEFINE l == bitmap \cap MismoByte(hilo[a].bloques[hilo[a].i])
           h == [hilo[a] EXCEPT !.leido = l, !.paso = "set_bit"]
<1>1. hilo' = [hilo EXCEPT ![a] = h]
  BY DEF LeerByte
<1>2. hilo[a] \in Hebras /\ l \in SUBSET Bloques /\ "set_bit" \in Pasos
  BY DEF Tipos, Pasos
<1> HIDE DEF l
<1>3. /\ h \in Hebras /\ h.paso = "set_bit" /\ h.bloques = hilo[a].bloques
      /\ h.i = hilo[a].i /\ h.leido = l
  BY <1>2 DEF Hebras
<1> HIDE DEF h
<1>4. Queda(a, h.paso, h.bloques, h.i, h.leido)
  BY <1>1, <1>3, Reescribe
<1> QED
  BY <1>3, <1>4 DEF l

(* EscribirByte goes to the next block, or on to the file of the bitmap. *)
LEMMA EfectoEscribir ==
    ASSUME Tipos, NEW a \in Archivos, EscribirByte(a)
    PROVE  IF hilo[a].i = Len(hilo[a].bloques)
           THEN Queda(a, "abrir_bitmap", hilo[a].bloques, 1, {})
           ELSE Queda(a, "leer_byte", hilo[a].bloques, hilo[a].i + 1, {})
<1> DEFINE ultimo == hilo[a].i = Len(hilo[a].bloques)
           j == IF ultimo THEN 1 ELSE hilo[a].i + 1
           p == IF ultimo THEN "abrir_bitmap" ELSE "leer_byte"
           h == [hilo[a] EXCEPT !.leido = {}, !.i = j, !.paso = p]
<1>1. hilo' = [hilo EXCEPT ![a] = h]
  BY DEF EscribirByte
<1>2. hilo[a] \in Hebras /\ p \in Pasos /\ j \in Nat /\ {} \in SUBSET Bloques
  <2>1. hilo[a] \in Hebras
    BY DEF Tipos
  <2>2. hilo[a].i \in Nat
    BY <2>1 DEF Hebras
  <2> QED
    BY <2>1, <2>2 DEF Pasos
<1> HIDE DEF j, p
<1>3. /\ h \in Hebras /\ h.paso = p /\ h.bloques = hilo[a].bloques /\ h.i = j /\ h.leido = {}
  BY <1>2 DEF Hebras
<1> HIDE DEF h
<1>4. Queda(a, h.paso, h.bloques, h.i, h.leido)
  BY <1>1, <1>3, Reescribe
<1> QED
  BY <1>3, <1>4 DEF p, j

(* CopiarBitmap keeps the bitmap that CerrarBitmap writes. *)
LEMMA EfectoCopiar ==
    ASSUME Tipos, NEW a \in Archivos
    PROVE  /\ CopiarBitmap(a) =>
                 Queda(a, "cerrar_bitmap", hilo[a].bloques, hilo[a].i, bitmap)
           /\ CerrarBitmap(a) =>
                 Queda(a, "abrir_metadata", hilo[a].bloques, hilo[a].i, {})
<1>1. ASSUME NEW l \in SUBSET Bloques, NEW p \in Pasos,
             hilo' = [hilo EXCEPT ![a].leido = l, ![a].paso = p]
      PROVE  Queda(a, p, hilo[a].bloques, hilo[a].i, l)
  <2> DEFINE h == [hilo[a] EXCEPT !.leido = l, !.paso = p]
  <2>1. hilo' = [hilo EXCEPT ![a] = h]
    BY <1>1
  <2>2. hilo[a] \in Hebras
    BY DEF Tipos
  <2>3. /\ h \in Hebras /\ h.paso = p /\ h.bloques = hilo[a].bloques
        /\ h.i = hilo[a].i /\ h.leido = l
    BY <2>2 DEF Hebras
  <2> HIDE DEF h
  <2>4. Queda(a, h.paso, h.bloques, h.i, h.leido)
    BY <2>1, <2>3, Reescribe
  <2> QED
    BY <2>3, <2>4
<1>2. bitmap \in SUBSET Bloques /\ {} \in SUBSET Bloques
  BY DEF Tipos
<1>3. "cerrar_bitmap" \in Pasos /\ "abrir_metadata" \in Pasos
  BY DEF Pasos
<1> QED
  BY <1>1, <1>2, <1>3 DEF CopiarBitmap, CerrarBitmap

(* EscribirDatos goes to the next data block. *)
LEMMA EfectoDatos ==
    ASSUME Tipos, NEW a \in Archivos, EscribirDatos(a)
    PROVE  Queda(a, "datos", hilo[a].bloques, hilo[a].i + 1, hilo[a].leido)
<1> DEFINE j == hilo[a].i + 1
           h == [hilo[a] EXCEPT !.i = j]
<1>1. hilo' = [hilo EXCEPT ![a] = h] /\ hilo[a].paso = "datos"
  BY DEF EscribirDatos
<1>2. hilo[a] \in Hebras /\ j \in Nat
  <2>1. hilo[a] \in Hebras
    BY DEF Tipos
  <2> QED
    BY <2>1 DEF Hebras
<1> HIDE DEF j
<1>3. /\ h \in Hebras /\ h.paso = "datos" /\ h.bloques = hilo[a].bloques
      /\ h.i = j /\ h.leido = hilo[a].leido
  BY <1>1, <1>2 DEF Hebras
<1> HIDE DEF h
<1>4. Queda(a, h.paso, h.bloques, h.i, h.leido)
  BY <1>1, <1>3, Reescribe
<1> QED
  BY <1>3, <1>4 DEF j

-----------------------------------------------------------------------------
(* One dump at a time. *)

(* The other dumps were not asked for yet or are over. *)
Solo(a) == \A b \in Archivos : b # a => hilo[b].paso \in {"sin_pedir", "fin"}

(* With one dump at a time, the others of a dump in course are at rest. *)
LEMMA NadieMas ==
    ASSUME DeAUno, InvMapa, NEW a \in Archivos,
           a \in EnCurso \/ Cardinality(EnCurso) < Simultaneos
    PROVE  Solo(a)
<1>1. Uno /\ Etapas
  BY DEF InvMapa
<1>2. CASE a \in EnCurso
  BY <1>1, <1>2 DEF Uno, Etapas, Etapa, EnCurso, Solo
<1>3. CASE Cardinality(EnCurso) < Simultaneos
  <2>1. IsFiniteSet(EnCurso)
    BY FilesystemAssumption, FS_Subset DEF EnCurso
  <2>2. Cardinality(EnCurso) = 0
    BY <1>3, <2>1, FS_CardinalityType DEF DeAUno
  <2>3. EnCurso = {}
    BY <2>1, <2>2, FS_EmptySet
  <2> QED
    BY <1>1, <2>3 DEF Etapas, Etapa, EnCurso, Solo
<1> QED
  BY <1>2, <1>3

(* The blocks of the other dumps, all of them marked. *)
Ajenos(a) == UNION {ToSet(hilo[b].bloques) : b \in Archivos \ {a}}

(* The bitmap is what the others have and what this dump has marked. *)
LEMMA Desarmar ==
    ASSUME InvMapa, NEW a \in Archivos, Solo(a)
    PROVE  /\ bitmap = Ajenos(a) \cup Marcados(hilo[a])
           /\ Ajenos(a) \cap ToSet(hilo[a].bloques) = {}
           /\ hilo[a].paso \notin Marcando \cup Guardando => bitmap_dat = bitmap
<1>1. Mapa
  BY DEF InvMapa
<1>2. ASSUME NEW b \in Archivos, b # a
      PROVE  Marcados(hilo[b]) = ToSet(hilo[b].bloques)
  BY <1>2 DEF Solo, Marcados, Marcando
<1>3. bitmap = UNION {Marcados(hilo[b]) : b \in Archivos}
  BY <1>1 DEF Mapa
<1>4. bitmap = (UNION {Marcados(hilo[b]) : b \in Archivos \ {a}}) \cup Marcados(hilo[a])
  <2> HIDE DEF Marcados
  <2> QED
    BY <1>3
<1>5. UNION {Marcados(hilo[b]) : b \in Archivos \ {a}} = Ajenos(a)
  BY <1>2 DEF Ajenos
<1>6. \A b \in Archivos : b # a => ToSet(hilo[b].bloques) \cap ToSet(hilo[a].bloques) = {}
  BY <1>1 DEF Mapa, BloquesExclusivos, BloquesDe
<1>7. ASSUME hilo[a].paso \notin Marcando \cup Guardando
      PROVE  bitmap_dat = bitmap
  <2>1. \A b \in Archivos : hilo[b].paso \notin Marcando \cup Guardando
    BY <1>7 DEF Solo, Marcando, Guardando
  <2> QED
    BY <1>1, <2>1 DEF Mapa
<1>8. Ajenos(a) \cap ToSet(hilo[a].bloques) = {}
  BY <1>6 DEF Ajenos
<1> QED
  BY <1>4, <1>5, <1>7, <1>8

(* What a step has to say of its own thread, for the invariant to go on.   *)
Sigue(a, p, s, i, l) ==
    /\ Queda(a, p, s, i, l)
    /\ bitmap' \in SUBSET Bloques
    /\ bitmap' = Ajenos(a) \cup (IF p \in Marcando THEN {s[k] : k \in 1..i - 1} ELSE ToSet(s))
    /\ Ajenos(a) \cap ToSet(s) = {}
    /\ p = "set_bit" => l = bitmap' \cap MismoByte(s[i])
    /\ p = "cerrar_bitmap" => l = bitmap'
    /\ bitmap_dat' \in SUBSET Bloques
    /\ p \notin Marcando \cup Guardando => bitmap_dat' = bitmap'

(* What a step must show of its own dump for the bitmap to be right. *)
LEMMA Armar ==
    ASSUME InvMapa, NEW a \in Archivos, Solo(a), NEW p, NEW s, NEW i, NEW l,
           Sigue(a, p, s, i, l)
    PROVE  Mapa'
<1>0. /\ Queda(a, p, s, i, l)
      /\ bitmap' = Ajenos(a) \cup (IF p \in Marcando THEN {s[k] : k \in 1..i - 1}
                                   ELSE ToSet(s))
      /\ Ajenos(a) \cap ToSet(s) = {}
      /\ p = "set_bit" => l = bitmap' \cap MismoByte(s[i])
      /\ p = "cerrar_bitmap" => l = bitmap'
      /\ p \notin Marcando \cup Guardando => bitmap_dat' = bitmap'
  BY DEF Sigue
<1>1. /\ hilo'[a].paso = p /\ hilo'[a].bloques = s /\ hilo'[a].i = i /\ hilo'[a].leido = l
      /\ \A b \in Archivos : b # a => hilo'[b] = hilo[b]
  BY <1>0 DEF Queda
<1>2. ASSUME NEW b \in Archivos, b # a
      PROVE  Marcados(hilo'[b]) = ToSet(hilo[b].bloques)
  BY <1>1, <1>2 DEF Solo, Marcados, Marcando
<1>3. Marcados(hilo'[a]) = IF p \in Marcando THEN {s[k] : k \in 1..i - 1} ELSE ToSet(s)
  BY <1>1 DEF Marcados
<1>4. bitmap' = UNION {Marcados(hilo'[b]) : b \in Archivos}
  <2>1. bitmap' = Ajenos(a) \cup Marcados(hilo'[a])
    BY <1>0, <1>3
  <2>2. Ajenos(a) = UNION {Marcados(hilo'[b]) : b \in Archivos \ {a}}
    BY <1>2 DEF Ajenos
  <2> HIDE DEF Marcados
  <2> QED
    BY <2>1, <2>2
<1>5. BloquesExclusivos'
  <2>1. \A b \in Archivos : b # a => ToSet(hilo[b].bloques) \cap ToSet(s) = {}
    BY <1>0 DEF Ajenos
  <2>2. BloquesExclusivos
    BY DEF InvMapa, Mapa
  <2>3. ASSUME NEW b \in Archivos, NEW c \in Archivos, b # c
        PROVE  ToSet(hilo'[b].bloques) \cap ToSet(hilo'[c].bloques) = {}
    BY <1>1, <2>1, <2>2, <2>3 DEF BloquesExclusivos, BloquesDe
  <2> QED
    BY <2>3 DEF BloquesExclusivos, BloquesDe
<1>6. ASSUME NEW b \in Archivos
      PROVE  /\ hilo'[b].paso = "set_bit" =>
                   hilo'[b].leido = bitmap' \cap MismoByte(hilo'[b].bloques[hilo'[b].i])
             /\ hilo'[b].paso = "cerrar_bitmap" => hilo'[b].leido = bitmap'
  <2>1. CASE b = a
    BY <1>0, <1>1, <2>1
  <2>2. CASE b # a
    BY <1>1, <2>2 DEF Solo
  <2> QED
    BY <2>1, <2>2
<1>7. (\A b \in Archivos : hilo'[b].paso \notin Marcando \cup Guardando) =>
         bitmap_dat' = bitmap'
  BY <1>0, <1>1
<1> QED
  BY <1>4, <1>5, <1>6, <1>7 DEF Mapa

(* What a step must show of its own dump to keep the invariant. *)
LEMMA Seguir ==
    ASSUME InvMapa, NEW a \in Archivos, Solo(a), NEW p, NEW s, NEW i, NEW l,
           Sigue(a, p, s, i, l), Etapa(a, hilo[a])',
           \A b \in Archivos : b # a => respuesta'[b] = respuesta[b] /\ tamanio'[b] = tamanio[b],
           tamanio' \in [Archivos -> Tamanios \cup {0}],
           respuesta' \in [Archivos -> {"ninguna", "ok", "error"}]
    PROVE  InvMapa'
<1>1. \A b \in Archivos : b # a => hilo'[b] = hilo[b]
  BY DEF Queda, Sigue
<1>2. Tipos'
  BY DEF Tipos, Queda, Sigue
<1>3. \A b \in EnCurso' : b = a
  BY <1>1 DEF EnCurso, Solo
<1>4. Uno'
  BY <1>3 DEF Uno
<1>5. ASSUME NEW b \in Archivos, b # a
      PROVE  Etapa(b, hilo[b])'
  <2>1. Etapa(b, hilo[b])
    BY DEF InvMapa, Etapas
  <2> QED
    BY <1>1, <1>5, <2>1 DEF Etapa
<1>6. Etapas'
  BY <1>5 DEF Etapas
<1> QED
  BY <1>2, <1>4, <1>6, Armar DEF InvMapa

(* A step that does not set a bit. *)
LEMMA SinMarcar ==
    ASSUME InvMapa, NEW a \in Archivos, Solo(a), NEW p, NEW i, NEW l,
           Queda(a, p, hilo[a].bloques, i, l), bitmap' = bitmap,
           p \in Marcando <=> hilo[a].paso \in Marcando,
           p \in Marcando => i = hilo[a].i,
           p = "set_bit" => l = bitmap \cap MismoByte(hilo[a].bloques[i]),
           p = "cerrar_bitmap" => l = bitmap,
           bitmap_dat' \in SUBSET Bloques,
           p \notin Marcando \cup Guardando => bitmap_dat' = bitmap
    PROVE  Sigue(a, p, hilo[a].bloques, i, l)
<1> DEFINE s == hilo[a].bloques
<1>1. /\ bitmap = Ajenos(a) \cup Marcados(hilo[a])
      /\ Ajenos(a) \cap ToSet(s) = {}
  BY Desarmar
<1>2. bitmap \in SUBSET Bloques
  BY DEF InvMapa, Tipos
<1>3. Marcados(hilo[a]) = IF p \in Marcando THEN {s[k] : k \in 1..i - 1} ELSE ToSet(s)
  BY DEF Marcados
<1> HIDE DEF s
<1> QED
  BY <1>1, <1>2, <1>3 DEF Sigue, s

(* The bits of the blocks of a dump are set one after another, and nobody  *)
(* else's is lost: the bitmap goes on being the union of the blocks of the *)
(* dumps, and its file a copy of it.                                       *)
LEMMA MapaPaso ==
    ASSUME DeAUno, InvMapa, NEW a \in Archivos, PasoDump(a)
    PROVE  InvMapa'
<1> DEFINE h == hilo[a]
           s == h.bloques
<1>1. Tipos /\ Etapa(a, h) /\ h \in Hebras
  BY DEF InvMapa, Etapas, Tipos
<1>2. s \in Seq(Bloques) /\ h.i \in Nat /\ bitmap \in SUBSET Bloques
      /\ bitmap_dat \in SUBSET Bloques
  BY <1>1 DEF Hebras, Tipos
<1>3. /\ Len(s) \in Nat /\ ToSet(s) = {s[k] : k \in 1..Len(s)} /\ ToSet(s) \subseteq Bloques
      /\ s = <<>> <=> ToSet(s) = {}
      /\ \A k \in 1..Len(s) : s[k] \in Bloques
  BY <1>2, LenProperties, Miembros, ElementOfSeq
<1>4. Solo(a)
  <2>1. h.paso \notin {"sin_pedir", "fin", "perdido"}
    BY DEF PasoDump, BuscarBloques, Rechazar, LeerByte, EscribirByte, AbrirBitmap,
           CopiarBitmap, CerrarBitmap, AbrirMetadata, CerrarMetadata, EscribirIndice,
           EscribirDatos, Confirmar, Paso
  <2> QED
    BY <2>1, NadieMas DEF EnCurso
<1>5. /\ bitmap = Ajenos(a) \cup Marcados(h)
      /\ Ajenos(a) \cap ToSet(s) = {}
      /\ h.paso \notin Marcando \cup Guardando => bitmap_dat = bitmap
  BY <1>4, Desarmar
<1>6. ASSUME NEW p, NEW i, NEW l, NEW u, Sigue(a, p, u, i, l),
             respuesta' = respuesta, tamanio' = tamanio,
             Etapa(a, hilo[a])'
      PROVE  InvMapa'
  BY <1>1, <1>4, <1>6, Seguir DEF Tipos
<1>7. CASE BuscarBloques(a)
  <2>1. h.paso = "buscar" /\ UNCHANGED <<bitmap, bitmap_dat, tamanio, respuesta>>
    BY <1>7 DEF BuscarBloques, archivos
  <2>2. PICK u \in Seq(Bloques) :
              /\ SinRepetir(u) /\ ToSet(u) \cap bitmap = {}
              /\ u # <<>> => Len(u) = CalcularBloquesNecesarios(tamanio[a]) + 1
              /\ Queda(a, IF u = <<>> THEN "rechazar" ELSE "leer_byte", u, h.i, h.leido)
    BY <1>1, <1>7, EfectoBuscar
  <2> DEFINE p == IF u = <<>> THEN "rechazar" ELSE "leer_byte"
  <2>3. s = <<>> /\ h.i = 1 /\ respuesta[a] = "ninguna"
    BY <1>1, <2>1 DEF Etapa
  <2>4. Marcados(h) = {}
    BY <1>3, <2>1, <2>3 DEF Marcados, Marcando
  <2>5. Len(u) \in Nat /\ (u # <<>> => Len(u) > 0) /\ (u = <<>> => ToSet(u) = {})
    BY <2>2, Miembros, EmptySeq, LenProperties
  <2>6. Sigue(a, p, u, h.i, h.leido)
    <3>1. bitmap = Ajenos(a) /\ bitmap_dat = bitmap
      BY <1>5, <2>1, <2>4 DEF Marcando, Guardando
    <3>2. (IF p \in Marcando THEN {u[k] : k \in 1..h.i - 1} ELSE ToSet(u)) = {}
      BY <2>3, <2>5 DEF Marcando
    <3>3. p # "set_bit" /\ p # "cerrar_bitmap"
      OBVIOUS
    <3>4. Queda(a, p, u, h.i, h.leido)
      BY <2>2
    <3> HIDE DEF p, h
    <3> QED
      BY <1>2, <2>1, <2>2, <3>1, <3>2, <3>3, <3>4 DEF Sigue
  <2>7. Etapa(a, hilo[a])'
    <3>1. hilo'[a].paso = p /\ hilo'[a].bloques = u /\ hilo'[a].i = 1
      BY <2>2, <2>3 DEF Queda
    <3>2. 1 \in 1..Len(u) \/ u = <<>>
      BY <2>5
    <3> QED
      BY <2>1, <2>2, <2>3, <3>1, <3>2 DEF Etapa, Marcando, Guardando, Escribiendo
  <2> HIDE DEF p
  <2> QED
    BY <1>6, <2>1, <2>6, <2>7
<1>8. CASE Rechazar(a)
  <2>1. /\ h.paso = "rechazar" /\ Queda(a, "fin", s, h.i, h.leido)
        /\ UNCHANGED <<bitmap, bitmap_dat, tamanio>>
        /\ respuesta' = [respuesta EXCEPT ![a] = "error"]
    BY <1>1, <1>8, PasoDe DEF Rechazar, Pasos, archivos
  <2>2. Sigue(a, "fin", s, h.i, h.leido)
    BY <1>2, <1>4, <1>5, <2>1, SinMarcar DEF Marcando, Guardando
  <2>3. s = <<>>
    BY <1>1, <2>1 DEF Etapa
  <2>4. /\ respuesta'[a] = "error" /\ \A b \in Archivos : b # a => respuesta'[b] = respuesta[b]
        /\ respuesta' \in [Archivos -> {"ninguna", "ok", "error"}]
    BY <1>1, <2>1 DEF Tipos
  <2>5. Etapa(a, hilo[a])'
    BY <2>1, <2>3, <2>4 DEF Etapa, Queda, Marcando, Guardando, Escribiendo
  <2> QED
    BY <1>1, <1>4, <2>1, <2>2, <2>4, <2>5, Seguir DEF Tipos
<1>9. CASE LeerByte(a)
  <2>1. /\ h.paso = "leer_byte"
        /\ Queda(a, "set_bit", s, h.i, bitmap \cap MismoByte(s[h.i]))
        /\ UNCHANGED <<bitmap, bitmap_dat, tamanio, respuesta>>
    BY <1>1, <1>9, EfectoLeer DEF LeerByte, archivos
  <2>2. Sigue(a, "set_bit", s, h.i, bitmap \cap MismoByte(s[h.i]))
    BY <1>2, <1>4, <1>5, <2>1, SinMarcar DEF Marcando, Guardando
  <2>3. Etapa(a, hilo[a])'
    BY <1>1, <2>1 DEF Etapa, Queda, Marcando, Guardando, Escribiendo
  <2> QED
    BY <1>6, <2>1, <2>2, <2>3
<1>10. CASE EscribirByte(a)
  <2>1. /\ h.paso = "set_bit"
        /\ bitmap' = (bitmap \ MismoByte(s[h.i])) \cup h.leido \cup {s[h.i]}
        /\ UNCHANGED <<bitmap_dat, tamanio, respuesta>>
    BY <1>10 DEF EscribirByte, archivos
  <2>2. h.leido = bitmap \cap MismoByte(s[h.i])
    BY <2>1 DEF InvMapa, Mapa
  <2>3. bitmap' = bitmap \cup {s[h.i]} /\ h.i \in 1..Len(s)
    BY <1>1, <2>1, <2>2 DEF Etapa, Marcando
  <2>4. bitmap = Ajenos(a) \cup {s[k] : k \in 1..h.i - 1}
    BY <1>5, <2>1 DEF Marcados, Marcando
  <2>5. {s[k] : k \in 1..h.i - 1} \cup {s[h.i]} = {s[k] : k \in 1..h.i}
    <3>1. \A k \in 1..h.i : k \in 1..h.i - 1 \/ k = h.i
      BY <2>3
    <3>2. h.i \in 1..h.i /\ \A k \in 1..h.i - 1 : k \in 1..h.i
      BY <2>3
    <3> HIDE DEF s
    <3> QED
      BY <3>1, <3>2
  <2>6. bitmap' = Ajenos(a) \cup {s[k] : k \in 1..h.i}
    BY <2>3, <2>4, <2>5
  <2>7. bitmap' \in SUBSET Bloques
    BY <1>2, <1>3, <2>3
  <2>8. CASE h.i = Len(s)
    <3>1. Queda(a, "abrir_bitmap", s, 1, {})
      BY <1>1, <1>10, <2>8, EfectoEscribir
    <3>2. Sigue(a, "abrir_bitmap", s, 1, {})
      BY <1>2, <1>3, <1>5, <2>1, <2>6, <2>7, <2>8, <3>1 DEF Sigue, Marcando, Guardando
    <3>3. Etapa(a, hilo[a])'
      BY <1>1, <2>1, <3>1 DEF Etapa, Queda, Marcando, Guardando, Escribiendo
    <3> QED
      BY <1>6, <2>1, <3>2, <3>3
  <2>9. CASE h.i # Len(s)
    <3>1. Queda(a, "leer_byte", s, h.i + 1, {})
      BY <1>1, <1>10, <2>9, EfectoEscribir
    <3>2. h.i + 1 - 1 = h.i /\ h.i + 1 \in 1..Len(s)
      BY <1>3, <2>3, <2>9
    <3>3. Sigue(a, "leer_byte", s, h.i + 1, {})
      <4>1. bitmap' = Ajenos(a) \cup {s[k] : k \in 1..h.i + 1 - 1}
        BY <2>6, <3>2
      <4> QED
        BY <1>2, <1>5, <2>1, <2>7, <3>1, <4>1 DEF Sigue, Marcando
    <3>4. Etapa(a, hilo[a])'
      BY <1>1, <2>1, <3>1, <3>2 DEF Etapa, Queda, Marcando, Guardando, Escribiendo
    <3> QED
      BY <1>6, <2>1, <3>3, <3>4
  <2> QED
    BY <2>8, <2>9
<1>11. CASE AbrirBitmap(a)
  <2>1. /\ h.paso = "abrir_bitmap" /\ Queda(a, "copiar_bitmap", s, h.i, h.leido)
        /\ bitmap_dat' = {} /\ UNCHANGED <<bitmap, tamanio, respuesta>>
    BY <1>1, <1>11, PasoDe DEF AbrirBitmap, Pasos
  <2>2. Sigue(a, "copiar_bitmap", s, h.i, h.leido)
    BY <1>2, <1>4, <1>5, <2>1, SinMarcar DEF Marcando, Guardando
  <2>3. Etapa(a, hilo[a])'
    BY <1>1, <2>1 DEF Etapa, Queda, Marcando, Guardando, Escribiendo
  <2> QED
    BY <1>6, <2>1, <2>2, <2>3
<1>12. CASE CopiarBitmap(a)
  <2>1. /\ h.paso = "copiar_bitmap" /\ Queda(a, "cerrar_bitmap", s, h.i, bitmap)
        /\ UNCHANGED <<bitmap, bitmap_dat, tamanio, respuesta>>
    BY <1>1, <1>12, EfectoCopiar DEF CopiarBitmap, archivos
  <2>2. Sigue(a, "cerrar_bitmap", s, h.i, bitmap)
    BY <1>2, <1>4, <1>5, <2>1, SinMarcar DEF Marcando, Guardando
  <2>3. Etapa(a, hilo[a])'
    BY <1>1, <2>1 DEF Etapa, Queda, Marcando, Guardando, Escribiendo
  <2> QED
    BY <1>6, <2>1, <2>2, <2>3
<1>13. CASE CerrarBitmap(a)
  <2>1. /\ h.paso = "cerrar_bitmap" /\ Queda(a, "abrir_metadata", s, h.i, {})
        /\ bitmap_dat' = h.leido /\ UNCHANGED <<bitmap, tamanio, respuesta>>
    BY <1>1, <1>13, EfectoCopiar DEF CerrarBitmap
  <2>2. h.leido = bitmap
    BY <2>1 DEF InvMapa, Mapa
  <2>3. Sigue(a, "abrir_metadata", s, h.i, {})
    BY <1>2, <1>4, <1>5, <2>1, <2>2, SinMarcar DEF Marcando, Guardando
  <2>4. Etapa(a, hilo[a])'
    BY <1>1, <2>1 DEF Etapa, Queda, Marcando, Guardando, Escribiendo
  <2> QED
    BY <1>6, <2>1, <2>3, <2>4
<1>14. ASSUME NEW p \in {"cerrar_metadata", "indice", "datos"}, Queda(a, p, s, h.i, h.leido),
              UNCHANGED <<bitmap, bitmap_dat, tamanio, respuesta>>,
              h.paso \in {"abrir_metadata", "cerrar_metadata", "indice"}
       PROVE  InvMapa'
  <2>1. Sigue(a, p, s, h.i, h.leido)
    BY <1>2, <1>4, <1>5, <1>14, SinMarcar DEF Marcando, Guardando
  <2>2. s # <<>> /\ h.i = 1 /\ respuesta[a] = "ninguna"
    BY <1>1, <1>14 DEF Etapa, Escribiendo
  <2>3. 1 \in 1..Len(s)
    BY <1>2, <1>3, <2>2, EmptySeq
  <2>4. Etapa(a, hilo[a])'
    BY <1>1, <1>14, <2>2, <2>3 DEF Etapa, Queda, Marcando, Guardando, Escribiendo
  <2> QED
    BY <1>6, <1>14, <2>1, <2>4
<1>15. CASE AbrirMetadata(a) \/ CerrarMetadata(a) \/ EscribirIndice(a)
  <2>1. "cerrar_metadata" \in Pasos /\ "indice" \in Pasos /\ "datos" \in Pasos
    BY DEF Pasos
  <2>2. CASE AbrirMetadata(a)
    BY <1>1, <1>14, <2>1, <2>2, PasoDe DEF AbrirMetadata
  <2>3. CASE CerrarMetadata(a)
    BY <1>1, <1>14, <2>1, <2>3, PasoDe DEF CerrarMetadata
  <2>4. CASE EscribirIndice(a)
    BY <1>1, <1>14, <2>1, <2>4, PasoDe DEF EscribirIndice
  <2> QED
    BY <1>15, <2>2, <2>3, <2>4
<1>16. CASE EscribirDatos(a)
  <2>1. /\ h.paso = "datos" /\ h.i < Len(s) /\ Queda(a, "datos", s, h.i + 1, h.leido)
        /\ UNCHANGED <<bitmap, bitmap_dat, tamanio, respuesta>>
    BY <1>1, <1>16, EfectoDatos DEF EscribirDatos
  <2>2. Sigue(a, "datos", s, h.i + 1, h.leido)
    BY <1>2, <1>4, <1>5, <2>1, SinMarcar DEF Marcando, Guardando
  <2>3. h.i + 1 \in 1..Len(s)
    BY <1>2, <1>3, <2>1
  <2>4. Etapa(a, hilo[a])'
    BY <1>1, <2>1, <2>3 DEF Etapa, Queda, Marcando, Guardando, Escribiendo
  <2> QED
    BY <1>6, <2>1, <2>2, <2>4
<1>17. CASE Confirmar(a)
  <2>1. /\ h.paso = "datos" /\ Queda(a, "fin", s, h.i, h.leido) /\ h.i = Len(s)
        /\ UNCHANGED <<bitmap, bitmap_dat, tamanio>>
        /\ respuesta' = [respuesta EXCEPT ![a] = "ok"]
    BY <1>1, <1>17, PasoDe DEF Confirmar, Pasos, archivos
  <2>2. Sigue(a, "fin", s, h.i, h.leido)
    BY <1>2, <1>4, <1>5, <2>1, SinMarcar DEF Marcando, Guardando
  <2>3. /\ respuesta'[a] = "ok" /\ \A b \in Archivos : b # a => respuesta'[b] = respuesta[b]
        /\ respuesta' \in [Archivos -> {"ninguna", "ok", "error"}]
    BY <1>1, <2>1 DEF Tipos
  <2>4. Etapa(a, hilo[a])'
    BY <1>1, <2>1, <2>3 DEF Etapa, Queda, Marcando, Guardando, Escribiendo
  <2> QED
    BY <1>1, <1>4, <2>1, <2>2, <2>3, <2>4, Seguir DEF Tipos
<1> QED
  BY <1>7, <1>8, <1>9, <1>10, <1>11, <1>12, <1>13, <1>15, <1>16, <1>17 DEF PasoDump

(* A dump that is asked for has no blocks yet. *)
LEMMA MapaPedido ==
    ASSUME DeAUno, InvMapa, NEW a \in Archivos, NEW t \in Tamanios, RecibirDump(a, t)
    PROVE  InvMapa'
<1> DEFINE h == hilo[a]
           s == h.bloques
<1>1. Tipos /\ Etapa(a, h)
  BY DEF InvMapa, Etapas
<1>2. Solo(a)
  BY NadieMas DEF RecibirDump
<1>3. /\ h.paso = "sin_pedir" /\ Queda(a, "buscar", s, h.i, h.leido)
      /\ UNCHANGED <<bitmap, bitmap_dat, respuesta>>
      /\ tamanio' = [tamanio EXCEPT ![a] = t]
  BY <1>1, PasoDe DEF RecibirDump, Pasos, archivos
<1>4. /\ bitmap_dat = bitmap /\ bitmap \in SUBSET Bloques
  BY <1>1, <1>2, <1>3, Desarmar DEF Marcando, Guardando, Tipos
<1>5. Sigue(a, "buscar", s, h.i, h.leido)
  BY <1>2, <1>3, <1>4, SinMarcar DEF Marcando, Guardando
<1>6. Etapa(a, hilo[a])'
  BY <1>1, <1>3 DEF Etapa, Queda, Marcando, Guardando, Escribiendo
<1>7. /\ tamanio' \in [Archivos -> Tamanios \cup {0}]
      /\ \A b \in Archivos : b # a => tamanio'[b] = tamanio[b]
  BY <1>1, <1>3 DEF Tipos
<1> QED
  BY <1>1, <1>2, <1>3, <1>5, <1>6, <1>7, Seguir DEF Tipos

(* The start-up reads from the file the bitmap that was in memory. *)
LEMMA Reinicio ==
    ASSUME DeAUno, InvMapa, Caida
    PROVE  hilo' = hilo /\ bitmap' = bitmap /\ UNCHANGED <<archivos, tamanio, respuesta>>
<1>1. EnCurso = {}
  BY Zenon DEF DeAUno, Caida
<1>2. hilo' = hilo
  <2>1. hilo' = [a \in Archivos |-> hilo[a]]
    BY <1>1 DEF Caida
  <2>2. hilo \in [Archivos -> Hebras]
    BY DEF InvMapa, Tipos
  <2> QED
    BY <2>1, <2>2
<1>3. bitmap_dat = bitmap
  BY <1>1 DEF InvMapa, Mapa, EnCurso, Marcando, Guardando
<1>4. bitmap' = bitmap_dat /\ UNCHANGED <<archivos, tamanio, respuesta>>
  BY Zenon DEF Caida, InicializarBitmap
<1> QED
  BY <1>2, <1>3, <1>4, Zenon

(* A step that touches neither threads nor bitmap. *)
LEMMA MapaIgual ==
    ASSUME InvMapa, UNCHANGED <<hilo, bitmap, bitmap_dat, tamanio, respuesta>>
    PROVE  InvMapa'
<1>1. Tipos' /\ Uno'
  BY DEF InvMapa, Tipos, Uno, EnCurso
<1>2. Etapas'
  BY DEF InvMapa, Etapas, Etapa
<1>3. Mapa'
  BY DEF InvMapa, Mapa, Marcados, BloquesExclusivos, BloquesDe
<1> QED
  BY <1>1, <1>2, <1>3 DEF InvMapa

(* New files: no blocks, and none marked. *)
LEMMA MapaInicial == Init => InvMapa
<1> SUFFICES ASSUME Init PROVE InvMapa
  OBVIOUS
<1>1. PICK e \in Seq(Bloques) : e = <<>> /\ ToSet(e) = {}
  BY Vacia
<1>2. Ocioso \in Hebras /\ Ocioso.paso = "sin_pedir" /\ Ocioso.i = 1 /\ Ocioso.bloques = e
  BY <1>1 DEF Ocioso, Hebras, Pasos
<1>3. /\ \A a \in Archivos : /\ hilo[a] = Ocioso /\ respuesta[a] = "ninguna"
      /\ hilo \in [Archivos -> Hebras]
  <2> HIDE DEF Ocioso
  <2> QED
    BY <1>2 DEF Init
<1> HIDE DEF Ocioso
<1>4. Tipos
  BY <1>3 DEF Init, Tipos
<1>5. Uno
  BY <1>2, <1>3 DEF Uno, EnCurso
<1>6. Etapas
  BY <1>1, <1>2, <1>3 DEF Etapas, Etapa, Marcando, Guardando, Escribiendo
<1>7. Mapa
  <2>1. \A a \in Archivos : Marcados(hilo[a]) = {} /\ BloquesDe(a) = {}
    BY <1>1, <1>2, <1>3 DEF Marcados, Marcando, BloquesDe
  <2>2. bitmap = {} /\ bitmap_dat = {}
    BY DEF Init
  <2>3. UNION {Marcados(hilo[a]) : a \in Archivos} = {}
    BY <2>1
  <2>4. BloquesExclusivos
    BY <2>1 DEF BloquesExclusivos
  <2> QED
    BY <1>2, <1>3, <2>2, <2>3, <2>4 DEF Mapa
<1> QED
  BY <1>4, <1>5, <1>6, <1>7 DEF InvMapa

(* With one dump at a time, and no stop in the middle of one, every step   *)
(* keeps the local variables of the threads and the bitmap in step.        *)
LEMMA InvarianteMapaPaso ==
    ASSUME DeAUno
    PROVE  InvMapa /\ [Next]_vars => InvMapa'
<1> SUFFICES ASSUME InvMapa, [Next]_vars
             PROVE  InvMapa'
  OBVIOUS
<1>1. CASE Caida
  BY <1>1, Reinicio, MapaIgual DEF archivos
<1>2. CASE UNCHANGED vars
  BY <1>2, MapaIgual DEF vars, archivos
<1> QED
  BY <1>1, <1>2, MapaPaso, MapaPedido DEF Next

(* The local variables of the threads, the bitmap and its file are in      *)
(* step at every moment of every dump.                                     *)
THEOREM InvarianteMapa ==
    ASSUME DeAUno
    PROVE  Spec => []InvMapa
BY MapaInicial, InvarianteMapaPaso, PTL DEF Spec

(* With one dump at a time, no block is given to two files, whatever the   *)
(* number of dumps and restarts.                                           *)
THEOREM UnArchivoPorBloque ==
    ASSUME DeAUno
    PROVE  Spec => []BloquesExclusivos
<1>1. InvMapa => BloquesExclusivos
  BY DEF InvMapa, Mapa
<1> QED
  BY InvarianteMapa, <1>1, PTL

(* Between dumps the bitmap, in memory and in its file, marks the blocks   *)
(* of the files and no other.                                              *)
THEOREM BitmapDeLosArchivos ==
    ASSUME DeAUno
    PROVE  Spec => []BitmapAlDia
<1>1. ASSUME InvMapa, EnCurso = {}
      PROVE  bitmap = UNION {BloquesDe(a) : a \in Archivos} /\ bitmap_dat = bitmap
  <2>1. \A a \in Archivos : hilo[a].paso \notin Marcando \cup Guardando
    BY <1>1 DEF EnCurso, Marcando, Guardando
  <2>2. \A a \in Archivos : Marcados(hilo[a]) = BloquesDe(a)
    BY <2>1 DEF Marcados, BloquesDe
  <2>3. Mapa
    BY <1>1 DEF InvMapa
  <2> QED
    BY <2>1, <2>2, <2>3 DEF Mapa
<1>2. InvMapa => BitmapAlDia
  BY <1>1 DEF BitmapAlDia
<1> QED
  BY InvarianteMapa, <1>2, PTL

-----------------------------------------------------------------------------
(* The contents of the dumps. *)

(* The pointers of a dump fit in its index block: beyond that the writes   *)
(* of EscribirIndice reach the next block.                                 *)
IndiceAlcanza == \A t \in Tamanios : CalcularBloquesNecesarios(t) <= BLOCK_SIZE

InvContenido ==
    /\ InvMapa
    /\ metadata \in [Archivos -> [size : Int, index_block : Int]]
    /\ Contenidos

(* A write of at most one block leaves the words of the others alone. *)
LEMMA EscribirUnBloque ==
    ASSUME NEW b \in Bloques, NEW c \in Bloques, NEW r \in 0..BLOCK_SIZE - 1,
           NEW n \in Int, n <= BLOCK_SIZE, NEW palabras, DOMAIN palabras = 1..n,
           bloques_dat' = EscribirBloque(bloques_dat, b, palabras)
    PROVE  bloques_dat'[c * BLOCK_SIZE + r]
             = IF c = b /\ r < n THEN palabras[r + 1] ELSE Palabra(c, r)
<1> DEFINE S == BLOCK_SIZE
           w == c * S + r
           k == w - b * S + 1
<1>1. S \in Nat \ {0} /\ BLOCK_COUNT \in Nat \ {0}
  BY FilesystemAssumption
<1>2. b \in Nat /\ c \in Nat /\ c < BLOCK_COUNT
  BY <1>1 DEF Bloques
<1> HIDE DEF S
<1>3. /\ c * S \in Nat /\ b * S \in Nat /\ BLOCK_COUNT * S \in Nat
      /\ c * S + S <= BLOCK_COUNT * S
  <2>1. c * S \in Nat /\ b * S \in Nat /\ BLOCK_COUNT * S \in Nat
    BY <1>1, <1>2
  <2> QED
    BY <1>1, <1>2, <2>1, Producto
<1>4. r \in 0..S - 1
  BY DEF S
<1>5. w \in Palabras
  <2>1. w \in 0..BLOCK_COUNT * S - 1
    BY <1>1, <1>3, <1>4
  <2> QED
    BY <2>1 DEF Palabras, S
<1>6. bloques_dat'[w] = IF k \in 1..n THEN palabras[k] ELSE bloques_dat[w]
  <2> HIDE DEF w
  <2> QED
    BY <1>5 DEF EscribirBloque, S
<1>7. CASE c = b /\ r < n
  <2>1. k = r + 1
    BY <1>3, <1>4, <1>7
  <2>2. r + 1 \in 1..n
    BY <1>1, <1>4, <1>7
  <2> QED
    BY <1>6, <1>7, <2>1, <2>2 DEF S
<1>8. CASE ~ (c = b /\ r < n)
  <2>1. ASSUME k \in 1..n
        PROVE  FALSE
    <3>1. PICK x \in Nat, y \in Nat : x = c * S /\ y = b * S
      BY <1>3
    <3>2. k = x + r - y + 1 /\ n <= S
      BY <3>1 DEF S
    <3>3. k \in Int /\ k - 1 \in 0..S - 1
      <4>1. k \in Int
        BY <1>4, <3>2
      <4> HIDE DEF k
      <4> QED
        BY <1>1, <2>1, <3>2, <4>1
    <3>4. c * S + r = b * S + (k - 1)
      <4>1. x + r = y + (k - 1)
        BY <1>4, <3>2
      <4> HIDE DEF k
      <4> QED
        BY <3>1, <4>1
    <3> HIDE DEF k
    <3>5. c = b /\ r = k - 1
      BY <1>1, <1>2, <1>4, <3>3, <3>4, UnSoloBloque
    <3> QED
      BY <1>8, <2>1, <3>3, <3>5
  <2> QED
    BY <1>6, <1>8, <2>1 DEF S, Palabra
<1> QED
  BY <1>7, <1>8

(* A dump that has blocks has as many as it needs and one more, and its    *)
(* pointers fit in a block.                                                *)
LEMMA PunterosDeUnBloque ==
    ASSUME IndiceAlcanza, InvMapa, NEW a \in Archivos, hilo[a].bloques # <<>>
    PROVE  /\ Len(hilo[a].bloques) \in Nat \ {0}
           /\ Len(hilo[a].bloques) = CalcularBloquesNecesarios(tamanio[a]) + 1
           /\ Len(hilo[a].bloques) - 1 <= BLOCK_SIZE
           /\ tamanio[a] \in Nat
<1>1. /\ Len(hilo[a].bloques) = CalcularBloquesNecesarios(tamanio[a]) + 1
      /\ tamanio[a] \in Tamanios \cup {0}
  BY DEF InvMapa, Etapas, Etapa, Tipos
<1>2. BLOCK_SIZE \in Nat \ {0} /\ \A t \in Tamanios : t \in Nat
  BY FilesystemAssumption
<1>3. tamanio[a] \in Nat
  BY <1>1, <1>2
<1>4. CalcularBloquesNecesarios(tamanio[a]) \in Nat
  BY <1>3, Necesarios
<1>5. CalcularBloquesNecesarios(0) <= BLOCK_SIZE
  <2> DEFINE S == BLOCK_SIZE
  <2>1. S \in Nat \ {0} /\ S - 1 \in 0..S - 1 /\ 0 * S + (S - 1) = S - 1
    BY <1>2
  <2> HIDE DEF S
  <2>2. (0 * S + (S - 1)) \div S = 0
    BY <2>1, BloqueYPalabra
  <2>3. (0 + S - 1) = 0 * S + (S - 1)
    BY <2>1
  <2>4. (0 + S - 1) \div S = 0
    BY <2>2, <2>3
  <2> QED
    BY <2>1, <2>4 DEF CalcularBloquesNecesarios, S
<1>6. CalcularBloquesNecesarios(tamanio[a]) <= BLOCK_SIZE
  BY <1>1, <1>5 DEF IndiceAlcanza
<1> QED
  BY <1>1, <1>2, <1>3, <1>4, <1>6

(* Of a thread whose variables do not change: its files are as they were   *)
(* if its metadata and the words of its blocks are.                        *)
LEMMA ContenidoIgual ==
    ASSUME IndiceAlcanza, InvContenido, NEW a \in Archivos,
           hilo'[a].bloques = hilo[a].bloques, hilo'[a].i = hilo[a].i,
           hilo'[a].paso \in {"indice", "datos", "fin"} => hilo[a].paso \in {"indice", "datos", "fin"},
           hilo'[a].paso \in {"datos", "fin"} /\ hilo[a].bloques # <<>> =>
               hilo[a].paso \in {"datos", "fin"},
           tamanio'[a] = tamanio[a], metadata'[a] = metadata[a],
           \A c \in ToSet(hilo[a].bloques) : \A r \in 0..BLOCK_SIZE - 1 :
               bloques_dat'[c * BLOCK_SIZE + r] = Palabra(c, r)
    PROVE  Contenido(a, hilo[a])'
<1> DEFINE h == hilo[a]
           s == h.bloques
           g == hilo'[a]
<1>1. Etapa(a, h) /\ h \in Hebras /\ Contenido(a, h)
  BY DEF InvContenido, InvMapa, Etapas, Tipos, Contenidos
<1>2. s \in Seq(Bloques) /\ h.i \in Nat
  BY <1>1 DEF Hebras
<1>3. /\ Len(s) \in Nat /\ ToSet(s) = {s[k] : k \in 1..Len(s)}
  BY <1>2, LenProperties, Miembros
<1>4. CASE g.paso \in {"datos", "fin"} /\ s # <<>>
  <2>1. h.paso \in {"datos", "fin"} /\ s # <<>>
    BY <1>4
  <2>2. h.i \in 0..Len(s)
    BY <1>1, <1>2, <1>3, <2>1 DEF Etapa, Marcando
  <2>3. 1 \in 1..Len(s) /\ Len(s) - 1 <= BLOCK_SIZE /\ BLOCK_SIZE \in Nat \ {0}
    BY <2>1, PunterosDeUnBloque, FilesystemAssumption DEF InvContenido
  <2>4. ASSUME NEW k \in 1..Len(s), NEW r \in 0..BLOCK_SIZE - 1
        PROVE  bloques_dat'[s[k] * BLOCK_SIZE + r] = Palabra(s[k], r)
    BY <1>3
  <2> HIDE DEF s
  <2>5. ASSUME NEW k \in 1..Len(s) - 1
        PROVE  bloques_dat'[s[1] * BLOCK_SIZE + (k - 1)] = Puntero(a, s[k + 1])
    <3>1. k - 1 \in 0..BLOCK_SIZE - 1
      BY <1>3, <2>3
    <3>2. Palabra(s[1], k - 1) = Puntero(a, s[k + 1])
      BY <1>1, <2>1 DEF Contenido, s
    <3> QED
      BY <2>3, <2>4, <3>1, <3>2
  <2>6. ASSUME NEW q \in 1..h.i - 1, NEW r \in 0..BLOCK_SIZE - 1,
               (q - 1) * BLOCK_SIZE + r < tamanio[a]
        PROVE  bloques_dat'[s[q + 1] * BLOCK_SIZE + r] = Dato(a, (q - 1) * BLOCK_SIZE + r)
    <3>1. q + 1 \in 1..Len(s)
      BY <1>2, <1>3, <2>2
    <3>2. Palabra(s[q + 1], r) = Dato(a, (q - 1) * BLOCK_SIZE + r)
      BY <1>1, <2>1, <2>6 DEF Contenido, s
    <3> QED
      BY <2>4, <3>1, <3>2
  <2>7. metadata'[a] = [size |-> tamanio'[a], index_block |-> s[1]]
    BY <1>1, <2>1 DEF Contenido, s
  <2>8. g.bloques = s /\ g.i = h.i
    BY DEF s
  <2> QED
    BY <2>5, <2>6, <2>7, <2>8 DEF Contenido, Palabra
<1>5. CASE ~ (g.paso \in {"datos", "fin"} /\ s # <<>>)
  BY <1>1, <1>5 DEF Contenido
<1> QED
  BY <1>4, <1>5

(* A dump writes its own metadata and the words of its own blocks.         *)
LEMMA ContenidoDeUno ==
    ASSUME IndiceAlcanza, InvContenido, InvMapa', NEW a \in Archivos,
           NEW p, NEW s, NEW i, NEW l, Queda(a, p, s, i, l), Contenido(a, hilo[a])',
           \A b \in Archivos : b # a => tamanio'[b] = tamanio[b] /\ metadata'[b] = metadata[b],
           metadata' \in [Archivos -> [size : Int, index_block : Int]],
           \/ UNCHANGED bloques_dat
           \/ \E c \in ToSet(hilo[a].bloques), n \in Int : \E palabras :
                 /\ n <= BLOCK_SIZE /\ DOMAIN palabras = 1..n
                 /\ bloques_dat' = EscribirBloque(bloques_dat, c, palabras)
    PROVE  InvContenido'
<1>1. ASSUME NEW b \in Archivos, b # a, NEW d \in ToSet(hilo[b].bloques),
             NEW r \in 0..BLOCK_SIZE - 1
      PROVE  bloques_dat'[d * BLOCK_SIZE + r] = Palabra(d, r)
  <2>1. CASE UNCHANGED bloques_dat
    BY <2>1 DEF Palabra
  <2>2. ASSUME NEW c \in ToSet(hilo[a].bloques), NEW n \in Int, NEW palabras,
               n <= BLOCK_SIZE, DOMAIN palabras = 1..n,
               bloques_dat' = EscribirBloque(bloques_dat, c, palabras)
        PROVE  bloques_dat'[d * BLOCK_SIZE + r] = Palabra(d, r)
    <3>1. BloquesDe(b) \cap BloquesDe(a) = {}
      BY <1>1 DEF InvContenido, InvMapa, Mapa, BloquesExclusivos
    <3>2. d # c
      BY <1>1, <3>1 DEF BloquesDe
    <3>3. c \in Bloques /\ d \in Bloques
      <4>1. hilo[a].bloques \in Seq(Bloques) /\ hilo[b].bloques \in Seq(Bloques)
        BY DEF InvContenido, InvMapa, Tipos, Hebras
      <4> QED
        BY <1>1, <4>1, Miembros
    <3> QED
      BY <2>2, <3>2, <3>3, EscribirUnBloque
  <2> QED
    BY <2>1, <2>2
<1>2. ASSUME NEW b \in Archivos, b # a
      PROVE  Contenido(b, hilo[b])'
  <2>1. hilo'[b] = hilo[b]
    BY <1>2 DEF Queda
  <2> QED
    BY <1>1, <1>2, <2>1, ContenidoIgual
<1>3. Contenidos'
  BY <1>2 DEF Contenidos
<1> QED
  BY <1>3 DEF InvContenido

(* Each step of a dump keeps what its files must hold by then, and         *)
(* touches no word of another dump.                                        *)
LEMMA ContenidoPaso ==
    ASSUME DeAUno, IndiceAlcanza, InvContenido, NEW a \in Archivos, PasoDump(a)
    PROVE  InvContenido'
<1> DEFINE h == hilo[a]
           s == h.bloques
<1>1. /\ Tipos /\ Etapa(a, h) /\ h \in Hebras /\ Contenido(a, h) /\ InvMapa
      /\ metadata \in [Archivos -> [size : Int, index_block : Int]]
  BY DEF InvContenido, InvMapa, Etapas, Tipos, Contenidos
<1>2. s \in Seq(Bloques) /\ h.i \in Nat
  BY <1>1 DEF Hebras
<1>3. /\ Len(s) \in Nat /\ ToSet(s) = {s[k] : k \in 1..Len(s)}
      /\ \A k \in 1..Len(s) : s[k] \in Bloques
  BY <1>2, LenProperties, Miembros, ElementOfSeq
<1>4. InvMapa'
  BY <1>1, MapaPaso
(* the steps that write neither metadata nor blocks *)
<1>5. ASSUME NEW p, NEW u, NEW i, NEW l, Queda(a, p, u, i, l),
             p \notin {"indice", "datos", "fin"} \/ u = <<>>,
             tamanio' = tamanio,
             \A b \in Archivos : b # a => metadata'[b] = metadata[b],
             metadata' \in [Archivos -> [size : Int, index_block : Int]],
             bloques_dat' = bloques_dat
      PROVE  InvContenido'
  <2>1. Contenido(a, hilo[a])'
    BY <1>5 DEF Contenido, Queda
  <2> QED
    BY <1>4, <1>5, <2>1, ContenidoDeUno
<1>6. CASE BuscarBloques(a)
  <2>1. PICK u \in Seq(Bloques) :
           Queda(a, IF u = <<>> THEN "rechazar" ELSE "leer_byte", u, h.i, h.leido)
    BY <1>1, <1>6, EfectoBuscar
  <2>2. PICK p : /\ p = IF u = <<>> THEN "rechazar" ELSE "leer_byte"
                 /\ Queda(a, p, u, h.i, h.leido)
    BY <2>1
  <2>3. p \notin {"indice", "datos", "fin"}
    BY <2>2
  <2>4. tamanio' = tamanio /\ metadata' = metadata /\ bloques_dat' = bloques_dat
    BY <1>6 DEF BuscarBloques, archivos
  <2> QED
    BY <1>1, <1>5, <2>2, <2>3, <2>4
<1>7. CASE Rechazar(a)
  <2>1. h.paso = "rechazar" /\ Queda(a, "fin", s, h.i, h.leido)
    BY <1>1, <1>7, PasoDe DEF Rechazar, Pasos
  <2>2. s = <<>>
    BY <1>1, <2>1 DEF Etapa
  <2> QED
    BY <1>1, <1>5, <1>7, <2>1, <2>2 DEF Rechazar, archivos
<1>8. CASE LeerByte(a)
  <2>1. Queda(a, "set_bit", s, h.i, bitmap \cap MismoByte(s[h.i]))
    BY <1>1, <1>8, EfectoLeer
  <2> QED
    BY <1>1, <1>5, <1>8, <2>1 DEF LeerByte, archivos
<1>9. CASE EscribirByte(a)
  <2>1. PICK p \in {"abrir_bitmap", "leer_byte"} : \E i : Queda(a, p, s, i, {})
    BY <1>1, <1>9, EfectoEscribir
  <2> QED
    BY <1>1, <1>5, <1>9, <2>1 DEF EscribirByte, archivos
<1>10. CASE AbrirBitmap(a)
  <2>1. Queda(a, "copiar_bitmap", s, h.i, h.leido)
    BY <1>1, <1>10, PasoDe DEF AbrirBitmap, Pasos
  <2> QED
    BY <1>1, <1>5, <1>10, <2>1 DEF AbrirBitmap
<1>11. CASE CopiarBitmap(a)
  <2>1. Queda(a, "cerrar_bitmap", s, h.i, bitmap)
    BY <1>1, <1>11, EfectoCopiar
  <2> QED
    BY <1>1, <1>5, <1>11, <2>1 DEF CopiarBitmap, archivos
<1>12. CASE CerrarBitmap(a)
  <2>1. Queda(a, "abrir_metadata", s, h.i, {})
    BY <1>1, <1>12, EfectoCopiar
  <2> QED
    BY <1>1, <1>5, <1>12, <2>1 DEF CerrarBitmap
<1>13. CASE AbrirMetadata(a)
  <2>1. Queda(a, "cerrar_metadata", s, h.i, h.leido)
    BY <1>1, <1>13, PasoDe DEF AbrirMetadata, Pasos
  <2>2. /\ metadata' \in [Archivos -> [size : Int, index_block : Int]]
        /\ \A b \in Archivos : b # a => metadata'[b] = metadata[b]
    BY <1>1, <1>13 DEF AbrirMetadata, SinMetadata
  <2> QED
    BY <1>1, <1>5, <1>13, <2>1, <2>2 DEF AbrirMetadata
<1>14. CASE CerrarMetadata(a)
  <2> DEFINE m == [size |-> tamanio[a], index_block |-> s[1]]
  <2>1. h.paso = "cerrar_metadata" /\ Queda(a, "indice", s, h.i, h.leido)
    BY <1>1, <1>14, PasoDe DEF CerrarMetadata, Pasos
  <2>2. s # <<>>
    BY <1>1, <2>1 DEF Etapa, Escribiendo
  <2>3. 1 \in 1..Len(s) /\ tamanio[a] \in Nat
    BY <1>1, <2>2, PunterosDeUnBloque
  <2>4. m \in [size : Int, index_block : Int]
    <3>1. s[1] \in Int
      BY <1>3, <2>3 DEF Bloques
    <3> QED
      BY <2>3, <3>1
  <2>5. metadata' = [metadata EXCEPT ![a] = m] /\ UNCHANGED <<bloques_dat, tamanio>>
    BY <1>14 DEF CerrarMetadata
  <2> HIDE DEF m
  <2>6. /\ metadata' \in [Archivos -> [size : Int, index_block : Int]] /\ metadata'[a] = m
        /\ \A b \in Archivos : b # a => metadata'[b] = metadata[b]
    BY <1>1, <2>4, <2>5
  <2>7. Contenido(a, hilo[a])'
    BY <2>1, <2>5, <2>6 DEF Contenido, Queda, m
  <2> QED
    BY <1>4, <2>1, <2>5, <2>6, <2>7, ContenidoDeUno
<1>15. CASE EscribirIndice(a)
  <2> DEFINE n == Len(s) - 1
             f == [k \in 1..n |-> Puntero(a, s[k + 1])]
  <2>1. h.paso = "indice" /\ Queda(a, "datos", s, h.i, h.leido)
    BY <1>1, <1>15, PasoDe DEF EscribirIndice, Pasos
  <2>2. s # <<>> /\ h.i = 1
    BY <1>1, <2>1 DEF Etapa, Escribiendo
  <2>3. /\ UNCHANGED <<metadata, tamanio>>
        /\ bloques_dat' = EscribirBloque(bloques_dat, s[1], f)
    BY <1>15 DEF EscribirIndice
  <2>4. 1 \in 1..Len(s) /\ n \in Int /\ n <= BLOCK_SIZE /\ DOMAIN f = 1..n
    BY <1>1, <2>2, PunterosDeUnBloque
  <2>5. s[1] \in Bloques /\ s[1] \in ToSet(s)
    BY <1>3, <2>4
  <2>6. \A k \in 1..n : f[k] = Puntero(a, s[k + 1])
    OBVIOUS
  <2> HIDE DEF f, s
  <2>7. ASSUME NEW k \in 1..n
        PROVE  bloques_dat'[s[1] * BLOCK_SIZE + (k - 1)] = Puntero(a, s[k + 1])
    <3>1. k - 1 \in 0..BLOCK_SIZE - 1 /\ k - 1 < n /\ k - 1 + 1 = k
      <4>1. BLOCK_SIZE \in Nat
        BY FilesystemAssumption
      <4> QED
        BY <1>3, <2>4, <4>1
    <3>2. bloques_dat'[s[1] * BLOCK_SIZE + (k - 1)] = f[k - 1 + 1]
      BY <2>3, <2>4, <2>5, <3>1, EscribirUnBloque
    <3> QED
      BY <2>6, <3>1, <3>2
  <2>8. metadata'[a] = [size |-> tamanio'[a], index_block |-> s[1]]
    BY <1>1, <2>1, <2>2, <2>3 DEF Contenido, s
  <2>9. hilo'[a].bloques = s /\ hilo'[a].i = 1
    BY <2>1, <2>2 DEF Queda
  <2>10. Contenido(a, hilo[a])'
    <3>1. \A q \in 1..1 - 1 : FALSE
      OBVIOUS
    <3> QED
      BY <2>7, <2>8, <2>9, <3>1 DEF Contenido, Palabra
  <2>11. \E c \in ToSet(s), x \in Int : \E palabras :
            /\ x <= BLOCK_SIZE /\ DOMAIN palabras = 1..x
            /\ bloques_dat' = EscribirBloque(bloques_dat, c, palabras)
    <3> HIDE DEF n
    <3> QED
      BY <2>3, <2>4, <2>5
  <2>12. metadata' \in [Archivos -> [size : Int, index_block : Int]]
    BY <1>1, <2>3
  <2> QED
    BY <1>4, <2>1, <2>3, <2>10, <2>11, <2>12, ContenidoDeUno DEF s
<1>16. CASE EscribirDatos(a)
  <2> DEFINE j == h.i
             t == tamanio[a]
             offset == (j - 1) * BLOCK_SIZE
             n == IF offset + BLOCK_SIZE > t THEN t - offset ELSE BLOCK_SIZE
             f == [k \in 1..n |-> Dato(a, offset + k - 1)]
  <2>1. h.paso = "datos" /\ Queda(a, "datos", s, j + 1, h.leido) /\ j < Len(s)
    BY <1>1, <1>16, EfectoDatos DEF EscribirDatos
  <2>2. s # <<>> /\ j \in 1..Len(s) /\ SinRepetir(s)
    BY <1>1, <2>1 DEF Etapa, Escribiendo, Marcando
  <2>3. /\ UNCHANGED <<metadata, tamanio>>
        /\ bloques_dat' = EscribirBloque(bloques_dat, s[j + 1], f)
    BY <1>16 DEF EscribirDatos
  <2>4. /\ 1 \in 1..Len(s) /\ t \in Nat /\ BLOCK_SIZE \in Nat \ {0}
        /\ j + 1 \in 1..Len(s) /\ Len(s) - 1 <= BLOCK_SIZE
    BY <1>1, <1>3, <2>1, <2>2, PunterosDeUnBloque, FilesystemAssumption
  <2>5. offset \in Nat
    <3>1. PICK x \in Nat : x = j - 1
      BY <1>3, <2>2
    <3>2. x * BLOCK_SIZE \in Nat
      BY <2>4
    <3> QED
      BY <3>1, <3>2
  <2> HIDE DEF offset, j, t, s
  <2>6. n \in Int /\ n <= BLOCK_SIZE /\ DOMAIN f = 1..n
    BY <2>4, <2>5
  <2>7. s[j + 1] \in Bloques /\ s[j + 1] \in ToSet(s)
    BY <1>3, <2>4
  <2>8. \A r \in 0..BLOCK_SIZE - 1 : offset + r < t => r < n /\ f[r + 1] = Dato(a, offset + r)
    <3> TAKE r \in 0..BLOCK_SIZE - 1
    <3>1. offset + r < t => r < n /\ r + 1 \in 1..n /\ offset + (r + 1) - 1 = offset + r
      BY <2>4, <2>5
    <3> HIDE DEF n
    <3> QED
      BY <3>1
  <2> HIDE DEF n, f
  <2>9. ASSUME NEW k \in 1..Len(s), k # j + 1, NEW r \in 0..BLOCK_SIZE - 1
        PROVE  bloques_dat'[s[k] * BLOCK_SIZE + r] = Palabra(s[k], r)
    <3>1. s[k] # s[j + 1] /\ s[k] \in Bloques
      BY <1>3, <2>2, <2>4, <2>9 DEF SinRepetir
    <3> QED
      BY <2>3, <2>6, <2>7, <3>1, EscribirUnBloque
  <2>10. ASSUME NEW k \in 1..Len(s) - 1
         PROVE  bloques_dat'[s[1] * BLOCK_SIZE + (k - 1)] = Puntero(a, s[k + 1])
    <3>1. k - 1 \in 0..BLOCK_SIZE - 1 /\ 1 # j + 1
      BY <1>3, <2>2, <2>4
    <3>2. Palabra(s[1], k - 1) = Puntero(a, s[k + 1])
      BY <1>1, <2>1, <2>2 DEF Contenido, s
    <3> QED
      BY <2>4, <2>9, <3>1, <3>2
  <2>11. ASSUME NEW q \in 1..j + 1 - 1, NEW r \in 0..BLOCK_SIZE - 1,
                (q - 1) * BLOCK_SIZE + r < t
         PROVE  bloques_dat'[s[q + 1] * BLOCK_SIZE + r] = Dato(a, (q - 1) * BLOCK_SIZE + r)
    <3>1. CASE q = j
      <4>1. offset + r < t /\ (q - 1) * BLOCK_SIZE + r = offset + r
        BY <2>11, <3>1 DEF offset
      <4>2. r < n /\ f[r + 1] = Dato(a, offset + r)
        BY <2>8, <4>1
      <4>3. bloques_dat'[s[j + 1] * BLOCK_SIZE + r] = f[r + 1]
        BY <2>3, <2>6, <2>7, <4>2, EscribirUnBloque
      <4> QED
        BY <3>1, <4>1, <4>2, <4>3
    <3>2. CASE q # j
      <4>1. q \in 1..j - 1 /\ q + 1 \in 1..Len(s) /\ q + 1 # j + 1
        BY <1>3, <2>2, <2>4, <3>2
      <4>2. Palabra(s[q + 1], r) = Dato(a, (q - 1) * BLOCK_SIZE + r)
        BY <1>1, <2>1, <2>2, <2>11, <4>1 DEF Contenido, s, j, t
      <4> QED
        BY <2>9, <4>1, <4>2
    <3> QED
      BY <3>1, <3>2
  <2>12. metadata'[a] = [size |-> tamanio'[a], index_block |-> s[1]]
    BY <1>1, <2>1, <2>2, <2>3 DEF Contenido, s
  <2>13. hilo'[a].bloques = s /\ hilo'[a].i = j + 1 /\ tamanio'[a] = t
    BY <2>1, <2>3 DEF Queda, t
  <2>14. Contenido(a, hilo[a])'
    <3> DEFINE g == hilo'[a]
    <3>1. ASSUME NEW k \in 1..Len(g.bloques) - 1
          PROVE  bloques_dat'[g.bloques[1] * BLOCK_SIZE + (k - 1)] = Puntero(a, g.bloques[k + 1])
      BY <2>10, <2>13
    <3>2. ASSUME NEW q \in 1..g.i - 1, NEW r \in 0..BLOCK_SIZE - 1,
                 (q - 1) * BLOCK_SIZE + r < tamanio'[a]
          PROVE  bloques_dat'[g.bloques[q + 1] * BLOCK_SIZE + r] = Dato(a, (q - 1) * BLOCK_SIZE + r)
      <4>1. q \in 1..j + 1 - 1 /\ (q - 1) * BLOCK_SIZE + r < t
        <5>1. j \in Nat
          BY <1>3, <2>2
        <5> QED
          BY <2>13, <3>2, <5>1
      <4> QED
        BY <2>11, <2>13, <4>1
    <3>3. metadata'[a] = [size |-> tamanio'[a], index_block |-> g.bloques[1]]
      BY <2>12, <2>13
    <3> QED
      BY <3>1, <3>2, <3>3 DEF Contenido, Palabra
  <2>15. \E c \in ToSet(s), x \in Int : \E palabras :
            /\ x <= BLOCK_SIZE /\ DOMAIN palabras = 1..x
            /\ bloques_dat' = EscribirBloque(bloques_dat, c, palabras)
    BY <2>3, <2>6, <2>7
  <2>16. metadata' \in [Archivos -> [size : Int, index_block : Int]]
    BY <1>1, <2>3
  <2> QED
    BY <1>4, <2>1, <2>3, <2>14, <2>15, <2>16, ContenidoDeUno DEF s
<1>17. CASE Confirmar(a)
  <2>1. /\ h.paso = "datos" /\ Queda(a, "fin", s, h.i, h.leido)
        /\ UNCHANGED <<metadata, bloques_dat, tamanio>>
    BY <1>1, <1>17, PasoDe DEF Confirmar, Pasos, archivos
  <2>2. hilo'[a].bloques = s /\ hilo'[a].i = h.i /\ hilo'[a].paso = "fin"
    BY <2>1 DEF Queda
  <2>3. Contenido(a, hilo[a])'
    BY <2>1, <2>2, ContenidoIgual DEF Palabra
  <2>4. metadata' \in [Archivos -> [size : Int, index_block : Int]]
    BY <1>1, <2>1
  <2> QED
    BY <1>4, <2>1, <2>3, <2>4, ContenidoDeUno
<1> QED
  BY <1>6, <1>7, <1>8, <1>9, <1>10, <1>11, <1>12, <1>13, <1>14, <1>15, <1>16, <1>17
     DEF PasoDump

(* A dump that is asked for has written nothing. *)
LEMMA ContenidoPedido ==
    ASSUME DeAUno, IndiceAlcanza, InvContenido, NEW a \in Archivos, NEW t \in Tamanios,
           RecibirDump(a, t)
    PROVE  InvContenido'
<1> DEFINE h == hilo[a]
<1>1. InvMapa /\ Tipos
  BY DEF InvContenido, InvMapa
<1>2. /\ Queda(a, "buscar", h.bloques, h.i, h.leido)
      /\ UNCHANGED <<metadata, bloques_dat>>
      /\ tamanio' = [tamanio EXCEPT ![a] = t]
  BY <1>1, PasoDe DEF RecibirDump, Pasos, archivos
<1>3. InvMapa'
  BY <1>1, MapaPedido
<1>4. Contenido(a, hilo[a])'
  BY <1>2 DEF Contenido, Queda
<1>5. \A b \in Archivos : b # a => tamanio'[b] = tamanio[b] /\ metadata'[b] = metadata[b]
  BY <1>1, <1>2 DEF Tipos
<1>6. metadata' \in [Archivos -> [size : Int, index_block : Int]]
  BY <1>2 DEF InvContenido
<1> QED
  BY <1>2, <1>3, <1>4, <1>5, <1>6, ContenidoDeUno

(* A step that writes no file. *)
LEMMA ContenidoQuieto ==
    ASSUME InvContenido, InvMapa', UNCHANGED <<hilo, archivos, tamanio>>
    PROVE  InvContenido'
BY DEF InvContenido, Contenidos, Contenido, Palabra, archivos

(* Nothing was dumped. *)
LEMMA ContenidoInicial == Init => InvContenido
<1> SUFFICES ASSUME Init PROVE InvContenido
  OBVIOUS
<1>1. \A a \in Archivos : hilo[a].paso = "sin_pedir"
  BY DEF Init, Ocioso
<1>2. metadata \in [Archivos -> [size : Int, index_block : Int]]
  BY DEF Init, SinMetadata
<1>3. Contenidos
  BY <1>1 DEF Contenidos, Contenido
<1> QED
  BY <1>2, <1>3, MapaInicial DEF InvContenido

(* The files of every dump hold what its thread has written so far.        *)
THEOREM InvarianteContenido ==
    ASSUME DeAUno, IndiceAlcanza
    PROVE  Spec => []InvContenido
<1>1. InvContenido /\ [Next]_vars => InvContenido'
  <2> SUFFICES ASSUME InvContenido, [Next]_vars
               PROVE  InvContenido'
    OBVIOUS
  <2>1. InvMapa /\ InvMapa'
    BY InvarianteMapaPaso DEF InvContenido
  <2>2. CASE Caida
    BY <2>1, <2>2, Reinicio, ContenidoQuieto
  <2>3. CASE UNCHANGED vars
    BY <2>1, <2>3, ContenidoQuieto DEF vars
  <2> QED
    BY <2>2, <2>3, ContenidoPaso, ContenidoPedido DEF Next
<1> QED
  BY ContenidoInicial, <1>1, PTL DEF Spec

(* A confirmed dump can be read back from its metadata, word by word,      *)
(* whatever was dumped later and however many times the module restarted.  *)
THEOREM VolcadosLegibles ==
    ASSUME DeAUno, IndiceAlcanza
    PROVE  Spec => []ContenidoIntacto
<1>1. ASSUME InvContenido, NEW a \in Archivos, respuesta[a] = "ok"
      PROVE  /\ metadata[a].size = tamanio[a]
             /\ \A k \in 0..tamanio[a] - 1 :
                   LET puntero == bloques_dat[metadata[a].index_block * BLOCK_SIZE
                                              + k \div BLOCK_SIZE]
                   IN  /\ puntero.tipo = "puntero"
                       /\ bloques_dat[puntero.valor * BLOCK_SIZE + (k % BLOCK_SIZE)] = Dato(a, k)
  <2> DEFINE h == hilo[a]
             s == h.bloques
             S == BLOCK_SIZE
             n == CalcularBloquesNecesarios(tamanio[a])
  <2>1. Etapa(a, h) /\ h.paso \in Pasos /\ Contenido(a, h) /\ InvMapa
    BY <1>1 DEF InvContenido, InvMapa, Etapas, Tipos, Hebras, Contenidos
  <2>2. h.paso = "fin" /\ s # <<>> /\ h.i = Len(s)
    BY <1>1, <2>1 DEF Etapa, Pasos, Marcando, Guardando, Escribiendo
  <2>3. /\ Len(s) = n + 1 /\ tamanio[a] \in Nat
        /\ metadata[a] = [size |-> tamanio[a], index_block |-> s[1]]
    BY <2>1, <2>2, PunterosDeUnBloque DEF Contenido
  <2>4. S \in Nat \ {0} /\ n \in Nat
    BY <2>3, Necesarios, FilesystemAssumption
  <2>5. /\ \A k \in 1..Len(s) - 1 : Palabra(s[1], k - 1) = Puntero(a, s[k + 1])
        /\ \A q \in 1..h.i - 1 : \A r \in 0..S - 1 :
              (q - 1) * S + r < tamanio[a] => Palabra(s[q + 1], r) = Dato(a, (q - 1) * S + r)
    BY <2>1, <2>2 DEF Contenido
  <2>6. \A q \in Nat : \A r \in 0..S - 1 : q * S + r < tamanio[a] => q < n
    BY <2>3, Necesarios
  <2> HIDE DEF s, S, n
  <2>7. ASSUME NEW k \in 0..tamanio[a] - 1
        PROVE  \E b : /\ Palabra(s[1], k \div S) = Puntero(a, b)
                      /\ Palabra(b, k % S) = Dato(a, k)
    <3>1. PICK q \in Nat, r \in 0..S - 1 : q = k \div S /\ r = k % S /\ k = q * S + r
      <4>1. k \in Nat
        BY <2>3
      <4>2. k \div S \in Nat /\ k % S \in 0..S - 1 /\ k = (k \div S) * S + (k % S)
        BY <2>4, <4>1, Division
      <4> QED
        BY <4>2
    <3>2. q < n
      BY <2>3, <2>6, <3>1
    <3>3. PICK j \in 1..Len(s) - 1 : j = q + 1 /\ j - 1 = q
      BY <2>3, <2>4, <3>2
    <3>4. Palabra(s[1], q) = Puntero(a, s[j + 1])
      BY <2>5, <3>3
    <3>5. q * S + r < tamanio[a]
      BY <2>3, <3>1
    <3>6. Palabra(s[j + 1], r) = Dato(a, q * S + r)
      BY <2>2, <2>5, <3>3, <3>5
    <3> QED
      BY <3>1, <3>4, <3>6
  <2>8. ASSUME NEW k \in 0..tamanio[a] - 1, NEW p,
               p = bloques_dat[metadata[a].index_block * BLOCK_SIZE + k \div BLOCK_SIZE]
        PROVE  /\ p.tipo = "puntero"
               /\ bloques_dat[p.valor * BLOCK_SIZE + (k % BLOCK_SIZE)] = Dato(a, k)
    <3>1. PICK b : Palabra(s[1], k \div S) = Puntero(a, b) /\ Palabra(b, k % S) = Dato(a, k)
      BY <2>7
    <3>2. metadata[a].index_block = s[1]
      BY <2>3
    <3>3. p = Palabra(s[1], k \div S)
      BY <2>8, <3>2 DEF Palabra, S
    <3>4. p.tipo = "puntero" /\ p.valor = b
      BY <3>1, <3>3 DEF Puntero
    <3> QED
      BY <3>1, <3>4 DEF Palabra, S
  <2> QED
    BY <2>3, <2>8
<1>2. InvContenido => ContenidoIntacto
  BY <1>1 DEF ContenidoIntacto
<1> QED
  BY InvarianteContenido, <1>2, PTL
=============================================================================
