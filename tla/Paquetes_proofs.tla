--------------------------- MODULE Paquetes_proofs ---------------------------
(***************************************************************************)
(* Proofs about Paquetes, for words of any width and any data that fit in  *)
(* the messages: what is serialised is what is read, to the byte, and      *)
(* every request and every answer is taken as it was sent, if there is no  *)
(* THREAD_CANCEL and the word of a read arrives whole (MCDispatchCancel    *)
(* and MCPaquetesPartida show what happens otherwise).                     *)
(***************************************************************************)
EXTENDS Paquetes, Listas

-----------------------------------------------------------------------------
(* Words. *)

(* Two functions that start alike and go on alike are the same.            *)
LEMMA PasoAPaso ==
    ASSUME NEW N \in Nat, NEW f, NEW g, f[0] = g[0],
           \A i \in 1..N : f[i - 1] = g[i - 1] => f[i] = g[i]
    PROVE  \A i \in 0..N : f[i] = g[i]
<1> DEFINE P == {n \in Nat : n <= N => f[n] = g[n]}
<1>1. 0 \in P
  OBVIOUS
<1>2. ASSUME NEW n \in Nat, n \in P
      PROVE  n + 1 \in P
  <2> SUFFICES ASSUME n + 1 <= N
               PROVE  f[n + 1] = g[n + 1]
    OBVIOUS
  <2>1. n + 1 \in 1..N /\ (n + 1) - 1 = n /\ f[n] = g[n]
    BY <1>2
  <2> QED
    BY <2>1
<1> HIDE DEF P
<1>3. \A n \in Nat : n \in P
  BY <1>1, <1>2, Induccion
<1> QED
  BY <1>3 DEF P

(* The weights of the bytes of a word. *)
LEMMA Pesos ==
    /\ \A k \in 0..Ancho : Peso[k] \in Nat \ {0}
    /\ Peso[0] = 1
    /\ \A k \in 1..Ancho : Peso[k] = Byte * Peso[k - 1]
<1> DEFINE V == Nat \ {0}
           Recorre(g) == g = [k \in 0..Ancho |-> IF k = 0 THEN 1 ELSE Byte * g[k - 1]]
           peso == CHOOSE g : Recorre(g)
           paso == [u \in V |-> [i \in Nat |-> Byte * u]]
<1>1. Peso = peso
  BY Zenon DEF Peso
<1>2. Ancho \in Nat /\ Byte \in Nat \ {0}
  BY PaquetesAssumption
<1>3. \A u \in V : Byte * u \in V
  BY <1>2
<1>4. 1 \in V /\ paso \in [V -> [Nat -> V]]
  BY <1>3
<1>5. \E g : Recorre(g) /\ \A k \in 0..Ancho : g[k] \in V
  <2>1. \A u \in V : \A i \in 1..Ancho : paso[u][i] = Byte * u
    BY <1>2
  <2> HIDE DEF V, paso
  <2>2. PICK f \in [0..Ancho -> V] : f[0] = 1 /\ \A i \in 1..Ancho : f[i] = paso[f[i - 1]][i]
    <3>1. Iteradas(V, 1, paso, Ancho) # {}
      BY <1>2, <1>4, Recurrencia
    <3>2. PICK f \in Iteradas(V, 1, paso, Ancho) : TRUE
      BY <3>1
    <3> QED
      BY <3>2 DEF Iteradas
  <2>3. \A i \in 1..Ancho : f[i] = Byte * f[i - 1]
    <3> SUFFICES ASSUME NEW i \in 1..Ancho
                 PROVE  f[i] = Byte * f[i - 1]
      OBVIOUS
    <3>1. i - 1 \in 0..Ancho /\ f[i - 1] \in V
      BY <1>2
    <3> QED
      BY <2>1, <2>2, <3>1
  <2>4. \A i \in 0..Ancho : f[i] = IF i = 0 THEN 1 ELSE Byte * f[i - 1]
    BY <1>2, <2>2, <2>3
  <2>5. Recorre(f)
    BY <2>4
  <2> HIDE DEF Recorre
  <2> QED
    BY <2>5
<1>6. Recorre(peso)
  BY <1>5, Zenon
<1>7. PICK g : Recorre(g) /\ \A k \in 0..Ancho : g[k] \in V
  BY <1>5
<1> HIDE DEF peso, V
<1>8. \A h : Recorre(h) => h[0] = 1 /\ \A k \in 1..Ancho : h[k] = Byte * h[k - 1]
  <2> SUFFICES ASSUME NEW h, Recorre(h)
               PROVE  h[0] = 1 /\ \A k \in 1..Ancho : h[k] = Byte * h[k - 1]
    OBVIOUS
  <2>1. \A k \in 0..Ancho : h[k] = IF k = 0 THEN 1 ELSE Byte * h[k - 1]
    OBVIOUS
  <2> QED
    BY <1>2, <2>1
<1> HIDE DEF Recorre
<1>9. peso[0] = g[0] /\ \A k \in 1..Ancho : peso[k - 1] = g[k - 1] => peso[k] = g[k]
  BY <1>6, <1>7, <1>8
<1>10. \A k \in 0..Ancho : peso[k] = g[k]
  BY <1>2, <1>9, PasoAPaso
<1> QED
  BY <1>1, <1>6, <1>7, <1>8, <1>10 DEF V

(* Quotient and remainder. *)
LEMMA Division ==
    ASSUME NEW i \in Nat, NEW j \in Nat \ {0}
    PROVE  /\ i \div j \in Nat /\ (i % j) \in Nat /\ (i % j) < j
           /\ i = j * (i \div j) + (i % j)
  OBVIOUS

(* Dividing by b after dividing by p is dividing by both.                  *)
LEMMA DividirDosVeces ==
    ASSUME NEW p \in Nat \ {0}, NEW b \in Nat \ {0}, NEW q \in Nat, NEW r \in Nat, r < p,
           NEW u \in Nat, NEW v \in Nat, v < b, q = b * u + v,
           NEW m, m = b * p, NEW w \in Nat, NEW x \in Nat, x < m, p * q + r = m * w + x
    PROVE  u = w
<1>1. m \in Nat \ {0}
  OBVIOUS
<1>2. PICK y : y = p * v + r
  OBVIOUS
<1>3. y \in Nat /\ y < m
  <2>1. v + 1 <= b /\ p * v + r < p * (v + 1)
    <3>1. p * (v + 1) = p * v + p /\ p * v \in Nat
      OBVIOUS
    <3> QED
      BY <3>1
  <2>2. p * (v + 1) <= p * b
    BY <2>1
  <2>3. p * v \in Nat /\ p * (v + 1) \in Nat /\ p * b = b * p
    OBVIOUS
  <2> QED
    BY <1>2, <2>1, <2>2, <2>3
<1>4. p * q + r = m * u + y
  <2>1. p * (b * u + v) = (b * p) * u + p * v
    OBVIOUS
  <2>2. p * v \in Nat /\ (b * p) * u \in Nat
    OBVIOUS
  <2> QED
    BY <1>2, <2>1, <2>2
<1>5. u = w
  <2>1. \A i, j \in Nat : i < j => m * i + m <= m * j
    <3> SUFFICES ASSUME NEW i \in Nat, NEW j \in Nat, i < j
                 PROVE  m * i + m <= m * j
      OBVIOUS
    <3>1. PICK k \in Nat : j = i + 1 + k
      <4>1. j - i - 1 \in Nat /\ j = i + 1 + (j - i - 1)
        OBVIOUS
      <4> QED
        BY <4>1
    <3>2. m * j = m * i + m + m * k
      BY <1>1, <3>1
    <3>3. m * k \in Nat /\ m * i \in Nat /\ m * j \in Nat
      BY <1>1
    <3> QED
      BY <1>1, <3>2, <3>3
  <2>2. PICK a : a = m * u
    OBVIOUS
  <2>3. PICK c : c = m * w
    OBVIOUS
  <2>4. a \in Nat /\ c \in Nat
    BY <1>1, <2>2, <2>3
  <2>5. u < w => a + m <= c
    BY <1>1, <2>1, <2>2, <2>3
  <2>6. w < u => c + m <= a
    BY <1>1, <2>1, <2>2, <2>3
  <2>7. a + y = c + x
    BY <1>4, <2>2, <2>3
  <2>8. ~(u < w) /\ ~(w < u)
    BY <1>1, <1>3, <2>4, <2>5, <2>6, <2>7
  <2> QED
    BY <1>1, <2>8
<1> QED
  BY <1>5

(* The value of a word, from any function that adds its bytes one by one.  *)
SumaBytes(s, g) ==
    g = [i \in 0..Len(s) |-> IF i = 0 THEN 0 ELSE g[i - 1] + s[i] * Peso[i - 1]]

(* The value of a word is the last sum of any function that adds up so.    *)
LEMMA PalabraDe ==
    ASSUME NEW s, Len(s) \in Nat, NEW g, SumaBytes(s, g)
    PROVE  Palabra(s) = g[Len(s)]
<1> DEFINE hasta == CHOOSE h : SumaBytes(s, h)
<1>1. Palabra(s) = hasta[Len(s)]
  <2>1. Palabra(s) = LET f == CHOOSE h : h = [i \in 0..Len(s) |->
                            IF i = 0 THEN 0 ELSE h[i - 1] + s[i] * Peso[i - 1]]
                     IN  f[Len(s)]
    BY Zenon DEF Palabra
  <2> QED
    BY <2>1, Zenon DEF SumaBytes
<1>2. SumaBytes(s, hasta)
  BY Zenon
<1> HIDE DEF hasta
<1>3. \A h : SumaBytes(s, h) =>
          \A i \in 0..Len(s) : h[i] = IF i = 0 THEN 0 ELSE h[i - 1] + s[i] * Peso[i - 1]
  BY Zenon DEF SumaBytes
<1>4. /\ hasta[0] = g[0]
      /\ \A i \in 1..Len(s) : hasta[i - 1] = g[i - 1] => hasta[i] = g[i]
  BY <1>2, <1>3
<1>5. \A i \in 0..Len(s) : hasta[i] = g[i]
  BY <1>4, PasoAPaso
<1> QED
  BY <1>1, <1>5

(* The bytes of a word. *)
LEMMA BytesBien ==
    ASSUME NEW n \in Nat
    PROVE  Bytes(n) \in Seq(Octetos) /\ Len(Bytes(n)) = Ancho
<1>1. Ancho \in Nat \ {0} /\ Byte \in Nat \ {0}
  BY PaquetesAssumption
<1>2. \A x \in Nat, y \in Nat \ {0} : (x \div y) \in Nat
  OBVIOUS
<1>3. \A x \in Nat : x % Byte \in Octetos
  BY <1>1 DEF Octetos
<1>4. ASSUME NEW i \in 1..Ancho
      PROVE  (n \div Peso[i - 1]) % Byte \in Octetos
  <2>1. i - 1 \in 0..Ancho
    BY <1>1
  <2>2. Peso[i - 1] \in Nat \ {0}
    BY <2>1, Pesos
  <2> QED
    BY <1>2, <1>3, <2>2
<1>5. Bytes(n) \in [1..Ancho -> Octetos]
  BY <1>4 DEF Bytes
<1>6. Bytes(n) \in Seq(Octetos)
  BY <1>1, <1>5, SeqDef
<1>7. Len(Bytes(n)) = Ancho
  BY <1>1, <1>5, <1>6, LenProperties
<1> QED
  BY <1>6, <1>7

(* A number that fits in a word comes back from its bytes (buffer.c:31,    *)
(* buffer.c:35).                                                           *)
LEMMA PalabraDeBytes ==
    ASSUME NEW n \in Enteros
    PROVE  Palabra(Bytes(n)) = n
<1>1. /\ Ancho \in Nat \ {0} /\ Byte \in Nat \ {0} /\ Peso[Ancho] \in Nat \ {0}
      /\ n \in Nat /\ n < Peso[Ancho]
  <2>1. Ancho \in Nat \ {0} /\ Byte \in Nat \ {0}
    BY PaquetesAssumption
  <2>2. Peso[Ancho] \in Nat \ {0}
    BY <2>1, Pesos
  <2> QED
    BY <2>1, <2>2 DEF Enteros
<1> DEFINE b == Bytes(n)
           g == [i \in 0..Ancho |-> n - (n \div Peso[i]) * Peso[i]]
<1>2. Len(b) = Ancho /\ \A i \in 1..Ancho : b[i] = (n \div Peso[i - 1]) % Byte
  BY <1>1, BytesBien DEF Bytes
<1> HIDE DEF b
<1>3. g[0] = 0
  <2>1. g[0] = n - (n \div Peso[0]) * Peso[0]
    BY <1>1
  <2>2. n - (n \div 1) * 1 = 0
    BY <1>1
  <2> QED
    BY <2>1, <2>2, Pesos
<1>4. ASSUME NEW i \in 1..Ancho
      PROVE  g[i] = g[i - 1] + b[i] * Peso[i - 1]
  <2>1. i - 1 \in 0..Ancho /\ i \in 0..Ancho
    BY <1>1
  <2>2. PICK p : p = Peso[i - 1]
    OBVIOUS
  <2>3. p \in Nat \ {0} /\ Peso[i] = Byte * p
    BY <2>1, <2>2, Pesos
  <2>4. PICK m : m = Byte * p
    OBVIOUS
  <2>5. PICK q : q = n \div p
    OBVIOUS
  <2>6. PICK u : u = q \div Byte
    OBVIOUS
  <2>7. PICK v : v = q % Byte
    OBVIOUS
  <2>8. PICK w : w = n \div m
    OBVIOUS
  <2>9. m \in Nat \ {0}
    BY <1>1, <2>3, <2>4
  <2>10. q \in Nat /\ u \in Nat /\ v \in Nat /\ v < Byte /\ q = Byte * u + v /\ u = w
    <3>1. PICK r \in Nat : r < p /\ n = p * q + r
      BY <1>1, <2>3, <2>5, Division
    <3>2. PICK x \in Nat : x < m /\ n = m * w + x
      BY <1>1, <2>8, <2>9, Division
    <3>3. q \in Nat /\ w \in Nat
      BY <1>1, <2>3, <2>5, <2>8, <2>9, Division
    <3>4. u \in Nat /\ v \in Nat /\ v < Byte /\ q = Byte * u + v
      BY <1>1, <2>6, <2>7, <3>3, Division
    <3>5. p * q + r = m * w + x
      BY <3>1, <3>2
    <3>6. u = w
      BY <1>1, <2>3, <2>4, <3>1, <3>2, <3>3, <3>4, <3>5, DividirDosVeces
    <3> QED
      BY <3>3, <3>4, <3>6
  <2>11. q * p = u * m + v * p
    <3>1. \A e, f, g1, h \in Int : (e * f + g1) * h = f * (e * h) + g1 * h
      OBVIOUS
    <3> QED
      BY <1>1, <2>3, <2>4, <2>10, <3>1
  <2>12. q * p \in Int /\ u * m \in Int /\ v * p \in Int
    BY <2>3, <2>9, <2>10
  <2>13. n - u * m = (n - q * p) + v * p
    BY <1>1, <2>11, <2>12
  <2>14. g[i] = n - u * m /\ g[i - 1] = n - q * p /\ b[i] = v
    BY <1>2, <2>1, <2>2, <2>3, <2>4, <2>5, <2>7, <2>8, <2>10
  <2> QED
    BY <2>2, <2>13, <2>14
<1>5. SumaBytes(b, g)
  <2>1. g = [i \in 0..Ancho |-> g[i]]
    OBVIOUS
  <2> HIDE DEF g
  <2>2. \A i \in 0..Ancho : g[i] = IF i = 0 THEN 0 ELSE g[i - 1] + b[i] * Peso[i - 1]
    BY <1>1, <1>3, <1>4
  <2>3. g = [i \in 0..Ancho |-> IF i = 0 THEN 0 ELSE g[i - 1] + b[i] * Peso[i - 1]]
    BY <2>1, <2>2
  <2> QED
    BY <1>2, <2>3 DEF SumaBytes
<1>6. g[Ancho] = n
  <2>1. n \div Peso[Ancho] = 0
    BY <1>1
  <2>2. g[Ancho] = n - (n \div Peso[Ancho]) * Peso[Ancho]
    BY <1>1
  <2> QED
    BY <1>1, <2>1, <2>2
<1> HIDE DEF g
<1>7. Palabra(b) = g[Len(b)]
  BY <1>1, <1>2, <1>5, PalabraDe
<1> QED
  BY <1>2, <1>6, <1>7 DEF b
-----------------------------------------------------------------------------
(* Buffers. *)

(* The length of two streams in a row.                                     *)
LEMMA Unidos ==
    ASSUME NEW s \in Seq(Octetos), NEW t \in Seq(Octetos)
    PROVE  s \o t \in Seq(Octetos) /\ Len(s \o t) = Len(s) + Len(t)
  OBVIOUS

(* At an offset of a stream there is m.                                    *)
Contiene(bytes, offset, m) ==
    /\ offset \in Nat
    /\ offset + Len(m) <= Len(bytes)
    /\ \A k \in 1..Len(m) : bytes[offset + k] = m[k]

(* buffer_read gives what is at the offset (buffer.c:25).                  *)
LEMMA LeidosAhi ==
    ASSUME NEW bytes \in Seq(Octetos), NEW offset, NEW m \in Seq(Octetos),
           Contiene(bytes, offset, m), NEW n, n = Len(m)
    PROVE  Leidos(bytes, offset, n) = m
<1>1. /\ offset \in Nat /\ offset + n <= Len(bytes)
      /\ \A k \in 1..n : bytes[offset + k] = m[k]
  BY DEF Contiene
<1>2. n \in Nat /\ Len(bytes) \in Nat
  OBVIOUS
<1>3. \A k \in 1..n : offset + k <= Len(bytes)
  BY <1>1, <1>2
<1>4. Leidos(bytes, offset, n) = [k \in 1..n |-> m[k]]
  BY <1>1, <1>3 DEF Leidos
<1>5. m = [k \in 1..n |-> m[k]]
  BY LenProperties, SeqDef
<1> QED
  BY <1>4, <1>5

(* What is at an offset is still there after adding more.                  *)
LEMMA ContieneDespues ==
    ASSUME NEW bytes \in Seq(Octetos), NEW z \in Seq(Octetos), NEW offset,
           NEW m \in Seq(Octetos), Contiene(bytes, offset, m)
    PROVE  Contiene(bytes \o z, offset, m)
<1>1. /\ Len(bytes) \in Nat /\ Len(z) \in Nat /\ Len(m) \in Nat
      /\ Len(bytes \o z) = Len(bytes) + Len(z)
  OBVIOUS
<1>2. \A i \in 1..Len(bytes) : (bytes \o z)[i] = bytes[i]
  OBVIOUS
<1>3. /\ offset \in Nat /\ offset + Len(m) <= Len(bytes)
      /\ \A k \in 1..Len(m) : bytes[offset + k] = m[k]
  BY DEF Contiene
<1>4. \A k \in 1..Len(m) : offset + k \in 1..Len(bytes)
  BY <1>1, <1>3
<1> QED
  BY <1>1, <1>2, <1>3, <1>4 DEF Contiene

(* What is added is at the end.                                            *)
LEMMA ContieneAgregado ==
    ASSUME NEW bytes \in Seq(Octetos), NEW m \in Seq(Octetos)
    PROVE  Contiene(bytes \o m, Len(bytes), m)
<1>1. Len(bytes) \in Nat /\ Len(m) \in Nat /\ Len(bytes \o m) = Len(bytes) + Len(m)
  OBVIOUS
<1>2. \A k \in 1..Len(m) : (bytes \o m)[Len(bytes) + k] = m[k]
  OBVIOUS
<1> QED
  BY <1>1, <1>2 DEF Contiene

(* Two things in a row.                                                    *)
LEMMA ContienePartes ==
    ASSUME NEW bytes \in Seq(Octetos), NEW offset, NEW m \in Seq(Octetos), NEW n \in Seq(Octetos),
           Contiene(bytes, offset, m \o n)
    PROVE  Contiene(bytes, offset, m) /\ Contiene(bytes, offset + Len(m), n)
<1>1. Len(bytes) \in Nat /\ Len(m) \in Nat /\ Len(n) \in Nat /\ Len(m \o n) = Len(m) + Len(n)
  OBVIOUS
<1>2. \A k \in 1..Len(m) : (m \o n)[k] = m[k]
  OBVIOUS
<1>3. \A k \in 1..Len(n) : (m \o n)[Len(m) + k] = n[k]
  OBVIOUS
<1>4. /\ offset \in Nat /\ offset + Len(m \o n) <= Len(bytes)
      /\ \A k \in 1..Len(m \o n) : bytes[offset + k] = (m \o n)[k]
  BY DEF Contiene
<1>5. \A k \in 1..Len(m) : k \in 1..Len(m \o n)
  BY <1>1
<1>6. Contiene(bytes, offset, m)
  BY <1>1, <1>2, <1>4, <1>5 DEF Contiene
<1>7. \A k \in 1..Len(n) :
        Len(m) + k \in 1..Len(m \o n) /\ offset + (Len(m) + k) = (offset + Len(m)) + k
  BY <1>1, <1>4
<1>8. \A k \in 1..Len(n) : bytes[(offset + Len(m)) + k] = n[k]
  <2> TAKE k \in 1..Len(n)
  <2>1. bytes[offset + (Len(m) + k)] = (m \o n)[Len(m) + k]
    BY <1>4, <1>7
  <2> QED
    BY <1>3, <1>7, <2>1
<1>9. Contiene(bytes, offset + Len(m), n)
  BY <1>1, <1>4, <1>8 DEF Contiene
<1> QED
  BY <1>6, <1>9

(* A word is read as it was written.                                       *)
LEMMA PalabraAhi ==
    ASSUME NEW bytes \in Seq(Octetos), NEW offset, NEW n \in Enteros,
           Contiene(bytes, offset, Bytes(n))
    PROVE  buffer_read_uint32(bytes, offset) = n
<1>1. n \in Nat
  <2>1. Peso[Ancho] \in Nat
    BY Pesos, PaquetesAssumption
  <2> QED
    BY <2>1 DEF Enteros
<1>2. Bytes(n) \in Seq(Octetos) /\ Ancho = Len(Bytes(n))
  BY <1>1, BytesBien
<1>3. Leidos(bytes, offset, Ancho) = Bytes(n)
  BY <1>2, LeidosAhi
<1> QED
  BY <1>3, PalabraDeBytes DEF buffer_read_uint32

-----------------------------------------------------------------------------
(* Fields. *)

(* The data that a field can carry.                                        *)
Cabe(campo, d) ==
    /\ campo \in Textos => d[campo] \in Seq(Octetos) /\ Len(d[campo]) \in Enteros
    /\ campo = "contenido" => /\ d[campo] \in Seq(Octetos) /\ Len(d[campo]) = d.tamanio
                              /\ d.tamanio \in Enteros
    /\ campo \notin Textos \cup {"contenido"} => d[campo] \in Enteros

(* The bytes of a field.                                                   *)
Aporte(campo, d) ==
    IF campo \in Textos THEN Bytes(Len(d[campo])) \o d[campo]
    ELSE IF campo = "contenido" THEN d[campo]
    ELSE Bytes(d[campo])

Buffers == [size : Nat, stream : Seq(Octetos), offset : Nat]

(* How many bytes a field takes.                                           *)
TamanioCampo(campo, d) ==
    IF campo \in Textos THEN Ancho + Len(d[campo])
    ELSE IF campo = "contenido" THEN d.tamanio
    ELSE Ancho

(* What a word holds are naturals, and a word has bytes.                   *)
LEMMA EnterosNaturales == Enteros \subseteq Nat /\ Ancho \in Nat \ {0}
<1>1. Ancho \in Nat \ {0}
  BY PaquetesAssumption
<1>2. Peso[Ancho] \in Nat
  BY <1>1, Pesos
<1> QED
  BY <1>1, <1>2 DEF Enteros

(* A field takes the bytes that are added for it.                          *)
LEMMA AporteBien ==
    ASSUME NEW campo, NEW d, Cabe(campo, d)
    PROVE  Aporte(campo, d) \in Seq(Octetos) /\ Len(Aporte(campo, d)) = TamanioCampo(campo, d)
<1>0. "contenido" \notin Textos
  BY DEF Textos
<1>1. CASE campo \in Textos
  <2>1. PICK v : v = d[campo]
    OBVIOUS
  <2>2. v \in Seq(Octetos) /\ Len(v) \in Nat
    BY <1>1, <2>1 DEF Cabe
  <2>3. PICK w : w = Bytes(Len(v))
    OBVIOUS
  <2>4. w \in Seq(Octetos) /\ Len(w) = Ancho
    BY <2>2, <2>3, BytesBien
  <2>5. Aporte(campo, d) = w \o v
    BY <1>1, <2>1, <2>3 DEF Aporte
  <2>6. TamanioCampo(campo, d) = Ancho + Len(v)
    BY <1>1, <1>0, <2>1 DEF TamanioCampo
  <2>7. w \o v \in Seq(Octetos) /\ Len(w \o v) = Len(w) + Len(v)
    BY <2>2, <2>4
  <2> QED
    BY <2>4, <2>5, <2>6, <2>7
<1>2. CASE campo = "contenido"
  <2>1. TamanioCampo(campo, d) = d.tamanio
    BY <1>2, <1>0 DEF TamanioCampo
  <2> QED
    BY <1>2, <1>0, <2>1 DEF Cabe, Aporte
<1>3. CASE campo \notin Textos \cup {"contenido"}
  <2>1. d[campo] \in Nat
    BY <1>3, EnterosNaturales DEF Cabe
  <2>2. TamanioCampo(campo, d) = Ancho /\ Aporte(campo, d) = Bytes(d[campo])
    BY <1>3 DEF TamanioCampo, Aporte
  <2> QED
    BY <2>1, <2>2, BytesBien
<1> QED
  BY <1>1, <1>2, <1>3

(* What AgregarCampo does to a buffer (buffer.c:19, buffer.c:41).          *)
LEMMA Agregado ==
    ASSUME NEW campo, NEW d, Cabe(campo, d), NEW b \in Buffers
    PROVE  LET c == AgregarCampo(b, campo, d)
           IN  /\ c \in Buffers /\ c.size = b.size
               /\ c.stream = b.stream \o Aporte(campo, d)
               /\ c.offset = b.offset + Len(Aporte(campo, d))
<1>0. "contenido" \notin Textos /\ b.stream \in Seq(Octetos) /\ b.offset \in Nat /\ b.size \in Nat
  BY DEF Textos, Buffers
<1>1. \A s \in Seq(Octetos) :
          /\ buffer_add(b, s) = [b EXCEPT !.stream = b.stream \o s, !.offset = b.offset + Len(s)]
          /\ buffer_add(b, s) \in Buffers
          /\ buffer_add(b, s).size = b.size /\ buffer_add(b, s).stream = b.stream \o s
          /\ buffer_add(b, s).offset = b.offset + Len(s)
  <2> SUFFICES ASSUME NEW s \in Seq(Octetos)
               PROVE  /\ buffer_add(b, s)
                           = [b EXCEPT !.stream = b.stream \o s, !.offset = b.offset + Len(s)]
                      /\ buffer_add(b, s) \in Buffers
                      /\ buffer_add(b, s).size = b.size /\ buffer_add(b, s).stream = b.stream \o s
                      /\ buffer_add(b, s).offset = b.offset + Len(s)
    OBVIOUS
  <2>1. b.stream \o s \in Seq(Octetos) /\ b.offset + Len(s) \in Nat
    BY <1>0
  <2>2. buffer_add(b, s) = [b EXCEPT !.stream = b.stream \o s, !.offset = b.offset + Len(s)]
    BY DEF buffer_add
  <2> QED
    BY <2>1, <2>2 DEF Buffers
<1>2. CASE campo \in Textos
  <2>1. PICK v : v = d[campo]
    OBVIOUS
  <2>2. v \in Seq(Octetos) /\ Len(v) \in Nat
    BY <1>2, <2>1 DEF Cabe
  <2>3. PICK w : w = Bytes(Len(v))
    OBVIOUS
  <2>4. w \in Seq(Octetos) /\ Len(w) \in Nat
    BY <2>2, <2>3, BytesBien, EnterosNaturales
  <2>5. PICK a : a = buffer_add(b, w)
    OBVIOUS
  <2>6. /\ a \in Buffers /\ a.size = b.size /\ a.stream = b.stream \o w
        /\ a.offset = b.offset + Len(w)
    BY <1>1, <2>4, <2>5
  <2>7. AgregarCampo(b, campo, d)
          = [a EXCEPT !.stream = a.stream \o v, !.offset = a.offset + Len(v)]
    BY <1>2, <1>0, <2>1, <2>3, <2>5
    DEF AgregarCampo, buffer_add_string, buffer_add_uint32, buffer_add
  <2>8. PICK s : s = b.stream
    OBVIOUS
  <2>9. PICK m : m = w \o v
    OBVIOUS
  <2>10. m \in Seq(Octetos) /\ Len(m) = Len(w) + Len(v) /\ (s \o w) \o v = s \o m
    <3>1. s \in Seq(Octetos)
      BY <1>0, <2>8
    <3>2. (s \o w) \o v = s \o (w \o v)
      BY <2>2, <2>4, <3>1, ConcatAssociative
    <3> QED
      BY <2>2, <2>4, <2>9, <3>2
  <2>11. /\ a.stream = s \o w /\ s \o m \in Seq(Octetos) /\ a.offset \in Nat
         /\ a.offset + Len(v) = b.offset + Len(m) /\ b.offset + Len(m) \in Nat
    BY <1>0, <2>2, <2>4, <2>6, <2>8, <2>10 DEF Buffers
  <2>12. PICK o : o = b.offset + Len(m)
    OBVIOUS
  <2>13. PICK t : t = s \o m
    OBVIOUS
  <2>14. PICK c : c = AgregarCampo(b, campo, d)
    OBVIOUS
  <2>15. c = [a EXCEPT !.stream = t, !.offset = o]
    BY <2>7, <2>10, <2>11, <2>12, <2>13, <2>14
  <2>16. t \in Seq(Octetos) /\ o \in Nat /\ a \in Buffers /\ a.size = b.size
    BY <2>6, <2>11, <2>12, <2>13
  <2>17. c \in Buffers /\ c.size = b.size /\ c.stream = t /\ c.offset = o
    BY <2>15, <2>16 DEF Buffers
  <2>18. Aporte(campo, d) = m
    BY <1>2, <2>1, <2>3, <2>9 DEF Aporte
  <2> QED
    BY <2>8, <2>12, <2>13, <2>14, <2>17, <2>18
<1>3. CASE campo = "contenido"
  <2>1. AgregarCampo(b, campo, d) = buffer_add(b, d[campo]) /\ Aporte(campo, d) = d[campo]
    BY <1>3, <1>0 DEF AgregarCampo, Aporte
  <2> QED
    BY <1>1, <1>3, <2>1 DEF Cabe
<1>4. CASE campo \notin Textos \cup {"contenido"}
  <2>1. d[campo] \in Nat
    BY <1>4, EnterosNaturales DEF Cabe
  <2>2. /\ AgregarCampo(b, campo, d) = buffer_add(b, Bytes(d[campo]))
        /\ Aporte(campo, d) = Bytes(d[campo])
    BY <1>4 DEF AgregarCampo, Aporte, buffer_add_uint32
  <2> QED
    BY <1>1, <2>1, <2>2, BytesBien
<1> QED
  BY <1>2, <1>3, <1>4

(* A field is read as it was written, and the read moves past it; the      *)
(* length of the content of a dump is the word before it.                  *)
LEMMA CampoLeido ==
    ASSUME NEW campo, NEW d, Cabe(campo, d), NEW bytes \in Seq(Octetos), NEW offset,
           Contiene(bytes, offset, Aporte(campo, d)),
           campo = "contenido" => Contiene(bytes, offset - Ancho, Bytes(d.tamanio))
    PROVE  /\ OcupaCampo(campo, bytes, offset) = Len(Aporte(campo, d))
           /\ LeerCampo(campo, bytes, offset) = d[campo]
<1>0. "contenido" \notin Textos
  BY DEF Textos
<1>1. CASE campo \in Textos
  <2>1. PICK v : v = d[campo]
    OBVIOUS
  <2>2. v \in Seq(Octetos) /\ Len(v) \in Enteros /\ Len(v) \in Nat
    BY <1>1, <2>1 DEF Cabe
  <2>3. Bytes(Len(v)) \in Seq(Octetos) /\ Len(Bytes(Len(v))) = Ancho
    BY <2>2, BytesBien
  <2>4. Aporte(campo, d) = Bytes(Len(v)) \o v
    BY <1>1, <2>1 DEF Aporte
  <2>5. Contiene(bytes, offset, Bytes(Len(v))) /\ Contiene(bytes, offset + Ancho, v)
    BY <2>2, <2>3, <2>4, ContienePartes
  <2>6. buffer_read_uint32(bytes, offset) = Len(v)
    BY <2>2, <2>5, PalabraAhi
  <2>7. Leidos(bytes, offset + Ancho, Len(v)) = v
    BY <2>2, <2>5, LeidosAhi
  <2>8. Len(Bytes(Len(v)) \o v) = Ancho + Len(v)
    BY <2>2, <2>3
  <2>9. OcupaCampo(campo, bytes, offset) = Ancho + Len(v)
    BY <1>1, <1>0, <2>6 DEF OcupaCampo
  <2>10. LeerCampo(campo, bytes, offset) = v
    BY <1>1, <1>0, <2>6, <2>7 DEF LeerCampo, buffer_read_string
  <2> QED
    BY <2>1, <2>4, <2>8, <2>9, <2>10
<1>2. CASE campo = "contenido"
  <2>1. PICK v : v = d[campo]
    OBVIOUS
  <2>2. v \in Seq(Octetos) /\ Len(v) = d.tamanio /\ d.tamanio \in Enteros /\ Aporte(campo, d) = v
    BY <1>2, <1>0, <2>1 DEF Cabe, Aporte
  <2>3. buffer_read_uint32(bytes, offset - Ancho) = Len(v)
    BY <1>2, <2>2, PalabraAhi
  <2>4. Leidos(bytes, offset, Len(v)) = v
    BY <2>2, LeidosAhi
  <2>5. OcupaCampo(campo, bytes, offset) = Len(v)
    BY <1>2, <1>0, <2>3 DEF OcupaCampo
  <2>6. LeerCampo(campo, bytes, offset) = v
    BY <1>2, <1>0, <2>3, <2>4 DEF LeerCampo
  <2> QED
    BY <2>1, <2>2, <2>5, <2>6
<1>3. CASE campo \notin Textos \cup {"contenido"}
  <2>1. d[campo] \in Enteros /\ d[campo] \in Nat
    BY <1>3, EnterosNaturales DEF Cabe
  <2>2. Aporte(campo, d) = Bytes(d[campo]) /\ Len(Bytes(d[campo])) = Ancho
    BY <1>3, <2>1, BytesBien DEF Aporte
  <2>3. buffer_read_uint32(bytes, offset) = d[campo]
    BY <2>1, <2>2, PalabraAhi
  <2> QED
    BY <1>3, <2>2, <2>3 DEF OcupaCampo, LeerCampo
<1> QED
  BY <1>1, <1>2, <1>3
-----------------------------------------------------------------------------
(* Messages: what a serialiser writes, a deserialiser reads back.          *)

(* The fields are different, and a content comes after its size.           *)
Formato(campos) ==
    /\ Len(campos) \in Nat /\ DOMAIN campos = 1..Len(campos)
    /\ \A i, j \in 1..Len(campos) : campos[i] = campos[j] => i = j
    /\ \A i \in 1..Len(campos) : campos[i] = "contenido" => i > 1 /\ campos[i - 1] = "tamanio"

(* Everything that can be sent fits in its field.                          *)
LEMMA EnviableCabe ==
    ASSUME NEW campos, Formato(campos), NEW d, Enviable(campos, d)
    PROVE  \A i \in 1..Len(campos) : Cabe(campos[i], d)
<1>0. "contenido" \notin Textos /\ "tamanio" \notin Textos \cup {"contenido"}
  BY DEF Textos
<1>1. Len(campos) \in Nat /\ DOMAIN campos = 1..Len(campos)
  BY DEF Formato
<1>2. \A i \in 1..Len(campos) : campos[i] \in ToSet(campos)
  BY <1>1 DEF ToSet
<1>3. ASSUME NEW c \in ToSet(campos)
      PROVE  /\ c \in Textos => d[c] \in Seq(Octetos) /\ Len(d[c]) \in Enteros
             /\ c = "contenido" => d[c] \in Seq(Octetos) /\ Len(d[c]) = d.tamanio
             /\ c \notin Textos \cup {"contenido"} => d[c] \in Enteros
  <2>1. (CASE c \in Textos   -> d[c] \in Seq(Octetos) /\ Len(d[c]) \in Enteros
           [] c = "contenido" -> d[c] \in Seq(Octetos) /\ Len(d[c]) = d.tamanio
           [] OTHER           -> d[c] \in Enteros)
    BY DEF Enviable
  <2>2. ASSUME c \in Textos PROVE d[c] \in Seq(Octetos) /\ Len(d[c]) \in Enteros
    BY <1>0, <2>1, <2>2
  <2>3. ASSUME c = "contenido" PROVE d[c] \in Seq(Octetos) /\ Len(d[c]) = d.tamanio
    BY <1>0, <2>1, <2>3
  <2>4. ASSUME c \notin Textos \cup {"contenido"} PROVE d[c] \in Enteros
    BY <2>1, <2>4
  <2> QED
    BY <2>2, <2>3, <2>4
<1> SUFFICES ASSUME NEW i \in 1..Len(campos)
             PROVE  Cabe(campos[i], d)
  OBVIOUS
<1>4. PICK c : c = campos[i]
  OBVIOUS
<1>5. c \in ToSet(campos)
  BY <1>2, <1>4
<1>6. CASE c \in Textos
  <2>1. d[c] \in Seq(Octetos) /\ Len(d[c]) \in Enteros
    BY <1>3, <1>5, <1>6
  <2> QED
    BY <1>0, <1>4, <1>6, <2>1 DEF Cabe
<1>7. CASE c = "contenido"
  <2>1. d[c] \in Seq(Octetos) /\ Len(d[c]) = d.tamanio
    BY <1>0, <1>3, <1>5, <1>7
  <2>2. i - 1 \in 1..Len(campos) /\ campos[i - 1] = "tamanio"
    <3>1. i > 1 /\ campos[i - 1] = "tamanio"
      BY <1>4, <1>7 DEF Formato
    <3> QED
      BY <1>1, <3>1
  <2>3. "tamanio" \in ToSet(campos)
    BY <1>2, <2>2
  <2>4. d["tamanio"] \in Enteros
    BY <1>0, <1>3, <2>3
  <2> QED
    BY <1>0, <1>4, <1>7, <2>1, <2>4 DEF Cabe
<1>8. CASE c \notin Textos \cup {"contenido"}
  <2>1. d[c] \in Enteros
    BY <1>3, <1>5, <1>8
  <2> QED
    BY <1>4, <1>8, <2>1 DEF Cabe
<1> QED
  BY <1>6, <1>7, <1>8

(* The functions that the loops over the fields compute.                   *)
SerieCampos(campos, n, d, g) ==
    g = [i \in 0..Len(campos) |-> IF i = 0 THEN buffer_create(n)
                                  ELSE AgregarCampo(g[i - 1], campos[i], d)]

LecturaCampos(campos, bytes, g) ==
    g = [i \in 0..Len(campos) |-> IF i = 0 THEN 0
                                  ELSE g[i - 1] + OcupaCampo(campos[i], bytes, g[i - 1])]

(* Any such function is the one of Serializar.                             *)
LEMMA SerializarDe ==
    ASSUME NEW campos, Len(campos) \in Nat, NEW n, NEW d, NEW g, SerieCampos(campos, n, d, g)
    PROVE  Serializar(campos, n, d) = g[Len(campos)]
<1> DEFINE hasta == CHOOSE h : SerieCampos(campos, n, d, h)
<1>1. Serializar(campos, n, d) = hasta[Len(campos)]
  <2>1. Serializar(campos, n, d) = LET f == CHOOSE h : h = [i \in 0..Len(campos) |->
                            IF i = 0 THEN buffer_create(n)
                            ELSE AgregarCampo(h[i - 1], campos[i], d)]
                     IN  f[Len(campos)]
    BY Zenon DEF Serializar
  <2> QED
    BY <2>1, Zenon DEF SerieCampos
<1>2. SerieCampos(campos, n, d, hasta)
  BY Zenon
<1> HIDE DEF hasta
<1>3. \A h : SerieCampos(campos, n, d, h) =>
          \A i \in 0..Len(campos) :
              h[i] = IF i = 0 THEN buffer_create(n)
                     ELSE AgregarCampo(h[i - 1], campos[i], d)
  BY Zenon DEF SerieCampos
<1>4. /\ hasta[0] = g[0]
      /\ \A i \in 1..Len(campos) : hasta[i - 1] = g[i - 1] => hasta[i] = g[i]
  BY <1>2, <1>3
<1>5. \A i \in 0..Len(campos) : hasta[i] = g[i]
  BY ZenonT(40), <1>4, PasoAPaso
<1> QED
  BY <1>1, <1>5

(* And the one of Deserializar.                                            *)
Extraido(campos, bytes, f) ==
    [offset |-> f[Len(campos)],
     datos  |-> [c \in ToSet(campos) |->
        LeerCampo(c, bytes, f[(CHOOSE i \in DOMAIN campos : campos[i] = c) - 1])]]

(* What is read is what any function that goes on so gives.                *)
LEMMA DeserializarDe ==
    ASSUME NEW campos, Len(campos) \in Nat, NEW bytes, NEW g, LecturaCampos(campos, bytes, g)
    PROVE  Deserializar(campos, bytes) = Extraido(campos, bytes, g)
<1> DEFINE hasta == CHOOSE h : LecturaCampos(campos, bytes, h)
<1>1. Deserializar(campos, bytes) = Extraido(campos, bytes, hasta)
  <2>1. Deserializar(campos, bytes) =
            LET f == CHOOSE h : h = [i \in 0..Len(campos) |->
                            IF i = 0 THEN 0
                            ELSE h[i - 1] + OcupaCampo(campos[i], bytes, h[i - 1])]
                posicion(c) == CHOOSE i \in DOMAIN campos : campos[i] = c
            IN  [offset |-> f[Len(campos)],
                 datos  |-> [c \in ToSet(campos) |-> LeerCampo(c, bytes, f[posicion(c) - 1])]]
    BY Zenon DEF Deserializar
  <2> QED
    BY <2>1, Zenon DEF LecturaCampos, Extraido
<1>2. LecturaCampos(campos, bytes, hasta)
  BY Zenon
<1> HIDE DEF hasta
<1>3. \A h : LecturaCampos(campos, bytes, h) =>
          \A i \in 0..Len(campos) :
              h[i] = IF i = 0 THEN 0 ELSE h[i - 1] + OcupaCampo(campos[i], bytes, h[i - 1])
  BY Zenon DEF LecturaCampos
<1>4. /\ hasta[0] = g[0]
      /\ \A i \in 1..Len(campos) : hasta[i - 1] = g[i - 1] => hasta[i] = g[i]
  BY <1>2, <1>3
<1>5. \A i \in 0..Len(campos) : hasta[i] = g[i]
  BY ZenonT(40), <1>4, PasoAPaso
<1>6. hasta = g
  <2>1. hasta = [i \in 0..Len(campos) |-> hasta[i]] /\ g = [i \in 0..Len(campos) |-> g[i]]
    <3>1. \A h : LecturaCampos(campos, bytes, h) => h = [i \in 0..Len(campos) |-> h[i]]
      <4> SUFFICES ASSUME NEW h, LecturaCampos(campos, bytes, h)
                   PROVE  h = [i \in 0..Len(campos) |-> h[i]]
        OBVIOUS
      <4> DEFINE v == [i \in 0..Len(campos) |-> IF i = 0 THEN 0
                                  ELSE h[i - 1] + OcupaCampo(campos[i], bytes, h[i - 1])]
      <4>1. h = v
        BY DEF LecturaCampos
      <4>2. v = [i \in 0..Len(campos) |-> v[i]]
        OBVIOUS
      <4> HIDE DEF v
      <4> QED
        BY <4>1, <4>2
    <3> QED
      BY <1>2, <3>1
  <2> QED
    BY <1>5, <2>1
<1> QED
  BY <1>1, <1>6

(* The buffer after each field.                                            *)
EnSerie(campos, n, d, h) ==
    /\ \A i \in 0..Len(campos) : h[i] \in Buffers /\ h[i].size = n
    /\ h[0].stream = <<>> /\ h[0].offset = 0
    /\ \A i \in 1..Len(campos) :
          /\ h[i].stream = h[i - 1].stream \o Aporte(campos[i], d)
          /\ h[i].offset = h[i - 1].offset + Len(Aporte(campos[i], d))

(* Serializar adds the bytes of each field after those of the others.      *)
LEMMA Serie ==
    ASSUME NEW campos, Formato(campos), NEW d, Enviable(campos, d), NEW T \in Nat
    PROVE  \E h : SerieCampos(campos, T, d, h) /\ EnSerie(campos, T, d, h)
<1>1. PICK N : N = Len(campos)
  OBVIOUS
<1>3. N \in Nat /\ T \in Nat /\ \A i \in 1..N : Cabe(campos[i], d)
  <2>1. N \in Nat
    BY <1>1 DEF Formato
  <2> QED
    BY <1>1, <2>1, EnviableCabe
<1> DEFINE V == {b \in Buffers : b.size = T}
           paso == [b \in V |-> [i \in Nat |->
                        IF i \in 1..N THEN AgregarCampo(b, campos[i], d) ELSE b]]
<1>4. buffer_create(T) \in V /\ buffer_create(T).stream = <<>> /\ buffer_create(T).offset = 0
  <2>1. <<>> \in Seq(Octetos)
    OBVIOUS
  <2> QED
    BY <1>3, <2>1 DEF buffer_create, Buffers
<1>5. ASSUME NEW b \in V, NEW i \in 1..N
      PROVE  /\ AgregarCampo(b, campos[i], d) \in V
             /\ AgregarCampo(b, campos[i], d).stream = b.stream \o Aporte(campos[i], d)
             /\ AgregarCampo(b, campos[i], d).offset = b.offset + Len(Aporte(campos[i], d))
  <2>1. Cabe(campos[i], d) /\ b \in Buffers /\ b.size = T
    BY <1>3
  <2>2. LET c == AgregarCampo(b, campos[i], d)
        IN  /\ c \in Buffers /\ c.size = b.size
            /\ c.stream = b.stream \o Aporte(campos[i], d)
            /\ c.offset = b.offset + Len(Aporte(campos[i], d))
    BY <2>1, Agregado
  <2> QED
    BY <2>1, <2>2
<1>6. paso \in [V -> [Nat -> V]]
  BY <1>5
<1>7. \A b \in V : \A i \in 1..N : paso[b][i] = AgregarCampo(b, campos[i], d)
  BY <1>3
<1>8. \A b \in V : b \in Buffers /\ b.size = T
  OBVIOUS
<1> HIDE DEF V, paso
<1>9. PICK f \in [0..N -> V] : f[0] = buffer_create(T) /\ \A i \in 1..N : f[i] = paso[f[i - 1]][i]
  <2>1. Iteradas(V, buffer_create(T), paso, N) # {}
    BY <1>3, <1>4, <1>6, Recurrencia
  <2>2. PICK f \in Iteradas(V, buffer_create(T), paso, N) : TRUE
    BY <2>1
  <2> QED
    BY <2>2 DEF Iteradas
<1>10. ASSUME NEW i \in 1..N
       PROVE  /\ f[i - 1] \in V /\ f[i] = AgregarCampo(f[i - 1], campos[i], d)
              /\ f[i].stream = f[i - 1].stream \o Aporte(campos[i], d)
              /\ f[i].offset = f[i - 1].offset + Len(Aporte(campos[i], d))
  <2>1. i - 1 \in 0..N
    BY <1>3
  <2>2. f[i - 1] \in V
    BY <1>9, <2>1
  <2>3. f[i] = AgregarCampo(f[i - 1], campos[i], d)
    BY <1>7, <1>9, <2>2
  <2> QED
    BY <1>5, <2>2, <2>3
<1>11. SerieCampos(campos, T, d, f)
  <2>1. \A i \in 0..N :
          f[i] = IF i = 0 THEN buffer_create(T) ELSE AgregarCampo(f[i - 1], campos[i], d)
    <3> SUFFICES ASSUME NEW i \in 0..N
                 PROVE  f[i] = IF i = 0 THEN buffer_create(T)
                               ELSE AgregarCampo(f[i - 1], campos[i], d)
      OBVIOUS
    <3>1. CASE i = 0
      BY <1>9, <3>1
    <3>2. CASE i # 0
      <4>1. i \in 1..N
        BY <1>3, <3>2
      <4> QED
        BY <1>10, <3>2, <4>1
    <3> QED
      BY <3>1, <3>2
  <2>2. f = [i \in 0..N |-> f[i]]
    BY <1>9
  <2>3. f = [i \in 0..N |->
               IF i = 0 THEN buffer_create(T) ELSE AgregarCampo(f[i - 1], campos[i], d)]
    BY <2>1, <2>2
  <2> QED
    BY <1>1, <2>3 DEF SerieCampos
<1>12. EnSerie(campos, T, d, f)
  <2>1. \A i \in 0..N : f[i] \in Buffers /\ f[i].size = T
    BY <1>8, <1>9
  <2> QED
    BY <1>1, <1>4, <1>9, <1>10, <2>1 DEF EnSerie
<1> QED
  BY <1>11, <1>12

(* After each field, those before are where they were put.                 *)
LEMMA EnSuLugar ==
    ASSUME NEW campos, Formato(campos), NEW d, Enviable(campos, d), NEW n, NEW h,
           EnSerie(campos, n, d, h)
    PROVE  \A m \in 0..Len(campos) :
              /\ h[m].offset = Len(h[m].stream)
              /\ \A i \in 1..m :
                        Contiene(h[m].stream, Len(h[i - 1].stream), Aporte(campos[i], d))
<1>1. PICK N : N = Len(campos)
  OBVIOUS
<1>2. N \in Nat /\ \A i \in 1..N : Aporte(campos[i], d) \in Seq(Octetos)
  <2>1. \A i \in 1..N : Cabe(campos[i], d)
    BY <1>1, EnviableCabe
  <2> QED
    BY <1>1, <2>1, AporteBien DEF Formato
<1>3. \A i \in 0..N : h[i].stream \in Seq(Octetos) /\ h[i].offset \in Nat
  BY <1>1 DEF EnSerie, Buffers
<1> DEFINE Q(m) == /\ h[m].offset = Len(h[m].stream)
                   /\ \A i \in 1..m :
                        Contiene(h[m].stream, Len(h[i - 1].stream), Aporte(campos[i], d))
           P == {m \in Nat : m <= N => Q(m)}
<1>4. 0 \in P
  <2>1. h[0].stream = <<>> /\ h[0].offset = 0
    BY DEF EnSerie
  <2> QED
    BY <2>1
<1>5. ASSUME NEW m \in Nat, m \in P
      PROVE  m + 1 \in P
  <2> SUFFICES ASSUME m + 1 <= N
               PROVE  Q(m + 1)
    OBVIOUS
  <2>1. PICK s : s = h[m].stream
    OBVIOUS
  <2>2. PICK a : a = Aporte(campos[m + 1], d)
    OBVIOUS
  <2>3. m + 1 \in 1..N /\ (m + 1) - 1 = m /\ m \in 0..N
    BY <1>2
  <2>4. s \in Seq(Octetos) /\ a \in Seq(Octetos)
    BY <1>2, <1>3, <2>1, <2>2, <2>3
  <2>5. h[m + 1].stream = s \o a /\ h[m + 1].offset = h[m].offset + Len(a)
    BY <1>1, <2>1, <2>2, <2>3 DEF EnSerie
  <2>6. /\ h[m].offset = Len(s)
        /\ \A i \in 1..m : Contiene(s, Len(h[i - 1].stream), Aporte(campos[i], d))
    BY <1>5, <2>1, <2>3
  <2>7. h[m + 1].offset = Len(h[m + 1].stream)
    BY <2>4, <2>5, <2>6
  <2>8. ASSUME NEW i \in 1..m + 1
        PROVE  Contiene(s \o a, Len(h[i - 1].stream), Aporte(campos[i], d))
    <3>1. CASE i = m + 1
      <4>1. Contiene(s \o a, Len(s), a)
        BY <2>4, ContieneAgregado
      <4> QED
        BY <2>1, <2>2, <2>3, <3>1, <4>1
    <3>2. CASE i # m + 1
      <4>1. i \in 1..m /\ i \in 1..N
        BY <1>2, <2>3, <3>2
      <4>2. Aporte(campos[i], d) \in Seq(Octetos)
        BY <1>2, <4>1
      <4>3. Contiene(s, Len(h[i - 1].stream), Aporte(campos[i], d))
        BY <2>6, <4>1
      <4> QED
        BY <2>4, <4>2, <4>3, ContieneDespues
    <3> QED
      BY <3>1, <3>2
  <2> QED
    BY <2>5, <2>7, <2>8
<1> HIDE DEF P, Q
<1>6. \A m \in Nat : m \in P
  BY <1>4, <1>5, Induccion
<1>7. \A m \in 0..N : Q(m)
  BY <1>2, <1>6 DEF P
<1> QED
  BY <1>1, <1>7 DEF Q

(* n is what the fields take, one after another.                           *)
Mide(campos, d, n) ==
    \A g \in [0..Len(campos) -> Nat] :
        /\ g[0] = 0
        /\ \A i \in 1..Len(campos) : g[i] = g[i - 1] + TamanioCampo(campos[i], d)
        => g[Len(campos)] = n

(* It is what is added to the buffer.                                      *)
LEMMA TamanioJusto ==
    ASSUME NEW campos, Formato(campos), NEW d, Enviable(campos, d), NEW n, Mide(campos, d, n),
           NEW h, EnSerie(campos, n, d, h)
    PROVE  n = Len(h[Len(campos)].stream)
<1>1. PICK N : N = Len(campos)
  OBVIOUS
<1>2. N \in Nat
  BY <1>1 DEF Formato
<1>3. \A i \in 0..N : h[i].stream \in Seq(Octetos)
  BY <1>1 DEF EnSerie, Buffers
<1> DEFINE g == [i \in 0..N |-> Len(h[i].stream)]
<1>4. ASSUME NEW i \in 1..N
      PROVE  g[i] = g[i - 1] + TamanioCampo(campos[i], d)
  <2>1. Cabe(campos[i], d)
    BY <1>1, EnviableCabe
  <2>2. PICK a : a = Aporte(campos[i], d)
    OBVIOUS
  <2>3. a \in Seq(Octetos) /\ Len(a) = TamanioCampo(campos[i], d)
    BY <2>1, <2>2, AporteBien
  <2>4. i - 1 \in 0..N /\ i \in 0..N
    BY <1>2
  <2>5. PICK s : s = h[i - 1].stream
    OBVIOUS
  <2>6. s \in Seq(Octetos) /\ h[i].stream = s \o a
    BY <1>1, <1>3, <2>2, <2>4, <2>5 DEF EnSerie
  <2>7. Len(s \o a) = Len(s) + Len(a)
    BY <2>3, <2>6, Unidos
  <2> QED
    BY <2>3, <2>4, <2>5, <2>6, <2>7
<1>5. g[0] = 0
  <2>1. h[0].stream = <<>>
    BY DEF EnSerie
  <2> QED
    BY <1>2, <2>1
<1>6. g \in [0..N -> Nat] /\ g[N] = Len(h[N].stream)
  BY <1>2, <1>3
<1> HIDE DEF g
<1>7. g[N] = n
  BY <1>1, <1>4, <1>5, <1>6 DEF Mide
<1> QED
  BY <1>1, <1>6, <1>7

(* What is written in a buffer of the size that its fields take fills it,  *)
(* and is read back by whoever reads the same fields.                      *)
LEMMA CamposFieles ==
    ASSUME NEW campos, Formato(campos), NEW d, Enviable(campos, d), NEW n \in Enteros,
           Mide(campos, d, n), NEW b, b = Serializar(campos, n, d)
    PROVE  /\ b.stream \in Seq(Octetos) /\ b.size = n
           /\ Len(b.stream) = b.size /\ b.offset = b.size
           /\ Deserializar(campos, b.stream) = [offset |-> b.size, datos |-> d]
<1>1. PICK N : N = Len(campos)
  OBVIOUS
<1>2. N \in Nat /\ DOMAIN campos = 1..N
  BY <1>1 DEF Formato
<1>3. PICK h : SerieCampos(campos, n, d, h) /\ EnSerie(campos, n, d, h)
  BY EnterosNaturales, Serie
<1>4. b = h[N]
  BY <1>1, <1>2, <1>3, SerializarDe
<1>5. \A i \in 0..N : h[i].stream \in Seq(Octetos) /\ h[i].size = n
  BY <1>1, <1>3 DEF EnSerie, Buffers
<1>6. b.stream \in Seq(Octetos) /\ b.size = n
  <2>1. N \in 0..N
    BY <1>2
  <2> QED
    BY <1>4, <1>5, <2>1
<1>7. Len(b.stream) = b.size
  BY <1>1, <1>3, <1>4, <1>6, TamanioJusto
<1>8. /\ b.offset = Len(b.stream)
      /\ \A i \in 1..N : Contiene(b.stream, Len(h[i - 1].stream), Aporte(campos[i], d))
  BY SMTT(30), <1>1, <1>2, <1>3, <1>4, EnSuLugar
<1>9. PICK s : s = b.stream
  OBVIOUS
<1> DEFINE g == [i \in 0..N |-> Len(h[i].stream)]
<1>10. ASSUME NEW i \in 1..N
       PROVE  /\ g[i] = g[i - 1] + OcupaCampo(campos[i], s, g[i - 1])
              /\ LeerCampo(campos[i], s, g[i - 1]) = d[campos[i]]
  <2>1. i - 1 \in 0..N /\ i \in 0..N
    BY <1>2
  <2>2. PICK a : a = Aporte(campos[i], d)
    OBVIOUS
  <2>3. PICK t : t = h[i - 1].stream
    OBVIOUS
  <2>4. g[i - 1] = Len(t) /\ t \in Seq(Octetos)
    BY <1>5, <2>1, <2>3
  <2>5. Cabe(campos[i], d)
    BY <1>1, EnviableCabe
  <2>6. a \in Seq(Octetos)
    BY <2>2, <2>5, AporteBien
  <2>7. h[i].stream = t \o a
    BY <1>1, <1>3, <2>2, <2>3 DEF EnSerie
  <2>8. g[i] = Len(t) + Len(a)
    <3>1. Len(t \o a) = Len(t) + Len(a)
      BY <2>4, <2>6, Unidos
    <3> QED
      BY <2>1, <2>7, <3>1
  <2>9. Contiene(s, Len(t), a)
    BY <1>8, <1>9, <2>2, <2>3
  <2>10. ASSUME campos[i] = "contenido"
         PROVE  Contiene(s, Len(t) - Ancho, Bytes(d.tamanio))
    <3>1. i > 1 /\ campos[i - 1] = "tamanio"
      BY <1>1, <2>10 DEF Formato
    <3>2. i - 1 \in 1..N /\ (i - 1) - 1 \in 0..N
      BY <1>2, <3>1
    <3>3. d.tamanio \in Enteros /\ d.tamanio \in Nat
      BY <2>5, <2>10, EnterosNaturales DEF Cabe
    <3>4. Aporte("tamanio", d) = Bytes(d.tamanio)
      BY DEF Aporte, Textos
    <3>5. PICK r : r = h[(i - 1) - 1].stream
      OBVIOUS
    <3>6. r \in Seq(Octetos)
      BY <1>5, <3>2, <3>5
    <3>7. t = r \o Bytes(d.tamanio)
      BY <1>1, <1>3, <2>3, <3>1, <3>2, <3>4, <3>5 DEF EnSerie
    <3>8. Bytes(d.tamanio) \in Seq(Octetos) /\ Len(Bytes(d.tamanio)) = Ancho
      BY <3>3, BytesBien
    <3>10. Len(t) - Ancho = Len(r)
      <4>1. Len(t) = Len(r) + Ancho
        BY <3>6, <3>7, <3>8, Unidos
      <4>2. Len(r) \in Nat /\ Ancho \in Nat
        BY <3>6, EnterosNaturales
      <4> QED
        BY <4>1, <4>2
    <3>11. Contiene(s, Len(r), Bytes(d.tamanio))
      BY <1>8, <1>9, <3>1, <3>2, <3>4, <3>5
    <3> QED
      BY <3>10, <3>11
  <2>11. s \in Seq(Octetos)
    BY <1>6, <1>9
  <2>12. /\ OcupaCampo(campos[i], s, Len(t)) = Len(a)
         /\ LeerCampo(campos[i], s, Len(t)) = d[campos[i]]
    BY <2>2, <2>5, <2>9, <2>10, <2>11, CampoLeido
  <2> HIDE DEF g
  <2> QED
    BY <2>4, <2>8, <2>12
<1>11. g[0] = 0
  <2>1. h[0].stream = <<>>
    BY <1>3 DEF EnSerie
  <2> QED
    BY <1>2, <2>1
<1>12. g = [i \in 0..N |-> g[i]] /\ g[N] = b.size
  BY <1>2, <1>4, <1>7
<1> HIDE DEF g
<1>13. LecturaCampos(campos, s, g)
  <2>1. \A i \in 0..N : g[i] = IF i = 0 THEN 0 ELSE g[i - 1] + OcupaCampo(campos[i], s, g[i - 1])
    BY <1>2, <1>10, <1>11
  <2>2. g = [i \in 0..N |-> IF i = 0 THEN 0 ELSE g[i - 1] + OcupaCampo(campos[i], s, g[i - 1])]
    BY <1>12, <2>1
  <2> QED
    BY <1>1, <2>2 DEF LecturaCampos
<1> DEFINE pos(c) == CHOOSE i \in DOMAIN campos : campos[i] = c
<1>14. Deserializar(campos, s) =
           [offset |-> g[N], datos |-> [c \in ToSet(campos) |-> LeerCampo(c, s, g[pos(c) - 1])]]
  <2>1. Deserializar(campos, s) = Extraido(campos, s, g)
    BY <1>1, <1>2, <1>13, DeserializarDe
  <2>2. g[Len(campos)] = g[N]
    BY <1>1
  <2> QED
    BY <2>1, <2>2, Zenon DEF Extraido
<1>15. ASSUME NEW c \in ToSet(campos)
       PROVE  LeerCampo(c, s, g[pos(c) - 1]) = d[c]
  <2>1. \E i \in DOMAIN campos : campos[i] = c
    BY DEF ToSet
  <2>2. pos(c) \in DOMAIN campos /\ campos[pos(c)] = c
    BY <2>1
  <2> HIDE DEF pos
  <2> QED
    BY <1>2, <1>10, <2>2
<1> HIDE DEF pos
<1>16. d = [c \in ToSet(campos) |-> d[c]]
  BY DEF Enviable
<1>17. [c \in ToSet(campos) |-> LeerCampo(c, s, g[pos(c) - 1])] = d
  BY <1>15, <1>16
<1> QED
  BY <1>6, <1>7, <1>8, <1>9, <1>12, <1>14, <1>17
-----------------------------------------------------------------------------
(* The messages of each connection. *)

Cinco == {"kernel_cpu", "cpu_kernel", "cpu_memoria", "kernel_memoria", "memoria_filesystem"}
Empaquetadas == {"DEVOLVER_CONTEXTO_EJECUCION", "DEVOLVER_INSTRUCCION"}

(* Every operation that is sent has a code, and comes back from it.        *)
LEMMA Codigos ==
    ASSUME NEW i \in 1..23, NEW op, op = op_code[i]
    PROVE  Codigo(op) \in Enteros /\ Operacion(Codigo(op)) = op
<1>1. Len(op_code) = 23 /\ DOMAIN op_code = 1..23
  BY DEF op_code
<1> DEFINE k == CHOOSE j \in DOMAIN op_code : op_code[j] = op
<1>2. \E j \in DOMAIN op_code : op_code[j] = op
  BY <1>1
<1>3. k \in 1..23 /\ op_code[k] = op
  BY <1>1, <1>2
<1>4. Codigo(op) = k - 1
  BY Zenon DEF Codigo
<1> HIDE DEF k
<1>5. Codigo(op) \in Nat /\ Codigo(op) < 23 /\ Codigo(op) + 1 = k
  BY <1>3, <1>4
<1>6. Operacion(Codigo(op)) = op
  BY <1>1, <1>3, <1>5 DEF Operacion
<1>7. Codigo(op) \in Enteros
  <2>1. Peso[Ancho] >= 23 /\ Peso[Ancho] \in Nat
    BY <1>1, Pesos, PaquetesAssumption
  <2> QED
    BY <1>5, <2>1 DEF Enteros
<1> QED
  BY <1>6, <1>7

Enviadas ==
    {"DEVOLVER_CONTEXTO_EJECUCION", "EJECUTAR_HILO", "DESALOJAR_HILO",
      "CREAR_PROCESO", "FINALIZAR_PROCESO", "CREAR_HILO", "FINALIZAR_HILO", "ESPERAR_HILO",
      "CANCELAR_HILO", "CREAR_MUTEX", "BLOQUEAR_MUTEX", "DESBLOQUEAR_MUTEX", "DUMP_MEMORY",
      "IO", "CONFIRMAR", "NOTIFICAR_ERROR", "DEVOLVER_INSTRUCCION", "ACTUALIZAR_CONTEXTO",
      "LEER_MEMORIA", "ESCRIBIR_MEMORIA"}

(* The code of what is sent fits in a word, and the other end knows it.    *)
LEMMA CodigosDeEnviadas ==
    ASSUME NEW op \in Enviadas
    PROVE  Codigo(op) \in Enteros /\ Operacion(Codigo(op)) = op
<1>1. \E i \in 1..23 : op = op_code[i]
  <2>1. op \in {op_code[2], op_code[4], op_code[5], op_code[6], op_code[7], op_code[8],
                op_code[9], op_code[10], op_code[11], op_code[12], op_code[13], op_code[14],
                op_code[15], op_code[16], op_code[17], op_code[18], op_code[19], op_code[20],
                op_code[21], op_code[22]}
    BY DEF op_code, Enviadas
  <2> QED
    BY <2>1
<1> QED
  BY <1>1, Codigos

(* All that the connections ask for and answer is sent.                    *)
LEMMA OperacionesEnviadas ==
    /\ \A c \in Cinco : Pedidos(c) \subseteq Enviadas
    /\ \A c, op : Respuestas(c, op) \subseteq Enviadas
<1>1. ASSUME NEW c \in Cinco
      PROVE  Pedidos(c) \subseteq Enviadas
  <2>1. CASE c = "kernel_cpu"
    BY <2>1 DEF Pedidos, Enviadas
  <2>2. CASE c = "cpu_kernel"
    BY <2>2 DEF Pedidos, Enviadas
  <2>3. CASE c = "cpu_memoria"
    BY <2>3 DEF Pedidos, Enviadas
  <2>4. CASE c = "kernel_memoria"
    BY <2>4 DEF Pedidos, Enviadas
  <2>5. CASE c = "memoria_filesystem"
    BY <2>5 DEF Pedidos, Enviadas
  <2> QED
    BY <2>1, <2>2, <2>3, <2>4, <2>5 DEF Cinco
<1>2. \A c, op : Respuestas(c, op) \subseteq Enviadas
  BY DEF Respuestas, Enviadas
<1> QED
  BY <1>1, <1>2

(* The fields of each message. *)
LEMMA FormatoContexto == Formato(Contexto)
<1>1. Len(Contexto) = 13
  BY DEF Contexto
<1>2. DOMAIN Contexto = 1..13
  BY DEF Contexto
<1>3. ASSUME NEW i \in 1..13, NEW j \in 1..13, Contexto[i] = Contexto[j]
      PROVE  i = j
  BY <1>3 DEF Contexto
<1>4. \A i \in 1..13 : Contexto[i] # "contenido"
  BY DEF Contexto
<1> QED
  BY <1>1, <1>2, <1>3, <1>4 DEF Formato

(* The messages of one or two fields are well formed, *)
LEMMA FormatosCortos ==
    /\ Formato(<<>>)
    /\ \A x \in {"instruccion", "pid", "recurso", "tid", "tiempo"} : Formato(<<x>>)
    /\ Formato(<<"pid", "tid">>)
    /\ Formato(<<"pid", "tamanio">>)
    /\ Formato(<<"archivo_pseudocodigo", "prioridad">>)
<1>1. Formato(<<>>)
  BY DEF Formato
<1>2. \A x \in {"instruccion", "pid", "recurso", "tid", "tiempo"} : Formato(<<x>>)
  BY DEF Formato
<1>3. Formato(<<"pid", "tid">>)
  BY DEF Formato
<1>4. Formato(<<"pid", "tamanio">>)
  BY DEF Formato
<1>5. Formato(<<"archivo_pseudocodigo", "prioridad">>)
  BY DEF Formato
<1> QED
  BY <1>1, <1>2, <1>3, <1>4, <1>5

(* and those of more. *)
LEMMA FormatosLargos ==
    /\ Formato(<<"pid", "tid", "PC">>)
    /\ Formato(<<"pid", "tid", "tamanio", "dir_fisica">>)
    /\ Formato(<<"pid", "tid", "tamanio", "dir_fisica", "dato_a_escribir">>)
    /\ Formato(<<"pid", "tid", "archivo_pseudocodigo">>)
    /\ Formato(<<"archivo_pseudocodigo", "tamanio_proceso", "prioridad">>)
    /\ Formato(<<"nombre_archivo", "tamanio", "contenido">>)
<1>1. Formato(<<"pid", "tid", "PC">>)
  BY DEF Formato
<1>2. Formato(<<"pid", "tid", "tamanio", "dir_fisica">>)
  BY DEF Formato
<1>3. Formato(<<"pid", "tid", "tamanio", "dir_fisica", "dato_a_escribir">>)
  BY DEF Formato
<1>4. Formato(<<"pid", "tid", "archivo_pseudocodigo">>)
  BY DEF Formato
<1>5. Formato(<<"archivo_pseudocodigo", "tamanio_proceso", "prioridad">>)
  BY DEF Formato
<1>6. Formato(<<"nombre_archivo", "tamanio", "contenido">>)
  BY DEF Formato
<1> QED
  BY <1>1, <1>2, <1>3, <1>4, <1>5, <1>6

(* What every connection sends is well formed. *)
LEMMA Formatos ==
    ASSUME NEW c \in Cinco, NEW op \in Pedidos(c)
    PROVE  Formato(Escribe(c, op))
<1>1. CASE c = "kernel_cpu"
  <2>1. Escribe(c, op) = <<"pid", "tid">>
    BY <1>1 DEF Escribe
  <2> QED
    BY <2>1, FormatosCortos
<1>2. CASE c = "memoria_filesystem"
  <2>1. Escribe(c, op) = <<"nombre_archivo", "tamanio", "contenido">>
    BY <1>2 DEF Escribe
  <2> QED
    BY <2>1, FormatosLargos
<1>3. CASE c = "cpu_kernel"
  <2>1. Escribe(c, op) = EscribeCpuKernel(op)
    BY <1>3 DEF Escribe
  <2>2. op \in {"CREAR_HILO", "CREAR_PROCESO", "CREAR_MUTEX", "BLOQUEAR_MUTEX",
                "DESBLOQUEAR_MUTEX", "ESPERAR_HILO", "CANCELAR_HILO", "IO", "FINALIZAR_HILO",
                "FINALIZAR_PROCESO", "DUMP_MEMORY", "DESALOJAR_HILO"}
    BY <1>3 DEF Pedidos
  <2>3. \/ EscribeCpuKernel(op) = <<"archivo_pseudocodigo", "prioridad">>
        \/ EscribeCpuKernel(op) = <<"archivo_pseudocodigo", "tamanio_proceso", "prioridad">>
        \/ EscribeCpuKernel(op) = <<"recurso">>
        \/ EscribeCpuKernel(op) = <<"tid">>
        \/ EscribeCpuKernel(op) = <<"tiempo">>
        \/ EscribeCpuKernel(op) = <<>>
    BY <2>2 DEF EscribeCpuKernel
  <2> QED
    BY <2>1, <2>3, FormatosCortos, FormatosLargos
<1>4. CASE c = "cpu_memoria"
  <2>1. Escribe(c, op) = EscribeCpuMemoria(op)
    BY <1>4 DEF Escribe
  <2>2. op \in {"DEVOLVER_CONTEXTO_EJECUCION", "ACTUALIZAR_CONTEXTO", "DEVOLVER_INSTRUCCION",
                "LEER_MEMORIA", "ESCRIBIR_MEMORIA"}
    BY <1>4 DEF Pedidos
  <2>3. \/ EscribeCpuMemoria(op) = <<"pid", "tid">>
        \/ EscribeCpuMemoria(op) = Contexto
        \/ EscribeCpuMemoria(op) = <<"pid", "tid", "PC">>
        \/ EscribeCpuMemoria(op) = <<"pid", "tid", "tamanio", "dir_fisica">>
        \/ EscribeCpuMemoria(op) = <<"pid", "tid", "tamanio", "dir_fisica", "dato_a_escribir">>
    BY <2>2 DEF EscribeCpuMemoria
  <2> QED
    BY <2>1, <2>3, FormatosCortos, FormatosLargos, FormatoContexto
<1>5. CASE c = "kernel_memoria"
  <2>1. op \in {"CREAR_HILO", "FINALIZAR_HILO", "CREAR_PROCESO", "FINALIZAR_PROCESO",
                "DUMP_MEMORY"}
    BY <1>5 DEF Pedidos
  <2>2. Escribe(c, op) = EscribeKernelMemoria(op)
    BY <1>5 DEF Escribe
  <2>3. \/ EscribeKernelMemoria(op) = <<"pid", "tid", "archivo_pseudocodigo">>
        \/ EscribeKernelMemoria(op) = <<"pid", "tid">>
        \/ EscribeKernelMemoria(op) = <<"pid", "tamanio">>
        \/ EscribeKernelMemoria(op) = <<"pid">>
    BY <2>1 DEF EscribeKernelMemoria
  <2> QED
    BY <2>2, <2>3, FormatosCortos, FormatosLargos
<1> QED
  BY <1>1, <1>2, <1>3, <1>4, <1>5 DEF Cinco

(* The other end reads the fields in the order in which they were written: *)
(* the deserialisers of comunicacion_*.c against the serialisers, message  *)
(* by message.                                                             *)
LEMMA LecturaPedido ==
    ASSUME NEW c \in Cinco, NEW op \in Pedidos(c), ~SinBuffer(c, op), op # "CANCELAR_HILO"
    PROVE  Lee(c, op) = Escribe(c, op)
<1>1. CASE c \in {"kernel_cpu", "memoria_filesystem"}
  BY <1>1 DEF Escribe, Lee
<1>2. CASE c = "cpu_kernel"
  <2>1. Escribe(c, op) = EscribeCpuKernel(op) /\ Lee(c, op) = LeeCpuKernel(op)
    BY <1>2 DEF Escribe, Lee
  <2>2. op \in {"CREAR_HILO", "CREAR_PROCESO", "CREAR_MUTEX", "BLOQUEAR_MUTEX",
                "DESBLOQUEAR_MUTEX", "ESPERAR_HILO", "IO"}
    <3>1. op \in {"CREAR_HILO", "CREAR_PROCESO", "CREAR_MUTEX", "BLOQUEAR_MUTEX",
                  "DESBLOQUEAR_MUTEX", "ESPERAR_HILO", "IO", "FINALIZAR_HILO",
                  "FINALIZAR_PROCESO", "DUMP_MEMORY", "DESALOJAR_HILO"}
      BY <1>2 DEF Pedidos
    <3>2. EscribeCpuKernel(op) # <<>>
      BY <2>1 DEF SinBuffer
    <3> QED
      BY <3>1, <3>2 DEF EscribeCpuKernel
  <2>3. EscribeCpuKernel(op) = LeeCpuKernel(op)
    BY <2>2 DEF EscribeCpuKernel, LeeCpuKernel
  <2> QED
    BY <2>1, <2>3
<1>3. CASE c = "cpu_memoria"
  <2>1. Escribe(c, op) = EscribeCpuMemoria(op) /\ Lee(c, op) = LeeCpuMemoria(op)
    BY <1>3 DEF Escribe, Lee
  <2>2. op \in {"DEVOLVER_CONTEXTO_EJECUCION", "ACTUALIZAR_CONTEXTO", "DEVOLVER_INSTRUCCION",
                "LEER_MEMORIA", "ESCRIBIR_MEMORIA"}
    BY <1>3 DEF Pedidos
  <2>3. EscribeCpuMemoria(op) = LeeCpuMemoria(op)
    BY <2>2 DEF EscribeCpuMemoria, LeeCpuMemoria, Contexto
  <2> QED
    BY <2>1, <2>3
<1>4. CASE c = "kernel_memoria"
  <2>1. Escribe(c, op) = EscribeKernelMemoria(op) /\ Lee(c, op) = LeeKernelMemoria(op)
    BY <1>4 DEF Escribe, Lee
  <2>2. op \in {"CREAR_HILO", "FINALIZAR_HILO", "CREAR_PROCESO", "FINALIZAR_PROCESO",
                "DUMP_MEMORY"}
    BY <1>4 DEF Pedidos
  <2>3. EscribeKernelMemoria(op) = LeeKernelMemoria(op)
    BY <2>2 DEF EscribeKernelMemoria, LeeKernelMemoria
  <2> QED
    BY <2>1, <2>3
<1> QED
  BY <1>1, <1>2, <1>3, <1>4 DEF Cinco

(* The answers that are packets are well formed, and read as written.      *)
LEMMA FormatosRespuesta ==
    \A op \in Empaquetadas :
        /\ Formato(EscribeRespuesta(op)) /\ EscribeRespuesta(op) # <<>>
        /\ LeeRespuesta(op) = EscribeRespuesta(op)
<1>1. EscribeRespuesta("DEVOLVER_CONTEXTO_EJECUCION") = Contexto /\ Contexto # <<>>
  BY DEF EscribeRespuesta, Contexto
<1>2. /\ EscribeRespuesta("DEVOLVER_INSTRUCCION") = <<"instruccion">>
      /\ <<"instruccion">> # <<>>
  BY DEF EscribeRespuesta
<1>3. LeeRespuesta("DEVOLVER_CONTEXTO_EJECUCION") = Contexto
  BY DEF LeeRespuesta, Contexto
<1>4. LeeRespuesta("DEVOLVER_INSTRUCCION") = <<"instruccion">>
  BY DEF LeeRespuesta
<1> QED
  BY <1>1, <1>2, <1>3, <1>4, FormatosCortos, FormatoContexto DEF Empaquetadas

(* How many bytes the fields of a message take, by how many they are.      *)
LEMMA MidenPocos ==
    ASSUME NEW d, NEW x, NEW y, NEW a, a = TamanioCampo(x, d), a \in Nat,
           NEW b, b = TamanioCampo(y, d), b \in Nat
    PROVE  Mide(<<x>>, d, a) /\ Mide(<<x, y>>, d, a + b)
<1>1. Mide(<<x>>, d, a)
  <2> SUFFICES ASSUME NEW g \in [0..1 -> Nat], g[0] = 0,
                      \A i \in 1..1 : g[i] = g[i - 1] + TamanioCampo(<<x>>[i], d)
               PROVE  g[1] = a
    BY DEF Mide
  <2>1. g[1] = g[0] + a
    OBVIOUS
  <2> QED
    BY <2>1
<1>2. Mide(<<x, y>>, d, a + b)
  <2> SUFFICES ASSUME NEW g \in [0..2 -> Nat], g[0] = 0,
                      \A i \in 1..2 : g[i] = g[i - 1] + TamanioCampo(<<x, y>>[i], d)
               PROVE  g[2] = a + b
    BY DEF Mide
  <2>1. g[1] = g[0] + a /\ g[2] = g[1] + b
    OBVIOUS
  <2> QED
    BY <2>1
<1> QED
  BY <1>1, <1>2

(* And for those of more fields.                                           *)
LEMMA MidenMas ==
    ASSUME NEW d, NEW x, NEW y, NEW z, NEW a, a = TamanioCampo(x, d), a \in Nat,
           NEW b, b = TamanioCampo(y, d), b \in Nat, NEW c, c = TamanioCampo(z, d), c \in Nat
    PROVE  Mide(<<x, y, z>>, d, a + b + c)
<1> SUFFICES ASSUME NEW g \in [0..3 -> Nat], g[0] = 0,
                    \A i \in 1..3 : g[i] = g[i - 1] + TamanioCampo(<<x, y, z>>[i], d)
             PROVE  g[3] = a + b + c
  BY DEF Mide
<1>1. g[1] = g[0] + a /\ g[2] = g[1] + b /\ g[3] = g[2] + c
  OBVIOUS
<1> QED
  BY <1>1

(* A message that is all words.                                            *)
Entera(campos) == \A i \in 1..Len(campos) : campos[i] \notin Textos \cup {"contenido"}

(* It takes a word for each field.                                         *)
LEMMA MidenPalabras ==
    ASSUME NEW d, NEW campos, Entera(campos), Len(campos) \in {4, 5, 13}
    PROVE  Mide(campos, d, Len(campos) * Ancho)
<1> SUFFICES ASSUME NEW g \in [0..Len(campos) -> Nat], g[0] = 0,
                    \A i \in 1..Len(campos) : g[i] = g[i - 1] + TamanioCampo(campos[i], d)
             PROVE  g[Len(campos)] = Len(campos) * Ancho
  BY DEF Mide
<1>1. \A i \in 1..Len(campos) : g[i] = g[i - 1] + Ancho
  BY DEF Entera, TamanioCampo
<1>2. Ancho \in Nat
  BY EnterosNaturales
<1>3. g[1] = Ancho /\ g[2] = g[1] + Ancho /\ g[3] = g[2] + Ancho /\ g[4] = g[3] + Ancho
  <2>0. \A n \in {4, 5, 13} : 1 \in 1..n /\ 2 \in 1..n /\ 3 \in 1..n /\ 4 \in 1..n
    OBVIOUS
  <2>1. 1 \in 1..Len(campos) /\ 2 \in 1..Len(campos)
    BY Zenon, <2>0
  <2>2. 3 \in 1..Len(campos) /\ 4 \in 1..Len(campos)
    BY Zenon, <2>0
  <2>3. g[1] = g[1 - 1] + Ancho /\ g[2] = g[2 - 1] + Ancho
    BY Zenon, <1>1, <2>1
  <2>4. g[3] = g[3 - 1] + Ancho /\ g[4] = g[4 - 1] + Ancho
    BY Zenon, <1>1, <2>2
  <2> QED
    BY <1>2, <2>3, <2>4
<1>4. g[4] = 4 * Ancho
  BY <1>2, <1>3
<1>5. CASE Len(campos) = 4
  BY <1>4, <1>5
<1>6. CASE Len(campos) = 5
  <2>1. g[5] = g[4] + Ancho
    BY <1>1, <1>6
  <2> QED
    BY <1>2, <1>4, <1>6, <2>1
<1>7. CASE Len(campos) = 13
  <2>1. g[5] = g[4] + Ancho /\ g[6] = g[5] + Ancho /\ g[7] = g[6] + Ancho
    BY <1>1, <1>7
  <2>2. g[8] = g[7] + Ancho /\ g[9] = g[8] + Ancho /\ g[10] = g[9] + Ancho
    BY <1>1, <1>7
  <2>3. g[11] = g[10] + Ancho /\ g[12] = g[11] + Ancho /\ g[13] = g[12] + Ancho
    BY <1>1, <1>7
  <2> QED
    BY <1>2, <1>4, <1>7, <2>1, <2>2, <2>3
<1> QED
  BY <1>5, <1>6, <1>7

(* A word takes Ancho bytes, *)
LEMMA MideUnaPalabra ==
    \A d : \A x \in {"pid", "tid", "PC", "tamanio", "tamanio_proceso", "prioridad", "tiempo"} :
        TamanioCampo(x, d) = Ancho
  BY DEF TamanioCampo, Textos

(* a text, the word of its length and its bytes, and a content, as many as *)
(* the word before it says.                                                *)
LEMMA MideUnTexto ==
    ASSUME NEW d, NEW campos, Formato(campos), Enviable(campos, d),
           NEW i \in 1..Len(campos), NEW x, x = campos[i]
    PROVE  /\ x \in Textos => TamanioCampo(x, d) = Ancho + Len(d[x]) /\ Len(d[x]) \in Nat
           /\ x = "contenido" => TamanioCampo(x, d) = d.tamanio /\ d.tamanio \in Nat
<1>1. Cabe(x, d)
  BY EnviableCabe
<1>2. "contenido" \notin Textos
  BY DEF Textos
<1> QED
  BY <1>1, <1>2, EnterosNaturales DEF Cabe, TamanioCampo

(* A message that is a text. *)
LEMMA MideSoloTexto ==
    ASSUME NEW d, NEW x \in Textos, Formato(<<x>>), Enviable(<<x>>, d)
    PROVE  Mide(<<x>>, d, Len(d[x]) + Ancho)
<1> PICK m : m = <<x>>
  OBVIOUS
<1>1. Formato(m) /\ Enviable(m, d) /\ 1 \in 1..Len(m) /\ m[1] = x
  OBVIOUS
<1>2. PICK n : n = Len(d[x])
  OBVIOUS
<1>3. TamanioCampo(x, d) = Ancho + n /\ n \in Nat
  BY <1>1, <1>2, MideUnTexto
<1>4. Ancho + n = n + Ancho /\ Ancho + n \in Nat
  BY <1>3, EnterosNaturales
<1> QED
  BY <1>2, <1>3, <1>4, MidenPocos

(* The thirteen words of a context. *)
LEMMA MideContexto == \A d : Mide(Contexto, d, 13 * Ancho)
<1>1. Len(Contexto) = 13
  BY DEF Contexto
<1>2. \A i \in 1..13 : Contexto[i] \notin Textos \cup {"contenido"}
  BY DEF Contexto, Textos
<1>3. Entera(Contexto)
  BY <1>1, <1>2 DEF Entera
<1> QED
  BY <1>1, <1>3, MidenPalabras

(* The size that each request computes by hand is what its fields take.    *)
LEMMA Medidas ==
    ASSUME NEW c \in Cinco, NEW op \in Pedidos(c), ~SinBuffer(c, op),
           NEW d, Enviable(Escribe(c, op), d)
    PROVE  Mide(Escribe(c, op), d, TamanioPedido(c, op, d))
<1>0. Ancho \in Nat /\ Ancho + Ancho = 2 * Ancho /\ Ancho + Ancho + Ancho = 3 * Ancho
  BY EnterosNaturales
<1>1. Mide(<<"pid", "tid">>, d, 2 * Ancho) /\ Mide(<<"pid">>, d, Ancho)
  BY <1>0, MideUnaPalabra, MidenPocos
<1>2. CASE c = "kernel_cpu"
  <2>1. Escribe(c, op) = <<"pid", "tid">> /\ TamanioPedido(c, op, d) = 2 * Ancho
    BY <1>2 DEF Escribe, TamanioPedido
  <2> QED
    BY <1>1, <2>1
<1>3. CASE c = "memoria_filesystem"
  <2>1. /\ Escribe(c, op) = <<"nombre_archivo", "tamanio", "contenido">>
        /\ TamanioPedido(c, op, d) = Ancho + Len(d.nombre_archivo) + Ancho + d.tamanio
    BY <1>3 DEF Escribe, TamanioPedido
  <2> DEFINE m == <<"nombre_archivo", "tamanio", "contenido">>
  <2>2. Formato(m) /\ Enviable(m, d)
    BY <2>1, FormatosLargos
  <2>3. 1 \in 1..Len(m) /\ 3 \in 1..Len(m) /\ m[1] = "nombre_archivo" /\ m[3] = "contenido"
    OBVIOUS
  <2> HIDE DEF m
  <2>4. PICK n : n = Len(d["nombre_archivo"])
    OBVIOUS
  <2>5. TamanioCampo("nombre_archivo", d) = Ancho + n /\ n \in Nat
    <3>1. "nombre_archivo" \in Textos
      BY DEF Textos
    <3> QED
      BY <2>2, <2>3, <2>4, <3>1, MideUnTexto
  <2>6. PICK k : k = d.tamanio
    OBVIOUS
  <2>7. TamanioCampo("contenido", d) = k /\ k \in Nat
    BY <2>2, <2>3, <2>6, MideUnTexto
  <2>8. Mide(m, d, (Ancho + n) + Ancho + k)
    BY <1>0, <2>5, <2>7, MideUnaPalabra, MidenMas DEF m
  <2> QED
    BY <2>1, <2>4, <2>6, <2>8 DEF m
<1>4. CASE c = "cpu_memoria"
  <2>1. Escribe(c, op) = EscribeCpuMemoria(op) /\ TamanioPedido(c, op, d) = TamanioCpuMemoria(op)
    BY <1>4 DEF Escribe, TamanioPedido
  <2>2. op \in {"DEVOLVER_CONTEXTO_EJECUCION", "ACTUALIZAR_CONTEXTO", "DEVOLVER_INSTRUCCION",
                "LEER_MEMORIA", "ESCRIBIR_MEMORIA"}
    BY <1>4 DEF Pedidos
  <2>3. CASE op = "DEVOLVER_CONTEXTO_EJECUCION"
    BY <1>1, <2>1, <2>3 DEF EscribeCpuMemoria, TamanioCpuMemoria
  <2>4. CASE op = "ACTUALIZAR_CONTEXTO"
    <3>1. EscribeCpuMemoria(op) = Contexto /\ TamanioCpuMemoria(op) = 13 * Ancho
      BY <2>4 DEF EscribeCpuMemoria, TamanioCpuMemoria
    <3> QED
      BY <2>1, <3>1, MideContexto
  <2>5. CASE op = "DEVOLVER_INSTRUCCION"
    <3>1. /\ EscribeCpuMemoria(op) = <<"pid", "tid", "PC">>
          /\ TamanioCpuMemoria(op) = 3 * Ancho
      BY <2>5 DEF EscribeCpuMemoria, TamanioCpuMemoria
    <3>2. Mide(<<"pid", "tid", "PC">>, d, Ancho + Ancho + Ancho)
      BY <1>0, MideUnaPalabra, MidenMas
    <3> QED
      BY <1>0, <2>1, <3>1, <3>2
  <2>6. CASE op = "LEER_MEMORIA"
    <3>1. /\ EscribeCpuMemoria(op) = <<"pid", "tid", "tamanio", "dir_fisica">>
          /\ TamanioCpuMemoria(op) = 4 * Ancho
      BY <2>6 DEF EscribeCpuMemoria, TamanioCpuMemoria
    <3>2. /\ Entera(<<"pid", "tid", "tamanio", "dir_fisica">>)
          /\ Len(<<"pid", "tid", "tamanio", "dir_fisica">>) = 4
      BY DEF Entera, Textos
    <3> QED
      BY <2>1, <3>1, <3>2, MidenPalabras
  <2>7. CASE op = "ESCRIBIR_MEMORIA"
    <3>1. /\ EscribeCpuMemoria(op) = <<"pid", "tid", "tamanio", "dir_fisica", "dato_a_escribir">>
          /\ TamanioCpuMemoria(op) = 5 * Ancho
      BY <2>7 DEF EscribeCpuMemoria, TamanioCpuMemoria
    <3>2. /\ Entera(<<"pid", "tid", "tamanio", "dir_fisica", "dato_a_escribir">>)
          /\ Len(<<"pid", "tid", "tamanio", "dir_fisica", "dato_a_escribir">>) = 5
      BY DEF Entera, Textos
    <3> QED
      BY <2>1, <3>1, <3>2, MidenPalabras
  <2> QED
    BY <2>2, <2>3, <2>4, <2>5, <2>6, <2>7
<1>5. CASE c = "kernel_memoria"
  <2>1. /\ Escribe(c, op) = EscribeKernelMemoria(op)
        /\ TamanioPedido(c, op, d) = TamanioKernelMemoria(op, d)
    BY <1>5 DEF Escribe, TamanioPedido
  <2>2. op \in {"CREAR_HILO", "FINALIZAR_HILO", "CREAR_PROCESO", "FINALIZAR_PROCESO",
                "DUMP_MEMORY"}
    BY <1>5 DEF Pedidos
  <2>3. CASE op = "CREAR_HILO"
    <3> DEFINE m == <<"pid", "tid", "archivo_pseudocodigo">>
    <3>1. EscribeKernelMemoria(op) = m
      BY <2>3 DEF EscribeKernelMemoria
    <3>2. TamanioKernelMemoria(op, d) = 3 * Ancho + Len(d.archivo_pseudocodigo)
      BY <2>3 DEF TamanioKernelMemoria
    <3>3. Formato(m) /\ Enviable(m, d)
      BY <2>1, <3>1, FormatosLargos
    <3>4. 3 \in 1..Len(m) /\ m[3] = "archivo_pseudocodigo"
      OBVIOUS
    <3> HIDE DEF m
    <3>5. PICK n : n = Len(d["archivo_pseudocodigo"])
      OBVIOUS
    <3>6. TamanioCampo("archivo_pseudocodigo", d) = Ancho + n /\ n \in Nat
      <4>1. "archivo_pseudocodigo" \in Textos
        BY DEF Textos
      <4> QED
        BY <3>3, <3>4, <3>5, <4>1, MideUnTexto
    <3>7. Mide(m, d, Ancho + Ancho + (Ancho + n))
      BY <1>0, <3>6, MideUnaPalabra, MidenMas DEF m
    <3>8. Ancho + Ancho + (Ancho + n) = 3 * Ancho + n
      BY <1>0, <3>6
    <3> QED
      BY <2>1, <3>1, <3>2, <3>5, <3>7, <3>8
  <2>4. CASE op \in {"FINALIZAR_HILO", "DUMP_MEMORY"}
    BY <1>1, <2>1, <2>4 DEF EscribeKernelMemoria, TamanioKernelMemoria
  <2>5. CASE op = "CREAR_PROCESO"
    <3>1. /\ EscribeKernelMemoria(op) = <<"pid", "tamanio">>
          /\ TamanioKernelMemoria(op, d) = 2 * Ancho
      BY <2>5 DEF EscribeKernelMemoria, TamanioKernelMemoria
    <3>2. Mide(<<"pid", "tamanio">>, d, Ancho + Ancho)
      BY <1>0, MideUnaPalabra, MidenPocos
    <3> QED
      BY <1>0, <2>1, <3>1, <3>2
  <2>6. CASE op = "FINALIZAR_PROCESO"
    BY <1>1, <2>1, <2>6 DEF EscribeKernelMemoria, TamanioKernelMemoria
  <2> QED
    BY <2>2, <2>3, <2>4, <2>5, <2>6
<1>6. CASE c = "cpu_kernel"
  <2>1. Escribe(c, op) = EscribeCpuKernel(op) /\ TamanioPedido(c, op, d) = TamanioCpuKernel(op, d)
    BY <1>6 DEF Escribe, TamanioPedido
  <2>2. op \in {"CREAR_HILO", "CREAR_PROCESO", "CREAR_MUTEX", "BLOQUEAR_MUTEX",
                "DESBLOQUEAR_MUTEX", "ESPERAR_HILO", "CANCELAR_HILO", "IO"}
    <3>1. op \in {"CREAR_HILO", "CREAR_PROCESO", "CREAR_MUTEX", "BLOQUEAR_MUTEX",
                  "DESBLOQUEAR_MUTEX", "ESPERAR_HILO", "CANCELAR_HILO", "IO", "FINALIZAR_HILO",
                  "FINALIZAR_PROCESO", "DUMP_MEMORY", "DESALOJAR_HILO"}
      BY <1>6 DEF Pedidos
    <3>2. EscribeCpuKernel(op) # <<>>
      BY <2>1 DEF SinBuffer
    <3> QED
      BY <3>1, <3>2 DEF EscribeCpuKernel
  <2>3. CASE op = "CREAR_HILO"
    <3> DEFINE m == <<"archivo_pseudocodigo", "prioridad">>
    <3>1. EscribeCpuKernel(op) = m
      BY <2>3 DEF EscribeCpuKernel
    <3>2. TamanioCpuKernel(op, d) = 2 * Ancho + Len(d.archivo_pseudocodigo)
      BY <2>3 DEF TamanioCpuKernel
    <3>3. Formato(m) /\ Enviable(m, d)
      BY <2>1, <3>1, FormatosCortos
    <3>4. 1 \in 1..Len(m) /\ m[1] = "archivo_pseudocodigo"
      OBVIOUS
    <3> HIDE DEF m
    <3>5. PICK n : n = Len(d["archivo_pseudocodigo"])
      OBVIOUS
    <3>6. TamanioCampo("archivo_pseudocodigo", d) = Ancho + n /\ n \in Nat
      <4>1. "archivo_pseudocodigo" \in Textos
        BY DEF Textos
      <4> QED
        BY <3>3, <3>4, <3>5, <4>1, MideUnTexto
    <3>7. Mide(m, d, (Ancho + n) + Ancho)
      <4> PICK k : k = Ancho + n
        OBVIOUS
      <4>1. k = TamanioCampo("archivo_pseudocodigo", d) /\ k \in Nat
        BY <1>0, <3>6
      <4>2. Ancho = TamanioCampo("prioridad", d)
        BY MideUnaPalabra
      <4>3. Mide(<<"archivo_pseudocodigo", "prioridad">>, d, k + Ancho)
        BY Zenon, <1>0, <4>1, <4>2, MidenPocos
      <4> QED
        BY Zenon, <4>3 DEF m
    <3>8. (Ancho + n) + Ancho = 2 * Ancho + n
      BY <1>0, <3>6
    <3> QED
      BY <2>1, <3>1, <3>2, <3>5, <3>7, <3>8
  <2>4. CASE op = "CREAR_PROCESO"
    <3> DEFINE m == <<"archivo_pseudocodigo", "tamanio_proceso", "prioridad">>
    <3>1. EscribeCpuKernel(op) = m
      BY <2>4 DEF EscribeCpuKernel
    <3>2. TamanioCpuKernel(op, d) = 3 * Ancho + Len(d.archivo_pseudocodigo)
      BY <2>4 DEF TamanioCpuKernel
    <3>3. Formato(m) /\ Enviable(m, d)
      BY <2>1, <3>1, FormatosLargos
    <3>4. 1 \in 1..Len(m) /\ m[1] = "archivo_pseudocodigo"
      OBVIOUS
    <3> HIDE DEF m
    <3>5. PICK n : n = Len(d["archivo_pseudocodigo"])
      OBVIOUS
    <3>6. TamanioCampo("archivo_pseudocodigo", d) = Ancho + n /\ n \in Nat
      <4>1. "archivo_pseudocodigo" \in Textos
        BY DEF Textos
      <4> QED
        BY <3>3, <3>4, <3>5, <4>1, MideUnTexto
    <3>7. Mide(m, d, (Ancho + n) + Ancho + Ancho)
      BY <1>0, <3>6, MideUnaPalabra, MidenMas DEF m
    <3>8. (Ancho + n) + Ancho + Ancho = 3 * Ancho + n
      BY <1>0, <3>6
    <3> QED
      BY <2>1, <3>1, <3>2, <3>5, <3>7, <3>8
  <2>5. CASE op \in {"CREAR_MUTEX", "BLOQUEAR_MUTEX", "DESBLOQUEAR_MUTEX"}
    <3>1. EscribeCpuKernel(op) = <<"recurso">> /\ TamanioCpuKernel(op, d) = Len(d.recurso) + Ancho
      BY <2>5 DEF EscribeCpuKernel, TamanioCpuKernel
    <3>2. "recurso" \in Textos /\ Formato(<<"recurso">>) /\ Enviable(<<"recurso">>, d)
      BY <2>1, <3>1, FormatosCortos DEF Textos
    <3>3. Mide(<<"recurso">>, d, Len(d["recurso"]) + Ancho)
      BY Zenon, <3>2, MideSoloTexto
    <3> QED
      BY <2>1, <3>1, <3>3
  <2>6. CASE op \in {"ESPERAR_HILO", "CANCELAR_HILO"}
    <3>1. EscribeCpuKernel(op) = <<"tid">> /\ TamanioCpuKernel(op, d) = Ancho
      BY <2>6 DEF EscribeCpuKernel, TamanioCpuKernel
    <3>2. Mide(<<"tid">>, d, Ancho)
      BY <1>0, MideUnaPalabra, MidenPocos
    <3> QED
      BY <2>1, <3>1, <3>2
  <2>7. CASE op = "IO"
    <3>1. EscribeCpuKernel(op) = <<"tiempo">> /\ TamanioCpuKernel(op, d) = Ancho
      BY <2>7 DEF EscribeCpuKernel, TamanioCpuKernel
    <3>2. Mide(<<"tiempo">>, d, Ancho)
      BY <1>0, MideUnaPalabra, MidenPocos
    <3> QED
      BY <2>1, <3>1, <3>2
  <2> QED
    BY <2>2, <2>3, <2>4, <2>5, <2>6, <2>7
<1> QED
  BY <1>2, <1>3, <1>4, <1>5, <1>6 DEF Cinco

(* And the size of each answer. *)
LEMMA MedidasRespuesta ==
    ASSUME NEW op \in Empaquetadas, NEW d, Enviable(EscribeRespuesta(op), d)
    PROVE  Mide(EscribeRespuesta(op), d, TamanioRespuesta(op, d))
<1>1. CASE op = "DEVOLVER_CONTEXTO_EJECUCION"
  <2>1. EscribeRespuesta(op) = Contexto /\ TamanioRespuesta(op, d) = 13 * Ancho
    BY <1>1 DEF EscribeRespuesta, TamanioRespuesta
  <2> QED
    BY <2>1, MideContexto
<1>2. CASE op = "DEVOLVER_INSTRUCCION"
  <2>1. /\ EscribeRespuesta(op) = <<"instruccion">>
        /\ TamanioRespuesta(op, d) = Len(d.instruccion) + Ancho
    BY <1>2 DEF EscribeRespuesta, TamanioRespuesta
  <2>2. /\ "instruccion" \in Textos /\ Formato(<<"instruccion">>)
        /\ Enviable(<<"instruccion">>, d)
    BY <2>1, FormatosCortos DEF Textos
  <2>3. Mide(<<"instruccion">>, d, Len(d["instruccion"]) + Ancho)
    BY Zenon, <2>2, MideSoloTexto
  <2> QED
    BY <2>1, <2>3
<1> QED
  BY <1>1, <1>2 DEF Empaquetadas

(* Every request is read as it was written, field by field, whatever its   *)
(* data: the size that its serialiser passes to buffer_create is what it   *)
(* adds, the deserialiser of the other end, with its own order of reads,   *)
(* ends where it ends, and each field has its value                        *)
(* (comunicacion_cpu_memoria.c, comunicacion_kernel_memoria.c,             *)
(* comunicacion_kernel_cpu.c, comunicacion_memoria_filesystem.c).          *)
THEOREM SerializacionFiel ==
    ASSUME NEW c \in Cinco, NEW op \in Pedidos(c), ~SinBuffer(c, op), op # "CANCELAR_HILO",
           NEW d, Enviable(Escribe(c, op), d), TamanioPedido(c, op, d) \in Enteros
    PROVE  LET b == BufferPedido(c, op, d)
           IN  /\ b.size = TamanioPedido(c, op, d)
               /\ Len(b.stream) = b.size /\ b.offset = b.size
               /\ Deserializar(Lee(c, op), b.stream) = [offset |-> b.size, datos |-> d]
<1> PICK campos : campos = Escribe(c, op)
  OBVIOUS
<1> PICK n : n = TamanioPedido(c, op, d)
  OBVIOUS
<1> PICK b : b = BufferPedido(c, op, d)
  OBVIOUS
<1>1. Formato(campos) /\ Enviable(campos, d) /\ n \in Enteros /\ Mide(campos, d, n)
  BY Formatos, Medidas
<1>2. b = Serializar(campos, n, d)
  BY DEF BufferPedido
<1>3. /\ b.size = n /\ Len(b.stream) = b.size /\ b.offset = b.size
      /\ Deserializar(campos, b.stream) = [offset |-> b.size, datos |-> d]
  BY <1>1, <1>2, CamposFieles
<1>4. Lee(c, op) = campos
  BY LecturaPedido
<1> QED
  BY <1>3, <1>4

(* And so is every answer that is a packet: the context and the            *)
(* instruction (comunicacion_cpu_memoria.c).                               *)
THEOREM RespuestaFiel ==
    ASSUME NEW op \in Empaquetadas,
           NEW d, Enviable(EscribeRespuesta(op), d), TamanioRespuesta(op, d) \in Enteros
    PROVE  LET b == BufferRespuesta(op, d)
           IN  /\ b.size = TamanioRespuesta(op, d)
               /\ Len(b.stream) = b.size /\ b.offset = b.size
               /\ Deserializar(LeeRespuesta(op), b.stream) = [offset |-> b.size, datos |-> d]
<1> PICK campos : campos = EscribeRespuesta(op)
  OBVIOUS
<1> PICK n : n = TamanioRespuesta(op, d)
  OBVIOUS
<1> PICK b : b = BufferRespuesta(op, d)
  OBVIOUS
<1>1. Formato(campos) /\ Enviable(campos, d) /\ n \in Enteros /\ Mide(campos, d, n)
  BY FormatosRespuesta, MedidasRespuesta
<1>2. b = Serializar(campos, n, d)
  BY DEF BufferRespuesta
<1>3. /\ b.size = n /\ Len(b.stream) = b.size /\ b.offset = b.size
      /\ Deserializar(campos, b.stream) = [offset |-> b.size, datos |-> d]
  BY <1>1, <1>2, CamposFieles
<1>4. LeeRespuesta(op) = campos
  BY FormatosRespuesta
<1> QED
  BY <1>3, <1>4

(* Both ends agree on what comes after a request: the client waits for     *)
(* what the server sends, or leaves a connection that is for one request.  *)
LEMMA Acuerdo ==
    ASSUME NEW c \in Cinco, NEW op \in Pedidos(c), op # "CANCELAR_HILO"
    PROVE  /\ Responde(c, op) \in {"nada", "operacion", "paquete", "dato"}
           /\ Responde(c, op) = "paquete" => op \in Empaquetadas
           /\ \A e \in EsperaRespuesta(c, op) :
                 e = Responde(c, op) \/ (c \in Efimeras /\ e = "nada")
<1>1. CASE c = "kernel_cpu"
  BY <1>1 DEF Pedidos, Responde, EsperaRespuesta, Efimeras, Empaquetadas
<1>2. CASE c = "cpu_kernel"
  <2>1. op \in {"CREAR_HILO", "CREAR_PROCESO", "CREAR_MUTEX", "BLOQUEAR_MUTEX",
                "DESBLOQUEAR_MUTEX", "ESPERAR_HILO", "IO", "FINALIZAR_HILO",
                "FINALIZAR_PROCESO", "DUMP_MEMORY", "DESALOJAR_HILO"}
    BY <1>2 DEF Pedidos
  <2> QED
    BY <1>2, <2>1 DEF Responde, EsperaRespuesta, Efimeras, Empaquetadas
<1>3. CASE c = "cpu_memoria"
  <2>1. op \in {"DEVOLVER_CONTEXTO_EJECUCION", "ACTUALIZAR_CONTEXTO", "DEVOLVER_INSTRUCCION",
                "LEER_MEMORIA", "ESCRIBIR_MEMORIA"}
    BY <1>3 DEF Pedidos
  <2> QED
    BY <1>3, <2>1 DEF Responde, EsperaRespuesta, Efimeras, Empaquetadas
<1>4. CASE c = "kernel_memoria"
  <2>1. op \in {"CREAR_HILO", "FINALIZAR_HILO", "CREAR_PROCESO", "FINALIZAR_PROCESO",
                "DUMP_MEMORY"}
    BY <1>4 DEF Pedidos
  <2> QED
    BY <1>4, <2>1 DEF Responde, EsperaRespuesta, Efimeras, Empaquetadas
<1>5. CASE c = "memoria_filesystem"
  BY <1>5 DEF Pedidos, Responde, EsperaRespuesta, Efimeras, Empaquetadas
<1> QED
  BY <1>1, <1>2, <1>3, <1>4, <1>5 DEF Cinco
-----------------------------------------------------------------------------
(* The invariant. *)

Solicitudes(c) ==
    {r \in [op : Pedidos(c) \ SinPedir, datos : UNION {Datos(Escribe(c, op)) : op \in Pedidos(c)}] :
        r.datos \in Datos(Escribe(c, r.op))}

Valores == Enviadas \cup Palabras \cup UNION {Datos(EscribeRespuesta(op)) : op \in Empaquetadas}

Contestaciones == [pedido : Nat, valor : Valores]

Canales == [viajan : Seq(Octetos), llegaron : Seq(Octetos)]

(* The bytes that a direction still holds. *)
Total(canal) == canal.llegaron \o canal.viajan

Tipos ==
    /\ conexion \in Conexiones
    /\ ida \in Canales /\ vuelta \in Canales
    /\ cliente \in [espera : {"nada", "operacion", "dato", "paquete", "tamanio", "contenido"},
                    tamanio : Nat]
    /\ servidor \in [espera : {"operacion", "tamanio", "contenido", "responder"},
                     op : Enviadas \cup {"desconocida"}, tamanio : Nat]
    /\ enviados \in Seq(Solicitudes(conexion)) /\ recibidos \in Seq(Solicitudes(conexion))
    /\ respondidas \in Seq(Contestaciones) /\ respuestas \in Seq(Contestaciones)

(* The packet of a message, without its code. *)
Cuerpo(b) == Bytes(b.size) \o b.stream

MensajeDe(r) == Mensaje(conexion, r.op, r.datos)
BufferDe(r) == BufferPedido(conexion, r.op, r.datos)

(* What the server has left to read is the rest of the request in course   *)
(* and the requests after it.                                              *)
Pendientes(F) ==
    /\ F[Len(enviados)] = <<>>
    /\ \A j \in 1..Len(enviados) : F[j - 1] = MensajeDe(enviados[j]) \o F[j]

PorLeer(F) ==
    LET m == Len(recibidos)
    IN  IF servidor.espera \in {"operacion", "responder"} THEN Total(ida) = F[m]
        ELSE /\ m < Len(enviados)
             /\ servidor.op = enviados[m + 1].op
             /\ ~SinBuffer(conexion, servidor.op)
             /\ IF servidor.espera = "tamanio"
                THEN Total(ida) = Cuerpo(BufferDe(enviados[m + 1])) \o F[m + 1]
                ELSE /\ servidor.tamanio = BufferDe(enviados[m + 1]).size
                     /\ Total(ida) = BufferDe(enviados[m + 1]).stream \o F[m + 1]

IdaBien ==
    /\ Len(recibidos) <= Len(enviados)
    /\ \A j \in 1..Len(recibidos) : recibidos[j] = enviados[j]
    /\ \E F \in [0..Len(enviados) -> Seq(Octetos)] : Pendientes(F) /\ PorLeer(F)

(* Of the requests that the server has not read, only the last one may     *)
(* have an answer.                                                         *)
Contesta(r) == Responde(conexion, r.op) # "nada"

Turnos ==
    /\ \A j \in Len(recibidos) + 1..Len(enviados) - 1 : ~Contesta(enviados[j])
    /\ servidor.espera = "responder" =>
          /\ Len(recibidos) = Len(enviados) /\ Len(enviados) > 0
          /\ servidor.op = enviados[Len(enviados)].op
          /\ Contesta(enviados[Len(enviados)])
    /\ conexion \in Efimeras => Len(enviados) <= 1

Tranquila == Len(respuestas) = Len(respondidas) /\ Total(vuelta) = <<>>

(* The client that waits for nothing, and may ask again.                   *)
Libre ==
    cliente.espera = "nada" /\ (conexion \notin Efimeras \/ Len(enviados) = 0)
    => /\ Tranquila /\ servidor.espera # "responder"
       /\ Len(recibidos) < Len(enviados) => ~Contesta(enviados[Len(enviados)])

(* What it has left to read of an answer.                                  *)
PorRecibir(op, v) ==
    LET b == BufferRespuesta(op, v)
    IN  CASE Responde(conexion, op) = "operacion" ->
               v \in Enviadas /\ cliente.espera = "operacion" /\ Total(vuelta) = Bytes(Codigo(v))
          [] Responde(conexion, op) = "dato" ->
               /\ v \in Palabras /\ cliente.espera = "dato" /\ Total(vuelta) = Bytes(v)
               /\ vuelta.llegaron = <<>> \/ vuelta.viajan = <<>>
          [] Responde(conexion, op) = "paquete" ->
               /\ v \in Datos(EscribeRespuesta(op))
               /\ \/ cliente.espera = "paquete" /\ Total(vuelta) = Bytes(Codigo(op)) \o Cuerpo(b)
                  \/ cliente.espera = "tamanio" /\ Total(vuelta) = Cuerpo(b)
                  \/ /\ cliente.espera = "contenido" /\ cliente.tamanio = b.size
                     /\ Total(vuelta) = b.stream
          [] OTHER -> FALSE

Esperando ==
    cliente.espera # "nada" =>
        LET n == Len(enviados)
            op == enviados[n].op
        IN  /\ n > 0
            /\ Contesta(enviados[n])
            /\ \/ /\ Tranquila /\ cliente.espera = Responde(conexion, op)
                  /\ Len(recibidos) < n \/ servidor.espera = "responder"
               \/ /\ Len(recibidos) = n /\ servidor.espera = "operacion"
                  /\ Len(respondidas) = Len(respuestas) + 1
                  /\ respondidas[Len(respondidas)].pedido = n
                  /\ PorRecibir(op, respondidas[Len(respondidas)].valor)

Contestadas ==
    /\ Len(respuestas) <= Len(respondidas)
    /\ \A j \in 1..Len(respuestas) : respuestas[j] = respondidas[j]

Inv ==
    Tipos /\ IdaBien /\ Turnos /\ Libre /\ Esperando /\ Contestadas /\ justo

-----------------------------------------------------------------------------
(* What is written in a message and what a channel holds.                  *)

(* Sequences of bytes put together and cut. *)
LEMMA Asociar == \A s, t, u \in Seq(Octetos) : (s \o t) \o u = s \o (t \o u)
  BY ConcatAssociative

(* g goes on with m after y. *)
Sigue(y, m, g) == \A x \in Seq(Octetos) : (x \o y) \o m = x \o g

(* What goes on, goes on after anything.                                   *)
LEMMA Seguir == \A y, m \in Seq(Octetos) : \A g : g = y \o m => Sigue(y, m, g)
  BY Asociar DEF Sigue

Pegado(w, s, t) ==
    /\ w \in Seq(Octetos) /\ Len(w) = Len(s) + Len(t)
    /\ Len(s) \in Nat /\ Len(t) \in Nat
    /\ \A i \in 1..Len(s) : w[i] = s[i]
    /\ \A i \in 1..Len(t) : w[Len(s) + i] = t[i]

(* The elements of two sequences put together are those of the two.        *)
LEMMA Pegar == \A s, t \in Seq(Octetos) : Pegado(s \o t, s, t)
  BY DEF Pegado

Cortado(s, n, r, t) ==
    /\ r \in Seq(Octetos) /\ Len(r) = n /\ \A i \in 1..n : r[i] = s[i]
    /\ t \in Seq(Octetos) /\ Len(t) = Len(s) - n
    /\ \A i \in 1..Len(s) - n : t[i] = s[n + i]

(* The elements of the two parts of a sequence are those of the sequence.  *)
LEMMA Cortar ==
    \A s \in Seq(Octetos) : \A n \in 0..Len(s) :
        Cortado(s, n, SubSeq(s, 1, n), SubSeq(s, n + 1, Len(s)))
  BY DEF Cortado

(* Sequences with the same elements are the same.                          *)
LEMMA Igualar ==
    \A s, t \in Seq(Octetos) :
        Len(s) = Len(t) /\ (\A i \in 1..Len(s) : s[i] = t[i]) => s = t
  BY SeqEqual

(* A position of a sequence put together is in one of the two.             *)
Lado(a, b, i) == i \in 1..a \/ \E k \in 1..b : i = a + k

(* A position is in the first sequence or in the second.                   *)
LEMMA Lados == \A a, b \in Nat : \A i \in 1..a + b : Lado(a, b, i)
<1> SUFFICES ASSUME NEW a \in Nat, NEW b \in Nat, NEW i \in 1..a + b, i > a
             PROVE  \E k \in 1..b : i = a + k
  BY DEF Lado
<1>1. i - a \in 1..b /\ i = a + (i - a)
  OBVIOUS
<1> QED
  BY <1>1

(* What is after the first elements of two equal sequences is equal too.   *)
Despegado(p, q, n, m, z) ==
    /\ SubSeq(p, 1, n) = m
    /\ SubSeq(p, n + 1, Len(p)) \in Seq(Octetos)
    /\ SubSeq(p, n + 1, Len(p)) \o q = z

(* When what is put before is no longer, its rest is what follows.         *)
LEMMA Despegar ==
    \A p, q, m, z \in Seq(Octetos) :
        p \o q = m \o z /\ Len(m) <= Len(p) => Despegado(p, q, Len(m), m, z)
<1> TAKE p, q, m, z \in Seq(Octetos)
<1> PICK w : w = p \o q
  OBVIOUS
<1> PICK n : n = Len(m)
  OBVIOUS
<1> PICK r : r = SubSeq(p, 1, n)
  OBVIOUS
<1> PICK t : t = SubSeq(p, n + 1, Len(p))
  OBVIOUS
<1> PICK u : u = t \o q
  OBVIOUS
<1> SUFFICES ASSUME w = m \o z, n <= Len(p)
             PROVE  r = m /\ t \in Seq(Octetos) /\ u = z
  BY Zenon DEF Despegado
<1>1. /\ Len(w) = Len(p) + Len(q)
      /\ Len(p) \in Nat /\ Len(q) \in Nat
      /\ \A i \in 1..Len(p) : w[i] = p[i]
      /\ \A i \in 1..Len(q) : w[Len(p) + i] = q[i]
  <2>1. Pegado(w, p, q)
    BY Zenon, Pegar
  <2> QED
    BY Zenon, <2>1 DEF Pegado
<1>2. /\ Len(w) = n + Len(z)
      /\ n \in Nat /\ Len(z) \in Nat
      /\ \A i \in 1..n : w[i] = m[i]
      /\ \A i \in 1..Len(z) : w[n + i] = z[i]
  <2>1. Pegado(w, m, z)
    BY Zenon, Pegar
  <2> QED
    BY Zenon, <2>1 DEF Pegado
<1>3. n \in 0..Len(p)
  BY <1>1, <1>2
<1>4. /\ r \in Seq(Octetos) /\ Len(r) = n /\ \A i \in 1..n : r[i] = p[i]
      /\ t \in Seq(Octetos) /\ Len(t) = Len(p) - n
      /\ \A i \in 1..Len(p) - n : t[i] = p[n + i]
  BY Zenon, <1>3, Cortar DEF Cortado
<1>5. r = m
  <2>1. ASSUME NEW i \in 1..Len(r)
        PROVE  r[i] = m[i]
    <3>1. i \in 1..n /\ i \in 1..Len(p)
      BY <1>1, <1>2, <1>4
    <3> QED
      BY Zenon, <1>1, <1>2, <1>4, <3>1
  <2> QED
    BY Zenon, <1>4, <2>1, Igualar
<1>6. /\ u \in Seq(Octetos) /\ Len(u) = Len(t) + Len(q)
      /\ \A i \in 1..Len(t) : u[i] = t[i]
      /\ \A i \in 1..Len(q) : u[Len(t) + i] = q[i]
  <2>1. Pegado(u, t, q)
    BY Zenon, <1>4, Pegar
  <2> QED
    BY Zenon, <2>1 DEF Pegado
<1>7. Len(u) = Len(z) /\ Len(t) \in Nat
  BY <1>1, <1>2, <1>4, <1>6
<1>8. ASSUME NEW i \in 1..Len(u)
      PROVE  u[i] = z[i]
  <2>1. z[i] = w[n + i]
    BY Zenon, <1>2, <1>7
  <2>2. i \in 1..Len(t) + Len(q)
    BY Zenon, <1>6
  <2>3. CASE i \in 1..Len(t)
    <3>1. i \in 1..Len(p) - n /\ n + i \in 1..Len(p)
      BY <1>1, <1>2, <1>4, <2>3
    <3> QED
      BY Zenon, <1>1, <1>4, <1>6, <2>1, <2>3, <3>1
  <2>4. CASE \E k \in 1..Len(q) : i = Len(t) + k
    <3>1. PICK k \in 1..Len(q) : i = Len(t) + k
      BY Zenon, <2>4
    <3>2. n + i = Len(p) + k
      BY <1>1, <1>2, <1>4, <3>1
    <3> QED
      BY ZenonT(30), <1>1, <1>6, <2>1, <3>1, <3>2
  <2>5. Lado(Len(t), Len(q), i)
    BY Zenon, <1>1, <1>7, <2>2, Lados
  <2> QED
    BY Zenon, <2>3, <2>4, <2>5 DEF Lado
<1> QED
  BY Zenon, <1>4, <1>5, <1>6, <1>7, <1>8, Igualar

(* A sequence cut in two. *)
LEMMA Partir ==
    \A q \in Seq(Octetos) : \A n \in 0..Len(q) :
        /\ SubSeq(q, 1, n) \o SubSeq(q, n + 1, Len(q)) = q
        /\ n = Len(q) => SubSeq(q, n + 1, Len(q)) = <<>>
<1> TAKE q \in Seq(Octetos)
<1> TAKE n \in 0..Len(q)
<1> PICK r : r = SubSeq(q, 1, n)
  OBVIOUS
<1> PICK t : t = SubSeq(q, n + 1, Len(q))
  OBVIOUS
<1> PICK u : u = r \o t
  OBVIOUS
<1>1. /\ r \in Seq(Octetos) /\ Len(r) = n /\ \A i \in 1..n : r[i] = q[i]
      /\ t \in Seq(Octetos) /\ Len(t) = Len(q) - n
      /\ \A i \in 1..Len(q) - n : t[i] = q[n + i]
  BY Zenon, Cortar DEF Cortado
<1>2. /\ u \in Seq(Octetos) /\ Len(u) = Len(r) + Len(t)
      /\ Len(r) \in Nat /\ Len(t) \in Nat
      /\ \A i \in 1..Len(r) : u[i] = r[i]
      /\ \A i \in 1..Len(t) : u[Len(r) + i] = t[i]
  <2>1. Pegado(u, r, t)
    BY Zenon, <1>1, Pegar
  <2> QED
    BY Zenon, <2>1 DEF Pegado
<1>3. Len(u) = Len(q)
  <2>1. Len(r) = n /\ Len(t) = Len(q) - n /\ Len(u) = Len(r) + Len(t) /\ Len(q) \in Nat
    BY <1>1, <1>2
  <2>2. \A a \in Nat : \A k \in 0..a : k + (a - k) = a
    OBVIOUS
  <2> QED
    BY Zenon, <2>1, <2>2
<1>4. ASSUME NEW i \in 1..Len(u)
      PROVE  u[i] = q[i]
  <2>1. i \in 1..Len(r) + Len(t)
    BY Zenon, <1>2
  <2>2. CASE i \in 1..Len(r)
    BY Zenon, <1>1, <1>2, <2>2
  <2>3. CASE \E k \in 1..Len(t) : i = Len(r) + k
    <3>1. PICK k \in 1..Len(t) : i = Len(r) + k
      BY Zenon, <2>3
    <3> QED
      BY Zenon, <1>1, <1>2, <3>1
  <2>4. Lado(Len(r), Len(t), i)
    BY Zenon, <1>2, <2>1, Lados
  <2> QED
    BY Zenon, <2>2, <2>3, <2>4 DEF Lado
<1>5. u = q
  BY Zenon, <1>2, <1>3, <1>4, Igualar
<1>6. n = Len(q) => t = <<>>
  BY <1>1, EmptySeq
<1> QED
  BY Zenon, <1>5, <1>6

(* A packet is the code, the size and the bytes of its buffer; the other   *)
(* end gets from it the fields that were put.                              *)
LEMMA PaqueteBien ==
    ASSUME NEW campos, Formato(campos), NEW d, Enviable(campos, d), NEW op \in Enviadas,
           NEW n \in Enteros, Mide(campos, d, n), NEW b, b = Serializar(campos, n, d)
    PROVE  /\ b.stream \in Seq(Octetos) /\ b.size \in Enteros /\ b.size \in Nat
           /\ Len(b.stream) = b.size /\ b.offset = b.size
           /\ Deserializar(campos, b.stream) = [offset |-> b.size, datos |-> d]
           /\ Cuerpo(b) \in Seq(Octetos)
           /\ serializar_paquete(op, b) = Bytes(Codigo(op)) \o Cuerpo(b)
<1>1. /\ b.stream \in Seq(Octetos) /\ b.size \in Enteros
      /\ Len(b.stream) = b.size /\ b.offset = b.size
      /\ Deserializar(campos, b.stream) = [offset |-> b.size, datos |-> d]
  BY CamposFieles
<1>2. b.size \in Nat
  BY <1>1, EnterosNaturales
<1>3. Codigo(op) \in Nat
  BY CodigosDeEnviadas, EnterosNaturales
<1>4. Bytes(Codigo(op)) \in Seq(Octetos) /\ Bytes(b.size) \in Seq(Octetos)
  BY <1>2, <1>3, BytesBien
<1>5. Bytes(b.size) \o b.stream \in Seq(Octetos)
  BY Zenon, <1>1, <1>4, Pegar DEF Pegado
<1>6. Leidos(b.stream, 0, b.size) = b.stream
  <2>1. \A s \in Seq(Octetos) : Leidos(s, 0, Len(s)) = s
    <3>1. \A s \in Seq(Octetos) : Contiene(s, 0, s)
      BY DEF Contiene
    <3>2. TAKE s \in Seq(Octetos)
    <3> QED
      BY <3>1, LeidosAhi
  <2> QED
    BY Zenon, <1>1, <2>1
<1>7. (Bytes(Codigo(op)) \o Bytes(b.size)) \o b.stream
        = Bytes(Codigo(op)) \o (Bytes(b.size) \o b.stream)
  BY ZenonT(30), <1>1, <1>4, Asociar
<1>8. serializar_paquete(op, b) = Bytes(Codigo(op)) \o Cuerpo(b)
  BY Zenon, <1>6, <1>7 DEF serializar_paquete, Cuerpo
<1> QED
  BY Zenon, <1>1, <1>2, <1>5, <1>8 DEF Cuerpo

(* A request, with its buffer or without one.                              *)
EnMensaje(c, op, d, b) ==
    /\ Mensaje(c, op, d) \in Seq(Octetos)
    /\ Bytes(Codigo(op)) \in Seq(Octetos) /\ Len(Bytes(Codigo(op))) = Ancho
    /\ Operacion(Palabra(Bytes(Codigo(op)))) = op
    /\ SinBuffer(c, op) => Mensaje(c, op, d) = Bytes(Codigo(op)) /\ d = <<>>
    /\ ~SinBuffer(c, op) =>
          /\ Mensaje(c, op, d) = Bytes(Codigo(op)) \o Cuerpo(b)
          /\ Cuerpo(b) \in Seq(Octetos)
          /\ b.stream \in Seq(Octetos) /\ b.size \in Enteros /\ b.size \in Nat
          /\ Len(b.stream) = b.size /\ b.offset = b.size
          /\ op # "CANCELAR_HILO" =>
                Deserializar(Lee(c, op), b.stream) = [offset |-> b.size, datos |-> d]

(* Every request that may be sent is such a message: the receiver finds    *)
(* its operation and its fields, and it fills its buffer exactly.          *)
LEMMA MensajeBien ==
    ASSUME NEW c \in Conexiones, NEW op \in Pedidos(c), NEW d \in Datos(Escribe(c, op)),
           NEW b, b = BufferPedido(c, op, d)
    PROVE  EnMensaje(c, op, d, b)
<1>1. c \in Cinco /\ op \in Enviadas
  BY DatosAssumption, OperacionesEnviadas DEF Cinco
<1>2. /\ Codigo(op) \in Enteros /\ Codigo(op) \in Nat
      /\ Operacion(Codigo(op)) = op
  BY <1>1, CodigosDeEnviadas, EnterosNaturales
<1>3. /\ Bytes(Codigo(op)) \in Seq(Octetos) /\ Len(Bytes(Codigo(op))) = Ancho
      /\ Palabra(Bytes(Codigo(op))) = Codigo(op)
  BY <1>2, BytesBien, PalabraDeBytes
<1>4. CASE SinBuffer(c, op)
  <2>1. d = <<>>
    BY <1>4, DatosAssumption DEF SinBuffer
  <2>2. Mensaje(c, op, d) = Bytes(Codigo(op))
    BY <1>4 DEF Mensaje
  <2> QED
    BY <1>2, <1>3, <1>4, <2>1, <2>2 DEF EnMensaje
<1>5. CASE ~SinBuffer(c, op)
  <2>1. Enviable(Escribe(c, op), d) /\ TamanioPedido(c, op, d) \in Enteros
    BY <1>5, DatosAssumption DEF SinBuffer
  <2>2. /\ Formato(Escribe(c, op))
        /\ op # "CANCELAR_HILO" => Lee(c, op) = Escribe(c, op)
        /\ Mide(Escribe(c, op), d, TamanioPedido(c, op, d))
    BY <1>1, <1>5, <2>1, Formatos, LecturaPedido, Medidas
  <2>3. Mensaje(c, op, d) = serializar_paquete(op, b)
    BY <1>5 DEF Mensaje
  <2>4. /\ b.stream \in Seq(Octetos) /\ b.size \in Enteros /\ b.size \in Nat
        /\ Len(b.stream) = b.size /\ b.offset = b.size
        /\ Deserializar(Escribe(c, op), b.stream) = [offset |-> b.size, datos |-> d]
        /\ Cuerpo(b) \in Seq(Octetos)
        /\ serializar_paquete(op, b) = Bytes(Codigo(op)) \o Cuerpo(b)
    <3>1. b = Serializar(Escribe(c, op), TamanioPedido(c, op, d), d)
      BY DEF BufferPedido
    <3> QED
      BY SMTT(30), <1>1, <2>1, <2>2, <3>1, PaqueteBien
  <2>5. Bytes(Codigo(op)) \o Cuerpo(b) \in Seq(Octetos)
    BY <1>3, <2>4, Unidos
  <2> QED
    BY <1>2, <1>3, <1>5, <2>2, <2>3, <2>4, <2>5 DEF EnMensaje
<1> QED
  BY <1>4, <1>5

(* An answer that is a packet.                                             *)
LEMMA RespuestaBien ==
    ASSUME NEW op \in Empaquetadas, NEW d \in Datos(EscribeRespuesta(op)),
           NEW b, b = BufferRespuesta(op, d)
    PROVE  /\ serializar_paquete(op, b) \in Seq(Octetos)
           /\ serializar_paquete(op, b) = Bytes(Codigo(op)) \o Cuerpo(b)
           /\ Bytes(Codigo(op)) \in Seq(Octetos) /\ Len(Bytes(Codigo(op))) = Ancho
           /\ Cuerpo(b) \in Seq(Octetos)
           /\ b.stream \in Seq(Octetos) /\ b.size \in Enteros /\ b.size \in Nat
           /\ Len(b.stream) = b.size /\ b.offset = b.size
           /\ Deserializar(LeeRespuesta(op), b.stream) = [offset |-> b.size, datos |-> d]
<1>1. op \in Enviadas /\ Formato(EscribeRespuesta(op))
  BY FormatosRespuesta DEF Empaquetadas, Enviadas
<1>2. Enviable(EscribeRespuesta(op), d) /\ TamanioRespuesta(op, d) \in Enteros
  BY DatosAssumption DEF Empaquetadas
<1>3. Codigo(op) \in Nat
  BY <1>1, CodigosDeEnviadas, EnterosNaturales
<1>4. Bytes(Codigo(op)) \in Seq(Octetos) /\ Len(Bytes(Codigo(op))) = Ancho
  BY <1>3, BytesBien
<1>5. /\ b.stream \in Seq(Octetos) /\ b.size \in Enteros /\ b.size \in Nat
      /\ Len(b.stream) = b.size /\ b.offset = b.size
      /\ Deserializar(LeeRespuesta(op), b.stream) = [offset |-> b.size, datos |-> d]
      /\ Cuerpo(b) \in Seq(Octetos)
      /\ serializar_paquete(op, b) = Bytes(Codigo(op)) \o Cuerpo(b)
  <2> HIDE DEF Empaquetadas
  <2> PICK campos : campos = EscribeRespuesta(op)
    OBVIOUS
  <2> PICK n : n = TamanioRespuesta(op, d)
    OBVIOUS
  <2>1. Formato(campos) /\ Enviable(campos, d) /\ n \in Enteros /\ campos = LeeRespuesta(op)
    BY <1>1, <1>2, FormatosRespuesta
  <2>2. Mide(campos, d, n)
    BY <1>2, MedidasRespuesta
  <2>3. b = Serializar(campos, n, d)
    BY DEF BufferRespuesta
  <2> QED
    BY <1>1, <2>1, <2>2, <2>3, PaqueteBien
<1>6. Bytes(Codigo(op)) \o Cuerpo(b) \in Seq(Octetos)
  BY <1>4, <1>5, Unidos
<1> QED
  BY <1>4, <1>5, <1>6

(* A channel and its two parts. *)
LEMMA Canal ==
    ASSUME NEW canal \in Canales, NEW s \in Seq(Octetos)
    PROVE  /\ [canal EXCEPT !.viajan = s] = [viajan |-> s, llegaron |-> canal.llegaron]
           /\ [canal EXCEPT !.llegaron = s] = [viajan |-> canal.viajan, llegaron |-> s]
<1> PICK S : S = Seq(Octetos)
  OBVIOUS
<1>1. canal \in [viajan : S, llegaron : S]
  BY Zenon DEF Canales
<1> QED
  BY <1>1

DeCanal(canal, p, q) ==
    canal \in Canales /\ Total(canal) = p \o q /\ canal.llegaron = p /\ canal.viajan = q

(* A channel made of two sequences of bytes holds both.                    *)
LEMMA ParDeCanal ==
    \A p, q \in Seq(Octetos) : DeCanal([viajan |-> q, llegaron |-> p], p, q)
<1> DEFINE par(p, q) == [viajan |-> q, llegaron |-> p]
<1> SUFFICES ASSUME NEW p \in Seq(Octetos), NEW q \in Seq(Octetos)
             PROVE  DeCanal(par(p, q), p, q)
  BY Zenon
<1> DEFINE canal == par(p, q)
<1>1. canal.llegaron = p /\ canal.viajan = q
  OBVIOUS
<1>2. canal \in Canales
  BY DEF Canales
<1> QED
  BY Zenon, <1>1, <1>2 DEF Total, DeCanal

(* What is read of a channel is what was written first.                    *)
Tomado(canal, n, m, z) ==
    Primeros(canal, n) = m /\ Tomar(canal, n) \in Canales /\ Total(Tomar(canal, n)) = z

(* Reading takes what was written first and leaves the rest.               *)
LEMMA Toma ==
    \A canal \in Canales : \A m, z \in Seq(Octetos) : \A n :
        Total(canal) = m \o z /\ n = Len(m) /\ Hay(canal, n) => Tomado(canal, n, m, z)
<1> SUFFICES ASSUME NEW canal \in Canales, NEW m \in Seq(Octetos), NEW z \in Seq(Octetos),
                    Total(canal) = m \o z, NEW n, n = Len(m), Hay(canal, n)
             PROVE  Tomado(canal, n, m, z)
  BY Zenon
<1>1. canal.llegaron \in Seq(Octetos) /\ canal.viajan \in Seq(Octetos)
  BY Zenon DEF Canales
<1>2. n = Len(m) /\ Len(m) <= Len(canal.llegaron)
  BY DEF Hay
<1>3. canal.llegaron \o canal.viajan = m \o z
  BY Zenon DEF Total
<1>4. Despegado(canal.llegaron, canal.viajan, n, m, z)
  BY Zenon, <1>1, <1>2, <1>3, Despegar
<1>5. Tomar(canal, n)
        = [viajan |-> canal.viajan,
           llegaron |-> SubSeq(canal.llegaron, n + 1, Len(canal.llegaron))]
  BY Zenon, <1>4, Canal DEF Tomar, Despegado
<1>6. DeCanal(Tomar(canal, n), SubSeq(canal.llegaron, n + 1, Len(canal.llegaron)), canal.viajan)
  BY Zenon, <1>1, <1>4, <1>5, ParDeCanal DEF Despegado
<1> QED
  BY Zenon, <1>4, <1>6 DEF DeCanal, Despegado, Primeros, Tomado

(* Where bytes can be read there are bytes. *)
LEMMA AlgoHay ==
    ASSUME NEW canal \in Canales, NEW n \in Nat \ {0}, Hay(canal, n)
    PROVE  Total(canal) # <<>>
BY DEF Canales, Hay, Total

(* What is sent goes after what the channel has.                           *)
LEMMA Manda ==
    ASSUME NEW canal \in Canales, NEW m \in Seq(Octetos)
    PROVE  /\ Mandar(canal, m) \in Canales
           /\ Total(Mandar(canal, m)) = Total(canal) \o m
           /\ Mandar(canal, m).llegaron = canal.llegaron
<1>1. canal.llegaron \in Seq(Octetos) /\ canal.viajan \in Seq(Octetos)
  BY Zenon DEF Canales
<1>2. canal.viajan \o m \in Seq(Octetos)
  BY Zenon, <1>1, Pegar DEF Pegado
<1>3. Mandar(canal, m) = [viajan |-> canal.viajan \o m, llegaron |-> canal.llegaron]
  BY Zenon, <1>2, Canal DEF Mandar
<1>4. DeCanal(Mandar(canal, m), canal.llegaron, canal.viajan \o m)
  BY Zenon, <1>1, <1>2, <1>3, ParDeCanal
<1>5. canal.llegaron \o (canal.viajan \o m) = (canal.llegaron \o canal.viajan) \o m
  BY Zenon, <1>1, Asociar
<1> QED
  BY Zenon, <1>4, <1>5 DEF DeCanal, Total

(* The bytes that arrive are the next ones: none is lost or moved.         *)
LEMMA Llega ==
    ASSUME NEW canal \in Canales, NEW n \in 0..Len(canal.viajan)
    PROVE  /\ Llegan(canal, n) \in Canales
           /\ Total(Llegan(canal, n)) = Total(canal)
           /\ n = Len(canal.viajan) => Llegan(canal, n).viajan = <<>>
<1> DEFINE r == SubSeq(canal.viajan, 1, n)
           t == SubSeq(canal.viajan, n + 1, Len(canal.viajan))
<1>1. canal.llegaron \in Seq(Octetos) /\ canal.viajan \in Seq(Octetos)
  BY Zenon DEF Canales
<1>2. r \in Seq(Octetos) /\ t \in Seq(Octetos)
  BY Zenon, <1>1, Cortar DEF Cortado
<1>3. r \o t = canal.viajan /\ (n = Len(canal.viajan) => t = <<>>)
  BY Zenon, <1>1, Partir
<1>4. Llegan(canal, n) = [viajan |-> t, llegaron |-> canal.llegaron \o r]
  BY Zenon DEF Llegan
<1> HIDE DEF r, t
<1>5. (canal.llegaron \o r) \o t = canal.llegaron \o (r \o t)
  BY Zenon, <1>1, <1>2, Asociar
<1>6. canal.llegaron \o r \in Seq(Octetos)
  BY Zenon, <1>1, <1>2, Pegar DEF Pegado
<1>7. DeCanal(Llegan(canal, n), canal.llegaron \o r, t)
  BY Zenon, <1>2, <1>4, <1>6, ParDeCanal
<1> QED
  BY Zenon, <1>3, <1>5, <1>7 DEF DeCanal, Total

-----------------------------------------------------------------------------
(* The invariant holds at the start and after each step.                   *)

(* What a request of the history is: an operation of its connection, that  *)
(* may be asked for, and the data of its fields.                           *)
LEMMA SolicitudBien ==
    ASSUME NEW c \in Conexiones, NEW r \in Solicitudes(c)
    PROVE  /\ r.op \in Pedidos(c) /\ r.op \notin SinPedir /\ r.op \in Enviadas
           /\ r.datos \in Datos(Escribe(c, r.op))
           /\ r = [op |-> r.op, datos |-> r.datos]
           /\ c \in Cinco
<1>1. c \in Cinco
  BY DatosAssumption DEF Cinco
<1> QED
  BY <1>1, OperacionesEnviadas DEF Solicitudes

(* An operation and its data are a request.                                *)
LEMMA SolicitudDe ==
    ASSUME NEW c, NEW op \in Pedidos(c) \ SinPedir, NEW d \in Datos(Escribe(c, op))
    PROVE  [op |-> op, datos |-> d] \in Solicitudes(c)
BY DEF Solicitudes

(* With nothing sent. *)
LEMMA Inicial == Init => Inv
<1> SUFFICES ASSUME Init PROVE Inv
  OBVIOUS
<1> PICK vacio : vacio = <<>>
  OBVIOUS
<1>1. vacio \in Seq(Octetos) /\ Len(vacio) = 0 /\ vacio \o vacio = vacio
  OBVIOUS
<1>2. /\ conexion \in Conexiones /\ ida = Vacio /\ vuelta = Vacio
      /\ cliente = [espera |-> "nada", tamanio |-> 0]
      /\ servidor = [espera |-> "operacion", op |-> "desconocida", tamanio |-> 0]
      /\ enviados = vacio /\ recibidos = vacio /\ respondidas = vacio /\ respuestas = vacio
      /\ justo = TRUE
  BY DEF Init
<1>3. Vacio \in Canales /\ Total(Vacio) = vacio
  BY <1>1 DEF Vacio, Canales, Total
<1>4. \A S : vacio \in Seq(S)
  OBVIOUS
<1>5. Tipos
  BY <1>2, <1>3, <1>4 DEF Tipos
<1>6. Len(enviados) = 0 /\ Len(recibidos) = 0 /\ Len(respondidas) = 0 /\ Len(respuestas) = 0
  BY <1>1, <1>2
<1>7. IdaBien
  <2> DEFINE F == [j \in 0..0 |-> vacio]
  <2>1. F \in [0..Len(enviados) -> Seq(Octetos)] /\ F[0] = vacio
    BY <1>1, <1>6
  <2>2. Pendientes(F)
    BY <1>6, <2>1 DEF Pendientes
  <2>3. PorLeer(F)
    BY <1>2, <1>3, <1>6, <2>1 DEF PorLeer
  <2> QED
    BY <1>6, <2>1, <2>2, <2>3 DEF IdaBien
<1>8. Turnos
  BY <1>2, <1>6 DEF Turnos
<1>9. Libre
  BY <1>2, <1>3, <1>6 DEF Libre, Tranquila
<1>10. Esperando
  BY <1>2 DEF Esperando
<1>11. Contestadas
  BY <1>6 DEF Contestadas
<1> QED
  BY <1>2, <1>5, <1>7, <1>8, <1>9, <1>10, <1>11 DEF Inv

(* What the parts of the invariant depend on. *)
LEMMA MismaIda ==
    ASSUME IdaBien, UNCHANGED <<conexion, servidor, enviados, recibidos>>, Total(ida') = Total(ida)
    PROVE  IdaBien'
BY DEF IdaBien, Pendientes, PorLeer, MensajeDe, BufferDe

(* Whose turn it is depends on the server and on the requests alone.       *)
LEMMA MismosTurnos ==
    ASSUME Turnos, UNCHANGED <<conexion, servidor, enviados, recibidos>>
    PROVE  Turnos'
BY DEF Turnos, Contesta

(* More bytes of the requests arrive. *)
LEMMA PasoLlegaIda ==
    ASSUME Inv, LlegaIda
    PROVE  Inv'
<1>1. ida \in Canales /\ ida.viajan # <<>> /\ ida' = Llegan(ida, 1)
  BY DEF Inv, Tipos, LlegaIda
<1>2. 1 \in 0..Len(ida.viajan)
  <2>1. ida.viajan \in Seq(Octetos)
    BY <1>1 DEF Canales
  <2> QED
    BY <1>1, <2>1
<1>3. ida' \in Canales /\ Total(ida') = Total(ida)
  BY <1>1, <1>2, Llega
<1>4. UNCHANGED <<conexion, vuelta, cliente, servidor, enviados, recibidos, respondidas,
                  respuestas, justo>>
  BY DEF LlegaIda
<1>5. Tipos'
  BY <1>3, <1>4 DEF Inv, Tipos
<1>6. IdaBien'
  BY <1>3, <1>4, MismaIda DEF Inv
<1>7. Turnos'
  BY <1>4, MismosTurnos DEF Inv
<1>8. Libre'
  BY <1>4 DEF Inv, Libre, Tranquila, Contesta
<1>9. Esperando'
  BY <1>4 DEF Inv, Esperando, Tranquila, Contesta, PorRecibir
<1>10. Contestadas'
  BY <1>4 DEF Inv, Contestadas
<1> QED
  BY <1>4, <1>5, <1>6, <1>7, <1>8, <1>9, <1>10 DEF Inv

(* More bytes of an answer arrive. *)
LEMMA PasoLlegaVuelta ==
    ASSUME Inv, LlegaVuelta, ~PalabrasPartidas
    PROVE  Inv'
<1> DEFINE n == IF cliente.espera = "dato" /\ ~PalabrasPartidas THEN Len(vuelta.viajan) ELSE 1
<1>1. vuelta \in Canales /\ vuelta.viajan # <<>> /\ vuelta' = Llegan(vuelta, n)
  BY DEF Inv, Tipos, LlegaVuelta
<1>2. n \in 0..Len(vuelta.viajan)
  <2>1. vuelta.viajan \in Seq(Octetos)
    BY <1>1 DEF Canales
  <2> QED
    BY <1>1, <2>1
<1>3. cliente.espera = "dato" => n = Len(vuelta.viajan)
  OBVIOUS
<1> HIDE DEF n
<1>4. /\ vuelta' \in Canales /\ Total(vuelta') = Total(vuelta)
      /\ cliente.espera = "dato" => vuelta'.viajan = <<>>
  BY <1>1, <1>2, <1>3, Llega
<1>5. UNCHANGED <<conexion, ida, cliente, servidor, enviados, recibidos, respondidas,
                  respuestas, justo>>
  BY DEF LlegaVuelta
<1>6. Tipos'
  BY <1>4, <1>5 DEF Inv, Tipos
<1>7. IdaBien'
  BY <1>5, MismaIda DEF Inv
<1>8. Turnos'
  BY <1>5, MismosTurnos DEF Inv
<1>9. Libre'
  BY <1>4, <1>5 DEF Inv, Libre, Tranquila, Contesta
<1>10. \A op, v : PorRecibir(op, v) => PorRecibir(op, v)'
  BY <1>4, <1>5 DEF PorRecibir
<1>11. Esperando'
  BY <1>4, <1>5, <1>10 DEF Inv, Esperando, Tranquila, Contesta
<1>12. Contestadas'
  BY <1>5 DEF Inv, Contestadas
<1> QED
  BY <1>5, <1>6, <1>7, <1>8, <1>9, <1>11, <1>12 DEF Inv

(* A request is sent after the ones that the server has not read yet, none *)
(* of which has an answer.                                                 *)
LEMMA PasoEnviar ==
    ASSUME Inv, "CANCELAR_HILO" \in SinPedir,
           NEW op \in Pedidos(conexion) \ SinPedir, NEW d \in Datos(Escribe(conexion, op)),
           Enviar(op, d)
    PROVE  Inv'
<1> PICK r : r = [op |-> op, datos |-> d]
  OBVIOUS
<1> PICK m : m = Mensaje(conexion, op, d)
  OBVIOUS
<1> PICK n : n = Len(enviados)
  OBVIOUS
<1>1. /\ cliente.espera = "nada"
      /\ conexion \in Efimeras => n < 1
      /\ ida' = Mandar(ida, m)
      /\ enviados' = Append(enviados, r)
      /\ UNCHANGED <<conexion, vuelta, servidor, recibidos, respondidas, respuestas>>
  BY DEF Enviar
<1>2. PICK e \in EsperaRespuesta(conexion, op) : cliente' = [cliente EXCEPT !.espera = e]
  BY DEF Enviar
<1>3. /\ conexion \in Conexiones /\ conexion \in Cinco /\ ida \in Canales /\ vuelta \in Canales
      /\ enviados \in Seq(Solicitudes(conexion)) /\ recibidos \in Seq(Solicitudes(conexion))
  BY DatosAssumption DEF Inv, Tipos, Cinco
<1>4. r \in Solicitudes(conexion) /\ r.op = op /\ r.datos = d
  BY <1>3, SolicitudDe
<1>5. m \in Seq(Octetos)
  BY <1>3, MensajeBien DEF EnMensaje
<1>6. justo'
  <2> PICK b : b = BufferPedido(conexion, op, d)
    OBVIOUS
  <2>1. SinBuffer(conexion, op) \/ b.offset = b.size
    BY <1>3, MensajeBien DEF EnMensaje
  <2> QED
    BY <2>1 DEF Enviar, Inv
<1>7. /\ n \in Nat /\ Len(enviados') = n + 1 /\ enviados'[n + 1] = r
      /\ \A j \in 1..n : enviados'[j] = enviados[j]
      /\ enviados' \in Seq(Solicitudes(conexion)) /\ Len(recibidos) \in Nat
  <2> PICK S : S = Solicitudes(conexion)
    OBVIOUS
  <2>1. enviados \in Seq(S) /\ recibidos \in Seq(S) /\ r \in S
    BY <1>3, <1>4
  <2> QED
    BY <1>1, <2>1
<1>8. ida' \in Canales /\ Total(ida') = Total(ida) \o m
  BY <1>1, <1>3, <1>5, Manda
<1>9. conexion \in Efimeras => n = 0
  BY <1>1, <1>7
<1>10. /\ Tranquila /\ servidor.espera # "responder"
       /\ Len(recibidos) < n => ~Contesta(enviados[n])
  BY <1>1, <1>9 DEF Inv, Libre
<1>11. /\ Responde(conexion, op) \in {"nada", "operacion", "paquete", "dato"}
       /\ e = Responde(conexion, op) \/ (conexion \in Efimeras /\ e = "nada")
  BY <1>3, Acuerdo
<1>12. /\ cliente'.espera = e /\ e \in {"nada", "operacion", "paquete", "dato"}
       /\ cliente' \in [espera : {"nada", "operacion", "dato", "paquete", "tamanio", "contenido"},
                        tamanio : Nat]
  BY <1>2, <1>11 DEF Inv, Tipos
<1>13. Tipos'
  BY <1>1, <1>3, <1>7, <1>8, <1>12 DEF Inv, Tipos
<1>14. PICK F \in [0..n -> Seq(Octetos)] : Pendientes(F) /\ PorLeer(F)
  BY DEF Inv, IdaBien
<1>15. Len(recibidos) <= n /\ \A j \in 1..Len(recibidos) : recibidos[j] = enviados[j]
  BY DEF Inv, IdaBien
<1>16. IdaBien'
  <2> PICK G : G = [j \in 0..n + 1 |-> IF j = n + 1 THEN <<>> ELSE F[j] \o m]
    OBVIOUS
  <2>1. G \in [0..Len(enviados') -> Seq(Octetos)]
    <3>1. \A j \in 0..n : F[j] \o m \in Seq(Octetos)
      BY <1>5, Pegar DEF Pegado
    <3>2. <<>> \in Seq(Octetos)
      OBVIOUS
    <3>3. \A j \in 0..n + 1 : j # n + 1 => j \in 0..n
      BY <1>7
    <3> QED
      BY Zenon, <1>7, <3>1, <3>2, <3>3
  <2>2. \A j \in 0..n : G[j] = F[j] \o m
    BY <1>7
  <2>3. G[n + 1] = <<>>
    BY <1>7
  <2>4. \A j \in 1..n : MensajeDe(enviados[j])' = MensajeDe(enviados[j])
    BY <1>1, <1>7 DEF MensajeDe
  <2>5. MensajeDe(r)' = m
    BY <1>1, <1>4 DEF MensajeDe
  <2>6. Pendientes(G)'
    <3>1. ASSUME NEW j \in 1..n
          PROVE  G[j - 1] = MensajeDe(enviados[j])' \o G[j]
      <4>1. F[j - 1] = MensajeDe(enviados[j]) \o F[j]
        BY <1>14 DEF Pendientes
      <4>2. G[j - 1] = F[j - 1] \o m /\ G[j] = F[j] \o m
        <5>1. n \in Nat
          BY Zenon, <1>7
        <5>2. j - 1 \in 0..n /\ j \in 0..n
          BY <5>1
        <5> QED
          BY Zenon, <2>2, <5>2
      <4>3. MensajeDe(enviados[j]) \in Seq(Octetos)
        <5>1. enviados[j] \in Solicitudes(conexion)
          BY <1>3
        <5>2. /\ enviados[j].op \in Pedidos(conexion)
              /\ enviados[j].datos \in Datos(Escribe(conexion, enviados[j].op))
          BY Zenon, <1>3, <5>1, SolicitudBien
        <5> QED
          BY <1>3, <5>2, MensajeBien DEF MensajeDe, EnMensaje
      <4>4. F[j] \in Seq(Octetos)
        <5>1. n \in Nat
          BY Zenon, <1>7
        <5>2. j \in 0..n
          BY <5>1
        <5> QED
          BY Zenon, <5>2
      <4>5. (MensajeDe(enviados[j]) \o F[j]) \o m = MensajeDe(enviados[j]) \o (F[j] \o m)
        BY Zenon, <1>5, <4>3, <4>4, Asociar
      <4> QED
        BY Zenon, <2>4, <4>1, <4>2, <4>5
    <3>2. G[n] = m \o G[n + 1]
      <4>1. F[n] = <<>>
        BY <1>14 DEF Pendientes
      <4>2. G[n] = F[n] \o m
        BY <1>7, <2>2
      <4>3. <<>> \o m = m /\ m \o <<>> = m
        BY <1>5, ConcatEmptySeq
      <4> QED
        BY Zenon, <2>3, <4>1, <4>2, <4>3
    <3>3. \A j \in 1..n + 1 : G[j - 1] = MensajeDe(enviados[j])' \o G[j]
      <4> TAKE j \in 1..n + 1
      <4>1. CASE j \in 1..n
        BY <3>1, <4>1
      <4>2. CASE j = n + 1
        <5>1. j - 1 = n
          BY <1>7, <4>2
        <5>2. MensajeDe(enviados[j])' = m
          BY Zenon, <1>7, <2>5, <4>2
        <5> QED
          BY Zenon, <3>2, <4>2, <5>1, <5>2
      <4>3. j \in 1..n \/ j = n + 1
        BY <1>7
      <4> QED
        BY Zenon, <4>1, <4>2, <4>3
    <3> QED
      BY <1>7, <2>3, <3>3 DEF Pendientes
  <2>7. PorLeer(G)'
    <3> PICK k : k = Len(recibidos)
      OBVIOUS
    <3>1. k \in 0..n /\ G[k] = F[k] \o m /\ F[k] \in Seq(Octetos)
      BY <1>7, <1>15, <2>2
    <3>2. CASE servidor.espera \in {"operacion", "responder"}
      <4>1. Total(ida) = F[k]
        BY <1>14, <3>2 DEF PorLeer
      <4> QED
        BY <1>1, <1>8, <3>1, <3>2, <4>1 DEF PorLeer
    <3>3. CASE servidor.espera \notin {"operacion", "responder"}
      <4>1. k < n
        BY <1>14, <3>3 DEF PorLeer
      <4>2. k + 1 \in 1..n
        BY <1>7, <3>1, <4>1
      <4>3. F[k + 1] \in Seq(Octetos)
        BY <1>7, <4>2
      <4>4. G[k + 1] = F[k + 1] \o m
        BY <1>7, <2>2, <4>2
      <4>5. Sigue(F[k + 1], m, G[k + 1])
        BY Zenon, <1>5, <4>3, <4>4, Seguir
      <4> PICK s : s = enviados[k + 1]
        OBVIOUS
      <4> PICK b : b = BufferDe(s)
        OBVIOUS
      <4>6. enviados'[k + 1] = s
        BY <1>7, <4>2
      <4>7. /\ servidor.op = s.op /\ ~SinBuffer(conexion, servidor.op)
            /\ servidor.espera = "tamanio" => Total(ida) = Cuerpo(b) \o F[k + 1]
            /\ servidor.espera # "tamanio" =>
                  servidor.tamanio = b.size /\ Total(ida) = b.stream \o F[k + 1]
        BY <1>14, <3>3 DEF PorLeer
      <4>8. b = BufferPedido(conexion, s.op, s.datos)
        BY DEF BufferDe
      <4>9. s \in Solicitudes(conexion)
        BY <1>3, <4>2
      <4>10. /\ s.op \in Pedidos(conexion) /\ s.datos \in Datos(Escribe(conexion, s.op))
        BY Zenon, <1>3, <4>9, SolicitudBien
      <4>11. Cuerpo(b) \in Seq(Octetos) /\ b.stream \in Seq(Octetos)
        BY <1>3, <4>7, <4>8, <4>10, MensajeBien DEF EnMensaje
      <4>12. /\ servidor'.espera = "tamanio" => Total(ida') = Cuerpo(b) \o G[k + 1]
             /\ servidor'.espera # "tamanio" =>
                   servidor'.tamanio = b.size /\ Total(ida') = b.stream \o G[k + 1]
        BY <1>1, <1>8, <4>5, <4>7, <4>11 DEF Sigue
      <4>13. /\ Len(recibidos') = k /\ servidor' = servidor /\ conexion' = conexion
             /\ Len(enviados') = n + 1
        BY <1>1, <1>7
      <4>14. k < n + 1 /\ n \in Nat
        BY <1>7, <3>1, <4>1
      <4>15. BufferPedido(conexion', enviados'[k + 1].op, enviados'[k + 1].datos) = b
        BY Zenon, <4>6, <4>8, <4>13
      <4> QED
        BY <3>3, <4>6, <4>7, <4>12, <4>13, <4>14, <4>15 DEF PorLeer, BufferDe
    <3> QED
      BY <3>2, <3>3
  <2>8. /\ Len(recibidos') <= Len(enviados')
        /\ \A j \in 1..Len(recibidos') : recibidos'[j] = enviados'[j]
    BY <1>1, <1>7, <1>15
  <2> QED
    BY <2>1, <2>6, <2>7, <2>8 DEF IdaBien
<1>17. \A j \in 1..n : Contesta(enviados[j])' = Contesta(enviados[j])
  BY <1>1, <1>7 DEF Contesta
<1>18. Contesta(r)' <=> Responde(conexion, op) # "nada"
  BY <1>1, <1>4 DEF Contesta
<1>19. \A j \in Len(recibidos) + 1..n : ~Contesta(enviados[j])
  <2>1. \A j \in Len(recibidos) + 1..n - 1 : ~Contesta(enviados[j])
    BY DEF Inv, Turnos
  <2> QED
    BY <1>7, <1>10, <1>15, <2>1
<1>20. Turnos'
  <2>1. \A j \in Len(recibidos)' + 1..Len(enviados)' - 1 : ~Contesta(enviados[j])'
    BY <1>1, <1>7, <1>15, <1>17, <1>19
  <2>2. conexion' \in Efimeras => Len(enviados') <= 1
    BY <1>1, <1>7, <1>9
  <2> QED
    BY <1>1, <1>10, <2>1, <2>2 DEF Turnos
<1>21. Libre'
  BY <1>1, <1>7, <1>10, <1>11, <1>12, <1>18 DEF Libre, Tranquila
<1>22. Esperando'
  <2>1. CASE e = "nada"
    BY <1>12, <2>1 DEF Esperando
  <2>2. CASE e # "nada"
    <3>1. e = Responde(conexion, op) /\ Contesta(enviados[Len(enviados)])'
      BY <1>7, <1>11, <1>18, <2>2
    <3>2. Tranquila' /\ Len(recibidos)' < Len(enviados)' /\ Len(enviados)' > 0
      BY <1>1, <1>7, <1>10, <1>15 DEF Tranquila
    <3>3. cliente'.espera = Responde(conexion', enviados'[Len(enviados')].op)
      BY <1>1, <1>4, <1>7, <1>12, <3>1
    <3> QED
      BY <3>1, <3>2, <3>3 DEF Esperando
  <2> QED
    BY <2>1, <2>2
<1>23. Contestadas'
  BY <1>1 DEF Inv, Contestadas
<1> QED
  BY <1>6, <1>13, <1>16, <1>20, <1>21, <1>22, <1>23 DEF Inv

(* The request that the server reads, or the next one, and its buffer.     *)
Siguiente == enviados[Len(recibidos) + 1]
SuBuffer == BufferDe(Siguiente)

(* The server has read the next request. *)
LEMMA Recibido ==
    ASSUME Inv, Len(recibidos) < Len(enviados), servidor.espera # "responder",
           NEW F \in [0..Len(enviados) -> Seq(Octetos)], Pendientes(F),
           ida' \in Canales, Total(ida') = F[Len(recibidos) + 1],
           recibidos' = Append(recibidos, Siguiente),
           servidor' = [servidor EXCEPT !.op = Siguiente.op,
              !.espera = IF Responde(conexion, Siguiente.op) = "nada" THEN "operacion"
                         ELSE "responder"],
           UNCHANGED <<conexion, vuelta, cliente, enviados, respondidas, respuestas>>, justo'
    PROVE  Inv'
<1> PICK k : k = Len(recibidos)
  OBVIOUS
<1> PICK r : r = Siguiente
  OBVIOUS
<1>0. /\ k < Len(enviados) /\ Total(ida') = F[k + 1] /\ r = enviados[k + 1]
      /\ recibidos' = Append(recibidos, r)
      /\ servidor' = [servidor EXCEPT !.op = r.op,
              !.espera = IF Responde(conexion, r.op) = "nada" THEN "operacion" ELSE "responder"]
  BY Zenon DEF Siguiente
<1> PICK n : n = Len(enviados)
  OBVIOUS
<1>1. /\ conexion \in Conexiones /\ n \in Nat /\ k \in Nat /\ k + 1 \in 1..n
      /\ enviados \in Seq(Solicitudes(conexion)) /\ recibidos \in Seq(Solicitudes(conexion))
  <2>1. /\ conexion \in Conexiones /\ enviados \in Seq(Solicitudes(conexion))
        /\ recibidos \in Seq(Solicitudes(conexion))
    BY DEF Inv, Tipos
  <2> QED
    BY <1>0, <2>1
<1>2. r \in Solicitudes(conexion) /\ r.op \in Enviadas
  <2>1. r \in Solicitudes(conexion)
    BY <1>0, <1>1
  <2> QED
    BY Zenon, <1>1, <2>1, SolicitudBien
<1>3. /\ recibidos' \in Seq(Solicitudes(conexion)) /\ Len(recibidos') = k + 1
      /\ recibidos'[k + 1] = r /\ \A j \in 1..k : recibidos'[j] = recibidos[j]
  BY <1>0, <1>1, <1>2
<1>4. /\ servidor' \in [espera : {"operacion", "tamanio", "contenido", "responder"},
                        op : Enviadas \cup {"desconocida"}, tamanio : Nat]
      /\ servidor'.op = r.op
      /\ Contesta(r) => servidor'.espera = "responder"
      /\ ~Contesta(r) => servidor'.espera = "operacion"
  <2>1. servidor \in [espera : {"operacion", "tamanio", "contenido", "responder"},
                      op : Enviadas \cup {"desconocida"}, tamanio : Nat]
    BY DEF Inv, Tipos
  <2> QED
    BY <1>0, <1>2, <2>1 DEF Contesta
<1>5. Tipos'
  BY <1>1, <1>3, <1>4 DEF Inv, Tipos
<1>6. IdaBien'
  <2>1. \A j \in 1..k + 1 : recibidos'[j] = enviados[j]
    <3>1. \A j \in 1..k : recibidos[j] = enviados[j]
      BY DEF Inv, IdaBien
    <3> QED
      BY <1>0, <1>1, <1>3, <3>1
  <2>2. Pendientes(F)'
    BY DEF Pendientes, MensajeDe
  <2>3. PorLeer(F)'
    BY <1>0, <1>3, <1>4 DEF PorLeer
  <2> QED
    BY <1>1, <1>3, <2>1, <2>2, <2>3 DEF IdaBien
<1>7. /\ \A j \in k + 1..n - 1 : ~Contesta(enviados[j])
      /\ conexion \in Efimeras => n <= 1
  BY DEF Inv, Turnos
<1>8. \A s : Contesta(s)' <=> Contesta(s)
  BY DEF Contesta
<1>9. Contesta(r) => k + 1 = n
  <2>1. k + 1 # n => k + 1 \in k + 1..n - 1
    BY <1>1
  <2> QED
    BY Zenon, <1>0, <1>7, <2>1
<1>10. Turnos'
  <2>1. \A j \in Len(recibidos') + 1..Len(enviados') - 1 : ~Contesta(enviados[j])'
    <3>1. Len(recibidos') + 1..Len(enviados') - 1 \subseteq k + 1..n - 1
      BY <1>1, <1>3
    <3> QED
      BY Zenon, <1>7, <1>8, <3>1
  <2>2. servidor'.espera = "responder" => Contesta(r)
    BY <1>4
  <2>3. servidor'.espera = "responder" =>
          /\ Len(recibidos') = Len(enviados') /\ Len(enviados') > 0
          /\ servidor'.op = enviados'[Len(enviados')].op
          /\ Contesta(enviados[Len(enviados)])'
    <3>1. n > 0
      BY <1>1
    <3> QED
      BY ZenonT(30), <1>0, <1>3, <1>4, <1>8, <1>9, <2>2, <3>1
  <2> QED
    BY Zenon, <1>7, <2>1, <2>3 DEF Turnos
<1>11. Libre'
  <2>1. ASSUME cliente.espera = "nada" /\ (conexion \notin Efimeras \/ n = 0)
        PROVE  /\ Tranquila /\ ~Contesta(r)
               /\ Len(recibidos') < n => ~Contesta(enviados[n])
    BY <1>0, <1>1, <1>3, <1>9, <2>1 DEF Inv, Libre
  <2> QED
    BY <1>4, <1>8, <2>1 DEF Libre, Tranquila
<1>12. Esperando'
  <2>1. CASE cliente.espera = "nada"
    BY <2>1 DEF Esperando
  <2>2. CASE cliente.espera # "nada"
    <3>1. /\ n > 0 /\ Contesta(enviados[n])
          /\ Tranquila /\ cliente.espera = Responde(conexion, enviados[n].op)
      BY <1>0, <1>1, <2>2 DEF Inv, Esperando
    <3>2. Len(recibidos') < n \/ servidor'.espera = "responder"
      BY <1>0, <1>1, <1>3, <1>4, <3>1
    <3> QED
      BY <1>8, <3>1, <3>2 DEF Esperando, Tranquila
  <2> QED
    BY <2>1, <2>2
<1>13. Contestadas'
  BY DEF Inv, Contestadas
<1> QED
  BY <1>5, <1>6, <1>10, <1>11, <1>12, <1>13 DEF Inv

(* What there is of the next request in what is left to read.              *)
LoQueSigue(k, r, b, F) ==
    /\ k \in Nat /\ F[k + 1] \in Seq(Octetos)
    /\ r \in Solicitudes(conexion)
    /\ r.op \in Pedidos(conexion) /\ r.op \notin SinPedir
    /\ r = [op |-> r.op, datos |-> r.datos]
    /\ Bytes(Codigo(r.op)) \in Seq(Octetos) /\ Len(Bytes(Codigo(r.op))) = Ancho
    /\ Operacion(Palabra(Bytes(Codigo(r.op)))) = r.op
    /\ SinBuffer(conexion, r.op) =>
          r.datos = <<>> /\ F[k] = Bytes(Codigo(r.op)) \o F[k + 1]
    /\ ~SinBuffer(conexion, r.op) =>
          /\ F[k] = Bytes(Codigo(r.op)) \o (Cuerpo(b) \o F[k + 1])
          /\ Cuerpo(b) \in Seq(Octetos) /\ Cuerpo(b) \o F[k + 1] \in Seq(Octetos)
          /\ b.stream \in Seq(Octetos) /\ b.size \in Enteros /\ b.size \in Nat
          /\ Len(b.stream) = b.size
          /\ r.op # "CANCELAR_HILO" =>
                Deserializar(Lee(conexion, r.op), b.stream) = [offset |-> b.size, datos |-> r.datos]

(* The bytes that are left begin with those of the next request.           *)
LEMMA EnCurso ==
    ASSUME Inv, Len(recibidos) < Len(enviados),
           NEW F \in [0..Len(enviados) -> Seq(Octetos)], Pendientes(F)
    PROVE  LoQueSigue(Len(recibidos), Siguiente, SuBuffer, F)
<1> PICK k : k = Len(recibidos)
  OBVIOUS
<1> PICK r : r = Siguiente
  OBVIOUS
<1> PICK b : b = SuBuffer
  OBVIOUS
<1>0. k < Len(enviados) /\ r = enviados[k + 1] /\ b = BufferDe(r)
  BY Zenon DEF Siguiente, SuBuffer
<1>1. /\ conexion \in Conexiones /\ k \in Nat /\ Len(enviados) \in Nat /\ k + 1 \in 1..Len(enviados)
      /\ enviados \in Seq(Solicitudes(conexion))
  <2>1. /\ conexion \in Conexiones /\ enviados \in Seq(Solicitudes(conexion))
        /\ recibidos \in Seq(Solicitudes(conexion))
    BY DEF Inv, Tipos
  <2> QED
    BY <1>0, <2>1
<1>2. r \in Solicitudes(conexion) /\ F[k + 1] \in Seq(Octetos)
  BY <1>0, <1>1
<1>3. /\ r.op \in Pedidos(conexion) /\ r.op \notin SinPedir
      /\ r.datos \in Datos(Escribe(conexion, r.op)) /\ r = [op |-> r.op, datos |-> r.datos]
  BY Zenon, <1>1, <1>2, SolicitudBien
<1>4. b = BufferPedido(conexion, r.op, r.datos)
  BY Zenon, <1>0 DEF BufferDe
<1>5. F[k] = Mensaje(conexion, r.op, r.datos) \o F[k + 1]
  <2>1. F[(k + 1) - 1] = MensajeDe(enviados[k + 1]) \o F[k + 1]
    BY <1>1 DEF Pendientes
  <2>2. (k + 1) - 1 = k
    BY <1>1
  <2> QED
    BY Zenon, <1>0, <2>1, <2>2 DEF MensajeDe
<1>6. /\ Bytes(Codigo(r.op)) \in Seq(Octetos) /\ Len(Bytes(Codigo(r.op))) = Ancho
      /\ Operacion(Palabra(Bytes(Codigo(r.op)))) = r.op
      /\ SinBuffer(conexion, r.op) =>
            Mensaje(conexion, r.op, r.datos) = Bytes(Codigo(r.op)) /\ r.datos = <<>>
      /\ ~SinBuffer(conexion, r.op) =>
            /\ Mensaje(conexion, r.op, r.datos) = Bytes(Codigo(r.op)) \o Cuerpo(b)
            /\ Cuerpo(b) \in Seq(Octetos)
            /\ b.stream \in Seq(Octetos) /\ b.size \in Enteros /\ b.size \in Nat
            /\ Len(b.stream) = b.size
            /\ r.op # "CANCELAR_HILO" =>
                  Deserializar(Lee(conexion, r.op), b.stream)
                      = [offset |-> b.size, datos |-> r.datos]
  <2> PICK op : op = r.op
    OBVIOUS
  <2> PICK d : d = r.datos
    OBVIOUS
  <2>1. /\ op \in Pedidos(conexion) /\ d \in Datos(Escribe(conexion, op))
        /\ b = BufferPedido(conexion, op, d)
    BY <1>3, <1>4
  <2>2. EnMensaje(conexion, op, d, b)
    BY <1>1, <2>1, MensajeBien
  <2>3. EnMensaje(conexion, r.op, r.datos, b)
    BY Zenon, <2>2
  <2> QED
    BY Zenon, <2>3 DEF EnMensaje
<1>7. CASE SinBuffer(conexion, r.op)
  BY Zenon, <1>1, <1>2, <1>3, <1>5, <1>6, <1>7 DEF LoQueSigue
<1>8. CASE ~SinBuffer(conexion, r.op)
  <2>1. Cuerpo(b) \o F[k + 1] \in Seq(Octetos)
    BY Zenon, <1>2, <1>6, <1>8, Pegar DEF Pegado
  <2>2. (Bytes(Codigo(r.op)) \o Cuerpo(b)) \o F[k + 1]
          = Bytes(Codigo(r.op)) \o (Cuerpo(b) \o F[k + 1])
    <3>1. Sigue(Cuerpo(b), F[k + 1], Cuerpo(b) \o F[k + 1])
      BY Zenon, <1>2, <1>6, <1>8, Seguir
    <3> QED
      BY Zenon, <1>6, <3>1 DEF Sigue
  <2>3. F[k] = Bytes(Codigo(r.op)) \o (Cuerpo(b) \o F[k + 1])
    BY Zenon, <1>5, <1>6, <1>8, <2>2
  <2> QED
    BY Zenon, <1>1, <1>2, <1>3, <1>6, <1>8, <2>1, <2>3 DEF LoQueSigue
<1> QED
  BY Zenon, <1>7, <1>8

(* The server reads the code of the next request: it is the code of an     *)
(* operation that it attends.                                              *)
LEMMA PasoServidorOperacion ==
    ASSUME Inv, "CANCELAR_HILO" \in SinPedir, ServidorOperacion
    PROVE  Inv'
<1> PICK k : k = Len(recibidos)
  OBVIOUS
<1>1. /\ servidor.espera = "operacion" /\ Hay(ida, Ancho) /\ ida' = Tomar(ida, Ancho)
      /\ UNCHANGED <<conexion, vuelta, cliente, enviados, respondidas, respuestas, justo>>
  BY DEF ServidorOperacion
<1>2. ida \in Canales /\ k \in Nat /\ Len(enviados) \in Nat /\ k <= Len(enviados)
  BY DEF Inv, Tipos, IdaBien
<1>3. PICK F \in [0..Len(enviados) -> Seq(Octetos)] : Pendientes(F) /\ PorLeer(F)
  BY DEF Inv, IdaBien
<1>4. Total(ida) = F[k]
  BY <1>1, <1>3 DEF PorLeer
<1>5. k < Len(enviados)
  <2>1. Total(ida) # <<>>
    BY <1>1, <1>2, EnterosNaturales, AlgoHay
  <2>2. F[Len(enviados)] = <<>>
    BY <1>3 DEF Pendientes
  <2>3. k # Len(enviados)
    BY Zenon, <1>4, <2>1, <2>2
  <2> QED
    BY <1>2, <2>3
<1> PICK r : r = Siguiente
  OBVIOUS
<1> PICK b : b = SuBuffer
  OBVIOUS
<1>6. /\ F[k + 1] \in Seq(Octetos)
      /\ r.op \in Pedidos(conexion) /\ r.op \notin SinPedir
      /\ r = [op |-> r.op, datos |-> r.datos]
      /\ Bytes(Codigo(r.op)) \in Seq(Octetos) /\ Len(Bytes(Codigo(r.op))) = Ancho
      /\ Operacion(Palabra(Bytes(Codigo(r.op)))) = r.op
      /\ SinBuffer(conexion, r.op) =>
            r.datos = <<>> /\ F[k] = Bytes(Codigo(r.op)) \o F[k + 1]
      /\ ~SinBuffer(conexion, r.op) =>
            /\ F[k] = Bytes(Codigo(r.op)) \o (Cuerpo(b) \o F[k + 1])
            /\ Cuerpo(b) \o F[k + 1] \in Seq(Octetos)
  <2>1. LoQueSigue(Len(recibidos), Siguiente, SuBuffer, F)
    BY <1>3, <1>5, EnCurso
  <2>2. LoQueSigue(k, r, b, F)
    BY Zenon, <2>1
  <2> QED
    BY Zenon, <2>2 DEF LoQueSigue
<1>7. r.op \in Atiende(conexion)
  BY <1>6 DEF Atiende
<1>8. PICK z \in Seq(Octetos) :
        z = IF SinBuffer(conexion, r.op) THEN F[k + 1] ELSE Cuerpo(b) \o F[k + 1]
  BY <1>6
<1>9. Total(ida) = Bytes(Codigo(r.op)) \o z
  BY Zenon, <1>4, <1>6, <1>8
<1>10. Primeros(ida, Ancho) = Bytes(Codigo(r.op)) /\ ida' \in Canales /\ Total(ida') = z
  <2>1. Tomado(ida, Ancho, Bytes(Codigo(r.op)), z)
    BY Zenon, <1>1, <1>2, <1>6, <1>9, Toma
  <2> QED
    BY Zenon, <1>1, <2>1 DEF Tomado
<1>11. Operacion(Palabra(Primeros(ida, Ancho))) = r.op
  BY Zenon, <1>6, <1>10
<1>12. CASE SinBuffer(conexion, r.op)
  <2>1. Atender(r.op, <<>>)
    BY Zenon, <1>7, <1>11, <1>12 DEF ServidorOperacion
  <2>2. recibidos' = Append(recibidos, r)
    BY Zenon, <1>6, <1>12, <2>1 DEF Atender
  <2>3. servidor' = [servidor EXCEPT !.op = r.op,
            !.espera = IF Responde(conexion, r.op) = "nada" THEN "operacion" ELSE "responder"]
    BY Zenon, <2>1 DEF Atender
  <2>4. Total(ida') = F[k + 1]
    BY Zenon, <1>8, <1>10, <1>12
  <2>5. servidor.espera # "responder" /\ justo'
    BY <1>1 DEF Inv
  <2>6. recibidos' = Append(recibidos, Siguiente)
    BY Zenon, <2>2
  <2>7. servidor' = [servidor EXCEPT !.op = Siguiente.op,
           !.espera = IF Responde(conexion, Siguiente.op) = "nada" THEN "operacion"
                      ELSE "responder"]
    BY Zenon, <2>3
  <2>8. Total(ida') = F[Len(recibidos) + 1] /\ Len(recibidos) < Len(enviados)
    BY Zenon, <1>5, <2>4
  <2> QED
    BY <1>1, <1>3, <1>10, <2>5, <2>6, <2>7, <2>8, Recibido
<1>13. CASE ~SinBuffer(conexion, r.op)
  <2>1. /\ servidor' = [servidor EXCEPT !.espera = "tamanio", !.op = r.op]
        /\ UNCHANGED recibidos
    BY Zenon, <1>7, <1>11, <1>13 DEF ServidorOperacion
  <2>2. Total(ida') = Cuerpo(b) \o F[k + 1]
    BY Zenon, <1>8, <1>10, <1>13
  <2>3. r.op \in Enviadas
    <3>1. conexion \in Cinco
      BY DatosAssumption DEF Inv, Tipos, Cinco
    <3> QED
      BY <1>6, <3>1, OperacionesEnviadas
  <2>4. /\ servidor' \in [espera : {"operacion", "tamanio", "contenido", "responder"},
                          op : Enviadas \cup {"desconocida"}, tamanio : Nat]
        /\ servidor'.espera = "tamanio" /\ servidor'.op = r.op
    <3>1. servidor \in [espera : {"operacion", "tamanio", "contenido", "responder"},
                        op : Enviadas \cup {"desconocida"}, tamanio : Nat]
      BY DEF Inv, Tipos
    <3> QED
      BY <2>1, <2>3, <3>1
  <2>5. Tipos'
    BY <1>1, <1>10, <2>1, <2>4 DEF Inv, Tipos
  <2>6. IdaBien'
    <3>1. Pendientes(F)'
      BY <1>1, <1>3 DEF Pendientes, MensajeDe
    <3>2. /\ enviados'[k + 1] = r /\ Len(recibidos') = k
          /\ b = BufferPedido(conexion, r.op, r.datos)
      BY Zenon, <1>1, <2>1 DEF BufferDe, Siguiente, SuBuffer
    <3>3. PorLeer(F)'
      <4>1. /\ servidor'.espera \notin {"operacion", "responder"}
            /\ Len(recibidos') < Len(enviados')
            /\ servidor'.op = enviados'[Len(recibidos') + 1].op
            /\ ~SinBuffer(conexion', servidor'.op)
        BY <1>1, <1>5, <1>13, <2>4, <3>2
      <4>2. BufferDe(enviados[Len(recibidos) + 1])' = b
        BY Zenon, <1>1, <3>2 DEF BufferDe
      <4>3. Total(ida') = Cuerpo(BufferDe(enviados[Len(recibidos) + 1])') \o F[Len(recibidos') + 1]
        BY Zenon, <2>2, <3>2, <4>2
      <4> QED
        BY Zenon, <2>4, <4>1, <4>3 DEF PorLeer
    <3> QED
      BY <1>1, <1>3, <2>1, <3>1, <3>3 DEF Inv, IdaBien
  <2>7. Turnos'
    BY <1>1, <2>1, <2>4 DEF Inv, Turnos, Contesta
  <2>8. Libre'
    BY <1>1, <2>1, <2>4 DEF Inv, Libre, Tranquila, Contesta
  <2>9. Esperando'
    <3>1. \A op, v : PorRecibir(op, v) => PorRecibir(op, v)'
      BY <1>1 DEF PorRecibir
    <3>2. k \in Nat /\ Len(recibidos') = k /\ k < Len(enviados') /\ cliente' = cliente
      BY <1>1, <1>2, <1>5, <2>1
    <3>3. cliente.espera # "nada" =>
             /\ Len(enviados) > 0 /\ Contesta(enviados[Len(enviados)])
             /\ Tranquila /\ cliente.espera = Responde(conexion, enviados[Len(enviados)].op)
      BY <1>1, <1>2, <1>5 DEF Inv, Esperando
    <3> QED
      BY <1>1, <3>2, <3>3 DEF Esperando, Tranquila, Contesta
  <2>10. Contestadas'
    BY <1>1 DEF Inv, Contestadas
  <2> QED
    BY <1>1, <2>5, <2>6, <2>7, <2>8, <2>9, <2>10 DEF Inv
<1> QED
  BY <1>12, <1>13

(* Of a request with a buffer, what is left of it and of the next ones.    *)
LEMMA EnMitad ==
    ASSUME Inv, servidor.espera \in {"tamanio", "contenido"},
           NEW F \in [0..Len(enviados) -> Seq(Octetos)], PorLeer(F)
    PROVE  /\ Len(recibidos) < Len(enviados)
           /\ servidor.op = Siguiente.op /\ ~SinBuffer(conexion, Siguiente.op)
           /\ servidor.espera = "tamanio" =>
                 Total(ida) = Cuerpo(SuBuffer) \o F[Len(recibidos) + 1]
           /\ servidor.espera = "contenido" =>
                 /\ servidor.tamanio = SuBuffer.size
                 /\ Total(ida) = SuBuffer.stream \o F[Len(recibidos) + 1]
BY DEF PorLeer, Siguiente, SuBuffer

(* The server reads the size of the buffer. *)
LEMMA PasoServidorTamanio ==
    ASSUME Inv, ServidorTamanio
    PROVE  Inv'
<1> PICK k : k = Len(recibidos)
  OBVIOUS
<1>1. /\ servidor.espera = "tamanio" /\ Hay(ida, Ancho) /\ ida' = Tomar(ida, Ancho)
      /\ servidor' = [servidor EXCEPT !.espera = "contenido",
                                      !.tamanio = Palabra(Primeros(ida, Ancho))]
      /\ UNCHANGED <<conexion, vuelta, cliente, enviados, recibidos, respondidas, respuestas,
                     justo>>
  BY DEF ServidorTamanio
<1>2. ida \in Canales
  BY DEF Inv, Tipos
<1>3. PICK F \in [0..Len(enviados) -> Seq(Octetos)] : Pendientes(F) /\ PorLeer(F)
  BY DEF Inv, IdaBien
<1> PICK r : r = Siguiente
  OBVIOUS
<1> PICK b : b = SuBuffer
  OBVIOUS
<1>4. /\ k < Len(enviados) /\ servidor.op = r.op /\ ~SinBuffer(conexion, r.op)
      /\ Total(ida) = Cuerpo(b) \o F[k + 1]
  <2>1. /\ Len(recibidos) < Len(enviados)
        /\ servidor.op = Siguiente.op /\ ~SinBuffer(conexion, Siguiente.op)
        /\ Total(ida) = Cuerpo(SuBuffer) \o F[Len(recibidos) + 1]
    BY <1>1, <1>3, EnMitad
  <2> QED
    BY Zenon, <2>1
<1>5. /\ F[k + 1] \in Seq(Octetos) /\ b.stream \in Seq(Octetos)
      /\ b.size \in Enteros /\ b.size \in Nat
  <2>1. LoQueSigue(Len(recibidos), Siguiente, SuBuffer, F)
    BY <1>3, <1>4, EnCurso
  <2>2. LoQueSigue(k, r, b, F)
    BY Zenon, <2>1
  <2> QED
    BY Zenon, <1>4, <2>2 DEF LoQueSigue
<1>6. /\ Bytes(b.size) \in Seq(Octetos) /\ Len(Bytes(b.size)) = Ancho
      /\ Palabra(Bytes(b.size)) = b.size
  BY <1>5, BytesBien, PalabraDeBytes
<1>7. b.stream \o F[k + 1] \in Seq(Octetos)
  BY Zenon, <1>5, Pegar DEF Pegado
<1>8. Total(ida) = Bytes(b.size) \o (b.stream \o F[k + 1])
  <2>1. Sigue(b.stream, F[k + 1], b.stream \o F[k + 1])
    BY Zenon, <1>5, Seguir
  <2> QED
    BY Zenon, <1>4, <1>6, <2>1 DEF Sigue, Cuerpo
<1>9. Tomado(ida, Ancho, Bytes(b.size), b.stream \o F[k + 1])
  BY Zenon, <1>1, <1>2, <1>6, <1>7, <1>8, Toma
<1>10. /\ Palabra(Primeros(ida, Ancho)) = b.size /\ ida' \in Canales
       /\ Total(ida') = b.stream \o F[k + 1]
  BY Zenon, <1>1, <1>6, <1>9 DEF Tomado
<1>11. /\ servidor' \in [espera : {"operacion", "tamanio", "contenido", "responder"},
                         op : Enviadas \cup {"desconocida"}, tamanio : Nat]
       /\ servidor'.espera = "contenido" /\ servidor'.op = r.op /\ servidor'.tamanio = b.size
  <2>1. servidor \in [espera : {"operacion", "tamanio", "contenido", "responder"},
                      op : Enviadas \cup {"desconocida"}, tamanio : Nat]
    BY DEF Inv, Tipos
  <2> QED
    BY <1>1, <1>4, <1>5, <1>10, <2>1
<1>12. Tipos'
  BY <1>1, <1>10, <1>11 DEF Inv, Tipos
<1>13. IdaBien'
  <2>1. Pendientes(F)'
    BY <1>1, <1>3 DEF Pendientes, MensajeDe
  <2>2. /\ enviados'[k + 1] = r /\ Len(recibidos') = k
        /\ b = BufferPedido(conexion, r.op, r.datos)
    BY Zenon, <1>1 DEF BufferDe, Siguiente, SuBuffer
  <2>3. BufferDe(enviados[Len(recibidos) + 1])' = b
    BY Zenon, <1>1, <2>2 DEF BufferDe
  <2>4. PorLeer(F)'
    <3>1. /\ servidor'.espera \notin {"operacion", "responder"} /\ servidor'.espera # "tamanio"
          /\ Len(recibidos') < Len(enviados')
          /\ servidor'.op = enviados'[Len(recibidos') + 1].op
          /\ ~SinBuffer(conexion', servidor'.op)
      BY <1>1, <1>4, <1>11, <2>2
    <3> QED
      BY Zenon, <1>10, <1>11, <2>2, <2>3, <3>1 DEF PorLeer
  <2> QED
    BY <1>1, <1>3, <2>1, <2>4 DEF Inv, IdaBien
<1>14. Turnos'
  BY <1>1, <1>11 DEF Inv, Turnos, Contesta
<1>15. Libre'
  BY <1>1, <1>11 DEF Inv, Libre, Tranquila, Contesta
<1>16. Esperando'
  <2>1. cliente.espera # "nada" =>
           /\ Len(enviados) > 0 /\ Contesta(enviados[Len(enviados)])
           /\ Tranquila /\ cliente.espera = Responde(conexion, enviados[Len(enviados)].op)
           /\ Len(recibidos) < Len(enviados)
    BY <1>1 DEF Inv, Esperando
  <2> QED
    BY <1>1, <2>1 DEF Esperando, Tranquila, Contesta
<1>17. Contestadas'
  BY <1>1 DEF Inv, Contestadas
<1> QED
  BY <1>1, <1>12, <1>13, <1>14, <1>15, <1>16, <1>17 DEF Inv

(* The server reads the buffer: its fields are those that were sent.       *)
LEMMA PasoServidorContenido ==
    ASSUME Inv, ServidorContenido, "CANCELAR_HILO" \in SinPedir
    PROVE  Inv'
<1> PICK k : k = Len(recibidos)
  OBVIOUS
<1>1. /\ servidor.espera = "contenido" /\ Hay(ida, servidor.tamanio)
      /\ ida' = Tomar(ida, servidor.tamanio)
      /\ UNCHANGED <<conexion, vuelta, cliente, enviados, respondidas, respuestas>>
  BY DEF ServidorContenido
<1>2. ida \in Canales
  BY DEF Inv, Tipos
<1>3. PICK F \in [0..Len(enviados) -> Seq(Octetos)] : Pendientes(F) /\ PorLeer(F)
  BY DEF Inv, IdaBien
<1> PICK r : r = Siguiente
  OBVIOUS
<1> PICK b : b = SuBuffer
  OBVIOUS
<1>4. /\ k < Len(enviados) /\ servidor.op = r.op /\ ~SinBuffer(conexion, r.op)
      /\ servidor.tamanio = b.size /\ Total(ida) = b.stream \o F[k + 1]
  <2>1. /\ Len(recibidos) < Len(enviados)
        /\ servidor.op = Siguiente.op /\ ~SinBuffer(conexion, Siguiente.op)
        /\ servidor.tamanio = SuBuffer.size
        /\ Total(ida) = SuBuffer.stream \o F[Len(recibidos) + 1]
    BY <1>1, <1>3, EnMitad
  <2> QED
    BY Zenon, <2>1
<1>5. /\ F[k + 1] \in Seq(Octetos) /\ b.stream \in Seq(Octetos) /\ Len(b.stream) = b.size
      /\ r = [op |-> r.op, datos |-> r.datos]
      /\ Deserializar(Lee(conexion, r.op), b.stream) = [offset |-> b.size, datos |-> r.datos]
  <2>1. LoQueSigue(Len(recibidos), Siguiente, SuBuffer, F)
    BY <1>3, <1>4, EnCurso
  <2>2. LoQueSigue(k, r, b, F)
    BY Zenon, <2>1
  <2> QED
    BY Zenon, <1>4, <2>2 DEF LoQueSigue
<1>6. Tomado(ida, servidor.tamanio, b.stream, F[k + 1])
  BY Zenon, <1>1, <1>2, <1>4, <1>5, Toma
<1>7. /\ Primeros(ida, servidor.tamanio) = b.stream /\ ida' \in Canales
      /\ Total(ida') = F[k + 1]
  BY Zenon, <1>1, <1>6 DEF Tomado
<1> PICK e : e = Deserializar(Lee(conexion, servidor.op), Primeros(ida, servidor.tamanio))
  OBVIOUS
<1>8. e = [offset |-> b.size, datos |-> r.datos]
  BY Zenon, <1>4, <1>5, <1>7
<1>9. e.offset = servidor.tamanio /\ e.datos = r.datos
  BY <1>4, <1>8
<1>10. Atender(servidor.op, e.datos) /\ justo' = (justo /\ e.offset = servidor.tamanio)
  BY Zenon DEF ServidorContenido
<1>11. justo' /\ servidor.espera # "responder"
  BY <1>1, <1>9, <1>10 DEF Inv
<1>12. Atender(r.op, r.datos)
  BY Zenon, <1>4, <1>9, <1>10
<1>13. recibidos' = Append(recibidos, Siguiente)
  BY Zenon, <1>5, <1>12 DEF Atender
<1>14. servidor' = [servidor EXCEPT !.op = Siguiente.op,
          !.espera = IF Responde(conexion, Siguiente.op) = "nada" THEN "operacion"
                     ELSE "responder"]
  BY Zenon, <1>12 DEF Atender
<1>15. Total(ida') = F[Len(recibidos) + 1] /\ Len(recibidos) < Len(enviados)
  BY Zenon, <1>4, <1>7
<1> QED
  BY <1>1, <1>3, <1>7, <1>11, <1>13, <1>14, <1>15, Recibido

(* The server answers the last request, for whose answer the client waits. *)
LEMMA Respondido ==
    ASSUME Inv, servidor.espera = "responder", NEW bytes \in Seq(Octetos), NEW valor \in Valores,
           Responder(bytes, valor), justo',
           NEW op, op = servidor.op,
           (Total(vuelta') = bytes /\ cliente' = cliente /\ conexion' = conexion
              /\ cliente.espera = Responde(conexion, op)
              /\ (vuelta'.llegaron = <<>> \/ vuelta'.viajan = <<>>)) => PorRecibir(op, valor)'
    PROVE  Inv'
<1> PICK n : n = Len(enviados)
  OBVIOUS
<1> PICK x : x = [pedido |-> Len(recibidos), valor |-> valor]
  OBVIOUS
<1>1. /\ vuelta' = Mandar(vuelta, bytes) /\ respondidas' = Append(respondidas, x)
      /\ servidor' = [servidor EXCEPT !.espera = "operacion"]
      /\ UNCHANGED <<conexion, ida, cliente, enviados, recibidos, respuestas>>
  BY DEF Responder
<1>2. /\ Len(recibidos) = n /\ n > 0 /\ n \in Nat /\ op = enviados[n].op
      /\ Contesta(enviados[n])
  <2>1. enviados \in Seq(Solicitudes(conexion))
    BY DEF Inv, Tipos
  <2> QED
    BY <2>1 DEF Inv, Turnos
<1>3. /\ vuelta' \in Canales /\ Total(vuelta') = Total(vuelta) \o bytes
      /\ vuelta'.llegaron = vuelta.llegaron
  <2>1. vuelta \in Canales
    BY DEF Inv, Tipos
  <2> QED
    BY <1>1, <2>1, Manda
<1>4. /\ respondidas \in Seq(Contestaciones) /\ respuestas \in Seq(Contestaciones)
      /\ x \in Contestaciones /\ x.pedido = n /\ x.valor = valor
  BY <1>2 DEF Inv, Tipos, Contestaciones
<1>5. /\ respondidas' \in Seq(Contestaciones) /\ Len(respondidas') = Len(respondidas) + 1
      /\ respondidas'[Len(respondidas) + 1] = x
      /\ \A j \in 1..Len(respondidas) : respondidas'[j] = respondidas[j]
      /\ Len(respondidas) \in Nat /\ Len(respuestas) \in Nat
  <2> PICK S : S = Contestaciones
    OBVIOUS
  <2>1. respondidas \in Seq(S) /\ respuestas \in Seq(S) /\ x \in S
    BY <1>4
  <2> QED
    BY <1>1, <2>1
<1>6. /\ servidor' \in [espera : {"operacion", "tamanio", "contenido", "responder"},
                        op : Enviadas \cup {"desconocida"}, tamanio : Nat]
      /\ servidor'.espera = "operacion"
  <2>1. servidor \in [espera : {"operacion", "tamanio", "contenido", "responder"},
                      op : Enviadas \cup {"desconocida"}, tamanio : Nat]
    BY DEF Inv, Tipos
  <2> QED
    BY <1>1, <2>1
<1>7. Tipos'
  BY <1>1, <1>3, <1>5, <1>6 DEF Inv, Tipos
<1>8. IdaBien'
  <2>1. PICK F \in [0..Len(enviados) -> Seq(Octetos)] : Pendientes(F) /\ PorLeer(F)
    BY DEF Inv, IdaBien
  <2>2. Pendientes(F)'
    BY <1>1, <2>1 DEF Pendientes, MensajeDe
  <2>3. PorLeer(F)'
    BY <1>1, <1>6, <2>1 DEF PorLeer
  <2> QED
    BY <1>1, <2>1, <2>2, <2>3 DEF Inv, IdaBien
<1>9. Turnos'
  BY <1>1, <1>6 DEF Inv, Turnos, Contesta
<1>10. Libre'
  <2>1. ~(cliente.espera = "nada" /\ (conexion \notin Efimeras \/ n = 0))
    BY DEF Inv, Libre
  <2> QED
    BY <1>1, <2>1 DEF Libre
<1>11. Esperando'
  <2>1. CASE cliente.espera = "nada"
    BY <1>1, <2>1 DEF Esperando
  <2>2. CASE cliente.espera # "nada"
    <3>1. Tranquila /\ cliente.espera = Responde(conexion, op)
      BY <1>2, <2>2 DEF Inv, Esperando
    <3>2. vuelta.llegaron = <<>> /\ Total(vuelta') = bytes
      <4>1. vuelta.llegaron \o vuelta.viajan = <<>>
        BY <3>1 DEF Tranquila, Total
      <4>2. vuelta.llegaron \in Seq(Octetos) /\ vuelta.viajan \in Seq(Octetos)
        BY DEF Inv, Tipos, Canales
      <4>3. vuelta.llegaron = <<>>
        BY <4>1, <4>2
      <4>4. <<>> \o bytes = bytes
        OBVIOUS
      <4> QED
        BY Zenon, <1>3, <3>1, <4>3, <4>4 DEF Tranquila
    <3>3. PorRecibir(op, valor)'
      BY <1>1, <1>3, <3>1, <3>2
    <3>4. Len(respondidas') = Len(respuestas') + 1
      BY <1>1, <1>5, <3>1 DEF Tranquila
    <3>5. respondidas'[Len(respondidas')] = x
      BY <1>5
    <3>6. Len(enviados') = n /\ enviados' = enviados /\ Contesta(enviados[Len(enviados)])'
      BY <1>1, <1>2 DEF Contesta
    <3> QED
      BY Zenon, <1>1, <1>2, <1>4, <1>6, <3>3, <3>4, <3>5, <3>6 DEF Esperando
  <2> QED
    BY <2>1, <2>2
<1>12. Contestadas'
  <2>1. /\ Len(respuestas) <= Len(respondidas)
        /\ \A j \in 1..Len(respuestas) : respuestas[j] = respondidas[j]
    BY DEF Inv, Contestadas
  <2>2. \A j \in 1..Len(respuestas) : j \in 1..Len(respondidas)
    BY <1>5, <2>1
  <2> QED
    BY <1>1, <1>5, <2>1, <2>2 DEF Contestadas
<1> QED
  BY <1>7, <1>8, <1>9, <1>10, <1>11, <1>12 DEF Inv

(* The server answers with the code of an operation. *)
LEMMA PasoResponderOperacion ==
    ASSUME Inv, ResponderOperacion
    PROVE  Inv'
<1> PICK op : op = servidor.op
  OBVIOUS
<1>1. servidor.espera = "responder" /\ Responde(conexion, op) = "operacion" /\ justo'
  BY DEF Inv, ResponderOperacion
<1>2. PICK r \in Respuestas(conexion, op) : Responder(Bytes(Codigo(r)), r)
  BY DEF ResponderOperacion
<1>3. r \in Enviadas
  BY <1>2 DEF Respuestas, Enviadas
<1>4. r \in Valores
  BY Zenon, <1>3 DEF Valores
<1>5. Bytes(Codigo(r)) \in Seq(Octetos)
  BY <1>3, CodigosDeEnviadas, EnterosNaturales, BytesBien
<1>6. ASSUME Total(vuelta') = Bytes(Codigo(r)), cliente' = cliente, conexion' = conexion,
             cliente.espera = Responde(conexion, op)
      PROVE  PorRecibir(op, r)'
  BY <1>1, <1>3, <1>6 DEF PorRecibir
<1> QED
  BY <1>1, <1>2, <1>4, <1>5, <1>6, Respondido

(* What the server answers, of the operations that it serves.              *)
LEMMA Servida ==
    ASSUME Inv, servidor.espera = "responder", "CANCELAR_HILO" \in SinPedir
    PROVE  /\ conexion \in Cinco /\ servidor.op \in Pedidos(conexion)
           /\ servidor.op # "CANCELAR_HILO"
<1> PICK r : r = enviados[Len(enviados)]
  OBVIOUS
<1>1. servidor.op = r.op
  BY DEF Inv, Turnos
<1>2. conexion \in Conexiones /\ r \in Solicitudes(conexion)
  <2>1. conexion \in Conexiones /\ enviados \in Seq(Solicitudes(conexion)) /\ Len(enviados) > 0
    BY DEF Inv, Tipos, Turnos
  <2> QED
    BY <2>1
<1>3. r.op \in Pedidos(conexion) /\ r.op \notin SinPedir /\ conexion \in Cinco
  BY Zenon, <1>2, SolicitudBien
<1> QED
  BY Zenon, <1>1, <1>3

(* The server answers with a packet. *)
LEMMA PasoResponderPaquete ==
    ASSUME Inv, ResponderPaquete, "CANCELAR_HILO" \in SinPedir
    PROVE  Inv'
<1> PICK op : op = servidor.op
  OBVIOUS
<1>1. servidor.espera = "responder" /\ Responde(conexion, op) = "paquete"
  BY DEF ResponderPaquete
<1>2. PICK d \in Datos(EscribeRespuesta(op)) :
         /\ Responder(serializar_paquete(op, BufferRespuesta(op, d)), d)
         /\ justo' = (justo /\ BufferRespuesta(op, d).offset = BufferRespuesta(op, d).size)
  BY Zenon DEF ResponderPaquete
<1> PICK b : b = BufferRespuesta(op, d)
  OBVIOUS
<1>3. op \in Empaquetadas
  BY <1>1, Servida, Acuerdo
<1>4. /\ serializar_paquete(op, b) \in Seq(Octetos)
      /\ serializar_paquete(op, b) = Bytes(Codigo(op)) \o Cuerpo(b)
      /\ b.offset = b.size
  <2>1. d \in Datos(EscribeRespuesta(op)) /\ b = BufferRespuesta(op, d)
    BY Zenon
  <2> QED
    BY Zenon, <1>3, <2>1, RespuestaBien
<1>5. justo'
  BY Zenon, <1>2, <1>4 DEF Inv
<1>6. d \in Valores
  BY Zenon, <1>3 DEF Valores
<1>7. Responder(serializar_paquete(op, b), d)
  BY Zenon, <1>2
<1>8. ASSUME Total(vuelta') = serializar_paquete(op, b), cliente' = cliente, conexion' = conexion,
             cliente.espera = Responde(conexion, op)
      PROVE  PorRecibir(op, d)'
  <2>1. Total(vuelta') = Bytes(Codigo(op)) \o Cuerpo(b)
    BY Zenon, <1>4, <1>8
  <2>2. b = BufferRespuesta(op, d) /\ d \in Datos(EscribeRespuesta(op))
    BY Zenon
  <2>3. Responde(conexion', op) = "paquete" /\ cliente'.espera = "paquete"
    BY Zenon, <1>1, <1>8
  <2> QED
    BY <2>1, <2>2, <2>3 DEF PorRecibir
<1> QED
  BY <1>1, <1>4, <1>5, <1>6, <1>7, <1>8, Respondido

(* The server answers with a word of the memory. *)
LEMMA PasoResponderDato ==
    ASSUME Inv, ResponderDato
    PROVE  Inv'
<1> PICK op : op = servidor.op
  OBVIOUS
<1>1. servidor.espera = "responder" /\ Responde(conexion, op) = "dato" /\ justo'
  BY DEF Inv, ResponderDato
<1>2. PICK v \in Palabras : Responder(Bytes(v), v)
  BY DEF ResponderDato
<1>3. v \in Valores
  BY Zenon DEF Valores
<1>4. Bytes(v) \in Seq(Octetos)
  <2>1. v \in Enteros
    BY PaquetesAssumption
  <2> QED
    BY <2>1, EnterosNaturales, BytesBien
<1>5. ASSUME Total(vuelta') = Bytes(v), cliente' = cliente, conexion' = conexion,
             cliente.espera = Responde(conexion, op),
             vuelta'.llegaron = <<>> \/ vuelta'.viajan = <<>>
      PROVE  PorRecibir(op, v)'
  BY <1>1, <1>5 DEF PorRecibir
<1> QED
  BY <1>1, <1>2, <1>3, <1>4, <1>5, Respondido

(* The answer v to the last request, op, is what the client has to read.   *)
Respondida(op, v) ==
    /\ Len(recibidos) = Len(enviados) /\ servidor.espera = "operacion"
    /\ Len(respondidas) = Len(respuestas) + 1
    /\ respondidas[Len(respondidas)] = [pedido |-> Len(enviados), valor |-> v]
    /\ Len(enviados) > 0 /\ op = enviados[Len(enviados)].op
    /\ Contesta(enviados[Len(enviados)])
    /\ PorRecibir(op, v)

(* A client that finds bytes to read, or has begun to, has an answer.      *)
LEMMA HayRespuesta ==
    ASSUME Inv, cliente.espera # "nada",
           Total(vuelta) # <<>> \/ cliente.espera \in {"tamanio", "contenido"}
    PROVE  \E op, v : Respondida(op, v)
<1> PICK n : n = Len(enviados)
  OBVIOUS
<1> PICK op : op = enviados[n].op
  OBVIOUS
<1> PICK x : x = respondidas[Len(respondidas)]
  OBVIOUS
<1>1. /\ n > 0 /\ Contesta(enviados[n])
      /\ \/ /\ Tranquila /\ cliente.espera = Responde(conexion, op)
         \/ /\ Len(recibidos) = n /\ servidor.espera = "operacion"
            /\ Len(respondidas) = Len(respuestas) + 1
            /\ x.pedido = n /\ PorRecibir(op, x.valor)
  BY Zenon DEF Inv, Esperando
<1>2. ~(Tranquila /\ cliente.espera = Responde(conexion, op))
  <2>1. Responde(conexion, op) \notin {"tamanio", "contenido"}
    BY DEF Responde
  <2> QED
    BY <2>1 DEF Tranquila
<1>3. /\ Len(recibidos) = n /\ servidor.espera = "operacion"
      /\ Len(respondidas) = Len(respuestas) + 1
      /\ x.pedido = n /\ PorRecibir(op, x.valor)
  BY Zenon, <1>1, <1>2
<1>4. x \in Contestaciones
  <2> PICK S : S = Contestaciones
    OBVIOUS
  <2>1. respondidas \in Seq(S) /\ respuestas \in Seq(S)
    BY DEF Inv, Tipos
  <2>2. Len(respondidas) \in 1..Len(respondidas)
    BY <1>3, <2>1
  <2> QED
    BY <2>1, <2>2
<1>5. x = [pedido |-> n, valor |-> x.valor]
  BY <1>3, <1>4 DEF Contestaciones
<1>6. Respondida(op, x.valor)
  BY Zenon, <1>1, <1>3, <1>5 DEF Respondida
<1> QED
  BY Zenon, <1>6

(* The client reads a part of the answer and waits for the next one.       *)
LEMMA Avanza ==
    ASSUME Inv, cliente.espera # "nada", NEW op, NEW v, Respondida(op, v),
           vuelta' \in Canales,
           cliente' \in [espera : {"tamanio", "contenido"}, tamanio : Nat],
           UNCHANGED <<conexion, ida, servidor, enviados, recibidos, respondidas, respuestas,
                       justo>>,
           PorRecibir(op, v)'
    PROVE  Inv'
<1>1. Tipos'
  <2>1. cliente' \in [espera : {"nada", "operacion", "dato", "paquete", "tamanio", "contenido"},
                      tamanio : Nat]
    OBVIOUS
  <2> QED
    BY <2>1 DEF Inv, Tipos
<1>2. IdaBien'
  BY MismaIda DEF Inv
<1>3. Turnos'
  BY MismosTurnos DEF Inv
<1>4. Libre'
  BY DEF Libre
<1>5. Esperando'
  <2>1. respondidas[Len(respondidas)].pedido = Len(enviados)
        /\ respondidas[Len(respondidas)].valor = v
    BY DEF Respondida
  <2> QED
    BY <2>1 DEF Esperando, Respondida, Contesta
<1>6. Contestadas'
  BY DEF Inv, Contestadas
<1> QED
  BY <1>1, <1>2, <1>3, <1>4, <1>5, <1>6 DEF Inv

(* The client has read the answer: it is the one that the server gave.     *)
LEMMA Obtenido ==
    ASSUME Inv, cliente.espera # "nada", NEW op, NEW v, Respondida(op, v), Obtener(v),
           vuelta' \in Canales, Total(vuelta') = <<>>,
           cliente' = [cliente EXCEPT !.espera = "nada"],
           UNCHANGED <<conexion, ida, servidor, enviados, recibidos, respondidas>>, justo'
    PROVE  Inv'
<1> PICK n : n = Len(enviados)
  OBVIOUS
<1> PICK m : m = Len(respondidas)
  OBVIOUS
<1> PICK x : x = [pedido |-> n, valor |-> v]
  OBVIOUS
<1>1. respuestas' = Append(respuestas, x) /\ respondidas[m] = x /\ m = Len(respuestas) + 1
  BY Zenon DEF Obtener, Respondida
<1>2. /\ respuestas' \in Seq(Contestaciones) /\ Len(respuestas') = m
      /\ respuestas'[m] = x /\ \A j \in 1..m - 1 : respuestas'[j] = respuestas[j]
      /\ m \in Nat \ {0}
  <2> PICK S : S = Contestaciones
    OBVIOUS
  <2>1. respondidas \in Seq(S) /\ respuestas \in Seq(S)
    BY DEF Inv, Tipos
  <2>2. m \in 1..Len(respondidas) /\ Len(respuestas) \in Nat
    BY <1>1, <2>1
  <2>3. x \in S
    <3>1. \A s \in Seq(S) : \A i \in 1..Len(s) : s[i] \in S
      OBVIOUS
    <3> QED
      BY Zenon, <1>1, <2>1, <2>2, <3>1
  <2> QED
    BY <1>1, <2>1, <2>2, <2>3
<1>3. /\ cliente' \in [espera : {"nada", "operacion", "dato", "paquete", "tamanio", "contenido"},
                       tamanio : Nat]
      /\ cliente'.espera = "nada"
  <2>1. cliente \in [espera : {"nada", "operacion", "dato", "paquete", "tamanio", "contenido"},
                     tamanio : Nat]
    BY DEF Inv, Tipos
  <2> QED
    BY <2>1
<1>4. Tipos'
  BY <1>2, <1>3 DEF Inv, Tipos
<1>5. IdaBien'
  BY MismaIda DEF Inv
<1>6. Turnos'
  BY MismosTurnos DEF Inv
<1>7. Libre'
  BY <1>2 DEF Libre, Tranquila, Respondida
<1>8. Esperando'
  BY <1>3 DEF Esperando
<1>9. Contestadas'
  <2>1. \A j \in 1..m - 1 : respuestas[j] = respondidas[j]
    BY <1>1, <1>2 DEF Inv, Contestadas
  <2>2. \A j \in 1..m : j = m \/ j \in 1..m - 1
    BY <1>2
  <2> QED
    BY <1>1, <1>2, <2>1, <2>2 DEF Contestadas
<1> QED
  BY <1>4, <1>5, <1>6, <1>7, <1>8, <1>9 DEF Inv

(* All that a channel holds is taken. *)
LEMMA TomaTodo ==
    \A canal \in Canales : \A m \in Seq(Octetos) : \A n :
        Total(canal) = m /\ n = Len(m) /\ Hay(canal, n) => Tomado(canal, n, m, <<>>)
<1> PICK z : z = <<>>
  OBVIOUS
<1>1. z \in Seq(Octetos) /\ \A m \in Seq(Octetos) : m \o z = m
  OBVIOUS
<1>2. \A canal \in Canales : \A m \in Seq(Octetos) : \A n :
        Total(canal) = m /\ n = Len(m) /\ Hay(canal, n) => Tomado(canal, n, m, z)
  BY Zenon, <1>1, Toma
<1> QED
  BY Zenon, <1>2

(* The client reads the code of an operation. *)
LEMMA PasoClienteOperacion ==
    ASSUME Inv, ClienteOperacion
    PROVE  Inv'
<1>1. /\ cliente.espera = "operacion" /\ Hay(vuelta, Ancho) /\ vuelta' = Tomar(vuelta, Ancho)
      /\ cliente' = [cliente EXCEPT !.espera = "nada"]
      /\ UNCHANGED <<conexion, ida, servidor, enviados, recibidos, respondidas, justo>>
      /\ Obtener(Operacion(Palabra(Primeros(vuelta, Ancho))))
  BY DEF ClienteOperacion, Recibir
<1>2. vuelta \in Canales /\ Total(vuelta) # <<>>
  BY <1>1, AlgoHay, PaquetesAssumption DEF Inv, Tipos
<1>3. PICK op, v : Respondida(op, v)
  BY <1>1, <1>2, HayRespuesta
<1>4. v \in Enviadas /\ Total(vuelta) = Bytes(Codigo(v))
  BY <1>1, <1>3 DEF Respondida, PorRecibir
<1>5. /\ Bytes(Codigo(v)) \in Seq(Octetos) /\ Len(Bytes(Codigo(v))) = Ancho
      /\ Operacion(Palabra(Bytes(Codigo(v)))) = v
  BY <1>4, CodigosDeEnviadas, EnterosNaturales, BytesBien, PalabraDeBytes
<1>6. Tomado(vuelta, Ancho, Bytes(Codigo(v)), <<>>)
  BY Zenon, <1>1, <1>2, <1>4, <1>5, TomaTodo
<1>7. Obtener(v) /\ vuelta' \in Canales /\ Total(vuelta') = <<>>
  BY Zenon, <1>1, <1>5, <1>6 DEF Tomado
<1>8. justo'
  BY <1>1 DEF Inv
<1> QED
  BY <1>1, <1>3, <1>7, <1>8, Obtenido

(* The client takes a word: it has arrived whole. *)
LEMMA PasoClienteDato ==
    ASSUME Inv, ClienteDato
    PROVE  Inv'
<1> PICK n : n = Min({Len(vuelta.llegaron), Ancho})
  OBVIOUS
<1>1. /\ cliente.espera = "dato" /\ n > 0 /\ Hay(vuelta, n) /\ vuelta' = Tomar(vuelta, n)
      /\ cliente' = [cliente EXCEPT !.espera = "nada"]
      /\ UNCHANGED <<conexion, ida, servidor, enviados, recibidos, respondidas, justo>>
      /\ Obtener(Palabra(Primeros(vuelta, n)))
  BY Zenon DEF ClienteDato, Recibir
<1>2. /\ vuelta \in Canales /\ vuelta.llegaron \in Seq(Octetos) /\ vuelta.viajan \in Seq(Octetos)
      /\ Len(vuelta.llegaron) \in Nat /\ Ancho \in Nat
  BY PaquetesAssumption DEF Inv, Tipos, Canales
<1>3. n \in Nat /\ n <= Len(vuelta.llegaron) /\ (n = Len(vuelta.llegaron) \/ n = Ancho)
  <2> PICK T : T = {Len(vuelta.llegaron), Ancho}
    OBVIOUS
  <2>1. T \in SUBSET Nat /\ T # {} /\ n = Min(T)
    BY Zenon, <1>2
  <2>2. n \in T /\ \A y \in T : n <= y
    BY Zenon, <2>1, Minimo
  <2> QED
    BY <1>2, <2>2
<1>4. Total(vuelta) # <<>> /\ vuelta.llegaron # <<>>
  BY <1>1, <1>2, <1>3, AlgoHay
<1>5. PICK op, v : Respondida(op, v)
  BY <1>1, <1>4, HayRespuesta
<1>6. v \in Palabras /\ Total(vuelta) = Bytes(v) /\ vuelta.viajan = <<>>
  BY <1>1, <1>4, <1>5 DEF Respondida, PorRecibir
<1>7. Bytes(v) \in Seq(Octetos) /\ Len(Bytes(v)) = Ancho /\ Palabra(Bytes(v)) = v
  BY <1>6, PaquetesAssumption, EnterosNaturales, BytesBien, PalabraDeBytes
<1>8. n = Ancho
  <2>1. vuelta.llegaron \o <<>> = vuelta.llegaron
    BY <1>2
  <2>2. vuelta.llegaron = Bytes(v)
    BY Zenon, <1>6, <2>1 DEF Total
  <2> QED
    BY <1>3, <1>7, <2>2
<1>9. Tomado(vuelta, n, Bytes(v), <<>>)
  BY Zenon, <1>1, <1>2, <1>6, <1>7, <1>8, TomaTodo
<1>10. Obtener(v) /\ vuelta' \in Canales /\ Total(vuelta') = <<>>
  BY Zenon, <1>1, <1>7, <1>9 DEF Tomado
<1>11. justo'
  BY <1>1 DEF Inv
<1> QED
  BY <1>1, <1>5, <1>10, <1>11, Obtenido

(* An answer that is a packet, which the client has not read whole.        *)
LEMMA RespondidaEnPaquete ==
    ASSUME Inv, cliente.espera \in {"paquete", "tamanio", "contenido"},
           NEW op, NEW v, Respondida(op, v), "CANCELAR_HILO" \in SinPedir,
           NEW b, b = BufferRespuesta(op, v)
    PROVE  /\ Responde(conexion, op) = "paquete" /\ v \in Datos(EscribeRespuesta(op))
           /\ Bytes(Codigo(op)) \in Seq(Octetos) /\ Len(Bytes(Codigo(op))) = Ancho
           /\ Cuerpo(b) \in Seq(Octetos)
           /\ b.stream \in Seq(Octetos) /\ b.size \in Enteros /\ b.size \in Nat
           /\ Len(b.stream) = b.size
           /\ Deserializar(LeeRespuesta(op), b.stream) = [offset |-> b.size, datos |-> v]
           /\ cliente.espera = "paquete" => Total(vuelta) = Bytes(Codigo(op)) \o Cuerpo(b)
           /\ cliente.espera = "tamanio" => Total(vuelta) = Cuerpo(b)
           /\ cliente.espera = "contenido" =>
                 cliente.tamanio = b.size /\ Total(vuelta) = b.stream
<1>1. /\ Responde(conexion, op) = "paquete" /\ v \in Datos(EscribeRespuesta(op))
      /\ cliente.espera = "paquete" => Total(vuelta) = Bytes(Codigo(op)) \o Cuerpo(b)
      /\ cliente.espera = "tamanio" => Total(vuelta) = Cuerpo(b)
      /\ cliente.espera = "contenido" => cliente.tamanio = b.size /\ Total(vuelta) = b.stream
  BY DEF Respondida, PorRecibir
<1>2. conexion \in Cinco /\ op \in Pedidos(conexion) /\ op # "CANCELAR_HILO"
  <2> PICK r : r = enviados[Len(enviados)]
    OBVIOUS
  <2>1. op = r.op
    BY DEF Respondida
  <2>2. conexion \in Conexiones /\ r \in Solicitudes(conexion)
    <3>1. conexion \in Conexiones /\ enviados \in Seq(Solicitudes(conexion)) /\ Len(enviados) > 0
      BY DEF Inv, Tipos, Respondida
    <3> QED
      BY <3>1
  <2>3. r.op \in Pedidos(conexion) /\ r.op \notin SinPedir /\ conexion \in Cinco
    BY Zenon, <2>2, SolicitudBien
  <2> QED
    BY Zenon, <2>1, <2>3
<1>3. op \in Empaquetadas
  BY <1>1, <1>2, Acuerdo
<1> QED
  BY Zenon, <1>1, <1>3, RespuestaBien

(* The client reads the code of a packet. *)
LEMMA PasoClientePaquete ==
    ASSUME Inv, ClientePaquete, "CANCELAR_HILO" \in SinPedir
    PROVE  Inv'
<1>1. /\ cliente.espera = "paquete" /\ Hay(vuelta, Ancho) /\ vuelta' = Tomar(vuelta, Ancho)
      /\ cliente' = [cliente EXCEPT !.espera = "tamanio"]
      /\ UNCHANGED <<conexion, ida, servidor, enviados, recibidos, respondidas, respuestas, justo>>
  BY DEF ClientePaquete, Recibir
<1>2. vuelta \in Canales /\ Total(vuelta) # <<>>
  BY <1>1, AlgoHay, PaquetesAssumption DEF Inv, Tipos
<1>3. PICK op, v : Respondida(op, v)
  BY <1>1, <1>2, HayRespuesta
<1> PICK b : b = BufferRespuesta(op, v)
  OBVIOUS
<1>4. /\ Responde(conexion, op) = "paquete" /\ v \in Datos(EscribeRespuesta(op))
      /\ Bytes(Codigo(op)) \in Seq(Octetos) /\ Len(Bytes(Codigo(op))) = Ancho
      /\ Cuerpo(b) \in Seq(Octetos) /\ Total(vuelta) = Bytes(Codigo(op)) \o Cuerpo(b)
  BY <1>1, <1>3, RespondidaEnPaquete
<1>5. Tomado(vuelta, Ancho, Bytes(Codigo(op)), Cuerpo(b))
  BY Zenon, <1>1, <1>2, <1>4, Toma
<1>6. vuelta' \in Canales /\ Total(vuelta') = Cuerpo(b)
  BY Zenon, <1>1, <1>5 DEF Tomado
<1>7. cliente' \in [espera : {"tamanio", "contenido"}, tamanio : Nat] /\ cliente'.espera = "tamanio"
  <2>1. cliente \in [espera : {"nada", "operacion", "dato", "paquete", "tamanio", "contenido"},
                     tamanio : Nat]
    BY DEF Inv, Tipos
  <2> QED
    BY <1>1, <2>1
<1>8. PorRecibir(op, v)'
  BY <1>1, <1>4, <1>6, <1>7 DEF PorRecibir
<1> QED
  BY <1>1, <1>3, <1>6, <1>7, <1>8, Avanza

(* The client reads the size of the buffer of a packet. *)
LEMMA PasoClienteTamanio ==
    ASSUME Inv, ClienteTamanio, "CANCELAR_HILO" \in SinPedir
    PROVE  Inv'
<1>1. /\ cliente.espera = "tamanio" /\ Hay(vuelta, Ancho) /\ vuelta' = Tomar(vuelta, Ancho)
      /\ cliente' = [espera |-> "contenido", tamanio |-> Palabra(Primeros(vuelta, Ancho))]
      /\ UNCHANGED <<conexion, ida, servidor, enviados, recibidos, respondidas, respuestas, justo>>
  BY DEF ClienteTamanio
<1>2. vuelta \in Canales
  BY DEF Inv, Tipos
<1>3. PICK op, v : Respondida(op, v)
  BY <1>1, HayRespuesta
<1> PICK b : b = BufferRespuesta(op, v)
  OBVIOUS
<1>4. /\ Responde(conexion, op) = "paquete" /\ v \in Datos(EscribeRespuesta(op))
      /\ b.stream \in Seq(Octetos) /\ b.size \in Enteros /\ b.size \in Nat
      /\ Total(vuelta) = Cuerpo(b)
  BY <1>1, <1>3, RespondidaEnPaquete
<1>5. /\ Bytes(b.size) \in Seq(Octetos) /\ Len(Bytes(b.size)) = Ancho
      /\ Palabra(Bytes(b.size)) = b.size
  BY <1>4, BytesBien, PalabraDeBytes
<1>6. Tomado(vuelta, Ancho, Bytes(b.size), b.stream)
  <2>1. Total(vuelta) = Bytes(b.size) \o b.stream
    BY Zenon, <1>4 DEF Cuerpo
  <2> QED
    BY Zenon, <1>1, <1>2, <1>4, <1>5, <2>1, Toma
<1>7. vuelta' \in Canales /\ Total(vuelta') = b.stream /\ Palabra(Primeros(vuelta, Ancho)) = b.size
  BY Zenon, <1>1, <1>5, <1>6 DEF Tomado
<1>8. /\ cliente' \in [espera : {"tamanio", "contenido"}, tamanio : Nat]
      /\ cliente'.espera = "contenido" /\ cliente'.tamanio = b.size
  BY <1>1, <1>4, <1>7
<1>9. PorRecibir(op, v)'
  BY <1>1, <1>4, <1>7, <1>8 DEF PorRecibir
<1> QED
  BY <1>1, <1>3, <1>7, <1>8, <1>9, Avanza

(* The client reads the buffer of a packet: its fields are those sent.     *)
LEMMA PasoClienteContenido ==
    ASSUME Inv, ClienteContenido, "CANCELAR_HILO" \in SinPedir
    PROVE  Inv'
<1> PICK e : e = Deserializar(LeeRespuesta(Last(enviados).op),
                              Primeros(vuelta, cliente.tamanio))
  OBVIOUS
<1>1. /\ cliente.espera = "contenido" /\ Hay(vuelta, cliente.tamanio)
      /\ vuelta' = Tomar(vuelta, cliente.tamanio)
      /\ cliente' = [cliente EXCEPT !.espera = "nada"]
      /\ UNCHANGED <<conexion, ida, servidor, enviados, recibidos, respondidas>>
      /\ Obtener(e.datos) /\ justo' = (justo /\ e.offset = cliente.tamanio)
  BY Zenon DEF ClienteContenido, Recibir
<1>2. vuelta \in Canales
  BY DEF Inv, Tipos
<1>3. PICK op, v : Respondida(op, v)
  BY <1>1, HayRespuesta
<1> PICK b : b = BufferRespuesta(op, v)
  OBVIOUS
<1>4. /\ b.stream \in Seq(Octetos) /\ Len(b.stream) = b.size
      /\ Deserializar(LeeRespuesta(op), b.stream) = [offset |-> b.size, datos |-> v]
      /\ cliente.tamanio = b.size /\ Total(vuelta) = b.stream
  BY <1>1, <1>3, RespondidaEnPaquete
<1>5. Tomado(vuelta, cliente.tamanio, b.stream, <<>>)
  BY Zenon, <1>1, <1>2, <1>4, TomaTodo
<1>6. /\ vuelta' \in Canales /\ Total(vuelta') = <<>>
      /\ Primeros(vuelta, cliente.tamanio) = b.stream
  BY Zenon, <1>1, <1>5 DEF Tomado
<1>7. Last(enviados).op = op
  BY <1>3 DEF Respondida, Last
<1>8. e = [offset |-> b.size, datos |-> v]
  BY Zenon, <1>4, <1>6, <1>7
<1>9. Obtener(v) /\ justo'
  <2>1. e.datos = v /\ e.offset = cliente.tamanio
    BY <1>4, <1>8
  <2> QED
    BY Zenon, <1>1, <2>1 DEF Inv
<1> QED
  BY <1>1, <1>3, <1>6, <1>9, Obtenido

(* Every step of the server. *)
LEMMA PasoServidor ==
    ASSUME Inv, Servidor, "CANCELAR_HILO" \in SinPedir
    PROVE  Inv'
BY PasoServidorOperacion, PasoServidorTamanio, PasoServidorContenido, PasoResponderOperacion,
   PasoResponderPaquete, PasoResponderDato DEF Servidor

(* Every step of the client. *)
LEMMA PasoCliente ==
    ASSUME Inv, Cliente, "CANCELAR_HILO" \in SinPedir
    PROVE  Inv'
BY PasoClienteOperacion, PasoClientePaquete, PasoClienteTamanio, PasoClienteContenido,
   PasoClienteDato DEF Cliente

(* Every step, and a step in which nothing changes. *)
LEMMA Siguientes ==
    ASSUME Inv, [Next]_vars, "CANCELAR_HILO" \in SinPedir, ~PalabrasPartidas
    PROVE  Inv'
<1>1. CASE LlegaIda
  BY <1>1, PasoLlegaIda
<1>2. CASE LlegaVuelta
  BY <1>2, PasoLlegaVuelta
<1>3. CASE Servidor
  BY <1>3, PasoServidor
<1>4. CASE Cliente
  BY <1>4, PasoCliente
<1>5. CASE \E op \in Pedidos(conexion) \ SinPedir :
              \E d \in Datos(Escribe(conexion, op)) : Enviar(op, d)
  BY <1>5, PasoEnviar
<1>6. CASE UNCHANGED vars
  <2>1. UNCHANGED <<conexion, ida, vuelta, cliente, servidor, enviados, recibidos, respondidas,
                    respuestas, justo>>
    BY <1>6 DEF vars
  <2>2. Tipos'
    BY <2>1 DEF Inv, Tipos
  <2>3. IdaBien'
    BY <2>1, MismaIda DEF Inv
  <2>4. Turnos'
    BY <2>1, MismosTurnos DEF Inv
  <2>5. Libre'
    BY <2>1 DEF Inv, Libre, Tranquila, Contesta
  <2>6. Esperando'
    BY <2>1 DEF Inv, Esperando, Tranquila, Contesta, PorRecibir
  <2>7. Contestadas'
    BY <2>1 DEF Inv, Contestadas
  <2> QED
    BY <2>1, <2>2, <2>3, <2>4, <2>5, <2>6, <2>7 DEF Inv
<1> QED
  BY <1>1, <1>2, <1>3, <1>4, <1>5, <1>6 DEF Next

(* The invariant holds always: the bytes of each direction are those of    *)
(* the requests, or of the answer, that are not read yet, from where the   *)
(* receiver is; the client and the server agree on whose turn it is.  The  *)
(* instance leaves out THREAD_CANCEL, whose packet the kernel reads as     *)
(* operations, and no word of the memory arrives in two pieces: the memory *)
(* answers LEER_MEMORIA with a word alone, and lectura_memoria takes what  *)
(* there is of it.                                                         *)
THEOREM Invariante ==
    ASSUME "CANCELAR_HILO" \in SinPedir, ~PalabrasPartidas
    PROVE  Spec => []Inv
<1>1. Init => Inv
  BY Inicial
<1>2. Inv /\ [Next]_vars => Inv'
  BY Siguientes
<1> QED
  BY <1>1, <1>2, PTL DEF Spec

(* What one end read is the beginning of what the other one wrote.         *)
LEMMA Comienzo ==
    ASSUME NEW S, NEW s \in Seq(S), NEW t \in Seq(S), Len(s) <= Len(t),
           \A j \in 1..Len(s) : s[j] = t[j]
    PROVE  IsPrefix(s, t)
<1>1. SubSeq(s, 1, Len(s)) = SubSeq(t, 1, Len(s))
  OBVIOUS
<1> QED
  BY <1>1 DEF IsPrefix

(* Every request reaches the other end as it was sent, in order and field  *)
(* by field, and no buffer is over or underrun (serializar_* and           *)
(* deserializar_* of utils/comunicacion_*.c).                              *)
THEOREM PedidosFielesSiempre ==
    ASSUME "CANCELAR_HILO" \in SinPedir, ~PalabrasPartidas
    PROVE  Spec => []PedidosFieles
<1>1. Inv => PedidosFieles
  <2> SUFFICES ASSUME Inv PROVE PedidosFieles
    OBVIOUS
  <2> PICK S : S = Solicitudes(conexion)
    OBVIOUS
  <2>1. /\ recibidos \in Seq(S) /\ enviados \in Seq(S) /\ Len(recibidos) <= Len(enviados)
        /\ \A j \in 1..Len(recibidos) : recibidos[j] = enviados[j]
    BY DEF Inv, Tipos, IdaBien
  <2>2. IsPrefix(recibidos, enviados)
    BY <2>1, Comienzo
  <2> QED
    BY <2>2 DEF PedidosFieles, Inv
<1> QED
  BY <1>1, Invariante, PTL

(* The client takes the answer that the server gave to that request        *)
(* (recibir_operacion, recibir_buffer and the reads of cpu/src/utils.c).   *)
THEOREM RespuestasFielesSiempre ==
    ASSUME "CANCELAR_HILO" \in SinPedir, ~PalabrasPartidas
    PROVE  Spec => []RespuestasFieles
<1>1. Inv => RespuestasFieles
  <2> SUFFICES ASSUME Inv PROVE RespuestasFieles
    OBVIOUS
  <2> PICK S : S = Contestaciones
    OBVIOUS
  <2>1. /\ respuestas \in Seq(S) /\ respondidas \in Seq(S)
        /\ Len(respuestas) <= Len(respondidas)
        /\ \A j \in 1..Len(respuestas) : respuestas[j] = respondidas[j]
    BY DEF Inv, Tipos, Contestadas
  <2>2. IsPrefix(respuestas, respondidas)
    BY <2>1, Comienzo
  <2> QED
    BY <2>2 DEF RespuestasFieles
<1> QED
  BY <1>1, Invariante, PTL
=============================================================================
