------------------------------- MODULE Listas -------------------------------
(***************************************************************************)
(* Facts about the operations on lists that the modules are built from     *)
(* (list_add, list_remove, list_remove_element, list_find of the commons   *)
(* library), and the induction on naturals that they need.                 *)
(***************************************************************************)
EXTENDS Integers, FiniteSets, SequencesExt, SequenceTheorems,
        FiniteSetTheorems, WellFoundedInduction, TLAPS

-----------------------------------------------------------------------------
(* A set of naturals that is not empty has a least element, which is Min.  *)
MenorQue == {par \in Nat \X Nat : par[1] < par[2]}

(* Min is a member of the set and none is less. *)
LEMMA Minimo ==
    ASSUME NEW T \in SUBSET Nat, T # {}
    PROVE  /\ Min(T) \in T
           /\ \A y \in T : Min(T) <= y
<1>1. IsWellFoundedOn(MenorQue, Nat)
  BY NatLessThanWellFounded DEF OpToRel, MenorQue
<1>2. \E x \in T : \A y \in T : ~ (<<y, x>> \in MenorQue)
  BY <1>1, WFMin
<1>3. \A x, y \in T : ~ (<<y, x>> \in MenorQue) => x <= y
  BY DEF MenorQue
<1>4. \E x \in T : \A y \in T : x <= y
  BY <1>2, <1>3
<1> QED
  BY <1>4 DEF Min

(* Induction, for a property given by the set of naturals that have it.    *)
LEMMA Induccion ==
    ASSUME NEW P, 0 \in P, \A n \in Nat : n \in P => n + 1 \in P
    PROVE  \A n \in Nat : n \in P
<1> SUFFICES ASSUME Nat \ P # {} PROVE FALSE
  OBVIOUS
<1>1. PICK x \in Nat \ P : \A y \in Nat \ P : x <= y
  BY Minimo
<1>2. x - 1 \in Nat /\ x - 1 \in P
  BY <1>1
<1> QED
  BY <1>1, <1>2

-----------------------------------------------------------------------------
(* list_remove_element of the first element leaves the rest. *)
LEMMA QuitarCabeza ==
    ASSUME NEW S, NEW s \in Seq(S), s # <<>>
    PROVE  RemoveFirst(s, Head(s)) = Tail(s)
<1> DEFINE I == {i \in 1..Len(s) : s[i] = Head(s)}
<1>1. Len(s) \in Nat \ {0}
  BY EmptySeq
<1>2. 1 \in I
  BY <1>1, HeadTailProperties
<1>3. Min(I) = 1
  <2>1. \A y \in I : 1 <= y
    OBVIOUS
  <2>2. \A x \in I : (\A y \in I : x <= y) => x = 1
    BY <1>2, <2>1
  <2> QED
    BY <1>2, <2>1, <2>2 DEF Min
<1>4. SelectInSeq(s, LAMBDA v : v = Head(s)) = 1
  BY <1>2, <1>3 DEF SelectInSeq
<1>5. RemoveFirst(s, Head(s)) = SubSeq(s, 1, 0) \o SubSeq(s, 2, Len(s))
  <2>1. \E i \in 1..Len(s) : s[i] = Head(s)
    BY <1>2
  <2>2. RemoveFirst(s, Head(s)) = RemoveAt(s, SelectInSeq(s, LAMBDA v : v = Head(s)))
    BY <2>1, Zenon DEF RemoveFirst
  <2>3. RemoveFirst(s, Head(s)) = RemoveAt(s, 1)
    BY <2>2, <1>4, Zenon
  <2> QED
    BY <2>3 DEF RemoveAt
<1>6. SubSeq(s, 1, 0) = <<>>
  BY SubSeqEmpty
<1>7. SubSeq(s, 2, Len(s)) = Tail(s)
  BY TailIsSubSeq
<1> QED
  BY <1>5, <1>6, <1>7, HeadTailProperties, ConcatEmptySeq

(* list_add: the members of the list and its length. *)
LEMMA AgregarAlFinal ==
    ASSUME NEW S, NEW s \in Seq(S), NEW e \in S
    PROVE  /\ Append(s, e) \in Seq(S)
           /\ Append(s, e) # <<>>
           /\ Len(Append(s, e)) = Len(s) + 1
           /\ {Append(s, e)[i] : i \in 1..Len(Append(s, e))}
                = {s[i] : i \in 1..Len(s)} \cup {e}
           /\ s # <<>> => Head(Append(s, e)) = Head(s)
<1>1. Len(s) \in Nat
  BY LenProperties
<1>2. /\ Append(s, e) \in Seq(S)
      /\ Append(s, e) # <<>>
      /\ Len(Append(s, e)) = Len(s) + 1
      /\ \A i \in 1..Len(s) : Append(s, e)[i] = s[i]
      /\ Append(s, e)[Len(s) + 1] = e
  BY AppendProperties
<1>3. {Append(s, e)[i] : i \in 1..Len(Append(s, e))}
         = {s[i] : i \in 1..Len(s)} \cup {e}
  BY <1>1, <1>2
<1>4. s # <<>> => Head(Append(s, e)) = Head(s)
  BY HeadTailAppend
<1> QED
  BY <1>2, <1>3, <1>4

(* The members of a list and those of its tail. *)
LEMMA Cola ==
    ASSUME NEW S, NEW s \in Seq(S), s # <<>>
    PROVE  /\ Tail(s) \in Seq(S)
           /\ Head(s) \in S
           /\ Len(s) \in Nat \ {0}
           /\ Len(Tail(s)) = Len(s) - 1
           /\ Head(s) = s[1]
           /\ \A i \in 1..Len(Tail(s)) : Tail(s)[i] = s[i+1]
           /\ {s[i] : i \in 1..Len(s)}
                = {Head(s)} \cup {Tail(s)[i] : i \in 1..Len(Tail(s))}
<1>1. /\ Tail(s) \in Seq(S)
      /\ Head(s) \in S
      /\ Head(s) = s[1]
      /\ Len(Tail(s)) = Len(s) - 1
      /\ \A i \in 1..Len(Tail(s)) : Tail(s)[i] = s[i+1]
  BY HeadTailProperties
<1>2. Len(s) \in Nat \ {0}
  BY EmptySeq
<1>3. ASSUME NEW i \in 1..Len(s)
      PROVE  s[i] \in {Head(s)} \cup {Tail(s)[j] : j \in 1..Len(Tail(s))}
  <2>1. CASE i = 1
    BY <1>1, <2>1
  <2>2. CASE i # 1
    <3>1. i - 1 \in 1..Len(Tail(s)) /\ s[i] = Tail(s)[i-1]
      BY <1>1, <1>2, <2>2
    <3> QED
      BY <3>1
  <2> QED
    BY <2>1, <2>2
<1>4. ASSUME NEW j \in 1..Len(Tail(s))
      PROVE  Tail(s)[j] \in {s[i] : i \in 1..Len(s)}
  BY <1>1, <1>2
<1>5. Head(s) \in {s[i] : i \in 1..Len(s)}
  BY <1>1, <1>2
<1> QED
  BY <1>1, <1>2, <1>3, <1>4, <1>5

(* A list in increasing order stays so when a larger element is added at   *)
(* its end, and when its first element leaves, which is then not in it.    *)
LEMMA Creciente ==
    ASSUME NEW s \in Seq(Int),
           \A i, j \in 1..Len(s) : i < j => s[i] < s[j]
    PROVE  /\ \A e \in Int :
                 (\A i \in 1..Len(s) : s[i] < e) =>
                    \A i, j \in 1..Len(Append(s, e)) :
                       i < j => Append(s, e)[i] < Append(s, e)[j]
           /\ s # <<>> =>
                 /\ \A i, j \in 1..Len(Tail(s)) : i < j => Tail(s)[i] < Tail(s)[j]
                 /\ Head(s) \notin {Tail(s)[i] : i \in 1..Len(Tail(s))}
<1>1. Len(s) \in Nat
  BY LenProperties
<1>2. ASSUME NEW e \in Int, \A i \in 1..Len(s) : s[i] < e,
             NEW i \in 1..Len(Append(s, e)), NEW j \in 1..Len(Append(s, e)), i < j
      PROVE  Append(s, e)[i] < Append(s, e)[j]
  <2>1. /\ Len(Append(s, e)) = Len(s) + 1
        /\ \A k \in 1..Len(s) : Append(s, e)[k] = s[k]
        /\ Append(s, e)[Len(s) + 1] = e
    BY AppendProperties
  <2>2. i \in 1..Len(s) /\ (j \in 1..Len(s) \/ j = Len(s) + 1)
    BY <1>1, <1>2, <2>1
  <2> QED
    BY <1>2, <2>1, <2>2
<1>3. ASSUME s # <<>>
      PROVE  /\ \A i, j \in 1..Len(Tail(s)) : i < j => Tail(s)[i] < Tail(s)[j]
             /\ Head(s) \notin {Tail(s)[i] : i \in 1..Len(Tail(s))}
  <2>1. /\ Len(s) \in Nat \ {0}
        /\ Len(Tail(s)) = Len(s) - 1
        /\ Head(s) = s[1]
        /\ \A i \in 1..Len(Tail(s)) : Tail(s)[i] = s[i+1]
    BY <1>3, Cola
  <2>2. \A i \in 1..Len(Tail(s)) : i + 1 \in 1..Len(s) /\ s[1] < s[i+1]
                                  /\ s[1] \in Int /\ s[i+1] \in Int
    BY <2>1, ElementOfSeq
  <2>3. Head(s) \notin {Tail(s)[i] : i \in 1..Len(Tail(s))}
    BY <2>1, <2>2
  <2>4. ASSUME NEW i \in 1..Len(Tail(s)), NEW j \in 1..Len(Tail(s)), i < j
        PROVE  Tail(s)[i] < Tail(s)[j]
    <3>1. i + 1 \in 1..Len(s) /\ j + 1 \in 1..Len(s) /\ i + 1 < j + 1
      BY <2>1, <2>4
    <3> QED
      BY <2>1, <3>1
  <2> QED
    BY <2>3, <2>4
<1> QED
  BY <1>2, <1>3

-----------------------------------------------------------------------------
(* Lists without repetitions.                                              *)
SinRepetir(s) == \A i, j \in 1..Len(s) : s[i] = s[j] => i = j

(* The members of a list are the values of its positions. *)
LEMMA Miembros ==
    ASSUME NEW S, NEW s \in Seq(S)
    PROVE  /\ ToSet(s) = {s[i] : i \in 1..Len(s)}
           /\ ToSet(s) \subseteq S
           /\ s = <<>> <=> ToSet(s) = {}
<1>1. Len(s) \in Nat /\ DOMAIN s = 1..Len(s) /\ s \in [1..Len(s) -> S]
  BY LenProperties
<1>2. ToSet(s) = {s[i] : i \in 1..Len(s)}
  BY <1>1 DEF ToSet
<1>3. ToSet(s) \subseteq S
  BY <1>1, <1>2
<1>4. s = <<>> => ToSet(s) = {}
  <2>1. s = <<>> => Len(s) = 0
    BY EmptySeq
  <2> QED
    BY <1>2, <2>1
<1>5. s # <<>> => s[1] \in ToSet(s)
  <2>1. s # <<>> => Len(s) \in Nat \ {0}
    BY EmptySeq
  <2> QED
    BY <1>2, <2>1
<1> QED
  BY <1>2, <1>3, <1>4, <1>5

(* list_find of an element that is in the list gives its first position.   *)
LEMMA PosicionDe ==
    ASSUME NEW S, NEW s \in Seq(S), NEW e \in ToSet(s),
           NEW k, k = SelectInSeq(s, LAMBDA v : v = e)
    PROVE  k \in 1..Len(s) /\ s[k] = e
<1> DEFINE I == {i \in 1..Len(s) : s[i] = e}
<1>1. I # {} /\ I \in SUBSET Nat
  BY Miembros, LenProperties
<1>2. Min(I) \in I
  BY <1>1, Minimo
<1>3. SelectInSeq(s, LAMBDA v : v = e) = Min(I)
  BY <1>1 DEF SelectInSeq
<1>4. k = Min(I)
  BY <1>3, Zenon
<1> QED
  BY <1>2, <1>4

(* list_remove: the elements before the position, and those after it.      *)
LEMMA QuitarPosicion ==
    ASSUME NEW S, NEW s \in Seq(S), NEW k \in 1..Len(s)
    PROVE  /\ RemoveAt(s, k) \in Seq(S)
           /\ Len(RemoveAt(s, k)) = Len(s) - 1
           /\ \A i \in 1..Len(s) - 1 :
                  RemoveAt(s, k)[i] = IF i < k THEN s[i] ELSE s[i + 1]
<1>1. Len(s) \in Nat /\ \A i \in 1..Len(s) : s[i] \in S
  BY LenProperties, ElementOfSeq
<1> DEFINE a == SubSeq(s, 1, k - 1)
           b == SubSeq(s, k + 1, Len(s))
<1>2. /\ a \in Seq(S) /\ Len(a) = k - 1
      /\ \A i \in 1..k - 1 : a[i] = s[i]
  <2>1. \A i \in 1..k - 1 : s[i] \in S
    BY <1>1
  <2>2. /\ a \in Seq(S) /\ Len(a) = IF 1 <= k - 1 THEN k - 1 - 1 + 1 ELSE 0
        /\ \A i \in 1..k - 1 - 1 + 1 : a[i] = s[1 + i - 1]
    BY <1>1, <2>1, SubSeqProperties
  <2> QED
    BY <1>1, <2>2
<1>3. /\ b \in Seq(S) /\ Len(b) = Len(s) - k
      /\ \A i \in 1..Len(s) - k : b[i] = s[k + i]
  <2>1. \A i \in k + 1..Len(s) : s[i] \in S
    BY <1>1
  <2>2. /\ b \in Seq(S)
        /\ Len(b) = IF k + 1 <= Len(s) THEN Len(s) - (k + 1) + 1 ELSE 0
        /\ \A i \in 1..Len(s) - (k + 1) + 1 : b[i] = s[k + 1 + i - 1]
    BY <1>1, <2>1, SubSeqProperties
  <2> QED
    BY <1>1, <2>2
<1>4. /\ a \o b \in Seq(S) /\ Len(a \o b) = Len(a) + Len(b)
      /\ \A i \in 1..Len(a) + Len(b) :
             (a \o b)[i] = IF i <= Len(a) THEN a[i] ELSE b[i - Len(a)]
  BY <1>2, <1>3, ConcatProperties
<1>5. RemoveAt(s, k) = a \o b
  BY DEF RemoveAt
<1> HIDE DEF a, b
<1>6. ASSUME NEW i \in 1..Len(s) - 1
      PROVE  (a \o b)[i] = IF i < k THEN s[i] ELSE s[i + 1]
  <2>1. CASE i < k
    BY <1>1, <1>2, <1>3, <1>4, <2>1
  <2>2. CASE i >= k
    <3>1. (a \o b)[i] = b[i - (k - 1)] /\ i - (k - 1) \in 1..Len(s) - k
      BY <1>1, <1>2, <1>3, <1>4, <2>2
    <3> QED
      BY <1>1, <1>3, <2>2, <3>1
  <2>3. i < k \/ i >= k
    BY <1>1
  <2> QED
    BY <2>1, <2>2, <2>3, Zenon
<1>7. Len(a \o b) = Len(s) - 1
  BY <1>1, <1>2, <1>3, <1>4
<1> QED
  BY <1>4, <1>5, <1>6, <1>7, Zenon

(* list_remove_element takes one occurrence out and adds nothing.          *)
LEMMA QuitarElemento ==
    ASSUME NEW S, NEW s \in Seq(S), NEW e
    PROVE  /\ RemoveFirst(s, e) \in Seq(S)
           /\ ToSet(RemoveFirst(s, e)) \subseteq ToSet(s)
           /\ ToSet(s) \ {e} \subseteq ToSet(RemoveFirst(s, e))
           /\ e \notin ToSet(s) => RemoveFirst(s, e) = s
           /\ e \in ToSet(s) => Len(RemoveFirst(s, e)) = Len(s) - 1
           /\ SinRepetir(s) =>
                 /\ SinRepetir(RemoveFirst(s, e))
                 /\ e \notin ToSet(RemoveFirst(s, e))
<1>1. Len(s) \in Nat /\ ToSet(s) = {s[i] : i \in 1..Len(s)}
  BY LenProperties, Miembros
<1>2. CASE e \notin ToSet(s)
  <2>1. RemoveFirst(s, e) = s
    BY <1>1, <1>2 DEF RemoveFirst
  <2> QED
    BY <1>2, <2>1
<1>3. CASE e \in ToSet(s)
  <2> DEFINE k == SelectInSeq(s, LAMBDA v : v = e)
             r == RemoveFirst(s, e)
  <2>1. k \in 1..Len(s) /\ s[k] = e
    BY <1>3, PosicionDe
  <2>2. r = RemoveAt(s, k)
    <3>1. \E i \in 1..Len(s) : s[i] = e
      BY <1>1, <1>3
    <3> QED
      BY <3>1, Zenon DEF RemoveFirst
  <2> HIDE DEF k, r
  <2>3. /\ r \in Seq(S) /\ Len(r) = Len(s) - 1
        /\ \A i \in 1..Len(s) - 1 : r[i] = IF i < k THEN s[i] ELSE s[i + 1]
    BY <2>1, <2>2, QuitarPosicion
  <2>4. ToSet(r) = {r[i] : i \in 1..Len(r)}
    BY <2>3, Miembros
  <2>5. ToSet(r) \subseteq ToSet(s)
    BY <1>1, <2>1, <2>3, <2>4
  <2>6. ASSUME NEW i \in 1..Len(s), s[i] # e
        PROVE  s[i] \in ToSet(r)
    <3>1. CASE i < k
      BY <1>1, <2>1, <2>3, <2>4, <3>1
    <3>2. CASE i > k
      <4>1. i - 1 \in 1..Len(r) /\ r[i - 1] = s[i]
        BY <1>1, <2>1, <2>3, <3>2
      <4> QED
        BY <2>4, <4>1
    <3> QED
      BY <2>1, <2>6, <3>1, <3>2
  <2>7. ASSUME SinRepetir(s)
        PROVE  SinRepetir(r) /\ e \notin ToSet(r)
    <3>1. \A i \in 1..Len(s) - 1 :
             /\ r[i] = s[IF i < k THEN i ELSE i + 1]
             /\ (IF i < k THEN i ELSE i + 1) \in 1..Len(s) \ {k}
      BY <1>1, <2>1, <2>3
    <3>2. e \notin ToSet(r)
      BY <2>1, <2>3, <2>4, <2>7, <3>1 DEF SinRepetir
    <3>3. ASSUME NEW i \in 1..Len(r), NEW j \in 1..Len(r), r[i] = r[j]
          PROVE  i = j
      <4>1. (IF i < k THEN i ELSE i + 1) = (IF j < k THEN j ELSE j + 1)
        BY <2>3, <2>7, <3>1, <3>3 DEF SinRepetir
      <4> QED
        BY <1>1, <2>1, <4>1
    <3> QED
      BY <3>2, <3>3 DEF SinRepetir
  <2>8. /\ r \in Seq(S) /\ ToSet(r) \subseteq ToSet(s)
        /\ ToSet(s) \ {e} \subseteq ToSet(r)
        /\ Len(r) = Len(s) - 1
        /\ SinRepetir(s) => SinRepetir(r) /\ e \notin ToSet(r)
    BY <1>1, <2>3, <2>5, <2>6, <2>7
  <2>9. r = RemoveFirst(s, e)
    BY Zenon DEF r
  <2> QED
    BY <1>3, <2>8, <2>9
<1> QED
  BY <1>2, <1>3

(* list_add of an element, and of those of another list.                   *)
LEMMA Agregar ==
    ASSUME NEW S, NEW s \in Seq(S), NEW e \in S
    PROVE  /\ Append(s, e) \in Seq(S)
           /\ ToSet(Append(s, e)) = ToSet(s) \cup {e}
           /\ SinRepetir(s) /\ e \notin ToSet(s) => SinRepetir(Append(s, e))
<1>1. /\ Len(s) \in Nat /\ Append(s, e) \in Seq(S)
      /\ Len(Append(s, e)) = Len(s) + 1
      /\ \A i \in 1..Len(s) : Append(s, e)[i] = s[i]
      /\ Append(s, e)[Len(s) + 1] = e
  BY AppendProperties, LenProperties
<1>2. /\ ToSet(s) = {s[i] : i \in 1..Len(s)}
      /\ ToSet(Append(s, e)) = {Append(s, e)[i] : i \in 1..Len(Append(s, e))}
  BY <1>1, Miembros
<1>3. ToSet(Append(s, e)) = ToSet(s) \cup {e}
  BY <1>2, AgregarAlFinal
<1>4. ASSUME SinRepetir(s), e \notin ToSet(s),
             NEW i \in 1..Len(s) + 1, NEW j \in 1..Len(s) + 1,
             Append(s, e)[i] = Append(s, e)[j]
      PROVE  i = j
  <2>1. (i \in 1..Len(s) \/ i = Len(s) + 1) /\ (j \in 1..Len(s) \/ j = Len(s) + 1)
    BY <1>1
  <2> QED
    BY <1>1, <1>2, <1>4, <2>1 DEF SinRepetir
<1> QED
  BY <1>1, <1>3, <1>4 DEF SinRepetir

(* list_add_all: the members of both, without repetition if they share     *)
(* none.                                                                   *)
LEMMA Concatenar ==
    ASSUME NEW S, NEW s \in Seq(S), NEW t \in Seq(S)
    PROVE  /\ s \o t \in Seq(S)
           /\ ToSet(s \o t) = ToSet(s) \cup ToSet(t)
           /\ SinRepetir(s) /\ SinRepetir(t) /\ ToSet(s) \cap ToSet(t) = {}
                 => SinRepetir(s \o t)
<1>1. /\ Len(s) \in Nat /\ Len(t) \in Nat /\ s \o t \in Seq(S)
      /\ Len(s \o t) = Len(s) + Len(t)
      /\ \A i \in 1..Len(s) + Len(t) :
             (s \o t)[i] = IF i <= Len(s) THEN s[i] ELSE t[i - Len(s)]
  BY ConcatProperties, LenProperties
<1>2. /\ ToSet(s) = {s[i] : i \in 1..Len(s)}
      /\ ToSet(t) = {t[i] : i \in 1..Len(t)}
      /\ ToSet(s \o t) = {(s \o t)[i] : i \in 1..Len(s) + Len(t)}
  <2>1. ToSet(s \o t) = {(s \o t)[i] : i \in 1..Len(s \o t)}
    BY <1>1, Miembros
  <2>2. ToSet(s) = {s[i] : i \in 1..Len(s)}
    BY Miembros
  <2>3. ToSet(t) = {t[i] : i \in 1..Len(t)}
    BY Miembros
  <2> QED
    BY <1>1, <2>1, <2>2, <2>3
<1>3. ASSUME NEW i \in 1..Len(t)
      PROVE  Len(s) + i \in 1..Len(s) + Len(t) /\ (s \o t)[Len(s) + i] = t[i]
  BY <1>1
<1>4. ASSUME NEW i \in 1..Len(s) + Len(t), i > Len(s)
      PROVE  i - Len(s) \in 1..Len(t) /\ (s \o t)[i] = t[i - Len(s)]
  BY <1>1, <1>4
<1>5. \A i \in 1..Len(s) : i \in 1..Len(s) + Len(t) /\ (s \o t)[i] = s[i]
  BY <1>1
<1>6. ToSet(s \o t) = ToSet(s) \cup ToSet(t)
  <2>1. ToSet(s \o t) \subseteq ToSet(s) \cup ToSet(t)
    BY <1>1, <1>2, <1>4
  <2>2. ToSet(s) \subseteq ToSet(s \o t)
    BY <1>2, <1>5
  <2>3. ToSet(t) \subseteq ToSet(s \o t)
    BY <1>2, <1>3
  <2> QED
    BY <2>1, <2>2, <2>3
<1>7. ASSUME SinRepetir(s), SinRepetir(t), ToSet(s) \cap ToSet(t) = {},
             NEW i \in 1..Len(s) + Len(t), NEW j \in 1..Len(s) + Len(t),
             (s \o t)[i] = (s \o t)[j]
      PROVE  i = j
  <2>1. CASE i <= Len(s) /\ j <= Len(s)
    BY <1>1, <1>7, <2>1 DEF SinRepetir
  <2>2. CASE i > Len(s) /\ j > Len(s)
    <3>1. i - Len(s) = j - Len(s)
      BY <1>4, <1>7, <2>2 DEF SinRepetir
    <3> QED
      BY <1>1, <3>1
  <2>3. CASE i <= Len(s) /\ j > Len(s)
    <3>1. (s \o t)[i] \in ToSet(s) /\ (s \o t)[j] \in ToSet(t)
      BY <1>1, <1>2, <1>4, <1>5, <2>3
    <3> QED
      BY <1>7, <3>1
  <2>4. CASE j <= Len(s) /\ i > Len(s)
    <3>1. (s \o t)[j] \in ToSet(s) /\ (s \o t)[i] \in ToSet(t)
      BY <1>1, <1>2, <1>4, <1>5, <2>4
    <3> QED
      BY <1>7, <3>1
  <2>5. i \in Int /\ j \in Int /\ Len(s) \in Int
    BY <1>1
  <2> QED
    BY <2>1, <2>2, <2>3, <2>4, <2>5
<1> QED
  BY <1>1, <1>6, <1>7 DEF SinRepetir

-----------------------------------------------------------------------------
(* An element that is in a list at most once stays so. *)
Unico(s, x) == \A i, j \in 1..Len(s) : s[i] = x /\ s[j] = x => i = j

(* In particular those of a list without repetitions. *)
LEMMA UnicoSinRepetir ==
    ASSUME NEW s, NEW x, SinRepetir(s)
    PROVE  Unico(s, x)
BY DEF SinRepetir, Unico

(* After list_add of another element, or when it was not in the list. *)
LEMMA UnicoAgregar ==
    ASSUME NEW S, NEW s \in Seq(S), NEW e \in S, NEW x, Unico(s, x),
           x = e => x \notin ToSet(s)
    PROVE  Unico(Append(s, e), x)
<1>1. /\ Len(s) \in Nat
      /\ Len(Append(s, e)) = Len(s) + 1
      /\ \A i \in 1..Len(s) : Append(s, e)[i] = s[i]
      /\ Append(s, e)[Len(s) + 1] = e
      /\ ToSet(s) = {s[i] : i \in 1..Len(s)}
  BY AppendProperties, LenProperties, Miembros
<1>2. ASSUME NEW i \in 1..Len(s) + 1, NEW j \in 1..Len(s) + 1,
             Append(s, e)[i] = x, Append(s, e)[j] = x
      PROVE  i = j
  <2>1. (i \in 1..Len(s) \/ i = Len(s) + 1) /\ (j \in 1..Len(s) \/ j = Len(s) + 1)
    BY <1>1
  <2> QED
    BY <1>1, <1>2, <2>1 DEF Unico
<1> QED
  BY <1>1, <1>2 DEF Unico

(* After adding a list, when only one of the two has it. *)
LEMMA UnicoConcatenar ==
    ASSUME NEW S, NEW s \in Seq(S), NEW t \in Seq(S), NEW x,
           Unico(s, x), Unico(t, x), ~ (x \in ToSet(s) /\ x \in ToSet(t))
    PROVE  Unico(s \o t, x)
<1>1. /\ Len(s) \in Nat /\ Len(t) \in Nat
      /\ Len(s \o t) = Len(s) + Len(t)
      /\ \A i \in 1..Len(s) + Len(t) :
             (s \o t)[i] = IF i <= Len(s) THEN s[i] ELSE t[i - Len(s)]
  BY ConcatProperties, LenProperties
<1>2. ToSet(s) = {s[i] : i \in 1..Len(s)}
  BY Miembros
<1>3. ToSet(t) = {t[i] : i \in 1..Len(t)}
  BY Miembros
<1>4. ASSUME NEW i \in 1..Len(s) + Len(t), (s \o t)[i] = x
      PROVE  \/ i \in 1..Len(s) /\ s[i] = x
             \/ i - Len(s) \in 1..Len(t) /\ t[i - Len(s)] = x
  BY <1>1, <1>4
<1>5. ASSUME NEW i \in 1..Len(s) + Len(t), NEW j \in 1..Len(s) + Len(t),
             (s \o t)[i] = x, (s \o t)[j] = x
      PROVE  i = j
  <2>1. CASE x \in ToSet(s)
    <3>1. i \in 1..Len(s) /\ s[i] = x /\ j \in 1..Len(s) /\ s[j] = x
      BY <1>3, <1>4, <1>5, <2>1
    <3> QED
      BY <3>1 DEF Unico
  <2>2. CASE x \notin ToSet(s)
    <3>1. /\ i - Len(s) \in 1..Len(t) /\ t[i - Len(s)] = x
          /\ j - Len(s) \in 1..Len(t) /\ t[j - Len(s)] = x
      BY <1>2, <1>4, <1>5, <2>2
    <3>2. i - Len(s) = j - Len(s)
      BY <3>1 DEF Unico
    <3> QED
      BY <1>1, <3>2
  <2> QED
    BY <2>1, <2>2
<1> QED
  BY <1>1, <1>5 DEF Unico

(* After list_remove_element, which takes it out if it was the one. *)
LEMMA UnicoQuitar ==
    ASSUME NEW S, NEW s \in Seq(S), NEW e, NEW x, Unico(s, x)
    PROVE  /\ Unico(RemoveFirst(s, e), x)
           /\ x = e => x \notin ToSet(RemoveFirst(s, e))
<1>1. Len(s) \in Nat /\ ToSet(s) = {s[i] : i \in 1..Len(s)}
  BY LenProperties, Miembros
<1>2. CASE e \notin ToSet(s)
  <2>1. RemoveFirst(s, e) = s
    BY <1>2, QuitarElemento
  <2> QED
    BY <1>2, <2>1
<1>3. CASE e \in ToSet(s)
  <2> DEFINE k == SelectInSeq(s, LAMBDA v : v = e)
             r == RemoveFirst(s, e)
  <2>1. k \in 1..Len(s) /\ s[k] = e
    BY <1>3, PosicionDe
  <2>2. r = RemoveAt(s, k)
    <3>1. \E i \in 1..Len(s) : s[i] = e
      BY <1>1, <1>3
    <3> QED
      BY <3>1, Zenon DEF RemoveFirst
  <2> HIDE DEF k, r
  <2>3. /\ r \in Seq(S) /\ Len(r) = Len(s) - 1
        /\ \A i \in 1..Len(s) - 1 : r[i] = IF i < k THEN s[i] ELSE s[i + 1]
    BY <2>1, <2>2, QuitarPosicion
  <2>4. ToSet(r) = {r[i] : i \in 1..Len(r)}
    BY <2>3, Miembros
  <2>5. \A i \in 1..Len(s) - 1 :
           /\ r[i] = s[IF i < k THEN i ELSE i + 1]
           /\ (IF i < k THEN i ELSE i + 1) \in 1..Len(s) \ {k}
    BY <1>1, <2>1, <2>3
  <2>6. ASSUME NEW i \in 1..Len(r), NEW j \in 1..Len(r), r[i] = x, r[j] = x
        PROVE  i = j
    <3>1. (IF i < k THEN i ELSE i + 1) = (IF j < k THEN j ELSE j + 1)
      BY <2>3, <2>5, <2>6 DEF Unico
    <3> QED
      BY <1>1, <2>1, <3>1
  <2>7. x = e => x \notin ToSet(r)
    BY <2>1, <2>3, <2>4, <2>5 DEF Unico
  <2> QED
    BY <2>6, <2>7 DEF Unico, r
<1> QED
  BY <1>2, <1>3

(* list_remove of the last element. *)
LEMMA QuitarUltimo ==
    ASSUME NEW S, NEW s \in Seq(S), s # <<>>
    PROVE  /\ Front(s) \in Seq(S)
           /\ Last(s) \in S
           /\ ToSet(s) = ToSet(Front(s)) \cup {Last(s)}
           /\ SinRepetir(s) => SinRepetir(Front(s)) /\ Last(s) \notin ToSet(Front(s))
<1>1. Len(s) \in Nat \ {0} /\ \A i \in 1..Len(s) : s[i] \in S
  BY EmptySeq, LenProperties, ElementOfSeq
<1> DEFINE f == Front(s)
<1>2. /\ f \in Seq(S) /\ Len(f) = Len(s) - 1
      /\ \A i \in 1..Len(s) - 1 : f[i] = s[i]
  <2>1. \A i \in 1..Len(s) - 1 : s[i] \in S
    BY <1>1
  <2>2. f = SubSeq(s, 1, Len(s) - 1)
    BY DEF Front
  <2> HIDE DEF f
  <2>3. /\ f \in Seq(S)
        /\ Len(f) = IF 1 <= Len(s) - 1 THEN Len(s) - 1 - 1 + 1 ELSE 0
        /\ \A i \in 1..Len(s) - 1 - 1 + 1 : f[i] = s[1 + i - 1]
    BY <1>1, <2>1, <2>2, SubSeqProperties
  <2>4. Len(f) = Len(s) - 1 /\ Len(s) - 1 - 1 + 1 = Len(s) - 1
    <3>1. \A n \in Nat \ {0} : /\ (IF 1 <= n - 1 THEN n - 1 - 1 + 1 ELSE 0) = n - 1
                               /\ n - 1 - 1 + 1 = n - 1
      OBVIOUS
    <3> QED
      BY <1>1, <2>3, <3>1, Zenon
  <2>5. ASSUME NEW i \in 1..Len(s) - 1
        PROVE  f[i] = s[i]
    <3>1. f[i] = s[1 + i - 1] /\ 1 + i - 1 = i
      BY <2>3, <2>4
    <3> QED
      BY <3>1
  <2> QED
    BY <2>3, <2>4, <2>5
<1>3. Last(s) = s[Len(s)]
  BY DEF Last
<1> HIDE DEF f
<1>4. ToSet(s) = {s[i] : i \in 1..Len(s)}
  BY Miembros
<1>5. ToSet(f) = {f[i] : i \in 1..Len(f)}
  BY <1>2, Miembros
<1>6. \A i \in 1..Len(s) : i \in 1..Len(s) - 1 \/ i = Len(s)
  BY <1>1
<1>7. ToSet(s) = ToSet(f) \cup {Last(s)}
  BY <1>1, <1>2, <1>3, <1>4, <1>5, <1>6
<1>8. SinRepetir(s) => SinRepetir(f) /\ Last(s) \notin ToSet(f)
  BY <1>1, <1>2, <1>3, <1>5 DEF SinRepetir
<1>9. Last(s) \in S
  BY <1>1, <1>3
<1> QED
  BY <1>2, <1>7, <1>8, <1>9 DEF f

(* How often an element is in a list where it is at most once, and how     *)
(* large a set is that has at most one element.                            *)
LEMMA ALoSumoUno ==
    ASSUME NEW T, \A x, y \in T : x = y
    PROVE  Cardinality(T) = IF T = {} THEN 0 ELSE 1
<1>1. CASE T = {}
  BY <1>1, FS_EmptySet
<1>2. CASE T # {}
  <2>1. PICK x \in T : TRUE
    BY <1>2
  <2>2. T = {x}
    BY <2>1
  <2> QED
    BY <1>2, <2>2, FS_Singleton
<1> QED
  BY <1>1, <1>2

(* list_remove of the first element. *)
LEMMA QuitarPrimero ==
    ASSUME NEW S, NEW s \in Seq(S), s # <<>>
    PROVE  /\ Tail(s) \in Seq(S)
           /\ Head(s) \in ToSet(s)
           /\ ToSet(s) = {Head(s)} \cup ToSet(Tail(s))
           /\ SinRepetir(s) => SinRepetir(Tail(s)) /\ Head(s) \notin ToSet(Tail(s))
           /\ \A x : Unico(s, x) =>
                 /\ Unico(Tail(s), x)
                 /\ x = Head(s) => x \notin ToSet(Tail(s))
<1> DEFINE t == Tail(s)
<1>1. /\ Len(s) \in Nat \ {0} /\ t \in Seq(S) /\ Len(t) = Len(s) - 1
      /\ Head(s) = s[1] /\ \A i \in 1..Len(t) : t[i] = s[i + 1]
      /\ {s[i] : i \in 1..Len(s)} = {Head(s)} \cup {t[i] : i \in 1..Len(t)}
  BY Cola
<1> HIDE DEF t
<1>2. ToSet(s) = {s[i] : i \in 1..Len(s)}
  BY Miembros
<1>3. ToSet(t) = {t[i] : i \in 1..Len(t)}
  BY <1>1, Miembros
<1>4. \A i \in 1..Len(t) : i + 1 \in 1..Len(s) /\ i + 1 # 1
  BY <1>1
<1>5. 1 \in 1..Len(s)
  BY <1>1
<1>6. \A x : Unico(s, x) => Unico(t, x) /\ (x = Head(s) => x \notin ToSet(t))
  <2> SUFFICES ASSUME NEW x, Unico(s, x)
               PROVE  Unico(t, x) /\ (x = Head(s) => x \notin ToSet(t))
    OBVIOUS
  <2>1. ASSUME NEW i \in 1..Len(t), NEW j \in 1..Len(t), t[i] = x, t[j] = x
        PROVE  i = j
    <3>1. i + 1 = j + 1
      BY <1>1, <1>4, <2>1 DEF Unico
    <3> QED
      BY <3>1
  <2>2. ASSUME x = Head(s), NEW i \in 1..Len(t), t[i] = x
        PROVE  FALSE
    BY <1>1, <1>4, <1>5, <2>2 DEF Unico
  <2> QED
    BY <1>3, <2>1, <2>2 DEF Unico
<1>7. SinRepetir(s) => SinRepetir(t) /\ Head(s) \notin ToSet(t)
  <2> SUFFICES ASSUME SinRepetir(s) PROVE SinRepetir(t) /\ Head(s) \notin ToSet(t)
    OBVIOUS
  <2>1. \A x : Unico(t, x) /\ (x = Head(s) => x \notin ToSet(t))
    BY <1>6, UnicoSinRepetir
  <2> QED
    BY <2>1 DEF SinRepetir, Unico
<1>8. ToSet(s) = {Head(s)} \cup ToSet(t)
  BY <1>1, <1>2, <1>3
<1> QED
  BY <1>1, <1>6, <1>7, <1>8 DEF t
-----------------------------------------------------------------------------
(* The loop that gives, from b, one value after another of V: the values   *)
(* after each of its N passes, and that there are such values.             *)
Iteradas(V, b, paso, N) ==
    {f \in [0..N -> V] : f[0] = b /\ \A n \in 1..N : f[n] = paso[f[n - 1]][n]}

(* A function defined by what it is at 0 and how each value gives the      *)
(* next exists: the loops of the code that the modules write as            *)
(* recursive functions.                                                    *)
LEMMA Recurrencia ==
    ASSUME NEW V, NEW b \in V, NEW paso \in [V -> [Nat -> V]], NEW N \in Nat
    PROVE  Iteradas(V, b, paso, N) # {}
<1> DEFINE P == {n \in Nat : Iteradas(V, b, paso, n) # {}}
<1>1. 0 \in P
  <2> DEFINE f == [n \in 0..0 |-> b]
  <2>1. f \in Iteradas(V, b, paso, 0)
    BY DEF Iteradas
  <2> QED
    BY <2>1
<1>2. ASSUME NEW n \in Nat, n \in P
      PROVE  n + 1 \in P
  <2>1. PICK f \in Iteradas(V, b, paso, n) : TRUE
    BY <1>2
  <2>2. f \in [0..n -> V] /\ f[0] = b /\ \A m \in 1..n : f[m] = paso[f[m - 1]][m]
    BY <2>1 DEF Iteradas
  <2> DEFINE w == paso[f[n]][n + 1]
             g == [m \in 0..n + 1 |-> IF m = n + 1 THEN w ELSE f[m]]
  <2>3. w \in V
    BY <2>2
  <2> HIDE DEF w
  <2>4. g \in [0..n + 1 -> V]
    BY <2>2, <2>3
  <2>5. g[n + 1] = w /\ \A m \in 0..n : g[m] = f[m]
    OBVIOUS
  <2> HIDE DEF g
  <2>6. g[0] = b
    BY <2>2, <2>5
  <2>7. ASSUME NEW m \in 1..n + 1
        PROVE  g[m] = paso[g[m - 1]][m]
    <3>1. CASE m = n + 1
      <4>1. m - 1 = n /\ n \in 0..n
        BY <3>1
      <4> QED
        BY <2>5, <3>1, <4>1 DEF w
    <3>2. CASE m # n + 1
      <4>1. m \in 0..n /\ m - 1 \in 0..n /\ m \in 1..n
        BY <3>2
      <4> QED
        BY <2>2, <2>5, <4>1
    <3> QED
      BY <3>1, <3>2
  <2>8. g \in Iteradas(V, b, paso, n + 1)
    BY <2>4, <2>6, <2>7 DEF Iteradas
  <2> QED
    BY <2>8
<1> HIDE DEF P
<1>3. N \in P
  BY <1>1, <1>2, Induccion
<1> QED
  BY <1>3 DEF P

(* One element of a list replaced by two, and two neighbours by one.       *)
ConDos(s, t, k, e, r) ==
    /\ Len(t) = Len(s) + 1
    /\ \A j \in 1..Len(s) + 1 :
          t[j] = IF j < k THEN s[j] ELSE IF j = k THEN e
                 ELSE IF j = k + 1 THEN r ELSE s[j - 1]

ConUno(s, t, k, r) ==
    /\ Len(t) = Len(s) - 1
    /\ \A j \in 1..Len(s) - 1 :
          t[j] = IF j < k THEN s[j] ELSE IF j = k THEN r ELSE s[j + 1]

(* list_replace and list_add_in_index, as a split uses them: one           *)
(* position becomes two.                                                   *)
LEMMA PartirPosicion ==
    ASSUME NEW S, NEW s \in Seq(S), NEW k \in 1..Len(s), NEW e \in S, NEW r \in S
    PROVE  /\ InsertAt(ReplaceAt(s, k, r), k, e) \in Seq(S)
           /\ ConDos(s, InsertAt(ReplaceAt(s, k, r), k, e), k, e, r)
<1> DEFINE u == ReplaceAt(s, k, r)
           a == SubSeq(u, 1, k - 1)
           c == SubSeq(u, k, Len(u))
           v == <<e>>
           d == a \o v
<1>1. Len(s) \in Nat /\ \A i \in 1..Len(s) : s[i] \in S
  BY LenProperties, ElementOfSeq
<1>2. /\ u \in Seq(S) /\ Len(u) = Len(s) /\ u[k] = r
      /\ \A i \in 1..Len(s) : i # k => u[i] = s[i]
  BY <1>1, ExceptSeq DEF ReplaceAt
<1> HIDE DEF u
<1>3. \A i \in 1..Len(u) : u[i] \in S
  BY <1>2, ElementOfSeq
<1>4. /\ a \in Seq(S) /\ Len(a) = k - 1
      /\ \A i \in 1..k - 1 : a[i] = s[i]
  <2>1. \A i \in 1..k - 1 : u[i] \in S
    BY <1>1, <1>2, <1>3
  <2>2. /\ a \in Seq(S) /\ Len(a) = IF 1 <= k - 1 THEN k - 1 - 1 + 1 ELSE 0
        /\ \A i \in 1..k - 1 - 1 + 1 : a[i] = u[1 + i - 1]
    BY <1>1, <1>2, <2>1, SubSeqProperties
  <2> QED
    BY <1>1, <1>2, <2>2
<1>5. /\ c \in Seq(S) /\ Len(c) = Len(s) - k + 1
      /\ \A i \in 1..Len(s) - k + 1 : c[i] = u[k + i - 1]
  <2>1. \A i \in k..Len(u) : u[i] \in S
    BY <1>1, <1>2, <1>3
  <2>2. /\ c \in Seq(S)
        /\ Len(c) = IF k <= Len(u) THEN Len(u) - k + 1 ELSE 0
        /\ \A i \in 1..Len(u) - k + 1 : c[i] = u[k + i - 1]
    BY <1>1, <1>2, <2>1, SubSeqProperties
  <2> QED
    BY <1>1, <1>2, <2>2
<1> HIDE DEF a, c
<1>6. /\ d \in Seq(S) /\ Len(d) = k /\ d[k] = e
      /\ \A i \in 1..k - 1 : d[i] = s[i]
  <2>1. v \in Seq(S) /\ Len(v) = 1 /\ v[1] = e
    OBVIOUS
  <2> HIDE DEF v
  <2>2. /\ d \in Seq(S) /\ Len(d) = Len(a) + Len(v)
        /\ \A i \in 1..Len(a) + Len(v) :
               d[i] = IF i <= Len(a) THEN a[i] ELSE v[i - Len(a)]
    BY <1>4, <2>1, ConcatProperties
  <2>3. k \in 1..Len(a) + 1 /\ ~ (k <= Len(a)) /\ k - Len(a) = 1
    BY <1>1, <1>4
  <2> QED
    BY <1>1, <1>4, <2>1, <2>2, <2>3
<1> HIDE DEF d, v
<1>7. /\ d \o c \in Seq(S) /\ Len(d \o c) = Len(d) + Len(c)
      /\ \A i \in 1..Len(d) + Len(c) :
             (d \o c)[i] = IF i <= Len(d) THEN d[i] ELSE c[i - Len(d)]
  BY <1>5, <1>6, ConcatProperties
<1>8. InsertAt(ReplaceAt(s, k, r), k, e) = d \o c
  BY DEF InsertAt, a, c, d, u, v
<1>9. Len(d \o c) = Len(s) + 1
  BY <1>1, <1>5, <1>6, <1>7
<1>10. ASSUME NEW j \in 1..Len(s) + 1
       PROVE  (d \o c)[j] = IF j < k THEN s[j] ELSE IF j = k THEN e
                            ELSE IF j = k + 1 THEN r ELSE s[j - 1]
  <2>1. (d \o c)[j] = IF j <= k THEN d[j] ELSE c[j - k]
    BY <1>1, <1>5, <1>6, <1>7
  <2>2. j < k => (d \o c)[j] = s[j]
    BY <1>1, <1>6, <2>1
  <2>3. j = k => (d \o c)[j] = e
    BY <1>1, <1>6, <2>1
  <2>4. ASSUME j > k
        PROVE  (d \o c)[j] = u[j - 1] /\ j - 1 \in 1..Len(s)
    BY <1>1, <1>5, <2>1, <2>4
  <2>5. j = k + 1 => (d \o c)[j] = r
    <3>1. j = k + 1 => j > k /\ j - 1 = k
      BY <1>1
    <3> QED
      BY <1>2, <2>4, <3>1
  <2>6. j > k /\ j # k + 1 => (d \o c)[j] = s[j - 1]
    <3>1. j > k /\ j # k + 1 => j - 1 # k
      BY <1>1
    <3> QED
      BY <1>2, <2>4, <3>1
  <2>7. j < k \/ j = k \/ (j > k /\ j # k + 1) \/ j = k + 1
    BY <1>1
  <2> QED
    BY <2>2, <2>3, <2>5, <2>6, <2>7, Zenon
<1> QED
  BY <1>7, <1>8, <1>9, <1>10 DEF ConDos

(* list_replace and list_remove, as a merge uses them: two positions       *)
(* become one.                                                             *)
LEMMA UnirPosiciones ==
    ASSUME NEW S, NEW s \in Seq(S), NEW k \in 1..Len(s) - 1, NEW r \in S
    PROVE  /\ RemoveAt(ReplaceAt(s, k, r), k + 1) \in Seq(S)
           /\ ConUno(s, RemoveAt(ReplaceAt(s, k, r), k + 1), k, r)
<1> DEFINE u == ReplaceAt(s, k, r)
<1>1. Len(s) \in Nat
  BY LenProperties
<1>2. k \in 1..Len(s) /\ k + 1 \in 1..Len(s)
  BY <1>1
<1>3. /\ u \in Seq(S) /\ Len(u) = Len(s) /\ u[k] = r
      /\ \A i \in 1..Len(s) : i # k => u[i] = s[i]
  BY <1>1, <1>2, ExceptSeq DEF ReplaceAt
<1> DEFINE t == RemoveAt(u, k + 1)
<1> HIDE DEF u
<1>4. /\ t \in Seq(S) /\ Len(t) = Len(u) - 1
      /\ \A i \in 1..Len(u) - 1 : t[i] = IF i < k + 1 THEN u[i] ELSE u[i + 1]
  BY <1>2, <1>3, QuitarPosicion
<1> HIDE DEF t
<1>5. ASSUME NEW j \in 1..Len(s) - 1
      PROVE  t[j] = IF j < k THEN s[j] ELSE IF j = k THEN r ELSE s[j + 1]
  <2>1. j \in 1..Len(s) /\ j + 1 \in 1..Len(s) /\ t[j] = IF j < k + 1 THEN u[j] ELSE u[j + 1]
    BY <1>1, <1>3, <1>4
  <2>2. (j < k \/ j = k \/ j > k) /\ (j < k + 1 <=> j < k \/ j = k)
    BY <1>1
  <2>3. j < k => j # k
    BY <1>1
  <2>4. j > k => j + 1 # k /\ ~ (j < k) /\ j # k
    BY <1>1
  <2> QED
    BY <1>3, <2>1, <2>2, <2>3, <2>4, Zenon
<1> QED
  BY <1>3, <1>4, <1>5 DEF t, u, ConUno
=============================================================================
