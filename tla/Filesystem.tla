------------------------------ MODULE Filesystem ------------------------------
(***************************************************************************)
(* The filesystem module (filesystem/src/main.c): memory dumps, each one   *)
(* served by a thread of its own, that share without any mutex the bitmap  *)
(* in memory, its file, and the file of blocks; and the start-up after a   *)
(* stop, which rebuilds the bitmap from its file. One action per access to *)
(* what the threads share.                                                 *)
(***************************************************************************)
EXTENDS Integers, SequencesExt

CONSTANTS
    Archivos,       \* bound: the dumps that are ever asked for
    Tamanios,       \* their sizes, in words of sizeof(int) bytes
    BLOCK_COUNT,
    BLOCK_SIZE,     \* in words: also the pointers an index block holds
    BitsPorByte,    \* 8: blocks whose bits share a byte of the bitmap
    Simultaneos,    \* bound: threads at work at once
    MaxCaidas,      \* bound: how many times the module stops
    CaidaEnCurso    \* whether it may stop in the middle of a dump

ASSUME FilesystemAssumption ==
    /\ IsFiniteSet(Archivos)
    /\ {BLOCK_COUNT, BLOCK_SIZE, BitsPorByte, Simultaneos} \subseteq Nat \ {0}
    /\ Tamanios \subseteq Nat /\ MaxCaidas \in Nat /\ CaidaEnCurso \in BOOLEAN

Bloques == 0..BLOCK_COUNT - 1
Palabras == 0..BLOCK_COUNT * BLOCK_SIZE - 1

VARIABLES
    bitmap,       \* occupied blocks, in memory
    bitmap_dat,   \* the same in the file; a missing byte reads as zero
    bloques_dat,  \* the words of the file of blocks
    metadata,     \* metadata[a]: the file of a, or its absence
    hilo,         \* hilo[a]: where its thread is, with its local variables
    tamanio,      \* tamanio[a]: what was asked for
    respuesta,    \* respuesta[a]: what the memory module was answered
    caidas

archivos == <<bitmap_dat, bloques_dat, metadata>>
vars == <<bitmap, archivos, hilo, tamanio, respuesta, caidas>>

Cero == [tipo |-> "cero", archivo |-> "", valor |-> 0]
Puntero(a, b) == [tipo |-> "puntero", archivo |-> a, valor |-> b]
Dato(a, k) == [tipo |-> "dato", archivo |-> a, valor |-> k]

SinMetadata == [size |-> -1, index_block |-> -1]

Ocioso == [paso |-> "sin_pedir", bloques |-> <<>>, i |-> 1, leido |-> {}]

(* bitmap.dat and bloques.dat are new. *)
Init ==
    /\ bitmap = {} /\ bitmap_dat = {}
    /\ bloques_dat = [w \in Palabras |-> Cero]
    /\ metadata = [a \in Archivos |-> SinMetadata]
    /\ hilo = [a \in Archivos |-> Ocioso]
    /\ tamanio = [a \in Archivos |-> 0]
    /\ respuesta = [a \in Archivos |-> "ninguna"]
    /\ caidas = 0

EnCurso == {a \in Archivos : hilo[a].paso \notin {"sin_pedir", "fin", "perdido"}}

Paso(a, desde, hasta) ==
    /\ hilo[a].paso = desde
    /\ hilo' = [hilo EXCEPT ![a].paso = hasta]

-----------------------------------------------------------------------------
CalcularBloquesNecesarios(t) == (t + BLOCK_SIZE - 1) \div BLOCK_SIZE

MismoByte(b) == {x \in Bloques : x \div BitsPorByte = b \div BitsPorByte}

(* fseek and fwrite of consecutive words: nothing confines them to the     *)
(* block (words beyond the end of the file are not kept, nobody reads them).*)
EscribirBloque(disco, b, palabras) ==
    [w \in Palabras |->
        LET k == w - b * BLOCK_SIZE + 1
        IN  IF k \in DOMAIN palabras THEN palabras[k] ELSE disco[w]]

-----------------------------------------------------------------------------
(* OPERACION_DUMP_MEMORY: crear_archivo_dump, step by step. *)

RecibirDump(a, t) ==
    /\ Cardinality(EnCurso) < Simultaneos
    /\ Paso(a, "sin_pedir", "buscar")
    /\ tamanio' = [tamanio EXCEPT ![a] = t]
    /\ UNCHANGED <<bitmap, archivos, respuesta, caidas>>

(* The first free blocks, one more than the data needs; <<>> (NULL) if     *)
(* there are not as many.                                                  *)
EncontrarBloquesLibres(t) ==
    LET cantidad == CalcularBloquesNecesarios(t) + 1
        Anotar(bloques, i) ==
            IF i \in bitmap \/ Len(bloques) = cantidad THEN bloques ELSE Append(bloques, i)
        hallados[n \in 0..BLOCK_COUNT] ==
            IF n = 0 THEN <<>> ELSE Anotar(hallados[n - 1], n - 1)
    IN  IF Len(hallados[BLOCK_COUNT]) < cantidad THEN <<>> ELSE hallados[BLOCK_COUNT]

BuscarBloques(a) ==
    LET bloques == EncontrarBloquesLibres(tamanio[a])
    IN
    /\ hilo[a].paso = "buscar"
    /\ hilo' = [hilo EXCEPT ![a].bloques = bloques,
                            ![a].paso = IF bloques = <<>> THEN "rechazar" ELSE "leer_byte"]
    /\ UNCHANGED <<bitmap, archivos, tamanio, respuesta, caidas>>

(* Bug variant: the failure is not answered. *)
RechazarSinResponder(a) ==
    /\ Paso(a, "rechazar", "fin")
    /\ UNCHANGED <<bitmap, archivos, tamanio, respuesta, caidas>>

Rechazar(a) ==
    /\ Paso(a, "rechazar", "fin")
    /\ respuesta' = [respuesta EXCEPT ![a] = "error"]
    /\ UNCHANGED <<bitmap, archivos, tamanio, caidas>>

(* bitarray_set_bit is a read of the byte that holds the bit and a write   *)
(* of the whole byte.                                                      *)
LeerByte(a) ==
    LET b == hilo[a].bloques[hilo[a].i]
    IN
    /\ hilo[a].paso = "leer_byte"
    /\ hilo' = [hilo EXCEPT ![a].leido = bitmap \cap MismoByte(b), ![a].paso = "set_bit"]
    /\ UNCHANGED <<bitmap, archivos, tamanio, respuesta, caidas>>

EscribirByte(a) ==
    LET b == hilo[a].bloques[hilo[a].i]
        ultimo == hilo[a].i = Len(hilo[a].bloques)
    IN
    /\ hilo[a].paso = "set_bit"
    /\ bitmap' = (bitmap \ MismoByte(b)) \cup hilo[a].leido \cup {b}
    /\ hilo' = [hilo EXCEPT ![a].leido = {},
                            ![a].i = IF ultimo THEN 1 ELSE @ + 1,
                            ![a].paso = IF ultimo THEN "abrir_bitmap" ELSE "leer_byte"]
    /\ UNCHANGED <<archivos, tamanio, respuesta, caidas>>

(* persistir_bitmap: fopen "w" truncates the file, fwrite copies the       *)
(* bitmap to the buffer of the stream, fclose writes it.                   *)
AbrirBitmap(a) ==
    /\ Paso(a, "abrir_bitmap", "copiar_bitmap")
    /\ bitmap_dat' = {}
    /\ UNCHANGED <<bitmap, bloques_dat, metadata, tamanio, respuesta, caidas>>

CopiarBitmap(a) ==
    /\ hilo[a].paso = "copiar_bitmap"
    /\ hilo' = [hilo EXCEPT ![a].leido = bitmap, ![a].paso = "cerrar_bitmap"]
    /\ UNCHANGED <<bitmap, archivos, tamanio, respuesta, caidas>>

(* Bug variant: the stream is never closed. *)
NoCerrarBitmap(a) ==
    /\ hilo[a].paso = "cerrar_bitmap"
    /\ hilo' = [hilo EXCEPT ![a].leido = {}, ![a].paso = "abrir_metadata"]
    /\ UNCHANGED <<bitmap, archivos, tamanio, respuesta, caidas>>

CerrarBitmap(a) ==
    /\ hilo[a].paso = "cerrar_bitmap"
    /\ bitmap_dat' = hilo[a].leido
    /\ hilo' = [hilo EXCEPT ![a].leido = {}, ![a].paso = "abrir_metadata"]
    /\ UNCHANGED <<bitmap, bloques_dat, metadata, tamanio, respuesta, caidas>>

(* crear_archivo_metadata: the file is created empty and filled at fclose. *)
AbrirMetadata(a) ==
    /\ Paso(a, "abrir_metadata", "cerrar_metadata")
    /\ metadata' = [metadata EXCEPT ![a] = SinMetadata]
    /\ UNCHANGED <<bitmap, bitmap_dat, bloques_dat, tamanio, respuesta, caidas>>

CerrarMetadata(a) ==
    /\ Paso(a, "cerrar_metadata", "indice")
    /\ metadata' = [metadata EXCEPT ![a] = [size |-> tamanio[a],
                                            index_block |-> hilo[a].bloques[1]]]
    /\ UNCHANGED <<bitmap, bitmap_dat, bloques_dat, tamanio, respuesta, caidas>>

(* Bug variant: the pointers include the index block itself. *)
EscribirIndiceDesdeElPrimero(a) ==
    LET punteros == [k \in 1..Len(hilo[a].bloques) - 1 |-> Puntero(a, hilo[a].bloques[k])]
    IN
    /\ Paso(a, "indice", "datos")
    /\ bloques_dat' = EscribirBloque(bloques_dat, hilo[a].bloques[1], punteros)
    /\ UNCHANGED <<bitmap, bitmap_dat, metadata, tamanio, respuesta, caidas>>

(* All the pointers, however many, from the start of the index block. *)
EscribirIndice(a) ==
    LET punteros == [k \in 1..Len(hilo[a].bloques) - 1 |-> Puntero(a, hilo[a].bloques[k + 1])]
    IN
    /\ Paso(a, "indice", "datos")
    /\ bloques_dat' = EscribirBloque(bloques_dat, hilo[a].bloques[1], punteros)
    /\ UNCHANGED <<bitmap, bitmap_dat, metadata, tamanio, respuesta, caidas>>

(* One data block; the last one may be shorter. *)
EscribirDatos(a) ==
    LET i == hilo[a].i
        offset == (i - 1) * BLOCK_SIZE
        size_to_write == IF offset + BLOCK_SIZE > tamanio[a]
                         THEN tamanio[a] - offset ELSE BLOCK_SIZE
        palabras == [k \in 1..size_to_write |-> Dato(a, offset + k - 1)]
    IN
    /\ hilo[a].paso = "datos" /\ i < Len(hilo[a].bloques)
    /\ bloques_dat' = EscribirBloque(bloques_dat, hilo[a].bloques[i + 1], palabras)
    /\ hilo' = [hilo EXCEPT ![a].i = i + 1]
    /\ UNCHANGED <<bitmap, bitmap_dat, metadata, tamanio, respuesta, caidas>>

Confirmar(a) ==
    /\ hilo[a].i = Len(hilo[a].bloques)
    /\ Paso(a, "datos", "fin")
    /\ respuesta' = [respuesta EXCEPT ![a] = "ok"]
    /\ UNCHANGED <<bitmap, archivos, tamanio, caidas>>

PasoDump(a) ==
    \/ BuscarBloques(a) \/ Rechazar(a)
    \/ LeerByte(a) \/ EscribirByte(a)
    \/ AbrirBitmap(a) \/ CopiarBitmap(a) \/ CerrarBitmap(a)
    \/ AbrirMetadata(a) \/ CerrarMetadata(a)
    \/ EscribirIndice(a) \/ EscribirDatos(a) \/ Confirmar(a)

(* Bug variant: the bitmap starts empty although its file exists. *)
ReiniciarEnCero == bitmap' = {}

(* inicializar_bitmap: a file of the wrong size is extended with zeros. *)
InicializarBitmap == bitmap' = bitmap_dat

(* The module stops and starts again; the threads at work are lost. *)
Caida ==
    /\ caidas < MaxCaidas
    /\ CaidaEnCurso \/ EnCurso = {}
    /\ caidas' = caidas + 1
    /\ InicializarBitmap
    /\ hilo' = [a \in Archivos |->
                   IF a \in EnCurso THEN [hilo[a] EXCEPT !.paso = "perdido", !.leido = {}]
                   ELSE hilo[a]]
    /\ UNCHANGED <<archivos, tamanio, respuesta>>

Next ==
    \/ \E a \in Archivos : PasoDump(a) \/ \E t \in Tamanios : RecibirDump(a, t)
    \/ Caida

Spec == Init /\ [][Next]_vars

(* A thread that serves a dump keeps running. *)
FairSpec == Spec /\ \A a \in Archivos : WF_vars(PasoDump(a))

-----------------------------------------------------------------------------
Pasos == {"sin_pedir", "buscar", "rechazar", "leer_byte", "set_bit", "abrir_bitmap",
          "copiar_bitmap", "cerrar_bitmap", "abrir_metadata", "cerrar_metadata",
          "indice", "datos", "fin", "perdido"}

(* Every variable has its type; a thread that writes has an index block. *)
TypeOK ==
    /\ bitmap \in SUBSET Bloques /\ bitmap_dat \in SUBSET Bloques
    /\ \A w \in Palabras : bloques_dat[w].tipo \in {"cero", "puntero", "dato"}
    /\ \A a \in Archivos :
          /\ metadata[a].size \in Nat \cup {-1}
          /\ metadata[a].index_block \in Bloques \cup {-1}
          /\ hilo[a].paso \in Pasos /\ hilo[a].leido \subseteq Bloques
          /\ \A k \in DOMAIN hilo[a].bloques : hilo[a].bloques[k] \in Bloques
          /\ hilo[a].i \in 1..Len(hilo[a].bloques) + 1
          /\ hilo[a].paso \in {"leer_byte", "set_bit"} => hilo[a].i <= Len(hilo[a].bloques)
    /\ tamanio \in [Archivos -> Tamanios \cup {0}]
    /\ respuesta \in [Archivos -> {"ninguna", "ok", "error"}]
    /\ caidas \in 0..MaxCaidas

(* A block is assigned to one file only, through any number of dumps and   *)
(* restarts, with one dump at a time (Simultaneos = 1). Two dumps that     *)
(* overlap may both look for free blocks before either has marked its own: *)
(* MCFilesystemCarrera.cfg shows that the claim fails then.                *)
BloquesDe(a) == ToSet(hilo[a].bloques)

BloquesExclusivos ==
    \A a, b \in Archivos : a # b => BloquesDe(a) \cap BloquesDe(b) = {}

(* A dump that was confirmed can be read back, from its metadata through   *)
(* the index block to each word of its contents, whatever was dumped later *)
(* and however many times the module was restarted.                        *)
ContenidoIntacto ==
    \A a \in Archivos : respuesta[a] = "ok" =>
        /\ metadata[a].size = tamanio[a]
        /\ \A k \in 0..tamanio[a] - 1 :
              LET puntero == bloques_dat[metadata[a].index_block * BLOCK_SIZE + k \div BLOCK_SIZE]
              IN  /\ puntero.tipo = "puntero"
                  /\ bloques_dat[puntero.valor * BLOCK_SIZE + (k % BLOCK_SIZE)] = Dato(a, k)

(* Between dumps the bitmap, in memory and in its file, marks exactly the  *)
(* blocks of the files: no block leaks, none is given twice.               *)
BitmapAlDia ==
    EnCurso = {} =>
        /\ bitmap = UNION {BloquesDe(a) : a \in Archivos}
        /\ bitmap_dat = bitmap

(* The blocks of a confirmed dump stay marked for ever. *)
ConfirmadosOcupados ==
    \A a \in Archivos : respuesta[a] = "ok" => BloquesDe(a) \subseteq bitmap

(* Every dump that is asked for is answered, with any number of threads    *)
(* at work, whether there is room for it or not.                           *)
DumpTermina ==
    \A a \in Archivos : hilo[a].paso = "buscar" ~> respuesta[a] # "ninguna"
=============================================================================
