------------------------------ MODULE Paquetes ------------------------------
(***************************************************************************)
(* The messages between the modules: buffers (utils/buffer.c), packets     *)
(* (utils/mensajes.c), the serialisation of every request and answer       *)
(* (utils/comunicacion_*.c, memoria/src/comunicaciones.c) and one TCP      *)
(* connection that carries them as a stream of bytes, which arrive in      *)
(* pieces.  One end asks (cliente) and the other serves (servidor).        *)
(*                                                                         *)
(* kernel_cpu and cpu_kernel are the two directions of the dispatch        *)
(* connection; the kernel opens a connection to the memory, and the memory *)
(* one to the filesystem, for a single request.                            *)
(***************************************************************************)
EXTENDS Integers, SequencesExt, TLC

CONSTANTS
    Byte, Ancho,        \* values of a byte; bytes of a uint32_t
    Conexiones,         \* the connections of the instance
    Datos(_),           \* the records that may be sent with some fields
    Palabras,           \* words read from the memory
    MaxPedidos,         \* bound: requests on a lasting connection
    SinPedir,           \* operations that the instance leaves out
    PalabrasPartidas    \* TRUE: a word sent on its own may arrive in two pieces

Efimeras == {"kernel_memoria", "memoria_filesystem"}

op_code ==
    <<"MENSAJE", "DEVOLVER_CONTEXTO_EJECUCION", "PAQUETE", "EJECUTAR_HILO", "DESALOJAR_HILO",
      "CREAR_PROCESO", "FINALIZAR_PROCESO", "CREAR_HILO", "FINALIZAR_HILO", "ESPERAR_HILO",
      "CANCELAR_HILO", "CREAR_MUTEX", "BLOQUEAR_MUTEX", "DESBLOQUEAR_MUTEX", "DUMP_MEMORY",
      "IO", "CONFIRMAR", "NOTIFICAR_ERROR", "DEVOLVER_INSTRUCCION", "ACTUALIZAR_CONTEXTO",
      "LEER_MEMORIA", "ESCRIBIR_MEMORIA", "SEGMENTATION_FAULT">>

Codigo(op) == (CHOOSE i \in DOMAIN op_code : op_code[i] = op) - 1
Operacion(n) == IF n < Len(op_code) THEN op_code[n + 1] ELSE "desconocida"

(* What the byte of each position of a word is worth. *)
Peso[k \in 0..Ancho] == IF k = 0 THEN 1 ELSE Byte * Peso[k - 1]

Octetos == 0..Byte - 1
Enteros == 0..Peso[Ancho] - 1

ASSUME PaquetesAssumption ==
    /\ Byte \in Nat \ {0} /\ Ancho \in Nat \ {0} /\ Peso[Ancho] >= Len(op_code)
    /\ MaxPedidos \in Nat /\ PalabrasPartidas \in BOOLEAN /\ Palabras \subseteq Enteros

Bytes(n) == [i \in 1..Ancho |-> (n \div Peso[i - 1]) % Byte]
Palabra(s) ==
    LET hasta[i \in 0..Len(s)] == IF i = 0 THEN 0 ELSE hasta[i - 1] + s[i] * Peso[i - 1]
    IN  hasta[Len(s)]

-----------------------------------------------------------------------------
(* Buffers.  offset may pass size: the code does not look.                 *)

buffer_create(size) == [size |-> size, stream |-> <<>>, offset |-> 0]

buffer_add(b, bytes) ==
    [b EXCEPT !.stream = @ \o bytes, !.offset = @ + Len(bytes)]

buffer_add_uint32(b, n) == buffer_add(b, Bytes(n))

buffer_add_string(b, s) == buffer_add(buffer_add_uint32(b, Len(s)), s)

(* The n bytes at an offset.  What a read finds past the written bytes is  *)
(* any value: 0 stands for it.                                             *)
Leidos(stream, offset, n) ==
    [i \in 1..n |-> IF offset + i <= Len(stream) THEN stream[offset + i] ELSE 0]

buffer_read_uint32(stream, offset) == Palabra(Leidos(stream, offset, Ancho))

buffer_read_string(stream, offset) ==
    Leidos(stream, offset + Ancho, buffer_read_uint32(stream, offset))

serializar_paquete(op, b) ==
    Bytes(Codigo(op)) \o Bytes(b.size) \o Leidos(b.stream, 0, b.size)

-----------------------------------------------------------------------------
(* Each serialiser: its fields in the order in which it adds them, and the *)
(* size that it passes to buffer_create.                                   *)

Textos == {"archivo_pseudocodigo", "recurso", "nombre_archivo", "instruccion"}
Contexto == <<"pid", "tid", "PC", "AX", "BX", "CX", "DX", "EX", "FX", "GX", "HX", "Base",
              "Limite">>

(* The CPU asks for the context with the buffer that the kernel sent.      *)
EscribeCpuMemoria(op) ==
    CASE op = "DEVOLVER_CONTEXTO_EJECUCION" -> <<"pid", "tid">>
      [] op = "ACTUALIZAR_CONTEXTO"         -> Contexto
      [] op = "DEVOLVER_INSTRUCCION"        -> <<"pid", "tid", "PC">>
      [] op = "LEER_MEMORIA"                -> <<"pid", "tid", "tamanio", "dir_fisica">>
      [] op = "ESCRIBIR_MEMORIA"            -> <<"pid", "tid", "tamanio", "dir_fisica",
                                                 "dato_a_escribir">>

TamanioCpuMemoria(op) ==
    CASE op = "DEVOLVER_CONTEXTO_EJECUCION" -> 2 * Ancho
      [] op = "ACTUALIZAR_CONTEXTO"         -> 13 * Ancho
      [] op = "DEVOLVER_INSTRUCCION"        -> 3 * Ancho
      [] op = "LEER_MEMORIA"                -> 4 * Ancho
      [] op = "ESCRIBIR_MEMORIA"            -> 5 * Ancho

EscribeKernelMemoria(op) ==
    CASE op = "CREAR_HILO"        -> <<"pid", "tid", "archivo_pseudocodigo">>
      [] op = "FINALIZAR_HILO"    -> <<"pid", "tid">>
      [] op = "CREAR_PROCESO"     -> <<"pid", "tamanio">>
      [] op = "FINALIZAR_PROCESO" -> <<"pid">>
      [] op = "DUMP_MEMORY"       -> <<"pid", "tid">>

TamanioKernelMemoria(op, d) ==
    CASE op = "CREAR_HILO" -> 3 * Ancho + Len(d.archivo_pseudocodigo)
      [] op \in {"FINALIZAR_HILO", "CREAR_PROCESO", "DUMP_MEMORY"} -> 2 * Ancho
      [] op = "FINALIZAR_PROCESO" -> Ancho

(* No fields: the code of the operation goes alone, without a buffer.      *)
EscribeCpuKernel(op) ==
    CASE op = "CREAR_HILO"    -> <<"archivo_pseudocodigo", "prioridad">>
      [] op = "CREAR_PROCESO" -> <<"archivo_pseudocodigo", "tamanio_proceso", "prioridad">>
      [] op \in {"CREAR_MUTEX", "BLOQUEAR_MUTEX", "DESBLOQUEAR_MUTEX"} -> <<"recurso">>
      [] op \in {"ESPERAR_HILO", "CANCELAR_HILO"} -> <<"tid">>
      [] op = "IO" -> <<"tiempo">>
      [] op \in {"FINALIZAR_HILO", "FINALIZAR_PROCESO", "DUMP_MEMORY", "DESALOJAR_HILO"} -> <<>>

TamanioCpuKernel(op, d) ==
    CASE op = "CREAR_HILO"    -> 2 * Ancho + Len(d.archivo_pseudocodigo)
      [] op = "CREAR_PROCESO" -> 3 * Ancho + Len(d.archivo_pseudocodigo)
      [] op \in {"CREAR_MUTEX", "BLOQUEAR_MUTEX", "DESBLOQUEAR_MUTEX"} -> Len(d.recurso) + Ancho
      [] op \in {"ESPERAR_HILO", "CANCELAR_HILO", "IO"} -> Ancho
      [] op \in {"FINALIZAR_HILO", "FINALIZAR_PROCESO", "DUMP_MEMORY", "DESALOJAR_HILO"} -> 0

Escribe(c, op) ==
    CASE c = "cpu_memoria"        -> EscribeCpuMemoria(op)
      [] c = "kernel_memoria"     -> EscribeKernelMemoria(op)
      [] c = "cpu_kernel"         -> EscribeCpuKernel(op)
      [] c = "kernel_cpu"         -> <<"pid", "tid">>
      [] c = "memoria_filesystem" -> <<"nombre_archivo", "tamanio", "contenido">>

TamanioPedido(c, op, d) ==
    CASE c = "cpu_memoria"        -> TamanioCpuMemoria(op)
      [] c = "kernel_memoria"     -> TamanioKernelMemoria(op, d)
      [] c = "cpu_kernel"         -> TamanioCpuKernel(op, d)
      [] c = "kernel_cpu"         -> 2 * Ancho
      [] c = "memoria_filesystem" -> Ancho + Len(d.nombre_archivo) + Ancho + d.tamanio

(* The answers that are packets. *)
EscribeRespuesta(op) ==
    CASE op = "DEVOLVER_CONTEXTO_EJECUCION" -> Contexto
      [] op = "DEVOLVER_INSTRUCCION"        -> <<"instruccion">>

TamanioRespuesta(op, d) ==
    CASE op = "DEVOLVER_CONTEXTO_EJECUCION" -> 13 * Ancho
      [] op = "DEVOLVER_INSTRUCCION"        -> Len(d.instruccion) + Ancho

-----------------------------------------------------------------------------
(* Each deserialiser: the fields in the order in which it reads them.      *)

LeeCpuMemoria(op) ==
    CASE op = "DEVOLVER_CONTEXTO_EJECUCION" -> <<"pid", "tid">>
      [] op = "ACTUALIZAR_CONTEXTO"         -> <<"pid", "tid", "PC", "AX", "BX", "CX", "DX", "EX",
                                                 "FX", "GX", "HX", "Base", "Limite">>
      [] op = "DEVOLVER_INSTRUCCION"        -> <<"pid", "tid", "PC">>
      [] op = "LEER_MEMORIA"                -> <<"pid", "tid", "tamanio", "dir_fisica">>
      [] op = "ESCRIBIR_MEMORIA"            -> <<"pid", "tid", "tamanio", "dir_fisica",
                                                 "dato_a_escribir">>

(* leer_buffer_kernel takes a dump with the function of the end of a       *)
(* thread.                                                                 *)
LeeKernelMemoria(op) ==
    CASE op = "CREAR_PROCESO"     -> <<"pid", "tamanio">>
      [] op = "FINALIZAR_PROCESO" -> <<"pid">>
      [] op = "CREAR_HILO"        -> <<"pid", "tid", "archivo_pseudocodigo">>
      [] op \in {"FINALIZAR_HILO", "DUMP_MEMORY"} -> <<"pid", "tid">>

(* Bug variant: the kernel reads the priority before the size. *)
LeePrioridadAntes(op) ==
    CASE op = "CREAR_PROCESO" -> <<"archivo_pseudocodigo", "prioridad", "tamanio_proceso">>
      [] op = "CREAR_HILO"    -> <<"archivo_pseudocodigo", "prioridad">>
      [] op \in {"CREAR_MUTEX", "BLOQUEAR_MUTEX", "DESBLOQUEAR_MUTEX"} -> <<"recurso">>
      [] op = "ESPERAR_HILO"  -> <<"tid">>
      [] op = "IO"            -> <<"tiempo">>

LeeCpuKernel(op) ==
    CASE op = "CREAR_PROCESO" -> <<"archivo_pseudocodigo", "tamanio_proceso", "prioridad">>
      [] op = "CREAR_HILO"    -> <<"archivo_pseudocodigo", "prioridad">>
      [] op \in {"CREAR_MUTEX", "BLOQUEAR_MUTEX", "DESBLOQUEAR_MUTEX"} -> <<"recurso">>
      [] op = "ESPERAR_HILO"  -> <<"tid">>
      [] op = "IO"            -> <<"tiempo">>

Lee(c, op) ==
    CASE c = "cpu_memoria"        -> LeeCpuMemoria(op)
      [] c = "kernel_memoria"     -> LeeKernelMemoria(op)
      [] c = "cpu_kernel"         -> LeeCpuKernel(op)
      [] c = "kernel_cpu"         -> <<"pid", "tid">>
      [] c = "memoria_filesystem" -> <<"nombre_archivo", "tamanio", "contenido">>

LeeRespuesta(op) ==
    CASE op = "DEVOLVER_CONTEXTO_EJECUCION" -> <<"pid", "tid", "PC", "AX", "BX", "CX", "DX", "EX",
                                                 "FX", "GX", "HX", "Base", "Limite">>
      [] op = "DEVOLVER_INSTRUCCION"        -> <<"instruccion">>

-----------------------------------------------------------------------------
(* The requests of each connection. *)

Pedidos(c) ==
    CASE c = "cpu_memoria"        -> {"DEVOLVER_CONTEXTO_EJECUCION", "ACTUALIZAR_CONTEXTO",
                                      "DEVOLVER_INSTRUCCION", "LEER_MEMORIA",
                                      "ESCRIBIR_MEMORIA"}
      [] c = "kernel_memoria"     -> {"CREAR_HILO", "FINALIZAR_HILO", "CREAR_PROCESO",
                                      "FINALIZAR_PROCESO", "DUMP_MEMORY"}
      [] c = "cpu_kernel"         -> {"CREAR_HILO", "CREAR_PROCESO", "CREAR_MUTEX",
                                      "BLOQUEAR_MUTEX", "DESBLOQUEAR_MUTEX", "ESPERAR_HILO",
                                      "CANCELAR_HILO", "IO", "FINALIZAR_HILO",
                                      "FINALIZAR_PROCESO", "DUMP_MEMORY", "DESALOJAR_HILO"}
      [] c = "kernel_cpu"         -> {"EJECUTAR_HILO"}
      [] c = "memoria_filesystem" -> {"DUMP_MEMORY"}

(* The kernel has no case for THREAD_CANCEL. *)
Atiende(c) == Pedidos(c) \ {"CANCELAR_HILO"}

AgregarCampo(b, campo, d) ==
    CASE campo \in Textos   -> buffer_add_string(b, d[campo])
      [] campo = "contenido" -> buffer_add(b, d[campo])
      [] OTHER               -> buffer_add_uint32(b, d[campo])

Serializar(campos, tamanio, d) ==
    LET hasta[i \in 0..Len(campos)] ==
            IF i = 0 THEN buffer_create(tamanio)
            ELSE AgregarCampo(hasta[i - 1], campos[i], d)
    IN  hasta[Len(campos)]

BufferPedido(c, op, d) == Serializar(Escribe(c, op), TamanioPedido(c, op, d), d)
BufferRespuesta(op, d) == Serializar(EscribeRespuesta(op), TamanioRespuesta(op, d), d)

(* What is read from a buffer, field after field: each read moves the      *)
(* offset past what it took.  The length of the content of a dump is the   *)
(* field before it.                                                        *)
OcupaCampo(campo, bytes, offset) ==
    CASE campo \in Textos   -> Ancho + buffer_read_uint32(bytes, offset)
      [] campo = "contenido" -> buffer_read_uint32(bytes, offset - Ancho)
      [] OTHER               -> Ancho

LeerCampo(campo, bytes, offset) ==
    CASE campo \in Textos   -> buffer_read_string(bytes, offset)
      [] campo = "contenido" ->
            Leidos(bytes, offset, buffer_read_uint32(bytes, offset - Ancho))
      [] OTHER               -> buffer_read_uint32(bytes, offset)

Deserializar(campos, bytes) ==
    LET offset[i \in 0..Len(campos)] ==
            IF i = 0 THEN 0
            ELSE offset[i - 1] + OcupaCampo(campos[i], bytes, offset[i - 1])
        posicion(c) == CHOOSE i \in DOMAIN campos : campos[i] = c
    IN  [offset |-> offset[Len(campos)],
         datos  |-> [c \in ToSet(campos) |-> LeerCampo(c, bytes, offset[posicion(c) - 1])]]

(* What fits in the fields of a message: words, and texts and contents of  *)
(* bytes.                                                                  *)
Enviable(campos, d) ==
    /\ d = [c \in ToSet(campos) |-> d[c]]
    /\ \A c \in ToSet(campos) :
          CASE c \in Textos   -> d[c] \in Seq(Octetos) /\ Len(d[c]) \in Enteros
            [] c = "contenido" -> d[c] \in Seq(Octetos) /\ Len(d[c]) = d.tamanio
            [] OTHER           -> d[c] \in Enteros

ASSUME DatosAssumption ==
    /\ Conexiones \subseteq {"kernel_cpu", "cpu_kernel", "cpu_memoria", "kernel_memoria",
                            "memoria_filesystem"}
    /\ \A c \in Conexiones : \A op \in Pedidos(c) : \A d \in Datos(Escribe(c, op)) :
           IF Escribe(c, op) = <<>> THEN d = <<>>
           ELSE Enviable(Escribe(c, op), d) /\ TamanioPedido(c, op, d) \in Enteros
    /\ \A op \in {"DEVOLVER_CONTEXTO_EJECUCION", "DEVOLVER_INSTRUCCION"} :
           \A d \in Datos(EscribeRespuesta(op)) :
               Enviable(EscribeRespuesta(op), d) /\ TamanioRespuesta(op, d) \in Enteros

-----------------------------------------------------------------------------
(* What each end does after a request, written apart in each module: the   *)
(* server sends "nada", a code of operation, a packet or a word ("dato"),  *)
(* and the client waits for one of them.                                   *)

(* Bug variant: every request of the CPU is confirmed. *)
RespondeDeMas(c, op) ==
    CASE op \in {"DEVOLVER_CONTEXTO_EJECUCION", "DEVOLVER_INSTRUCCION"} -> "paquete"
      [] op = "LEER_MEMORIA" -> "dato"
      [] c = "kernel_cpu"    -> "nada"
      [] OTHER               -> "operacion"

Responde(c, op) ==
    CASE c = "cpu_memoria" /\ op \in {"DEVOLVER_CONTEXTO_EJECUCION", "DEVOLVER_INSTRUCCION"}
            -> "paquete"
      [] c = "cpu_memoria" /\ op = "LEER_MEMORIA" -> "dato"
      [] c = "kernel_cpu" -> "nada"
      [] c = "cpu_kernel" /\ op \in {"CREAR_PROCESO", "FINALIZAR_PROCESO", "IO",
                                     "DESALOJAR_HILO", "CANCELAR_HILO"} -> "nada"
      [] OTHER -> "operacion"

(* Bug variant: the CPU waits for a confirmation of the IO. *)
EsperaDeMas(c, op) ==
    CASE op \in {"DEVOLVER_CONTEXTO_EJECUCION", "DEVOLVER_INSTRUCCION"} -> {"paquete"}
      [] op = "LEER_MEMORIA" -> {"dato"}
      [] c = "kernel_cpu" \/ op \in {"DESALOJAR_HILO", "CANCELAR_HILO"} -> {"nada"}
      [] c = "cpu_kernel" /\ op \in {"CREAR_PROCESO", "FINALIZAR_PROCESO"} -> {"nada"}
      [] OTHER -> {"operacion"}

(* What the client waits for.  syscall_crear_hilo closes the connection    *)
(* without waiting; the planner waits when it creates the main thread.     *)
EsperaRespuesta(c, op) ==
    CASE op \in {"DEVOLVER_CONTEXTO_EJECUCION", "DEVOLVER_INSTRUCCION"} -> {"paquete"}
      [] op = "LEER_MEMORIA" -> {"dato"}
      [] c = "kernel_cpu" \/ op \in {"DESALOJAR_HILO", "CANCELAR_HILO", "IO"} -> {"nada"}
      [] c = "cpu_kernel" /\ op \in {"CREAR_PROCESO", "FINALIZAR_PROCESO"} -> {"nada"}
      [] c = "kernel_memoria" /\ op = "CREAR_HILO" -> {"operacion", "nada"}
      [] OTHER -> {"operacion"}

(* The operations that can be refused. *)
Respuestas(c, op) ==
    IF op = "BLOQUEAR_MUTEX" \/ (c \in Efimeras /\ op \in {"CREAR_PROCESO", "DUMP_MEMORY"})
    THEN {"CONFIRMAR", "NOTIFICAR_ERROR"} ELSE {"CONFIRMAR"}

SinBuffer(c, op) == Escribe(c, op) = <<>>

Mensaje(c, op, d) ==
    IF SinBuffer(c, op) THEN Bytes(Codigo(op))
    ELSE serializar_paquete(op, BufferPedido(c, op, d))

-----------------------------------------------------------------------------
VARIABLES
    conexion,
    ida, vuelta,      \* each direction: [viajan, llegaron |-> bytes], in order
    cliente,          \* [espera, tamanio]: what it is about to receive
    servidor,         \* [espera, op, tamanio]
    enviados,         \* history: requests sent, [op, datos]
    recibidos,        \* history: requests as the server read them
    respondidas,      \* history: answers sent, [pedido, valor]
    respuestas,       \* history: answers as the client read them
    justo             \* FALSE once a buffer was over or underrun

vars == <<conexion, ida, vuelta, cliente, servidor, enviados, recibidos, respondidas,
          respuestas, justo>>

Vacio == [viajan |-> <<>>, llegaron |-> <<>>]
Mandar(canal, bytes) == [canal EXCEPT !.viajan = @ \o bytes]
Hay(canal, n) == Len(canal.llegaron) >= n
Primeros(canal, n) == SubSeq(canal.llegaron, 1, n)
Tomar(canal, n) == [canal EXCEPT !.llegaron = SubSeq(@, n + 1, Len(@))]

Init ==
    /\ conexion \in Conexiones
    /\ ida = Vacio /\ vuelta = Vacio
    /\ cliente = [espera |-> "nada", tamanio |-> 0]
    /\ servidor = [espera |-> "operacion", op |-> "desconocida", tamanio |-> 0]
    /\ enviados = <<>> /\ recibidos = <<>> /\ respondidas = <<>> /\ respuestas = <<>>
    /\ justo = TRUE

(* TCP delivers the bytes in order: any number of them is there when the   *)
(* other end reads.                                                        *)
Llegan(canal, n) ==
    [viajan |-> SubSeq(canal.viajan, n + 1, Len(canal.viajan)),
     llegaron |-> canal.llegaron \o SubSeq(canal.viajan, 1, n)]

LlegaIda ==
    /\ ida.viajan # <<>>
    /\ ida' = Llegan(ida, 1)
    /\ UNCHANGED <<conexion, vuelta, cliente, servidor, enviados, recibidos, respondidas,
                   respuestas, justo>>

LlegaVuelta ==
    /\ vuelta.viajan # <<>>
    /\ vuelta' = Llegan(vuelta, IF cliente.espera = "dato" /\ ~PalabrasPartidas
                                THEN Len(vuelta.viajan) ELSE 1)
    /\ UNCHANGED <<conexion, ida, cliente, servidor, enviados, recibidos, respondidas,
                   respuestas, justo>>

Enviar(op, d) ==
    /\ cliente.espera = "nada"
    /\ Len(enviados) < IF conexion \in Efimeras THEN 1 ELSE MaxPedidos
    /\ ida' = Mandar(ida, Mensaje(conexion, op, d))
    /\ \E e \in EsperaRespuesta(conexion, op) : cliente' = [cliente EXCEPT !.espera = e]
    /\ enviados' = Append(enviados, [op |-> op, datos |-> d])
    /\ justo' = (justo /\ LET b == BufferPedido(conexion, op, d)
                          IN  SinBuffer(conexion, op) \/ b.offset = b.size)
    /\ UNCHANGED <<conexion, vuelta, servidor, recibidos, respondidas, respuestas>>

-----------------------------------------------------------------------------
(* The server.  Every recv waits for all the bytes (MSG_WAITALL).          *)

Atender(op, d) ==
    /\ recibidos' = Append(recibidos, [op |-> op, datos |-> d])
    /\ servidor' = [servidor EXCEPT !.op = op,
            !.espera = IF Responde(conexion, op) = "nada" THEN "operacion" ELSE "responder"]

(* recibir_operacion; an operation the server does not know is ignored.    *)
ServidorOperacion ==
    LET op == Operacion(Palabra(Primeros(ida, Ancho)))
    IN  /\ servidor.espera = "operacion"
        /\ Hay(ida, Ancho)
        /\ ida' = Tomar(ida, Ancho)
        /\ IF op \notin Atiende(conexion)
           THEN UNCHANGED <<servidor, recibidos>>
           ELSE IF SinBuffer(conexion, op) THEN Atender(op, <<>>)
           ELSE /\ servidor' = [servidor EXCEPT !.espera = "tamanio", !.op = op]
                /\ UNCHANGED recibidos
        /\ UNCHANGED <<conexion, vuelta, cliente, enviados, respondidas, respuestas, justo>>

(* recibir_buffer: the size, then the bytes, which are deserialised.       *)
ServidorTamanio ==
    /\ servidor.espera = "tamanio"
    /\ Hay(ida, Ancho)
    /\ servidor' = [servidor EXCEPT !.espera = "contenido",
                                    !.tamanio = Palabra(Primeros(ida, Ancho))]
    /\ ida' = Tomar(ida, Ancho)
    /\ UNCHANGED <<conexion, vuelta, cliente, enviados, recibidos, respondidas, respuestas,
                   justo>>

ServidorContenido ==
    LET e == Deserializar(Lee(conexion, servidor.op), Primeros(ida, servidor.tamanio))
    IN  /\ servidor.espera = "contenido"
        /\ Hay(ida, servidor.tamanio)
        /\ ida' = Tomar(ida, servidor.tamanio)
        /\ Atender(servidor.op, e.datos)
        /\ justo' = (justo /\ e.offset = servidor.tamanio)
        /\ UNCHANGED <<conexion, vuelta, cliente, enviados, respondidas, respuestas>>

(* confirmar_operacion, notificar_error, enviar_operacion,                 *)
(* enviar_respuesta_operacion, enviar_buffer and the word of leer_memoria. *)
Responder(bytes, valor) ==
    /\ vuelta' = Mandar(vuelta, bytes)
    /\ respondidas' = Append(respondidas, [pedido |-> Len(recibidos), valor |-> valor])
    /\ servidor' = [servidor EXCEPT !.espera = "operacion"]
    /\ UNCHANGED <<conexion, ida, cliente, enviados, recibidos, respuestas>>

ResponderOperacion ==
    /\ servidor.espera = "responder" /\ Responde(conexion, servidor.op) = "operacion"
    /\ \E r \in Respuestas(conexion, servidor.op) : Responder(Bytes(Codigo(r)), r)
    /\ UNCHANGED justo

ResponderPaquete ==
    /\ servidor.espera = "responder" /\ Responde(conexion, servidor.op) = "paquete"
    /\ \E d \in Datos(EscribeRespuesta(servidor.op)) :
          LET b == BufferRespuesta(servidor.op, d)
          IN  /\ Responder(serializar_paquete(servidor.op, b), d)
              /\ justo' = (justo /\ b.offset = b.size)

ResponderDato ==
    /\ servidor.espera = "responder" /\ Responde(conexion, servidor.op) = "dato"
    /\ \E n \in Palabras : Responder(Bytes(n), n)
    /\ UNCHANGED justo

-----------------------------------------------------------------------------
(* The client. *)

Recibir(n, espera) ==
    /\ Hay(vuelta, n)
    /\ vuelta' = Tomar(vuelta, n)
    /\ cliente' = [cliente EXCEPT !.espera = espera]
    /\ UNCHANGED <<conexion, ida, servidor, enviados, recibidos, respondidas>>

Obtener(valor) ==
    respuestas' = Append(respuestas, [pedido |-> Len(enviados), valor |-> valor])

ClienteOperacion ==
    /\ cliente.espera = "operacion"
    /\ Recibir(Ancho, "nada")
    /\ Obtener(Operacion(Palabra(Primeros(vuelta, Ancho))))
    /\ UNCHANGED justo

(* pedir_contexto and pedir_proxima_instruccion ignore the code. *)
ClientePaquete ==
    /\ cliente.espera = "paquete"
    /\ Recibir(Ancho, "tamanio")
    /\ UNCHANGED <<respuestas, justo>>

ClienteTamanio ==
    /\ cliente.espera = "tamanio"
    /\ Hay(vuelta, Ancho)
    /\ vuelta' = Tomar(vuelta, Ancho)
    /\ cliente' = [espera |-> "contenido", tamanio |-> Palabra(Primeros(vuelta, Ancho))]
    /\ UNCHANGED <<conexion, ida, servidor, enviados, recibidos, respondidas, respuestas, justo>>

ClienteContenido ==
    LET e == Deserializar(LeeRespuesta(Last(enviados).op), Primeros(vuelta, cliente.tamanio))
    IN  /\ cliente.espera = "contenido"
        /\ Recibir(cliente.tamanio, "nada")
        /\ Obtener(e.datos)
        /\ justo' = (justo /\ e.offset = cliente.tamanio)

(* lectura_memoria does not ask for all the bytes: it takes what there is. *)
ClienteDato ==
    LET n == Min({Len(vuelta.llegaron), Ancho})
    IN  /\ cliente.espera = "dato"
        /\ n > 0
        /\ Recibir(n, "nada")
        /\ Obtener(Palabra(Primeros(vuelta, n)))
        /\ UNCHANGED justo

-----------------------------------------------------------------------------
Servidor ==
    ServidorOperacion \/ ServidorTamanio \/ ServidorContenido
        \/ ResponderOperacion \/ ResponderPaquete \/ ResponderDato

Cliente ==
    ClienteOperacion \/ ClientePaquete \/ ClienteTamanio \/ ClienteContenido \/ ClienteDato

Next ==
    \/ LlegaIda \/ LlegaVuelta \/ Servidor \/ Cliente
    \/ \E op \in Pedidos(conexion) \ SinPedir : \E d \in Datos(Escribe(conexion, op)) : Enviar(op, d)

Spec == Init /\ [][Next]_vars

(* TCP delivers what was sent, and both ends read and answer; that there   *)
(* are more requests is not promised.                                      *)
FairSpec ==
    Spec /\ WF_vars(LlegaIda) /\ WF_vars(LlegaVuelta) /\ WF_vars(Servidor) /\ WF_vars(Cliente)

-----------------------------------------------------------------------------
(* Every request reaches the other end as it was sent, field by field, in  *)
(* order, whatever the pieces in which its bytes arrive and whatever was   *)
(* sent before it.  No buffer is over or underrun: the size that each      *)
(* serialiser computes by hand is what it adds and what the other end      *)
(* reads.                                                                  *)
PedidosFieles == IsPrefix(recibidos, enviados) /\ justo

(* The answer that the client takes is the one the server gave to that     *)
(* request, and not what was left over of another one.                     *)
RespuestasFieles == IsPrefix(respuestas, respondidas)

(* No end waits for something that the other one does not send: each       *)
(* request gets to the server and the client goes on.                      *)
PedidoAtendido ==
    \A n \in 1..MaxPedidos :
        (Len(enviados) = n) ~> (Len(recibidos) = Len(enviados) /\ cliente.espera = "nada")
=============================================================================
