--------------------------- MODULE Dispatch_proofs ---------------------------
(***************************************************************************)
(* Proofs about Dispatch, for every number of threads, with or without     *)
(* quantum, and programs without the two things that put the kernel and    *)
(* the CPU out of step: THREAD_CANCEL, which the kernel does not know, and *)
(* a THREAD_JOIN that does not block.                                      *)
(***************************************************************************)
EXTENDS Dispatch, Listas, FiniteSetTheorems

Acordes == "THREAD_CANCEL" \notin Instrucciones /\ JoinBloquea \subseteq {TRUE}

-----------------------------------------------------------------------------
(* What the CPU has sent to the kernel: PROCESS_CREATE has no answer, so   *)
(* several may be in the connection, and anything else comes last.         *)

SoloCrear(s, h) ==
    \A i \in 1..Len(s) : s[i].op = "CREAR_PROCESO" /\ s[i].hilo = h

Termina(s, ops, h) ==
    /\ s # <<>>
    /\ \A i \in 1..Len(s) :
          /\ s[i].hilo = h
          /\ IF i < Len(s) THEN s[i].op = "CREAR_PROCESO" ELSE s[i].op \in ops

(* The code that each instruction sends before it waits for an answer. *)
CodigoDe(i) ==
    IF i = "THREAD_CREATE" THEN "CREAR_HILO"
    ELSE IF i = "MUTEX_UNLOCK" THEN "DESBLOQUEAR_MUTEX"
    ELSE IF i = "MUTEX_CREATE" THEN "CREAR_MUTEX"
    ELSE IF i = "MUTEX_LOCK" THEN "BLOQUEAR_MUTEX"
    ELSE IF i = "THREAD_JOIN" THEN "ESPERAR_HILO"
    ELSE IF i = "THREAD_EXIT" THEN "FINALIZAR_HILO"
    ELSE "DUMP_MEMORY"

Sigue == {"THREAD_CREATE", "MUTEX_UNLOCK", "MUTEX_CREATE"}
Deja == {"THREAD_JOIN", "THREAD_EXIT", "DUMP_MEMORY"}
Despedidas == {"IO", "FINALIZAR_PROCESO", "DESALOJAR_HILO"}

-----------------------------------------------------------------------------
(* The parts of the inductive invariant. *)

(* The CPU leaves the thread at the end of the cycle. *)
Sale == ciclo.omitir \/ ciclo.seg_fault

(* The planner is waiting for the thread that the CPU has. *)
Atento ==
    /\ sts = "recibir" /\ contexto \in Hilos
    /\ contexto = estado_exec /\ estado_exec = hilo_en_ejecucion

(* The planner is on its way to the next thread, or has sent it in q.      *)
Replanifica(q) ==
    \/ q = <<>> /\ sts \in {"planificar", "elegido"}
    \/ /\ sts = "recibir" /\ estado_exec \in Hilos /\ estado_exec = hilo_en_ejecucion
       /\ q = <<[op |-> "EJECUTAR_HILO", hilo |-> estado_exec]>>

Formas ==
    /\ listos \in Seq(Hilos) /\ SinRepetir(listos)
    /\ bloqueados \subseteq Hilos /\ ToSet(listos) \cap bloqueados = {}
    /\ sts \in {"planificar", "elegido", "recibir"}
    /\ sts = "recibir" => estado_exec \notin ToSet(listos) \cup bloqueados
    /\ sts = "elegido" => listos # <<>> /\ hilo_en_ejecucion = Head(listos)
    /\ haciaCpu \in Seq(Palabras) /\ haciaKernel \in Seq(Palabras)
    /\ contexto \in Hilos \cup {Ninguno}
    /\ guardado \in [Hilos -> BOOLEAN]
    /\ ciclo \in [siguiente : BOOLEAN, omitir : BOOLEAN, actualizar : BOOLEAN,
                  seg_fault : BOOLEAN]

Temporizador == [hilo : Hilos, propio : BOOLEAN, estado : {"duerme", "envia"}]

OtrosTipos ==
    /\ temporizadores \in Seq(Temporizador)
    /\ quantum \in {"corre", "vencido", "avisado"}
    /\ interrupciones \in Nat
    /\ hay_interrupcion \in BOOLEAN
    /\ instr \in Instrucciones \cup {"ninguna"}
    /\ {estado_exec, hilo_en_ejecucion} \subseteq Hilos \cup {Ninguno}

(* The flags that an instruction leaves, at the points that read them. *)
Banderas ==
    /\ cpu = "chequear" =>
          \/ ciclo = Ciclo(TRUE, FALSE, FALSE)
          \/ Sale /\ (ciclo.seg_fault \/ ~ciclo.siguiente)
    /\ cpu = "responder" =>
          \/ instr \in Sigue /\ ciclo = Ciclo(TRUE, FALSE, FALSE)
          \/ instr \in Deja /\ ciclo = Ciclo(FALSE, TRUE, instr = "THREAD_JOIN")
          \/ instr = "MUTEX_LOCK" /\ ciclo = Ciclo(FALSE, FALSE, FALSE)

(* The CPU has a thread and has asked for nothing that has an answer. *)
ConHilo ==
    cpu \in {"contexto", "ejecutar", "desalojar"} \/ (cpu = "chequear" /\ ~Sale)
    => Atento /\ haciaCpu = <<>> /\ SoloCrear(haciaKernel, contexto)

(* The CPU waits for an answer: the kernel has not read the syscall, or it *)
(* answered and waits for the thread, or it answered and the thread left.  *)
Respondiendo ==
    cpu = "responder" =>
      \/ Atento /\ haciaCpu = <<>> /\ Termina(haciaKernel, {CodigoDe(instr)}, contexto)
      \/ /\ Atento /\ haciaKernel = <<>> /\ instr \in Sigue \cup {"MUTEX_LOCK"}
         /\ haciaCpu = <<[op |-> "CONFIRMAR", hilo |-> Ninguno]>>
      \/ /\ haciaKernel = <<>> /\ instr \in Deja \cup {"MUTEX_LOCK"}
         /\ haciaCpu # <<>>
         /\ Head(haciaCpu).op = IF instr = "MUTEX_LOCK" THEN "NOTIFICAR_ERROR"
                                                        ELSE "CONFIRMAR"
         /\ Replanifica(Tail(haciaCpu))

(* The CPU has no thread: the kernel has not read the last word of the one *)
(* that left, or it is dispatching another one.                            *)
SinHilo ==
    cpu = "esperar" \/ (cpu = "chequear" /\ Sale) =>
      \/ Atento /\ haciaCpu = <<>> /\ Termina(haciaKernel, Despedidas, contexto)
      \/ haciaKernel = <<>> /\ Replanifica(haciaCpu)

(* The CPU is about to update the context of a thread that left it. *)
GuardadoPendiente ==
    \/ /\ cpu = "responder"
       /\ \/ instr = "THREAD_JOIN"
          \/ instr = "MUTEX_LOCK" /\ haciaCpu # <<>> /\ Head(haciaCpu).op = "NOTIFICAR_ERROR"
    \/ /\ cpu = "chequear"
       /\ ciclo.omitir /\ ciclo.actualizar /\ ~ciclo.seg_fault

(* The thread that the CPU is to load, or is loading. *)
Cargando ==
    IF sts = "recibir" /\ (cpu = "contexto" \/
            (haciaCpu # <<>> /\ haciaCpu[Len(haciaCpu)].op = "EJECUTAR_HILO"))
    THEN {estado_exec} ELSE {}

(* The threads that will be loaded again, and those on their way there. *)
Contextos ==
    /\ \A x \in ToSet(listos) \cup bloqueados \cup Cargando :
          guardado[x] \/ (x = contexto /\ GuardadoPendiente)
    /\ cpu = "desalojar" => guardado[contexto]
    /\ cpu = "responder" /\ instr = "DUMP_MEMORY" /\ haciaKernel # <<>> => guardado[contexto]
    /\ /\ cpu \in {"esperar", "chequear"} /\ haciaKernel # <<>>
       /\ haciaKernel[Len(haciaKernel)].op \in {"IO", "DESALOJAR_HILO"}
       => guardado[contexto] \/ GuardadoPendiente

Inv ==
    /\ Formas /\ Banderas /\ ConHilo /\ Respondiendo /\ SinHilo /\ Contextos
    /\ cpu \in {"esperar", "contexto", "ejecutar", "responder", "chequear", "desalojar"}

-----------------------------------------------------------------------------
(* A word that the kernel reads: what is left in the connection. *)
LEMMA PalabraLeida ==
    ASSUME NEW s \in Seq(Palabras), s # <<>>, NEW h, NEW ops, "CREAR_PROCESO" \notin ops
    PROVE  /\ SoloCrear(s, h) =>
                 /\ SoloCrear(Tail(s), h)
                 /\ Head(s).op = "CREAR_PROCESO" /\ Head(s).hilo = h
           /\ Termina(s, ops, h) =>
                 /\ Head(s).hilo = h
                 /\ Head(s).op = "CREAR_PROCESO" =>
                       Termina(Tail(s), ops, h)
                       /\ Tail(s)[Len(Tail(s))] = s[Len(s)]
                 /\ Head(s).op # "CREAR_PROCESO" =>
                       Head(s).op \in ops /\ Tail(s) = <<>> /\ s[Len(s)] = Head(s)
<1>1. /\ Len(s) \in Nat \ {0} /\ Head(s) = s[1]
      /\ Tail(s) \in Seq(Palabras) /\ Len(Tail(s)) = Len(s) - 1
      /\ \A i \in 1..Len(Tail(s)) : Tail(s)[i] = s[i+1]
  BY Cola
<1>2. ASSUME SoloCrear(s, h)
      PROVE  /\ SoloCrear(Tail(s), h)
             /\ Head(s).op = "CREAR_PROCESO" /\ Head(s).hilo = h
  BY <1>1, <1>2 DEF SoloCrear
<1>3. ASSUME Termina(s, ops, h)
      PROVE  /\ Head(s).hilo = h
             /\ Head(s).op = "CREAR_PROCESO" =>
                   Termina(Tail(s), ops, h) /\ Tail(s)[Len(Tail(s))] = s[Len(s)]
             /\ Head(s).op # "CREAR_PROCESO" =>
                   Head(s).op \in ops /\ Tail(s) = <<>> /\ s[Len(s)] = Head(s)
  <2>1. CASE Len(s) = 1
    <3>1. Len(Tail(s)) = 0
      BY <1>1, <2>1
    <3>2. Tail(s) = <<>>
      BY <1>1, <3>1, EmptySeq, Zenon
    <3> QED
      BY <1>1, <1>3, <2>1, <3>2 DEF Termina
  <2>2. CASE Len(s) > 1
    <3>1. Head(s).op = "CREAR_PROCESO" /\ Head(s).hilo = h
      BY <1>1, <1>3, <2>2 DEF Termina
    <3>2. Tail(s) # <<>>
      BY <1>1, <2>2, EmptySeq
    <3>3. \A i \in 1..Len(Tail(s)) : i + 1 \in 1..Len(s) /\ (i < Len(Tail(s)) <=> i + 1 < Len(s))
      BY <1>1
    <3>4. Termina(Tail(s), ops, h)
      BY <1>1, <1>3, <3>2, <3>3 DEF Termina
    <3>5. Tail(s)[Len(Tail(s))] = s[Len(s)]
      BY <1>1, <2>2
    <3> QED
      BY <3>1, <3>4, <3>5
  <2>3. Len(s) = 1 \/ Len(s) > 1
    BY <1>1
  <2> QED
    BY <2>1, <2>2, <2>3, Zenon
<1> QED
  BY <1>2, <1>3

(* A word that the CPU sends. *)
LEMMA PalabraEnviada ==
    ASSUME NEW s \in Seq(Palabras), NEW h, SoloCrear(s, h),
           NEW w \in Palabras, w.hilo = h
    PROVE  /\ s \o <<>> = s
           /\ s \o <<w>> = Append(s, w)
           /\ Append(s, w) \in Seq(Palabras) /\ Append(s, w) # <<>>
           /\ w.op = "CREAR_PROCESO" => SoloCrear(Append(s, w), h)
           /\ \A ops : w.op \in ops => Termina(Append(s, w), ops, h)
           /\ Append(s, w)[Len(Append(s, w))] = w
<1>1. /\ Len(s) \in Nat
      /\ Append(s, w) \in Seq(Palabras) /\ Append(s, w) # <<>>
      /\ Len(Append(s, w)) = Len(s) + 1
      /\ \A i \in 1..Len(s) : Append(s, w)[i] = s[i]
      /\ Append(s, w)[Len(s) + 1] = w
  BY AppendProperties, LenProperties
<1>2. s \o <<>> = s /\ s \o <<w>> = Append(s, w)
  BY ConcatEmptySeq, AppendIsConcat
<1>3. \A i \in 1..Len(s) + 1 : (i \in 1..Len(s) /\ i < Len(s) + 1) \/ i = Len(s) + 1
  BY <1>1
<1>4. w.op = "CREAR_PROCESO" => SoloCrear(Append(s, w), h)
  BY <1>1, <1>3 DEF SoloCrear
<1>5. ASSUME NEW ops, w.op \in ops
      PROVE  Termina(Append(s, w), ops, h)
  <2>1. ASSUME NEW i \in 1..Len(s) + 1
        PROVE  /\ Append(s, w)[i].hilo = h
               /\ IF i < Len(s) + 1 THEN Append(s, w)[i].op = "CREAR_PROCESO"
                                     ELSE Append(s, w)[i].op \in ops
    <3>1. CASE i \in 1..Len(s) /\ i < Len(s) + 1
      BY <1>1, <3>1 DEF SoloCrear
    <3>2. CASE i = Len(s) + 1
      BY <1>1, <1>5, <3>2
    <3> QED
      BY <1>3, <3>1, <3>2
  <2> QED
    BY <1>1, <2>1 DEF Termina
<1> QED
  BY <1>1, <1>2, <1>4, <1>5

-----------------------------------------------------------------------------
(* At start-up nothing is in either connection and nobody runs. *)
LEMMA InvInicial == Init => Inv
<1> SUFFICES ASSUME Init PROVE Inv
  OBVIOUS
<1> USE DEF Init
<1>1. listos \in Seq(Hilos) /\ SinRepetir(listos)
  <2>1. Cardinality(Hilos) \in Nat
    BY DispatchAssumption, FS_CardinalityType
  <2>2. /\ listos \in [1..Cardinality(Hilos) -> Hilos]
        /\ \A i, j \in 1..Cardinality(Hilos) : i # j => listos[i] # listos[j]
    BY DEF SetToSeqs
  <2>3. listos \in Seq(Hilos) /\ Len(listos) = Cardinality(Hilos)
    BY <2>1, <2>2, SeqDef, LenProperties
  <2> QED
    BY <2>2, <2>3 DEF SinRepetir
<1>2. Formas
  BY <1>1, EmptySeq DEF Formas, Ciclo
<1>3. SinHilo /\ Replanifica(haciaCpu)
  BY DEF SinHilo, Replanifica
<1>4. Banderas /\ ConHilo /\ Respondiendo
  BY DEF Banderas, ConHilo, Respondiendo
<1>5. Contextos
  <2>1. ToSet(listos) \subseteq Hilos
    BY <1>1, Miembros
  <2>2. Cargando = {}
    BY DEF Cargando
  <2> QED
    BY <2>1, <2>2 DEF Contextos
<1> QED
  BY <1>2, <1>3, <1>4, <1>5 DEF Inv

(* Timers and interrupts are not looked at by any part. *)
LEMMA Ajenos ==
    ASSUME Inv, UNCHANGED <<kernelVars, haciaCpu, haciaKernel, cpuVars>>
    PROVE  Inv'
<1> USE DEF kernelVars, cpuVars
<1>1. Formas' /\ Banderas' /\ ConHilo'
  BY DEF Inv, Formas, Banderas, ConHilo, Sale, Atento
<1>2. Respondiendo' /\ SinHilo'
  BY DEF Inv, Respondiendo, SinHilo, Sale, Atento, Replanifica
<1>3. Contextos'
  BY DEF Inv, Contextos, Cargando, GuardadoPendiente
<1> QED
  BY <1>1, <1>2, <1>3 DEF Inv

-----------------------------------------------------------------------------
(* The planner chooses a thread and dispatches it. *)
LEMMA AlElegir == ASSUME Inv, Elegir PROVE Inv'
<1> USE DEF Elegir, canales, cpuVars
<1>1. Formas' /\ Banderas' /\ ConHilo'
  BY DEF Inv, Formas, Banderas, ConHilo, Sale, Atento
<1>2. Respondiendo' /\ SinHilo'
  BY DEF Inv, Respondiendo, SinHilo, Sale, Atento, Replanifica
<1>3. Contextos'
  BY DEF Inv, Contextos, Cargando, GuardadoPendiente
<1> QED
  BY <1>1, <1>2, <1>3 DEF Inv

(* Sending a thread to the CPU, which is waiting for one. *)
LEMMA AlDespachar == ASSUME Inv, Despachar PROVE Inv'
<1> USE DEF Despachar, timerVars, cpuVars
<1> DEFINE h == hilo_en_ejecucion
           w == [op |-> "EJECUTAR_HILO", hilo |-> h]
<1>1. /\ listos \in Seq(Hilos) /\ SinRepetir(listos) /\ listos # <<>> /\ h = Head(listos)
      /\ ToSet(listos) \subseteq Hilos
  BY Miembros DEF Inv, Formas
<1>2. /\ listos' = Tail(listos) /\ h \in Hilos
      /\ listos' \in Seq(Hilos) /\ SinRepetir(listos')
      /\ ToSet(listos') \subseteq ToSet(listos) \ {h} /\ h \in ToSet(listos)
  <2>1. listos' = Tail(listos)
    BY <1>1, QuitarCabeza
  <2>2. /\ listos' \in Seq(Hilos) /\ ToSet(listos') \subseteq ToSet(listos)
        /\ SinRepetir(listos') /\ h \notin ToSet(listos')
    BY <1>1, QuitarElemento
  <2>3. h \in Hilos /\ h \in ToSet(listos)
    <3>1. Head(listos) = listos[1] /\ Len(listos) \in Nat \ {0} /\ Head(listos) \in Hilos
      BY <1>1, Cola
    <3>2. ToSet(listos) = {listos[i] : i \in 1..Len(listos)}
      BY <1>1, Miembros
    <3> QED
      BY <1>1, <3>1, <3>2
  <2> QED
    BY <2>1, <2>2, <2>3
<1>3. w \in Palabras
  BY <1>2 DEF Palabras, Ops
<1>4. /\ haciaCpu \in Seq(Palabras) /\ haciaCpu' = Append(haciaCpu, w)
      /\ haciaCpu' \in Seq(Palabras) /\ haciaCpu' # <<>>
      /\ haciaCpu'[Len(haciaCpu')] = w
      /\ haciaCpu = <<>> => haciaCpu' = <<w>>
      /\ haciaCpu # <<>> => /\ Head(haciaCpu') = Head(haciaCpu)
                            /\ Tail(haciaCpu') = Append(Tail(haciaCpu), w)
  <2>1. haciaCpu \in Seq(Palabras) /\ haciaCpu' = Append(haciaCpu, w)
    BY DEF Inv, Formas
  <2>2. /\ Append(haciaCpu, w) \in Seq(Palabras) /\ Append(haciaCpu, w) # <<>>
        /\ Len(Append(haciaCpu, w)) = Len(haciaCpu) + 1
        /\ Append(haciaCpu, w)[Len(haciaCpu) + 1] = w
    BY <1>3, <2>1, AppendProperties, Zenon
  <2>3. haciaCpu # <<>> => /\ Head(Append(haciaCpu, w)) = Head(haciaCpu)
                           /\ Tail(Append(haciaCpu, w)) = Append(Tail(haciaCpu), w)
    BY <1>3, <2>1, HeadTailAppend, Zenon
  <2>4. haciaCpu = <<>> => Append(haciaCpu, w) = <<w>>
    OBVIOUS
  <2> HIDE DEF w
  <2> QED
    BY <2>1, <2>2, <2>3, <2>4, Zenon
<1>5. Formas'
  BY <1>1, <1>2, <1>4 DEF Inv, Formas
<1>6. Banderas' /\ ConHilo'
  BY DEF Inv, Banderas, ConHilo, Sale, Atento
<1>7. \A q : Replanifica(q) => q = <<>>
  BY DEF Replanifica
<1>8. \A q : q = <<w>> =>
         /\ sts' = "recibir" /\ estado_exec' \in Hilos
         /\ estado_exec' = hilo_en_ejecucion'
         /\ q = <<[op |-> "EJECUTAR_HILO", hilo |-> estado_exec']>>
  BY <1>2
<1>9. Respondiendo'
  <2> SUFFICES ASSUME cpu' = "responder"
               PROVE /\ haciaKernel' = <<>> /\ instr' \in Deja \cup {"MUTEX_LOCK"}
                     /\ haciaCpu' # <<>>
                     /\ Head(haciaCpu').op = IF instr' = "MUTEX_LOCK" THEN "NOTIFICAR_ERROR"
                                                                      ELSE "CONFIRMAR"
                     /\ Replanifica(Tail(haciaCpu))'
    BY Zenon DEF Respondiendo
  <2>1. /\ haciaKernel = <<>> /\ instr \in Deja \cup {"MUTEX_LOCK"}
        /\ haciaCpu # <<>>
        /\ Head(haciaCpu).op = IF instr = "MUTEX_LOCK" THEN "NOTIFICAR_ERROR"
                                                        ELSE "CONFIRMAR"
        /\ Replanifica(Tail(haciaCpu))
    BY DEF Inv, Respondiendo, Atento
  <2>2. Tail(haciaCpu') = <<w>>
    <3>1. Tail(haciaCpu) = <<>>
      BY <1>7, <2>1
    <3>2. \A q : q = <<>> => Append(q, w) = <<w>>
      OBVIOUS
    <3> HIDE DEF w
    <3> QED
      BY <1>4, <2>1, <3>1, <3>2, Zenon
  <2> HIDE DEF w
  <2>3. Replanifica(Tail(haciaCpu))'
    BY <1>8, <2>2, Zenon DEF Replanifica
  <2> QED
    BY <1>4, <2>1, <2>3
<1>10. SinHilo'
  <2> SUFFICES ASSUME cpu' = "esperar" \/ (cpu' = "chequear" /\ Sale')
               PROVE  haciaKernel' = <<>> /\ Replanifica(haciaCpu)'
    BY Zenon DEF SinHilo
  <2>1. haciaKernel = <<>> /\ Replanifica(haciaCpu)
    BY DEF Inv, SinHilo, Sale, Atento
  <2>2. haciaCpu' = <<w>>
    BY <1>4, <1>7, <2>1
  <2> QED
    BY <1>8, <2>1, <2>2, Zenon DEF Replanifica
<1>11. Contextos'
  <2>1. GuardadoPendiente => GuardadoPendiente'
    BY <1>4 DEF GuardadoPendiente
  <2>2. Cargando' \subseteq {h}
    BY DEF Cargando
  <2>3. ToSet(listos') \cup bloqueados' \cup Cargando' \subseteq ToSet(listos) \cup bloqueados
    BY <1>2, <2>2
  <2> QED
    BY <2>1, <2>3 DEF Inv, Contextos
<1> QED
  BY <1>5, <1>6, <1>9, <1>10, <1>11 DEF Inv

-----------------------------------------------------------------------------
(* What the planner finds when it reads a word, and who sent it. *)
LEMMA AlLeer ==
    ASSUME Inv, sts = "recibir", haciaKernel # <<>>
    PROVE  /\ Atento /\ haciaCpu = <<>> /\ Head(haciaKernel).hilo = contexto
           /\ Tail(haciaKernel) \in Seq(Palabras)
           /\ \/ Head(haciaKernel).op = "CREAR_PROCESO"
              \/ /\ cpu = "responder" /\ instr \in Sigue \cup Deja \cup {"MUTEX_LOCK"}
                 /\ Tail(haciaKernel) = <<>> /\ Head(haciaKernel).op = CodigoDe(instr)
              \/ /\ cpu = "esperar" \/ (cpu = "chequear" /\ Sale)
                 /\ Tail(haciaKernel) = <<>> /\ Head(haciaKernel).op \in Despedidas
                 /\ haciaKernel[Len(haciaKernel)] = Head(haciaKernel)
<1>1. haciaKernel \in Seq(Palabras)
  BY DEF Inv, Formas
<1>2. Tail(haciaKernel) \in Seq(Palabras)
  BY <1>1, Cola
<1>3. CASE cpu \in {"contexto", "ejecutar", "desalojar"} \/ (cpu = "chequear" /\ ~Sale)
  <2>1. Atento /\ haciaCpu = <<>> /\ SoloCrear(haciaKernel, contexto)
    BY <1>3 DEF Inv, ConHilo
  <2>2. Head(haciaKernel).op = "CREAR_PROCESO" /\ Head(haciaKernel).hilo = contexto
    BY <1>1, <2>1, PalabraLeida, "CREAR_PROCESO" \notin {"IO"}
  <2> QED
    BY <1>2, <2>1, <2>2
<1>4. CASE cpu = "responder"
  <2>1. Atento /\ haciaCpu = <<>> /\ Termina(haciaKernel, {CodigoDe(instr)}, contexto)
    BY <1>4 DEF Inv, Respondiendo
  <2>2. instr \in Sigue \cup Deja \cup {"MUTEX_LOCK"}
    BY <1>4 DEF Inv, Banderas
  <2>3. "CREAR_PROCESO" \notin {CodigoDe(instr)}
    BY <2>2 DEF CodigoDe, Sigue, Deja
  <2>4. /\ Head(haciaKernel).hilo = contexto
        /\ Head(haciaKernel).op # "CREAR_PROCESO" =>
              Head(haciaKernel).op \in {CodigoDe(instr)} /\ Tail(haciaKernel) = <<>>
    BY <1>1, <2>1, <2>3, PalabraLeida
  <2> QED
    BY <1>2, <1>4, <2>1, <2>2, <2>4
<1>5. CASE cpu = "esperar" \/ (cpu = "chequear" /\ Sale)
  <2>1. Atento /\ haciaCpu = <<>> /\ Termina(haciaKernel, Despedidas, contexto)
    BY <1>5 DEF Inv, SinHilo
  <2>2. "CREAR_PROCESO" \notin Despedidas
    BY DEF Despedidas
  <2>3. /\ Head(haciaKernel).hilo = contexto
        /\ Head(haciaKernel).op # "CREAR_PROCESO" =>
              /\ Head(haciaKernel).op \in Despedidas /\ Tail(haciaKernel) = <<>>
              /\ haciaKernel[Len(haciaKernel)] = Head(haciaKernel)
    BY <1>1, <2>1, <2>2, PalabraLeida
  <2> QED
    BY <1>2, <1>5, <2>1, <2>3
<1> QED
  BY <1>3, <1>4, <1>5 DEF Inv

(* The thread leaves EXEC: if the CPU waited, it is answered. *)
LEMMA Suelta ==
    ASSUME Inv, Atento, UNCHANGED cpuVars, haciaKernel' = <<>>, sts' = "planificar",
           \/ /\ cpu = "responder" /\ instr \in Deja \cup {"MUTEX_LOCK"}
              /\ haciaCpu' = <<[op |-> IF instr = "MUTEX_LOCK" THEN "NOTIFICAR_ERROR"
                                                                ELSE "CONFIRMAR",
                                hilo |-> Ninguno]>>
           \/ /\ cpu = "esperar" \/ (cpu = "chequear" /\ Sale)
              /\ haciaCpu' = <<>>,
           listos' \in Seq(Hilos), SinRepetir(listos'), bloqueados' \subseteq Hilos,
           ToSet(listos') \cap bloqueados' = {},
           ToSet(listos') \cup bloqueados' \subseteq ToSet(listos) \cup bloqueados \cup {contexto},
           contexto \in ToSet(listos') \cup bloqueados'
               => guardado[contexto] \/ GuardadoPendiente',
           GuardadoPendiente => GuardadoPendiente'
    PROVE  Inv'
<1> USE DEF cpuVars
<1>1. Formas'
  <2>1. haciaCpu' \in Seq(Palabras) /\ haciaKernel' \in Seq(Palabras)
    <3> DEFINE w == [op |-> IF instr = "MUTEX_LOCK" THEN "NOTIFICAR_ERROR" ELSE "CONFIRMAR",
                     hilo |-> Ninguno]
    <3>1. w \in Palabras
      BY DEF Palabras, Ops
    <3>2. haciaCpu' \in {<<>>, <<w>>}
      OBVIOUS
    <3> HIDE DEF w
    <3>3. <<w>> \in Seq(Palabras) /\ <<>> \in Seq(Palabras)
      BY <3>1
    <3> QED
      BY <3>2, <3>3
  <2> QED
    BY <2>1 DEF Inv, Formas
<1>2. Banderas' /\ ConHilo' /\ cpu' # "abortada"
  BY DEF Inv, Banderas, ConHilo, Sale
<1>3. Replanifica(<<>>)'
  BY DEF Replanifica
<1>4. Respondiendo'
  <2> SUFFICES ASSUME cpu = "responder" PROVE Respondiendo'
    BY Zenon DEF Respondiendo
  <2> DEFINE w == [op |-> IF instr = "MUTEX_LOCK" THEN "NOTIFICAR_ERROR" ELSE "CONFIRMAR",
                   hilo |-> Ninguno]
  <2>1. haciaCpu' = <<w>> /\ instr \in Deja \cup {"MUTEX_LOCK"}
    OBVIOUS
  <2>2. haciaCpu' # <<>> /\ Head(haciaCpu') = w /\ Tail(haciaCpu') = <<>>
    BY <2>1
  <2>3. w.op = IF instr = "MUTEX_LOCK" THEN "NOTIFICAR_ERROR" ELSE "CONFIRMAR"
    OBVIOUS
  <2> HIDE DEF w
  <2>4. Replanifica(Tail(haciaCpu))'
    BY <2>2, Zenon DEF Replanifica
  <2>5. /\ haciaKernel' = <<>> /\ instr' \in Deja \cup {"MUTEX_LOCK"}
        /\ haciaCpu' # <<>>
        /\ Head(haciaCpu').op = IF instr' = "MUTEX_LOCK" THEN "NOTIFICAR_ERROR"
                                                         ELSE "CONFIRMAR"
    BY <2>1, <2>2, <2>3
  <2> QED
    BY <2>4, <2>5, Zenon DEF Respondiendo
<1>5. SinHilo'
  BY DEF SinHilo, Sale, Replanifica
<1>6. Contextos'
  <2>1. Cargando' = {}
    BY DEF Cargando
  <2>2. ASSUME NEW x \in ToSet(listos') \cup bloqueados'
        PROVE  guardado[x] \/ (x = contexto /\ GuardadoPendiente')
    BY <2>2 DEF Inv, Contextos
  <2> QED
    BY <2>1, <2>2 DEF Inv, Contextos
<1> QED
  BY <1>1, <1>2, <1>4, <1>5, <1>6 DEF Inv

(* A syscall of the running thread that takes it out of EXEC. *)
LEMMA AlBloquear ==
    ASSUME Inv, Acordes,
           \/ IO \/ DumpMemory \/ FinalizarHilo \/ FinalizarProceso \/ EsperarHilo
           \/ /\ Recibir({"BLOQUEAR_MUTEX"}) /\ Responder("NOTIFICAR_ERROR")
              /\ ExecABlocked
    PROVE  Inv'
<1> DEFINE rta == [op |-> IF instr = "MUTEX_LOCK" THEN "NOTIFICAR_ERROR" ELSE "CONFIRMAR",
                   hilo |-> Ninguno]
<1>1. /\ sts = "recibir" /\ haciaKernel # <<>> /\ haciaKernel' = Tail(haciaKernel)
      /\ UNCHANGED cpuVars
      /\ Head(haciaKernel).op \in {"IO", "DUMP_MEMORY", "FINALIZAR_HILO",
                                   "FINALIZAR_PROCESO", "ESPERAR_HILO", "BLOQUEAR_MUTEX"}
  BY DEF IO, DumpMemory, FinalizarHilo, FinalizarProceso, EsperarHilo, Recibir
<1>2. /\ Atento /\ haciaCpu = <<>>
      /\ \/ /\ cpu = "responder" /\ instr \in Sigue \cup Deja \cup {"MUTEX_LOCK"}
            /\ Tail(haciaKernel) = <<>> /\ Head(haciaKernel).op = CodigoDe(instr)
         \/ /\ cpu = "esperar" \/ (cpu = "chequear" /\ Sale)
            /\ Tail(haciaKernel) = <<>> /\ Head(haciaKernel).op \in Despedidas
            /\ haciaKernel[Len(haciaKernel)] = Head(haciaKernel)
  BY <1>1, AlLeer
<1>3. /\ listos \in Seq(Hilos) /\ SinRepetir(listos) /\ bloqueados \subseteq Hilos
      /\ ToSet(listos) \cap bloqueados = {}
      /\ contexto \in Hilos /\ contexto \notin ToSet(listos) \cup bloqueados
  BY <1>2 DEF Inv, Formas, Atento
<1>4. /\ sts' = "planificar" /\ listos' = listos
      /\ bloqueados' \in {bloqueados, bloqueados \cup {contexto}}
      /\ Head(haciaKernel).op \in {"FINALIZAR_HILO", "FINALIZAR_PROCESO"}
            => bloqueados' = bloqueados
  BY <1>2 DEF IO, DumpMemory, FinalizarHilo, FinalizarProceso, EsperarHilo, Recibir,
              ExecABlocked, Acordes, Atento
<1>5. haciaKernel' = <<>>
  BY <1>1, <1>2
<1>6. \A q, w : q = <<>> => Append(q, w) = <<w>>
  OBVIOUS
<1>7. \/ /\ cpu = "responder" /\ instr \in Deja \cup {"MUTEX_LOCK"} /\ haciaCpu' = <<rta>>
      \/ /\ cpu = "esperar" \/ (cpu = "chequear" /\ Sale)
         /\ haciaCpu' = <<>>
  <2>1. CASE cpu = "responder" /\ Head(haciaKernel).op = CodigoDe(instr)
             /\ instr \in Sigue \cup Deja \cup {"MUTEX_LOCK"}
    <3>1. instr \in Deja \cup {"MUTEX_LOCK"}
      BY <1>1, <2>1 DEF CodigoDe, Sigue, Deja
    <3>2. haciaCpu' = Append(haciaCpu, rta)
      BY <1>1, <2>1, <3>1 DEF CodigoDe, Deja, IO, DumpMemory, FinalizarHilo,
           FinalizarProceso, EsperarHilo, Recibir, Responder
    <3> HIDE DEF rta
    <3>3. haciaCpu' = <<rta>>
      BY <1>2, <1>6, <3>2, Zenon
    <3> QED
      BY <2>1, <3>1, <3>3
  <2>2. CASE (cpu = "esperar" \/ (cpu = "chequear" /\ Sale))
             /\ Head(haciaKernel).op \in Despedidas
    <3>1. haciaCpu' = haciaCpu
      BY <1>1, <2>2 DEF Despedidas, IO, DumpMemory, FinalizarHilo,
           FinalizarProceso, EsperarHilo, Recibir
    <3> QED
      BY <1>2, <2>2, <3>1
  <2> QED
    BY <1>2, <2>1, <2>2
<1>8. /\ contexto \in bloqueados' => guardado[contexto] \/ GuardadoPendiente'
      /\ GuardadoPendiente => GuardadoPendiente'
  <2>1. CASE cpu = "responder" /\ Head(haciaKernel).op = CodigoDe(instr)
             /\ instr \in Sigue \cup Deja \cup {"MUTEX_LOCK"}
    <3>1. instr \in Deja \cup {"MUTEX_LOCK"} /\ haciaCpu' = <<rta>>
      BY <1>7, <2>1
    <3>2. haciaCpu' # <<>> /\ Head(haciaCpu').op = rta.op
      <4> HIDE DEF rta
      <4> QED
        BY <3>1
    <3>3. instr = "MUTEX_LOCK" => GuardadoPendiente'
      BY <1>1, <2>1, <3>2 DEF GuardadoPendiente, cpuVars
    <3>4. instr = "THREAD_JOIN" => GuardadoPendiente'
      BY <1>1, <2>1 DEF GuardadoPendiente, cpuVars
    <3>5. instr = "THREAD_EXIT" => contexto \notin bloqueados' /\ ~GuardadoPendiente
      BY <1>3, <1>4, <2>1 DEF CodigoDe, GuardadoPendiente
    <3>6. instr = "DUMP_MEMORY" => guardado[contexto] /\ ~GuardadoPendiente
      BY <1>1, <2>1 DEF Inv, Contextos, GuardadoPendiente
    <3> QED
      BY <3>1, <3>3, <3>4, <3>5, <3>6 DEF Deja
  <2>2. CASE /\ cpu = "esperar" \/ (cpu = "chequear" /\ Sale)
             /\ Head(haciaKernel).op \in Despedidas
             /\ haciaKernel[Len(haciaKernel)] = Head(haciaKernel)
    <3>1. GuardadoPendiente' <=> GuardadoPendiente
      BY <1>1, <2>2 DEF GuardadoPendiente, cpuVars
    <3>2. contexto \in bloqueados' => Head(haciaKernel).op = "IO"
      BY <1>1, <1>3, <1>4, <2>2 DEF Despedidas
    <3>3. Head(haciaKernel).op = "IO" => guardado[contexto] \/ GuardadoPendiente
      BY <1>1, <2>2 DEF Inv, Contextos
    <3> QED
      BY <3>1, <3>2, <3>3
  <2> QED
    BY <1>2, <2>1, <2>2
<1> HIDE DEF rta
<1>9. /\ bloqueados' \subseteq Hilos /\ ToSet(listos') \cap bloqueados' = {}
      /\ ToSet(listos') \cup bloqueados' \subseteq ToSet(listos) \cup bloqueados \cup {contexto}
      /\ contexto \in ToSet(listos') \cup bloqueados' => contexto \in bloqueados'
  BY <1>3, <1>4
<1> QED
  BY <1>1, <1>2, <1>3, <1>4, <1>5, <1>7, <1>8, <1>9, Suelta DEF rta

(* The thread is evicted: to the end of READY. *)
LEMMA AlDesalojarHilo == ASSUME Inv, DesalojarHilo PROVE Inv'
<1> USE DEF DesalojarHilo, Recibir
<1>1. /\ Atento /\ haciaCpu = <<>>
      /\ cpu = "esperar" \/ (cpu = "chequear" /\ Sale)
      /\ Tail(haciaKernel) = <<>>
      /\ haciaKernel[Len(haciaKernel)].op = "DESALOJAR_HILO"
  BY AlLeer DEF CodigoDe
<1>2. /\ listos \in Seq(Hilos) /\ SinRepetir(listos) /\ bloqueados \subseteq Hilos
      /\ ToSet(listos) \cap bloqueados = {}
      /\ contexto \in Hilos /\ contexto \notin ToSet(listos) \cup bloqueados
      /\ listos' = Append(listos, contexto)
  BY <1>1 DEF Inv, Formas, Atento
<1>3. /\ listos' \in Seq(Hilos) /\ SinRepetir(listos')
      /\ ToSet(listos') = ToSet(listos) \cup {contexto}
  BY <1>2, Agregar
<1>4. GuardadoPendiente' <=> GuardadoPendiente
  BY <1>1 DEF GuardadoPendiente, cpuVars
<1>5. guardado[contexto] \/ GuardadoPendiente
  BY <1>1 DEF Inv, Contextos
<1>6. /\ bloqueados' \subseteq Hilos /\ ToSet(listos') \cap bloqueados' = {}
      /\ ToSet(listos') \cup bloqueados' \subseteq ToSet(listos) \cup bloqueados \cup {contexto}
  BY <1>2, <1>3
<1>7. haciaKernel' = <<>> /\ haciaCpu' = <<>> /\ sts' = "planificar" /\ UNCHANGED cpuVars
  BY <1>1
<1> QED
  BY <1>1, <1>3, <1>4, <1>5, <1>6, <1>7, Suelta

(* The thread goes on: PROCESS_CREATE, which nobody waits for, and the     *)
(* syscalls that are answered.                                             *)
LEMMA AlCrearProceso == ASSUME Inv, CrearProceso PROVE Inv'
<1> USE DEF CrearProceso, Recibir, cpuVars
<1>1. haciaKernel \in Seq(Palabras) /\ haciaKernel' \in Seq(Palabras)
      /\ Atento /\ haciaCpu = <<>>
  BY AlLeer DEF Inv, Formas
<1>2. "CREAR_PROCESO" \notin Despedidas /\ "CREAR_PROCESO" \notin {CodigoDe(instr)}
  BY DEF Despedidas, CodigoDe
<1>3. Formas' /\ Banderas'
  BY <1>1 DEF Inv, Formas, Banderas, Sale
<1>4. SoloCrear(haciaKernel, contexto) => SoloCrear(haciaKernel', contexto)
  BY <1>1, <1>2, PalabraLeida
<1>5. /\ Termina(haciaKernel, Despedidas, contexto) =>
            /\ Termina(haciaKernel', Despedidas, contexto)
            /\ haciaKernel'[Len(haciaKernel')] = haciaKernel[Len(haciaKernel)]
      /\ Termina(haciaKernel, {CodigoDe(instr)}, contexto) =>
            Termina(haciaKernel', {CodigoDe(instr)}, contexto)
  BY <1>1, <1>2, PalabraLeida
<1>6. ConHilo' /\ Respondiendo' /\ SinHilo'
  BY <1>1, <1>4, <1>5 DEF Inv, ConHilo, Respondiendo, SinHilo, Sale, Atento
<1>7. Contextos'
  <2>1. Cargando' = Cargando /\ GuardadoPendiente' = GuardadoPendiente
    BY DEF Cargando, GuardadoPendiente
  <2>2. ASSUME cpu \in {"esperar", "chequear"}, haciaKernel' # <<>>,
               haciaKernel'[Len(haciaKernel')].op \in {"IO", "DESALOJAR_HILO"}
        PROVE  haciaKernel[Len(haciaKernel)].op = haciaKernel'[Len(haciaKernel')].op
    <3>1. CASE cpu = "chequear" /\ ~Sale
      <4>1. SoloCrear(haciaKernel, contexto) /\ Len(haciaKernel') \in Nat \ {0}
        BY <1>1, <2>2, <3>1, EmptySeq DEF Inv, ConHilo
      <4> QED
        BY <1>4, <2>2, <4>1 DEF SoloCrear
    <3>2. CASE cpu = "esperar" \/ (cpu = "chequear" /\ Sale)
      BY <1>5, <3>2 DEF Inv, SinHilo
    <3> QED
      BY <2>2, <3>1, <3>2
  <2> QED
    BY <2>1, <2>2 DEF Inv, Contextos
<1> QED
  BY <1>3, <1>6, <1>7 DEF Inv

(* An answer to the thread that asked, which goes on running. *)
LEMMA AlConfirmar ==
    ASSUME Inv,
           Recibir({"CREAR_HILO", "CREAR_MUTEX", "DESBLOQUEAR_MUTEX", "BLOQUEAR_MUTEX"}),
           Responder("CONFIRMAR"),
           UNCHANGED <<listos, bloqueados, estado_exec, sts>>
    PROVE  Inv'
<1> USE DEF Recibir, Responder, cpuVars
<1> DEFINE w == [op |-> "CONFIRMAR", hilo |-> Ninguno]
<1>1. /\ Atento /\ haciaCpu = <<>> /\ cpu = "responder"
      /\ instr \in Sigue \cup {"MUTEX_LOCK"} /\ haciaKernel' = <<>>
  BY AlLeer DEF CodigoDe, Despedidas, Sigue, Deja
<1>2. w \in Palabras
  BY DEF Palabras, Ops
<1>3. haciaCpu' = <<w>>
  <2>1. \A q, z : q = <<>> => Append(q, z) = <<z>>
    OBVIOUS
  <2>2. haciaCpu' = Append(haciaCpu, w)
    OBVIOUS
  <2> HIDE DEF w
  <2> QED
    BY <1>1, <2>1, <2>2, Zenon
<1>4. w.op = "CONFIRMAR"
  OBVIOUS
<1>5. Formas'
  <2> HIDE DEF w
  <2>1. <<w>> \in Seq(Palabras) /\ <<>> \in Seq(Palabras)
    BY <1>2
  <2> QED
    BY <1>1, <1>3, <2>1 DEF Inv, Formas
<1>6. Banderas' /\ ConHilo' /\ SinHilo'
  BY <1>1 DEF Inv, Banderas, ConHilo, SinHilo, Sale
<1>7. Respondiendo'
  <2> SUFFICES /\ Atento' /\ haciaKernel' = <<>> /\ instr' \in Sigue \cup {"MUTEX_LOCK"}
               /\ haciaCpu' = <<w>>
    BY Zenon DEF Respondiendo
  <2> HIDE DEF w
  <2> QED
    BY <1>1, <1>3 DEF Atento
<1>8. Contextos'
  <2> HIDE DEF w
  <2>1. haciaCpu' # <<>> /\ haciaCpu'[Len(haciaCpu')] = w /\ Head(haciaCpu') = w
    <3>1. \A q, z : q = <<z>> => q # <<>> /\ q[Len(q)] = z /\ Head(q) = z
      OBVIOUS
    <3> QED
      BY <1>3, <3>1, Zenon
  <2>2. Cargando' = {} /\ Cargando = {}
    BY <1>1, <1>4, <2>1 DEF Cargando
  <2>3. GuardadoPendiente => GuardadoPendiente'
    BY <1>1, <1>4, <2>1 DEF GuardadoPendiente
  <2> QED
    BY <1>1, <2>2, <2>3 DEF Inv, Contextos
<1> QED
  BY <1>5, <1>6, <1>7, <1>8, <1>1 DEF Inv

(* Every step of the planner, with each operation it receives. *)
LEMMA PasoDelPlanificador == ASSUME Inv, Acordes, PasoPlanificador PROVE Inv'
<1>1. CASE Elegir
  BY <1>1, AlElegir
<1>2. CASE Despachar
  BY <1>2, AlDespachar
<1>3. CASE CrearProceso
  BY <1>3, AlCrearProceso
<1>4. CASE Confirmar
  <2>1. /\ Recibir({"CREAR_HILO", "CREAR_MUTEX", "DESBLOQUEAR_MUTEX", "BLOQUEAR_MUTEX"})
        /\ Responder("CONFIRMAR") /\ UNCHANGED <<listos, bloqueados, estado_exec, sts>>
    BY <1>4 DEF Confirmar, Recibir
  <2> QED
    BY <2>1, AlConfirmar
<1>5. CASE BloquearMutex
  <2>1. CASE Responder("CONFIRMAR") /\ UNCHANGED <<listos, bloqueados, estado_exec, sts>>
    <3>1. Recibir({"CREAR_HILO", "CREAR_MUTEX", "DESBLOQUEAR_MUTEX", "BLOQUEAR_MUTEX"})
      BY <1>5 DEF BloquearMutex, Recibir
    <3> QED
      BY <2>1, <3>1, AlConfirmar
  <2>2. CASE Responder("NOTIFICAR_ERROR") /\ ExecABlocked
    BY <1>5, <2>2, AlBloquear DEF BloquearMutex
  <2> QED
    BY <1>5, <2>1, <2>2 DEF BloquearMutex
<1>6. CASE EsperarHilo \/ IO \/ DumpMemory \/ FinalizarHilo \/ FinalizarProceso
  BY <1>6, AlBloquear
<1>7. CASE DesalojarHilo
  BY <1>7, AlDesalojarHilo
<1>8. CASE OperacionDesconocida
  BY <1>8, AlLeer DEF OperacionDesconocida, Recibir, CodigoDe, Despedidas
<1> QED
  BY <1>1, <1>2, <1>3, <1>4, <1>5, <1>6, <1>7, <1>8 DEF PasoPlanificador

(* A blocked thread is woken. *)
LEMMA AlDespertar == ASSUME Inv, NEW h \in Hilos, Despertar(h) PROVE Inv'
<1> USE DEF Despertar, canales, cpuVars
<1>1. /\ listos \in Seq(Hilos) /\ SinRepetir(listos) /\ bloqueados \subseteq Hilos
      /\ ToSet(listos) \cap bloqueados = {} /\ h \in bloqueados
      /\ listos' = Append(listos, h)
  BY DEF Inv, Formas
<1>2. /\ listos' \in Seq(Hilos) /\ SinRepetir(listos') /\ listos' # <<>>
      /\ ToSet(listos') = ToSet(listos) \cup {h}
      /\ listos # <<>> => Head(listos') = Head(listos)
  BY <1>1, Agregar, AgregarAlFinal
<1>3. /\ bloqueados' \subseteq Hilos /\ ToSet(listos') \cap bloqueados' = {}
      /\ ToSet(listos') \cup bloqueados' = ToSet(listos) \cup bloqueados
  BY <1>1, <1>2
<1>4. Formas'
  BY <1>2, <1>3 DEF Inv, Formas
<1>5. Banderas' /\ ConHilo' /\ Respondiendo' /\ SinHilo'
  BY DEF Inv, Banderas, ConHilo, Respondiendo, SinHilo, Sale, Atento, Replanifica
<1>6. Cargando' = Cargando /\ GuardadoPendiente' = GuardadoPendiente
  BY DEF Cargando, GuardadoPendiente
<1>7. Contextos'
  BY <1>3, <1>6 DEF Inv, Contextos
<1> QED
  BY <1>4, <1>5, <1>7 DEF Inv

-----------------------------------------------------------------------------
(* The CPU takes the thread that it was sent. *)
LEMMA AlRecibirDispatch == ASSUME Inv, RecibirDispatch PROVE Inv'
<1> USE DEF RecibirDispatch, kernelVars
<1>1. /\ haciaKernel = <<>> /\ sts = "recibir" /\ estado_exec \in Hilos
      /\ estado_exec = hilo_en_ejecucion
      /\ haciaCpu = <<[op |-> "EJECUTAR_HILO", hilo |-> estado_exec]>>
  BY DEF Inv, SinHilo, Replanifica
<1>2. /\ Head(haciaCpu) = [op |-> "EJECUTAR_HILO", hilo |-> estado_exec]
      /\ Tail(haciaCpu) = <<>> /\ haciaCpu[Len(haciaCpu)].op = "EJECUTAR_HILO"
  BY <1>1
<1>3. /\ haciaCpu' = <<>> /\ contexto' = estado_exec /\ cpu' = "contexto"
  BY <1>2
<1>4. Formas'
  BY <1>1, <1>3, EmptySeq DEF Inv, Formas
<1>5. Banderas' /\ Respondiendo' /\ SinHilo'
  BY <1>3 DEF Inv, Banderas, Respondiendo, SinHilo, Sale
<1>6. ConHilo'
  <2>1. Atento'
    BY <1>1, <1>3 DEF Atento
  <2>2. SoloCrear(haciaKernel', contexto')
    BY <1>1, EmptySeq DEF SoloCrear
  <2> QED
    BY <1>3, <2>1, <2>2 DEF ConHilo
<1>7. Contextos'
  <2>1. Cargando = {estado_exec} /\ Cargando' = {estado_exec}
    BY <1>1, <1>2, <1>3 DEF Cargando
  <2>2. ~GuardadoPendiente
    BY DEF GuardadoPendiente
  <2> QED
    BY <1>1, <1>3, <2>1, <2>2 DEF Inv, Contextos
<1> QED
  BY <1>3, <1>4, <1>5, <1>6, <1>7 DEF Inv

(* The CPU asks for the context of the thread it was sent. *)
LEMMA AlPedirContexto == ASSUME Inv, PedirContexto PROVE Inv'
<1> USE DEF PedirContexto, kernelVars, canales
<1>1. Formas' /\ Banderas' /\ ConHilo' /\ Respondiendo' /\ SinHilo'
  BY DEF Inv, Formas, Banderas, ConHilo, Respondiendo, SinHilo, Sale, Atento
<1>2. Contextos'
  BY DEF Inv, ConHilo, Contextos, Cargando, GuardadoPendiente
<1> QED
  BY <1>1, <1>2 DEF Inv

-----------------------------------------------------------------------------
(* The CPU executes an instruction: what it leaves in the connection. *)
LEMMA AlEjecutar ==
    ASSUME Inv, NEW i, NEW op \in Ops, NEW palabras, NEW flags, NEW destino,
           Ejecutar(i, palabras, flags, destino),
           palabras = <<>> \/ palabras = <<Palabra(op)>>
    PROVE  /\ Atento /\ haciaCpu = <<>> /\ cpu = "ejecutar"
           /\ instr' = i /\ ciclo' = flags /\ cpu' = destino
           /\ UNCHANGED <<listos, bloqueados, estado_exec, hilo_en_ejecucion, sts,
                          haciaCpu, contexto>>
           /\ haciaKernel' \in Seq(Palabras)
           /\ palabras = <<>> \/ op = "CREAR_PROCESO" => SoloCrear(haciaKernel', contexto)
           /\ palabras # <<>> =>
                 /\ haciaKernel' # <<>> /\ haciaKernel'[Len(haciaKernel')].op = op
                 /\ \A ops : op \in ops => Termina(haciaKernel', ops, contexto)
<1>1. /\ Atento /\ haciaCpu = <<>> /\ SoloCrear(haciaKernel, contexto)
      /\ haciaKernel \in Seq(Palabras) /\ contexto \in Hilos
  BY DEF Inv, ConHilo, Formas, Atento, Ejecutar
<1> DEFINE w == Palabra(op)
<1>2. w \in Palabras /\ w.hilo = contexto /\ w.op = op
  BY <1>1 DEF Palabra, Palabras
<1>3. haciaKernel' \in {haciaKernel \o <<>>, haciaKernel \o <<w>>}
      /\ (palabras = <<>> => haciaKernel' = haciaKernel \o <<>>)
      /\ (palabras # <<>> => haciaKernel' = haciaKernel \o <<w>>)
  BY DEF Ejecutar
<1>4. UNCHANGED <<listos, bloqueados, estado_exec, hilo_en_ejecucion, sts,
                  haciaCpu, contexto>>
      /\ instr' = i /\ ciclo' = flags /\ cpu' = destino /\ cpu = "ejecutar"
  BY DEF Ejecutar, kernelVars
<1> HIDE DEF w
<1>5. /\ haciaKernel \o <<>> = haciaKernel /\ haciaKernel \o <<w>> = Append(haciaKernel, w)
      /\ Append(haciaKernel, w) \in Seq(Palabras) /\ Append(haciaKernel, w) # <<>>
      /\ op = "CREAR_PROCESO" => SoloCrear(Append(haciaKernel, w), contexto)
      /\ \A ops : op \in ops => Termina(Append(haciaKernel, w), ops, contexto)
      /\ Append(haciaKernel, w)[Len(Append(haciaKernel, w))] = w
  BY <1>1, <1>2, PalabraEnviada
<1> QED
  BY <1>1, <1>2, <1>3, <1>4, <1>5, Zenon

(* The context of the running thread is in no list, and only it changes. *)
LEMMA ContextoPropio ==
    ASSUME Inv, Atento, haciaCpu = <<>>, cpu \in {"ejecutar", "chequear"},
           Avanza \/ ActualizarContexto
    PROVE  /\ guardado' \in [Hilos -> BOOLEAN]
           /\ contexto \notin ToSet(listos) \cup bloqueados
           /\ \A x \in ToSet(listos) \cup bloqueados :
                 guardado[x] \/ (x = contexto /\ GuardadoPendiente) => guardado'[x]
           /\ ActualizarContexto => guardado'[contexto]
<1>1. contexto \notin ToSet(listos) \cup bloqueados /\ contexto \in Hilos
  BY DEF Inv, Formas, Atento
<1>2. ToSet(listos) \cup bloqueados \subseteq Hilos
  BY Miembros DEF Inv, Formas
<1>3. guardado \in [Hilos -> BOOLEAN]
  BY DEF Inv, Formas
<1>4. guardado' \in [Hilos -> BOOLEAN] /\ \A x \in Hilos \ {contexto} : guardado'[x] = guardado[x]
  BY <1>1, <1>3 DEF Avanza, ActualizarContexto
<1>5. ActualizarContexto => guardado'[contexto]
  BY <1>1, <1>3 DEF ActualizarContexto
<1> QED
  BY <1>1, <1>2, <1>4, <1>5

(* With nothing sent, or PROCESS_CREATE, the CPU keeps the thread. *)
LEMMA AlSeguir ==
    ASSUME Inv, NEW i \in Instrucciones, NEW palabras,
           Ejecutar(i, palabras, Ciclo(TRUE, FALSE, FALSE), "chequear"), Avanza,
           palabras = <<>> \/ palabras = <<Palabra("CREAR_PROCESO")>>
    PROVE  Inv'
<1>1. "CREAR_PROCESO" \in Ops
  BY DEF Ops
<1>2. /\ Atento /\ haciaCpu = <<>> /\ cpu = "ejecutar"
      /\ instr' = i /\ ciclo' = Ciclo(TRUE, FALSE, FALSE) /\ cpu' = "chequear"
      /\ UNCHANGED <<listos, bloqueados, estado_exec, hilo_en_ejecucion, sts,
                     haciaCpu, contexto>>
      /\ haciaKernel' \in Seq(Palabras) /\ SoloCrear(haciaKernel', contexto)
  BY <1>1, AlEjecutar
<1>3. ~ciclo'.omitir /\ ~ciclo'.seg_fault /\ Ciclo(TRUE, FALSE, FALSE)' = Ciclo(TRUE, FALSE, FALSE)
      /\ ciclo' \in [siguiente : BOOLEAN, omitir : BOOLEAN, actualizar : BOOLEAN,
                     seg_fault : BOOLEAN]
  BY <1>2 DEF Ciclo
<1>4. Formas'
  BY <1>2, <1>3, ContextoPropio DEF Inv, Formas
<1>5. Banderas' /\ Respondiendo' /\ SinHilo'
  BY <1>2, <1>3 DEF Banderas, Respondiendo, SinHilo, Sale
<1>6. ConHilo'
  BY <1>2 DEF ConHilo, Atento
<1>7. Contextos'
  <2>1. Cargando' = {}
    BY <1>2 DEF Cargando
  <2>2. haciaKernel' # <<>> => haciaKernel'[Len(haciaKernel')].op = "CREAR_PROCESO"
    <3>1. haciaKernel' # <<>> => Len(haciaKernel') \in Nat \ {0}
      BY <1>2, EmptySeq
    <3> QED
      BY <1>2, <3>1 DEF SoloCrear
  <2> QED
    BY <1>2, <2>1, <2>2, ContextoPropio DEF Inv, Contextos
<1> QED
  BY <1>2, <1>4, <1>5, <1>6, <1>7 DEF Inv

(* The syscalls that have an answer. *)
LEMMA AlPreguntar ==
    ASSUME Inv, NEW i \in Instrucciones, NEW flags,
           Ejecutar(i, <<Palabra(CodigoDe(i))>>, flags, "responder"),
           \/ i \in Sigue /\ flags = Ciclo(TRUE, FALSE, FALSE)
           \/ i \in Deja /\ flags = Ciclo(FALSE, TRUE, i = "THREAD_JOIN")
           \/ i = "MUTEX_LOCK" /\ flags = Ciclo(FALSE, FALSE, FALSE),
           ActualizarContexto \/ (Avanza /\ i # "DUMP_MEMORY")
    PROVE  Inv'
<1>1. CodigoDe(i) \in Ops
  BY DEF Ops, CodigoDe
<1>2. /\ Atento /\ haciaCpu = <<>> /\ cpu = "ejecutar"
      /\ instr' = i /\ ciclo' = flags /\ cpu' = "responder"
      /\ UNCHANGED <<listos, bloqueados, estado_exec, hilo_en_ejecucion, sts,
                     haciaCpu, contexto>>
      /\ haciaKernel' \in Seq(Palabras)
      /\ \A ops : CodigoDe(i) \in ops => Termina(haciaKernel', ops, contexto)
  <2> DEFINE w == <<Palabra(CodigoDe(i))>>
  <2>1. w # <<>>
    OBVIOUS
  <2> HIDE DEF w
  <2>2. Ejecutar(i, w, flags, "responder") /\ (w = <<>> \/ w = <<Palabra(CodigoDe(i))>>)
    BY Zenon DEF w
  <2> QED
    BY <1>1, <2>1, <2>2, AlEjecutar
<1>3. flags \in [siguiente : BOOLEAN, omitir : BOOLEAN, actualizar : BOOLEAN,
                 seg_fault : BOOLEAN]
  <2>1. \A a, b, c \in BOOLEAN :
           Ciclo(a, b, c) \in [siguiente : BOOLEAN, omitir : BOOLEAN, actualizar : BOOLEAN,
                              seg_fault : BOOLEAN]
    BY DEF Ciclo
  <2>2. (i = "THREAD_JOIN") \in BOOLEAN
    OBVIOUS
  <2> QED
    BY <2>1, <2>2, Zenon
<1>4. Formas'
  BY <1>2, <1>3, ContextoPropio DEF Inv, Formas
<1>5. Banderas'
  <2>1. \/ instr' \in Sigue /\ ciclo' = Ciclo(TRUE, FALSE, FALSE)
        \/ instr' \in Deja /\ ciclo' = Ciclo(FALSE, TRUE, instr' = "THREAD_JOIN")
        \/ instr' = "MUTEX_LOCK" /\ ciclo' = Ciclo(FALSE, FALSE, FALSE)
    BY <1>2
  <2> QED
    BY <1>2, <2>1 DEF Banderas, Ciclo
<1>6. ConHilo' /\ SinHilo'
  BY <1>2 DEF ConHilo, SinHilo
<1>7. Respondiendo'
  BY <1>2 DEF Respondiendo, Atento
<1>8. Contextos'
  <2>1. Cargando' = {}
    BY <1>2 DEF Cargando
  <2> QED
    BY <1>2, <2>1, ContextoPropio DEF Inv, Contextos
<1> QED
  BY <1>2, <1>4, <1>5, <1>6, <1>7, <1>8 DEF Inv

(* IO, and the ends of a process, which have none: the CPU leaves the      *)
(* thread at once.                                                         *)
LEMMA AlIrse ==
    ASSUME Inv, NEW i \in Instrucciones, NEW op \in {"IO", "FINALIZAR_PROCESO"}, NEW flags,
           Ejecutar(i, <<Palabra(op)>>, flags, "chequear"),
           flags \in [siguiente : BOOLEAN, omitir : BOOLEAN, actualizar : BOOLEAN,
                      seg_fault : BOOLEAN],
           flags.seg_fault \/ (flags.omitir /\ ~flags.siguiente),
           op = "IO" => flags.omitir /\ flags.actualizar /\ ~flags.seg_fault,
           Avanza \/ ActualizarContexto
    PROVE  Inv'
<1>1. op \in Ops /\ op \in Despedidas
  BY DEF Ops, Despedidas
<1>2. /\ Atento /\ haciaCpu = <<>> /\ cpu = "ejecutar"
      /\ instr' = i /\ ciclo' = flags /\ cpu' = "chequear"
      /\ UNCHANGED <<listos, bloqueados, estado_exec, hilo_en_ejecucion, sts,
                     haciaCpu, contexto>>
      /\ haciaKernel' \in Seq(Palabras)
      /\ haciaKernel' # <<>> /\ haciaKernel'[Len(haciaKernel')].op = op
      /\ Termina(haciaKernel', Despedidas, contexto)
  <2> DEFINE w == <<Palabra(op)>>
  <2>1. w # <<>>
    OBVIOUS
  <2> HIDE DEF w
  <2>2. Ejecutar(i, w, flags, "chequear") /\ (w = <<>> \/ w = <<Palabra(op)>>)
    BY Zenon DEF w
  <2> QED
    BY <1>1, <2>1, <2>2, AlEjecutar
<1>3. Formas'
  BY <1>2, ContextoPropio DEF Inv, Formas
<1>4. Sale' /\ Banderas'
  BY <1>2 DEF Banderas, Sale
<1>5. ConHilo' /\ Respondiendo'
  BY <1>2, <1>4 DEF ConHilo, Respondiendo
<1>6. SinHilo'
  BY <1>2 DEF SinHilo, Atento
<1>7. Contextos'
  <2>1. Cargando' = {}
    BY <1>2 DEF Cargando
  <2>2. op = "IO" => GuardadoPendiente'
    BY <1>2 DEF GuardadoPendiente
  <2> QED
    BY <1>2, <2>1, <2>2, ContextoPropio DEF Inv, Contextos
<1> QED
  BY <1>2, <1>3, <1>4, <1>5, <1>6, <1>7 DEF Inv

-----------------------------------------------------------------------------
(* The CPU reads the answer that it waits for. *)
LEMMA AlRecibirRespuesta == ASSUME Inv, RecibirRespuesta PROVE Inv'
<1>1. /\ cpu = "responder" /\ haciaCpu # <<>> /\ haciaCpu' = Tail(haciaCpu)
      /\ UNCHANGED <<kernelVars, haciaKernel, contexto, instr, guardado>>
  BY DEF RecibirRespuesta
<1>2. /\ haciaKernel = <<>> /\ contexto \in Hilos \cup {Ninguno}
      /\ haciaCpu \in Seq(Palabras)
  BY <1>1 DEF Inv, Respondiendo, Formas
<1>3. haciaCpu' \in Seq(Palabras)
  BY <1>1, <1>2, Cola
<1>4. Formas' <=> ciclo' \in [siguiente : BOOLEAN, omitir : BOOLEAN, actualizar : BOOLEAN,
                              seg_fault : BOOLEAN]
  BY <1>1, <1>3 DEF Inv, Formas, kernelVars
<1>5. CASE /\ Atento /\ instr \in Sigue \cup {"MUTEX_LOCK"}
           /\ haciaCpu = <<[op |-> "CONFIRMAR", hilo |-> Ninguno]>>
  <2>1. Head(haciaCpu).op = "CONFIRMAR" /\ haciaCpu' = <<>>
    BY <1>1, <1>5
  <2>2. instr # "MUTEX_LOCK" => ciclo = Ciclo(TRUE, FALSE, FALSE)
    BY <1>1, <1>5 DEF Inv, Banderas, Sigue, Deja
  <2>3. cpu' = "chequear" /\ ciclo' = Ciclo(TRUE, FALSE, FALSE)
    BY <2>1, <2>2 DEF RecibirRespuesta
  <2>4. Ciclo(TRUE, FALSE, FALSE)' = Ciclo(TRUE, FALSE, FALSE)
        /\ ~ciclo'.omitir /\ ~ciclo'.seg_fault
        /\ ciclo' \in [siguiente : BOOLEAN, omitir : BOOLEAN, actualizar : BOOLEAN,
                       seg_fault : BOOLEAN]
    BY <2>3 DEF Ciclo
  <2>5. Banderas' /\ Respondiendo' /\ SinHilo'
    BY <2>3, <2>4 DEF Banderas, Respondiendo, SinHilo, Sale
  <2>6. ConHilo'
    <3>1. SoloCrear(haciaKernel', contexto')
      BY <1>1, <1>2, EmptySeq DEF SoloCrear
    <3> QED
      BY <1>1, <1>5, <2>1, <3>1 DEF ConHilo, Atento, kernelVars
  <2>7. Contextos'
    <3>1. Cargando' = {} /\ contexto \notin ToSet(listos) \cup bloqueados
      BY <1>1, <1>5, <2>1, <2>3 DEF Cargando, Inv, Formas, Atento
    <3> QED
      BY <1>1, <1>2, <2>3, <3>1 DEF Inv, Contextos, kernelVars
  <2> QED
    BY <1>4, <2>3, <2>4, <2>5, <2>6, <2>7 DEF Inv
<1>6. CASE /\ instr \in Deja \cup {"MUTEX_LOCK"}
           /\ Head(haciaCpu).op = IF instr = "MUTEX_LOCK" THEN "NOTIFICAR_ERROR"
                                                           ELSE "CONFIRMAR"
           /\ Replanifica(Tail(haciaCpu))
  <2>1. instr # "MUTEX_LOCK" => ciclo = Ciclo(FALSE, TRUE, instr = "THREAD_JOIN")
    BY <1>1, <1>6 DEF Inv, Banderas, Sigue, Deja
  <2>2. /\ cpu' = "chequear"
        /\ instr = "MUTEX_LOCK" => ciclo' = Ciclo(FALSE, TRUE, TRUE)
        /\ instr # "MUTEX_LOCK" => ciclo' = ciclo
    BY <1>6 DEF RecibirRespuesta
  <2>3. /\ ciclo'.omitir /\ ~ciclo'.seg_fault /\ ~ciclo'.siguiente
        /\ instr \in {"THREAD_JOIN", "MUTEX_LOCK"} => ciclo'.actualizar
        /\ ciclo' \in [siguiente : BOOLEAN, omitir : BOOLEAN, actualizar : BOOLEAN,
                       seg_fault : BOOLEAN]
    <3>1. CASE instr \in {"THREAD_JOIN", "MUTEX_LOCK"}
      <4>1. (instr = "THREAD_JOIN") = TRUE \/ instr = "MUTEX_LOCK"
        BY <3>1
      <4>2. ciclo' = Ciclo(FALSE, TRUE, TRUE)
        BY <2>1, <2>2, <4>1, Zenon
      <4> QED
        BY <4>2 DEF Ciclo
    <3>2. CASE instr \notin {"THREAD_JOIN", "MUTEX_LOCK"}
      <4>1. (instr = "THREAD_JOIN") = FALSE /\ instr # "MUTEX_LOCK"
        BY <3>2
      <4>2. ciclo' = Ciclo(FALSE, TRUE, FALSE)
        BY <2>1, <2>2, <4>1, Zenon
      <4> QED
        BY <3>2, <4>2 DEF Ciclo
    <3> QED
      BY <3>1, <3>2
  <2>4. Banderas' /\ Respondiendo' /\ ConHilo'
    BY <2>2, <2>3 DEF Banderas, Respondiendo, ConHilo, Sale
  <2>5. SinHilo'
    <3>1. haciaKernel' = <<>> /\ Replanifica(haciaCpu)'
      BY <1>1, <1>2, <1>6, Zenon DEF Replanifica, kernelVars
    <3> QED
      BY <3>1, Zenon DEF SinHilo
  <2>6. Contextos'
    <3>1. GuardadoPendiente => GuardadoPendiente'
      BY <1>1, <2>2, <2>3 DEF GuardadoPendiente
    <3>2. Cargando' \subseteq Cargando
      <4>1. ASSUME haciaCpu' # <<>>
            PROVE  haciaCpu'[Len(haciaCpu')] = haciaCpu[Len(haciaCpu)]
        <5> DEFINE t == Tail(haciaCpu)
        <5>1. /\ t \in Seq(Palabras) /\ Len(t) = Len(haciaCpu) - 1
              /\ \A k \in 1..Len(t) : t[k] = haciaCpu[k + 1]
              /\ Len(haciaCpu) \in Nat \ {0}
          BY <1>1, <1>2, Cola
        <5>2. haciaCpu' = t
          BY <1>1
        <5> HIDE DEF t
        <5>3. Len(t) \in Nat \ {0}
          BY <4>1, <5>1, <5>2, EmptySeq
        <5> QED
          BY <5>1, <5>2, <5>3
      <4> QED
        BY <1>1, <2>2, <4>1 DEF Cargando, kernelVars
    <3> QED
      BY <1>1, <1>2, <2>2, <3>1, <3>2 DEF Inv, Contextos, kernelVars
  <2> QED
    BY <1>4, <2>2, <2>3, <2>4, <2>5, <2>6 DEF Inv
<1> QED
  BY <1>1, <1>5, <1>6 DEF Inv, Respondiendo

(* The end of the cycle: the CPU goes on, evicts the thread or leaves it. *)
LEMMA AlChequear == ASSUME Inv, Chequear PROVE Inv'
<1>1. /\ cpu = "chequear"
      /\ UNCHANGED <<kernelVars, haciaCpu, haciaKernel, contexto, instr, ciclo>>
      /\ ActualizarContexto \/ UNCHANGED guardado
  BY DEF Chequear, canales
<1>2. /\ Sale => cpu' = "esperar" /\ (GuardadoPendiente => ActualizarContexto)
      /\ ~Sale => cpu' = "ejecutar" \/ (cpu' = "desalojar" /\ ActualizarContexto)
  <2>1. ciclo = Ciclo(TRUE, FALSE, FALSE) \/ (Sale /\ (ciclo.seg_fault \/ ~ciclo.siguiente))
    BY <1>1 DEF Inv, Banderas
  <2>2. ~Sale => ciclo.siguiente
    BY <2>1 DEF Ciclo
  <2>3. Sale => cpu' = "esperar"
    <3>1. CASE ciclo.seg_fault
      BY <3>1 DEF Chequear
    <3>2. CASE ~ciclo.seg_fault
      <4>1. Sale => ciclo.omitir /\ ~ciclo.siguiente
        BY <2>1, <3>2 DEF Ciclo, Sale
      <4> QED
        BY <3>2, <4>1 DEF Chequear
    <3> QED
      BY <3>1, <3>2
  <2>4. GuardadoPendiente => ActualizarContexto
    BY <1>1 DEF GuardadoPendiente, Chequear
  <2>5. ~Sale => cpu' = "ejecutar" \/ (cpu' = "desalojar" /\ ActualizarContexto)
    BY <2>2 DEF Chequear, Sale
  <2> QED
    BY <2>3, <2>4, <2>5
<1>3. guardado' \in [Hilos -> BOOLEAN] /\ contexto \in Hilos \cup {Ninguno}
      /\ guardado \in [Hilos -> BOOLEAN]
  BY <1>1 DEF Inv, Formas, ActualizarContexto
<1>4. Formas'
  BY <1>1, <1>3 DEF Inv, Formas, kernelVars
<1>5. Sale' = Sale
  BY <1>1 DEF Sale
<1>6. Banderas' /\ Respondiendo'
  BY <1>2 DEF Banderas, Respondiendo
<1>7. ConHilo' /\ SinHilo'
  BY <1>1, <1>2 DEF Inv, ConHilo, SinHilo, Atento, Replanifica, kernelVars
<1>8. Contextos'
  <2>1. Cargando' = Cargando
    BY <1>1, <1>2 DEF Cargando, kernelVars
  <2>2. ToSet(listos) \cup bloqueados \subseteq Hilos
    BY Miembros DEF Inv, Formas
  <2>3. ASSUME NEW x \in ToSet(listos) \cup bloqueados \cup Cargando
        PROVE  guardado'[x]
    <3>1. guardado[x] \/ (x = contexto /\ GuardadoPendiente)
      BY <2>3 DEF Inv, Contextos
    <3>2. CASE UNCHANGED guardado /\ ~ActualizarContexto
      <4>1. ~GuardadoPendiente
        BY <1>1, <1>2, <3>2 DEF GuardadoPendiente, Sale
      <4> QED
        BY <3>1, <3>2, <4>1
    <3>3. CASE ActualizarContexto
      <4>1. Cargando \subseteq Hilos
        BY <1>1, <1>2 DEF Inv, ConHilo, SinHilo, Atento, Replanifica, Cargando
      <4>2. x \in Hilos
        BY <2>2, <2>3, <4>1
      <4>3. guardado' = [guardado EXCEPT ![contexto] = TRUE]
        BY <3>3 DEF ActualizarContexto
      <4>4. guardado'[x] = IF x = contexto THEN TRUE ELSE guardado[x]
        BY <1>3, <4>2, <4>3
      <4> QED
        BY <3>1, <4>4
    <3> QED
      BY <1>1, <3>2, <3>3
  <2>4. ASSUME ActualizarContexto, contexto \in Hilos PROVE guardado'[contexto]
    BY <1>3, <2>4 DEF ActualizarContexto
  <2>5. cpu' = "desalojar" => guardado'[contexto']
    <3>1. cpu' = "desalojar" => ~Sale /\ ActualizarContexto
      BY <1>2
    <3>2. ~Sale => contexto \in Hilos
      BY <1>1 DEF Inv, ConHilo, Atento
    <3> QED
      BY <1>1, <2>4, <3>1, <3>2
  <2>6. ASSUME cpu' = "esperar", haciaKernel' # <<>>,
               haciaKernel'[Len(haciaKernel')].op \in {"IO", "DESALOJAR_HILO"}
        PROVE  guardado'[contexto']
    <3>1. Sale /\ contexto \in Hilos
      BY <1>1, <1>2, <2>6 DEF Inv, SinHilo, Atento
    <3>2. guardado[contexto] \/ GuardadoPendiente
      BY <1>1, <2>6 DEF Inv, Contextos
    <3>3. CASE ActualizarContexto
      BY <1>1, <2>4, <3>1, <3>3
    <3>4. CASE UNCHANGED guardado /\ ~ActualizarContexto
      BY <1>1, <1>2, <3>1, <3>2, <3>4
    <3> QED
      BY <1>1, <3>3, <3>4
  <2>7. cpu' \in {"esperar", "ejecutar", "desalojar"}
    BY <1>2
  <2>8. ToSet(listos') \cup bloqueados' = ToSet(listos) \cup bloqueados
    BY <1>1 DEF kernelVars
  <2> QED
    BY <1>1, <2>1, <2>3, <2>5, <2>6, <2>7, <2>8 DEF Contextos
<1> QED
  BY <1>2, <1>4, <1>6, <1>7, <1>8 DEF Inv

(* The CPU saves the context of an evicted thread and says so. *)
LEMMA AlDesalojar == ASSUME Inv, Desalojar PROVE Inv'
<1> DEFINE w == Palabra("DESALOJAR_HILO")
<1>1. /\ cpu = "desalojar" /\ haciaKernel' = Append(haciaKernel, w) /\ cpu' = "esperar"
      /\ UNCHANGED <<kernelVars, haciaCpu, contexto, instr, ciclo, guardado>>
  BY DEF Desalojar
<1>2. Atento /\ haciaCpu = <<>> /\ SoloCrear(haciaKernel, contexto)
      /\ haciaKernel \in Seq(Palabras) /\ contexto \in Hilos /\ guardado[contexto]
  BY <1>1 DEF Inv, ConHilo, Formas, Atento, Contextos
<1>3. w \in Palabras /\ w.hilo = contexto /\ w.op = "DESALOJAR_HILO" /\ w.op \in Despedidas
  BY <1>2 DEF Palabra, Palabras, Ops, Despedidas
<1> HIDE DEF w
<1>4. /\ haciaKernel' \in Seq(Palabras) /\ Termina(haciaKernel', Despedidas, contexto)
      /\ haciaKernel' # <<>> /\ haciaKernel'[Len(haciaKernel')] = w
  BY <1>1, <1>2, <1>3, PalabraEnviada
<1>5. Formas'
  BY <1>1, <1>4 DEF Inv, Formas, kernelVars
<1>6. Banderas' /\ ConHilo' /\ Respondiendo'
  BY <1>1 DEF Banderas, ConHilo, Respondiendo
<1>7. SinHilo'
  BY <1>1, <1>2, <1>4 DEF SinHilo, Atento, kernelVars
<1>8. Contextos'
  <2>1. Cargando' = {} /\ ~GuardadoPendiente
    BY <1>1, <1>2 DEF Cargando, GuardadoPendiente
  <2> QED
    BY <1>1, <1>2, <2>1 DEF Inv, Contextos, kernelVars
<1> QED
  BY <1>1, <1>5, <1>6, <1>7, <1>8 DEF Inv

(* Every step of the CPU: dispatch, instruction, answer, interrupt         *)
(* check.                                                                  *)
LEMMA PasoDeLaCpu == ASSUME Inv, Acordes, PasoCpu PROVE Inv'
<1>1. CASE RecibirDispatch
  BY <1>1, AlRecibirDispatch
<1>2. CASE PedirContexto
  BY <1>2, AlPedirContexto
<1>3. CASE Calcular
  <2>1. /\ "CALCULAR" \in Instrucciones
        /\ Ejecutar("CALCULAR", <<>>, Ciclo(TRUE, FALSE, FALSE), "chequear") /\ Avanza
    BY <1>3 DEF Calcular, Ejecutar
  <2> QED
    BY <2>1, AlSeguir, Zenon
<1>4. CASE SegmentationFault
  <2>1. /\ "SEG_FAULT" \in Instrucciones
        /\ Ejecutar("SEG_FAULT", <<Palabra("FINALIZAR_PROCESO")>>, CicloSegFault, "chequear")
        /\ ActualizarContexto
    BY <1>4, Zenon DEF SegmentationFault, Ejecutar
  <2>2. /\ CicloSegFault \in [siguiente : BOOLEAN, omitir : BOOLEAN, actualizar : BOOLEAN,
                              seg_fault : BOOLEAN]
        /\ CicloSegFault.seg_fault
    BY DEF CicloSegFault
  <2>3. "FINALIZAR_PROCESO" \in {"IO", "FINALIZAR_PROCESO"} /\ "FINALIZAR_PROCESO" # "IO"
    OBVIOUS
  <2> QED
    BY <2>1, <2>2, <2>3, AlIrse, Zenon
<1>5. CASE ConConfirmacion \/ EjecutarDump
  <2>1. ASSUME NEW i, NEW op, NEW flags, CodigoDe(i) = op,
               Ejecutar(i, <<Palabra(op)>>, flags, "responder"),
               \/ i \in Sigue /\ flags = Ciclo(TRUE, FALSE, FALSE)
               \/ i \in Deja /\ flags = Ciclo(FALSE, TRUE, i = "THREAD_JOIN")
               \/ i = "MUTEX_LOCK" /\ flags = Ciclo(FALSE, FALSE, FALSE),
               ActualizarContexto \/ (Avanza /\ i # "DUMP_MEMORY")
        PROVE  Inv'
    <3>1. i \in Instrucciones
      BY <2>1 DEF Ejecutar
    <3>2. Ejecutar(i, <<Palabra(CodigoDe(i))>>, flags, "responder")
      BY <2>1, Zenon
    <3> QED
      BY <2>1, <3>1, <3>2, AlPreguntar, Zenon
  <2>2. /\ CodigoDe("THREAD_CREATE") = "CREAR_HILO"
        /\ CodigoDe("MUTEX_UNLOCK") = "DESBLOQUEAR_MUTEX"
        /\ CodigoDe("MUTEX_CREATE") = "CREAR_MUTEX"
        /\ CodigoDe("MUTEX_LOCK") = "BLOQUEAR_MUTEX"
        /\ CodigoDe("THREAD_JOIN") = "ESPERAR_HILO"
        /\ CodigoDe("THREAD_EXIT") = "FINALIZAR_HILO"
        /\ CodigoDe("DUMP_MEMORY") = "DUMP_MEMORY"
    BY DEF CodigoDe
  <2>3. /\ {"THREAD_CREATE", "MUTEX_UNLOCK", "MUTEX_CREATE"} \subseteq Sigue
        /\ {"THREAD_JOIN", "THREAD_EXIT", "DUMP_MEMORY"} \subseteq Deja
        /\ ("THREAD_JOIN" = "THREAD_JOIN") = TRUE
        /\ ("THREAD_EXIT" = "THREAD_JOIN") = FALSE
        /\ ("DUMP_MEMORY" = "THREAD_JOIN") = FALSE
    BY DEF Sigue, Deja
  <2>4. CASE Ejecutar("THREAD_CREATE", <<Palabra("CREAR_HILO")>>,
                      Ciclo(TRUE, FALSE, FALSE), "responder") /\ Avanza
    BY <2>1, <2>2, <2>3, <2>4
  <2>5. CASE Ejecutar("MUTEX_UNLOCK", <<Palabra("DESBLOQUEAR_MUTEX")>>,
                      Ciclo(TRUE, FALSE, FALSE), "responder") /\ Avanza
    BY <2>1, <2>2, <2>3, <2>5
  <2>6. CASE Ejecutar("MUTEX_CREATE", <<Palabra("CREAR_MUTEX")>>,
                      Ciclo(TRUE, FALSE, FALSE), "responder") /\ Avanza
    BY <2>1, <2>2, <2>3, <2>6
  <2>7. CASE Ejecutar("MUTEX_LOCK", <<Palabra("BLOQUEAR_MUTEX")>>,
                      Ciclo(FALSE, FALSE, FALSE), "responder") /\ Avanza
    BY <2>1, <2>2, <2>7
  <2>8. CASE Ejecutar("THREAD_JOIN", <<Palabra("ESPERAR_HILO")>>,
                      Ciclo(FALSE, TRUE, TRUE), "responder") /\ Avanza
    BY <2>1, <2>2, <2>3, <2>8
  <2>9. CASE Ejecutar("THREAD_EXIT", <<Palabra("FINALIZAR_HILO")>>,
                      Ciclo(FALSE, TRUE, FALSE), "responder") /\ Avanza
    BY <2>1, <2>2, <2>3, <2>9
  <2>10. CASE Ejecutar("DUMP_MEMORY", <<Palabra("DUMP_MEMORY")>>,
                       Ciclo(FALSE, TRUE, FALSE), "responder") /\ ActualizarContexto
    BY <2>1, <2>2, <2>3, <2>10
  <2> QED
    BY <1>5, <2>4, <2>5, <2>6, <2>7, <2>8, <2>9, <2>10, Zenon DEF ConConfirmacion, EjecutarDump
<1>6. CASE SinConfirmacion
  <2>1. \A a, b, c \in BOOLEAN :
           /\ Ciclo(a, b, c) \in [siguiente : BOOLEAN, omitir : BOOLEAN, actualizar : BOOLEAN,
                                 seg_fault : BOOLEAN]
           /\ Ciclo(a, b, c).siguiente = a /\ Ciclo(a, b, c).omitir = b
           /\ Ciclo(a, b, c).actualizar = c /\ Ciclo(a, b, c).seg_fault = FALSE
    BY DEF Ciclo
  <2>2. CASE Ejecutar("IO", <<Palabra("IO")>>, Ciclo(FALSE, TRUE, TRUE), "chequear") /\ Avanza
    <3>1. "IO" \in Instrucciones
      BY <2>2 DEF Ejecutar
    <3> QED
      BY <2>1, <2>2, <3>1, AlIrse
  <2>3. CASE /\ Ejecutar("PROCESS_CREATE", <<Palabra("CREAR_PROCESO")>>,
                         Ciclo(TRUE, FALSE, FALSE), "chequear")
             /\ Avanza
    <3>1. "PROCESS_CREATE" \in Instrucciones
      BY <2>3 DEF Ejecutar
    <3> QED
      BY <2>3, <3>1, AlSeguir, Zenon
  <2>4. CASE /\ Ejecutar("PROCESS_EXIT", <<Palabra("FINALIZAR_PROCESO")>>,
                         Ciclo(FALSE, TRUE, FALSE), "chequear")
             /\ Avanza
    <3>1. "PROCESS_EXIT" \in Instrucciones
      BY <2>4 DEF Ejecutar
    <3> QED
      BY <2>1, <2>4, <3>1, AlIrse
  <2> QED
    BY <1>6, <2>2, <2>3, <2>4, Zenon DEF SinConfirmacion
<1>7. CASE ThreadCancel
  BY <1>7 DEF ThreadCancel, Ejecutar, Acordes
<1>8. CASE RecibirRespuesta
  BY <1>8, AlRecibirRespuesta
<1>9. CASE Chequear
  BY <1>9, AlChequear
<1>10. CASE Desalojar
  BY <1>10, AlDesalojar
<1> QED
  BY <1>1, <1>2, <1>3, <1>4, <1>5, <1>6, <1>7, <1>8, <1>9, <1>10 DEF PasoCpu

(* Every step of the program keeps the invariant. *)
LEMMA PasoDispatch == ASSUME Inv, Acordes, [Next]_vars PROVE Inv'
<1>1. CASE PasoPlanificador
  BY <1>1, PasoDelPlanificador
<1>2. CASE PasoTemporizador \/ EscucharInterrupciones
  BY <1>2, Ajenos DEF PasoTemporizador, Vencer, EnviarInterrupcion,
                      EscucharInterrupciones, canales
<1>3. CASE PasoCpu
  BY <1>3, PasoDeLaCpu
<1>4. CASE \E h \in Hilos : Despertar(h)
  BY <1>4, AlDespertar
<1>5. CASE UNCHANGED vars
  BY <1>5, Ajenos DEF vars, canales
<1> QED
  BY <1>1, <1>2, <1>3, <1>4, <1>5 DEF Next

(* What the other parts do not look at has its type. *)
LEMMA PasoTipos == ASSUME Inv, OtrosTipos, [Next]_vars PROVE OtrosTipos'
<1>1. temporizadores \in Seq(Temporizador)
  BY DEF OtrosTipos
<1>2. CASE Elegir
  <2> DEFINE viejos == [i \in DOMAIN temporizadores |->
                          [temporizadores[i] EXCEPT !.propio = FALSE]]
             nuevo == [hilo |-> Head(listos), propio |-> TRUE, estado |-> "duerme"]
  <2>1. Head(listos) \in Hilos
    BY <1>2, Cola DEF Elegir, Inv, Formas
  <2>2. nuevo \in Temporizador
    BY <2>1 DEF Temporizador
  <2>3. \A t \in Temporizador : [t EXCEPT !.propio = FALSE] \in Temporizador
    BY Zenon DEF Temporizador
  <2>4. /\ DOMAIN temporizadores = 1..Len(temporizadores) /\ Len(temporizadores) \in Nat
        /\ \A i \in 1..Len(temporizadores) : temporizadores[i] \in Temporizador
    BY <1>1
  <2>5. viejos \in [1..Len(temporizadores) -> Temporizador]
    BY <2>3, <2>4, Zenon
  <2> HIDE DEF nuevo, viejos
  <2>6. viejos \in Seq(Temporizador)
    BY <2>4, <2>5, SeqDef
  <2>7. Append(viejos, nuevo) \in Seq(Temporizador)
    BY <2>2, <2>6, AppendProperties
  <2>8. temporizadores' \in {viejos, Append(viejos, nuevo)} /\ quantum' = "corre"
        /\ UNCHANGED <<interrupciones, hay_interrupcion, instr, estado_exec>>
        /\ hilo_en_ejecucion' = Head(listos)
    BY <1>2, Zenon DEF Elegir, viejos, nuevo, canales, cpuVars
  <2> QED
    BY <2>1, <2>6, <2>7, <2>8 DEF OtrosTipos
<1>3. ASSUME NEW i \in DOMAIN temporizadores, Vencer(i) \/ EnviarInterrupcion(i)
      PROVE  OtrosTipos'
  <2>1. i \in 1..Len(temporizadores) /\ temporizadores[i] \in Temporizador
    BY <1>1, <1>3
  <2>2. RemoveAt(temporizadores, i) \in Seq(Temporizador)
    BY <1>1, <2>1, QuitarPosicion
  <2>3. [temporizadores EXCEPT ![i].estado = "envia"] \in Seq(Temporizador)
    <3>1. [temporizadores[i] EXCEPT !.estado = "envia"] \in Temporizador
      BY <2>1, Zenon DEF Temporizador
    <3>2. \A t \in Temporizador : [temporizadores EXCEPT ![i] = t] \in Seq(Temporizador)
      BY <1>1, <2>1
    <3> QED
      BY <3>1, <3>2, Zenon
  <2>4. temporizadores' \in {RemoveAt(temporizadores, i),
                             [temporizadores EXCEPT ![i].estado = "envia"]}
    BY <1>3, Zenon DEF Vencer, EnviarInterrupcion
  <2>5. /\ quantum' \in {quantum, "vencido", "avisado"}
        /\ interrupciones' \in {interrupciones, interrupciones + 1}
        /\ UNCHANGED <<hay_interrupcion, instr, estado_exec, hilo_en_ejecucion>>
    <3>1. CASE Vencer(i)
      BY <3>1, Zenon DEF Vencer, canales, cpuVars, kernelVars
    <3>2. CASE EnviarInterrupcion(i)
      BY <3>2, Zenon DEF EnviarInterrupcion, canales, cpuVars, kernelVars
    <3> QED
      BY <1>3, <3>1, <3>2
  <2>6. temporizadores' \in Seq(Temporizador)
    BY <2>2, <2>3, <2>4
  <2> QED
    BY <2>5, <2>6 DEF OtrosTipos
<1>4. CASE PasoPlanificador /\ ~Elegir
  BY <1>4 DEF PasoPlanificador, OtrosTipos, Despachar, CrearProceso, Confirmar, BloquearMutex,
              EsperarHilo, IO, DumpMemory, FinalizarHilo, FinalizarProceso, DesalojarHilo,
              OperacionDesconocida, Recibir, ExecABlocked, timerVars, cpuVars
<1>5. CASE PasoCpu
  <2>1. UNCHANGED <<temporizadores, quantum, interrupciones, estado_exec,
                    hilo_en_ejecucion>>
    BY <1>5 DEF PasoCpu, RecibirDispatch, PedirContexto, Calcular, SegmentationFault,
                ConConfirmacion, EjecutarDump, SinConfirmacion, ThreadCancel, Ejecutar,
                RecibirRespuesta, Chequear, Desalojar, timerVars, canales, kernelVars
  <2>2. instr' = instr \/ instr' \in Instrucciones
    BY <1>5 DEF PasoCpu, RecibirDispatch, PedirContexto, Calcular, SegmentationFault,
                ConConfirmacion, EjecutarDump, SinConfirmacion, ThreadCancel, Ejecutar,
                RecibirRespuesta, Chequear, Desalojar
  <2>3. hay_interrupcion' = hay_interrupcion \/ hay_interrupcion' = FALSE
    BY <1>5, Zenon DEF PasoCpu, RecibirDispatch, PedirContexto, Calcular, SegmentationFault,
                ConConfirmacion, EjecutarDump, SinConfirmacion, ThreadCancel, Ejecutar,
                RecibirRespuesta, Chequear, Desalojar
  <2> QED
    BY <2>1, <2>2, <2>3 DEF OtrosTipos
<1>6. CASE EscucharInterrupciones
  BY <1>6 DEF EscucharInterrupciones, OtrosTipos, timerVars, cpuVars, kernelVars
<1>7. CASE \E h \in Hilos : Despertar(h)
  BY <1>7 DEF Despertar, OtrosTipos, timerVars, canales, cpuVars
<1>8. CASE UNCHANGED vars
  BY <1>8 DEF vars, OtrosTipos, timerVars, canales, cpuVars, kernelVars
<1> QED
  BY <1>2, <1>3, <1>4, <1>5, <1>6, <1>7, <1>8 DEF Next, PasoTemporizador

-----------------------------------------------------------------------------
(* The inductive invariant, in every reachable state.                      *)
THEOREM InvarianteDispatch == ASSUME Acordes PROVE Spec => [](Inv /\ OtrosTipos)
<1>1. Init => Inv /\ OtrosTipos
  <2>1. Init => OtrosTipos
    <3>1. <<>> \in Seq(Temporizador)
      BY EmptySeq
    <3>2. Init => temporizadores \in Seq(Temporizador) /\ hay_interrupcion \in BOOLEAN
      BY <3>1, Zenon DEF Init
    <3>3. Init => /\ quantum \in {"corre", "vencido", "avisado"} /\ interrupciones \in Nat
                  /\ instr \in Instrucciones \cup {"ninguna"}
                  /\ estado_exec = Ninguno /\ hilo_en_ejecucion = Ninguno
      BY DEF Init
    <3> QED
      BY <3>2, <3>3 DEF OtrosTipos
  <2> QED
    BY <2>1, InvInicial
<1>2. Inv /\ OtrosTipos /\ [Next]_vars => Inv' /\ OtrosTipos'
  BY PasoDispatch, PasoTipos
<1> QED
  BY <1>1, <1>2, PTL DEF Spec

(* Every variable of the kernel and the CPU has its type. *)
THEOREM TiposDispatch == ASSUME Acordes PROVE Spec => []TypeOK
<1>1. Inv /\ OtrosTipos => TypeOK
  BY DEF Inv, Formas, OtrosTipos, Temporizador, TypeOK
<1> QED
  BY <1>1, InvarianteDispatch, PTL

(* Whoever made the syscall that the kernel reads is the thread in EXEC,   *)
(* however many PROCESS_CREATE are in the connection and whatever the      *)
(* timers do.                                                              *)
THEOREM InvocadorCorrecto == ASSUME Acordes PROVE Spec => []InvocadorEnExec
<1>1. Inv => InvocadorEnExec
  BY AlLeer DEF InvocadorEnExec, Atento
<1> QED
  BY <1>1, InvarianteDispatch, PTL

(* The CPU runs the thread that the kernel has in EXEC, and never aborts   *)
(* on an answer that is not its own.                                       *)
THEOREM CpuSigueAlKernel == ASSUME Acordes PROVE Spec => []CpuEjecutaExec
<1>1. Inv => CpuEjecutaExec
  BY DEF Inv, ConHilo, Atento, CpuEjecutaExec
<1> QED
  BY <1>1, InvarianteDispatch, PTL

(* A thread is loaded from its last context, although the kernel may have  *)
(* woken it and dispatched it before the CPU sent that context.            *)
THEOREM ContextosAlDia == ASSUME Acordes PROVE Spec => []ContextoAlDia
<1>1. Inv => ContextoAlDia
  <2> SUFFICES ASSUME Inv, cpu = "contexto" PROVE guardado[contexto]
    BY DEF ContextoAlDia
  <2>1. Atento
    BY DEF Inv, ConHilo
  <2>2. contexto \in Cargando /\ ~GuardadoPendiente
    BY <2>1 DEF Atento, Cargando, GuardadoPendiente
  <2> QED
    BY <2>2 DEF Inv, Contextos
<1> QED
  BY <1>1, InvarianteDispatch, PTL

(* The planner and the CPU never wait for each other while every join      *)
(* blocks the thread that asks for it (Acordes).                           *)
THEOREM NadieSeEspera == ASSUME Acordes PROVE Spec => []SinEsperaMutua
<1>1. Inv => SinEsperaMutua
  BY DEF Inv, SinHilo, Termina, Replanifica, SinEsperaMutua
<1> QED
  BY <1>1, InvarianteDispatch, PTL
=============================================================================
