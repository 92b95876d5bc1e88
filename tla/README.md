# Formal models of sist-op-tp2c2024

The repository is an operating system in four programs that talk over sockets:
a **kernel** that schedules processes and threads, a **CPU** that interprets
their instructions, a **memory** that holds partitions, contexts and programs,
and a **filesystem** that stores memory dumps. This directory models their
control in TLA+, checks it with TLC and proves part of it with TLAPS.

Module and definition names follow the source (in Spanish, as the code is).
`PROJECT.json` maps each definition to the lines it models.

## 1. The system

| Component | State | Operations | Interacts by |
|---|---|---|---|
| Long-term planner (`planificador-largo-plazo.c`, `procesos.c`) | `lista_procesos`, `estado_new`, `semaforo_estado_new`, `semaforo_memoria_suficiente` | create a process, admit the first of NEW, announce freed memory | one request per connection to the memory; semaphores with the creator and the finaliser |
| Short-term planner (`planificador-corto-plazo.c`) | `estado_ready` and its semaphore, `estado_exec`, one timer thread per burst | choose (FIFO, priorities, multilevel queues with quantum), dispatch, handle the operations of the CPU | dispatch and interrupt connections to the CPU |
| Syscalls (`syscalls.c`) | PCBs, TCBs, mutexes, `estado_blocked` | create, join, exit and finalise threads and processes; mutexes; IO; dump | run by the short-term planner; finalisation also by the thread of a failed dump |
| I/O device (`dispositivo-io.c`) | a queue of requests | serve the first request, wake its thread | queue with the short-term planner, READY |
| CPU (`cpu/src/main.c`) | loaded context, `hay_interrupcion` | fetch, decode, execute, check interrupt; address translation | dispatch and interrupt connections; contexts and words of the memory |
| Memory partitions (`particiones.c`, `manejo-estructuras.c`) | the list of partitions, `pid_auxiliar`, the nodes of the processes | find, split, assign, release, consolidate | a thread for each request of the kernel, no mutex |
| Memory threads and contexts (`manejo-estructuras.c`) | linked lists of processes and threads | create, finalise, read and update contexts, give instructions | the thread of the CPU and those of the kernel, no mutex |
| Filesystem (`filesystem/src/main.c`) | the bitmap, `bitmap.dat`, `bloques.dat`, one metadata file per dump | a dump; the start-up | a thread for each dump, no mutex |
| Utils (`buffer.c`, `mensajes.c`, `comunicacion_*.c`) | none | buffers, packets, a serialiser and a deserialiser for each message; sockets, configuration, time | both ends of every connection |

What makes it hard: the kernel has at least three permanent threads, a timer
per burst and a thread per dump, which move the same threads between the same
lists under one mutex per list and a semaphore that counts beside the list;
the CPU answers and is answered over a connection where operations have no
identity; the memory and the filesystem serve requests at once without any
mutex; and the filesystem keeps state across restarts.

What makes it correct, component by component:

* long-term planner: a process that fits is admitted, in order of arrival, and
  no wake-up is lost between two semaphores and three threads;
* kernel: a thread is in one place although every move takes two locks, and
  blocked for one reason; the semaphore of READY counts READY; a join blocks
  until the other thread ends; freed threads are in no list; mutexes are handed over
  in order; what is finalised leaves nothing behind;
* kernel and CPU: both agree on which thread runs; answers reach who asked;
  contexts are up to date; the quantum evicts its own burst; nobody waits for
  the other for ever;
* CPU and memory: every thread computes what its program says, whatever is
  saved, restored, interrupted or finalised in between; the memory loses no
  process or thread and finds the ones it is asked for;
* messages: what is read is what was written, in whatever pieces it arrives,
  and every request is served and answered;
* partitions: they tile the memory, a process owns exactly one, free ones are
  merged, the algorithms choose what they say, accesses stay inside;
* filesystem: blocks are exclusive, a confirmed dump can be read back, also
  after a restart, and every dump is answered.

The hazards, each at its line and with the properties that cover it, are in
`PROJECT.json`.

## 2. Modules

    Admision <--- refined by --- LargoPlazo <--- EXTENDS --- Kernel
                                                                |
                                                          Kernel_proofs

    Estados <--- refined by --- Transiciones <--- EXTENDS --- Finalizacion
                                                                   |
                                              Finalizacion_proofs (of both)

    Maquina <--- refined by --- CpuMemoria --- EXTENDS ---> Memoria ---> Instrucciones
       \------------------|-- EXTENDS ----------------------------------/
                   CpuMemoria_proofs

    Dispatch           Particiones           Filesystem           Paquetes
        |                   |                     |                    |
    Dispatch_proofs   Particiones_proofs   Filesystem_proofs   Paquetes_proofs
        \___________________|_____________________|____________________/
                          Listas  (also used by Kernel_proofs and CpuMemoria_proofs)

Each `MC<Module>` instantiates its module for TLC; Dispatch and Filesystem
need no more than their configurations.

**Admision** is the abstract promise of the long-term planner: a queue and a
set. A process arrives, the first one is admitted if there is room, one ends.

**LargoPlazo** has one action per critical section, semaphore operation or
exchange with the memory: the loop of the planner (`lp` is its program
counter, `proceso_a_inicializar` its local variable), the three steps of
`crear_proceso`, and `finalizar_proceso_por_pid` but for its threads: a
finaliser finds the PCB (`BuscarProceso`), asks the memory to free the process
(`PedirFinalizacion`), takes the PCB out of the list (`SacarProceso`) and, at
the end, posts (`AvisarMemoria`). Finalisers are told apart by the thread on
whose account they run, so two of one process (two failed dumps, or one and a
PROCESS_EXIT) can both find its PCB; the memory then dereferences a NULL for
the second, which is the end of the behaviour (`memoria = "caida"`). Whether a
process fits is the constant operator `Entra`, of which only monotony is
assumed (`EntraAssumption`); `LugarMonotono` of Particiones shows that the
partitions behave so. The refinement takes the first of NEW as admitted once
the memory has confirmed it.

**Kernel** extends LargoPlazo with threads: READY, EXEC and BLOCKED, the
semaphore of READY, mutexes, joins, the queue of the device and the dumps in
course. A syscall that its handler completes at once is one action;
finalisation takes the steps of LargoPlazo, one per thread it destroys, and one
more where a thread was taken out of READY but its token was not
(`DescontarReady`), because other threads run in between. A request to the
memory for a process that it has freed is a crash too (`UsarProcesoLiberado`). Freed TCBs are threads outside `vivos`; using one is
`fallo`, after which nothing runs.

**Estados** is the diagram of states of a thread, a move at a time, with one
thread in EXEC. **Transiciones** makes those moves as the code does: one step
per critical section or semaphore operation, so that between BLOCKED and READY
a thread is in no list and only the POSIX thread that moves it has its pointer
(`hilo[a]` of the actor `a`, which is at `pc[a]` and returns to `vuelve[a]`).
Both planners, the device and one POSIX thread per dump run at once. The lists
are sets: Kernel has their order. **Finalizacion** adds the end of a process,
by PROCESS_EXIT in the short-term planner or by a failed dump in its own
thread, with the search in READY, BLOCKED and EXEC in three steps, the removal
from READY and the `sem_wait` apart. `Interferencias` says whether it may end a
process while somebody else works with one of its threads.

Kernel and Transiciones look at the same handlers from two sides. Kernel has
the data (which mutex, which process, admission) and takes a handler as one
step; Transiciones has the steps inside the handler and leaves the data out.

**Dispatch** models the two connections between kernel and CPU word by word
where that matters: each word of the connection carries, untransmitted, who
was running when it was sent, so that the model can say whom a syscall belongs
to. It has the planner as the CPU sees it, the timers, the instruction cycle
with its flags (`pedir_siguiente_instruccion`, `omitir_desalojo`,
`actualizar_contexto`...), and the listener of interrupts. The data of a
thread is one bit: whether the memory has its latest context.

**Instrucciones** has the arithmetic of the CPU and its memory accesses as
functions of a context and a memory, in words of `Ancho` bytes of `Byte`
values, with the wrap at the end of a word and the check of `mmu`. **Maquina**
is what a programmer is promised: each thread has registers of its own, shares
the memory, and advances a whole instruction at a time. **Memoria** keeps the
linked lists of processes and threads, with the contexts: a handler is a
sequence of walks, one node per step, and then its effect, and the handlers of
several requests interleave, since there is no mutex. A dump is one of them: it
walks the processes and copies what the partition of the node holds (`Volcar`),
while the planner goes on and the thread that asked for it is BLOCKED. **CpuMemoria** composes
them: the CPU loads a context, asks for instructions, executes, saves; the
kernel is reduced to what it asks of both. It is shown to implement Maquina,
taking as the registers of a thread those of the CPU while it has them and
those of the memory otherwise.

**Paquetes** has the fields that each serialiser adds (`Escribe...`), the size
that it passes to `buffer_create` (`Tamanio...`) and the fields that each
deserialiser reads (`Lee...`), transcribed apart from the functions of both
modules, so that an order or a size that does not agree shows; buffers with
their size and offset, packets, and a connection that
is a stream of bytes which arrive in pieces. The server is the loop that reads
an operation, a size and a content; the client waits for what the calling code
waits for, which is not always an answer.

**Particiones** models the list as the code keeps it, `limite` off by one
included, and splits a handler where another one can get in: the search of
`buscar_particion_libre` leaves an index (`indice`), and the split that follows
it reads the list again (`CrearParticionEnIndice`). Sizes and limits wrap as a
`uint32_t`. A pointer that a
handler keeps in a local variable is kept in the partition (`punteros`), so
that freeing the partition leaves it dangling.

**Filesystem** has one action per access to what the threads of two dumps
share; `bitarray_set_bit` is a read and a write of a byte, and the file of the
bitmap changes at `fopen` (truncated) and at `fclose` (written).

Definitions commented "Bug variant" are not part of the model: each is a
plausible mistake in the definition that follows it, and `PROJECT.json`
(`mutants`) says which property it breaks.

## 3. Runs

Runs that pass:

| Run | Bounds | Shows |
|---|---|---|
| `largo_plazo` | 4 processes of one and two units and 2 threads each, a memory of 3, fair | the safety of LargoPlazo and its refinement of Admision, with liveness; two finalisers of a process included |
| `kernel_sync` | 1 process, 3 threads, 2 mutexes, 2 names, CMN, the device and dumps | joins, exits and mutexes: one reason to block, consistent mutexes handed over in order |
| `kernel_procesos` | 3 processes, 1 partition, 2 threads and 1 mutex each, 2 priorities | admission and finalisation leave no freed thread behind and the kernel does not crash |
| `kernel_vida` | 2 processes of 2 threads, 1 partition, CMN, the device, PROCESS_EXIT, dumps and failed dumps, fair | LargoPlazo is still implemented, also by two finalisers of one process; requests, READY, finalisations and admissions go on until a crash |
| `finalizacion` | a process of 2 threads and one of 1, 2 dumps at a time | a thread is in one place at every step of every move; the semaphore follows READY also while a process ends; no NULL is used; Estados is implemented |
| `dispatch` | 2 threads, 2 timers, 2 words in the connection, all instructions but THREAD_CANCEL | kernel and CPU agree; contexts; no mutual wait |
| `dispatch_desinc` | the same, 4 words, THREAD_CANCEL and joins that do not block | contexts are up to date even out of step |
| `cpu_memoria` | 2 processes, the first of 2 threads; words of 2 bytes of 4 values; 3 programs with loops, wraps, faults, dumps and the device; an interrupt may end any burst; fair | Maquina is implemented; the lists are complete; with finalisations apart from other requests, the only crash is a thread dispatched before it was created; threads end |
| `paquetes` | the 5 connections, words of 4 bytes, 2 requests, 2 variants of each message, every way of cutting the stream at a `recv`; fair | requests and answers are read as they were written; nobody waits for what is not sent |
| `particiones` | 8 bytes, 3 processes, sizes 0, 1, 2, 4, both schemes, three algorithms | tiling, consolidation, ownership, selection, monotone room |
| `filesystem` | 3 dumps, 7 blocks of 2 words, 2 bits per byte, sizes 0 to 4, 1 restart, fair | exclusive blocks, contents, bitmap; every dump is answered |

Why the bounds are enough: the first process that does not fit with a smaller
one behind it takes three processes, and a fourth arrives meanwhile; a mutex
with an owner and two waiters, or a join on a thread that has joined another,
takes three threads; a partition freed between two free ones, or between two
used ones, takes three processes; a stale timer takes two bursts, so two
threads; the index block of two words overflows at five words of data, and
blocks of one byte of the bitmap are shared by two dumps. In `finalizacion` the
planner, the device and two dumps can have four moves in course at once, on
threads of the process that ends and of another one (the same run with four
threads, 1.5 million states, also holds). In `cpu_memoria` a loop leaves 3 in
HX and in the memory, a wrap goes below zero, and each thread is dispatched,
blocked and dispatched again. In `paquetes` the two variants of a message
differ in every field and in the length of each string, so that a swap or a
wrong size shows, and a second request finds what the first one left unread. Symmetry is used on
the processes of Particiones only, which no definition tells apart, with no
temporal formula other than `[][A]_v`. `CHECK_DEADLOCK FALSE` is there where
the bounds, or a crash, really stop the model; `MCParticiones` and
`MCParticionesMmu` check deadlock.

The run of `PROJECT.json` that TLC must find violated, a finding:

| Run | What happens |
|---|---|
| `finalizacion_join` | THREAD_JOIN of a thread that is between BLOCKED and READY finds it nowhere, and goes on as if it had ended |

Further counterexamples, each reproduced with its `.cfg` (TLC reports the
property of that file violated; `-continue` shows each of those that have two)
and recorded under `hazards`:

| Configuration | What happens |
|---|---|
| `MCKernelExitIO` | PROCESS_EXIT with a thread of the process in the device: its freed TCB goes to READY |
| `MCKernelExitJoin` | a higher TID joined a lower one and the process ends: a freed thread is woken |
| `MCKernelReadyVacio` | a finaliser has taken a thread out of READY and not yet its token: the planner dispatches from an empty list; and a failed dump destroys the thread in EXEC |
| `MCFinalizacionDump` | a failed dump looks for a thread of its process in EXEC, which is empty or has a thread of another process: NULL is used |
| `MCFinalizacionTraba` | the token that a finaliser waits for was taken by the planner |
| `MCDispatchJoin` | THREAD_JOIN of a TID that does not exist: kernel and CPU wait for each other |
| `MCDispatchCancel` | THREAD_CANCEL has no handler and its packet is read as other operations |
| `MCDispatchViejo` | the timer of an earlier burst evicts a later one; and the interrupt of a burst is cleared while the CPU ends the previous instruction |
| `MCCpuMemoriaLiberado` | a dump is served when a finalisation has freed its process, or frees the node on which it stands: NULL or freed memory is used |
| `MCCpuMemoriaDoble` | two threads created in a row are appended to the same last node, and one is lost |
| `MCCpuMemoriaLimite` | SET of Base or Limite changes a register that is not saved |
| `MCCpuMemoriaSinFin` | a program without EXIT: the CPU waits for a dispatch and the kernel for the CPU |
| `MCPaquetesPartida` | a word read from the memory arrives in two pieces, and its second half is taken for the next answer |
| `MCParticionesMmu` | an accepted access leaves the partition |
| `MCParticionesCarrera` | a consolidation makes stale the index found for a new process before the split, or merges away the partition chosen before it is assigned; and two searches by PID share a global |
| `MCFilesystemCarrera` | two dumps are given the same blocks |
| `MCFilesystemCaida` | a stop while `bitmap.dat` is truncated frees the blocks of confirmed dumps |
| `MCFilesystemIndice` | more pointers than fit in the index block overwrite the next one |

Because of these, some passing runs leave a feature out on purpose:
`kernel_procesos` has neither joins nor the device (`MCKernelExitJoin`,
`MCKernelExitIO`), `dispatch` has only joins that block (`MCDispatchJoin`),
`particiones` and `filesystem` serve one request at a time
(`MCParticionesCarrera`, `MCFilesystemCarrera`),
`filesystem` neither stops inside a dump nor dumps more than an index block
can name, `finalizacion` ends a process only when nobody else works with its
threads (`MCFinalizacionDump`, `MCFinalizacionTraba`), `cpu_memoria` keeps
finalisations apart from other requests and its programs end
(`MCCpuMemoriaLiberado`, `MCCpuMemoriaDoble`, `MCCpuMemoriaLimite`,
`MCCpuMemoriaSinFin`), and `paquetes` has neither THREAD_CANCEL nor a word cut
in two (`MCDispatchCancel`, `MCPaquetesPartida`). The properties are the same definitions in both kinds of run.

## 4. Fairness

All fairness is weak and per thread of the programs: a thread that can take a
step eventually does, which is what the scheduler of the host gives. In
`LargoPlazo`, the planner, a creation and each finalisation. In `Kernel` also
the short-term planner, the device, which sleeps a finite time, and the answer
of the memory to a dump. Nothing is assumed of programs (no syscall need ever
be made, no process need end), so that `ImplementaAdmision` and
`AdmisionEnElKernel` speak of a process that already has room. In `Dispatch`, the planner, the timers and the two
threads of the CPU; not the waking of a blocked thread. In `Filesystem`, the
thread of each dump. In `Finalizacion`, the short-term planner, the device and
the thread of each dump (`MCFinalizacionTraba` only). In `CpuMemoria`, the CPU,
each thread of the memory, the planners, the device and the dumps; an interrupt
may come at any instruction or never. In `Paquetes`, both ends, and the network, which
delivers what was sent. Every disjunction under one WF belongs to one sequential
thread.

## 5. Proofs

For every number of processes, threads, mutexes and dumps, every memory and
every configuration. What each result assumes beyond the assumptions on the
constants (`EntraAssumption` and those of each module) is said with it, and is
stated as a hypothesis of the theorem; each is a feature that the
counterexamples of section 3 show to break the property.

`Listas` has the lemmas on lists that the other proofs cite: what the
operations of the commons library keep (members, no repetition, positions), and
induction on naturals, stated with sets (`Induccion`, from the well-founded
order of the library) because the library's own induction theorems cannot be
instantiated. With it, `Recurrencia` gives the functions that the loops of the
code are written as: `HerederosDe` (Kernel), `Fijas` and `SeleccionDe`
(Particiones) and `BloquesLibres` (Filesystem) say what those loops compute.

`Kernel_proofs`, first of LargoPlazo and then of the whole kernel:

* `CuentaNew` (NEW and its semaphore) is not inductive: a `list_remove` must
  remove, so the process that the planner holds must still be the first of NEW
  (`CabezaEstable`), so creations must append, each a PID that is in no list
  (`EtapasDisjuntas`, `PidsCreados`). `SinDespertarPerdido` needs to know that
  after an admission the memory semaphore is open (`FichaMemoria`) and that
  room never shrinks when a process leaves (`EntraAssumption`). A finaliser that
  has had the memory freed is the only one of its process, whoever else found
  the PCB (`CabezaEstable`), since the memory confirms one of them; and none
  found a process that is still on its way (`PidsCreados`). The conjunction
  is `Invariante`; `InvarianteInductivo` has one lemma for the steps that
  leave NEW alone, one for those that append, one for the removal. From it
  follow `Tipos`, `ContabilidadNew`, `NingunDespertarPerdido` and
  `UnaEtapaPorProceso`.
* `RefinaAdmision`: under `Invariante` every step of LargoPlazo is an arrival,
  an admission, an end or a stutter of Admision.
* `KernelUsaLargoPlazo`: every step of the kernel is a step of LargoPlazo or
  leaves its variables alone. Finalisation, which LargoPlazo makes in four steps
  and the kernel with its threads in between, is what needs the
  invariant. With it, `AdmisionDelKernel` brings the results above to the
  whole kernel.
* `EsperaUnica` (`BloqueadoPorAlgo`) and `MutexSinOlvidados`
  (`MutexConsistente`) come from `KInv`, with every syscall, the device,
  confirmed and failed dumps. Neither is inductive. That a thread is blocked
  for one thing needs it to be in one list (`Lugar`), and the thing to name it
  once (`Espera`): the queues of mutexes, of the device and of joins have no
  repetitions and share no thread, and whoever makes a syscall is in none.
  That a mutex goes to a thread alive needs its queue to have threads alive of
  its process (`MutexSano`), so the list of TIDs of a process and the threads
  alive must agree (`Hilado`), whoever a list, a queue or a pointer names must
  have been started (`Nombres`), and joins must be of the same process (`Uniones`). All of
  it is of processes that are not being finalised; of those that are, only
  that their threads leave the lists (the finaliser does leave others behind:
  `MCKernelExitIO`, `MCKernelExitJoin`). `TiposKernel` and `MutexEnOrden`
  (`TransferenciaMutex`, an action property) follow from the same invariant.
* `ListasSinColgantes`, `KernelNoSeCae` and `PlanificadorSinSorpresas`
  (`SinColgantes`, `SinFalloPropio`, `NuncaReadyVacio`, `ExecVivo`), if programs
  make no THREAD_JOIN, IO or DUMP_MEMORY (`SinPendientes`), or if no process is
  ended whole (`SinFinales`). TLC finds a freed thread in READY with any one of
  the three waits and one way of ending a process (`MCKernelExitIO`,
  `MCKernelExitJoin`; a dump and PROCESS_EXIT, a dump that fails). The invariant
  `Firme` needs `KInv` and four facts more: whoever waits exists
  (`PendientesVivos`); a process is ended by its own thread in EXEC, with the
  CPU stopped (`UnFinal`); each of its threads is at most once in READY, and
  the one whose token is due has left it (`FinalEnReady`); and the tokens of
  READY are its threads but for those (`FichasReady`), so the planner is not
  let through in between.

`Finalizacion_proofs`, first of Transiciones, while no process ends (the names
that Finalizacion states again end there in T):

* `UnSoloLugar` is not inductive: that a thread is taken out of BLOCKED by one
  actor only depends on nobody else being about to take it. The invariant
  `InvT` adds where each actor may be and where it returns (`LugaresT`), what
  EXEC and the hands of each actor hold (`EjecucionT`, `ManosCreadas`), that
  whoever will be woken is BLOCKED (`EnBlockedT`) and that the places it may be
  woken from, the queue of the device, a dump, a mutex, a join and the hands
  of an actor, are disjoint (`UnaEspera`). Each action has a lemma or a step.
  From it follow `UnLugarPorHilo` and, mapping each action to a move or a
  stutter of the diagram, `TransicionesImplementaEstados`.
* `SemaforoCuentaReady` and `NadieUsaNulo` add that the semaphore and the
  cardinality of READY differ by the posts that are due and the token that the
  planner has, and the same of the device: neither finds its list empty.

`Dispatch_proofs`, for programs without THREAD_CANCEL and joins that block
(`Acordes`; with either of them the properties are false, `MCDispatchCancel` and
`MCDispatchJoin`):

* The connection is a stream without identities, so that the kernel reads an
  operation of the thread in EXEC depends on what may be in it. `Inv` says which
  words the CPU can have sent when it waits for what: PROCESS_CREATE, which has
  no answer, any number of times, and then one operation, the last; and that
  while the kernel has a thread in EXEC either the CPU has it, or is about to
  receive it, or the word that ends its burst is on its way (`ConHilo`,
  `SinHilo`, `Respondiendo`). With the flags of each instruction (`Banderas`)
  and whose context is saved, loaded or about to be (`Contextos`) it is
  inductive: `InvocadorCorrecto`, `CpuSigueAlKernel`, `ContextosAlDia`,
  `NadieSeEspera` and `TiposDispatch` follow. Timers and interrupts may come at
  any moment: none of them breaks it.

The same module, if nobody else has a thread of the process that ends
(`Interferencias = FALSE`; otherwise they fail, `MCFinalizacionDump`,
`MCFinalizacionJoin`, `MCFinalizacionTraba`), while everything else goes on:

* `UnLugarAlFinalizar`, `FinalizacionImplementaEstados`, `SemaforoAlFinalizar`
  (`CuentaAlFinalizar`) and `NadieUsaNuloAlFinalizar`. The condition is checked
  once, when the end begins; that it lasts is what the invariant adds to the one
  of Transiciones (`EnFinal`). No thread of the process can be created
  (`Creados`: the main thread was, and only the thread in EXEC creates others);
  no other actor comes to hold one (`Exclusivo`); they are destroyed from the
  youngest, and a join left is of an older one for a younger one, so the one
  that is destroyed waits for nobody and who waits for it is woken before
  (`DeMayorAMenor`, `Uniones`). A thread being destroyed is still in READY or in
  BLOCKED, so what those lists hold is the living and the victims. The search
  in three steps then finds every thread: if it is in neither list when each is
  looked at, it is the one in EXEC, because nobody moves it in between.

`Particiones_proofs`:

* `BusquedaCorrecta`, whatever requests overlap: the loop chooses what the
  algorithm says of the list that it sees. It needs types only.
* With one request at a time (`DeAUno`; two break them,
  `MCParticionesCarrera`): `ListaCubreMemoria` and `LugarSinSorpresas` (an
  action property). Each operation on the list is a split, a merge or a change
  in place (`ConDos`, `ConUno`, `EnLugar`), and the three are shown to keep the
  tiling and to move room one way only. The split reads the list by the index
  of an earlier step: that the partition is still there, free and large enough
  (`Vigente`) is part of the invariant. Nothing wraps: each partition ends
  before the last value of a word (`Acotadas`), which `ParticionesAssumption`
  and `FijasAssumption` say of the configurations.
* Also with one request at a time: `ProcesosYParticiones`, `SinHuecosContiguos`
  and `PunterosVigentes` from an invariant that adds which partition the handler
  in progress points to (`Punteros`), whose each partition is (`Pertenencia`),
  and where there may still be two free neighbours: around the partition being
  created or just freed, at most two pairs before the first pass and one before
  the second (`Vecinas`).

`Filesystem_proofs`, with one dump at a time and no stop in the middle of one
(`DeAUno`; two dumps or such a stop break them, `MCFilesystemCarrera`,
`MCFilesystemCaida`), for any number of dumps and of restarts between them:

* `UnArchivoPorBloque` and `BitmapDeLosArchivos` from `InvMapa`: the bitmap is,
  at every step, the blocks of the other files and those that the dump in course
  has already marked (`Marcados`); the byte that it has read to set a bit is
  still the one of the bitmap; and the file is behind only while it is being
  rewritten.
* `VolcadosLegibles` (`ContenidoIntacto`), if no dump is larger than an index
  block can name (`IndiceAlcanza`; `MCFilesystemIndice`), from `InvContenido`:
  what the metadata, the index block and each data block of every dump must hold
  at each step, and that a write of at most one block touches the words of that
  block only.

`CpuMemoria_proofs`, for any programs, processes, threads and threads of the
memory module, if no finalisation overlaps with what walks or changes the
lists (`~Solapadas`; `MCCpuMemoriaLiberado`) and each process has one thread being
created at a time (`SinDobles`; `MCCpuMemoriaDoble`). The first is a constant;
the second is a hypothesis on the behaviour, which the corollaries
(`ListasConUnaHuerfana`, `MaquinaConUnaHuerfana`) replace by one thread of the
memory for the creations that nobody waits for, as in the run `cpu_memoria`:

* `ListasSiempreCompletas` (`ListasCompletas`) from `Ind`. A walk is a pointer
  into a list that others change, so that each link is the next greater of the
  nodes that exist (`Enlazadas`) needs to know what every handler in course will
  still use: which walks it has left and a node not past the one it looks for
  (`Tareas`), and that no two handlers insert after the same node or use one
  that the other frees (`Separadas`). This in turn depends on who asks: the
  kernel admits one process at a time (`Admision`), the threads that nobody
  waits for are the last ones (`Huerfanos`), only what ended is finalised
  (`Terminos`), a thread is in one queue (`Planificados`) and the CPU asks for
  the thread in EXEC (`CpuBien`). That a walk sees all the nodes follows from the
  order of the links by induction on their number (`Recorrida`).
* `SiempreSinCaida` (`SinCaida`): the memory falls only on a thread that was
  dispatched before the memory created it, if, besides the two conditions, no
  access ends past the memory
  (`EnSuMemoria`: `mmu` compares the start of an access with the limit, so the
  last partition lets one end beyond it).
* `ContextosCorrectos`: if programs do not write Base nor Limite
  (`ProgramasCorrectos`; `MCCpuMemoriaLimite`), the registers are words
  (`Palabras`), the context of the thread in EXEC is in one place, the CPU, the
  message or the node, at each point of its burst (`EnEjecucion`), and who waits
  for a dump asked for it (`Volcados`).
* `SimulaLaMaquina` (`ImplementaMaquina`): with both invariants each step is an
  instruction of Maquina, the birth of a thread or the end of some, or a stutter.
  The instruction is made when the CPU executes it, with `contexto` in the CPU;
  its end, when the kernel hears of it; loading, fetching, saving, the walks of
  the memory and the planner are stutters, which is what `EnEjecucion` is for:
  what the CPU loads or saves is what the machine already had. A word of the memory is a sum of bytes by their weights;
  that the sum of any bytes is a number, so that a register that was read is a
  word, is `Leido`, by `Recurrencia`.

`Paquetes_proofs`, for words of any number of bytes of any number of values (4
and 256 in the code), any records that fit in a message (`DatosAssumption`: its
size must be a word) and any number of requests:

* `SerializacionFiel` (and `RespuestaFiel`, of the answers): the size that each
  serialiser computes by hand is, to the byte, what it writes, and the order in
  which the other end reads gives back every field. The value of a word is unique
  (`PalabraDeBytes`, by division and by the weights of the bytes), a field is
  read where it was written whatever was written after it (`Contiene`), and the
  offset of the reader is, field after field, what the writer had written; the
  folds over bytes and over fields are followed by `Recurrencia`. Sizes and
  orders are three transcriptions of different functions of the code: that they
  agree is a fact about each message, proved message by message.
* `PedidosFielesSiempre` (`PedidosFieles`) and `RespuestasFielesSiempre`
  (`RespuestasFieles`), if there is no THREAD_CANCEL, whose packet the kernel
  reads as operations (`MCDispatchCancel`), and the word that answers a read
  arrives whole (`~PalabrasPartidas`; `MCPaquetesPartida`). A stream has no
  messages, so the invariant says which bytes it holds: `IdaBien`, those of the
  request in course from where the server is in it (its code, its size or its
  fields) and then those of the requests not begun, in order; `Esperando`, what
  is left of one answer, or nothing. For there never to be two answers on their
  way, the client and the server must agree on whose turn it is: whoever waits
  has asked last for something that is answered, and the server has not read it,
  has it, or has answered it once (`Turnos`, `Libre`). Bytes that arrive leave
  what the stream holds as it was; each step that reads takes off the front of
  it what the invariant says is there (`Toma`).

Only model-checked: liveness (out of the prover's reach: the fair properties of
each run, `HiloTermina`, `DumpTermina`, `PedidoAtendido`, `ReadySeAtiende`,
`IOEventual`, `AdmisionEnElKernel`, `DespachoEfectivo`); contexts while kernel
and CPU are out of step (`dispatch_desinc`).

## 6. What is abstracted or left out

* Kernel: a move of a thread between two lists is one step; the steps inside
  it are in Transiciones. A freed TCB is never reallocated; any use of one is a
  crash. PIDs and TIDs do not wrap. The three planning algorithms are kept, as
  the choice among READY.
* The crash of one program is the end of the behaviour: a failed connection,
  and what the others do without it, are left out. The PCB that a second
  finaliser reads after it was freed is a crash like the one of the memory.
* Transiciones and Finalizacion: lists and queues are sets; a mutex is a
  waiter of the same process, woken or not; the requests to the memory are
  left out (CpuMemoria). After a join that does not block, `SeguirSinUnir` goes
  back to the CPU, where the real kernel and CPU wait for each other
  (`planificador-corto-plazo.c:110-112`, `MCDispatchJoin`): more behaviours
  than the code has, which no safety property can take for fewer. The searches by `pid_auxiliar` and `tid_auxiliar` are
  one step, although those globals have no lock.
* THREAD_CANCEL is in Dispatch and Paquetes only: the kernel has no handler.
* Dispatch: threads have the same priority; the connection holds at most
  `MaxPendientes` words, the timers and interrupts are at most
  `MaxTemporizadores`. A thread that ended may be chosen only if it was READY,
  which it is not. The context is one bit, whether the memory has the latest.
* CpuMemoria: mutexes and joins are left out, being a step of the PC like IO;
  an access past the end of the user memory, undefined in the code, is not
  taken. Names, the parser of instructions and the retardo are left out.
* Paquetes: a word of a text is its length and a few bytes; the connection is
  open; `send` takes all it is given.
* Particiones: a search, a split, a merge and an assignment are one step each; contents of memory,
  threads and contexts are left out. `PARTICIONES` and sizes are a few bytes
  and addresses wrap at 16 instead of 2^32.
* Filesystem: the search for free blocks is one step; names are unique;
  blocks are words, and words past the end of the file are dropped.
* The type invariants of the modules (`TypeOK`, `KTypeOK`, `Tipos`) are stated
  beside them; those of LargoPlazo, Kernel and Dispatch are proved as they
  stand, and those of Transiciones, Finalizacion, Particiones and Filesystem
  within their invariants. The runs spend their time on the others.
* Not modelled: sockets and failed connections, configuration files, logs,
  sleeps and time stamps (`conexiones.c`, `configuracion.c`, `sleep.c`,
  `timestamp.c`, `hello.c`): input and output whose order and values no
  property depends on; and the depth of the stack of `ciclo_de_instruccion`
  and `procesar_instrucciones_cpu`, which call themselves.

## 7. Plan

Done: Admision, LargoPlazo, Kernel, Dispatch, Particiones, Filesystem;
Estados, Transiciones, Finalizacion; Maquina, Instrucciones, Memoria,
CpuMemoria; Paquetes; the proofs of all of them. Next:

1. LargoPlazo composed with Particiones in place of `Entra`: fragmentation
   included, the request of the planner and the finalisations that race it.

## 8. Running it

    tlc -config MCKernelSync.cfg MCKernel      # one run of section 3
    tlc -config MCDispatch.cfg Dispatch
    tlc -continue -config MCParticionesCarrera.cfg MCParticiones
    tlapm Kernel_proofs.tla                    # the proofs of one module
