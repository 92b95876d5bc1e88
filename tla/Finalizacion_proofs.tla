------------------------- MODULE Finalizacion_proofs -------------------------
(***************************************************************************)
(* Proofs about Transiciones and about Finalizacion, for any threads and   *)
(* any number of dumps.                                                    *)
(*                                                                         *)
(* While no process ends: a thread is in one place, the kernel's moves     *)
(* implement module Estados, and the semaphores count their lists.  What   *)
(* Finalizacion states again with the end of processes has here a name     *)
(* that ends in T.                                                         *)
(*                                                                         *)
(* While processes end: if nobody else has a thread of the process that    *)
(* ends (Interferencias = FALSE; MCFinalizacionDump, MCFinalizacionJoin    *)
(* and MCFinalizacionTraba show what happens otherwise), the end of a      *)
(* process loses no thread, implements the diagram of states, keeps the    *)
(* semaphores in step with their lists and uses no NULL pointer, whatever  *)
(* the other actors do meanwhile.                                          *)
(*                                                                         *)
(* The second invariant is the first one with what the end of a process    *)
(* changes of each part (a thread that is being destroyed is still in a    *)
(* list; one that waits for a mutex of the process may be in none) and the *)
(* parts that keep the other actors away (EnFinal).                        *)
(***************************************************************************)
EXTENDS Finalizacion, FiniteSetTheorems, TLAPS

-----------------------------------------------------------------------------
(* The inductive invariant.  A thread taken out of BLOCKED is in the hands *)
(* of whoever took it; for it not to be in two, nobody else may be about   *)
(* to take it: everyone who will is in one queue, or has one pointer, and  *)
(* these are disjoint and inside BLOCKED.                                  *)

Moviendo == {"agregar", "avisar", "sacar"}
Buscando == {"buscar_ready", "buscar_blocked", "buscar_exec"}
Sueltos == {"esperar", "cpu", "liberar_mutex", "liberar_unidos"}
DePlanificador == {"elegir", "bloquear", "encolar", "avisar_io", "lanzar", "unir", "no_hallado"}
                      \cup Sueltos \cup Buscando
PuntosT == {"planificar", "esperar_io", "desencolar", "inactivo", "esperar_dump"}
              \cup DePlanificador \cup Moviendo

TiposT ==
    /\ creados \subseteq Hilos /\ vivos \subseteq creados
    /\ ready \subseteq creados /\ blocked \subseteq creados
    /\ exec \in creados \cup {Ninguno}
    /\ unidos \in [Hilos -> SUBSET Hilos]
    /\ pc \in [Actores -> PuntosT] /\ vuelve \in [Actores -> PuntosT]
    /\ hilo \in [Actores -> Hilos \cup {Ninguno}]

(* Where each actor may be, and where it returns. *)
LugaresT ==
    /\ pc[LP] \in {"planificar", "agregar", "avisar"}
    /\ pc[LP] # "planificar" => vuelve[LP] = "planificar"
    /\ pc[DIO] \in {"esperar_io", "desencolar"} \cup Moviendo
    /\ pc[DIO] \in Moviendo => vuelve[DIO] = "esperar_io"
    /\ \A v \in Volcadores :
           /\ pc[v] \in {"inactivo", "esperar_dump"} \cup Moviendo
           /\ pc[v] \in Moviendo => vuelve[v] = "inactivo"
    /\ pc[STS] \in DePlanificador \cup Moviendo
    /\ pc[STS] \in Moviendo => vuelve[STS] \in Sueltos
    /\ pc[STS] \in Buscando => vuelve[STS] = "unir"
    /\ pc[STS] = "bloquear" => vuelve[STS] \in {"esperar", "encolar", "lanzar"}

(* While the thread in EXEC has the CPU, it is there; it may have ended    *)
(* when the planner is freeing what it had; in any other case whoever is   *)
(* there has ended, or nobody is.                                          *)
Vuelve(lugares) == pc[STS] \in lugares \/ (pc[STS] \in Moviendo /\ vuelve[STS] \in lugares)

EnCpuT == Vuelve({"cpu"}) \/ pc[STS] \in {"unir", "no_hallado"} \cup Buscando
Liberando == Vuelve({"liberar_mutex", "liberar_unidos"})

EjecucionT ==
    /\ EnCpuT \/ Liberando => exec # Ninguno
    /\ ~EnCpuT => exec \notin vivos

(* The actors that are to take a thread out of BLOCKED, or to hand it on.  *)
Pide(a) == pc[a] \in {"sacar", "esperar_dump", "encolar", "lanzar"}

EnBlockedT ==
    LET quien == IF pc[STS] = "bloquear" THEN {hilo[STS]} ELSE {}
    IN  /\ cola_io \subseteq blocked
        /\ con_mutex \subseteq blocked \cup quien
        /\ \A t \in Hilos : unidos[t] \subseteq blocked \cup quien
        /\ \A a \in Actores : Pide(a) => hilo[a] \in blocked

(* A thread is waited for by one queue or one actor. *)
UnaEspera ==
    /\ cola_io \cap con_mutex = {}
    /\ \A t \in Hilos :
           /\ unidos[t] \cap (cola_io \cup con_mutex) = {}
           /\ \A s \in Hilos \ {t} : unidos[t] \cap unidos[s] = {}
    /\ \A a \in Actores : Pide(a) =>
           /\ hilo[a] \notin cola_io \cup con_mutex
           /\ \A t \in Hilos : hilo[a] \notin unidos[t]
           /\ \A b \in Actores \ {a} : Pide(b) => hilo[b] # hilo[a]
    /\ pc[STS] = "bloquear" /\ vuelve[STS] # "esperar" =>
           /\ hilo[STS] \notin con_mutex
           /\ \A t \in Hilos : hilo[STS] \notin unidos[t]

ManosCreadas == \A a \in Actores : Manos(a) => hilo[a] \in creados

InvT == TiposT /\ LugaresT /\ EjecucionT /\ ManosCreadas /\ EnBlockedT /\ UnaEspera /\ UnSoloLugar

-----------------------------------------------------------------------------
(* The actors are different, and there are no others. *)
LEMMA ActoresDistintos ==
    /\ LP \in Actores /\ STS \in Actores /\ DIO \in Actores /\ Volcadores \subseteq Actores
    /\ LP # STS /\ LP # DIO /\ STS # DIO /\ Ninguno \notin Hilos
    /\ LP \notin Volcadores /\ STS \notin Volcadores /\ DIO \notin Volcadores
    /\ \A a \in Actores : a \in {LP, STS, DIO} \cup Volcadores
BY TransicionesAssumption DEF Actores

USE ActoresDistintos
USE DEF listas, esperas, tids, locales, En, Ir, Tomar, Volver, Manos, Pide,
        Moviendo, Buscando, Sueltos, DePlanificador, PuntosT, Vuelve, EnCpuT, Liberando

(* At start-up every list is empty. *)
LEMMA InvInicialT == Init => InvT
BY DEF Init, InvT, TiposT, LugaresT, EjecucionT, ManosCreadas, EnBlockedT, UnaEspera,
   UnSoloLugar

(* A step that changes nothing. *)
LEMMA InvQuietoT == InvT /\ UNCHANGED vars => InvT'
BY DEF vars, InvT, TiposT, LugaresT, EjecucionT, ManosCreadas, EnBlockedT, UnaEspera,
   UnSoloLugar, EnMano

(* The long-term planner brings a new thread. *)
LEMMA InvLargo == ASSUME InvT, NEW h \in Hilos, NewAReady(h) PROVE InvT'
<1>1. TiposT' /\ LugaresT' /\ EjecucionT' /\ ManosCreadas'
  BY DEF InvT, NewAReady, TiposT, LugaresT, EjecucionT, ManosCreadas
<1>2. EnBlockedT' /\ UnaEspera'
  BY DEF InvT, NewAReady, EnBlockedT, UnaEspera
<1>3. UnSoloLugar'
  BY DEF InvT, NewAReady, TiposT, ManosCreadas, UnSoloLugar, EnMano
<1> QED BY <1>1, <1>2, <1>3 DEF InvT

(* The second half of a move, by whoever makes it. *)
LEMMA InvMover == ASSUME InvT, NEW a \in Actores, Mover(a) PROVE InvT'
<1>1. CASE Agregar(a)
  <2>1. TiposT' /\ LugaresT' /\ EjecucionT' /\ ManosCreadas'
    BY <1>1 DEF InvT, Agregar, TiposT, LugaresT, EjecucionT, ManosCreadas
  <2>2. EnBlockedT' /\ UnaEspera'
    BY <1>1 DEF InvT, Agregar, EnBlockedT, UnaEspera
  <2>3. UnSoloLugar'
    BY <1>1 DEF InvT, Agregar, TiposT, UnSoloLugar, EnMano
  <2> QED BY <2>1, <2>2, <2>3 DEF InvT
<1>2. CASE Avisar(a)
  BY <1>2 DEF InvT, Avisar, TiposT, LugaresT, EjecucionT, ManosCreadas, EnBlockedT,
     UnaEspera, UnSoloLugar, EnMano
<1>3. CASE Sacar(a)
  <2>1. TiposT' /\ LugaresT' /\ EjecucionT' /\ ManosCreadas'
    BY <1>3 DEF InvT, Sacar, TiposT, LugaresT, EjecucionT, ManosCreadas, EnBlockedT
  <2>2. EnBlockedT' /\ UnaEspera'
    BY <1>3 DEF InvT, Sacar, TiposT, EnBlockedT, UnaEspera
  <2>3. UnSoloLugar'
    BY <1>3 DEF InvT, Sacar, TiposT, EnBlockedT, UnSoloLugar, EnMano
  <2> QED BY <2>1, <2>2, <2>3 DEF InvT
<1>4. CASE BuscarEnReady(a)
  BY <1>4 DEF InvT, BuscarEnReady, TiposT, LugaresT, EjecucionT, ManosCreadas,
     EnBlockedT, UnaEspera, UnSoloLugar, EnMano
<1>5. CASE BuscarEnBlocked(a)
  BY <1>5 DEF InvT, BuscarEnBlocked, TiposT, LugaresT, EjecucionT, ManosCreadas,
     EnBlockedT, UnaEspera, UnSoloLugar, EnMano
<1> QED BY <1>1, <1>2, <1>3, <1>4, <1>5 DEF Mover

(* What the CPU asks of the planner. *)
LEMMA InvSyscall == ASSUME InvT, Syscall PROVE InvT'
<1>1. CASE ExecAReady
  <2>1. TiposT' /\ LugaresT' /\ EjecucionT' /\ ManosCreadas'
    BY <1>1 DEF InvT, ExecAReady, TiposT, LugaresT, EjecucionT, ManosCreadas
  <2>2. EnBlockedT' /\ UnaEspera'
    BY <1>1 DEF InvT, ExecAReady, EnBlockedT, UnaEspera
  <2>3. UnSoloLugar'
    BY <1>1 DEF InvT, ExecAReady, TiposT, EjecucionT, ManosCreadas, UnSoloLugar,
       EnMano
  <2> QED BY <2>1, <2>2, <2>3 DEF InvT
<1>2. CASE BloquearMutex
  <2>1. TiposT' /\ LugaresT' /\ EjecucionT' /\ ManosCreadas'
    BY <1>2 DEF InvT, BloquearMutex, ExecABlocked, TiposT, LugaresT, EjecucionT,
       ManosCreadas
  <2>2. EnBlockedT' /\ UnaEspera'
    BY <1>2 DEF InvT, BloquearMutex, ExecABlocked, TiposT, EnBlockedT, UnaEspera,
       UnSoloLugar
  <2>3. UnSoloLugar'
    BY <1>2 DEF InvT, BloquearMutex, ExecABlocked, TiposT, EjecucionT,
       ManosCreadas, UnSoloLugar, EnMano
  <2> QED BY <2>1, <2>2, <2>3 DEF InvT
<1>3. CASE IO
  <2>1. TiposT' /\ LugaresT' /\ EjecucionT' /\ ManosCreadas'
    BY <1>3 DEF InvT, IO, ExecABlocked, TiposT, LugaresT, EjecucionT, ManosCreadas
  <2>2. EnBlockedT' /\ UnaEspera'
    BY <1>3 DEF InvT, IO, ExecABlocked, TiposT, EnBlockedT, UnaEspera, UnSoloLugar
  <2>3. UnSoloLugar'
    BY <1>3 DEF InvT, IO, ExecABlocked, TiposT, EjecucionT, ManosCreadas,
       UnSoloLugar, EnMano
  <2> QED BY <2>1, <2>2, <2>3 DEF InvT
<1>4. CASE DumpMemory
  <2>1. TiposT' /\ LugaresT' /\ EjecucionT' /\ ManosCreadas'
    BY <1>4 DEF InvT, DumpMemory, ExecABlocked, TiposT, LugaresT, EjecucionT,
       ManosCreadas
  <2>2. EnBlockedT' /\ UnaEspera'
    BY <1>4 DEF InvT, DumpMemory, ExecABlocked, TiposT, EnBlockedT, UnaEspera,
       UnSoloLugar
  <2>3. UnSoloLugar'
    BY <1>4 DEF InvT, DumpMemory, ExecABlocked, TiposT, EjecucionT, ManosCreadas,
       UnSoloLugar, EnMano
  <2> QED BY <2>1, <2>2, <2>3 DEF InvT
<1>5. CASE FinalizarHilo
  BY <1>5 DEF InvT, FinalizarHilo, TiposT, LugaresT, EjecucionT, ManosCreadas,
     EnBlockedT, UnaEspera, UnSoloLugar, EnMano
<1>6. ASSUME NEW h \in Hilos, CrearHilo(h) PROVE InvT'
  <2>1. TiposT' /\ LugaresT' /\ EjecucionT' /\ ManosCreadas'
    BY <1>6 DEF InvT, CrearHilo, TiposT, LugaresT, EjecucionT, ManosCreadas
  <2>2. EnBlockedT' /\ UnaEspera'
    BY <1>6 DEF InvT, CrearHilo, EnBlockedT, UnaEspera
  <2>3. UnSoloLugar'
    BY <1>6 DEF InvT, CrearHilo, TiposT, ManosCreadas, UnSoloLugar, EnMano
  <2> QED BY <2>1, <2>2, <2>3 DEF InvT
<1>7. ASSUME NEW h \in Hilos, DesbloquearMutex(h) PROVE InvT'
  <2>1. TiposT' /\ LugaresT' /\ EjecucionT' /\ ManosCreadas'
    BY <1>7 DEF InvT, DesbloquearMutex, Despertar, TiposT, LugaresT, EjecucionT,
       ManosCreadas
  <2>2. EnBlockedT' /\ UnaEspera'
    BY <1>7 DEF InvT, DesbloquearMutex, Despertar, TiposT, EnBlockedT, UnaEspera
  <2>3. UnSoloLugar'
    BY <1>7 DEF InvT, DesbloquearMutex, Despertar, UnSoloLugar, EnMano
  <2> QED BY <2>1, <2>2, <2>3 DEF InvT
<1>8. ASSUME NEW h \in Hilos, EsperarHilo(h) PROVE InvT'
  BY <1>8 DEF InvT, EsperarHilo, TiposT, LugaresT, EjecucionT, ManosCreadas,
     EnBlockedT, UnaEspera, UnSoloLugar, EnMano
<1> QED BY <1>1, <1>2, <1>3, <1>4, <1>5, <1>6, <1>7, <1>8 DEF Syscall

(* The steps of the planner. *)
LEMMA InvCorto == ASSUME InvT, PlanificadorCorto PROVE InvT'
<1>1. CASE EsperarReady
  BY <1>1 DEF InvT, EsperarReady, TiposT, LugaresT, EjecucionT, ManosCreadas,
     EnBlockedT, UnaEspera, UnSoloLugar, EnMano
<1>2. CASE ReadyAExec
  <2>1. TiposT' /\ LugaresT' /\ EjecucionT' /\ ManosCreadas'
    BY <1>2 DEF InvT, ReadyAExec, TiposT, LugaresT, EjecucionT, ManosCreadas
  <2>2. EnBlockedT' /\ UnaEspera'
    BY <1>2 DEF InvT, ReadyAExec, TiposT, EnBlockedT, UnaEspera
  <2>3. UnSoloLugar'
    BY <1>2 DEF InvT, ReadyAExec, TiposT, EjecucionT, UnSoloLugar, EnMano
  <2> QED BY <2>1, <2>2, <2>3 DEF InvT
<1>3. CASE Bloquear
  <2>1. TiposT' /\ LugaresT' /\ EjecucionT' /\ ManosCreadas'
    BY <1>3 DEF InvT, Bloquear, TiposT, LugaresT, EjecucionT, ManosCreadas
  <2>2. EnBlockedT' /\ UnaEspera'
    BY <1>3 DEF InvT, Bloquear, TiposT, EnBlockedT, UnaEspera, UnSoloLugar
  <2>3. UnSoloLugar'
    BY <1>3 DEF InvT, Bloquear, TiposT, LugaresT, UnSoloLugar, EnMano
  <2> QED BY <2>1, <2>2, <2>3 DEF InvT
<1>4. CASE Encolar
  BY <1>4 DEF InvT, Encolar, TiposT, LugaresT, EjecucionT, ManosCreadas, EnBlockedT,
     UnaEspera, UnSoloLugar, EnMano
<1>5. CASE AvisarIO
  BY <1>5 DEF InvT, AvisarIO, TiposT, LugaresT, EjecucionT, ManosCreadas, EnBlockedT,
     UnaEspera, UnSoloLugar, EnMano
<1>6. CASE LiberarMutex
  <2>1. TiposT' /\ LugaresT' /\ EjecucionT' /\ ManosCreadas'
    BY <1>6 DEF InvT, LiberarMutex, Despertar, TiposT, LugaresT, EjecucionT,
       ManosCreadas, EnBlockedT
  <2>2. EnBlockedT' /\ UnaEspera'
    BY <1>6 DEF InvT, LiberarMutex, Despertar, TiposT, EnBlockedT, UnaEspera
  <2>3. UnSoloLugar'
    BY <1>6 DEF InvT, LiberarMutex, Despertar, TiposT, UnSoloLugar, EnMano
  <2> QED BY <2>1, <2>2, <2>3 DEF InvT
<1>7. CASE DestruirHilo
  BY <1>7 DEF InvT, DestruirHilo, TiposT, LugaresT, EjecucionT, ManosCreadas,
     EnBlockedT, UnaEspera, UnSoloLugar, EnMano
<1>8. CASE BuscarEnExec
  BY <1>8 DEF InvT, BuscarEnExec, TiposT, LugaresT, EjecucionT, ManosCreadas,
     EnBlockedT, UnaEspera, UnSoloLugar, EnMano
<1>9. CASE Unir
  <2>1. TiposT' /\ LugaresT' /\ EjecucionT' /\ ManosCreadas'
      <3>1. exec \in creados /\ hilo[STS] \in Hilos \cup {Ninguno}
        BY <1>9 DEF InvT, Unir, TiposT, EjecucionT
      <3>2. unidos' \in [Hilos -> SUBSET Hilos]
        <4>1. exec \in Hilos /\ unidos \in [Hilos -> SUBSET Hilos]
          BY <3>1 DEF InvT, TiposT
        <4>2. unidos' = [unidos EXCEPT ![hilo[STS]] = unidos[hilo[STS]] \cup {exec}]
          BY <1>9 DEF Unir
        <4> QED BY <4>1, <4>2
      <3>3. TiposT'
        BY <1>9, <3>1, <3>2 DEF InvT, Unir, ExecABlocked, TiposT
      <3> QED BY <1>9, <3>1, <3>3 DEF InvT, Unir, ExecABlocked, TiposT, LugaresT, EjecucionT,
                                   ManosCreadas
  <2>2. EnBlockedT' /\ UnaEspera'
    BY <1>9 DEF InvT, Unir, ExecABlocked, TiposT, EnBlockedT, UnaEspera,
       UnSoloLugar
  <2>3. UnSoloLugar'
    BY <1>9 DEF InvT, Unir, ExecABlocked, TiposT, EjecucionT, ManosCreadas,
       UnSoloLugar, EnMano
  <2> QED BY <2>1, <2>2, <2>3 DEF InvT
<1>10. CASE SeguirSinUnir
  BY <1>10 DEF InvT, SeguirSinUnir, TiposT, LugaresT, EjecucionT, ManosCreadas,
     EnBlockedT, UnaEspera, UnSoloLugar, EnMano
<1>11. ASSUME NEW h \in Hilos, LiberarUnido(h) PROVE InvT'
  <2>1. TiposT' /\ LugaresT' /\ EjecucionT' /\ ManosCreadas'
    BY <1>11 DEF InvT, LiberarUnido, Despertar, TiposT, LugaresT, EjecucionT,
       ManosCreadas
  <2>2. EnBlockedT' /\ UnaEspera'
    BY <1>11 DEF InvT, LiberarUnido, Despertar, TiposT, EjecucionT, EnBlockedT,
       UnaEspera
  <2>3. UnSoloLugar'
    BY <1>11 DEF InvT, LiberarUnido, Despertar, UnSoloLugar, EnMano
  <2> QED BY <2>1, <2>2, <2>3 DEF InvT
<1>12. ASSUME NEW v \in Volcadores, LanzarDump(v) PROVE InvT'
  <2>1. TiposT' /\ LugaresT' /\ EjecucionT' /\ ManosCreadas'
    BY <1>12 DEF InvT, LanzarDump, TiposT, LugaresT, EjecucionT, ManosCreadas
  <2>2. EnBlockedT' /\ UnaEspera'
    BY <1>12 DEF InvT, LanzarDump, TiposT, EnBlockedT, UnaEspera
  <2>3. UnSoloLugar'
    BY <1>12 DEF InvT, LanzarDump, TiposT, UnSoloLugar, EnMano
  <2> QED BY <2>1, <2>2, <2>3 DEF InvT
<1> QED BY <1>1, <1>2, <1>3, <1>4, <1>5, <1>6, <1>7, <1>8, <1>9, <1>10, <1>11, <1>12
       DEF PlanificadorCorto

(* The device. *)
LEMMA InvDispositivo == ASSUME InvT, Dispositivo PROVE InvT'
<1>1. CASE EsperarIO
  BY <1>1 DEF InvT, EsperarIO, TiposT, LugaresT, EjecucionT, ManosCreadas,
     EnBlockedT, UnaEspera, UnSoloLugar, EnMano
<1>2. CASE Desencolar
  <2>1. TiposT' /\ LugaresT' /\ EjecucionT' /\ ManosCreadas'
    BY <1>2 DEF InvT, Desencolar, TiposT, LugaresT, EjecucionT, ManosCreadas,
       EnBlockedT
  <2>2. EnBlockedT' /\ UnaEspera'
    BY <1>2 DEF InvT, Desencolar, TiposT, EnBlockedT, UnaEspera
  <2>3. UnSoloLugar'
    BY <1>2 DEF InvT, Desencolar, TiposT, UnSoloLugar, EnMano
  <2> QED BY <2>1, <2>2, <2>3 DEF InvT
<1> QED BY <1>1, <1>2 DEF Dispositivo

(* The answer to a dump. *)
LEMMA InvDump == ASSUME InvT, NEW v \in Volcadores, DumpConfirmado(v) PROVE InvT'
  BY DEF InvT, DumpConfirmado, TiposT, LugaresT, EjecucionT, ManosCreadas,
     EnBlockedT, UnaEspera, UnSoloLugar, EnMano

(* The invariant is inductive. *)
LEMMA InvPasoT == InvT /\ [Next]_vars => InvT'
<1> SUFFICES ASSUME InvT, [Next]_vars PROVE InvT'
  OBVIOUS
<1>1. CASE PlanificadorLargo
  BY <1>1, InvLargo DEF PlanificadorLargo
<1>2. CASE Syscall
  BY <1>2, InvSyscall
<1>3. CASE PlanificadorCorto
  BY <1>3, InvCorto
<1>4. CASE Dispositivo
  BY <1>4, InvDispositivo
<1>5. CASE \E v \in Volcadores : DumpConfirmado(v)
  BY <1>5, InvDump
<1>6. CASE \E a \in Actores : Mover(a)
  BY <1>6, InvMover
<1>7. CASE UNCHANGED vars
  BY <1>7, InvQuietoT
<1> QED BY <1>1, <1>2, <1>3, <1>4, <1>5, <1>6, <1>7 DEF Next

(* The invariant holds at every step of every move. *)
LEMMA InvarianteT == Spec => []InvT
BY InvInicialT, InvPasoT, PTL DEF Spec

(* Whatever the threads and the dumps, a thread that has not ended is in   *)
(* one list, in EXEC or in the hands of one POSIX thread, and in one only: *)
(* the moves in two critical sections lose no thread and duplicate none.   *)
THEOREM UnLugarPorHilo == Spec => []UnSoloLugar
<1>1. InvT => UnSoloLugar
  BY DEF InvT
<1> QED BY <1>1, InvarianteT, PTL

-----------------------------------------------------------------------------
(* The refinement: the steps that change the state of no thread, and the   *)
(* ones that move a thread as module Estados says.                         *)

Quieto == \A h \in Hilos : EstadoDe(h)' = EstadoDe(h)

Mueve(x, desde, hasta) ==
    /\ x \in Hilos /\ EstadoDe(x) = desde /\ EstadoDe(x)' = hasta
    /\ \A h \in Hilos \ {x} : EstadoDe(h)' = EstadoDe(h)

PasoDeEstadosT ==
    \/ Quieto
    \/ \E x : \/ Mueve(x, "NINGUNO", "READY")
              \/ E!Nadie /\ Mueve(x, "READY", "EXEC")
              \/ Mueve(x, "EXEC", "READY") \/ Mueve(x, "EXEC", "BLOCKED")
              \/ Mueve(x, "BLOCKED", "READY") \/ Mueve(x, "EXEC", "EXIT")

(* A change of state of one thread is a move of the diagram. *)
LEMMA MueveEsMover ==
    ASSUME NEW x, NEW desde, NEW hasta, Mueve(x, desde, hasta)
    PROVE  x \in Hilos /\ E!Mover(x, desde, hasta)
BY DEF Mueve, E!Mover

(* A step that is a move of the diagram, or leaves every state as it       *)
(* was.                                                                    *)
LEMMA PasoDeEstadosEsNextT == PasoDeEstadosT => [E!Next]_[h \in Hilos |-> EstadoDe(h)]
<1> SUFFICES ASSUME PasoDeEstadosT PROVE [E!Next]_[h \in Hilos |-> EstadoDe(h)]
  OBVIOUS
<1>1. CASE Quieto
  BY <1>1 DEF Quieto
<1>2. ASSUME NEW x, Mueve(x, "NINGUNO", "READY") PROVE E!Next
  BY <1>2, MueveEsMover DEF E!Next, E!Crear
<1>3. ASSUME NEW x, E!Nadie, Mueve(x, "READY", "EXEC") PROVE E!Next
  BY <1>3, MueveEsMover DEF E!Next, E!Despachar
<1>4. ASSUME NEW x, Mueve(x, "EXEC", "READY") PROVE E!Next
  BY <1>4, MueveEsMover DEF E!Next, E!Desalojar
<1>5. ASSUME NEW x, Mueve(x, "EXEC", "BLOCKED") PROVE E!Next
  BY <1>5, MueveEsMover DEF E!Next, E!Bloquear
<1>6. ASSUME NEW x, Mueve(x, "BLOCKED", "READY") PROVE E!Next
  BY <1>6, MueveEsMover DEF E!Next, E!Despertar
<1>7. ASSUME NEW x, Mueve(x, "EXEC", "EXIT") PROVE E!Next
  BY <1>7, MueveEsMover DEF E!Next, E!Terminar
<1> QED BY <1>1, <1>2, <1>3, <1>4, <1>5, <1>6, <1>7 DEF PasoDeEstadosT

USE DEF Quieto, Mueve, PasoDeEstadosT

(* A new thread is READY. *)
LEMMA EstadosLargo == ASSUME InvT, NEW h \in Hilos, NewAReady(h) PROVE PasoDeEstadosT
  BY DEF InvT, TiposT, ManosCreadas, EstadoDe, NewAReady

(* The second half of a move. *)
LEMMA EstadosMoverT == ASSUME InvT, NEW a \in Actores, Mover(a) PROVE PasoDeEstadosT
<1>1. CASE Agregar(a)
  BY <1>1 DEF InvT, EstadoDe, Agregar
<1>2. CASE Avisar(a)
  BY <1>2 DEF InvT, EstadoDe, Avisar
<1>3. CASE Sacar(a)
  BY <1>3 DEF InvT, EstadoDe, Sacar
<1>4. CASE BuscarEnReady(a)
  BY <1>4 DEF InvT, EstadoDe, BuscarEnReady
<1>5. CASE BuscarEnBlocked(a)
  BY <1>5 DEF InvT, EstadoDe, BuscarEnBlocked
<1> QED BY <1>1, <1>2, <1>3, <1>4, <1>5 DEF Mover

(* What the CPU asks of the planner. *)
LEMMA EstadosSyscallT == ASSUME InvT, Syscall PROVE PasoDeEstadosT
<1>1. CASE ExecAReady
  BY <1>1 DEF InvT, EstadoDe, ExecAReady
<1>2. CASE BloquearMutex
  BY <1>2 DEF InvT, EstadoDe, BloquearMutex, ExecABlocked
<1>3. CASE IO
  BY <1>3 DEF InvT, EstadoDe, IO, ExecABlocked
<1>4. CASE DumpMemory
  BY <1>4 DEF InvT, EstadoDe, DumpMemory, ExecABlocked
<1>5. CASE FinalizarHilo
  BY <1>5 DEF InvT, EstadoDe, FinalizarHilo
<1>6. ASSUME NEW h \in Hilos, CrearHilo(h) PROVE PasoDeEstadosT
  BY <1>6 DEF InvT, TiposT, EstadoDe, CrearHilo
<1>7. ASSUME NEW h \in Hilos, DesbloquearMutex(h) PROVE PasoDeEstadosT
  BY <1>7 DEF InvT, EstadoDe, DesbloquearMutex, Despertar
<1>8. ASSUME NEW h \in Hilos, EsperarHilo(h) PROVE PasoDeEstadosT
  BY <1>8 DEF InvT, EstadoDe, EsperarHilo
<1> QED BY <1>1, <1>2, <1>3, <1>4, <1>5, <1>6, <1>7, <1>8 DEF Syscall

(* The steps of the planner. *)
LEMMA EstadosCorto == ASSUME InvT, PlanificadorCorto PROVE PasoDeEstadosT
<1>1. CASE EsperarReady
  BY <1>1 DEF InvT, EstadoDe, EsperarReady
<1>2. CASE ReadyAExec
  <2>1. CASE ready = {}
    BY <1>2, <2>1 DEF InvT, EstadoDe, ReadyAExec
  <2>2. CASE ready # {}
    <3>1. PICK x \in ready : exec' = x /\ ready' = ready \ {x}
      BY <1>2, <2>2 DEF ReadyAExec
    <3>2. Quieto \/ (E!Nadie /\ Mueve(x, "READY", "EXEC"))
      BY <1>2, <2>2, <3>1 DEF InvT, EstadoDe, ReadyAExec, E!Nadie
    <3> QED BY <3>2
  <2> QED BY <2>1, <2>2
<1>3. CASE Bloquear
  BY <1>3 DEF InvT, EstadoDe, Bloquear
<1>4. CASE Encolar
  BY <1>4 DEF InvT, EstadoDe, Encolar
<1>5. CASE AvisarIO
  BY <1>5 DEF InvT, EstadoDe, AvisarIO
<1>6. CASE LiberarMutex
  BY <1>6 DEF InvT, TiposT, EstadoDe, LiberarMutex, Despertar
<1>7. CASE DestruirHilo
  BY <1>7 DEF InvT, EstadoDe, DestruirHilo
<1>8. CASE BuscarEnExec
  BY <1>8 DEF InvT, EstadoDe, BuscarEnExec
<1>9. CASE Unir
  BY <1>9 DEF InvT, EstadoDe, Unir, ExecABlocked
<1>10. CASE SeguirSinUnir
  BY <1>10 DEF InvT, EstadoDe, SeguirSinUnir
<1>11. ASSUME NEW h \in Hilos, LiberarUnido(h) PROVE PasoDeEstadosT
  BY <1>11 DEF InvT, EstadoDe, LiberarUnido, Despertar
<1>12. ASSUME NEW v \in Volcadores, LanzarDump(v) PROVE PasoDeEstadosT
  BY <1>12 DEF InvT, EstadoDe, LanzarDump
<1> QED BY <1>1, <1>2, <1>3, <1>4, <1>5, <1>6, <1>7, <1>8, <1>9, <1>10, <1>11, <1>12
       DEF PlanificadorCorto

(* The device changes no state. *)
LEMMA EstadosDispositivoT == ASSUME InvT, Dispositivo PROVE PasoDeEstadosT
<1>1. CASE EsperarIO
  BY <1>1 DEF InvT, EstadoDe, EsperarIO
<1>2. CASE Desencolar
  BY <1>2 DEF InvT, EstadoDe, Desencolar
<1> QED BY <1>1, <1>2 DEF Dispositivo

(* Nor does the answer to a dump. *)
LEMMA EstadosDump == ASSUME InvT, NEW v \in Volcadores, DumpConfirmado(v) PROVE PasoDeEstadosT
  BY DEF InvT, EstadoDe, DumpConfirmado

(* Every step is a move of the diagram or a stutter. *)
LEMMA EstadosPasoT == InvT /\ [Next]_vars => PasoDeEstadosT
<1> SUFFICES ASSUME InvT, [Next]_vars PROVE PasoDeEstadosT
  OBVIOUS
<1>1. CASE PlanificadorLargo
  BY <1>1, EstadosLargo DEF PlanificadorLargo
<1>2. CASE Syscall
  BY <1>2, EstadosSyscallT
<1>3. CASE PlanificadorCorto
  BY <1>3, EstadosCorto
<1>4. CASE Dispositivo
  BY <1>4, EstadosDispositivoT
<1>5. CASE \E v \in Volcadores : DumpConfirmado(v)
  BY <1>5, EstadosDump
<1>6. CASE \E a \in Actores : Mover(a)
  BY <1>6, EstadosMoverT
<1>7. CASE UNCHANGED vars
  BY <1>7 DEF vars, EstadoDe
<1> QED BY <1>1, <1>2, <1>3, <1>4, <1>5, <1>6, <1>7 DEF Next

(* The moves of the kernel, in two critical sections each, implement the   *)
(* diagram of states of a thread: it is created READY, executes when       *)
(* nobody else does, and comes back from BLOCKED only to READY.            *)
THEOREM TransicionesImplementaEstados == Spec => ImplementaEstados
<1>1. Init => E!Init
  BY DEF Init, E!Init, EstadoDe
<1>2. InvT /\ [Next]_vars => [E!Next]_[h \in Hilos |-> EstadoDe(h)]
  BY EstadosPasoT, PasoDeEstadosEsNextT
<1> QED BY <1>1, <1>2, InvarianteT, PTL DEF Spec, ImplementaEstados, E!Spec

-----------------------------------------------------------------------------
(* The semaphores: each counts the elements of its list, but for the ones  *)
(* added and not announced yet and the token that its consumer has.        *)

Avisando == {a \in Actores : pc[a] = "avisar"}
Ficha == IF pc[STS] = "elegir" THEN 1 ELSE 0
FichasIO == (IF pc[STS] = "avisar_io" THEN 1 ELSE 0) + (IF pc[DIO] = "desencolar" THEN 1 ELSE 0)

CuentasT ==
    /\ semaforo \in Nat /\ semaforo_io \in Nat
    /\ Cardinality(ready) = semaforo + Cardinality(Avisando) + Ficha
    /\ Cardinality(cola_io) = semaforo_io + FichasIO

InvCuentasT == InvT /\ CuentasT /\ SinCaida

(* What a step that touches no semaphore must be shown to keep. *)
IgualReadyT == ready' = ready /\ semaforo' = semaforo /\ Avisando' = Avisando /\ Ficha' = Ficha
IgualIO == cola_io' = cola_io /\ semaforo_io' = semaforo_io /\ FichasIO' = FichasIO
IgualCuentasT == IgualReadyT /\ IgualIO /\ caida' = caida

(* What the semaphores count is finite. *)
LEMMA ConjuntosFinitosT ==
    InvT => IsFiniteSet(ready) /\ IsFiniteSet(cola_io) /\ IsFiniteSet(Avisando)
<1> SUFFICES ASSUME InvT PROVE IsFiniteSet(ready) /\ IsFiniteSet(cola_io) /\ IsFiniteSet(Avisando)
  OBVIOUS
<1>1. IsFiniteSet(ready) /\ IsFiniteSet(cola_io)
  <2>1. ready \subseteq Hilos /\ cola_io \subseteq Hilos
    BY DEF InvT, TiposT, EnBlockedT
  <2> QED BY <2>1, TransicionesAssumption, FS_Subset
<1>2. IsFiniteSet(Avisando)
  <2>1. IsFiniteSet({LP, STS, DIO})
    <3>1. IsFiniteSet({LP} \cup {STS})
      BY FS_Singleton, FS_AddElement
    <3>2. IsFiniteSet(({LP} \cup {STS}) \cup {DIO})
      BY <3>1, FS_AddElement
    <3>3. ({LP} \cup {STS}) \cup {DIO} = {LP, STS, DIO}
      OBVIOUS
    <3> QED BY <3>2, <3>3
  <2>2. IsFiniteSet(Actores)
    BY <2>1, TransicionesAssumption, FS_Union DEF Actores
  <2> QED BY <2>2, FS_Subset DEF Avisando
<1> QED BY <1>1, <1>2

(* A step that touches no semaphore and no list that one counts. *)
LEMMA CuentasIgualesT == InvCuentasT /\ IgualCuentasT => CuentasT' /\ SinCaida'
BY DEF InvCuentasT, IgualCuentasT, IgualReadyT, IgualIO, CuentasT, SinCaida

(* The steps that touch a semaphore or a list that one counts. *)
LEMMA CuentasAgregarT ==
    ASSUME InvCuentasT, NEW a \in Actores, Agregar(a)
    PROVE  CuentasT' /\ SinCaida'
<1>1. hilo[a] \notin ready /\ a \notin Avisando /\ ready' = ready \cup {hilo[a]}
  BY DEF InvCuentasT, InvT, UnSoloLugar, Agregar, Avisando
<1>2. /\ Avisando' = Avisando \cup {a} /\ Ficha' = Ficha /\ IgualIO
      /\ semaforo' = semaforo /\ caida' = caida
  BY DEF InvCuentasT, InvT, TiposT, Agregar, Avisando, Ficha, IgualIO, FichasIO
<1>3. /\ Cardinality(ready') = Cardinality(ready) + 1
      /\ Cardinality(Avisando') = Cardinality(Avisando) + 1
      /\ Cardinality(Avisando) \in Nat
  BY <1>1, <1>2, ConjuntosFinitosT, FS_AddElement, FS_CardinalityType DEF InvCuentasT
<1> QED BY <1>2, <1>3 DEF InvCuentasT, CuentasT, SinCaida, IgualIO, Ficha

(* The post that was due. *)
LEMMA CuentasAvisarT ==
    ASSUME InvCuentasT, NEW a \in Actores, Avisar(a)
    PROVE  CuentasT' /\ SinCaida'
<1>1. a \in Avisando /\ Avisando' = Avisando \ {a}
  BY DEF InvCuentasT, InvT, TiposT, LugaresT, Avisar, Avisando
<1>2. Ficha' = Ficha /\ IgualIO /\ ready' = ready /\ semaforo' = semaforo + 1 /\ caida' = caida
  BY DEF InvCuentasT, InvT, LugaresT, Avisar, Ficha, IgualIO, FichasIO
<1>3. Cardinality(Avisando') = Cardinality(Avisando) - 1 /\ Cardinality(Avisando) \in Nat
  BY <1>1, ConjuntosFinitosT, FS_RemoveElement, FS_CardinalityType DEF InvCuentasT
<1> QED BY <1>2, <1>3 DEF InvCuentasT, CuentasT, SinCaida, IgualIO, Ficha

(* The planner takes a token. *)
LEMMA CuentasEsperarT == ASSUME InvCuentasT, EsperarReady PROVE CuentasT' /\ SinCaida'
<1>1. /\ Avisando' = Avisando /\ Ficha = 0 /\ Ficha' = 1 /\ semaforo' = semaforo - 1
      /\ semaforo > 0 /\ ready' = ready /\ IgualIO /\ caida' = caida
  BY DEF InvCuentasT, InvT, TiposT, EsperarReady, Avisando, Ficha, IgualIO,
     FichasIO
<1>2. Cardinality(Avisando) \in Nat
  BY ConjuntosFinitosT, FS_CardinalityType DEF InvCuentasT
<1> QED BY <1>1, <1>2 DEF InvCuentasT, CuentasT, SinCaida, IgualIO

(* The planner that has the token finds a thread. *)
LEMMA CuentasElegirT == ASSUME InvCuentasT, ReadyAExec PROVE CuentasT' /\ SinCaida'
<1>1. Cardinality(Avisando) \in Nat
  BY ConjuntosFinitosT, FS_CardinalityType DEF InvCuentasT
<1>2. Ficha = 1 /\ Cardinality(ready) # 0
  BY <1>1 DEF InvCuentasT, CuentasT, ReadyAExec, Ficha
<1>3. ready # {}
  BY <1>2, FS_EmptySet
<1>4. PICK h \in ready : ready' = ready \ {h}
  BY <1>3 DEF ReadyAExec
<1>5. /\ Avisando' = Avisando /\ Ficha' = 0 /\ semaforo' = semaforo /\ IgualIO /\ caida' = caida
  BY <1>3 DEF InvCuentasT, InvT, TiposT, ReadyAExec, Avisando, Ficha, IgualIO,
     FichasIO
<1>6. Cardinality(ready') = Cardinality(ready) - 1
  BY <1>4, ConjuntosFinitosT, FS_RemoveElement DEF InvCuentasT
<1> QED BY <1>1, <1>2, <1>5, <1>6 DEF InvCuentasT, CuentasT, SinCaida, IgualIO

(* A request is queued before it is announced. *)
LEMMA CuentasEncolarT == ASSUME InvCuentasT, Encolar PROVE CuentasT' /\ SinCaida'
<1>1. hilo[STS] \notin cola_io /\ cola_io' = cola_io \cup {hilo[STS]}
  BY DEF InvCuentasT, InvT, UnaEspera, Encolar
<1>2. IgualReadyT /\ FichasIO' = FichasIO + 1 /\ semaforo_io' = semaforo_io /\ caida' = caida
  BY DEF InvCuentasT, InvT, TiposT, Encolar, IgualReadyT, Avisando, Ficha, FichasIO
<1>3. Cardinality(cola_io') = Cardinality(cola_io) + 1
  BY <1>1, ConjuntosFinitosT, FS_AddElement DEF InvCuentasT
<1> QED BY <1>2, <1>3 DEF InvCuentasT, CuentasT, SinCaida, IgualReadyT, FichasIO

(* The announcement of a request. *)
LEMMA CuentasAvisarIOT == ASSUME InvCuentasT, AvisarIO PROVE CuentasT' /\ SinCaida'
<1>1. /\ IgualReadyT /\ FichasIO' = FichasIO - 1 /\ semaforo_io' = semaforo_io + 1
      /\ cola_io' = cola_io /\ caida' = caida
  BY DEF InvCuentasT, InvT, TiposT, AvisarIO, IgualReadyT, Avisando, Ficha, FichasIO
<1> QED BY <1>1 DEF InvCuentasT, CuentasT, SinCaida, IgualReadyT, FichasIO

(* The device takes a token. *)
LEMMA CuentasEsperarIOT == ASSUME InvCuentasT, EsperarIO PROVE CuentasT' /\ SinCaida'
<1>1. /\ IgualReadyT /\ FichasIO' = FichasIO + 1 /\ semaforo_io' = semaforo_io - 1
      /\ semaforo_io > 0 /\ cola_io' = cola_io /\ caida' = caida
  BY DEF InvCuentasT, InvT, TiposT, EsperarIO, IgualReadyT, Avisando, Ficha,
     FichasIO
<1> QED BY <1>1 DEF InvCuentasT, CuentasT, SinCaida, IgualReadyT, FichasIO

(* The device that has the token finds a request. *)
LEMMA CuentasDesencolarT == ASSUME InvCuentasT, Desencolar PROVE CuentasT' /\ SinCaida'
<1>1. FichasIO \in Nat /\ FichasIO # 0
  BY DEF Desencolar, FichasIO
<1>2. Cardinality(cola_io) # 0
  BY <1>1 DEF InvCuentasT, CuentasT
<1>3. cola_io # {}
  BY <1>2, FS_EmptySet
<1>4. PICK h \in cola_io : cola_io' = cola_io \ {h}
  BY <1>3 DEF Desencolar
<1>5. IgualReadyT /\ FichasIO' = FichasIO - 1 /\ semaforo_io' = semaforo_io /\ caida' = caida
  BY <1>3 DEF InvCuentasT, InvT, TiposT, Desencolar, IgualReadyT, Avisando, Ficha,
     FichasIO
<1>6. Cardinality(cola_io') = Cardinality(cola_io) - 1
  BY <1>4, ConjuntosFinitosT, FS_RemoveElement DEF InvCuentasT
<1> QED BY <1>5, <1>6 DEF InvCuentasT, CuentasT, SinCaida, IgualReadyT, FichasIO

(* The long-term planner posts after it adds. *)
LEMMA CuentasLargo == ASSUME InvCuentasT, NEW h \in Hilos, NewAReady(h) PROVE CuentasT' /\ SinCaida'
<1>1. IgualCuentasT
  BY DEF InvCuentasT, InvT, NewAReady, IgualCuentasT, IgualReadyT, IgualIO,
     Avisando, Ficha, FichasIO
<1> QED BY <1>1, CuentasIgualesT

(* Each half of a move. *)
LEMMA CuentasMoverT == ASSUME InvCuentasT, NEW a \in Actores, Mover(a) PROVE CuentasT' /\ SinCaida'
<1>1. CASE Agregar(a)
  BY <1>1, CuentasAgregarT
<1>2. CASE Avisar(a)
  BY <1>2, CuentasAvisarT
<1>3. Sacar(a) => IgualCuentasT
  BY DEF InvCuentasT, InvT, Sacar, IgualCuentasT, IgualReadyT, IgualIO, Avisando,
     Ficha, FichasIO
<1>4. BuscarEnReady(a) => IgualCuentasT
  BY DEF InvCuentasT, InvT, LugaresT, BuscarEnReady, IgualCuentasT, IgualReadyT,
     IgualIO, Avisando, Ficha, FichasIO
<1>5. BuscarEnBlocked(a) => IgualCuentasT
  BY DEF InvCuentasT, InvT, LugaresT, BuscarEnBlocked, IgualCuentasT, IgualReadyT,
     IgualIO, Avisando, Ficha, FichasIO
<1> QED
  BY <1>1, <1>2, <1>3, <1>4, <1>5, CuentasIgualesT DEF Mover

(* What the CPU asks touches no semaphore at once. *)
LEMMA CuentasSyscallT == ASSUME InvCuentasT, Syscall PROVE CuentasT' /\ SinCaida'
<1>1. ExecAReady => IgualCuentasT
  BY DEF InvCuentasT, InvT, ExecAReady, IgualCuentasT, IgualReadyT, IgualIO,
     Avisando, Ficha, FichasIO
<1>2. BloquearMutex => IgualCuentasT
  BY DEF InvCuentasT, InvT, BloquearMutex, ExecABlocked, IgualCuentasT, IgualReadyT,
     IgualIO, Avisando, Ficha, FichasIO
<1>3. IO => IgualCuentasT
  BY DEF InvCuentasT, InvT, IO, ExecABlocked, IgualCuentasT, IgualReadyT, IgualIO,
     Avisando, Ficha, FichasIO
<1>4. DumpMemory => IgualCuentasT
  BY DEF InvCuentasT, InvT, DumpMemory, ExecABlocked, IgualCuentasT, IgualReadyT,
     IgualIO, Avisando, Ficha, FichasIO
<1>5. FinalizarHilo => IgualCuentasT
  BY DEF InvCuentasT, InvT, FinalizarHilo, IgualCuentasT, IgualReadyT, IgualIO,
     Avisando, Ficha, FichasIO
<1>6. ASSUME NEW h \in Hilos, CrearHilo(h) PROVE IgualCuentasT
  BY <1>6 DEF InvCuentasT, InvT, CrearHilo, IgualCuentasT, IgualReadyT, IgualIO,
     Avisando, Ficha, FichasIO
<1>7. ASSUME NEW h \in Hilos, DesbloquearMutex(h) PROVE IgualCuentasT
  BY <1>7 DEF InvCuentasT, InvT, DesbloquearMutex, Despertar, IgualCuentasT,
     IgualReadyT, IgualIO, Avisando, Ficha, FichasIO
<1>8. ASSUME NEW h \in Hilos, EsperarHilo(h) PROVE IgualCuentasT
  BY <1>8 DEF InvCuentasT, InvT, EsperarHilo, IgualCuentasT, IgualReadyT, IgualIO,
     Avisando, Ficha, FichasIO
<1> QED
  BY <1>1, <1>2, <1>3, <1>4, <1>5, <1>6, <1>7, <1>8, CuentasIgualesT DEF
     Syscall

(* The steps of the planner. *)
LEMMA CuentasCorto == ASSUME InvCuentasT, PlanificadorCorto PROVE CuentasT' /\ SinCaida'
<1>1. CASE EsperarReady
  BY <1>1, CuentasEsperarT
<1>2. CASE ReadyAExec
  BY <1>2, CuentasElegirT
<1>3. Bloquear => IgualCuentasT
  BY DEF InvCuentasT, InvT, LugaresT, Bloquear, IgualCuentasT, IgualReadyT, IgualIO,
     Avisando, Ficha, FichasIO
<1>4. CASE Encolar
  BY <1>4, CuentasEncolarT
<1>5. CASE AvisarIO
  BY <1>5, CuentasAvisarIOT
<1>6. LiberarMutex => IgualCuentasT
  BY DEF InvCuentasT, InvT, TiposT, LiberarMutex, Despertar, IgualCuentasT,
     IgualReadyT, IgualIO, Avisando, Ficha, FichasIO
<1>7. DestruirHilo => IgualCuentasT
  BY DEF InvCuentasT, InvT, DestruirHilo, IgualCuentasT, IgualReadyT, IgualIO,
     Avisando, Ficha, FichasIO
<1>8. BuscarEnExec => IgualCuentasT
  BY DEF InvCuentasT, InvT, TiposT, BuscarEnExec, IgualCuentasT, IgualReadyT,
     IgualIO, Avisando, Ficha, FichasIO
<1>9. Unir => IgualCuentasT
  BY DEF InvCuentasT, InvT, Unir, ExecABlocked, IgualCuentasT, IgualReadyT, IgualIO,
     Avisando, Ficha, FichasIO
<1>10. SeguirSinUnir => IgualCuentasT
  BY DEF InvCuentasT, InvT, SeguirSinUnir, IgualCuentasT, IgualReadyT, IgualIO,
     Avisando, Ficha, FichasIO
<1>11. ASSUME NEW h \in Hilos, LiberarUnido(h) PROVE IgualCuentasT
  BY <1>11 DEF InvCuentasT, InvT, LiberarUnido, Despertar, IgualCuentasT,
     IgualReadyT, IgualIO, Avisando, Ficha, FichasIO
<1>12. ASSUME NEW v \in Volcadores, LanzarDump(v) PROVE IgualCuentasT
  BY <1>12 DEF InvCuentasT, InvT, TiposT, LanzarDump, IgualCuentasT, IgualReadyT,
     IgualIO, Avisando, Ficha, FichasIO
<1> QED
  BY <1>1, <1>2, <1>3, <1>4, <1>5, <1>6, <1>7, <1>8, <1>9, <1>10, <1>11,
     <1>12, CuentasIgualesT DEF PlanificadorCorto

(* The steps of the device. *)
LEMMA CuentasDispositivoT == ASSUME InvCuentasT, Dispositivo PROVE CuentasT' /\ SinCaida'
<1>1. CASE EsperarIO
  BY <1>1, CuentasEsperarIOT
<1>2. CASE Desencolar
  BY <1>2, CuentasDesencolarT
<1> QED
  BY <1>1, <1>2, CuentasIgualesT DEF Dispositivo

(* The answer to a dump touches no semaphore. *)
LEMMA CuentasDump ==
    ASSUME InvCuentasT, NEW v \in Volcadores, DumpConfirmado(v)
    PROVE  CuentasT' /\ SinCaida'
<1>1. IgualCuentasT
  BY DEF InvCuentasT, InvT, DumpConfirmado, IgualCuentasT, IgualReadyT, IgualIO,
     Avisando, Ficha, FichasIO
<1> QED BY <1>1, CuentasIgualesT

(* The accounts of both semaphores are inductive. *)
LEMMA CuentasPasoT == InvCuentasT /\ [Next]_vars => InvCuentasT'
<1> SUFFICES ASSUME InvCuentasT, [Next]_vars PROVE CuentasT' /\ SinCaida'
  BY InvPasoT DEF InvCuentasT
<1>1. CASE PlanificadorLargo
  BY <1>1, CuentasLargo DEF PlanificadorLargo
<1>2. CASE Syscall
  BY <1>2, CuentasSyscallT
<1>3. CASE PlanificadorCorto
  BY <1>3, CuentasCorto
<1>4. CASE Dispositivo
  BY <1>4, CuentasDispositivoT
<1>5. CASE \E v \in Volcadores : DumpConfirmado(v)
  BY <1>5, CuentasDump
<1>6. CASE \E a \in Actores : Mover(a)
  BY <1>6, CuentasMoverT
<1>7. CASE UNCHANGED vars
  <2>1. IgualCuentasT
    BY <1>7 DEF vars, IgualCuentasT, IgualReadyT, IgualIO, Avisando, Ficha,
       FichasIO
  <2> QED BY <2>1, CuentasIgualesT
<1> QED BY <1>1, <1>2, <1>3, <1>4, <1>5, <1>6, <1>7 DEF Next

(* Both semaphores start at 0. *)
LEMMA CuentasInicialT == Init => InvCuentasT
<1> SUFFICES ASSUME Init PROVE CuentasT /\ SinCaida
  BY InvInicialT DEF InvCuentasT
<1>1. Avisando = {} /\ Ficha = 0 /\ FichasIO = 0
  BY DEF Init, Avisando, Ficha, FichasIO
<1>2. Cardinality({}) = 0
  BY FS_EmptySet
<1> QED BY <1>1, <1>2 DEF Init, CuentasT, SinCaida

(* The accounts hold at every step. *)
LEMMA InvarianteCuentasT == Spec => []InvCuentasT
BY CuentasInicialT, CuentasPasoT, PTL DEF Spec

(* semaforo_estado_ready counts the threads of READY.                      *)
THEOREM SemaforoCuentaReady == Spec => []CuentaReady
<1>1. InvCuentasT => CuentaReady
  BY DEF InvCuentasT, CuentasT, CuentaReady, Avisando, Ficha
<1> QED BY <1>1, InvarianteCuentasT, PTL

(* While no process ends, neither the planner nor the device finds empty   *)
(* the list that its semaphore announced: no NULL thread is executed.      *)
THEOREM NadieUsaNulo == Spec => []SinCaida
<1>1. InvCuentasT => SinCaida
  BY DEF InvCuentasT
<1> QED BY <1>1, InvarianteCuentasT, PTL

-----------------------------------------------------------------------------
(* The invariant while processes end. *)

HIDE DEF PuntosT, EnCpuT, Quieto, Mueve, PasoDeEstadosT

DeVictima == {"liberar", "descontar", "remover"}
Finales == {"finalizar", "desvincular"} \cup DeVictima
Puntos == {"planificar", "esperar_io", "desencolar", "inactivo", "esperar_dump"}
              \cup DePlanificador \cup Moviendo \cup Finales

Tipos ==
    /\ creados \subseteq Hilos /\ vivos \subseteq creados
    /\ ready \subseteq creados /\ blocked \subseteq creados
    /\ exec \in creados \cup {Ninguno}
    /\ unidos \in [Hilos -> SUBSET Hilos] /\ con_mutex \subseteq Hilos
    /\ pc \in [Actores -> Puntos] /\ vuelve \in [Actores -> Puntos]
    /\ hilo \in [Actores -> Hilos \cup {Ninguno}]
    /\ proceso \in [Actores -> Nat]
    /\ victima \in [Actores -> Hilos \cup {Ninguno}]

(* An actor that ends a process has chosen no thread, seeks the one that   *)
(* it has chosen, or has it and is destroying it.                          *)
Buscada(a) == pc[a] = "desvincular" \/ (pc[a] \in Buscando /\ vuelve[a] = "desvincular")
ConVictima(a) == pc[a] \in DeVictima \/ (pc[a] \in Moviendo /\ vuelve[a] = "liberar")
Finaliza(a) == pc[a] = "finalizar" \/ Buscada(a) \/ ConVictima(a)

(* Where each actor may be, and where it returns.  The thread of a dump    *)
(* finds the one that it destroys in BLOCKED, with no one waiting for it.  *)
Lugares ==
    /\ pc[LP] \in {"planificar", "agregar", "avisar"}
    /\ pc[LP] # "planificar" => vuelve[LP] = "planificar"
    /\ pc[DIO] \in {"esperar_io", "desencolar"} \cup Moviendo
    /\ pc[DIO] \in Moviendo => vuelve[DIO] = "esperar_io"
    /\ \A v \in Volcadores :
           /\ pc[v] \in {"inactivo", "esperar_dump", "finalizar", "buscar_ready",
                         "buscar_blocked", "desvincular", "liberar", "remover"} \cup Moviendo
           /\ pc[v] \in Moviendo => vuelve[v] = "inactivo"
           /\ pc[v] \in Buscando => vuelve[v] = "desvincular"
    /\ pc[STS] \in DePlanificador \cup Moviendo \cup Finales
    /\ pc[STS] \in Moviendo => vuelve[STS] \in Sueltos \cup {"liberar"}
    /\ pc[STS] \in Buscando => vuelve[STS] \in {"unir", "desvincular"}
    /\ pc[STS] = "bloquear" => vuelve[STS] \in {"esperar", "encolar", "lanzar"}
    /\ \A a \in Actores : proceso[a] # 0 <=> Finaliza(a)
    /\ \A a \in Actores : victima[a] # Ninguno <=> ConVictima(a)

Uniendo == pc[STS] = "unir" \/ (pc[STS] \in Buscando /\ vuelve[STS] = "unir")
EnCpu == Vuelve({"cpu"}) \/ pc[STS] = "no_hallado" \/ Uniendo
Ejecucion ==
    /\ EnCpu => exec \in vivos
    /\ Liberando => exec # Ninguno
    /\ Uniendo => hilo[STS] \in vivos /\ Pid(hilo[STS]) = Pid(exec)
    /\ ~EnCpu /\ ~Finaliza(STS) => exec \notin vivos

(* Main threads are created first, so a process that is ending gets no     *)
(* more; and a thread that has ended is in no list, or is being destroyed. *)
Creados ==
    /\ \A h \in creados : <<Pid(h), 0>> \in creados
    /\ \A a \in Actores : Finaliza(a) => <<proceso[a], 0>> \in creados
    /\ ready \subseteq vivos \cup {victima[STS]}
    /\ blocked \subseteq vivos \cup {victima[a] : a \in Actores}
    /\ cola_io \subseteq vivos
    /\ \A a \in Actores : Manos(a) \/ Pide(a) => hilo[a] \in vivos

(* Whoever will be woken is BLOCKED, or about to be. *)
quien == IF pc[STS] = "bloquear" THEN {hilo[STS]} ELSE {}

EnBlocked ==
    /\ cola_io \subseteq blocked
    /\ \A h \in con_mutex : Pid(h) = proceso[STS] \/ h \in blocked \cup quien
    /\ \A t \in Hilos : unidos[t] \subseteq blocked \cup quien
    /\ \A a \in Actores : Pide(a) => hilo[a] \in blocked

(* Joins are between threads of a process that have not ended, but for the *)
(* one whose waiters are being woken.                                      *)
Uniones ==
    \A t \in Hilos : \A j \in unidos[t] :
        /\ j \in vivos /\ Pid(j) = Pid(t)
        /\ \/ t \in vivos
           \/ t = exec /\ Liberando
           \/ \E a \in Actores : t = victima[a] /\ pc[a] \notin {"descontar", "remover"}

(* Nobody else touches the threads of the process that a ends. *)
Exclusivo(a) ==
    /\ \A b \in Actores \ {a} :
           /\ proceso[b] # proceso[a]
           /\ Manos(b) \/ Pide(b) => Pid(hilo[b]) # proceso[a]
    /\ \A h \in cola_io : Pid(h) # proceso[a]

(* They are destroyed from the youngest to the oldest, and one waits only  *)
(* for a younger one: the one that is destroyed waits for nobody.          *)
DeMayorAMenor(a) ==
    /\ \A h \in HilosDe(proceso[a]) : \A j \in unidos[h] : Tid(j) < Tid(h)
    /\ Buscada(a) =>
           /\ hilo[a] \in HilosDe(proceso[a])
           /\ \A h \in HilosDe(proceso[a]) : Tid(h) <= Tid(hilo[a])
    /\ ConVictima(a) =>
           /\ Pid(victima[a]) = proceso[a] /\ victima[a] \in creados \ vivos
           /\ \A h \in HilosDe(proceso[a]) : Tid(h) < Tid(victima[a])
           /\ pc[a] \in {"descontar", "remover"} => victima[a] \notin ready
           /\ pc[a] \in {"sacar", "agregar"} => Pid(hilo[a]) = proceso[a]

(* The planner ends the process of the thread in EXEC. *)
ElPlanificador ==
    /\ exec \in creados /\ Pid(exec) = proceso[STS]
    /\ Buscada(STS) /\ pc[STS] \in {"buscar_blocked", "buscar_exec"} => hilo[STS] \notin ready
    /\ Buscada(STS) /\ pc[STS] = "buscar_exec" => hilo[STS] \notin blocked

(* The thread of a dump ends a process that has no thread elsewhere. *)
ElVolcador(v) ==
    /\ \A h \in HilosDe(proceso[v]) : h \in blocked
    /\ \A h \in con_mutex : Pid(h) # proceso[v]
    /\ \A t \in Hilos : \A j \in unidos[t] : Pid(j) # proceso[v]

EnFinal ==
    /\ \A a \in Actores : Finaliza(a) => Exclusivo(a) /\ DeMayorAMenor(a)
    /\ Finaliza(STS) => ElPlanificador
    /\ \A v \in Volcadores : Finaliza(v) => ElVolcador(v)

Inv ==
    /\ Tipos /\ Lugares /\ Ejecucion /\ Creados /\ EnBlocked /\ UnaEspera
    /\ UnSoloLugar /\ Uniones /\ EnFinal

-----------------------------------------------------------------------------
(* A thread is its PID and its TID. *)
LEMMA HilosPares ==
    \A h \in Hilos : /\ h = <<Pid(h), Tid(h)>>
                     /\ Pid(h) \in Nat /\ Pid(h) # 0 /\ Tid(h) \in Nat
BY TransicionesAssumption, FinalizacionAssumption DEF Pid, Tid

USE DEF listas, esperas, tids, locales, finVars, En, Ir, Tomar, Volver, Manos, Pide,
        Moviendo, Buscando, Sueltos, DePlanificador, DeVictima, Finales, Puntos,
        Vuelve, Uniendo, EnCpu, Liberando, ConVictima, Buscada, Finaliza, quien

-----------------------------------------------------------------------------
(* At start-up every list is empty and no process ends. *)
LEMMA InvInicial == InitFinalizacion => Inv
<1> SUFFICES ASSUME InitFinalizacion PROVE Inv
  OBVIOUS
<1>1. Tipos /\ Lugares /\ Ejecucion /\ Creados
  BY DEF InitFinalizacion, Init, Tipos, Lugares, Ejecucion, Creados
<1>2. EnBlocked /\ UnaEspera /\ UnSoloLugar /\ Uniones
  BY DEF InitFinalizacion, Init, EnBlocked, UnaEspera, UnSoloLugar, Uniones
<1>3. EnFinal
  BY DEF InitFinalizacion, Init, EnFinal
<1> QED BY <1>1, <1>2, <1>3 DEF Inv

(* A step that changes nothing. *)
LEMMA InvQuieto == ASSUME Inv, UNCHANGED todas PROVE Inv'
<1>1. Tipos' /\ Lugares' /\ Ejecucion' /\ Creados'
  BY DEF Inv, todas, vars, Tipos, Lugares, Ejecucion, Creados
<1>2. EnBlocked' /\ UnaEspera' /\ UnSoloLugar' /\ Uniones'
  BY DEF Inv, todas, vars, EnBlocked, UnaEspera, UnSoloLugar, EnMano, Uniones
<1>3. EnFinal'
  BY DEF Inv, todas, vars, EnFinal, Exclusivo, DeMayorAMenor, ElPlanificador, ElVolcador,
     HilosDe
<1> QED BY <1>1, <1>2, <1>3 DEF Inv

(* The long-term planner brings a new thread. *)
LEMMA InvNewAReady ==
    ASSUME Inv, NEW h \in Hilos, NewAReady(h), UNCHANGED finVars
    PROVE  Inv'
<1>1. Tipos' /\ Lugares' /\ Ejecucion' /\ Creados'
  BY HilosPares DEF Inv, NewAReady, Tipos, Lugares, Ejecucion, Creados
<1>2. EnBlocked' /\ UnaEspera' /\ Uniones'
  BY HilosPares DEF Inv, NewAReady, EnBlocked, UnaEspera, Uniones
<1>3. UnSoloLugar'
  BY HilosPares DEF Inv, NewAReady, Tipos, Lugares, Ejecucion, Creados,
     EnBlocked, UnaEspera, UnSoloLugar, EnMano
<1>4. EnFinal'
  BY HilosPares DEF Inv, NewAReady, Tipos, Lugares, Ejecucion, Creados,
     EnBlocked, UnaEspera, UnSoloLugar, EnMano, EnFinal, Exclusivo,
     DeMayorAMenor, ElPlanificador, ElVolcador, HilosDe
<1> QED BY <1>1, <1>2, <1>3, <1>4 DEF Inv

(* The thread in EXEC is evicted. *)
LEMMA InvExecAReady ==
    ASSUME Inv, ExecAReady, UNCHANGED finVars
    PROVE  Inv'
<1>1. Tipos' /\ Lugares' /\ Ejecucion' /\ Creados'
  BY DEF Inv, ExecAReady, Tipos, Lugares, Ejecucion, Creados
<1>2. EnBlocked' /\ UnaEspera' /\ Uniones'
  BY DEF Inv, ExecAReady, EnBlocked, UnaEspera, Uniones
<1>3. UnSoloLugar'
  BY DEF Inv, ExecAReady, Tipos, Lugares, Ejecucion, Creados, EnBlocked,
     UnaEspera, UnSoloLugar, EnMano
<1>4. EnFinal'
  BY DEF Inv, ExecAReady, Tipos, Lugares, Ejecucion, Creados, EnBlocked,
     UnaEspera, UnSoloLugar, EnMano, EnFinal, Exclusivo, DeMayorAMenor,
     ElPlanificador, ElVolcador, HilosDe
<1> QED BY <1>1, <1>2, <1>3, <1>4 DEF Inv

(* THREAD_EXIT: the thread leaves the tids list. *)
LEMMA InvFinalizarHilo ==
    ASSUME Inv, FinalizarHilo, UNCHANGED finVars
    PROVE  Inv'
<1>1. Tipos' /\ Lugares' /\ Ejecucion' /\ Creados'
  BY DEF Inv, FinalizarHilo, Tipos, Lugares, Ejecucion, Creados, EnBlocked,
     UnaEspera, UnSoloLugar, EnMano
<1>2. EnBlocked' /\ UnaEspera' /\ Uniones'
  BY DEF Inv, FinalizarHilo, Tipos, Lugares, Ejecucion, Creados, EnBlocked,
     UnaEspera, UnSoloLugar, EnMano, Uniones
<1>3. UnSoloLugar'
  BY DEF Inv, FinalizarHilo, UnSoloLugar, EnMano
<1>4. EnFinal'
  BY DEF Inv, FinalizarHilo, Tipos, Lugares, Ejecucion, Creados, EnBlocked,
     UnaEspera, UnSoloLugar, EnMano, EnFinal, Exclusivo, DeMayorAMenor,
     ElPlanificador, ElVolcador, HilosDe
<1> QED BY <1>1, <1>2, <1>3, <1>4 DEF Inv

(* MUTEX_LOCK of a mutex that has an owner. *)
LEMMA InvBloquearMutex ==
    ASSUME Inv, BloquearMutex, UNCHANGED finVars
    PROVE  Inv'
<1>1. Tipos' /\ Lugares' /\ Ejecucion' /\ Creados'
  BY DEF Inv, BloquearMutex, ExecABlocked, Tipos, Lugares, Ejecucion, Creados
<1>2. EnBlocked' /\ UnaEspera' /\ Uniones'
  BY DEF Inv, BloquearMutex, ExecABlocked, Tipos, Lugares, Ejecucion, Creados,
     EnBlocked, UnaEspera, UnSoloLugar, EnMano, Uniones
<1>3. UnSoloLugar'
  BY DEF Inv, BloquearMutex, ExecABlocked, Tipos, Lugares, Ejecucion, Creados,
     EnBlocked, UnaEspera, UnSoloLugar, EnMano
<1>4. EnFinal'
  BY DEF Inv, BloquearMutex, ExecABlocked, Tipos, Lugares, Ejecucion, Creados,
     EnBlocked, UnaEspera, UnSoloLugar, EnMano, EnFinal, Exclusivo,
     DeMayorAMenor, ElPlanificador, ElVolcador, HilosDe
<1> QED BY <1>1, <1>2, <1>3, <1>4 DEF Inv

(* IO: the first half of the move to BLOCKED. *)
LEMMA InvIO ==
    ASSUME Inv, IO, UNCHANGED finVars
    PROVE  Inv'
<1>1. Tipos' /\ Lugares' /\ Ejecucion' /\ Creados'
  BY DEF Inv, IO, ExecABlocked, Tipos, Lugares, Ejecucion, Creados
<1>2. EnBlocked'
  BY HilosPares DEF Inv, IO, ExecABlocked, Tipos, Lugares, Ejecucion, EnBlocked
<1>3. UnaEspera'
  BY HilosPares DEF Inv, IO, ExecABlocked, Tipos, Lugares, Ejecucion, EnBlocked,
     UnaEspera, UnSoloLugar
<1>4. Uniones'
  BY DEF Inv, IO, ExecABlocked, Tipos, Lugares, Ejecucion, Uniones
<1>5. UnSoloLugar'
  BY DEF Inv, IO, ExecABlocked, Tipos, Lugares, Ejecucion, Creados, EnBlocked,
     UnaEspera, UnSoloLugar, EnMano
<1>6. EnFinal'
  BY DEF Inv, IO, ExecABlocked, Tipos, Lugares, Ejecucion, Creados, EnBlocked,
     UnaEspera, UnSoloLugar, EnMano, EnFinal, Exclusivo, DeMayorAMenor,
     ElPlanificador, ElVolcador, HilosDe
<1> QED BY <1>1, <1>2, <1>3, <1>4, <1>5, <1>6 DEF Inv

(* DUMP_MEMORY: the first half of the move to BLOCKED. *)
LEMMA InvDumpMemory ==
    ASSUME Inv, DumpMemory, UNCHANGED finVars
    PROVE  Inv'
<1>1. Tipos' /\ Lugares' /\ Ejecucion' /\ Creados'
  BY DEF Inv, DumpMemory, ExecABlocked, Tipos, Lugares, Ejecucion, Creados
<1>2. EnBlocked'
  BY HilosPares DEF Inv, DumpMemory, ExecABlocked, Tipos, Lugares, Ejecucion, EnBlocked
<1>3. UnaEspera'
  BY HilosPares DEF Inv, DumpMemory, ExecABlocked, Tipos, Lugares, Ejecucion, EnBlocked,
     UnaEspera, UnSoloLugar
<1>4. Uniones'
  BY DEF Inv, DumpMemory, ExecABlocked, Tipos, Lugares, Ejecucion, Uniones
<1>5. UnSoloLugar'
  BY DEF Inv, DumpMemory, ExecABlocked, Tipos, Lugares, Ejecucion, Creados,
     EnBlocked, UnaEspera, UnSoloLugar, EnMano
<1>6. EnFinal'
  BY DEF Inv, DumpMemory, ExecABlocked, Tipos, Lugares, Ejecucion, Creados,
     EnBlocked, UnaEspera, UnSoloLugar, EnMano, EnFinal, Exclusivo,
     DeMayorAMenor, ElPlanificador, ElVolcador, HilosDe
<1> QED BY <1>1, <1>2, <1>3, <1>4, <1>5, <1>6 DEF Inv

(* The second half of THREAD_JOIN. *)
LEMMA InvUnir ==
    ASSUME Inv, Unir, UNCHANGED finVars
    PROVE  Inv'
<1>1. Tipos' /\ Lugares' /\ Ejecucion' /\ Creados'
  BY DEF Inv, Unir, ExecABlocked, Tipos, Lugares, Ejecucion, Creados
<1>2. EnBlocked'
  BY HilosPares DEF Inv, Unir, ExecABlocked, Tipos, Lugares, Ejecucion, EnBlocked
<1>3. UnaEspera'
  BY HilosPares DEF Inv, Unir, ExecABlocked, Tipos, Lugares, Ejecucion, EnBlocked,
     UnaEspera, UnSoloLugar
<1>4. Uniones'
  BY DEF Inv, Unir, ExecABlocked, Tipos, Lugares, Ejecucion, Uniones
<1>5. UnSoloLugar'
  BY DEF Inv, Unir, ExecABlocked, Tipos, Lugares, Ejecucion, Creados,
     EnBlocked, UnaEspera, UnSoloLugar, EnMano
<1>6. EnFinal'
  BY DEF Inv, Unir, ExecABlocked, Tipos, Lugares, Ejecucion, Creados,
     EnBlocked, UnaEspera, UnSoloLugar, EnMano, EnFinal, Exclusivo,
     DeMayorAMenor, ElPlanificador, ElVolcador, HilosDe
<1> QED BY <1>1, <1>2, <1>3, <1>4, <1>5, <1>6 DEF Inv

(* THREAD_CREATE. *)
LEMMA InvCrearHilo ==
    ASSUME Inv, NEW h \in Hilos, CrearHilo(h), UNCHANGED finVars
    PROVE  Inv'
<1>1. Tipos' /\ Lugares' /\ Ejecucion' /\ Creados'
  BY HilosPares DEF Inv, CrearHilo, Tipos, Lugares, Ejecucion, Creados
<1>2. EnBlocked' /\ UnaEspera' /\ Uniones'
  BY HilosPares DEF Inv, CrearHilo, EnBlocked, UnaEspera, Uniones
<1>3. UnSoloLugar'
  BY HilosPares DEF Inv, CrearHilo, Tipos, Lugares, Ejecucion, Creados,
     EnBlocked, UnaEspera, UnSoloLugar, EnMano
<1>4. EnFinal'
  BY HilosPares DEF Inv, CrearHilo, Tipos, Lugares, Ejecucion, Creados,
     EnBlocked, UnaEspera, UnSoloLugar, EnMano, Uniones, EnFinal, Exclusivo,
     DeMayorAMenor, ElPlanificador, ElVolcador, HilosDe
<1> QED BY <1>1, <1>2, <1>3, <1>4 DEF Inv

(* MUTEX_UNLOCK when others wait. *)
LEMMA InvDesbloquearMutex ==
    ASSUME Inv, NEW h \in Hilos, DesbloquearMutex(h), UNCHANGED finVars
    PROVE  Inv'
<1>1. Tipos' /\ Lugares' /\ Ejecucion' /\ Creados'
  BY HilosPares, SMTT(60) DEF Inv, DesbloquearMutex, Despertar, Tipos,
     Lugares, Ejecucion, Creados, EnBlocked, UnaEspera, Uniones, EnFinal,
     Exclusivo, DeMayorAMenor, ElPlanificador, ElVolcador, HilosDe
<1>2. EnBlocked' /\ UnaEspera' /\ Uniones'
  BY HilosPares DEF Inv, DesbloquearMutex, Despertar, Tipos, Lugares,
     EnBlocked, UnaEspera, Uniones
<1>3. UnSoloLugar'
  BY HilosPares DEF Inv, DesbloquearMutex, Despertar, UnSoloLugar, EnMano
<1>4. EnFinal'
  BY HilosPares DEF Inv, DesbloquearMutex, Despertar, Tipos, Lugares, EnFinal,
     Exclusivo, DeMayorAMenor, ElPlanificador, ElVolcador, HilosDe
<1> QED BY <1>1, <1>2, <1>3, <1>4 DEF Inv

(* THREAD_JOIN looks for the thread. *)
LEMMA InvEsperarHilo ==
    ASSUME Inv, NEW h \in Hilos, EsperarHilo(h), UNCHANGED finVars
    PROVE  Inv'
<1>1. Tipos' /\ Lugares' /\ Ejecucion' /\ Creados'
  BY DEF Inv, EsperarHilo, Tipos, Lugares, Ejecucion, Creados
<1>2. EnBlocked' /\ UnaEspera' /\ Uniones'
  BY DEF Inv, EsperarHilo, EnBlocked, UnaEspera, Uniones
<1>3. UnSoloLugar'
  BY DEF Inv, EsperarHilo, UnSoloLugar, EnMano
<1>4. EnFinal'
  BY DEF Inv, EsperarHilo, Tipos, EnFinal, Exclusivo, DeMayorAMenor,
     ElPlanificador, ElVolcador, HilosDe
<1> QED BY <1>1, <1>2, <1>3, <1>4 DEF Inv

(* PROCESS_EXIT, when nobody else has a thread of the process. *)
LEMMA InvFinalizarProceso ==
    ASSUME Inv, ~Interferencias, FinalizarProceso
    PROVE  Inv'
<1>1. Tipos' /\ Lugares' /\ Ejecucion' /\ Creados'
  BY HilosPares DEF Inv, FinalizarProceso, Finalizar, SinInterferencias,
     Tipos, Lugares, Ejecucion, Creados
<1>2. EnBlocked' /\ UnaEspera' /\ Uniones'
  BY HilosPares DEF Inv, FinalizarProceso, Finalizar, SinInterferencias,
     Tipos, Lugares, EnBlocked, UnaEspera, Uniones
<1>3. UnSoloLugar'
  BY HilosPares DEF Inv, FinalizarProceso, Finalizar, SinInterferencias,
     UnSoloLugar, EnMano
<1>4. EnFinal'
  BY HilosPares, SMTT(60) DEF Inv, FinalizarProceso, Finalizar,
     SinInterferencias, Tipos, Lugares, Ejecucion, Creados, EnBlocked,
     UnaEspera, UnSoloLugar, EnMano, Uniones, EnFinal, Exclusivo,
     DeMayorAMenor, ElPlanificador, ElVolcador, HilosDe
<1> QED BY <1>1, <1>2, <1>3, <1>4 DEF Inv

(* The planner takes a token. *)
LEMMA InvEsperarReady ==
    ASSUME Inv, EsperarReady, UNCHANGED finVars
    PROVE  Inv'
<1>1. Tipos' /\ Lugares' /\ Ejecucion' /\ Creados'
  BY DEF Inv, EsperarReady, Tipos, Lugares, Ejecucion, Creados
<1>2. EnBlocked' /\ UnaEspera' /\ Uniones'
  BY DEF Inv, EsperarReady, EnBlocked, UnaEspera, Uniones
<1>3. UnSoloLugar'
  BY DEF Inv, EsperarReady, UnSoloLugar, EnMano
<1>4. EnFinal'
  BY DEF Inv, EsperarReady, EnFinal, Exclusivo, DeMayorAMenor, ElPlanificador,
     ElVolcador, HilosDe
<1> QED BY <1>1, <1>2, <1>3, <1>4 DEF Inv

(* The planner dispatches. *)
LEMMA InvReadyAExec ==
    ASSUME Inv, ReadyAExec, UNCHANGED finVars
    PROVE  Inv'
<1>1. Tipos' /\ Lugares' /\ Ejecucion' /\ Creados'
  BY DEF Inv, ReadyAExec, Tipos, Lugares, Ejecucion, Creados
<1>2. EnBlocked' /\ UnaEspera' /\ Uniones'
  BY DEF Inv, ReadyAExec, Tipos, EnBlocked, UnaEspera, Uniones
<1>3. UnSoloLugar'
  BY DEF Inv, ReadyAExec, Tipos, Lugares, Ejecucion, EnBlocked, UnSoloLugar,
     EnMano
<1>4. EnFinal'
  BY DEF Inv, ReadyAExec, Tipos, EnFinal, Exclusivo, DeMayorAMenor,
     ElPlanificador, ElVolcador, HilosDe
<1> QED BY <1>1, <1>2, <1>3, <1>4 DEF Inv

(* The second half of the move to BLOCKED. *)
LEMMA InvBloquear ==
    ASSUME Inv, Bloquear, UNCHANGED finVars
    PROVE  Inv'
<1>1. Tipos' /\ Lugares' /\ Ejecucion' /\ Creados'
  BY DEF Inv, Bloquear, Tipos, Lugares, Ejecucion, Creados
<1>2. EnBlocked' /\ UnaEspera' /\ Uniones'
  BY DEF Inv, Bloquear, Tipos, Lugares, Ejecucion, Creados, EnBlocked,
     UnaEspera, UnSoloLugar, EnMano, Uniones
<1>3. UnSoloLugar'
  BY DEF Inv, Bloquear, Tipos, Lugares, UnSoloLugar, EnMano
<1>4. EnFinal'
  BY DEF Inv, Bloquear, Tipos, Lugares, EnFinal, Exclusivo, DeMayorAMenor,
     ElPlanificador, ElVolcador, HilosDe
<1> QED BY <1>1, <1>2, <1>3, <1>4 DEF Inv

(* The request to the device is queued. *)
LEMMA InvEncolar ==
    ASSUME Inv, Encolar, UNCHANGED finVars
    PROVE  Inv'
<1>1. Tipos' /\ Lugares' /\ Ejecucion' /\ Creados'
  BY DEF Inv, Encolar, Tipos, Lugares, Ejecucion, Creados
<1>2. EnBlocked' /\ UnaEspera' /\ Uniones'
  BY DEF Inv, Encolar, Tipos, EnBlocked, UnaEspera, Uniones
<1>3. UnSoloLugar'
  BY DEF Inv, Encolar, UnSoloLugar, EnMano
<1>4. EnFinal'
  BY DEF Inv, Encolar, Tipos, EnFinal, Exclusivo, DeMayorAMenor,
     ElPlanificador, ElVolcador, HilosDe
<1> QED BY <1>1, <1>2, <1>3, <1>4 DEF Inv

(* The request to the device is announced. *)
LEMMA InvAvisarIO ==
    ASSUME Inv, AvisarIO, UNCHANGED finVars
    PROVE  Inv'
<1>1. Tipos' /\ Lugares' /\ Ejecucion' /\ Creados'
  BY DEF Inv, AvisarIO, Tipos, Lugares, Ejecucion, Creados
<1>2. EnBlocked' /\ UnaEspera' /\ Uniones'
  BY DEF Inv, AvisarIO, EnBlocked, UnaEspera, Uniones
<1>3. UnSoloLugar'
  BY DEF Inv, AvisarIO, UnSoloLugar, EnMano
<1>4. EnFinal'
  BY DEF Inv, AvisarIO, EnFinal, Exclusivo, DeMayorAMenor, ElPlanificador,
     ElVolcador, HilosDe
<1> QED BY <1>1, <1>2, <1>3, <1>4 DEF Inv

(* A thread that nobody waits for is destroyed. *)
LEMMA InvDestruirHilo ==
    ASSUME Inv, DestruirHilo, UNCHANGED finVars
    PROVE  Inv'
<1>1. Tipos' /\ Lugares' /\ Ejecucion' /\ Creados'
  BY DEF Inv, DestruirHilo, Tipos, Lugares, Ejecucion, Creados
<1>2. EnBlocked' /\ UnaEspera' /\ Uniones'
  BY DEF Inv, DestruirHilo, EnBlocked, UnaEspera, Uniones
<1>3. UnSoloLugar'
  BY DEF Inv, DestruirHilo, UnSoloLugar, EnMano
<1>4. EnFinal'
  BY DEF Inv, DestruirHilo, EnFinal, Exclusivo, DeMayorAMenor, ElPlanificador,
     ElVolcador, HilosDe
<1> QED BY <1>1, <1>2, <1>3, <1>4 DEF Inv

(* THREAD_JOIN looks in EXEC. *)
LEMMA InvBuscarEnExec ==
    ASSUME Inv, BuscarEnExec, UNCHANGED finVars
    PROVE  Inv'
<1>1. Tipos' /\ Lugares' /\ Ejecucion' /\ Creados'
  BY DEF Inv, BuscarEnExec, Tipos, Lugares, Ejecucion, Creados
<1>2. EnBlocked' /\ UnaEspera' /\ Uniones'
  BY DEF Inv, BuscarEnExec, Tipos, EnBlocked, UnaEspera, Uniones
<1>3. UnSoloLugar'
  BY DEF Inv, BuscarEnExec, Tipos, UnSoloLugar, EnMano
<1>4. EnFinal'
  BY DEF Inv, BuscarEnExec, Tipos, EnFinal, Exclusivo, DeMayorAMenor,
     ElPlanificador, ElVolcador, HilosDe
<1> QED BY <1>1, <1>2, <1>3, <1>4 DEF Inv

(* THREAD_JOIN of a thread that was not found. *)
LEMMA InvSeguirSinUnir ==
    ASSUME Inv, SeguirSinUnir, UNCHANGED finVars
    PROVE  Inv'
<1>1. Tipos' /\ Lugares' /\ Ejecucion' /\ Creados'
  BY DEF Inv, SeguirSinUnir, Tipos, Lugares, Ejecucion, Creados
<1>2. EnBlocked' /\ UnaEspera' /\ Uniones'
  BY DEF Inv, SeguirSinUnir, EnBlocked, UnaEspera, Uniones
<1>3. UnSoloLugar'
  BY DEF Inv, SeguirSinUnir, UnSoloLugar, EnMano
<1>4. EnFinal'
  BY DEF Inv, SeguirSinUnir, EnFinal, Exclusivo, DeMayorAMenor,
     ElPlanificador, ElVolcador, HilosDe
<1> QED BY <1>1, <1>2, <1>3, <1>4 DEF Inv

(* A mutex of the thread that ends goes to another, or none is left.  That *)
(* thread is alive: con_mutex names others only of a process that ends.    *)
LEMMA InvLiberarMutex ==
    ASSUME Inv, LiberarMutex, UNCHANGED finVars
    PROVE  Inv'
<1>1. CASE UNCHANGED <<hilo, vuelve, con_mutex>> /\ pc' = [pc EXCEPT ![STS] = "liberar_unidos"]
  <2>1. UNCHANGED <<listas, semaforo, esperas, tids, caida>> /\ pc[STS] = "liberar_mutex"
    BY <1>1 DEF LiberarMutex, Despertar
  <2>2. Tipos' /\ Lugares' /\ Ejecucion' /\ Creados'
    BY <1>1, <2>1 DEF Inv, Tipos, Lugares, Ejecucion, Creados
  <2>3. EnBlocked' /\ UnaEspera' /\ Uniones'
    BY <1>1, <2>1 DEF Inv, Tipos, EnBlocked, UnaEspera, Uniones
  <2>4. UnSoloLugar'
    BY <1>1, <2>1 DEF Inv, Tipos, UnSoloLugar, EnMano
  <2>5. EnFinal'
    BY <1>1, <2>1 DEF Inv, Tipos, EnFinal, Exclusivo, DeMayorAMenor, ElPlanificador,
       ElVolcador, HilosDe
  <2> QED BY <2>2, <2>3, <2>4, <2>5 DEF Inv
<1>2. ASSUME NEW h \in con_mutex, Pid(h) = Pid(exec), con_mutex' = con_mutex \ {h},
             Despertar(STS, h, "liberar_mutex"), UNCHANGED unidos
      PROVE  Inv'
  <2>1. /\ UNCHANGED <<listas, semaforo, cola_io, semaforo_io, tids, caida>>
        /\ pc[STS] = "liberar_mutex" /\ pc' = [pc EXCEPT ![STS] = "sacar"]
        /\ hilo' = [hilo EXCEPT ![STS] = h]
        /\ vuelve' = [vuelve EXCEPT ![STS] = "liberar_mutex"]
    BY <1>2 DEF LiberarMutex, Despertar
  <2>2. h \in Hilos /\ h \in blocked
    BY <2>1, HilosPares DEF Inv, Tipos, Lugares, EnBlocked
  <2>3. h \in vivos
    BY <2>1, <2>2 DEF Inv, Creados, Lugares, EnFinal, ElVolcador, DeMayorAMenor
  <2>4. Tipos' /\ Lugares' /\ Ejecucion' /\ Creados'
    <3>1. Tipos'
      BY <1>2, <2>1, <2>2 DEF Inv, Tipos
    <3>2. Lugares'
      BY <1>2, <2>1 DEF Inv, Tipos, Lugares
    <3>3. Ejecucion' /\ Creados'
      BY <1>2, <2>1, <2>3 DEF Inv, Tipos, Lugares, Ejecucion, Creados
    <3> QED BY <3>1, <3>2, <3>3
  <2>5. EnBlocked' /\ UnaEspera' /\ Uniones'
    BY <1>2, <2>1, <2>2 DEF Inv, Tipos, EnBlocked, UnaEspera, Uniones
  <2>6. UnSoloLugar'
    BY <2>1, <2>2 DEF Inv, Tipos, UnSoloLugar, EnMano
  <2>7. EnFinal'
    <3>1. ~Finaliza(STS) /\ ~Finaliza(STS)'
      BY <2>1 DEF Inv, Tipos
    <3>2. \A a \in Actores \ {STS} : /\ Finaliza(a)' <=> Finaliza(a)
                                     /\ Finaliza(a) => a \in Volcadores
      BY <2>1 DEF Inv, Tipos, Lugares
    <3>3. \A v \in Volcadores : Finaliza(v) => ElVolcador(v)' /\ Pid(h) # proceso[v]
      BY <1>2, <2>1 DEF Inv, EnFinal, ElVolcador, HilosDe
    <3>4. \A v \in Volcadores : Finaliza(v) => Exclusivo(v)'
      BY <1>2, <2>1, <3>3 DEF Inv, Tipos, EnFinal, Exclusivo
    <3>5. \A v \in Volcadores : Finaliza(v) => DeMayorAMenor(v)'
      BY <1>2, <2>1 DEF Inv, Tipos, EnFinal, DeMayorAMenor, HilosDe
    <3>6. \A a \in Actores : Finaliza(a)' => Exclusivo(a)' /\ DeMayorAMenor(a)'
      BY <3>1, <3>2, <3>4, <3>5
    <3>7. \A v \in Volcadores : Finaliza(v)' => ElVolcador(v)'
      BY <3>2, <3>3
    <3> QED BY <3>1, <3>6, <3>7 DEF EnFinal
  <2> QED BY <2>4, <2>5, <2>6, <2>7 DEF Inv
<1> QED BY <1>1, <1>2 DEF LiberarMutex

(* A thread that waited for the end of another wakes up. *)
LEMMA InvLiberarUnido ==
    ASSUME Inv, NEW h \in Hilos, LiberarUnido(h), UNCHANGED finVars
    PROVE  Inv'
<1>1. Tipos' /\ Lugares' /\ Ejecucion' /\ Creados'
  BY HilosPares DEF Inv, LiberarUnido, Despertar, Tipos, Lugares, Ejecucion,
     Creados, EnBlocked, UnaEspera, Uniones, EnFinal, Exclusivo,
     DeMayorAMenor, ElPlanificador, ElVolcador, HilosDe
<1>2. EnBlocked' /\ UnaEspera' /\ Uniones'
  BY HilosPares DEF Inv, LiberarUnido, Despertar, Tipos, Lugares, Ejecucion,
     EnBlocked, UnaEspera, Uniones
<1>3. UnSoloLugar'
  BY HilosPares DEF Inv, LiberarUnido, Despertar, UnSoloLugar, EnMano
<1>4. EnFinal'
  BY HilosPares, SMTT(60) DEF Inv, LiberarUnido, Despertar, Tipos, Lugares,
     Ejecucion, EnBlocked, EnFinal, Exclusivo, DeMayorAMenor, ElPlanificador,
     ElVolcador, HilosDe
<1> QED BY <1>1, <1>2, <1>3, <1>4 DEF Inv

(* The POSIX thread of a dump starts. *)
LEMMA InvLanzarDump ==
    ASSUME Inv, NEW v \in Volcadores, LanzarDump(v), UNCHANGED finVars
    PROVE  Inv'
<1>1. Tipos' /\ Lugares' /\ Ejecucion' /\ Creados'
  BY DEF Inv, LanzarDump, Tipos, Lugares, Ejecucion, Creados
<1>2. EnBlocked' /\ UnaEspera' /\ Uniones'
  BY DEF Inv, LanzarDump, Tipos, EnBlocked, UnaEspera, Uniones
<1>3. UnSoloLugar'
  BY DEF Inv, LanzarDump, Tipos, UnSoloLugar, EnMano
<1>4. EnFinal'
  BY DEF Inv, LanzarDump, Tipos, EnFinal, Exclusivo, DeMayorAMenor,
     ElPlanificador, ElVolcador, HilosDe
<1> QED BY <1>1, <1>2, <1>3, <1>4 DEF Inv

(* The device takes a token. *)
LEMMA InvEsperarIO ==
    ASSUME Inv, EsperarIO, UNCHANGED finVars
    PROVE  Inv'
<1>1. Tipos' /\ Lugares' /\ Ejecucion' /\ Creados'
  BY DEF Inv, EsperarIO, Tipos, Lugares, Ejecucion, Creados
<1>2. EnBlocked' /\ UnaEspera' /\ Uniones'
  BY DEF Inv, EsperarIO, EnBlocked, UnaEspera, Uniones
<1>3. UnSoloLugar'
  BY DEF Inv, EsperarIO, UnSoloLugar, EnMano
<1>4. EnFinal'
  BY DEF Inv, EsperarIO, EnFinal, Exclusivo, DeMayorAMenor, ElPlanificador,
     ElVolcador, HilosDe
<1> QED BY <1>1, <1>2, <1>3, <1>4 DEF Inv

(* The device takes a request. *)
LEMMA InvDesencolar ==
    ASSUME Inv, Desencolar, UNCHANGED finVars
    PROVE  Inv'
<1>1. Tipos' /\ Lugares' /\ Ejecucion' /\ Creados'
  BY DEF Inv, Desencolar, Tipos, Lugares, Ejecucion, Creados
<1>2. EnBlocked' /\ UnaEspera' /\ Uniones'
  BY DEF Inv, Desencolar, Tipos, EnBlocked, UnaEspera, Uniones
<1>3. UnSoloLugar'
  BY DEF Inv, Desencolar, Tipos, UnSoloLugar, EnMano
<1>4. EnFinal'
  BY DEF Inv, Desencolar, Tipos, EnFinal, Exclusivo, DeMayorAMenor,
     ElPlanificador, ElVolcador, HilosDe
<1> QED BY <1>1, <1>2, <1>3, <1>4 DEF Inv

(* A dump was confirmed. *)
LEMMA InvDumpConfirmado ==
    ASSUME Inv, NEW v \in Volcadores, DumpConfirmado(v), UNCHANGED finVars
    PROVE  Inv'
<1>1. Tipos' /\ Lugares' /\ Ejecucion' /\ Creados'
  BY DEF Inv, DumpConfirmado, Tipos, Lugares, Ejecucion, Creados
<1>2. EnBlocked' /\ UnaEspera' /\ Uniones'
  BY DEF Inv, DumpConfirmado, EnBlocked, UnaEspera, Uniones
<1>3. UnSoloLugar'
  BY DEF Inv, DumpConfirmado, UnSoloLugar, EnMano
<1>4. EnFinal'
  BY DEF Inv, DumpConfirmado, Tipos, EnFinal, Exclusivo, DeMayorAMenor,
     ElPlanificador, ElVolcador, HilosDe
<1> QED BY <1>1, <1>2, <1>3, <1>4 DEF Inv

(* A dump failed, of a process whose other threads have ended. *)
LEMMA InvDumpRechazado ==
    ASSUME Inv, ~Interferencias, NEW v \in Volcadores, DumpRechazado(v)
    PROVE  Inv'
<1>1. Tipos' /\ Lugares' /\ Ejecucion' /\ Creados'
  BY HilosPares DEF Inv, DumpRechazado, Finalizar, Tipos, Lugares, Ejecucion,
     Creados
<1>2. EnBlocked' /\ UnaEspera' /\ Uniones'
  BY HilosPares DEF Inv, DumpRechazado, Finalizar, Tipos, EnBlocked,
     UnaEspera, Uniones
<1>3. UnSoloLugar'
  BY HilosPares DEF Inv, DumpRechazado, Finalizar, UnSoloLugar, EnMano
<1>4. EnFinal'
  BY HilosPares, SMTT(60) DEF Inv, DumpRechazado, Finalizar, Tipos, Lugares,
     Ejecucion, Creados, EnBlocked, UnaEspera, UnSoloLugar, EnMano, Uniones,
     EnFinal, Exclusivo, DeMayorAMenor, ElPlanificador, ElVolcador, HilosDe
<1> QED BY <1>1, <1>2, <1>3, <1>4 DEF Inv

(* The second half of a move to READY. *)
LEMMA InvAgregar ==
    ASSUME Inv, NEW a \in Actores, Agregar(a), UNCHANGED finVars
    PROVE  Inv'
<1>1. Tipos' /\ Lugares' /\ Ejecucion' /\ Creados'
  BY DEF Inv, Agregar, Tipos, Lugares, Ejecucion, Creados
<1>2. EnBlocked' /\ UnaEspera' /\ Uniones'
  BY DEF Inv, Agregar, EnBlocked, UnaEspera, Uniones
<1>3. UnSoloLugar'
  BY DEF Inv, Agregar, Tipos, UnSoloLugar, EnMano
<1>4. EnFinal'
  BY DEF Inv, Agregar, EnFinal, Exclusivo, DeMayorAMenor, ElPlanificador,
     ElVolcador, HilosDe
<1> QED BY <1>1, <1>2, <1>3, <1>4 DEF Inv

(* The post of a move to READY. *)
LEMMA InvAvisar ==
    ASSUME Inv, NEW a \in Actores, Avisar(a), UNCHANGED finVars
    PROVE  Inv'
<1>1. Tipos' /\ Lugares' /\ Ejecucion' /\ Creados'
  BY DEF Inv, Avisar, Tipos, Lugares, Ejecucion, Creados
<1>2. EnBlocked' /\ UnaEspera' /\ Uniones'
  BY DEF Inv, Avisar, Tipos, Lugares, EnBlocked, UnaEspera, Uniones
<1>3. UnSoloLugar'
  BY DEF Inv, Avisar, Tipos, Lugares, UnSoloLugar, EnMano
<1>4. EnFinal'
  BY DEF Inv, Avisar, Tipos, Lugares, EnFinal, Exclusivo, DeMayorAMenor,
     ElPlanificador, ElVolcador, HilosDe
<1> QED BY <1>1, <1>2, <1>3, <1>4 DEF Inv

(* The first half of a move from BLOCKED to READY. *)
LEMMA InvSacar ==
    ASSUME Inv, NEW a \in Actores, Sacar(a), UNCHANGED finVars
    PROVE  Inv'
<1>1. Tipos' /\ Lugares' /\ Ejecucion' /\ Creados'
  BY DEF Inv, Sacar, Tipos, Lugares, Ejecucion, Creados
<1>2. EnBlocked' /\ UnaEspera' /\ Uniones'
  BY DEF Inv, Sacar, Tipos, EnBlocked, UnaEspera, Uniones
<1>3. UnSoloLugar'
  BY DEF Inv, Sacar, Tipos, Lugares, Ejecucion, EnBlocked, UnSoloLugar, EnMano
<1>4. EnFinal'
  BY DEF Inv, Sacar, Tipos, Lugares, EnFinal, Exclusivo, DeMayorAMenor,
     ElPlanificador, ElVolcador, HilosDe
<1> QED BY <1>1, <1>2, <1>3, <1>4 DEF Inv

(* The search of a thread in READY. *)
LEMMA InvBuscarEnReady ==
    ASSUME Inv, NEW a \in Actores, BuscarEnReady(a), UNCHANGED finVars
    PROVE  Inv'
<1>1. Tipos' /\ Lugares' /\ Ejecucion' /\ Creados'
  BY DEF Inv, BuscarEnReady, Tipos, Lugares, Ejecucion, Creados
<1>2. EnBlocked' /\ UnaEspera' /\ Uniones'
  BY DEF Inv, BuscarEnReady, Tipos, Lugares, EnBlocked, UnaEspera, Uniones
<1>3. UnSoloLugar'
  BY DEF Inv, BuscarEnReady, Tipos, Lugares, UnSoloLugar, EnMano
<1>4. EnFinal'
  BY DEF Inv, BuscarEnReady, Tipos, Lugares, EnFinal, Exclusivo,
     DeMayorAMenor, ElPlanificador, ElVolcador, HilosDe
<1> QED BY <1>1, <1>2, <1>3, <1>4 DEF Inv

(* The search of a thread in BLOCKED. *)
LEMMA InvBuscarEnBlocked ==
    ASSUME Inv, NEW a \in Actores, BuscarEnBlocked(a), UNCHANGED finVars
    PROVE  Inv'
<1>1. Tipos' /\ Lugares' /\ Ejecucion' /\ Creados'
  BY DEF Inv, BuscarEnBlocked, Tipos, Lugares, Ejecucion, Creados, EnBlocked,
     UnaEspera, Uniones, EnFinal, Exclusivo, DeMayorAMenor, ElPlanificador,
     ElVolcador, HilosDe
<1>2. EnBlocked' /\ UnaEspera' /\ Uniones'
  BY DEF Inv, BuscarEnBlocked, Tipos, Lugares, EnBlocked, UnaEspera, Uniones
<1>3. UnSoloLugar'
  BY DEF Inv, BuscarEnBlocked, Tipos, Lugares, UnSoloLugar, EnMano
<1>4. EnFinal'
  BY DEF Inv, BuscarEnBlocked, Tipos, Lugares, EnFinal, Exclusivo,
     DeMayorAMenor, ElPlanificador, ElVolcador, HilosDe
<1> QED BY <1>1, <1>2, <1>3, <1>4 DEF Inv

(* The thread leaves the tids list: who ends the process is the only one   *)
(* that has it, and no join names it.                                      *)
LEMMA InvDesvincular ==
    ASSUME Inv, NEW a \in Actores, Desvincular(a)
    PROVE  Inv'
<1>1. /\ hilo[a] \in vivos /\ hilo[a] \in Hilos /\ Pid(hilo[a]) = proceso[a] /\ Finaliza(a)
      /\ pc[a] = "desvincular" /\ victima[a] = Ninguno
      /\ <<proceso[a], Tid(hilo[a])>> = hilo[a]
      /\ Exclusivo(a) /\ DeMayorAMenor(a)
  <2>1. Finaliza(a) /\ pc[a] = "desvincular" /\ Buscada(a)
    BY DEF Desvincular
  <2>2. Exclusivo(a) /\ DeMayorAMenor(a)
    BY <2>1 DEF Inv, EnFinal
  <2>3. hilo[a] \in vivos /\ Pid(hilo[a]) = proceso[a] /\ hilo[a] \in Hilos
    BY <2>1, <2>2 DEF Inv, Tipos, DeMayorAMenor, HilosDe
  <2>4. <<proceso[a], Tid(hilo[a])>> = hilo[a]
    BY <2>3, HilosPares
  <2>5. victima[a] = Ninguno
    BY <2>1 DEF Inv, Lugares
  <2> QED BY <2>1, <2>2, <2>3, <2>4, <2>5
<1>2. /\ vivos' = vivos \ {hilo[a]}
      /\ victima' = [victima EXCEPT ![a] = hilo[a]]
      /\ pc' = [pc EXCEPT ![a] = "liberar"] /\ hilo' = [hilo EXCEPT ![a] = Ninguno]
      /\ vuelve' = [vuelve EXCEPT ![a] = "inactivo"]
      /\ UNCHANGED <<ready, blocked, exec, semaforo, cola_io, semaforo_io, unidos, con_mutex,
                     creados, caida, proceso>>
  BY <1>1 DEF Desvincular
<1>3. a = STS \/ a \in Volcadores
  BY <1>1 DEF Inv, Lugares
<1>4. \A t \in Hilos : hilo[a] \notin unidos[t]
  <2>1. CASE a = STS
    <3>1. SUFFICES ASSUME NEW t \in Hilos, hilo[a] \in unidos[t] PROVE FALSE
      OBVIOUS
    <3>2. Pid(t) = proceso[a] /\ Tid(hilo[a]) \in Nat /\ Tid(t) \in Nat
      BY <1>1, <3>1, HilosPares DEF Inv, Uniones
    <3>3. t \notin vivos
      BY <1>1, <3>1, <3>2 DEF Inv, DeMayorAMenor, HilosDe
    <3>4. PICK b \in Actores : t = victima[b]
      BY <1>1, <2>1, <3>1, <3>3 DEF Inv, Uniones
    <3>5. b # a /\ ConVictima(b)
      BY <1>1, <3>4 DEF Inv, Lugares
    <3>6. Pid(t) = proceso[b]
      BY <3>4, <3>5 DEF Inv, EnFinal, DeMayorAMenor
    <3> QED BY <1>1, <3>2, <3>5, <3>6 DEF Exclusivo
  <2>2. CASE a \in Volcadores
    BY <1>1, <2>2 DEF Inv, EnFinal, ElVolcador
  <2> QED BY <1>3, <2>1, <2>2
<1>5. /\ a = STS => ~EnCpu /\ ~EnCpu' /\ ~Uniendo'
      /\ a # STS => (EnCpu' <=> EnCpu) /\ (Uniendo' <=> Uniendo) /\ (Finaliza(STS)' <=> Finaliza(STS))
      /\ a # STS => hilo'[STS] = hilo[STS] /\ hilo[a] \in blocked /\ hilo[a] \notin ready
      /\ a # STS /\ EnCpu => exec # hilo[a] /\ Pid(exec) # proceso[a]
  <2>1. CASE a = STS
    BY <1>1, <1>2, <2>1 DEF Inv, Tipos
  <2>2. CASE a \in Volcadores
    <3>1. ElVolcador(a)
      BY <1>1, <2>2 DEF Inv, EnFinal
    <3>2. hilo[a] \in blocked /\ hilo[a] \notin ready
      BY <1>1, <3>1 DEF Inv, UnSoloLugar, ElVolcador, HilosDe
    <3>3. EnCpu => exec \in vivos /\ exec \notin blocked
      BY DEF Inv, Ejecucion, UnSoloLugar
    <3>4. EnCpu => exec # hilo[a] /\ Pid(exec) # proceso[a]
      BY <3>1, <3>2, <3>3 DEF ElVolcador, HilosDe
    <3> QED BY <1>2, <2>2, <3>2, <3>4 DEF Inv, Tipos
  <2> QED BY <1>3, <2>1, <2>2
<1>6. Tipos'
  BY <1>1, <1>2 DEF Inv, Tipos
<1>7. Lugares'
  BY <1>1, <1>2, <1>3 DEF Inv, Tipos, Lugares
<1>8. Ejecucion'
  BY <1>1, <1>2, <1>3, <1>5 DEF Inv, Tipos, Ejecucion
<1>9. Creados'
  BY <1>1, <1>2, <1>3, <1>5 DEF Inv, Tipos, Lugares, Creados, Exclusivo
<1>10. EnBlocked'
  BY <1>1, <1>2 DEF Inv, Tipos, EnBlocked
<1>11. UnaEspera'
  BY <1>1, <1>2 DEF Inv, Tipos, UnaEspera
<1>12. Uniones'
  BY <1>1, <1>2, <1>3, <1>4 DEF Inv, Tipos, Lugares, Uniones
<1>13. UnSoloLugar'
  BY <1>1, <1>2 DEF Inv, Tipos, UnSoloLugar, EnMano
<1>14. EnFinal'
  <2>1. \A b \in Actores \ {a} : (Finaliza(b)' <=> Finaliza(b)) /\ (Finaliza(b) => Exclusivo(b)')
    BY <1>1, <1>2 DEF Inv, Tipos, EnFinal, Exclusivo
  <2>2. \A b \in Actores \ {a} : Finaliza(b) => DeMayorAMenor(b)'
    BY <1>1, <1>2 DEF Inv, Tipos, EnFinal, DeMayorAMenor, HilosDe, Exclusivo
  <2>3. Exclusivo(a)'
    BY <1>1, <1>2 DEF Inv, Tipos, Exclusivo
  <2>4. DeMayorAMenor(a)'
    <3>1. \A h \in HilosDe(proceso[a])' :
             h \in HilosDe(proceso[a]) /\ Tid(h) <= Tid(hilo[a]) /\ h # hilo[a] /\ h \in Hilos
      BY <1>1, <1>2 DEF Inv, Tipos, DeMayorAMenor, HilosDe
    <3>2. \A h \in HilosDe(proceso[a])' : Tid(h) # Tid(hilo[a])
      BY <1>1, <3>1, HilosPares DEF HilosDe
    <3>3. \A h \in HilosDe(proceso[a])' : Tid(h) < Tid(hilo[a])
      BY <1>1, <3>1, <3>2, HilosPares
    <3> QED
      BY <1>1, <1>2, <3>1, <3>3 DEF Inv, Tipos, DeMayorAMenor
  <2>5. Finaliza(STS)' => ElPlanificador'
    BY <1>1, <1>2 DEF Inv, Tipos, EnFinal, ElPlanificador
  <2>6. \A v \in Volcadores : Finaliza(v)' => ElVolcador(v)'
    BY <1>1, <1>2 DEF Inv, Tipos, EnFinal, ElVolcador, HilosDe
  <2> QED BY <1>1, <2>1, <2>2, <2>3, <2>4, <2>5, <2>6 DEF EnFinal
<1> QED BY <1>6, <1>7, <1>8, <1>9, <1>10, <1>11, <1>12, <1>13, <1>14 DEF Inv

(* The process is destroyed. *)
LEMMA InvDestruirProceso ==
    ASSUME Inv, NEW a \in Actores, DestruirProceso(a)
    PROVE  Inv'
<1>1. Tipos' /\ Lugares' /\ Ejecucion' /\ Creados'
  BY DEF Inv, DestruirProceso, Tipos, Lugares, Ejecucion, Creados, EnBlocked,
     UnaEspera, Uniones, EnFinal, Exclusivo, DeMayorAMenor, ElPlanificador,
     ElVolcador, HilosDe
<1>2. EnBlocked' /\ UnaEspera' /\ Uniones'
  BY DEF Inv, DestruirProceso, EnBlocked, UnaEspera, Uniones
<1>3. UnSoloLugar'
  BY DEF Inv, DestruirProceso, UnSoloLugar, EnMano
<1>4. EnFinal'
  BY DEF Inv, DestruirProceso, Tipos, Lugares, EnFinal, Exclusivo,
     DeMayorAMenor, ElPlanificador, ElVolcador, HilosDe
<1> QED BY <1>1, <1>2, <1>3, <1>4 DEF Inv

(* The search in EXEC finds the thread sought. *)
LEMMA InvBuscarVictimaEnExec ==
    ASSUME Inv, NEW a \in Actores, BuscarVictimaEnExec(a)
    PROVE  Inv'
<1>1. Tipos' /\ Lugares' /\ Ejecucion' /\ Creados'
  BY DEF Inv, BuscarVictimaEnExec, Tipos, Lugares, Ejecucion, Creados
<1>2. EnBlocked' /\ UnaEspera' /\ Uniones'
  BY DEF Inv, BuscarVictimaEnExec, Tipos, EnBlocked, UnaEspera, Uniones
<1>3. UnSoloLugar'
  BY DEF Inv, BuscarVictimaEnExec, Tipos, UnSoloLugar, EnMano
<1>4. EnFinal'
  BY DEF Inv, BuscarVictimaEnExec, Tipos, Lugares, Ejecucion, Creados,
     EnBlocked, UnaEspera, UnSoloLugar, EnMano, EnFinal, Exclusivo,
     DeMayorAMenor, ElPlanificador, ElVolcador, HilosDe
<1> QED BY <1>1, <1>2, <1>3, <1>4 DEF Inv

(* The semaphore is discounted. *)
LEMMA InvDescontar ==
    ASSUME Inv, NEW a \in Actores, Descontar(a)
    PROVE  Inv'
<1>1. Tipos' /\ Lugares' /\ Ejecucion' /\ Creados'
  BY DEF Inv, Descontar, Tipos, Lugares, Ejecucion, Creados
<1>2. EnBlocked' /\ UnaEspera' /\ Uniones'
  BY DEF Inv, Descontar, EnBlocked, UnaEspera, Uniones
<1>3. UnSoloLugar'
  BY DEF Inv, Descontar, UnSoloLugar, EnMano
<1>4. EnFinal'
  BY DEF Inv, Descontar, EnFinal, Exclusivo, DeMayorAMenor, ElPlanificador,
     ElVolcador, HilosDe
<1> QED BY <1>1, <1>2, <1>3, <1>4 DEF Inv

(* The thread leaves BLOCKED. *)
LEMMA InvRemoverDeBlocked ==
    ASSUME Inv, NEW a \in Actores, RemoverDeBlocked(a)
    PROVE  Inv'
<1>1. Tipos' /\ Lugares' /\ Ejecucion' /\ Creados'
  BY DEF Inv, RemoverDeBlocked, Tipos, Lugares, Ejecucion, Creados, EnBlocked,
     UnaEspera, Uniones, EnFinal, Exclusivo, DeMayorAMenor, ElPlanificador,
     ElVolcador, HilosDe
<1>2. EnBlocked' /\ UnaEspera' /\ Uniones'
  BY DEF Inv, RemoverDeBlocked, Tipos, Lugares, Ejecucion, Creados, EnBlocked,
     UnaEspera, Uniones, EnFinal, Exclusivo, DeMayorAMenor, ElPlanificador,
     ElVolcador, HilosDe
<1>3. UnSoloLugar'
  BY DEF Inv, RemoverDeBlocked, Tipos, Lugares, Ejecucion, Creados, EnBlocked,
     UnaEspera, UnSoloLugar, EnMano, Uniones, EnFinal, Exclusivo,
     DeMayorAMenor, ElPlanificador, ElVolcador, HilosDe
<1>4. EnFinal'
  BY DEF Inv, RemoverDeBlocked, Tipos, EnFinal, Exclusivo, DeMayorAMenor,
     ElPlanificador, ElVolcador, HilosDe
<1> QED BY <1>1, <1>2, <1>3, <1>4 DEF Inv

(* The thread leaves READY. *)
LEMMA InvRemoverDeReady ==
    ASSUME Inv, NEW a \in Actores, RemoverDeReady(a)
    PROVE  Inv'
<1>1. Tipos' /\ Lugares' /\ Ejecucion' /\ Creados'
  BY DEF Inv, RemoverDeReady, RemoverYSeguir, Tipos, Lugares, Ejecucion,
     Creados, EnBlocked, UnaEspera, Uniones, EnFinal, Exclusivo,
     DeMayorAMenor, ElPlanificador, ElVolcador, HilosDe
<1>2. EnBlocked' /\ UnaEspera' /\ Uniones'
  BY DEF Inv, RemoverDeReady, RemoverYSeguir, EnBlocked, UnaEspera, Uniones
<1>3. UnSoloLugar'
  BY DEF Inv, RemoverDeReady, RemoverYSeguir, Tipos, Lugares, Ejecucion,
     Creados, EnBlocked, UnaEspera, UnSoloLugar, EnMano, Uniones, EnFinal,
     Exclusivo, DeMayorAMenor, ElPlanificador, ElVolcador, HilosDe
<1>4. EnFinal'
  BY DEF Inv, RemoverDeReady, RemoverYSeguir, EnFinal, Exclusivo,
     DeMayorAMenor, ElPlanificador, ElVolcador, HilosDe
<1> QED BY <1>1, <1>2, <1>3, <1>4 DEF Inv

(* The next thread of the process to end. *)
LEMMA InvSiguienteAFinalizar ==
    ASSUME Inv, NEW a \in Actores, NEW h \in Hilos, SiguienteAFinalizar(a, h)
    PROVE  Inv'
<1>1. Tipos' /\ Lugares' /\ Ejecucion' /\ Creados'
  BY DEF Inv, SiguienteAFinalizar, Tipos, Lugares, Ejecucion, Creados
<1>2. EnBlocked' /\ UnaEspera' /\ Uniones'
  BY DEF Inv, SiguienteAFinalizar, EnBlocked, UnaEspera, Uniones
<1>3. UnSoloLugar'
  BY DEF Inv, SiguienteAFinalizar, UnSoloLugar, EnMano
<1>4. EnFinal'
  BY DEF Inv, SiguienteAFinalizar, Tipos, EnFinal, Exclusivo, DeMayorAMenor,
     ElPlanificador, ElVolcador, HilosDe
<1> QED BY <1>1, <1>2, <1>3, <1>4 DEF Inv

(* A thread that waited for the one that ends wakes up. *)
LEMMA InvLiberarEspera ==
    ASSUME Inv, NEW a \in Actores, NEW h \in Hilos, LiberarEspera(a, h)
    PROVE  Inv'
<1>1. Tipos' /\ Lugares' /\ Ejecucion' /\ Creados'
  BY DEF Inv, LiberarEspera, Despertar, Tipos, Lugares, Ejecucion, Creados,
     EnBlocked, UnaEspera, Uniones, EnFinal, Exclusivo, DeMayorAMenor,
     ElPlanificador, ElVolcador, HilosDe
<1>2. EnBlocked' /\ UnaEspera' /\ Uniones'
  BY DEF Inv, LiberarEspera, Despertar, Tipos, Lugares, Ejecucion, Creados,
     EnBlocked, UnaEspera, Uniones, EnFinal, Exclusivo, DeMayorAMenor,
     ElPlanificador, ElVolcador, HilosDe
<1>3. UnSoloLugar'
  BY DEF Inv, LiberarEspera, Despertar, UnSoloLugar, EnMano
<1>4. EnFinal'
  BY DEF Inv, LiberarEspera, Despertar, Tipos, Lugares, Ejecucion, Creados,
     EnBlocked, UnaEspera, Uniones, EnFinal, Exclusivo, DeMayorAMenor,
     ElPlanificador, ElVolcador, HilosDe
<1> QED BY <1>1, <1>2, <1>3, <1>4 DEF Inv

(* Each step of each actor keeps the invariant. *)
LEMMA InvPaso ==
    ASSUME ~Interferencias, Inv, [NextFinalizacion]_todas
    PROVE  Inv'
<1>1. CASE Igual(PlanificadorLargo)
  BY <1>1, InvNewAReady DEF Igual, PlanificadorLargo
<1>2. CASE Igual(Syscall)
  BY <1>2, InvExecAReady, InvBloquearMutex, InvIO, InvDumpMemory, InvFinalizarHilo,
     InvCrearHilo, InvDesbloquearMutex, InvEsperarHilo DEF Igual, Syscall
<1>3. CASE FinalizarProceso
  BY <1>3, InvFinalizarProceso
<1>4. CASE Igual(PlanificadorCorto)
  BY <1>4, InvEsperarReady, InvReadyAExec, InvBloquear, InvEncolar, InvAvisarIO,
     InvLiberarMutex, InvDestruirHilo, InvBuscarEnExec, InvUnir, InvSeguirSinUnir,
     InvLiberarUnido, InvLanzarDump DEF Igual, PlanificadorCorto
<1>5. CASE Igual(Dispositivo)
  BY <1>5, InvEsperarIO, InvDesencolar DEF Igual, Dispositivo
<1>6. ASSUME NEW v \in Volcadores, PasoDump(v) PROVE Inv'
  BY <1>6, InvDumpConfirmado, InvDumpRechazado DEF Igual, PasoDump
<1>7. ASSUME NEW a \in Actores, Igual(Mover(a)) PROVE Inv'
  BY <1>7, InvAgregar, InvAvisar, InvSacar, InvBuscarEnReady, InvBuscarEnBlocked
     DEF Igual, Mover
<1>8. ASSUME NEW a \in Actores, PasoFinalizacion(a) PROVE Inv'
  BY <1>8, InvDesvincular, InvDestruirProceso, InvBuscarVictimaEnExec,
     InvSiguienteAFinalizar, InvLiberarEspera, InvRemoverDeReady, InvDescontar,
     InvRemoverDeBlocked DEF PasoFinalizacion
<1>9. CASE UNCHANGED todas
  BY <1>9, InvQuieto
<1> QED
  BY <1>1, <1>2, <1>3, <1>4, <1>5, <1>6, <1>7, <1>8, <1>9 DEF NextFinalizacion, PasoActor

(* The invariant holds at every step of every move and of every end. *)
LEMMA Invariante ==
    ASSUME ~Interferencias
    PROVE  SpecFinalizacion => []Inv
<1>1. Inv /\ [NextFinalizacion]_todas => Inv'
  BY InvPaso
<1> QED BY <1>1, InvInicial, PTL DEF SpecFinalizacion

(* If nobody else has a thread of the process that ends, a thread that has *)
(* not ended is in one list, in EXEC or in the hands of one POSIX thread,  *)
(* and in one only, at each step of finalizar_proceso_por_pid too.         *)
THEOREM UnLugarAlFinalizar ==
    ASSUME ~Interferencias
    PROVE  SpecFinalizacion => []UnSoloLugar
<1>1. Inv => UnSoloLugar
  BY DEF Inv
<1> QED BY <1>1, Invariante, PTL

-----------------------------------------------------------------------------
(* The semaphores: each counts the elements of its list, but for the ones  *)
(* added and not announced yet, the ones removed and not discounted yet,   *)
(* and the token that its consumer has.                                    *)

Descontando == {a \in Actores : pc[a] = "descontar"}
Cuentas ==
    /\ semaforo \in Nat /\ semaforo_io \in Nat
    /\ Cardinality(ready) + Cardinality(Descontando) = semaforo + Cardinality(Avisando) + Ficha
    /\ Cardinality(cola_io) = semaforo_io + FichasIO

InvCuentas == Inv /\ Cuentas /\ SinCaida

(* What a step that touches no semaphore must be shown to keep. *)
IgualReady ==
    /\ ready' = ready /\ semaforo' = semaforo /\ Ficha' = Ficha
    /\ Avisando' = Avisando /\ Descontando' = Descontando
IgualCuentas == IgualReady /\ IgualIO /\ caida' = caida

(* What the semaphores count is finite. *)
LEMMA ConjuntosFinitos ==
    ASSUME Inv
    PROVE  /\ IsFiniteSet(ready) /\ IsFiniteSet(cola_io)
           /\ IsFiniteSet(Avisando) /\ IsFiniteSet(Descontando)
           /\ Cardinality(ready) \in Nat
           /\ Cardinality(Avisando) \in Nat /\ Cardinality(Descontando) \in Nat
<1>1. IsFiniteSet(ready) /\ IsFiniteSet(cola_io)
  <2>1. ready \subseteq Hilos /\ cola_io \subseteq Hilos
    BY DEF Inv, Tipos, EnBlocked
  <2> QED BY <2>1, TransicionesAssumption, FS_Subset
<1>2. IsFiniteSet(Actores)
  <2>1. IsFiniteSet({LP} \cup {STS})
    BY FS_Singleton, FS_AddElement
  <2>2. IsFiniteSet(({LP} \cup {STS}) \cup {DIO})
    BY <2>1, FS_AddElement
  <2>3. ({LP} \cup {STS}) \cup {DIO} = {LP, STS, DIO}
    OBVIOUS
  <2> QED BY <2>2, <2>3, TransicionesAssumption, FS_Union DEF Actores
<1>3. IsFiniteSet(Avisando) /\ IsFiniteSet(Descontando)
  BY <1>2, FS_Subset DEF Avisando, Descontando
<1> QED BY <1>1, <1>3, FS_CardinalityType

(* A step that touches no semaphore and no list that one counts. *)
LEMMA CuentasIguales == InvCuentas /\ IgualCuentas => Cuentas' /\ SinCaida'
BY DEF InvCuentas, IgualCuentas, IgualReady, IgualIO, Cuentas, SinCaida

(* The steps that touch a semaphore or a list that one counts. *)
LEMMA CuentasAgregar ==
    ASSUME InvCuentas, NEW a \in Actores, Agregar(a)
    PROVE  Cuentas' /\ SinCaida'
<1>1. hilo[a] \notin ready /\ a \notin Avisando /\ ready' = ready \cup {hilo[a]}
  BY DEF InvCuentas, Inv, UnSoloLugar, Agregar, Avisando
<1>2. /\ Avisando' = Avisando \cup {a} /\ Descontando' = Descontando /\ Ficha' = Ficha
      /\ IgualIO /\ semaforo' = semaforo /\ caida' = caida
  BY DEF InvCuentas, Inv, Tipos, Agregar, Avisando, Descontando, Ficha, IgualIO, FichasIO
<1>3. /\ Cardinality(ready') = Cardinality(ready) + 1
      /\ Cardinality(Avisando') = Cardinality(Avisando) + 1 /\ Cardinality(ready) \in Nat
      /\ Cardinality(Avisando) \in Nat /\ Cardinality(Descontando) \in Nat
  BY <1>1, <1>2, ConjuntosFinitos, FS_AddElement DEF InvCuentas
<1> QED BY <1>2, <1>3 DEF InvCuentas, Cuentas, SinCaida, IgualIO, Ficha

(* The post that was due. *)
LEMMA CuentasAvisar ==
    ASSUME InvCuentas, NEW a \in Actores, Avisar(a)
    PROVE  Cuentas' /\ SinCaida'
<1>1. a \in Avisando /\ Avisando' = Avisando \ {a} /\ Descontando' = Descontando
  BY DEF InvCuentas, Inv, Tipos, Lugares, Avisar, Avisando, Descontando
<1>2. /\ Ficha' = Ficha /\ IgualIO /\ ready' = ready /\ semaforo' = semaforo + 1
      /\ caida' = caida
  BY DEF InvCuentas, Inv, Lugares, Avisar, Ficha, IgualIO, FichasIO
<1>3. /\ Cardinality(Avisando') = Cardinality(Avisando) - 1
      /\ Cardinality(Avisando) \in Nat /\ Cardinality(Descontando) \in Nat
  BY <1>1, ConjuntosFinitos, FS_RemoveElement DEF InvCuentas
<1> QED BY <1>1, <1>2, <1>3 DEF InvCuentas, Cuentas, SinCaida, IgualIO, Ficha

(* The planner takes a token. *)
LEMMA CuentasEsperar == ASSUME InvCuentas, EsperarReady PROVE Cuentas' /\ SinCaida'
<1>1. /\ Avisando' = Avisando /\ Descontando' = Descontando /\ Ficha = 0 /\ Ficha' = 1
      /\ semaforo' = semaforo - 1 /\ semaforo > 0 /\ ready' = ready /\ IgualIO
      /\ caida' = caida
  BY DEF InvCuentas, Inv, Tipos, EsperarReady, Avisando, Descontando, Ficha, IgualIO,
     FichasIO
<1>2. Cardinality(Avisando) \in Nat /\ Cardinality(Descontando) \in Nat
  BY ConjuntosFinitos DEF InvCuentas
<1> QED BY <1>1, <1>2 DEF InvCuentas, Cuentas, SinCaida, IgualIO

(* Only the planner removes threads from READY: when it has a token none   *)
(* is removed and not discounted, so it finds a thread.                    *)
LEMMA CuentasElegir == ASSUME InvCuentas, ReadyAExec PROVE Cuentas' /\ SinCaida'
<1>1. Cardinality(Avisando) \in Nat /\ Cardinality(ready) \in Nat
  BY ConjuntosFinitos DEF InvCuentas
<1>2. Descontando = {}
  BY DEF InvCuentas, Inv, Lugares, ReadyAExec, Descontando
<1>3. Cardinality(Descontando) = 0
  BY <1>2, FS_EmptySet
<1>4. Ficha = 1 /\ Cardinality(ready) # 0
  BY <1>1, <1>3 DEF InvCuentas, Cuentas, ReadyAExec, Ficha
<1>5. ready # {}
  BY <1>4, FS_EmptySet
<1>6. PICK h \in ready : ready' = ready \ {h}
  BY <1>5 DEF ReadyAExec
<1>7. /\ Avisando' = Avisando /\ Descontando' = Descontando /\ Ficha' = 0
      /\ semaforo' = semaforo /\ IgualIO /\ caida' = caida
  BY <1>5 DEF InvCuentas, Inv, Tipos, ReadyAExec, Avisando, Descontando, Ficha, IgualIO,
     FichasIO
<1>8. Cardinality(ready') = Cardinality(ready) - 1
  BY <1>6, ConjuntosFinitos, FS_RemoveElement DEF InvCuentas
<1> QED BY <1>1, <1>3, <1>4, <1>7, <1>8 DEF InvCuentas, Cuentas, SinCaida, IgualIO

(* A thread removed from READY is to be discounted. *)
LEMMA CuentasRemover ==
    ASSUME InvCuentas, NEW a \in Actores, RemoverDeReady(a)
    PROVE  Cuentas' /\ SinCaida'
<1>1. CASE victima[a] \in ready
  <2>1. /\ a \notin Descontando /\ Descontando' = Descontando \cup {a}
        /\ Avisando' = Avisando /\ Ficha' = Ficha /\ IgualIO
        /\ semaforo' = semaforo /\ caida' = caida /\ ready' = ready \ {victima[a]}
    BY <1>1 DEF InvCuentas, Inv, Tipos, RemoverDeReady, RemoverYSeguir, Avisando,
       Descontando, Ficha, IgualIO, FichasIO
  <2>2. /\ Cardinality(ready') = Cardinality(ready) - 1
        /\ Cardinality(Descontando') = Cardinality(Descontando) + 1
        /\ Cardinality(Avisando) \in Nat /\ Cardinality(Descontando) \in Nat
        /\ Cardinality(ready) \in Nat
    BY <1>1, <2>1, ConjuntosFinitos, FS_AddElement, FS_RemoveElement DEF InvCuentas
  <2> QED BY <2>1, <2>2 DEF InvCuentas, Cuentas, SinCaida, IgualIO, Ficha
<1>2. CASE victima[a] \notin ready
  <2>1. IgualCuentas
    BY <1>2 DEF InvCuentas, Inv, Tipos, RemoverDeReady, RemoverYSeguir, IgualCuentas,
       IgualReady, IgualIO, Avisando, Descontando, Ficha, FichasIO
  <2> QED BY <2>1, CuentasIguales
<1> QED BY <1>1, <1>2

(* It is discounted. *)
LEMMA CuentasDescontar ==
    ASSUME InvCuentas, NEW a \in Actores, Descontar(a)
    PROVE  Cuentas' /\ SinCaida'
<1>1. /\ a \in Descontando /\ Descontando' = Descontando \ {a} /\ Avisando' = Avisando
      /\ Ficha' = Ficha /\ IgualIO /\ semaforo' = semaforo - 1 /\ semaforo > 0
      /\ caida' = caida /\ ready' = ready
  BY DEF InvCuentas, Inv, Tipos, Descontar, Avisando, Descontando, Ficha, IgualIO, FichasIO
<1>2. /\ Cardinality(Descontando') = Cardinality(Descontando) - 1 /\ Cardinality(ready) \in Nat
      /\ Cardinality(Avisando) \in Nat /\ Cardinality(Descontando) \in Nat
  BY <1>1, ConjuntosFinitos, FS_RemoveElement DEF InvCuentas
<1> QED BY <1>1, <1>2 DEF InvCuentas, Cuentas, SinCaida, IgualIO, Ficha

(* A request is queued before it is announced. *)
LEMMA CuentasEncolar == ASSUME InvCuentas, Encolar PROVE Cuentas' /\ SinCaida'
<1>1. hilo[STS] \notin cola_io /\ cola_io' = cola_io \cup {hilo[STS]}
  BY DEF InvCuentas, Inv, UnaEspera, Encolar
<1>2. IgualReady /\ FichasIO' = FichasIO + 1 /\ semaforo_io' = semaforo_io /\ caida' = caida
  BY DEF InvCuentas, Inv, Tipos, Encolar, IgualReady, Avisando, Descontando, Ficha, FichasIO
<1>3. Cardinality(cola_io') = Cardinality(cola_io) + 1
  BY <1>1, ConjuntosFinitos, FS_AddElement DEF InvCuentas
<1> QED BY <1>2, <1>3 DEF InvCuentas, Cuentas, SinCaida, IgualReady, FichasIO

(* The announcement of a request. *)
LEMMA CuentasAvisarIO == ASSUME InvCuentas, AvisarIO PROVE Cuentas' /\ SinCaida'
<1>1. /\ IgualReady /\ FichasIO' = FichasIO - 1 /\ semaforo_io' = semaforo_io + 1
      /\ cola_io' = cola_io /\ caida' = caida
  BY DEF InvCuentas, Inv, Tipos, AvisarIO, IgualReady, Avisando, Descontando, Ficha,
     FichasIO
<1> QED BY <1>1 DEF InvCuentas, Cuentas, SinCaida, IgualReady, FichasIO

(* The device takes a token. *)
LEMMA CuentasEsperarIO == ASSUME InvCuentas, EsperarIO PROVE Cuentas' /\ SinCaida'
<1>1. /\ IgualReady /\ FichasIO' = FichasIO + 1 /\ semaforo_io' = semaforo_io - 1
      /\ semaforo_io > 0 /\ cola_io' = cola_io /\ caida' = caida
  BY DEF InvCuentas, Inv, Tipos, EsperarIO, IgualReady, Avisando, Descontando, Ficha,
     FichasIO
<1> QED BY <1>1 DEF InvCuentas, Cuentas, SinCaida, IgualReady, FichasIO

(* The device that has the token finds a request: no process that ends has *)
(* a thread in its queue.                                                  *)
LEMMA CuentasDesencolar == ASSUME InvCuentas, Desencolar PROVE Cuentas' /\ SinCaida'
<1>1. FichasIO \in Nat /\ FichasIO # 0
  BY DEF Desencolar, FichasIO
<1>2. Cardinality(cola_io) # 0
  BY <1>1 DEF InvCuentas, Cuentas
<1>3. cola_io # {}
  BY <1>2, FS_EmptySet
<1>4. PICK h \in cola_io : cola_io' = cola_io \ {h}
  BY <1>3 DEF Desencolar
<1>5. IgualReady /\ FichasIO' = FichasIO - 1 /\ semaforo_io' = semaforo_io /\ caida' = caida
  BY <1>3 DEF InvCuentas, Inv, Tipos, Desencolar, IgualReady, Avisando, Descontando, Ficha,
     FichasIO
<1>6. Cardinality(cola_io') = Cardinality(cola_io) - 1
  BY <1>4, ConjuntosFinitos, FS_RemoveElement DEF InvCuentas
<1> QED BY <1>5, <1>6 DEF InvCuentas, Cuentas, SinCaida, IgualReady, FichasIO

(* The search for a thread of the process that ends finds it: nobody moves *)
(* it meanwhile, so if it is in neither list it is the one in EXEC.        *)
LEMMA LaVictimaEstaEnExec ==
    ASSUME Inv, NEW a \in Actores, BuscarVictimaEnExec(a)
    PROVE  exec # Ninguno /\ Tid(exec) = Tid(hilo[a])
<1>1. a = STS /\ Finaliza(STS) /\ Buscada(STS) /\ pc[STS] = "buscar_exec"
  BY DEF Inv, Lugares, BuscarVictimaEnExec
<1>2. hilo[STS] \in vivos /\ hilo[STS] \notin ready \cup blocked
  BY <1>1 DEF Inv, EnFinal, DeMayorAMenor, ElPlanificador, HilosDe
<1>3. ~EnMano(hilo[STS])
  <2>1. \A b \in Actores \ {STS} : Manos(b) => hilo[b] # hilo[STS]
    BY <1>1 DEF Inv, EnFinal, Exclusivo, DeMayorAMenor, HilosDe
  <2> QED BY <1>1, <2>1 DEF EnMano
<1>4. exec = hilo[STS]
  BY <1>2, <1>3 DEF Inv, UnSoloLugar
<1> QED BY <1>1, <1>2, <1>4 DEF Inv, Tipos

(* What the CPU asks touches no semaphore at once. *)
LEMMA CuentasSyscall ==
    ASSUME InvCuentas, Syscall
    PROVE  Cuentas' /\ SinCaida'
<1>1. ExecAReady => IgualCuentas
  BY DEF InvCuentas, Inv, Tipos, Lugares, ExecAReady, IgualCuentas,
     IgualReady, IgualIO, Avisando, Descontando, Ficha, FichasIO
<1>2. BloquearMutex => IgualCuentas
  BY DEF InvCuentas, Inv, Tipos, Lugares, BloquearMutex, ExecABlocked,
     IgualCuentas, IgualReady, IgualIO, Avisando, Descontando, Ficha, FichasIO
<1>3. IO => IgualCuentas
  BY DEF InvCuentas, Inv, Tipos, Lugares, IO, ExecABlocked, IgualCuentas,
     IgualReady, IgualIO, Avisando, Descontando, Ficha, FichasIO
<1>4. DumpMemory => IgualCuentas
  BY DEF InvCuentas, Inv, Tipos, Lugares, DumpMemory, ExecABlocked,
     IgualCuentas, IgualReady, IgualIO, Avisando, Descontando, Ficha, FichasIO
<1>5. FinalizarHilo => IgualCuentas
  BY DEF InvCuentas, Inv, Tipos, Lugares, FinalizarHilo, IgualCuentas,
     IgualReady, IgualIO, Avisando, Descontando, Ficha, FichasIO
<1>6. ASSUME NEW h \in Hilos, CrearHilo(h) PROVE IgualCuentas
  BY <1>6 DEF InvCuentas, Inv, Tipos, Lugares, CrearHilo, IgualCuentas,
     IgualReady, IgualIO, Avisando, Descontando, Ficha, FichasIO
<1>7. ASSUME NEW h \in Hilos, DesbloquearMutex(h) PROVE IgualCuentas
  BY <1>7 DEF InvCuentas, Inv, Tipos, Lugares, DesbloquearMutex, Despertar,
     IgualCuentas, IgualReady, IgualIO, Avisando, Descontando, Ficha, FichasIO
<1>8. ASSUME NEW h \in Hilos, EsperarHilo(h) PROVE IgualCuentas
  BY <1>8 DEF InvCuentas, Inv, Tipos, Lugares, EsperarHilo, IgualCuentas,
     IgualReady, IgualIO, Avisando, Descontando, Ficha, FichasIO
<1> QED BY <1>1, <1>2, <1>3, <1>4, <1>5, <1>6, <1>7, <1>8, CuentasIguales DEF Syscall

(* The steps of the planner. *)
LEMMA CuentasPlanificadorCorto ==
    ASSUME InvCuentas, PlanificadorCorto
    PROVE  Cuentas' /\ SinCaida'
<1>1. Bloquear => IgualCuentas
  BY DEF InvCuentas, Inv, Tipos, Lugares, Bloquear, IgualCuentas, IgualReady,
     IgualIO, Avisando, Descontando, Ficha, FichasIO
<1>2. LiberarMutex => IgualCuentas
  BY DEF InvCuentas, Inv, Tipos, Lugares, LiberarMutex, Despertar,
     IgualCuentas, IgualReady, IgualIO, Avisando, Descontando, Ficha, FichasIO
<1>3. DestruirHilo => IgualCuentas
  BY DEF InvCuentas, Inv, Tipos, Lugares, DestruirHilo, IgualCuentas,
     IgualReady, IgualIO, Avisando, Descontando, Ficha, FichasIO
<1>4. BuscarEnExec => IgualCuentas
  BY DEF InvCuentas, Inv, Tipos, Lugares, BuscarEnExec, IgualCuentas,
     IgualReady, IgualIO, Avisando, Descontando, Ficha, FichasIO
<1>5. Unir => IgualCuentas
  BY DEF InvCuentas, Inv, Tipos, Lugares, Unir, ExecABlocked, IgualCuentas,
     IgualReady, IgualIO, Avisando, Descontando, Ficha, FichasIO
<1>6. SeguirSinUnir => IgualCuentas
  BY DEF InvCuentas, Inv, Tipos, Lugares, SeguirSinUnir, IgualCuentas,
     IgualReady, IgualIO, Avisando, Descontando, Ficha, FichasIO
<1>7. ASSUME NEW h \in Hilos, LiberarUnido(h) PROVE IgualCuentas
  BY <1>7 DEF InvCuentas, Inv, Tipos, Lugares, LiberarUnido, Despertar,
     IgualCuentas, IgualReady, IgualIO, Avisando, Descontando, Ficha, FichasIO
<1>8. ASSUME NEW v \in Volcadores, LanzarDump(v) PROVE IgualCuentas
  BY <1>8 DEF InvCuentas, Inv, Tipos, Lugares, LanzarDump, IgualCuentas,
     IgualReady, IgualIO, Avisando, Descontando, Ficha, FichasIO
<1> QED BY <1>1, <1>2, <1>3, <1>4, <1>5, <1>6, <1>7, <1>8, CuentasEsperar,
     CuentasElegir, CuentasEncolar, CuentasAvisarIO, CuentasIguales DEF PlanificadorCorto

(* The steps of the device. *)
LEMMA CuentasDispositivo ==
    ASSUME InvCuentas, Dispositivo
    PROVE  Cuentas' /\ SinCaida'
  BY CuentasEsperarIO, CuentasDesencolar DEF Dispositivo

(* The answer to a dump touches no semaphore. *)
LEMMA CuentasPasoDump ==
    ASSUME InvCuentas, NEW v \in Volcadores, PasoDump(v)
    PROVE  Cuentas' /\ SinCaida'
<1>1. DumpConfirmado(v) => IgualCuentas
  BY DEF InvCuentas, Inv, Tipos, Lugares, DumpConfirmado, IgualCuentas,
     IgualReady, IgualIO, Avisando, Descontando, Ficha, FichasIO
<1>2. DumpRechazado(v) => IgualCuentas
  BY DEF InvCuentas, Inv, Tipos, Lugares, DumpRechazado, Finalizar,
     IgualCuentas, IgualReady, IgualIO, Avisando, Descontando, Ficha, FichasIO
<1> QED BY <1>1, <1>2, CuentasIguales DEF PasoDump, Igual

(* Each half of a move. *)
LEMMA CuentasMover ==
    ASSUME InvCuentas, NEW a \in Actores, Mover(a)
    PROVE  Cuentas' /\ SinCaida'
<1>1. Sacar(a) => IgualCuentas
  BY DEF InvCuentas, Inv, Tipos, Lugares, Sacar, IgualCuentas, IgualReady,
     IgualIO, Avisando, Descontando, Ficha, FichasIO
<1>2. BuscarEnReady(a) => IgualCuentas
  BY DEF InvCuentas, Inv, Tipos, Lugares, BuscarEnReady, IgualCuentas,
     IgualReady, IgualIO, Avisando, Descontando, Ficha, FichasIO
<1>3. BuscarEnBlocked(a) => IgualCuentas
  BY DEF InvCuentas, Inv, Tipos, Lugares, BuscarEnBlocked, IgualCuentas,
     IgualReady, IgualIO, Avisando, Descontando, Ficha, FichasIO
<1> QED BY <1>1, <1>2, <1>3, CuentasAgregar, CuentasAvisar, CuentasIguales DEF Mover

(* The steps of the end of a process. *)
LEMMA CuentasPasoFinalizacion ==
    ASSUME InvCuentas, NEW a \in Actores, PasoFinalizacion(a)
    PROVE  Cuentas' /\ SinCaida'
<1>1. Desvincular(a) => IgualCuentas
  BY DEF InvCuentas, Inv, Tipos, Lugares, Desvincular, IgualCuentas,
     IgualReady, IgualIO, Avisando, Descontando, Ficha, FichasIO
<1>2. DestruirProceso(a) => IgualCuentas
  BY DEF InvCuentas, Inv, Tipos, Lugares, DestruirProceso, IgualCuentas,
     IgualReady, IgualIO, Avisando, Descontando, Ficha, FichasIO
<1>3. BuscarVictimaEnExec(a) => IgualCuentas
  BY LaVictimaEstaEnExec DEF InvCuentas, Inv, Tipos, Lugares,
     BuscarVictimaEnExec, IgualCuentas, IgualReady, IgualIO, Avisando,
     Descontando, Ficha, FichasIO
<1>4. ASSUME NEW h \in Hilos, SiguienteAFinalizar(a, h) PROVE IgualCuentas
  BY <1>4 DEF InvCuentas, Inv, Tipos, Lugares, SiguienteAFinalizar,
     IgualCuentas, IgualReady, IgualIO, Avisando, Descontando, Ficha, FichasIO
<1>5. ASSUME NEW h \in Hilos, LiberarEspera(a, h) PROVE IgualCuentas
  BY <1>5 DEF InvCuentas, Inv, Tipos, Lugares, LiberarEspera, Despertar,
     IgualCuentas, IgualReady, IgualIO, Avisando, Descontando, Ficha, FichasIO
<1>6. RemoverDeBlocked(a) => IgualCuentas
  BY DEF InvCuentas, Inv, Tipos, Lugares, RemoverDeBlocked, IgualCuentas,
     IgualReady, IgualIO, Avisando, Descontando, Ficha, FichasIO
<1> QED BY <1>1, <1>2, <1>3, <1>4, <1>5, <1>6, CuentasRemover,
     CuentasDescontar, CuentasIguales DEF PasoFinalizacion

(* PROCESS_EXIT begins. *)
LEMMA CuentasAlFinalizarProceso ==
    ASSUME InvCuentas, FinalizarProceso
    PROVE  Cuentas' /\ SinCaida'
<1>1. FinalizarProceso => IgualCuentas
  BY DEF InvCuentas, Inv, Tipos, Lugares, FinalizarProceso, Finalizar,
     SinInterferencias, IgualCuentas, IgualReady, IgualIO, Avisando,
     Descontando, Ficha, FichasIO
<1> QED BY <1>1, CuentasIguales

(* The long-term planner posts after it adds. *)
LEMMA CuentasPlanificadorLargo ==
    ASSUME InvCuentas, PlanificadorLargo
    PROVE  Cuentas' /\ SinCaida'
<1>1. ASSUME NEW h \in Hilos, NewAReady(h) PROVE IgualCuentas
  BY <1>1 DEF InvCuentas, Inv, Tipos, Lugares, NewAReady, IgualCuentas,
     IgualReady, IgualIO, Avisando, Descontando, Ficha, FichasIO
<1> QED BY <1>1, CuentasIguales DEF PlanificadorLargo

(* The accounts of both semaphores are inductive. *)
LEMMA CuentasPaso ==
    ASSUME ~Interferencias, InvCuentas, [NextFinalizacion]_todas
    PROVE  InvCuentas'
<1>1. Inv'
  BY InvPaso DEF InvCuentas
<1>2. CASE Igual(PlanificadorLargo) \/ Igual(Syscall) \/ Igual(PlanificadorCorto) \/ Igual(Dispositivo)
  BY <1>1, <1>2, CuentasPlanificadorLargo, CuentasSyscall, CuentasPlanificadorCorto,
     CuentasDispositivo DEF Igual, InvCuentas
<1>3. CASE FinalizarProceso
  BY <1>1, <1>3, CuentasAlFinalizarProceso DEF InvCuentas
<1>4. ASSUME NEW v \in Volcadores, PasoDump(v) PROVE InvCuentas'
  BY <1>1, <1>4, CuentasPasoDump DEF InvCuentas
<1>5. ASSUME NEW a \in Actores, PasoActor(a) PROVE InvCuentas'
  BY <1>1, <1>5, CuentasMover, CuentasPasoFinalizacion DEF PasoActor, Igual, InvCuentas
<1>6. CASE UNCHANGED todas
  <2>1. IgualCuentas
    BY <1>6 DEF todas, vars, IgualCuentas, IgualReady, IgualIO, Avisando, Descontando, Ficha,
       FichasIO
  <2> QED BY <1>1, <2>1, CuentasIguales DEF InvCuentas
<1> QED BY <1>2, <1>3, <1>4, <1>5, <1>6 DEF NextFinalizacion

(* Both semaphores start at 0. *)
LEMMA CuentasInicial == InitFinalizacion => InvCuentas
<1> SUFFICES ASSUME InitFinalizacion PROVE Cuentas /\ SinCaida
  BY InvInicial DEF InvCuentas
<1>1. Avisando = {} /\ Descontando = {} /\ Ficha = 0 /\ FichasIO = 0
  BY DEF InitFinalizacion, Init, Avisando, Descontando, Ficha, FichasIO
<1>2. Cardinality({}) = 0
  BY FS_EmptySet
<1> QED BY <1>1, <1>2 DEF InitFinalizacion, Init, Cuentas, SinCaida

(* The accounts hold at every step. *)
LEMMA InvarianteCuentas ==
    ASSUME ~Interferencias
    PROVE  SpecFinalizacion => []InvCuentas
<1>1. InvCuentas /\ [NextFinalizacion]_todas => InvCuentas'
  BY CuentasPaso
<1> QED BY <1>1, CuentasInicial, PTL DEF SpecFinalizacion

(* semaforo_estado_ready counts the threads of READY, but for the posts    *)
(* and the discounts that are due, also while processes end and the other  *)
(* actors go on: removing a thread and the sem_wait that discounts it are  *)
(* two steps, and nothing that happens between them is lost.               *)
THEOREM SemaforoAlFinalizar ==
    ASSUME ~Interferencias
    PROVE  SpecFinalizacion => []CuentaAlFinalizar
<1>1. InvCuentas => CuentaAlFinalizar
  BY DEF InvCuentas, Cuentas, CuentaAlFinalizar, Avisando, Descontando, Ficha
<1> QED BY <1>1, InvarianteCuentas, PTL

(* And no process that ends makes the kernel use a NULL pointer: the       *)
(* planner and the device find what their semaphores announced, and each   *)
(* thread of the process is found in READY, in BLOCKED or in EXEC.         *)
THEOREM NadieUsaNuloAlFinalizar ==
    ASSUME ~Interferencias
    PROVE  SpecFinalizacion => []SinCaida
<1>1. InvCuentas => SinCaida
  BY DEF InvCuentas
<1> QED BY <1>1, InvarianteCuentas, PTL

-----------------------------------------------------------------------------
(* The refinement: the steps that change the state of no thread, and the   *)
(* ones that move a thread as module Estados says.                         *)

PasoDeEstados ==
    \/ Quieto
    \/ \E x : \/ Mueve(x, "NINGUNO", "READY")
              \/ E!Nadie /\ Mueve(x, "READY", "EXEC")
              \/ Mueve(x, "EXEC", "READY") \/ Mueve(x, "EXEC", "BLOCKED")
              \/ Mueve(x, "BLOCKED", "READY")
              \/ \E desde \in {"READY", "EXEC", "BLOCKED"} : Mueve(x, desde, "EXIT")

(* A step that moves one thread, or none, is a step of the diagram.        *)
LEMMA PasoDeEstadosEsNext == PasoDeEstados => [E!Next]_[h \in Hilos |-> EstadoDe(h)]
<1> SUFFICES ASSUME PasoDeEstados PROVE [E!Next]_[h \in Hilos |-> EstadoDe(h)]
  OBVIOUS
<1>1. CASE Quieto
  BY <1>1 DEF Quieto
<1>2. ASSUME NEW x, Mueve(x, "NINGUNO", "READY") PROVE E!Next
  BY <1>2, MueveEsMover DEF E!Next, E!Crear
<1>3. ASSUME NEW x, E!Nadie, Mueve(x, "READY", "EXEC") PROVE E!Next
  BY <1>3, MueveEsMover DEF E!Next, E!Despachar
<1>4. ASSUME NEW x, Mueve(x, "EXEC", "READY") PROVE E!Next
  BY <1>4, MueveEsMover DEF E!Next, E!Desalojar
<1>5. ASSUME NEW x, Mueve(x, "EXEC", "BLOCKED") PROVE E!Next
  BY <1>5, MueveEsMover DEF E!Next, E!Bloquear
<1>6. ASSUME NEW x, Mueve(x, "BLOCKED", "READY") PROVE E!Next
  BY <1>6, MueveEsMover DEF E!Next, E!Despertar
<1>7. ASSUME NEW x, NEW desde \in {"READY", "EXEC", "BLOCKED"}, Mueve(x, desde, "EXIT")
      PROVE  E!Next
  BY <1>7, MueveEsMover DEF E!Next, E!Terminar
<1> QED BY <1>1, <1>2, <1>3, <1>4, <1>5, <1>6, <1>7 DEF PasoDeEstados

USE DEF Quieto, Mueve, PasoDeEstados

(* The end of a thread with its process, from whatever state it is in.     *)
LEMMA EstadosDesvincular ==
    ASSUME Inv, NEW a \in Actores, Desvincular(a)
    PROVE  PasoDeEstados
<1>1. PICK x : x = hilo[a]
  OBVIOUS
<1>2. x \in vivos /\ x \in Hilos /\ Pid(x) = proceso[a]
  BY <1>1 DEF Inv, Tipos, EnFinal, DeMayorAMenor, HilosDe, Desvincular
<1>3. vivos' = vivos \ {x}
  BY <1>1, <1>2, HilosPares DEF Desvincular
<1>4. /\ exec' = exec /\ blocked' = blocked /\ creados' = creados /\ vivos \subseteq creados
      /\ pc'[STS] = "bloquear" <=> pc[STS] = "bloquear"
      /\ pc[STS] = "bloquear" => hilo'[STS] = hilo[STS]
  BY DEF Inv, Tipos, Desvincular
<1>5. EstadoDe(x) \in {"READY", "EXEC", "BLOCKED"} /\ EstadoDe(x)' = "EXIT"
  BY <1>2, <1>3, <1>4 DEF EstadoDe
<1>6. \A h \in Hilos \ {x} : EstadoDe(h)' = EstadoDe(h)
  BY <1>2, <1>3, <1>4 DEF EstadoDe
<1> QED BY <1>2, <1>5, <1>6

(* A new thread is READY. *)
LEMMA EstadosPlanificadorLargo ==
    ASSUME Inv, PlanificadorLargo
    PROVE  PasoDeEstados
<1>1. ASSUME NEW h \in Hilos, NewAReady(h) PROVE PasoDeEstados
  BY <1>1 DEF Inv, Tipos, Creados, EstadoDe, NewAReady
<1> QED BY <1>1 DEF PlanificadorLargo

(* What the CPU asks of the planner. *)
LEMMA EstadosSyscall ==
    ASSUME Inv, Syscall
    PROVE  PasoDeEstados
<1>1. CASE ExecAReady
  BY <1>1 DEF Inv, Tipos, Lugares, EstadoDe, ExecAReady
<1>2. CASE BloquearMutex
  BY <1>2 DEF Inv, Tipos, Lugares, EstadoDe, BloquearMutex, ExecABlocked
<1>3. CASE IO
  BY <1>3 DEF Inv, Tipos, Lugares, EstadoDe, IO, ExecABlocked
<1>4. CASE DumpMemory
  BY <1>4 DEF Inv, Tipos, Lugares, EstadoDe, DumpMemory, ExecABlocked
<1>5. CASE FinalizarHilo
  BY <1>5 DEF Inv, Tipos, Lugares, EstadoDe, FinalizarHilo
<1>6. ASSUME NEW h \in Hilos, CrearHilo(h) PROVE PasoDeEstados
  BY <1>6 DEF Inv, Tipos, EstadoDe, CrearHilo
<1>7. ASSUME NEW h \in Hilos, DesbloquearMutex(h) PROVE PasoDeEstados
  BY <1>7 DEF Inv, Tipos, Lugares, EstadoDe, DesbloquearMutex, Despertar
<1>8. ASSUME NEW h \in Hilos, EsperarHilo(h) PROVE PasoDeEstados
  BY <1>8 DEF Inv, Tipos, Lugares, EstadoDe, EsperarHilo
<1> QED BY <1>1, <1>2, <1>3, <1>4, <1>5, <1>6, <1>7, <1>8 DEF Syscall

(* The steps of the planner. *)
LEMMA EstadosPlanificadorCorto ==
    ASSUME Inv, PlanificadorCorto
    PROVE  PasoDeEstados
<1>1. CASE EsperarReady
  BY <1>1 DEF Inv, Tipos, Lugares, EstadoDe, EsperarReady
<1>2. CASE ReadyAExec
  <2>1. CASE ready = {}
    BY <1>2, <2>1 DEF Inv, EstadoDe, ReadyAExec
  <2>2. CASE ready # {}
    <3>1. PICK x \in ready : exec' = x /\ ready' = ready \ {x}
      BY <1>2, <2>2 DEF ReadyAExec
    <3>2. Quieto \/ (E!Nadie /\ Mueve(x, "READY", "EXEC"))
      BY <1>2, <2>2, <3>1 DEF Inv, Tipos, Lugares, Ejecucion, UnSoloLugar, EstadoDe,
         ReadyAExec, E!Nadie
    <3> QED BY <3>2
  <2> QED BY <2>1, <2>2
<1>3. CASE Bloquear
  BY <1>3 DEF Inv, Tipos, Lugares, EstadoDe, Bloquear
<1>4. CASE Encolar
  BY <1>4 DEF Inv, Tipos, Lugares, EstadoDe, Encolar
<1>5. CASE AvisarIO
  BY <1>5 DEF Inv, Tipos, Lugares, EstadoDe, AvisarIO
<1>6. CASE LiberarMutex
  BY <1>6 DEF Inv, Tipos, EstadoDe, LiberarMutex, Despertar
<1>7. CASE DestruirHilo
  BY <1>7 DEF Inv, Tipos, Lugares, EstadoDe, DestruirHilo
<1>8. CASE BuscarEnExec
  BY <1>8 DEF Inv, Tipos, Lugares, EstadoDe, BuscarEnExec
<1>9. CASE Unir
  BY <1>9 DEF Inv, Tipos, Lugares, EstadoDe, Unir, ExecABlocked
<1>10. CASE SeguirSinUnir
  BY <1>10 DEF Inv, Tipos, Lugares, EstadoDe, SeguirSinUnir
<1>11. ASSUME NEW h \in Hilos, LiberarUnido(h) PROVE PasoDeEstados
  BY <1>11 DEF Inv, Tipos, Lugares, EstadoDe, LiberarUnido, Despertar
<1>12. ASSUME NEW v \in Volcadores, LanzarDump(v) PROVE PasoDeEstados
  BY <1>12 DEF Inv, Tipos, Lugares, EstadoDe, LanzarDump
<1> QED BY <1>1, <1>2, <1>3, <1>4, <1>5, <1>6, <1>7, <1>8, <1>9, <1>10, <1>11,
     <1>12 DEF PlanificadorCorto

(* The device changes no state. *)
LEMMA EstadosDispositivo ==
    ASSUME Inv, Dispositivo
    PROVE  PasoDeEstados
<1>1. CASE EsperarIO
  BY <1>1 DEF Inv, Tipos, Lugares, EstadoDe, EsperarIO
<1>2. CASE Desencolar
  BY <1>2 DEF Inv, Tipos, Lugares, EstadoDe, Desencolar
<1> QED BY <1>1, <1>2 DEF Dispositivo

(* Nor does the answer to a dump. *)
LEMMA EstadosPasoDump ==
    ASSUME Inv, NEW v \in Volcadores, PasoDump(v)
    PROVE  PasoDeEstados
<1>1. CASE DumpConfirmado(v)
  BY <1>1 DEF Inv, Tipos, Lugares, EstadoDe, DumpConfirmado
<1>2. CASE DumpRechazado(v)
  BY <1>2 DEF Inv, Tipos, Lugares, EstadoDe, DumpRechazado, Finalizar
<1> QED BY <1>1, <1>2 DEF PasoDump, Igual

(* The second half of a move. *)
LEMMA EstadosMover ==
    ASSUME Inv, NEW a \in Actores, Mover(a)
    PROVE  PasoDeEstados
<1>1. CASE Agregar(a)
  BY <1>1 DEF Inv, Tipos, Lugares, EstadoDe, Agregar
<1>2. CASE Avisar(a)
  BY <1>2 DEF Inv, Tipos, Lugares, EstadoDe, Avisar
<1>3. CASE Sacar(a)
  BY <1>3 DEF Inv, Tipos, Lugares, EstadoDe, Sacar
<1>4. CASE BuscarEnReady(a)
  BY <1>4 DEF Inv, Tipos, Lugares, EstadoDe, BuscarEnReady
<1>5. CASE BuscarEnBlocked(a)
  BY <1>5 DEF Inv, Tipos, Lugares, EstadoDe, BuscarEnBlocked
<1> QED BY <1>1, <1>2, <1>3, <1>4, <1>5 DEF Mover

(* The end of a process: each thread ends once. *)
LEMMA EstadosPasoFinalizacion ==
    ASSUME Inv, NEW a \in Actores, PasoFinalizacion(a)
    PROVE  PasoDeEstados
<1>1. CASE DestruirProceso(a)
  BY <1>1 DEF Inv, Tipos, Lugares, EstadoDe, DestruirProceso
<1>2. CASE BuscarVictimaEnExec(a)
  BY <1>2 DEF Inv, Tipos, Lugares, EstadoDe, BuscarVictimaEnExec
<1>3. ASSUME NEW h \in Hilos, SiguienteAFinalizar(a, h) PROVE PasoDeEstados
  BY <1>3 DEF Inv, Tipos, Lugares, EstadoDe, SiguienteAFinalizar
<1>4. ASSUME NEW h \in Hilos, LiberarEspera(a, h) PROVE PasoDeEstados
  BY <1>4 DEF Inv, Tipos, Lugares, EstadoDe, LiberarEspera, Despertar
<1>5. CASE RemoverDeReady(a)
  BY <1>5 DEF Inv, Tipos, Lugares, EstadoDe, RemoverDeReady, RemoverYSeguir
<1>6. CASE Descontar(a)
  BY <1>6 DEF Inv, Tipos, Lugares, EstadoDe, Descontar
<1>7. CASE RemoverDeBlocked(a)
  BY <1>7 DEF Inv, Tipos, EnFinal, DeMayorAMenor, EstadoDe, RemoverDeBlocked
<1> QED BY EstadosDesvincular, <1>1, <1>2, <1>3, <1>4, <1>5, <1>6, <1>7 DEF PasoFinalizacion

(* Every step is a move of the diagram or a stutter. *)
LEMMA EstadosPaso ==
    ASSUME Inv, [NextFinalizacion]_todas
    PROVE  PasoDeEstados
<1>1. CASE Igual(PlanificadorLargo) \/ Igual(Syscall) \/ Igual(PlanificadorCorto) \/ Igual(Dispositivo)
  BY <1>1, EstadosPlanificadorLargo, EstadosSyscall, EstadosPlanificadorCorto,
     EstadosDispositivo DEF Igual
<1>2. CASE FinalizarProceso
  BY <1>2 DEF Inv, Tipos, EstadoDe, FinalizarProceso, Finalizar
<1>3. ASSUME NEW v \in Volcadores, PasoDump(v) PROVE PasoDeEstados
  BY <1>3, EstadosPasoDump
<1>4. ASSUME NEW a \in Actores, PasoActor(a) PROVE PasoDeEstados
  BY <1>4, EstadosMover, EstadosPasoFinalizacion DEF PasoActor, Igual
<1>5. CASE UNCHANGED todas
  BY <1>5 DEF todas, vars, EstadoDe
<1> QED BY <1>1, <1>2, <1>3, <1>4, <1>5 DEF NextFinalizacion

(* With the end of processes the kernel still implements the diagram of    *)
(* states: each thread ends once, from READY, EXEC or BLOCKED, and the     *)
(* others move as they do without it.                                      *)
THEOREM FinalizacionImplementaEstados ==
    ASSUME ~Interferencias
    PROVE  SpecFinalizacion => ImplementaEstados
<1>1. InitFinalizacion => E!Init
  BY DEF InitFinalizacion, Init, E!Init, EstadoDe
<1>2. Inv /\ [NextFinalizacion]_todas => [E!Next]_[h \in Hilos |-> EstadoDe(h)]
  BY EstadosPaso, PasoDeEstadosEsNext
<1> QED
  BY <1>1, <1>2, Invariante, PTL DEF SpecFinalizacion, ImplementaEstados, E!Spec
=============================================================================
