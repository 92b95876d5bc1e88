SPECIFICATION FairSpec
CONSTANTS
    Hilos = {h1, h2}
    Ninguno = Ninguno
    Instrucciones = {"CALCULAR", "SEG_FAULT", "THREAD_CREATE", "MUTEX_UNLOCK", "MUTEX_CREATE", "MUTEX_LOCK", "THREAD_JOIN", "THREAD_EXIT", "DUMP_MEMORY", "IO", "PROCESS_CREATE", "PROCESS_EXIT"}
    Quantum = TRUE
    JoinBloquea = {TRUE}
    MaxTemporizadores = 2
    MaxPendientes = 2
INVARIANTS
    InvocadorEnExec
    CpuEjecutaExec
    ContextoAlDia
    SinEsperaMutua
PROPERTIES
    DespachoEfectivo
CHECK_DEADLOCK FALSE
