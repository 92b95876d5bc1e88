SPECIFICATION Spec
CONSTANTS
    Hilos = {h1, h2}
    Ninguno = Ninguno
    Instrucciones = {"CALCULAR", "THREAD_CANCEL", "THREAD_JOIN", "IO", "MUTEX_LOCK", "DUMP_MEMORY"}
    Quantum = TRUE
    JoinBloquea = {TRUE, FALSE}
    MaxTemporizadores = 2
    MaxPendientes = 4
INVARIANT ContextoAlDia
CHECK_DEADLOCK FALSE
