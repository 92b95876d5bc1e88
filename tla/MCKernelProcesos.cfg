SPECIFICATION KSpec
CONSTANTS
    MaxProcesos = 3
    Particiones = 1
    Entra <- MCEntra
    MaxTid = 1
    MaxMutex = 1
    Recursos = {"r1"}
    Prioridades = {0, 1}
    Algoritmo = "PRIORIDADES"
    Syscalls = {"PROCESS_CREATE", "PROCESS_EXIT", "THREAD_CREATE", "THREAD_EXIT", "MUTEX_CREATE", "MUTEX_LOCK"}
INVARIANTS
    SinColgantes
    SinFalloPropio
CHECK_DEADLOCK FALSE
