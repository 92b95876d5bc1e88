SPECIFICATION KSpec
CONSTANTS
    MaxProcesos = 1
    Particiones = 1
    Entra <- MCEntra
    MaxTid = 2
    MaxMutex = 2
    Recursos = {"r1", "r2"}
    Prioridades = {0}
    Algoritmo = "CMN"
    Syscalls = {"THREAD_CREATE", "THREAD_EXIT", "THREAD_JOIN", "MUTEX_CREATE", "MUTEX_LOCK", "MUTEX_UNLOCK", "IO", "DUMP_MEMORY"}
INVARIANTS
    BloqueadoPorAlgo
    MutexConsistente
PROPERTIES
    TransferenciaMutex
CHECK_DEADLOCK FALSE
