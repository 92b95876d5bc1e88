SPECIFICATION KSpec
CONSTANTS
    MaxProcesos = 1
    Particiones = 1
    Entra <- MCEntra
    MaxTid = 1
    MaxMutex = 0
    Recursos = {}
    Prioridades = {0}
    Algoritmo = "CMN"
    Syscalls = {"THREAD_CREATE", "THREAD_EXIT", "DUMP_MEMORY", "DUMP_FALLIDO"}
INVARIANTS
    NuncaReadyVacio
    ExecVivo
CHECK_DEADLOCK FALSE
