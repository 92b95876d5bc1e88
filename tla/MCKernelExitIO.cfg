SPECIFICATION KSpec
CONSTANTS
    MaxProcesos = 1
    Particiones = 1
    Entra <- MCEntra
    MaxTid = 1
    MaxMutex = 0
    Recursos = {}
    Prioridades = {0}
    Algoritmo = "FIFO"
    Syscalls = {"THREAD_CREATE", "IO", "PROCESS_EXIT"}
INVARIANT SinColgantes
CHECK_DEADLOCK FALSE
