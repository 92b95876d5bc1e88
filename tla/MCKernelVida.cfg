SPECIFICATION KFairSpec
CONSTANTS
    MaxProcesos = 2
    Particiones = 1
    Entra <- MCEntra
    MaxTid = 1
    MaxMutex = 0
    Recursos = {}
    Prioridades = {0}
    Algoritmo = "CMN"
    Syscalls = {"PROCESS_CREATE", "PROCESS_EXIT", "DUMP_MEMORY", "DUMP_FALLIDO", "THREAD_CREATE", "IO"}
PROPERTIES
    LargoPlazoCompuesto
    IOEventual
    ReadySeAtiende
    AdmisionEnElKernel
CHECK_DEADLOCK FALSE
