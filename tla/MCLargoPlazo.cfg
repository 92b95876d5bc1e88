SPECIFICATION FairSpec
CONSTANTS
    MaxProcesos = 4
    MaxTid = 1
    Capacidad = 3
    Entra <- MCEntra
INVARIANTS
    CuentaNew
    SinDespertarPerdido
    EtapasDisjuntas
PROPERTIES
    AdmisionSegura
    ImplementaAdmision
CHECK_DEADLOCK FALSE
