SPECIFICATION FairSpec
CONSTANTS
    Hilos = {h1, h2}
    Ninguno = Ninguno
    Instrucciones = {"CALCULAR", "IO"}
    Quantum = TRUE
    JoinBloquea = {TRUE}
    MaxTemporizadores = 2
    MaxPendientes = 2
INVARIANT DesalojoPorQuantum
PROPERTY DesalojoEfectivo
CHECK_DEADLOCK FALSE
