SPECIFICATION Spec
CONSTANTS
    Hilos = {h1, h2}
    Ninguno = Ninguno
    Instrucciones = {"CALCULAR", "THREAD_CANCEL"}
    Quantum = FALSE
    JoinBloquea = {TRUE}
    MaxTemporizadores = 2
    MaxPendientes = 4
INVARIANT InvocadorEnExec
CHECK_DEADLOCK FALSE
