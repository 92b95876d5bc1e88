SPECIFICATION Spec
CONSTANTS
    Hilos = {h1, h2}
    Ninguno = Ninguno
    Instrucciones = {"CALCULAR", "THREAD_JOIN"}
    Quantum = FALSE
    JoinBloquea = {TRUE, FALSE}
    MaxTemporizadores = 2
    MaxPendientes = 2
INVARIANT SinEsperaMutua
CHECK_DEADLOCK FALSE
