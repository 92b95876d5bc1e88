SPECIFICATION SpecFinalizacion
CONSTANTS
    Hilos <- MCHilos
    Ninguno = Ninguno
    LP = LP
    STS = STS
    DIO = DIO
    Volcadores = {d1, d2}
    Interferencias = FALSE
INVARIANTS
    EsperarBloquea
CHECK_DEADLOCK FALSE
