SPECIFICATION SpecFinalizacion
CONSTANTS
    Hilos <- MCHilos
    Ninguno = Ninguno
    LP = LP
    STS = STS
    DIO = DIO
    Volcadores = {d1, d2}
    Interferencias = TRUE
INVARIANTS
    SinCaida
CHECK_DEADLOCK FALSE
