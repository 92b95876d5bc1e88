SPECIFICATION SpecFinalizacion
CONSTANTS
    Hilos <- MCHilos
    Ninguno = Ninguno
    LP = LP
    STS = STS
    DIO = DIO
    Volcadores = {d1, d2}
    Interferencias = FALSE
INVARIANTS
    UnSoloLugar
    CuentaAlFinalizar
    SinCaida
PROPERTIES
    ImplementaEstados
CHECK_DEADLOCK FALSE
