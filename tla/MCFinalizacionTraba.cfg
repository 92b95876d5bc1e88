SPECIFICATION FairSpec
CONSTANTS
    Hilos <- MCHilos
    Ninguno = Ninguno
    LP = LP
    STS = STS
    DIO = DIO
    Volcadores = {d1, d2}
    Interferencias = TRUE
PROPERTIES
    DescuentoTermina
CHECK_DEADLOCK FALSE
