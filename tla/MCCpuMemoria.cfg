SPECIFICATION FairSpec
CONSTANTS
    Byte = 4
    Ancho = 2
    TAM_MEMORIA = 8
    MaxPid = 1
    MaxTid = 1
    Programa <- MCPrograma
    Base <- MCBase
    Limite <- MCLimite
    Huerfanas = {"c1"}
    Volcadores = {"d1"}
    Atencion = {"cpu", "lp", "sts", "volcado", "c1", "d1"}
    Solapadas = FALSE
INVARIANTS
    SinCaida
    ListasCompletas
PROPERTIES
    ImplementaMaquina
    HiloTermina
CHECK_DEADLOCK FALSE
