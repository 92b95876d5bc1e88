SPECIFICATION FairSpec
CONSTANTS
    Byte = 4
    Ancho = 2
    TAM_MEMORIA = 8
    MaxPid = 0
    MaxTid = 2
    Programa <- MCProgramaDoble
    Base <- MCBase
    Limite <- MCLimite
    Huerfanas = {"c1", "c2"}
    Volcadores = {"d1"}
    Atencion = {"cpu", "lp", "sts", "volcado", "c1", "c2", "d1"}
    Solapadas = FALSE
INVARIANTS
    ListasCompletas
CHECK_DEADLOCK FALSE
