SPECIFICATION FairSpec
CONSTANTS
    Byte = 4
    Ancho = 2
    TAM_MEMORIA = 8
    MaxPid = 0
    MaxTid = 1
    Programa <- MCProgramaVolcado
    Base <- MCBase
    Limite <- MCLimite
    Huerfanas = {"c1"}
    Volcadores = {"d1"}
    Atencion = {"cpu", "lp", "sts", "volcado", "c1", "d1"}
    Solapadas = TRUE
CONSTRAINT NingunVolcadoFalla
INVARIANTS
    SinCaida
CHECK_DEADLOCK FALSE
