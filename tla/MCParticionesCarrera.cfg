SPECIFICATION Spec
CONSTANTS
    Procesos = {p1, p2}
    Tamanios = {2, 4}
    TAM_MEMORIA = 8
    PARTICIONES <- MCPARTICIONES
    Configuraciones <- SoloDinamicas
    Simultaneos = 2
    SinPid = SinPid
    Palabra = 16
    Ancho = 4
INVARIANTS
    ElegidaIntacta
    EncuentraLaSuya
CHECK_DEADLOCK FALSE
