SPECIFICATION FairSpec
CONSTANTS
    Archivos = {a1, a2, a3}
    Tamanios = {0, 1, 2, 3, 4}
    BLOCK_COUNT = 7
    BLOCK_SIZE = 2
    BitsPorByte = 2
    Simultaneos = 1
    MaxCaidas = 1
    CaidaEnCurso = FALSE
INVARIANTS
    BloquesExclusivos
    ContenidoIntacto
    BitmapAlDia
PROPERTIES
    DumpTermina
CHECK_DEADLOCK FALSE
