SPECIFICATION Spec
CONSTANTS
    Archivos = {a1}
    Tamanios = {2, 5}
    BLOCK_COUNT = 6
    BLOCK_SIZE = 2
    BitsPorByte = 2
    Simultaneos = 1
    MaxCaidas = 0
    CaidaEnCurso = FALSE
INVARIANTS
    ContenidoIntacto
CHECK_DEADLOCK FALSE
