SPECIFICATION Spec
CONSTANTS
    Archivos = {a1, a2}
    Tamanios = {1, 2}
    BLOCK_COUNT = 6
    BLOCK_SIZE = 2
    BitsPorByte = 2
    Simultaneos = 1
    MaxCaidas = 1
    CaidaEnCurso = TRUE
INVARIANTS
    ConfirmadosOcupados
CHECK_DEADLOCK FALSE
