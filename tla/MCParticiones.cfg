SPECIFICATION Spec
CONSTANTS
    Procesos = {p1, p2, p3}
    Tamanios = {0, 1, 2, 4}
    TAM_MEMORIA = 8
    PARTICIONES <- MCPARTICIONES
    Configuraciones <- Todas
    Simultaneos = 1
    SinPid = SinPid
    Palabra = 16
    Ancho = 4
INVARIANTS
    Cobertura
    SinLibresContiguas
    ProcesoConSuParticion
    SeleccionCorrecta
PROPERTIES
    LugarMonotono
SYMMETRY Simetria
