SPECIFICATION Spec
CONSTANTS
    Procesos = {p1}
    Tamanios = {2, 4}
    TAM_MEMORIA = 8
    PARTICIONES <- MCPARTICIONES
    Configuraciones <- SoloFijas
    Simultaneos = 1
    SinPid = SinPid
    Palabra = 16
    Ancho = 4
INVARIANTS
    AccesoEnParticion
