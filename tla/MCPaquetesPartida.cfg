SPECIFICATION Spec
CONSTANTS
    Byte = 4
    Ancho = 4
    Conexiones = {"kernel_cpu", "cpu_kernel", "cpu_memoria", "kernel_memoria", "memoria_filesystem"}
    Datos <- MCDatos
    Palabras = {0, 228}
    MaxPedidos = 2
    SinPedir = {"CANCELAR_HILO"}
    PalabrasPartidas = TRUE
INVARIANTS
    RespuestasFieles
CHECK_DEADLOCK FALSE
