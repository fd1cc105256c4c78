\* Two processes with one frame each.
SPECIFICATION Spec
CONSTANTS
    p1 = p1
    p2 = p2
    x = x
    y = y
    Nadie = Nadie
    Blanco = Blanco
    Pid = {p1, p2}
    Paginas <- DosPaginas
    ENTRADAS_POR_TABLA = 2
    CANT_FRAMES = 3
    MARCOS_POR_PROCESO = 1
    ALGORITMO = "CLOCK"
    MaxSuspensiones = 0
    MaxTardes = 0
    Copia = FALSE
    Valores = {Blanco}
\* The system stops when every program has exited.
CHECK_DEADLOCK FALSE
INVARIANT FrameDeLaFila
