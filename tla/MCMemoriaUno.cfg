\* One process of three pages over two frames, with two suspensions on time.
SPECIFICATION SpecJusta
CONSTANTS
    p1 = p1
    p2 = p2
    x = x
    y = y
    Nadie = Nadie
    Blanco = Blanco
    Pid = {p1}
    Paginas <- TresPaginas
    ENTRADAS_POR_TABLA = 2
    CANT_FRAMES = 2
    MARCOS_POR_PROCESO = 2
    ALGORITMO = "CLOCK"
    MaxSuspensiones = 2
    MaxTardes = 0
    Copia = FALSE
    Valores = {Blanco, x, y}
\* The system stops when every program has exited.
CHECK_DEADLOCK FALSE
INVARIANT LeeLoEscrito
INVARIANT FrameDeLaFila
PROPERTY Responde
PROPERTY ImplementaMemoria
