\* CLOCK, two processes with one frame each, COPY.
SPECIFICATION Sistema
CONSTANTS
    p1 = p1
    p2 = p2
    Nadie = Nadie
    Blanco = Blanco
    Pid = {p1, p2}
    Paginas <- DosPaginas
    ENTRADAS_POR_TABLA = 2
    CANT_FRAMES = 2
    MARCOS_POR_PROCESO = 1
    ALGORITMO = "CLOCK"
    ENTRADAS_TLB = {1, 2}
    MaxInterrupciones = 0
    MaxSuspensiones = 0
    MaxTardes = 0
    Copia = TRUE
    Valores = {Blanco}
\* The system stops when every program has exited.
CHECK_DEADLOCK FALSE
INVARIANTS
    Aislado
    CupoDeMarcos
    TraduccionesPropias
    NuevaCoherente
PROPERTIES
    ImplementaCpu
    DuenioEstable
