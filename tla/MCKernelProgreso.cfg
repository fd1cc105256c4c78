\* SRT, two processes with one I/O each, degree 1, with fairness.
SPECIFICATION SpecJusta
CONSTANTS
    p1 = p1
    p2 = p2
    p3 = p3
    Nadie = Nadie
    Pid <- DosProcesos
    MaxIO = 1
    GRADO_MULTIPROGRAMACION = 1
    ALGORITMO = "SRT"
    Rafagas = {1}
    ESTIMACION_INICIAL = 1
INVARIANT PedidosSinCpu
PROPERTIES
    Progreso
    ImplementaCicloVida
\* The system stops when every program has exited.
CHECK_DEADLOCK FALSE
