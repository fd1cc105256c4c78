\* FIFO, two processes with up to two I/Os each, degree 1.
SPECIFICATION Spec
CONSTANTS
    p1 = p1
    p2 = p2
    p3 = p3
    Nadie = Nadie
    Pid <- DosProcesos
    MaxIO = 2
    GRADO_MULTIPROGRAMACION = 1
    ALGORITMO = "FIFO"
    Rafagas = {1}
    ESTIMACION_INICIAL = 1
SYMMETRY Simetria
INVARIANTS
    UnSoloLugar
    SinPCBNulo
    CuposNoSePierden
    ExitLibera
\* The system stops when every program has exited.
CHECK_DEADLOCK FALSE
