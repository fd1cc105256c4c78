\* FIFO: more processes loaded than the degree.
SPECIFICATION Spec
CONSTANTS
    p1 = p1
    p2 = p2
    p3 = p3
    Nadie = Nadie
    Pid <- TresProcesos
    MaxIO = 1
    GRADO_MULTIPROGRAMACION = 1
    ALGORITMO = "FIFO"
    Rafagas = {1}
    ESTIMACION_INICIAL = 1
SYMMETRY Simetria
INVARIANT CabenEnMemoria
CHECK_DEADLOCK FALSE
