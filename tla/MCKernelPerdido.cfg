\* FIFO: a process that never exits.
SPECIFICATION SpecJusta
CONSTANTS
    p1 = p1
    p2 = p2
    p3 = p3
    Nadie = Nadie
    Pid <- DosProcesos
    MaxIO = 1
    GRADO_MULTIPROGRAMACION = 1
    ALGORITMO = "FIFO"
    Rafagas = {1}
    ESTIMACION_INICIAL = 1
PROPERTY TodoTermina
CHECK_DEADLOCK FALSE
