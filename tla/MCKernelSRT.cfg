\* SRT, two processes with one I/O each, degree 2.
SPECIFICATION Spec
CONSTANTS
    p1 = p1
    p2 = p2
    p3 = p3
    Nadie = Nadie
    Pid <- DosProcesos
    MaxIO = 1
    GRADO_MULTIPROGRAMACION = 2
    ALGORITMO = "SRT"
    Rafagas = {1, 2}
    ESTIMACION_INICIAL = 1
SYMMETRY Simetria
INVARIANTS
    TypeOK
    ProcesadorExclusivo
    ExecCoherente
    EleccionSRT
    MedicionPropia
\* The system stops when every program has exited.
CHECK_DEADLOCK FALSE
