\* Four pages, two frames, TLBs of one, two and three entries under LRU and FIFO.
SPECIFICATION CpuJusta
CONSTANTS
    Nadie = Nadie
    Pid = {p1}
    NumerosDePagina = {0, 1, 2, 3}
    NumerosDeMarco = {0, 1}
    ENTRADAS_TLB = {1, 2, 3}
    MaxInterrupciones = 2
INVARIANTS
    CpuTypeOK
    EntradasUnicas
    UltimaTraduccion
    InterrupcionUnica
PROPERTIES
    ImplementaCache
    Desalojo
