\* Two processes of two and one pages, CLOCK-M, COPY and one suspension, which may come late.
SPECIFICATION Spec
CONSTANTS
    p1 = p1
    p2 = p2
    x = x
    y = y
    Nadie = Nadie
    Blanco = Blanco
    Pid = {p1, p2}
    Paginas <- DosYUna
    ENTRADAS_POR_TABLA = 2
    CANT_FRAMES = 2
    MARCOS_POR_PROCESO = 1
    ALGORITMO = "CLOCK-M"
    MaxSuspensiones = 1
    MaxTardes = 1
    Copia = TRUE
    Valores = {Blanco}
\* The system stops when every program has exited.
CHECK_DEADLOCK FALSE
INVARIANT TypeOK
PROPERTY DuenioEstable
