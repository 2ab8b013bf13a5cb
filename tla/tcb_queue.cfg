SPECIFICATION Spec
CONSTANTS
    Tcbs = {t1, t2, t3, t4}
    Queues = {ready, zombie, join}
    NULL = NULL
INVARIANTS
    LinksMirror
PROPERTIES
    ImplementsFifo
