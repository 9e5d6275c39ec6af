CONSTANTS
    Client = {c1, c2}
    Process = {d1, d2, d3}
    Nobody = Nobody

SPECIFICATION Spec
INVARIANTS ServerOwnsSocket
PROPERTIES FailuresExplained CallsEnd
