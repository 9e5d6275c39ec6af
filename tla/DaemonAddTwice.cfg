CONSTANTS
    Conn = {c1, c2}
    Root = {r1}
    MaxActors = 2
    MailboxCap = 1
    Nobody = Nobody

SPECIFICATION Spec
PROPERTIES AddIsIdempotent
