CONSTANTS
    Client = {c1}
    Query = {q1}
    Nobody = Nobody
    MailboxCap = 2
    MaxDisk = 1
    MaxOps = 1

SPECIFICATION Spec
PROPERTIES ChangesBecomeSearchable CommandsAnswered ShutdownCompletes
