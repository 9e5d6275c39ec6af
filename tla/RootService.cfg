CONSTANTS
    Client = {c1}
    Query = {q1}
    Nobody = Nobody
    MailboxCap = 1
    MaxDisk = 1
    MaxOps = 2

SPECIFICATION Spec
INVARIANTS InForceComplete MergingFlagHonest
PROPERTIES CoversNeverRegress StagedKept ReadYourWrites
