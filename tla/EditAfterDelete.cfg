SPECIFICATION Spec
CONSTANTS
    MessageIds = {i1}
    Groups = {g1}
    Senders = {s1}
    Nonces = {n1, n2}
    Contents = {c1, c2}
    Tasks = {t1}
    MaxTime = 4
    BatchSize = 1
    MessageThreshold = 1
    None = None
PROPERTY DeletedStaysDeleted
