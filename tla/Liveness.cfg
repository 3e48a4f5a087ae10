SPECIFICATION FairSpec
CONSTANTS
    MessageIds = {i1, i2}
    Groups = {g1}
    Senders = {s1}
    Nonces = {n1, n2}
    Contents = {c1}
    Tasks = {t1}
    MaxTime = 3
    BatchSize = 1
    MessageThreshold = 2
    None = None
PROPERTIES PendingEventuallyHandled ThresholdTriggersSync
