SPECIFICATION Spec
CONSTANTS
    MessageIds = {i1, i2}
    Groups = {g1, g2}
    Senders = {s1, s2}
    Nonces = {n1, n2}
    Contents = {c1}
    Tasks = {t1, t2}
    MaxTime = 2
    BatchSize = 2
    MessageThreshold = 2
    None = None
SYMMETRY Symmetry
INVARIANTS TypeOK IInv ArchiveShowsMessage ArchiveFollowsStorage
PROPERTIES OnlyOwnerEdits ImplementsWriteBehind
