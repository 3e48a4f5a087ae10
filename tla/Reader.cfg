SPECIFICATION Spec
CONSTANTS
    MessageIds = {i1, i2, i3}
    Groups = {g1, g2}
    Senders = {s1, s2}
    Nonces = {n1, n2, n3}
    Contents = {c1}
    Tasks = {t1, t2}
    MaxTime = 3
    DefaultPageLimit = 2
    MaxPageLimit = 2
    Limits = {None, 0, 1, 5}
    None = None
SYMMETRY Symmetry
INVARIANTS TypeOK IInv NoncesExact OrdersUnique WriterOwnsMessage
    ReceivedInOrder NothingSkipped
PROPERTY HasNextIsExact
