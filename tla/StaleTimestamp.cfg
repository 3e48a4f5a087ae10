SPECIFICATION Spec
CONSTANTS
    MessageIds = {i1, i2}
    Groups = {g1, g2}
    Senders = {s1, s2}
    Nonces = {n1, n2}
    Contents = {c1}
    Tasks = {t1, t2}
    MaxTime = 2
    WordBits = 5
    request_ttl_seconds = 1
    Timestamps <- ClientClocks
    None = None
SYMMETRY Symmetry
INVARIANT LetInWithinTTL
