SPECIFICATION Spec
CONSTANTS
    MessageIds = {i1, i2}
    Groups = {g1}
    Senders = {s1}
    Nonces = {n1, n2}
    Contents = {c1}
    Threads = {t1, t2, t3}
    MaxTime = 3
    None = None
SYMMETRY Symmetry
INVARIANTS TypeOK IInv NoCircularWait SwapHidden
PROPERTY CallsAreAtomic
