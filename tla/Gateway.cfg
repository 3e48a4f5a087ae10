SPECIFICATION Spec
CONSTANTS
    MessageIds = {i1}
    Groups = {g1, g2}
    Senders = {s1, s2}
    Nonces = {n1}
    Contents = {c1}
    Tasks = {t1, t2}
    MaxTime = 2
    OtherPermissions = {}
    Bundles = {{"MessagingSender", "MessagingReader"}, {"MessagingEditor", "MessagingDeleter"}}
    MaxEvents = 4
    MaxCheckpoints = 3
    EmptyResponses = FALSE
    None = None
SYMMETRY Symmetry
INVARIANTS TypeOK IInv SendersWereGivenSend
PROPERTIES AdmittedByChain ChangesWereGiven ReadsWereGiven
