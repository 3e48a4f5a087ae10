SPECIFICATION HandlersSpec
CONSTANTS
    MessageIds = {i1, i2}
    Groups = {g1}
    Senders = {s1}
    Nonces = {n1, n2}
    Contents = {c1}
    Tasks = {t1, t2}
    MaxTime = 3
    None = None
PROPERTY NewerMessagesHaveGreaterOrders
CHECK_DEADLOCK FALSE
