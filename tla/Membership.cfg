SPECIFICATION FairSpec
CONSTANTS
    Groups = {g1}
    Addresses = {a1, a2}
    MessagingPermissions = {sender, reader}
    OtherPermissions = {admin}
    Bundles = {{sender}, {reader, admin}}
    MaxEvents = 5
    MaxCheckpoints = 3
    EmptyResponses = TRUE
    None = None
INVARIANTS TypeOK IInv CacheMatchesChain NoInventedPermission
PROPERTY KeepsUp
