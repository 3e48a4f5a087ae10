SPECIFICATION Spec
CONSTANTS
    Groups = {g1}
    Addresses = {a1}
    MessagingPermissions = {sender}
    OtherPermissions = {admin}
    Bundles = {{sender}, {sender, admin}}
    MaxEvents = 4
    MaxCheckpoints = 3
    EmptyResponses = FALSE
    None = None
CHECK_DEADLOCK FALSE
INVARIANT OnlyAuthorizedPass
