CONSTANTS
    Chars = {"_", "x", "y"}
    Order <- TwoServers
    ToolsOf <- TheirTools
    Type <- TheirTypes
    Refs = {"TOKEN"}
    Users = {worker, page}
    worker = worker
    page = page
    Main = Main
    Nobody = Nobody
    MaxTroubles = 2
SPECIFICATION Spec
INVARIANTS
    TypeOK
    RoutedToOwner
    TwiceOnlyIfLost
PROPERTIES
    Recovers
