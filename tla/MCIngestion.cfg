CONSTANTS
    Rows = {1,2,3,4,5,6,7,8}
    Horizon = 2
    Facts <- MCFacts
    Worlds <- MCWorlds
    Inlet <- InletOf
    About <- AboutOf
    Code <- CodeOf
    Thread <- ThreadOf
    Phone <- PhoneOf
    Addressee <- AddresseeOf
    Contacts = {"c1", "c2"}
    Pieces = {"p1"}
    Threads = {"t"}
    Sessions = {"web"}
    MaxFails = 1
    None = None
SPECIFICATION Spec
INVARIANTS TypeOK StatusTellsDelivery AttributionIsTrue NightJudgesEverything
PROPERTIES ImplementsHistory SnapshotForward SnapshotsCatchUp
