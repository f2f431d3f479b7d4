CONSTANTS
    Rows = {1, 2, 3, 4, 5}
    Horizon = 5
    Contacts = {"c", "d"}
    Partners = {"p", "q"}
    House = House
    None = None
    PerDay = 2
    Params <- MCParams
    Worlds <- MCWorlds
SPECIFICATION Spec
CHECK_DEADLOCK FALSE
INVARIANTS CooldownHeld RecordedIsDelivered NoRemovalIsSkipped
