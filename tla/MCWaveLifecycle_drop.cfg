CONSTANTS
    None = None
    Waves = {w1}
    Contacts = {c1, c2}
    Seeds = {}
    Variants = {v1}
    Creatives = {x, y}
    Operators = {o1}
    Executors = {e1, e2}
    DriftTolerance = 50
    MaxKills = 1
SPECIFICATION FairSpec
INVARIANTS TypeOK OnlyKillsPrintTwice RecordsAreCards OnlyKillsLoseRecords
PROPERTIES ApprovalBinds SettledIsFinal DropEnds
