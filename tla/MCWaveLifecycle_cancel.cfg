CONSTANTS
    None = None
    Waves = {w1}
    Contacts = {c1}
    Seeds = {}
    Variants = {v1}
    Creatives = {x}
    Operators = {o1}
    Executors = {e1}
    DriftTolerance = 10
    MaxKills = 1
SPECIFICATION Spec
PROPERTIES CancelledNeverMails
