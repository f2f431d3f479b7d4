CONSTANTS
    House = House
    None = None
    Contacts = {c1}
    Partners = {p1,p2}
    Keys = {k1,k2}
    Callers = {a1,a2}
    Suppressors = {}
    Scrubbers = {}
SYMMETRY Symmetry
SPECIFICATION Spec
INVARIANTS TypeOK OwnerMatchesEvents PointerMatchesOwner ReceiptIsOriginal
PROPERTY ImplementsLedger
