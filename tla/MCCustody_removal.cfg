CONSTANTS
    House = House
    None = None
    Contacts = {c1}
    Partners = {p1}
    Keys = {k1}
    Callers = {a1}
    Suppressors = {s1}
    Scrubbers = {r1}
SPECIFICATION FairSpec
PROPERTIES NoHandoverAfterDoNotCall WonHeldOnlyByRecompute WonIsReturned EveryHoldingEnds
