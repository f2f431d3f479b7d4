CONSTANTS
    Partners = {"p"}
    Tokens = {"t1", "t2", "t3"}
    None = None
    Names <- MCNames
    WellNamed <- Well
    Guid <- GuidOf
    Date <- DateOf
    Bytes <- MCBytes
    Damaged = Damaged
    Codes = {"X", "Y"}
    CodeIn <- CodeInOf
    CodeOf <- CodeOfOf
    Format <- FormatOf
    Lines <- LinesOf
    MinRatio = 50
    Contacts = {"c", "d"}
    Lists <- ListsOf
    Pullers = {x}
    Scrubbers = {s}
    Worlds <- MCWorlds
SPECIFICATION FairSpec
INVARIANTS TypeOK HonouredIsNamed NothingDownloadedIsLost VerdictRestsOnAccepted
PROPERTIES AcceptedLands CodesAreIndependent
