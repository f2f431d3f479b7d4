CONSTANTS
    Keys = {1, 2, 3, 4, 11}
    FbnKeys = {11}
    SeedKeys = {90}
    Phones = {"p", "q"}
    Addrs = {"a", "b"}
    Corrected = {"fixed"}
    Points = {"x"}
    Answers <- MCAnswers
    None = None
    Loaders = {"l1", "l2"}
    Verifiers = {"v1", "v2"}
    Worlds <- MCWorlds
SPECIFICATION Spec
INVARIANTS BusinessGrain SuppressionSurvives MailIsNeverLost
PROPERTIES CorrectionKept
CHECK_DEADLOCK FALSE
