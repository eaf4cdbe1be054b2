SPECIFICATION FSpec
CONSTANTS
    Base <- MCBase
    KvStates <- MCKvStates
    Startups <- MCStartups
    AppFolders = {"applications", "applications-old"}
    Params = {":id", ":idx", ":key"}
    BadJson = BadJson
    NoApp = NoApp
    LoginUri <- MCLoginUri
    AllowLogin = TRUE
    EnableCORS = TRUE
    OptionsEnabled = TRUE
    Requests <- MCRequests
    Answers <- MCAnswers
    Links <- MCLinks
    Documents <- MCDocuments
    Float64 <- MCFloat64
    Depth <- MCDepth
    Unmarshalled <- MCUnmarshalled
    Walk <- MCWalk
    Leaves <- MCLeaves
    NoLink <- MCNoLink
    Spelled <- MCSpelled
    Escapes <- MCEscapes
    Dollars <- MCDollars
    Wild <- MCWild
INVARIANTS OrderIrrelevant Guarded TargetAsAsked RoundTrip PublicLinks AnswerPassed
CHECK_DEADLOCK FALSE
