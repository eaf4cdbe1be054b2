SPECIFICATION FairSpec
CONSTANTS
    g1 = g1
    g2 = g2
    p1 = p1
    p2 = p2
    Gateway = {g1, g2}
    Proc = {p1, p2}
    Home <- SplitHome
    Token = {t1}
    NoToken = NoToken
    Jwt <- MCJwt
    NoJwt = "none"
    Signed <- MCSigned
    ExpiresAt <- MCExpiresAt
    App <- MCApp
    Blank = ""
    Pieces <- MCPieces
    Provided <- MCProvided
    BucketSize = 1
    MaxTime = 2
INVARIANTS TypeOK VerifiedOnly TtlOwed KeptUntilExpiry
PROPERTIES ReadYourWrites RedisForgets ImplementsTokenMap
