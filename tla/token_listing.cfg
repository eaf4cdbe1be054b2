SPECIFICATION ListSpec
CONSTANTS
    g1 = g1
    p1 = p1
    Gateway = {g1}
    Proc = {p1}
    Home <- MCHome
    Token = {t1, t2}
    NoToken = NoToken
    Jwt <- MCSigned
    NoJwt = "none"
    Signed <- MCSigned
    ExpiresAt <- MCExpiresAt
    App <- MCApp
    Blank = ""
    Pieces <- MCPieces
    Provided <- MCProvided
    BucketSize = 1
    MaxTime = 1
INVARIANTS ListingComplete
PROPERTIES ListingEnds
