SPECIFICATION Spec
CONSTANTS
    r1 = r1
    r2 = r2
    Request = {r1, r2}
    Token = {"t"}
    NoToken = "no token"
    Jwt <- MCJwt
    NoJwt = "none"
    ExpiresAt <- MCExpiresAt
    KeyRing <- MCKeyRing
    App = {"login", "shop", "blog"}
    Provider = {"login"}
    Credentials <- MCCredentials
    Stored <- MCStored
    MaxTime = 2
INVARIANT NoPanic
