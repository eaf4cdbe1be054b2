SPECIFICATION FairSpec
CONSTANTS
    restricted = restricted
    unrestricted = unrestricted
    refused = refused
    Client = {c1, c2}
    NoClient = NoClient
    User <- MCUser
    NoUser = NoUser
    WithHook = TRUE
    HookOf <- MCHookOf
    App = {"shop", "blog"}
    Token = {t1, t2}
INVARIANTS RestrictedAsHooked
PROPERTY LoginAnswered
