SPECIFICATION Spec
CONSTANTS
    Slot = {s1}
    Jwt = {j1, j2, bad}
    Signed = {j1, j2}
    Token = {t1, t2, t3, t4}
    NoJwt = NoJwt
INVARIANTS Shielded Redeemable AllOrNothing
