-------------------------- MODULE MCAuthentication --------------------------
(***************************************************************************)
(* Instances of Authentication for TLC: one token that may stand for a JWT *)
(* that expires at 1, for one that never does or for nothing; a key that   *)
(* accepts both JWTs and one that accepts the second only.                 *)
(***************************************************************************)
EXTENDS Authentication, TLC

CONSTANTS r1, r2

MCJwt == {"short", "forever"}
MCExpiresAt == [j \in MCJwt |-> IF j = "short" THEN 1 ELSE 0]
MCKeyRing == {{"short", "forever"}, {"forever"}}
MCStored == {[jwt |-> "short", apps |-> {"shop"}],
             [jwt |-> "forever", apps |-> {}],
             Absent}
Nowhere == NoCredential.sources
MCCredentials ==
    {[authorization |-> "bare", sources |-> Nowhere],
     [authorization |-> "other", sources |-> [Nowhere EXCEPT ![1] = "t"]],
     [authorization |-> "none", sources |-> [Nowhere EXCEPT ![5] = "t"]]}

Slots == Permutations(Request)
=============================================================================
