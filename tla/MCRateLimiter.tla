---------------------------- MODULE MCRateLimiter ---------------------------
(***************************************************************************)
(* Instances of RateLimiter for TLC: two requests whose headers differ in  *)
(* blanks only, from different addresses, and one without a header.        *)
(***************************************************************************)
EXTENDS RateLimiter

MCRequest == {[authorization |-> "Bearer x", addr |-> "10.0.0.1"],
              [authorization |-> "Bearer  x", addr |-> "10.0.0.2"],
              [authorization |-> NoHeader, addr |-> "10.0.0.1"]}
MCSqueezed == [h \in {"Bearer x", "Bearer  x"} |-> "Bearerx"]
=============================================================================
