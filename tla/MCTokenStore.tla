---------------------------- MODULE MCTokenStore ----------------------------
(***************************************************************************)
(* TokenStore for TLC: two gateways with a goroutine each, one token, a    *)
(* JWT that expires at 1, one that never does and a forged one, and        *)
(* application lists with a plain name and with a name that contains a     *)
(* semicolon.                                                              *)
(***************************************************************************)
EXTENDS TokenStoreRefinement, TLC

CONSTANTS g1, g2, p1, p2

MCSigned == {"short", "forever"}
MCJwt == MCSigned \cup {"forged"}
MCExpiresAt == [j \in MCJwt |-> IF j = "short" THEN 1 ELSE 0]
MCApp == {"a", "b", "a;b", ""}
MCPieces == [a \in MCApp |-> IF a = "a;b" THEN {"a", "b"} ELSE {a}]
MCProvided == {[jwt |-> "short", apps |-> {"a"}],
               [jwt |-> "forever", apps |-> {"a;b"}]}

\* One goroutine on each gateway.
SplitHome == (p1 :> g1) @@ (p2 :> g2)
=============================================================================
