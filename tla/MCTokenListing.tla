--------------------------- MODULE MCTokenListing ---------------------------
(***************************************************************************)
(* One gateway with one writer and reader beside the listing, and two      *)
(* tokens that compete for the one entry of the LRU cache.                 *)
(***************************************************************************)
EXTENDS TokenListing, TLC

CONSTANTS g1, p1

MCSigned == {"short", "forever"}
MCExpiresAt == [j \in MCSigned |-> IF j = "short" THEN 1 ELSE 0]
MCApp == {"a", ""}
MCPieces == [a \in MCApp |-> {a}]
MCProvided == {[jwt |-> "forever", apps |-> {"a"}]}
MCHome == [p \in Proc |-> g1]
=============================================================================
