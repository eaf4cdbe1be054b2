--------------------------- MODULE MCResponseCache --------------------------
(***************************************************************************)
(* An instance of ResponseCache for TLC: two URIs, of which one with the   *)
(* Accept header "html" has the identifier of the other without.           *)
(***************************************************************************)
EXTENDS ResponseCache, TLC

CONSTANTS c1, c2

CollidingUris == {<<"/a">>, <<"/a", "html">>}

Clients == Permutations(Client)
=============================================================================
