------------------------ MODULE TokenStoreRefinement ------------------------
(***************************************************************************)
(* TokenStore, with its Redis and its LRU caches, implements TokenMap.     *)
(***************************************************************************)
EXTENDS TokenStore

\* The form in which Redis gives a response back.
FromRedis(r) == [jwt |-> r.jwt, apps |-> Split(Join(r.apps))]

\* The copies of t: the one in Redis and those in the LRU caches.
Copies(t) ==
    {r \in {[jwt |-> redis[t].jwt, apps |-> Split(redis[t].applications)]}
           \cup {lru[g][t] : g \in Gateway} : r.jwt # NoJwt}

\* A writer that is not verified yet has not called, as far as TokenMap goes.
Abstract(o) ==
    LET name == CASE o.pc \in {"hmset", "expireat", "add"} -> "write"
                  [] o.pc \in {"get", "hmget"} -> "read"
                  [] o.pc = "return" -> "answered"
                  [] OTHER -> "idle"
    IN IF name = "idle" THEN Idle ELSE [o EXCEPT !.pc = name]

Map == INSTANCE TokenMap WITH
          Acceptable <- [jwt : Signed, apps : SUBSET App],
          Form <- FromRedis,
          held <- [t \in Token |-> Copies(t)],
          call <- [p \in Proc |-> Abstract(op[p])]

\* The token store with its two layers behaves as one map from tokens to the
\* responses accepted for them: it answers with a response that some layer holds
\* at that moment, in the form it was accepted in or the form Redis gives it, and
\* reads never revive one that all layers have dropped.
ImplementsTokenMap == Map!Spec
=============================================================================
