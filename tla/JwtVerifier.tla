----------------------------- MODULE JwtVerifier ----------------------------
(***************************************************************************)
(* The verification key of auth/jwt.go, for a gateway that loads it from a *)
(* URL: GetVerificationKey reads the cached key and its expiry without a   *)
(* lock, and when they are missing or old takes the lock, looks again and  *)
(* fetches the key.                                                        *)
(*                                                                         *)
(* Reads and writes of the two fields are steps of their own.  The key is  *)
(* a slice of three words: whoever reads it, without the lock, while it is *)
(* being written gets the old key, the new one, or words of both (Torn).   *)
(* The expiry is compared through one word, which is never torn.           *)
(***************************************************************************)
EXTENDS Integers

CONSTANTS
    Proc,      \* request goroutines
    NoProc,    \* nobody holds the lock
    Body,      \* what the URL may answer: keys, and error pages
    NoKey,     \* the nil slice
    Torn,      \* a slice of mixed words
    CacheTtl,  \* key_cache_ttl, in seconds
    MaxTime    \* bound on the clock

ASSUME ConstantsAssumption ==
    /\ NoProc \notin Proc
    /\ NoKey # Torn /\ {NoKey, Torn} \cap Body = {}
    /\ CacheTtl \in Nat /\ MaxTime \in Nat

VARIABLES
    now,                  \* the clock, in seconds
    cachedKey,            \* the field as last written
    cachedKeyExpiration,  \* the second at which it stops being valid, or 0
    cachedKeyLock,        \* the holder of the mutex, or NoProc
    op,                   \* op[p]: where goroutine p is, and the key it has
    stored                \* history: the second of the last complete store, or -1

vars == <<now, cachedKey, cachedKeyExpiration, cachedKeyLock, op, stored>>

Idle == [pc |-> "idle", key |-> NoKey, checked |-> 0]

Init ==
    /\ now = 0
    /\ cachedKey = NoKey
    /\ cachedKeyExpiration = 0
    /\ cachedKeyLock = NoProc
    /\ op = [p \in Proc |-> Idle]
    /\ stored = -1

At(p, pc) == op[p].pc = pc
Goto(p, pc) == op' = [op EXCEPT ![p].pc = pc]

\* cachedKey != nil && cachedKeyExpiration.After(time.Now())
Fresh == cachedKey # NoKey /\ cachedKeyExpiration > now

\* The value that a reader without the lock may find in cachedKey.
Readable ==
    {cachedKey} \cup UNION {{op[w].key, Torn} : w \in {q \in Proc : At(q, "write")}}

(***************************************************************************)
(* GetVerificationKey.                                                     *)
(***************************************************************************)

\* The check without the lock.  During a write the key may look nil or not.
Check(p) ==
    /\ At(p, "idle")
    /\ \/ /\ \E k \in Readable : k # NoKey
          /\ cachedKeyExpiration > now
          /\ op' = [op EXCEPT ![p] = [pc |-> "read", key |-> NoKey, checked |-> now]]
       \/ /\ NoKey \in Readable \/ cachedKeyExpiration <= now
          /\ op' = [op EXCEPT ![p] = [pc |-> "lock", key |-> NoKey, checked |-> now]]
    /\ UNCHANGED <<now, cachedKey, cachedKeyExpiration, cachedKeyLock, stored>>

\* return h.cachedKey, a second read without the lock.
Read(p) ==
    /\ At(p, "read")
    /\ \E k \in Readable : op' = [op EXCEPT ![p].pc = "parse", ![p].key = k]
    /\ UNCHANGED <<now, cachedKey, cachedKeyExpiration, cachedKeyLock, stored>>

Lock(p) ==
    /\ At(p, "lock")
    /\ cachedKeyLock = NoProc
    /\ cachedKeyLock' = p
    /\ Goto(p, "recheck")
    /\ UNCHANGED <<now, cachedKey, cachedKeyExpiration, stored>>

\* Mutant: once it has the lock, a goroutine fetches without looking again.
RecheckSkipped(p) ==
    /\ At(p, "recheck")
    /\ op' = [op EXCEPT ![p].pc = "fetch", ![p].checked = now]
    /\ UNCHANGED <<now, cachedKey, cachedKeyExpiration, cachedKeyLock, stored>>

\* The check under the lock, which is released by a deferred call on return.
Recheck(p) ==
    /\ At(p, "recheck")
    /\ \/ /\ Fresh
          /\ op' = [op EXCEPT ![p] = [pc |-> "parse", key |-> cachedKey, checked |-> now]]
          /\ cachedKeyLock' = NoProc
       \/ /\ ~Fresh
          /\ op' = [op EXCEPT ![p].pc = "fetch", ![p].checked = now]
          /\ UNCHANGED cachedKeyLock
    /\ UNCHANGED <<now, cachedKey, cachedKeyExpiration, stored>>

\* http.Get and ReadAll: whatever the body is, and whatever the status.
Fetch(p) ==
    /\ At(p, "fetch")
    /\ \E b \in Body : op' = [op EXCEPT ![p].pc = "write", ![p].key = b]
    /\ UNCHANGED <<now, cachedKey, cachedKeyExpiration, cachedKeyLock, stored>>

\* Mutants: the error is overlooked and the nil body stored; the error is returned
\* with the lock held.
FetchErrorStored(p) ==
    /\ At(p, "fetch")
    /\ op' = [op EXCEPT ![p].pc = "write", ![p].key = NoKey]
    /\ UNCHANGED <<now, cachedKey, cachedKeyExpiration, cachedKeyLock, stored>>

FetchErrorLocked(p) ==
    /\ At(p, "fetch")
    /\ op' = [op EXCEPT ![p] = Idle]
    /\ UNCHANGED <<now, cachedKey, cachedKeyExpiration, cachedKeyLock, stored>>

FetchError(p) ==
    /\ At(p, "fetch")
    /\ op' = [op EXCEPT ![p] = Idle]
    /\ cachedKeyLock' = NoProc
    /\ UNCHANGED <<now, cachedKey, cachedKeyExpiration, stored>>

\* The write of the key ends; it began when the body had been read.
WriteKey(p) ==
    /\ At(p, "write")
    /\ cachedKey' = op[p].key
    /\ Goto(p, "expire")
    /\ UNCHANGED <<now, cachedKeyExpiration, cachedKeyLock, stored>>

\* Mutant: the expiry is twice as far away.
WriteExpirationTwice(p) ==
    /\ At(p, "expire")
    /\ cachedKeyExpiration' = now + 2 * CacheTtl
    /\ stored' = now
    /\ cachedKeyLock' = NoProc
    /\ op' = [op EXCEPT ![p].pc = "parse", ![p].checked = now]
    /\ UNCHANGED <<now, cachedKey>>

\* The write of the expiry, the return and the unlock.
WriteExpiration(p) ==
    /\ At(p, "expire")
    /\ cachedKeyExpiration' = now + CacheTtl
    /\ stored' = now
    /\ cachedKeyLock' = NoProc
    /\ op' = [op EXCEPT ![p].pc = "parse", ![p].checked = now]
    /\ UNCHANGED <<now, cachedKey>>

\* VerifyToken parses the JWT twice with the key it has, and returns.
Parse(p) ==
    /\ At(p, "parse")
    /\ op' = [op EXCEPT ![p] = Idle]
    /\ UNCHANGED <<now, cachedKey, cachedKeyExpiration, cachedKeyLock, stored>>

Tick ==
    /\ now < MaxTime
    /\ now' = now + 1
    /\ UNCHANGED <<cachedKey, cachedKeyExpiration, cachedKeyLock, op, stored>>

Locked(p) == Recheck(p) \/ Fetch(p) \/ FetchError(p) \/ WriteKey(p) \/ WriteExpiration(p)

Next == Tick \/ \E p \in Proc : Check(p) \/ Read(p) \/ Lock(p) \/ Locked(p) \/ Parse(p)

Spec == Init /\ [][Next]_vars

\* Goroutines keep running and sync.Mutex starves nobody.  The request for the
\* key has no timeout, so it need not end; new verifications need not come.
FairSpec ==
    /\ Spec
    /\ \A p \in Proc :
          /\ WF_vars(Read(p) \/ Recheck(p) \/ WriteKey(p) \/ WriteExpiration(p) \/ Parse(p))
          /\ SF_vars(Lock(p))

(***************************************************************************)
(* Properties.                                                             *)
(***************************************************************************)

\* The second look under the lock works: a goroutine only fetches the key when
\* at least its time to live has passed since the last complete store, however
\* many goroutines queued up for the lock meanwhile.
OneFetchPerTtl ==
    \A p \in Proc : At(p, "fetch") => stored = -1 \/ op[p].checked >= stored + CacheTtl

\* A goroutine never verifies with nil, and gets mixed words only when it was
\* held up between its two unlocked reads past the expiry it had checked.
WholeKey ==
    \A p \in Proc :
        At(p, "parse") => /\ op[p].key # NoKey
                          /\ op[p].key = Torn => now >= cachedKeyExpiration \/ op[p].checked < stored

\* A verification that uses the cache has found a key that was stored no longer
\* ago than the time to live.
KeyInTime ==
    \A p \in Proc :
        op[p].pc \in {"read", "parse"} => stored >= 0 /\ op[p].checked <= stored + CacheTtl

\* Every verification ends, and nobody waits for the lock for ever, unless one
\* request for the key hangs for ever.
Answered ==
    \A p \in Proc :
        \/ ~At(p, "idle") ~> At(p, "idle")
        \/ <>[](\E q \in Proc : At(q, "fetch"))
=============================================================================
