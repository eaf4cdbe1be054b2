----------------------------- MODULE RateLimiter ----------------------------
(***************************************************************************)
(* The rate limiter of ratelimit/ratelimiting.go: RedisSimpleRateThrottler *)
(* keeps one counter per client in the Redis that all gateways share.  A   *)
(* request runs MULTI, SET key burst EX window NX, DECR key, EXEC, which   *)
(* Redis executes as one step; what the request does next depends on the   *)
(* reply alone.  So the model has one action per outcome of that step, and *)
(* the gateways need no state of their own.                                *)
(*                                                                         *)
(* Time is kept as what is left of each TTL and as the number of requests  *)
(* let through in the last ticks, so that it can pass for ever in finitely *)
(* many states.                                                            *)
(***************************************************************************)
EXTENDS Integers, FiniteSetsExt

CONSTANTS
    Request,     \* requests, as records of Authorization header and address
    NoHeader,    \* the request has no Authorization header
    Squeezed,    \* Squeezed[h]: header h with its blanks removed
    Burst,       \* rate_limiting.burst
    Windows,     \* the values rate_limiting.window may have, in milliseconds
    TickMs,      \* the step of the clock, in milliseconds
    MaxOverrun   \* the count beyond the burst at which the model stops counting

ASSUME ConstantsAssumption ==
    /\ {r.authorization : r \in Request} \ {NoHeader} \subseteq DOMAIN Squeezed
    /\ Burst \in Nat
    /\ Windows \subseteq Nat
    /\ TickMs \in Nat \ {0}
    /\ MaxOverrun \in Nat

\* The bucket of a request: its Authorization header without blanks, else its
\* address.  Headers that differ in blanks only share a bucket, and a header that
\* reads like an address shares that of the address.
identifyClient(r) ==
    IF r.authorization # NoHeader THEN Squeezed[r.authorization] ELSE r.addr

Client == {identifyClient(r) : r \in Request}

VARIABLES
    window,     \* the window that the gateway is configured with
    bucket,     \* bucket[c]: the counter of client c
    reply,      \* reply[c]: how the last request of c was answered
    forwarded,  \* history: requests of c let through since its bucket was made
    recent      \* history: recent[c][a], those let through at most a ticks ago

vars == <<window, bucket, reply, forwarded, recent>>

\* The window goes to Redis as a float of seconds in shortest form: a fraction,
\* or the exponent that 1000000 and more are written with, is not an integer to
\* SET ... EX, and zero is not a valid expire time.
IsExpireTime(ms) == ms % 1000 = 0 /\ 1000 <= ms /\ ms <= 999999000
ExAccepted == IsExpireTime(window)

\* ttl is what is left in milliseconds; 0 in an existing key means no TTL.
NoBucket == [exists |-> FALSE, count |-> 0, ttl |-> 0]

\* The ages, in ticks, that lie within a window.
Ages == UNION {0 .. (w - 1) \div TickMs : w \in Windows}

Init ==
    /\ window \in Windows
    /\ bucket = [c \in Client |-> NoBucket]
    /\ reply = [c \in Client |-> "none"]
    /\ forwarded = [c \in Client |-> 0]
    /\ recent = [c \in Client |-> [a \in Ages |-> 0]]

\* Mutants: SET without NX refills the bucket; every request renews the TTL.
AfterSetRefilling(b) ==
    IF ExAccepted THEN [exists |-> TRUE, count |-> Burst, ttl |-> window] ELSE b

AfterSetRenewing(b) ==
    IF ~ExAccepted THEN b
    ELSE [exists |-> TRUE, count |-> IF b.exists THEN b.count ELSE Burst, ttl |-> window]

\* The bucket after SET ... NX: made if it is missing and the command is valid.
AfterSet(b) ==
    IF ~b.exists /\ ExAccepted
    THEN [exists |-> TRUE, count |-> Burst, ttl |-> window]
    ELSE b

\* The bucket after DECR: a missing key counts as 0 and is made without a TTL.
\* All counts up to -MaxOverrun are one: nothing tells them apart.
AfterDecr(b) == [b EXCEPT !.exists = TRUE, !.count = Max({b.count - 1, -MaxOverrun})]

takeToken(b) == AfterDecr(AfterSet(b))

\* Requests of c let through since the bucket that EXEC leaves was made.
Passed(c) == IF bucket[c].exists THEN forwarded[c] ELSE 0

\* Mutant: remaining < 0 in place of remaining <= 0.
AllowOneMore(c) ==
    LET b == takeToken(bucket[c])
    IN /\ b.count >= 0
       /\ bucket' = [bucket EXCEPT ![c] = b]
       /\ reply' = [reply EXCEPT ![c] = "forwarded"]
       /\ forwarded' = [forwarded EXCEPT ![c] = Passed(c) + 1]
       /\ recent' = [recent EXCEPT ![c] = [a \in Ages |-> recent[c][a] + 1]]

Allow(c) ==
    LET b == takeToken(bucket[c])
    IN /\ b.count > 0
       /\ bucket' = [bucket EXCEPT ![c] = b]
       /\ reply' = [reply EXCEPT ![c] = "forwarded"]
       /\ forwarded' = [forwarded EXCEPT ![c] = Passed(c) + 1]
       /\ recent' = [recent EXCEPT ![c] = [a \in Ages |-> recent[c][a] + 1]]

Reject(c) ==
    LET b == takeToken(bucket[c])
    IN /\ b.count <= 0
       /\ bucket' = [bucket EXCEPT ![c] = b]
       /\ reply' = [reply EXCEPT ![c] = "429"]
       /\ forwarded' = [forwarded EXCEPT ![c] = Passed(c)]
       /\ UNCHANGED recent

\* EXEC fails, or succeeds and its reply is lost.
Unavailable(c) ==
    /\ \/ UNCHANGED <<bucket, forwarded>>
       \/ /\ bucket' = [bucket EXCEPT ![c] = takeToken(bucket[c])]
          /\ forwarded' = [forwarded EXCEPT ![c] = Passed(c)]
    /\ reply' = [reply EXCEPT ![c] = "503"]
    /\ UNCHANGED recent

\* Time passes; Redis drops the keys whose TTL has run out.
Age(b) ==
    IF b.ttl = 0 THEN b
    ELSE IF b.ttl <= TickMs THEN NoBucket
    ELSE [b EXCEPT !.ttl = @ - TickMs]

Tick ==
    /\ bucket' = [c \in Client |-> Age(bucket[c])]
    /\ recent' = [c \in Client |-> [a \in Ages |-> IF a = 0 THEN 0 ELSE recent[c][a - 1]]]
    /\ UNCHANGED <<reply, forwarded>>

DecorateHandler(r) ==
    LET c == identifyClient(r) IN Allow(c) \/ Reject(c) \/ Unavailable(c)

Next == (Tick \/ \E r \in Request : DecorateHandler(r)) /\ UNCHANGED window

Spec == Init /\ [][Next]_vars

\* Time keeps passing; nothing else has to happen.
FairSpec == Spec /\ WF_vars(Tick /\ UNCHANGED window)

(***************************************************************************)
(* Properties.                                                             *)
(***************************************************************************)

\* Every request let through in a window was paid for from its bucket: the
\* counter and the requests let through never exceed the burst together, lost
\* replies of Redis included.
PaidFor ==
    \A c \in Client :
        bucket[c].exists /\ bucket[c].count >= 0
        => forwarded[c] + bucket[c].count <= Burst

\* What one bucket lets through at most: DECR comes before the comparison.
BucketYield == Max({Burst - 1, 0})

\* Over any stretch of time as long as a window, wherever it starts, a client
\* gets at most twice what one bucket lets through: two buckets can meet in it,
\* not three.
SlidingBound ==
    \A c \in Client, a \in Ages : a * TickMs < window => recent[c][a] <= 2 * BucketYield

\* A client that used up its bucket is given a new one: the TTL of a bucket is
\* set when it is made and no request, however many are rejected, renews it.  This
\* needs a window that Redis accepts; with another one the rate limit is never reset.
Recovers ==
    \A c \in Client :
        (ExAccepted /\ bucket[c].exists /\ bucket[c].count <= 0) ~> ~bucket[c].exists
=============================================================================
