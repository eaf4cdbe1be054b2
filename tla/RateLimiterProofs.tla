-------------------------- MODULE RateLimiterProofs -------------------------
(***************************************************************************)
(* Proofs about the counters of the rate limiter, for every burst, window, *)
(* number of clients and bound on the count.                               *)
(***************************************************************************)
EXTENDS RateLimiter, TLAPS

Numbers == Int
Buckets == [exists : BOOLEAN, count : Numbers, ttl : Numbers]

\* The counters have their types; a bucket that is missing counts as zero, and no
\* count is below the one at which the model stops counting.
BucketTypes ==
    /\ window \in Numbers
    /\ bucket \in [Client -> Buckets]
    /\ reply \in [Client -> {"none", "forwarded", "429", "503"}]
    /\ forwarded \in [Client -> Nat]
    /\ \A c \in Client : /\ bucket[c].count >= -MaxOverrun
                         /\ ~bucket[c].exists => bucket[c].count = 0

\* Without a valid EX the SET of the transaction fails and its DECR does not: the
\* key that DECR makes has no TTL and never lets a request through.
RefusedClosed ==
    ~ExAccepted => \A c \in Client : /\ reply[c] # "forwarded"
                                      /\ bucket[c].ttl = 0 /\ bucket[c].count <= 0

LimitInv == BucketTypes /\ PaidFor /\ RefusedClosed

\* Max of two integers is the larger one.
LEMMA MaxOfTwo ==
    ASSUME NEW m \in Int, NEW n \in Int
    PROVE  Max({m, n}) = IF m >= n THEN m ELSE n
<1> DEFINE larger == IF m >= n THEN m ELSE n
<1>1. larger \in {m, n} /\ \A y \in {m, n} : larger >= y
  OBVIOUS
<1>2. ASSUME NEW x \in {m, n}, \A y \in {m, n} : x >= y PROVE x = larger
  BY <1>2
<1> QED BY <1>1, <1>2 DEF Max

\* The fields of a bucket whose existence and count are replaced.
LEMMA BucketUpdate ==
    ASSUME NEW b \in Buckets, NEW e \in BOOLEAN, NEW n \in Numbers
    PROVE  LET u == [b EXCEPT !.exists = e, !.count = n]
           IN u \in Buckets /\ u.exists = e /\ u.count = n /\ u.ttl = b.ttl
BY DEF Buckets

\* SET fills a missing bucket if Redis accepts the window, and leaves others alone.
LEMMA SetStep ==
    ASSUME NEW b \in Buckets, window \in Numbers
    PROVE  /\ AfterSet(b) \in Buckets
           /\ (~b.exists /\ ExAccepted) => AfterSet(b).count = Burst /\ AfterSet(b).ttl = window
           /\ (b.exists \/ ~ExAccepted) => AfterSet(b) = b
<1>1. CASE ~b.exists /\ ExAccepted
  <2>1. AfterSet(b) = [exists |-> TRUE, count |-> Burst, ttl |-> window]
    BY <1>1 DEF AfterSet
  <2>2. Burst \in Numbers
    BY ConstantsAssumption DEF Numbers
  <2> QED BY <1>1, <2>1, <2>2 DEF Buckets
<1>2. CASE b.exists \/ ~ExAccepted
  BY <1>2 DEF AfterSet
<1> QED BY <1>1, <1>2

\* DECR takes one from the count, which the model stops at -MaxOverrun.
LEMMA DecrStep ==
    ASSUME NEW b \in Buckets
    PROVE  /\ AfterDecr(b) \in Buckets
           /\ AfterDecr(b).exists = TRUE
           /\ AfterDecr(b).count = IF b.count - 1 >= -MaxOverrun THEN b.count - 1 ELSE -MaxOverrun
           /\ AfterDecr(b).ttl = b.ttl
<1> DEFINE low == Max({b.count - 1, -MaxOverrun})
<1>1. b.count - 1 \in Int /\ -MaxOverrun \in Int
  BY ConstantsAssumption DEF Buckets, Numbers
<1>2. low \in Numbers /\ low = IF b.count - 1 >= -MaxOverrun THEN b.count - 1 ELSE -MaxOverrun
  BY <1>1, MaxOfTwo DEF Numbers
<1>3. AfterDecr(b) = [b EXCEPT !.exists = TRUE, !.count = low]
  BY DEF AfterDecr
<1> HIDE DEF low
<1>4. LET u == [b EXCEPT !.exists = TRUE, !.count = low]
      IN u \in Buckets /\ u.exists = TRUE /\ u.count = low /\ u.ttl = b.ttl
  BY <1>2, BucketUpdate
<1> QED BY <1>2, <1>3, <1>4, Zenon

\* What the transaction of a request of c leaves in its bucket.
LEMMA TakeToken ==
    ASSUME LimitInv, NEW c \in Client
    PROVE  LET b == takeToken(bucket[c])
           IN /\ b \in Buckets /\ b.exists = TRUE /\ b.count >= -MaxOverrun
              /\ b.count >= 0 => Passed(c) + b.count <= Burst
              /\ b.count > 0 => Passed(c) + 1 + b.count <= Burst
              /\ ~ExAccepted => b.ttl = 0 /\ b.count <= 0
              /\ ExAccepted => b.ttl = IF bucket[c].exists THEN bucket[c].ttl ELSE window
<1> DEFINE b == takeToken(bucket[c])
           a == AfterSet(bucket[c])
<1>1. /\ bucket[c] \in Buckets /\ window \in Numbers /\ forwarded[c] \in Nat
      /\ bucket[c].count >= -MaxOverrun
      /\ ~bucket[c].exists => bucket[c].count = 0
      /\ bucket[c].exists /\ bucket[c].count >= 0 => forwarded[c] + bucket[c].count <= Burst
      /\ ~ExAccepted => bucket[c].ttl = 0 /\ bucket[c].count <= 0
  BY DEF LimitInv, BucketTypes, PaidFor, RefusedClosed
<1>2. /\ a \in Buckets
      /\ (~bucket[c].exists /\ ExAccepted) => a.count = Burst /\ a.ttl = window
      /\ (bucket[c].exists \/ ~ExAccepted) => a = bucket[c]
  BY <1>1, SetStep
<1>3. /\ b \in Buckets /\ b.exists = TRUE /\ b.ttl = a.ttl
      /\ b.count = IF a.count - 1 >= -MaxOverrun THEN a.count - 1 ELSE -MaxOverrun
  BY <1>2, DecrStep DEF takeToken
<1>4. a.count \in Int /\ b.count \in Int /\ bucket[c].count \in Int
  BY <1>1, <1>2, <1>3 DEF Buckets, Numbers
<1>5. Passed(c) = IF bucket[c].exists THEN forwarded[c] ELSE 0
  BY DEF Passed
<1> HIDE DEF a, b
<1>6. b.count >= -MaxOverrun
  BY <1>3, <1>4, ConstantsAssumption
<1>7. b.count >= 0 => Passed(c) + b.count <= Burst
  BY <1>1, <1>2, <1>3, <1>4, <1>5, ConstantsAssumption
<1>8. b.count > 0 => Passed(c) + 1 + b.count <= Burst
  BY <1>1, <1>2, <1>3, <1>4, <1>5, ConstantsAssumption
<1>9. ~ExAccepted => b.ttl = 0 /\ b.count <= 0
  BY <1>1, <1>2, <1>3, <1>4, ConstantsAssumption
<1>10. ExAccepted => b.ttl = IF bucket[c].exists THEN bucket[c].ttl ELSE window
  BY <1>2, <1>3
<1> QED BY <1>3, <1>6, <1>7, <1>8, <1>9, <1>10 DEF b

\* Replacing one bucket, the number of requests let through and the reply, as the
\* outcomes of a request do, keeps the invariant if the bucket is paid for.
LEMMA RequestStep ==
    ASSUME LimitInv, UNCHANGED window, NEW c \in Client, NEW b \in Buckets, NEW n \in Nat,
           NEW a \in {"forwarded", "429", "503"},
           bucket' = [bucket EXCEPT ![c] = b],
           forwarded' = [forwarded EXCEPT ![c] = n],
           reply' = [reply EXCEPT ![c] = a],
           b.count >= -MaxOverrun, b.exists,
           b.count >= 0 => n + b.count <= Burst,
           ~ExAccepted => a # "forwarded" /\ b.ttl = 0 /\ b.count <= 0
    PROVE  LimitInv'
<1>1. ExAccepted' = ExAccepted
  <2>1. window' = window
    OBVIOUS
  <2> QED BY <2>1 DEF ExAccepted
<1>2. BucketTypes'
  BY DEF LimitInv, BucketTypes
<1>3. PaidFor'
  BY DEF LimitInv, BucketTypes, PaidFor
<1>4. RefusedClosed'
  BY <1>1 DEF LimitInv, BucketTypes, RefusedClosed
<1> QED BY <1>2, <1>3, <1>4 DEF LimitInv

\* Every outcome of a request and every tick of the clock keep the invariant.
LEMMA LimitStep == LimitInv /\ [Next]_vars => LimitInv'
<1> SUFFICES ASSUME LimitInv, [Next]_vars PROVE LimitInv'
  OBVIOUS
<1>1. ASSUME NEW c \in Client, UNCHANGED window, Allow(c) \/ Reject(c) \/ Unavailable(c)
      PROVE  LimitInv'
  <2> DEFINE b == takeToken(bucket[c])
  <2>1. /\ b \in Buckets /\ b.exists = TRUE /\ b.count >= -MaxOverrun
        /\ b.count >= 0 => Passed(c) + b.count <= Burst
        /\ b.count > 0 => Passed(c) + 1 + b.count <= Burst
        /\ ~ExAccepted => b.ttl = 0 /\ b.count <= 0
    BY TakeToken
  <2>2. Passed(c) \in Nat /\ b.count \in Int
    BY <2>1 DEF Passed, LimitInv, BucketTypes, Buckets, Numbers
  <2>3. CASE Allow(c)
    <3>1. /\ b.count > 0
          /\ bucket' = [bucket EXCEPT ![c] = b]
          /\ reply' = [reply EXCEPT ![c] = "forwarded"]
          /\ forwarded' = [forwarded EXCEPT ![c] = Passed(c) + 1]
      BY <2>3 DEF Allow
    <3>2. ExAccepted
      BY <2>1, <2>2, <3>1
    <3> DEFINE n == Passed(c) + 1
    <3>3. n \in Nat /\ n + b.count <= Burst
      BY <2>1, <2>2, <3>1
    <3> HIDE DEF b, n
    <3> QED BY <1>1, <2>1, <2>2, <3>1, <3>2, <3>3, RequestStep DEF n
  <2>4. CASE Reject(c)
    <3>1. /\ bucket' = [bucket EXCEPT ![c] = b]
          /\ reply' = [reply EXCEPT ![c] = "429"]
          /\ forwarded' = [forwarded EXCEPT ![c] = Passed(c)]
      BY <2>4 DEF Reject
    <3> HIDE DEF b
    <3> QED BY <1>1, <2>1, <2>2, <3>1, RequestStep
  <2>5. CASE Unavailable(c)
    <3>1. CASE UNCHANGED <<bucket, forwarded>>
      <4>1. /\ reply' = [reply EXCEPT ![c] = "503"]
            /\ window' = window /\ bucket' = bucket /\ forwarded' = forwarded
        BY <1>1, <2>5, <3>1 DEF Unavailable
      <4>2. ExAccepted' = ExAccepted
        BY <4>1 DEF ExAccepted
      <4>3. BucketTypes' /\ PaidFor'
        BY <4>1 DEF LimitInv, BucketTypes, PaidFor
      <4>4. RefusedClosed'
        BY <4>1, <4>2 DEF LimitInv, BucketTypes, RefusedClosed
      <4> QED BY <4>3, <4>4 DEF LimitInv
    <3>2. CASE bucket' = [bucket EXCEPT ![c] = b] /\ forwarded' = [forwarded EXCEPT ![c] = Passed(c)]
      <4>1. reply' = [reply EXCEPT ![c] = "503"]
        BY <2>5 DEF Unavailable
      <4> HIDE DEF b
      <4> QED BY <1>1, <2>1, <2>2, <3>2, <4>1, RequestStep
    <3> QED BY <2>5, <3>1, <3>2 DEF Unavailable
  <2> QED BY <1>1, <2>3, <2>4, <2>5
<1>2. CASE Tick /\ UNCHANGED window
  <2>1. /\ window' = window /\ reply' = reply /\ forwarded' = forwarded
        /\ bucket' = [c \in Client |-> Age(bucket[c])]
    BY <1>2 DEF Tick
  <2>2. ExAccepted' = ExAccepted
    BY <2>1 DEF ExAccepted
  <2>3. ASSUME NEW c \in Client
        PROVE  /\ Age(bucket[c]) \in Buckets
               /\ \/ /\ Age(bucket[c]).exists = bucket[c].exists
                     /\ Age(bucket[c]).count = bucket[c].count
                  \/ Age(bucket[c]).exists = FALSE /\ Age(bucket[c]).count = 0
               /\ bucket[c].ttl = 0 => Age(bucket[c]) = bucket[c]
    <3>1. bucket[c] \in Buckets
      BY DEF LimitInv, BucketTypes
    <3>2. NoBucket \in Buckets /\ NoBucket.exists = FALSE /\ NoBucket.count = 0
      BY DEF NoBucket, Buckets, Numbers
    <3> DEFINE left == bucket[c].ttl - TickMs
    <3>3. left \in Numbers
      BY <3>1, ConstantsAssumption DEF Buckets, Numbers
    <3>4. Age(bucket[c]) = IF bucket[c].ttl = 0 THEN bucket[c]
                           ELSE IF bucket[c].ttl <= TickMs THEN NoBucket
                           ELSE [bucket[c] EXCEPT !.ttl = left]
      BY DEF Age
    <3> HIDE DEF left
    <3>5. /\ [bucket[c] EXCEPT !.ttl = left] \in Buckets
          /\ [bucket[c] EXCEPT !.ttl = left].exists = bucket[c].exists
          /\ [bucket[c] EXCEPT !.ttl = left].count = bucket[c].count
      BY <3>1, <3>3 DEF Buckets
    <3> QED BY <3>1, <3>2, <3>4, <3>5
  <2>4. BucketTypes'
    <3>1. \A c \in Client : /\ bucket[c].count >= -MaxOverrun
                            /\ ~bucket[c].exists => bucket[c].count = 0
      BY DEF LimitInv, BucketTypes
    <3>2. 0 >= -MaxOverrun
      BY ConstantsAssumption
    <3>3. \A c \in Client : /\ Age(bucket[c]).count >= -MaxOverrun
                            /\ ~Age(bucket[c]).exists => Age(bucket[c]).count = 0
      BY <2>3, <3>1, <3>2
    <3>4. bucket' \in [Client -> Buckets]
      BY <2>1, <2>3
    <3> QED BY <2>1, <3>3, <3>4 DEF LimitInv, BucketTypes
  <2>5. PaidFor'
    BY <2>1, <2>3 DEF LimitInv, BucketTypes, PaidFor
  <2>6. RefusedClosed'
    BY <2>1, <2>2, <2>3 DEF LimitInv, RefusedClosed
  <2> QED BY <2>4, <2>5, <2>6 DEF LimitInv
<1>3. CASE UNCHANGED vars
  <2>1. window' = window /\ bucket' = bucket /\ reply' = reply /\ forwarded' = forwarded
    BY <1>3 DEF vars
  <2>2. ExAccepted' = ExAccepted
    BY <2>1 DEF ExAccepted
  <2> QED BY <2>1, <2>2 DEF LimitInv, BucketTypes, PaidFor, RefusedClosed
<1> QED BY <1>1, <1>2, <1>3 DEF Next, DecorateHandler, Client

\* At first there is no bucket, and nothing has been let through.
LEMMA LimitAlways == Spec => []LimitInv
<1>1. Init => LimitInv
  <2> SUFFICES ASSUME Init PROVE LimitInv
    OBVIOUS
  <2>1. NoBucket \in Buckets /\ NoBucket.exists = FALSE /\ NoBucket.count = 0 /\ NoBucket.ttl = 0
    BY DEF NoBucket, Buckets, Numbers
  <2>2. window \in Numbers
    BY ConstantsAssumption DEF Init, Numbers
  <2> QED BY <2>1, <2>2, ConstantsAssumption DEF Init, LimitInv, BucketTypes, PaidFor, RefusedClosed
<1> QED BY <1>1, LimitStep, PTL DEF Spec

\* Whatever Redis answers or loses, a bucket never lets more requests through than
\* the burst it was filled with.
THEOREM Paid == Spec => []PaidFor
<1>1. LimitInv => PaidFor
  BY DEF LimitInv
<1> QED BY <1>1, LimitAlways, PTL

\* How the requests let through in the last ticks relate to the buckets.  Those that
\* are not older than the bucket of c were all taken from it, since nothing has been
\* let through yet in the tick that ends a bucket; of those that are less than a
\* window older, the others were taken from the one bucket before it.
Live(c) ==
    /\ 0 < bucket[c].ttl /\ bucket[c].ttl <= window
    /\ forwarded[c] <= BucketYield
    /\ \A a \in Ages : a * TickMs <= window - bucket[c].ttl => recent[c][a] <= forwarded[c]
    /\ \A a \in Ages : a * TickMs < 2 * window - bucket[c].ttl
                       => recent[c][a] <= forwarded[c] + BucketYield

\* While c has no bucket, one bucket stands for all of a window.
Ended(c) ==
    \A a \in Ages : /\ a = 0 => recent[c][a] = 0
                    /\ a * TickMs < window => recent[c][a] <= BucketYield

StretchInv ==
    /\ recent \in [Client -> [Ages -> Nat]]
    /\ \A c \in Client :
          /\ ExAccepted /\ bucket[c].exists => Live(c)
          /\ ExAccepted /\ ~bucket[c].exists => bucket[c].ttl = 0 /\ Ended(c)
          /\ ~ExAccepted => \A a \in Ages : recent[c][a] = 0

\* A bucket lets through a natural number of requests: the burst but one, or none.
LEMMA Yield == BucketYield \in Nat /\ Burst - 1 <= BucketYield
<1>1. Burst - 1 \in Int /\ 0 \in Int
  BY ConstantsAssumption
<1>2. BucketYield = IF Burst - 1 >= 0 THEN Burst - 1 ELSE 0
  BY <1>1, MaxOfTwo DEF BucketYield
<1> QED BY <1>1, <1>2, ConstantsAssumption

\* A window that Redis accepts is not empty.
LEMMA PositiveWindow == ASSUME NEW m \in Int, IsExpireTime(m) PROVE 0 < m
BY SMT DEF IsExpireTime

\* Ages are ticks, and the tick before an age is an age one tick younger.
LEMMA Younger ==
    ASSUME NEW a \in Ages
    PROVE  /\ a \in Nat /\ a * TickMs \in Nat
           /\ a = 0 => a * TickMs = 0
           /\ a # 0 => a * TickMs > 0 /\ a - 1 \in Ages /\ (a - 1) * TickMs = a * TickMs - TickMs
<1>1. PICK w \in Windows : a \in 0 .. (w - 1) \div TickMs
  BY DEF Ages
<1>2. (w - 1) \div TickMs \in Int
  BY <1>1, ConstantsAssumption
<1>3. a \in Nat
  BY <1>1, <1>2
<1>4. a # 0 => a - 1 \in 0 .. (w - 1) \div TickMs
  BY <1>1, <1>2
<1>5. a # 0 => a - 1 \in Ages
  BY <1>1, <1>4 DEF Ages
<1>6. a * TickMs \in Nat /\ (a = 0 => a * TickMs = 0)
  BY <1>3, ConstantsAssumption
<1>7. a # 0 => a * TickMs > 0 /\ (a - 1) * TickMs = a * TickMs - TickMs
  BY <1>3, ConstantsAssumption
<1> QED BY <1>3, <1>5, <1>6, <1>7

\* A request of c that lets k requests through, none or one of them from the bucket
\* that the transaction leaves, keeps the relation of buckets and ages.
LEMMA StretchRequest ==
    ASSUME LimitInv, StretchInv, UNCHANGED window, NEW c \in Client, NEW k \in {0, 1},
           k = 1 => takeToken(bucket[c]).count > 0,
           bucket' = [bucket EXCEPT ![c] = takeToken(bucket[c])],
           forwarded' = [forwarded EXCEPT ![c] = Passed(c) + k],
           recent' = [recent EXCEPT ![c] = [a \in Ages |-> recent[c][a] + k]]
    PROVE  StretchInv'
<1> DEFINE b == takeToken(bucket[c])
           n == Passed(c) + k
<1>1. window' = window /\ window \in Int
  BY DEF LimitInv, BucketTypes, Numbers
<1>2. ExAccepted' = ExAccepted
  BY <1>1 DEF ExAccepted
<1>3. /\ b \in Buckets /\ b.exists = TRUE
      /\ b.count > 0 => Passed(c) + 1 + b.count <= Burst
      /\ ~ExAccepted => b.count <= 0
      /\ ExAccepted => b.ttl = IF bucket[c].exists THEN bucket[c].ttl ELSE window
  BY TakeToken
<1>4. b.count \in Int /\ b.ttl \in Int
  BY <1>3 DEF Buckets, Numbers
<1>5. /\ bucket[c] \in Buckets /\ bucket[c].ttl \in Int /\ forwarded[c] \in Nat
      /\ bucket \in [Client -> Buckets] /\ forwarded \in [Client -> Nat]
  BY DEF LimitInv, BucketTypes, Buckets, Numbers
<1>6. Passed(c) = IF bucket[c].exists THEN forwarded[c] ELSE 0
  BY DEF Passed
<1>7. /\ recent \in [Client -> [Ages -> Nat]]
      /\ ExAccepted /\ bucket[c].exists => Live(c)
      /\ ExAccepted /\ ~bucket[c].exists => Ended(c)
      /\ ~ExAccepted => \A a \in Ages : recent[c][a] = 0
  BY DEF StretchInv
<1>8. n \in Nat /\ (ExAccepted => n <= BucketYield)
  <2>1. CASE k = 1
    <3>1. Passed(c) + 1 <= Burst - 1
      BY <1>3, <1>4, <1>5, <1>6, <2>1, ConstantsAssumption
    <3> QED BY <1>5, <1>6, <2>1, <3>1, Yield, ConstantsAssumption
  <2>2. CASE k = 0
    <3>1. ExAccepted /\ bucket[c].exists => forwarded[c] <= BucketYield
      BY <1>7 DEF Live
    <3> QED BY <1>5, <1>6, <2>2, <3>1, Yield
  <2> QED BY <2>1, <2>2
<1>9. ~ExAccepted => k = 0
  BY <1>3, <1>4
<1>10. /\ bucket'[c] = b /\ forwarded'[c] = n
       /\ \A a \in Ages : recent'[c][a] = recent[c][a] + k
       /\ \A a \in Ages : recent[c][a] \in Nat
  BY <1>5, <1>7
<1>11. recent' \in [Client -> [Ages -> Nat]]
  <2>1. [a \in Ages |-> recent[c][a] + k] \in [Ages -> Nat]
    BY <1>10
  <2> QED BY <1>7, <2>1
<1>12. ASSUME NEW d \in Client, d # c
       PROVE  bucket'[d] = bucket[d] /\ forwarded'[d] = forwarded[d] /\ recent'[d] = recent[d]
  BY <1>5, <1>7, <1>12
<1> HIDE DEF b, n
<1>13. ExAccepted => Live(c)'
  <2> SUFFICES ASSUME ExAccepted PROVE Live(c)'
    OBVIOUS
  <2>1. CASE bucket[c].exists
    <3>1. b.ttl = bucket[c].ttl /\ n = forwarded[c] + k
      BY <1>3, <1>6, <2>1 DEF n
    <3>2. /\ 0 < bucket[c].ttl /\ bucket[c].ttl <= window
          /\ \A a \in Ages : a * TickMs <= window - bucket[c].ttl => recent[c][a] <= forwarded[c]
          /\ \A a \in Ages : a * TickMs < 2 * window - bucket[c].ttl
                             => recent[c][a] <= forwarded[c] + BucketYield
      BY <1>7, <2>1 DEF Live
    <3>3. \A a \in Ages : a * TickMs <= window - b.ttl => recent'[c][a] <= n
      BY <1>5, <1>10, <3>1, <3>2
    <3>4. \A a \in Ages : a * TickMs < 2 * window - b.ttl => recent'[c][a] <= n + BucketYield
      BY <1>5, <1>10, <3>1, <3>2, Yield
    <3> QED BY <1>1, <1>8, <1>10, <3>1, <3>2, <3>3, <3>4 DEF Live, BucketYield
  <2>2. CASE ~bucket[c].exists
    <3>1. b.ttl = window /\ n = k
      BY <1>3, <1>6, <2>2 DEF n
    <3>2. \A a \in Ages : /\ a = 0 => recent[c][a] = 0
                          /\ a * TickMs < window => recent[c][a] <= BucketYield
      BY <1>7, <2>2 DEF Ended
    <3>3. 0 < window
      BY <1>1, PositiveWindow DEF ExAccepted
    <3>4. ASSUME NEW a \in Ages, a * TickMs <= window - b.ttl PROVE recent'[c][a] <= n
      <4>1. a = 0
        BY <1>1, <3>1, <3>4, Younger
      <4> QED BY <1>10, <3>1, <3>2, <4>1
    <3>5. ASSUME NEW a \in Ages, a * TickMs < 2 * window - b.ttl
          PROVE  recent'[c][a] <= n + BucketYield
      <4>1. a * TickMs < window
        BY <1>1, <3>1, <3>5, Younger
      <4> QED BY <1>10, <3>1, <3>2, <4>1, Yield
    <3>6. 0 < b.ttl /\ b.ttl <= window /\ BucketYield' = BucketYield
      BY <1>1, <3>1, <3>3 DEF BucketYield
    <3>7. /\ \A a \in Ages : a * TickMs <= window - b.ttl => recent'[c][a] <= n
          /\ \A a \in Ages : a * TickMs < 2 * window - b.ttl => recent'[c][a] <= n + BucketYield
      BY <3>4, <3>5
    <3> QED BY <1>1, <1>8, <1>10, <3>6, <3>7 DEF Live
  <2> QED BY <2>1, <2>2
<1>14. ASSUME NEW d \in Client
       PROVE  /\ ExAccepted' /\ bucket'[d].exists => Live(d)'
              /\ ExAccepted' /\ ~bucket'[d].exists => bucket'[d].ttl = 0 /\ Ended(d)'
              /\ ~ExAccepted' => \A a \in Ages : recent'[d][a] = 0
  <2>1. CASE d = c
    <3>1. bucket'[c].exists
      BY <1>3, <1>10
    <3>2. ~ExAccepted => \A a \in Ages : recent'[c][a] = 0
      BY <1>7, <1>9, <1>10
    <3> QED BY <1>2, <1>13, <2>1, <3>1, <3>2
  <2>2. CASE d # c
    <3>1. bucket'[d] = bucket[d] /\ forwarded'[d] = forwarded[d] /\ recent'[d] = recent[d]
      BY <1>12, <2>2
    <3>2. (Live(d)' <=> Live(d)) /\ (Ended(d)' <=> Ended(d))
      BY <1>1, <3>1 DEF Live, Ended, BucketYield
    <3> QED BY <1>2, <3>1, <3>2 DEF StretchInv
  <2> QED BY <2>1, <2>2
<1> QED BY <1>11, <1>14 DEF StretchInv

\* The relation looks at the window, the buckets and the two histories alone.
LEMMA Unmoved ==
    ASSUME StretchInv, window' = window, bucket' = bucket, forwarded' = forwarded, recent' = recent
    PROVE  StretchInv'
<1>1. ExAccepted' = ExAccepted
  BY DEF ExAccepted
<1>2. \A c \in Client : (Live(c)' <=> Live(c)) /\ (Ended(c)' <=> Ended(c))
  BY DEF Live, Ended, BucketYield
<1> QED BY <1>1, <1>2 DEF StretchInv

\* A tick ages the buckets and the requests alike: while a bucket lasts both sides of
\* its bounds move by one tick, and when it ends all of a window lies within it.
LEMMA StretchTick ==
    ASSUME LimitInv, StretchInv, Tick, UNCHANGED window
    PROVE  StretchInv'
<1>1. window' = window /\ window \in Int /\ TickMs \in Nat /\ TickMs > 0
  BY ConstantsAssumption DEF LimitInv, BucketTypes, Numbers
<1>2. ExAccepted' = ExAccepted
  BY <1>1 DEF ExAccepted
<1>3. /\ forwarded' = forwarded
      /\ bucket' = [c \in Client |-> Age(bucket[c])]
      /\ recent' = [c \in Client |-> [a \in Ages |-> IF a = 0 THEN 0 ELSE recent[c][a - 1]]]
  BY DEF Tick
<1>4. recent \in [Client -> [Ages -> Nat]]
  BY DEF StretchInv
<1>5. recent' \in [Client -> [Ages -> Nat]]
  BY <1>3, <1>4, Younger
<1>6. ASSUME NEW c \in Client
      PROVE  /\ ExAccepted /\ bucket'[c].exists => Live(c)'
             /\ ExAccepted /\ ~bucket'[c].exists => bucket'[c].ttl = 0 /\ Ended(c)'
             /\ ~ExAccepted => \A a \in Ages : recent'[c][a] = 0
  <2> DEFINE b == bucket[c]
  <2>1. b \in Buckets /\ b.ttl \in Int /\ b.exists \in BOOLEAN /\ forwarded[c] \in Nat
    BY DEF LimitInv, BucketTypes, Buckets, Numbers
  <2>2. /\ bucket'[c] = Age(b) /\ forwarded'[c] = forwarded[c]
        /\ \A a \in Ages : recent'[c][a] = IF a = 0 THEN 0 ELSE recent[c][a - 1]
    BY <1>3
  <2>3. \A a \in Ages : a # 0 => /\ a - 1 \in Ages /\ recent'[c][a] = recent[c][a - 1]
                                 /\ recent[c][a - 1] \in Nat
                                 /\ a * TickMs \in Nat
                                 /\ (a - 1) * TickMs = a * TickMs - TickMs
    BY <1>4, <2>2, Younger
  <2>4. \A a \in Ages : a = 0 => recent'[c][a] = 0
    BY <2>2
  <2>5. BucketYield \in Nat /\ BucketYield' = BucketYield
    BY Yield DEF BucketYield
  <2>6. ~ExAccepted => \A a \in Ages : recent'[c][a] = 0
    <3>1. ~ExAccepted => \A a \in Ages : recent[c][a] = 0
      BY DEF StretchInv
    <3> QED BY <2>3, <2>4, <3>1
  <2> HIDE DEF b
  <2>7. CASE ExAccepted /\ b.exists
    <3>1. /\ 0 < b.ttl /\ b.ttl <= window
          /\ forwarded[c] <= BucketYield
          /\ \A a \in Ages : a * TickMs <= window - b.ttl => recent[c][a] <= forwarded[c]
          /\ \A a \in Ages : a * TickMs < 2 * window - b.ttl
                             => recent[c][a] <= forwarded[c] + BucketYield
      BY <2>7 DEF StretchInv, Live, b
    <3>2. CASE b.ttl <= TickMs
      <4>1. bucket'[c] = NoBucket /\ bucket'[c].exists = FALSE /\ bucket'[c].ttl = 0
        BY <2>1, <2>2, <3>1, <3>2 DEF Age, NoBucket
      <4>2. ASSUME NEW a \in Ages, a * TickMs < window PROVE recent'[c][a] <= BucketYield
        <5>1. CASE a = 0
          BY <2>4, <2>5, <5>1
        <5>2. CASE a # 0
          <6>1. (a - 1) * TickMs <= window - b.ttl
            BY <1>1, <2>1, <2>3, <3>2, <4>2, <5>2
          <6>2. recent'[c][a] <= forwarded[c]
            BY <2>3, <3>1, <5>2, <6>1
          <6> QED BY <2>1, <2>3, <2>5, <3>1, <5>2, <6>2
        <5> QED BY <5>1, <5>2
      <4>3. Ended(c)'
        BY <1>1, <2>4, <2>5, <4>2 DEF Ended
      <4> QED BY <2>6, <2>7, <4>1, <4>3
    <3>3. CASE b.ttl > TickMs
      <4>1. bucket'[c] = [b EXCEPT !.ttl = b.ttl - TickMs]
        BY <1>1, <2>1, <2>2, <3>1, <3>3 DEF Age
      <4>2. bucket'[c].exists = b.exists /\ bucket'[c].ttl = b.ttl - TickMs
        BY <2>1, <4>1 DEF Buckets
      <4>3. ASSUME NEW a \in Ages, a * TickMs <= window - (b.ttl - TickMs)
            PROVE  recent'[c][a] <= forwarded[c]
        <5>1. CASE a = 0
          BY <2>1, <2>4, <5>1
        <5>2. CASE a # 0
          <6>1. (a - 1) * TickMs <= window - b.ttl
            BY <1>1, <2>1, <2>3, <4>3, <5>2
          <6> QED BY <2>3, <3>1, <5>2, <6>1
        <5> QED BY <5>1, <5>2
      <4>4. ASSUME NEW a \in Ages, a * TickMs < 2 * window - (b.ttl - TickMs)
            PROVE  recent'[c][a] <= forwarded[c] + BucketYield
        <5>1. CASE a = 0
          BY <2>1, <2>4, <2>5, <5>1
        <5>2. CASE a # 0
          <6>1. (a - 1) * TickMs < 2 * window - b.ttl
            BY <1>1, <2>1, <2>3, <4>4, <5>2
          <6> QED BY <2>3, <3>1, <5>2, <6>1
        <5> QED BY <5>1, <5>2
      <4>5. 0 < b.ttl - TickMs /\ b.ttl - TickMs <= window
        BY <1>1, <2>1, <3>1, <3>3
      <4>6. Live(c)'
        BY <1>1, <2>2, <2>5, <3>1, <4>2, <4>3, <4>4, <4>5 DEF Live
      <4> QED BY <2>6, <2>7, <4>2, <4>6
    <3> QED BY <1>1, <2>1, <3>2, <3>3
  <2>8. CASE ExAccepted /\ ~b.exists
    <3>1. /\ b.ttl = 0
          /\ \A a \in Ages : a * TickMs < window => recent[c][a] <= BucketYield
      BY <2>8 DEF StretchInv, Ended, b
    <3>2. bucket'[c] = b
      BY <2>2, <3>1 DEF Age
    <3>3. ASSUME NEW a \in Ages, a * TickMs < window PROVE recent'[c][a] <= BucketYield
      <4>1. CASE a = 0
        BY <2>4, <2>5, <4>1
      <4>2. CASE a # 0
        <5>1. (a - 1) * TickMs < window
          BY <1>1, <2>3, <3>3, <4>2
        <5> QED BY <2>3, <3>1, <4>2, <5>1
      <4> QED BY <4>1, <4>2
    <3>4. Ended(c)'
      BY <1>1, <2>4, <2>5, <3>3 DEF Ended
    <3> QED BY <2>6, <2>8, <3>1, <3>2, <3>4
  <2>9. CASE ~ExAccepted
    BY <2>6, <2>9
  <2> QED BY <2>7, <2>8, <2>9
<1> QED BY <1>2, <1>5, <1>6 DEF StretchInv

\* Every outcome of a request and every tick keep the relation of buckets and ages.
LEMMA StretchStep == LimitInv /\ StretchInv /\ [Next]_vars => StretchInv'
<1> SUFFICES ASSUME LimitInv, StretchInv, [Next]_vars PROVE StretchInv'
  OBVIOUS
<1>1. ASSUME NEW c \in Client, UNCHANGED window, Allow(c) \/ Reject(c) \/ Unavailable(c)
      PROVE  StretchInv'
  <2>1. /\ recent \in [Client -> [Ages -> Nat]] /\ Passed(c) \in Nat
        /\ bucket \in [Client -> Buckets] /\ forwarded \in [Client -> Nat]
    BY DEF StretchInv, LimitInv, BucketTypes, Passed
  <2>2. recent = [recent EXCEPT ![c] = [a \in Ages |-> recent[c][a] + 0]]
    <3>1. recent[c] \in [Ages -> Nat]
      BY <2>1
    <3>2. [a \in Ages |-> recent[c][a] + 0] = recent[c]
      BY <3>1
    <3> QED BY <2>1, <3>2
  <2>3. CASE Allow(c)
    BY <1>1, <2>3, StretchRequest DEF Allow
  <2>4. ASSUME bucket' = [bucket EXCEPT ![c] = takeToken(bucket[c])],
               forwarded' = [forwarded EXCEPT ![c] = Passed(c)],
               recent' = recent
        PROVE  StretchInv'
    <3>1. PICK k \in {0, 1} : k = 0
      OBVIOUS
    <3>2. Passed(c) + k = Passed(c)
      BY <2>1, <3>1
    <3>3. recent' = [recent EXCEPT ![c] = [a \in Ages |-> recent[c][a] + k]]
      BY <2>2, <2>4, <3>1
    <3>4. ~(k = 1)
      BY <3>1
    <3> QED BY <1>1, <2>4, <3>2, <3>3, <3>4, StretchRequest, Zenon
  <2>5. CASE Reject(c)
    BY <2>4, <2>5 DEF Reject
  <2>6. CASE Unavailable(c)
    <3>1. CASE UNCHANGED <<bucket, forwarded>>
      <4>1. window' = window /\ bucket' = bucket /\ forwarded' = forwarded /\ recent' = recent
        BY <1>1, <2>6, <3>1 DEF Unavailable
      <4> QED BY <4>1, Unmoved
    <3>2. CASE /\ bucket' = [bucket EXCEPT ![c] = takeToken(bucket[c])]
               /\ forwarded' = [forwarded EXCEPT ![c] = Passed(c)]
      BY <2>4, <2>6, <3>2 DEF Unavailable
    <3> QED BY <2>6, <3>1, <3>2 DEF Unavailable
  <2> QED BY <1>1, <2>3, <2>5, <2>6
<1>2. CASE Tick /\ UNCHANGED window
  BY <1>2, StretchTick
<1>3. CASE UNCHANGED vars
  BY <1>3, Unmoved DEF vars
<1> QED BY <1>1, <1>2, <1>3 DEF Next, DecorateHandler, Client

\* The two buckets that can meet in a stretch as long as a window are all there are:
\* a client that times its bursts gets twice the burst but one, and never more.
THEOREM SlidingBounded == Spec => []SlidingBound
<1>1. Init => StretchInv
  <2> SUFFICES ASSUME Init PROVE StretchInv
    OBVIOUS
  <2>1. /\ recent \in [Client -> [Ages -> Nat]]
        /\ \A c \in Client, a \in Ages : recent[c][a] = 0
    BY DEF Init
  <2>2. \A c \in Client : bucket[c].exists = FALSE /\ bucket[c].ttl = 0
    BY DEF Init, NoBucket
  <2> QED BY <2>1, <2>2, Yield DEF StretchInv, Ended
<1>2. LimitInv /\ StretchInv => SlidingBound
  <2> SUFFICES ASSUME LimitInv, StretchInv, NEW c \in Client, NEW a \in Ages,
                      a * TickMs < window
               PROVE  recent[c][a] <= 2 * BucketYield
    BY DEF SlidingBound
  <2>1. /\ window \in Int /\ bucket[c].ttl \in Int /\ bucket[c].exists \in BOOLEAN
        /\ forwarded[c] \in Nat /\ recent[c][a] \in Nat /\ a * TickMs \in Nat
    BY Younger DEF LimitInv, BucketTypes, Buckets, Numbers, StretchInv
  <2>2. CASE ExAccepted /\ bucket[c].exists
    <3>1. /\ bucket[c].ttl <= window /\ forwarded[c] <= BucketYield
          /\ a * TickMs < 2 * window - bucket[c].ttl => recent[c][a] <= forwarded[c] + BucketYield
      BY <2>2 DEF StretchInv, Live
    <3> QED BY <2>1, <3>1, Yield
  <2>3. CASE ExAccepted /\ ~bucket[c].exists
    <3>1. recent[c][a] <= BucketYield
      BY <2>3 DEF StretchInv, Ended
    <3> QED BY <2>1, <3>1, Yield
  <2>4. CASE ~ExAccepted
    BY <2>4, Yield DEF StretchInv
  <2> QED BY <2>2, <2>3, <2>4
<1> QED BY <1>1, <1>2, LimitAlways, StretchStep, PTL DEF Spec
=============================================================================
