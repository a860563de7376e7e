-------------------------- MODULE AdmissionProofs --------------------------
(***************************************************************************)
(* What the gateway's limiter, the access lists, the tokens and the        *)
(* policies promise, for every rate, burst and resolution of time, and for *)
(* all principals, resources, services and times.                          *)
(***************************************************************************)
EXTENDS MCAdmission, SequenceLemmas

-----------------------------------------------------------------------------
(* The limiter: the limit holds in every window, and nobody is refused short *)
(* of it.                                                                    *)

\* What the constants are, without sets.
LEMMA Constants ==
  /\ Rate \in Nat /\ MaxTime \in Nat
  /\ Second \in Nat /\ Second >= 1
  /\ Full \in Nat /\ Full >= Second
<1>1. /\ Rate \in Nat /\ MaxTime \in Nat /\ Second \in Nat /\ Second >= 1
      /\ Burst \in Nat /\ Burst >= 1
  BY LimiterAssumption DEF LimiterAssumption
<1>2. \A a, b \in Nat : a >= 1 => a * b \in Nat /\ a * b >= b
  OBVIOUS
<1>3. QED
  BY <1>1, <1>2 DEF Full

\* What a longer stretch of time gives.
LEMMA Distributes ==
  ASSUME NEW s \in Int, NEW t \in Int, NEW u \in Int, NEW r \in Nat, s <= t
  PROVE  /\ (t - s) * r \in Nat
         /\ (t - u) * r = (s - u) * r + (t - s) * r
OBVIOUS

\* What is taken with one grant more.
LEMMA Products ==
  ASSUME NEW n \in Int, NEW k \in Nat
  PROVE  n * k \in Int /\ (n + 1) * k = n * k + k
OBVIOUS

\* What is left at a later time.
LEMMA LeftLater ==
  ASSUME TypeOK, NEW c \in Client, NEW i \in 1..Len(granted[c]),
         NEW s \in Int, NEW t \in Int, s <= t, NEW n \in Int
  PROVE  /\ Left(c, i, s, n) \in Int
         /\ (t - s) * Rate \in Nat
         /\ Left(c, i, t, n) = Left(c, i, s, n) + (t - s) * Rate
         /\ Left(c, i, s, n + 1) = Left(c, i, s, n) - Second
<1>1. granted[c][i] \in Int
  BY LimiterAssumption DEF TypeOK, LimiterAssumption
<1>2. Rate \in Nat /\ Second \in Nat /\ Full \in Nat
  BY Constants
<1>3. PICK g \in Int : g = granted[c][i]
  BY <1>1
<1>4. /\ (t - s) * Rate \in Nat
      /\ (t - g) * Rate = (s - g) * Rate + (t - s) * Rate
      /\ (s - g) * Rate \in Int
  BY <1>2, Distributes, Products
<1>5. /\ n * Second \in Int
      /\ (n + 1) * Second = n * Second + Second
  BY <1>2, Products
<1>6. /\ Left(c, i, s, n) = Full + (s - g) * Rate - n * Second
      /\ Left(c, i, t, n) = Full + (t - g) * Rate - n * Second
      /\ Left(c, i, s, n + 1) = Full + (s - g) * Rate - (n + 1) * Second
  BY <1>3 DEF Left
<1>7. PICK early \in Int, between \in Nat, charged \in Int :
        /\ early = (s - g) * Rate /\ between = (t - s) * Rate
        /\ charged = n * Second
  BY <1>4, <1>5
<1>8. /\ Left(c, i, s, n) = Full + early - charged
      /\ Left(c, i, t, n) = Full + (early + between) - charged
      /\ Left(c, i, s, n + 1) = Full + early - (charged + Second)
  BY <1>4, <1>5, <1>6, <1>7
<1>9. Left(c, i, t, n) = Left(c, i, s, n) + between
  BY <1>2, <1>7, <1>8
<1>10. Left(c, i, s, n + 1) = Left(c, i, s, n) - Second /\ Left(c, i, s, n) \in Int
  BY <1>2, <1>7, <1>8
<1>11. QED
  BY <1>4, <1>7, <1>9, <1>10

\* The level a request finds: what the tightest window leaves now.
LEMMA RefilledFacts ==
  ASSUME LimiterInv, NEW c \in Client
  PROVE  LET r == Refilled(buckets[c]) IN
         /\ r \in 0..Full
         /\ \A i \in 1..Len(granted[c]) : r <= Allowance(c, i, now)
         /\ \/ r = Full
            \/ \E i \in 1..Len(granted[c]) : r = Allowance(c, i, now)
<1> DEFINE r == Refilled(buckets[c])
           b == buckets[c]
           level == b.tokens + (now - b.lastTime) * Rate
<1>1. CASE b = NoBucket
  <2>1. r = Full /\ Len(granted[c]) = 0
    BY <1>1 DEF Refilled, LimiterInv, BucketsAreUsed
  <2>2. QED
    BY <2>1, Constants
<1>2. CASE b # NoBucket
  <2>1. /\ b \in Bucket
        /\ b.tokens \in Nat /\ b.tokens <= Full
        /\ b.lastTime \in Int /\ b.lastTime <= now
        /\ now \in Int
    BY <1>2, Constants DEF LimiterInv, TypeOK, BucketsAreUsed, Bucket
  <2>2. /\ (now - b.lastTime) * Rate \in Nat
        /\ r = IF level < Full THEN level ELSE Full
    <3>1. (now - b.lastTime) * Rate \in Nat
      BY <2>1, Constants, Distributes
    <3>2. QED
      BY <1>2, <3>1 DEF Refilled
  <2>3. r \in 0..Full
    BY <2>1, <2>2, Constants
  <2>4. ASSUME NEW i \in 1..Len(granted[c])
        PROVE  /\ Allowance(c, i, b.lastTime) \in Int
               /\ Allowance(c, i, now)
                    = Allowance(c, i, b.lastTime) + (now - b.lastTime) * Rate
    <3>1. Len(granted[c]) - i + 1 \in Int
      BY DEF LimiterInv, TypeOK
    <3>2. TypeOK
      BY DEF LimiterInv
    <3>3. QED
      BY <2>1, <3>1, <3>2, LeftLater DEF Allowance
  <2>5. \A i \in 1..Len(granted[c]) : b.tokens <= Allowance(c, i, b.lastTime)
    BY <1>2 DEF LimiterInv, LevelIsExact
  <2>6. \/ b.tokens = Full
        \/ \E i \in 1..Len(granted[c]) : b.tokens = Allowance(c, i, b.lastTime)
    BY <1>2 DEF LimiterInv, LevelIsExact
  <2>7. ASSUME NEW i \in 1..Len(granted[c])
        PROVE  r <= Allowance(c, i, now)
    <3>1. r <= level
      BY <2>1, <2>2, Constants
    <3>2. level <= Allowance(c, i, now)
      BY <2>1, <2>2, <2>4, <2>5
    <3>3. level \in Int /\ r \in Int /\ Allowance(c, i, now) \in Int
      BY <2>1, <2>2, <2>3, <2>4
    <3>4. QED
      BY <3>1, <3>2, <3>3
  <2>8. r = Full \/ \E i \in 1..Len(granted[c]) : r = Allowance(c, i, now)
    BY <2>1, <2>2, <2>4, <2>6, Constants
  <2>9. QED
    BY <2>3, <2>7, <2>8
<1>3. QED
  BY <1>1, <1>2

\* No grant is later than the bucket's last request, nor than now.
LEMMA GrantsArePast ==
  ASSUME LimiterInv, NEW c \in Client, NEW i \in 1..Len(granted[c])
  PROVE  granted[c][i] <= now
<1>1. /\ granted[c] \in Seq(0..MaxTime) /\ now \in Nat
      /\ buckets[c] \in Bucket \cup {NoBucket}
  BY Constants DEF LimiterInv, TypeOK
<1>2. granted[c] # <<>>
  BY <1>1
<1>3. buckets[c] # NoBucket /\ buckets[c].lastTime <= now
  BY <1>2 DEF LimiterInv, BucketsAreUsed
<1>4. granted[c][i] <= buckets[c].lastTime
  BY <1>3 DEF LimiterInv, LevelIsExact
<1>5. granted[c][i] \in Nat /\ buckets[c].lastTime \in Nat
  <2>1. buckets[c] \in [tokens : 0..Full, lastTime : 0..MaxTime]
    BY <1>1, <1>3 DEF Bucket
  <2>2. 0..MaxTime \subseteq Nat
    BY Constants
  <2>3. granted[c][i] \in 0..MaxTime
    BY <1>1, Elements
  <2>4. buckets[c].lastTime \in 0..MaxTime
    BY <2>1
  <2> QED BY <2>2, <2>3, <2>4
<1>6. QED
  BY <1>1, <1>3, <1>4, <1>5

-----------------------------------------------------------------------------
(* The inductive invariant, one lemma per action *)

\* Nothing was granted yet.
LEMMA LimiterInit == Init => LimiterInv
BY Constants DEF Init, LimiterInv, TypeOK, BucketsAreUsed, LevelIsExact, WithinRate,
                 DeniedOnlyAtLimit

\* A grant adds one to every window it falls in and opens one of its own.
LEMMA LimiterAllow ==
  ASSUME LimiterInv, NEW c \in Client, Allow(c)
  PROVE  LimiterInv'
<1> DEFINE r == Refilled(buckets[c])
<1>1. /\ TypeOK /\ BucketsAreUsed /\ LevelIsExact /\ WithinRate /\ DeniedOnlyAtLimit
  BY DEF LimiterInv
<1>2. PICK n \in Nat : n = Len(granted[c])
  BY <1>1 DEF TypeOK
<1>3. /\ r \in 0..Full /\ r >= Second
      /\ \A i \in 1..n : r <= Allowance(c, i, now)
      /\ r = Full \/ \E i \in 1..n : r = Allowance(c, i, now)
  BY <1>2, RefilledFacts DEF Allow
<1>4. /\ now \in 0..MaxTime /\ now' = now /\ denied' = denied
      /\ n \in Nat /\ n = Len(granted[c])
      /\ granted \in [Client -> Seq(0..MaxTime)]
      /\ granted' = [granted EXCEPT ![c] = Append(granted[c], now)]
      /\ buckets \in [Client -> Bucket \cup {NoBucket}]
      /\ buckets' = [buckets EXCEPT ![c] = [tokens |-> r - Second, lastTime |-> now]]
  BY <1>2, <1>1 DEF Allow, TypeOK
<1>5. /\ granted'[c] = Append(granted[c], now)
      /\ Len(granted'[c]) = n + 1
      /\ granted'[c][n + 1] = now
      /\ \A i \in 1..n : granted'[c][i] = granted[c][i]
      /\ \A d \in Client : d # c => granted'[d] = granted[d] /\ buckets'[d] = buckets[d]
      /\ buckets'[c] = [tokens |-> r - Second, lastTime |-> now]
      /\ buckets'[c] \in Bucket
      /\ buckets'[c] # NoBucket
  <2>1. [tokens |-> r - Second, lastTime |-> now] \in Bucket
    BY <1>3, <1>4, Constants DEF Bucket
  <2>2. QED
    BY <1>4, <2>1, LimiterAssumption DEF LimiterAssumption
<1>6. TypeOK'
  <2>1. Append(granted[c], now) \in Seq(0..MaxTime)
    BY <1>4
  <2>2. QED
    BY <1>1, <1>4, <1>5, <2>1 DEF TypeOK
<1>7. ASSUME NEW i \in 1..n
      PROVE  /\ Allowance(c, i, now) \in Int
             /\ Allowance(c, i, now)' = Allowance(c, i, now) - Second
             /\ \A j \in Int : Left(c, i, now, j)' = Left(c, i, now, j)
  <2>1. \A j \in Int : Left(c, i, now, j)' = Left(c, i, now, j)
    BY <1>4, <1>5 DEF Left
  <2>2. /\ n - i + 1 \in Int /\ Len(granted'[c]) - i + 1 = (n - i + 1) + 1
        /\ now \in Int /\ now <= now
    BY <1>4, <1>5, Constants
  <2>3. i \in 1..Len(granted[c])
    BY <1>2
  <2>4. /\ Left(c, i, now, n - i + 1) \in Int
        /\ Left(c, i, now, (n - i + 1) + 1) = Left(c, i, now, n - i + 1) - Second
    BY <1>1, <2>2, <2>3, LeftLater
  <2>5. /\ Allowance(c, i, now) = Left(c, i, now, n - i + 1)
        /\ Allowance(c, i, now)' = Left(c, i, now, (n - i + 1) + 1)
    BY <1>2, <2>1, <2>2 DEF Allowance
  <2>6. QED
    BY <2>1, <2>4, <2>5
<1>8. Allowance(c, n + 1, now)' = Full - Second
  <2>1. Len(granted'[c]) - (n + 1) + 1 = 1 /\ now' - granted'[c][n + 1] = 0
    BY <1>4, <1>5, Constants
  <2>2. Full + 0 * Rate - 1 * Second = Full - Second
    BY Constants
  <2>3. Allowance(c, n + 1, now)' = Full + 0 * Rate - 1 * Second
    BY <2>1 DEF Allowance, Left
  <2>4. QED
    BY <2>2, <2>3
<1>9. ASSUME NEW i \in 1..(n + 1)
       PROVE  Allowance(c, i, now)' \in Int /\ r - Second <= Allowance(c, i, now)'
  <2>1. CASE i \in 1..n
    BY <1>3, <1>7, <2>1, Constants
  <2>2. CASE i = n + 1
    <3>1. Allowance(c, i, now)' = Full - Second
      BY <1>8, <2>2
    <3>2. QED
      BY <1>3, <3>1, Constants
  <2>3. QED
    BY <1>4, <2>1, <2>2
<1>10. BucketsAreUsed'
  BY <1>1, <1>4, <1>5, Constants DEF BucketsAreUsed
<1>11. LevelIsExact'
  <2> SUFFICES ASSUME NEW d \in Client, buckets'[d] # NoBucket
               PROVE
                 /\ \A i \in 1..Len(granted'[d]) :
                      /\ granted'[d][i] <= buckets'[d].lastTime
                      /\ buckets'[d].tokens <= Allowance(d, i, buckets[d].lastTime)'
                 /\ \/ buckets'[d].tokens = Full
                    \/ \E i \in 1..Len(granted'[d]) :
                         buckets'[d].tokens = Allowance(d, i, buckets[d].lastTime)'
    BY DEF LevelIsExact
  <2>1. CASE d # c
    BY <1>1, <1>5, <2>1 DEF LevelIsExact, Allowance, Left
  <2>2. CASE d = c
    <3>1. \A i \in 1..n : granted[c][i] <= now
      BY <1>2, GrantsArePast
    <3>2. /\ buckets'[c].tokens = r - Second /\ buckets'[c].lastTime = now
      BY <1>5
    <3>3. \A i \in 1..(n + 1) : Allowance(c, i, buckets[c].lastTime)' = Allowance(c, i, now)'
      BY <1>4, <3>2 DEF Allowance, Left
    <3>4. \A i \in 1..(n + 1) : r - Second <= Allowance(c, i, now)'
      BY <1>9
    <3>5. \E i \in 1..(n + 1) : r - Second = Allowance(c, i, now)'
      <4>1. CASE r = Full
        <5>1. n + 1 \in 1..(n + 1)
          BY <1>4
        <5>2. QED
          BY <4>1, <1>8, <5>1
      <4>2. CASE \E i \in 1..n : r = Allowance(c, i, now)
        BY <4>2, <1>4, <1>7
      <4>3. QED
        BY <1>3, <4>1, <4>2
    <3>6. \A i \in 1..(n + 1) : granted'[c][i] <= now
      BY <1>4, <1>5, <3>1, Constants
    <3>7. QED
      BY <2>2, <1>5, <3>2, <3>3, <3>4, <3>5, <3>6
  <2>3. QED
    BY <2>1, <2>2
<1>12. WithinRate'
  <2> SUFFICES ASSUME NEW d \in Client, NEW j \in 1..Len(granted'[d]), NEW i \in 1..j
               PROVE  Left(d, i, granted[d][j], j - i + 1)' >= 0
    BY DEF WithinRate
  <2>1. CASE d # c
    BY <1>1, <1>5, <2>1 DEF WithinRate, Left
  <2>2. CASE d = c /\ j \in 1..n
    <3>1. j \in 1..Len(granted[c]) /\ i \in 1..n
      BY <1>4, <2>2
    <3>2. granted'[c][j] = granted[c][j] /\ granted'[c][i] = granted[c][i]
      BY <1>4, <1>5, <2>2, <3>1
    <3>3. Left(c, i, granted[c][j], j - i + 1) >= 0
      BY <1>1, <3>1 DEF WithinRate
    <3>4. QED
      BY <2>2, <3>2, <3>3 DEF Left
  <2>3. CASE d = c /\ j = n + 1
    <3>1. Left(d, i, granted[d][j], j - i + 1)' = Allowance(c, i, now)'
      BY <1>4, <1>5, <2>3 DEF Allowance, Left
    <3>2. Allowance(c, i, now)' >= 0
      BY <1>3, <1>9, <2>3, Constants
    <3>3. QED
      BY <3>1, <3>2
  <2>4. QED
    BY <1>4, <1>5, <2>1, <2>2, <2>3
<1>13. DeniedOnlyAtLimit'
  <2> SUFFICES ASSUME NEW d \in denied
               PROVE  \E i \in 1..Len(granted'[d]) : Allowance(d, i, now)' < Second
    BY <1>4 DEF DeniedOnlyAtLimit
  <2>1. d \in Client
    BY <1>1 DEF TypeOK
  <2>2. PICK i \in 1..Len(granted[d]) : Allowance(d, i, now) < Second
    BY <1>1 DEF DeniedOnlyAtLimit
  <2>3. CASE d # c
    BY <1>4, <1>5, <2>1, <2>2, <2>3 DEF Allowance, Left
  <2>4. CASE d = c
    <3>1. Allowance(c, i, now)' < Second /\ i \in 1..(n + 1)
      BY <1>4, <1>7, <2>2, <2>4, Constants
    <3>2. QED
      BY <1>5, <2>4, <3>1
  <2>5. QED
    BY <2>3, <2>4
<1>14. QED
  BY <1>6, <1>10, <1>11, <1>12, <1>13 DEF LimiterInv
\* A refusal leaves the windows alone; the tightest one is the witness.
LEMMA LimiterDeny ==
  ASSUME LimiterInv, NEW c \in Client, Deny(c)
  PROVE  LimiterInv'
<1> DEFINE r == Refilled(buckets[c])
           n == Len(granted[c])
<1>1. /\ TypeOK /\ BucketsAreUsed /\ LevelIsExact /\ WithinRate /\ DeniedOnlyAtLimit
  BY DEF LimiterInv
<1>2. /\ r \in 0..Full /\ r < Second
      /\ \A i \in 1..n : r <= Allowance(c, i, now)
      /\ r = Full \/ \E i \in 1..n : r = Allowance(c, i, now)
  BY RefilledFacts DEF Deny
<1>3. /\ now \in 0..MaxTime /\ now' = now /\ granted' = granted
      /\ denied' = denied \cup {c}
      /\ buckets \in [Client -> Bucket \cup {NoBucket}]
      /\ buckets' = [buckets EXCEPT ![c] = [tokens |-> r, lastTime |-> now]]
      /\ [tokens |-> r, lastTime |-> now] \in Bucket
  BY <1>1, <1>2 DEF Deny, TypeOK, Bucket
<1>4. /\ buckets'[c] = [tokens |-> r, lastTime |-> now]
      /\ \A d \in Client : d # c => buckets'[d] = buckets[d]
  BY <1>3
<1>5. TypeOK'
  BY <1>1, <1>3 DEF TypeOK
<1>6. BucketsAreUsed'
  <2>1. buckets'[c] # NoBucket
    BY <1>3, <1>4, LimiterAssumption DEF LimiterAssumption
  <2>2. buckets'[c].lastTime <= now'
    BY <1>3, <1>4, Constants
  <2>3. QED
    BY <1>1, <1>3, <1>4, <2>1, <2>2 DEF BucketsAreUsed
<1>7. \A i \in 1..n : granted[c][i] <= now
  BY GrantsArePast
<1>8. \A d \in Client, i \in Nat, t \in Nat : Allowance(d, i, t)' = Allowance(d, i, t)
  BY <1>3 DEF Allowance, Left
<1>9. LevelIsExact'
  <2> SUFFICES ASSUME NEW d \in Client, buckets'[d] # NoBucket
               PROVE
                 /\ \A i \in 1..Len(granted[d]) :
                      /\ granted[d][i] <= buckets'[d].lastTime
                      /\ buckets'[d].tokens <= Allowance(d, i, buckets[d].lastTime)'
                 /\ \/ buckets'[d].tokens = Full
                    \/ \E i \in 1..Len(granted[d]) :
                         buckets'[d].tokens = Allowance(d, i, buckets[d].lastTime)'
    BY <1>3 DEF LevelIsExact
  <2>1. CASE d # c
    BY <1>1, <1>3, <1>4, <2>1 DEF LevelIsExact, Allowance, Left
  <2>2. CASE d = c
    <3>1. buckets'[c].tokens = r /\ buckets'[c].lastTime = now
      BY <1>4
    <3>2. \A i \in 1..n : Allowance(c, i, buckets[c].lastTime)' = Allowance(c, i, now)
      BY <1>3, <3>1 DEF Allowance, Left
    <3>3. QED
      BY <1>2, <1>7, <2>2, <3>1, <3>2
  <2>3. QED
    BY <2>1, <2>2
<1>10. WithinRate'
  BY <1>1, <1>3 DEF WithinRate, Left
<1>11. DeniedOnlyAtLimit'
  <2>1. r # Full
    BY <1>2, Constants
  <2>2. \E i \in 1..n : Allowance(c, i, now) < Second
    BY <1>2, <2>1
  <2>3. \A d \in denied \cup {c} : \E i \in 1..Len(granted[d]) : Allowance(d, i, now) < Second
    BY <1>1, <2>2 DEF DeniedOnlyAtLimit
  <2>4. QED
    BY <1>3, <2>3 DEF DeniedOnlyAtLimit, Allowance, Left
<1>12. QED
  BY <1>5, <1>6, <1>9, <1>10, <1>11 DEF LimiterInv

\* Time only passes.
LEMMA LimiterTick ==
  ASSUME LimiterInv, Tick
  PROVE  LimiterInv'
<1>1. /\ TypeOK /\ BucketsAreUsed /\ LevelIsExact /\ WithinRate /\ DeniedOnlyAtLimit
  BY DEF LimiterInv
<1>2. /\ now \in 0..MaxTime /\ now' = now + 1 /\ now' \in 0..MaxTime
      /\ buckets' = buckets /\ granted' = granted /\ denied' = {}
  BY <1>1, Constants DEF TypeOK, Tick
<1>3. TypeOK'
  BY <1>1, <1>2 DEF TypeOK
<1>4. BucketsAreUsed'
  <2>1. \A c \in Client : buckets[c] # NoBucket => buckets[c].lastTime \in Nat
    BY <1>1, Constants DEF TypeOK, Bucket
  <2>2. QED
    BY <1>1, <1>2, <2>1, Constants DEF BucketsAreUsed
<1>5. LevelIsExact'
  BY <1>1, <1>2 DEF LevelIsExact, Allowance, Left
<1>6. WithinRate'
  BY <1>1, <1>2 DEF WithinRate, Left
<1>7. DeniedOnlyAtLimit'
  BY <1>2 DEF DeniedOnlyAtLimit
<1>8. QED
  BY <1>3, <1>4, <1>5, <1>6, <1>7 DEF LimiterInv

\* A step that changes nothing keeps what was true.
LEMMA LimiterStutter == LimiterInv /\ UNCHANGED vars => LimiterInv'
BY DEF LimiterInv, TypeOK, BucketsAreUsed, LevelIsExact, WithinRate, DeniedOnlyAtLimit,
       Allowance, Left, vars

-----------------------------------------------------------------------------
(* Theorems *)

\* The strengthened invariant of the limiter.
THEOREM LimiterInvariant == Spec => []LimiterInv
<1>1. Init => LimiterInv
  BY LimiterInit
<1>2. LimiterInv /\ [Next]_vars => LimiterInv'
  BY LimiterAllow, LimiterDeny, LimiterTick, LimiterStutter DEF Next
<1>3. QED
  BY <1>1, <1>2, PTL DEF Spec

\* Type correctness: a level never leaves the range from empty to the burst.
THEOREM LimiterTypeCorrect == Spec => []TypeOK
<1>1. LimiterInv => TypeOK
  BY DEF LimiterInv
<1>2. QED
  BY <1>1, LimiterInvariant, PTL

\* No window of time sees more grants than the burst and the rate allow.
THEOREM GrantsStayWithinRate == Spec => []WithinRate
<1>1. LimiterInv => WithinRate
  BY DEF LimiterInv
<1>2. QED
  BY <1>1, LimiterInvariant, PTL

\* No refusal short of the limit.
THEOREM DenialsAreAtLimit == Spec => []DeniedOnlyAtLimit
<1>1. LimiterInv => DeniedOnlyAtLimit
  BY DEF LimiterInv
<1>2. QED
  BY <1>1, LimiterInvariant, PTL

\* A second without a grant refills at least one token, whatever the rate: the limit
\* was respected when the last grant was made, and the second since then gives Rate.
LEMMA LimiterRetryAfter == LimiterInv => RetryAfterSuffices
<1> SUFFICES ASSUME LimiterInv, Rate > 0, NEW c \in denied
             PROVE  \E i \in 1..Len(granted[c]) : now < granted[c][i] + Second
  BY DEF RetryAfterSuffices
<1> DEFINE n == Len(granted[c])
           last == granted[c][n]
<1>1. TypeOK /\ WithinRate /\ DeniedOnlyAtLimit /\ c \in Client
  BY DEF LimiterInv, TypeOK
<1>2. PICK i \in 1..n : Allowance(c, i, now) < Second
  BY <1>1 DEF DeniedOnlyAtLimit
<1>3. n \in Nat /\ n \in 1..n /\ last \in Int /\ now \in Int
  BY <1>1, <1>2, Constants DEF TypeOK
<1>4. Left(c, i, last, n - i + 1) >= 0
  BY <1>1, <1>2, <1>3 DEF WithinRate
<1>5. SUFFICES ASSUME last + Second <= now PROVE FALSE
  BY <1>3, Constants
<1>6. /\ Left(c, i, last, n - i + 1) \in Int
      /\ Left(c, i, now, n - i + 1) = Left(c, i, last, n - i + 1) + (now - last) * Rate
  <2>1. i \in 1..Len(granted[c]) /\ last <= now
    BY <1>2, <1>3, <1>5, Constants
  <2> HIDE DEF n, last
  <2>2. n - i + 1 \in Int
    BY <1>2, <1>3
  <2>3. PICK m \in Int : m = n - i + 1
    BY <2>2
  <2>4. /\ Left(c, i, last, m) \in Int
        /\ Left(c, i, now, m) = Left(c, i, last, m) + (now - last) * Rate
    BY <1>1, <1>3, <2>1, LeftLater
  <2>5. QED
    BY <2>3, <2>4
<1>7. (now - last) * Rate \in Nat /\ (now - last) * Rate >= Second
  <2>1. \A a, b, s \in Nat : a >= s /\ b >= 1 => a * b \in Nat /\ a * b >= s
    OBVIOUS
  <2>2. now - last \in Nat /\ now - last >= Second /\ Rate >= 1
    BY <1>3, <1>5, Constants
  <2>3. QED
    BY <2>1, <2>2, Constants
<1>8. QED
  BY <1>2, <1>4, <1>6, <1>7, Constants DEF Allowance

\* "Retry-After: 1" is enough.
THEOREM RetryAfterIsEnough == Spec => []RetryAfterSuffices
BY LimiterRetryAfter, LimiterInvariant, PTL

\* No refusal is more than the limit demands.
THEOREM RefusalsAreDue == Spec => []RefusalsAreFair
<1>1. DeniedOnlyAtLimit /\ RetryAfterSuffices => RefusalsAreFair
  BY DEF RefusalsAreFair
<1> QED BY <1>1, DenialsAreAtLimit, RetryAfterIsEnough, PTL

-----------------------------------------------------------------------------
(* Access lists *)

\* No entry that is left grants what was revoked.
RevokedAreGone == \A q \in revoked : \A e \in entries : ~Matches(e, q)

\* A summary under way: it has visited entries there are, it holds only what was
\* allowed when it began, and all that live entries it has visited grant.
SummaryInv ==
  summary # NoSummary =>
    /\ summary.todo \subseteq entries
    /\ summary.start <= clock
    /\ summary.perms \subseteq AllowedAt(summary.start)
    /\ \A e \in entries : e.principal_id = summary.principal_id /\ Live(e, clock) =>
         e \in summary.todo \/ Filed(e) \subseteq summary.perms

AclInv == AclTypeOK /\ RevokedAreGone /\ SummaryInv

-----------------------------------------------------------------------------

\* Time only ends the life of an entry.
LEMMA LiveEarlier ==
  ASSUME NEW e \in AclEntry, NEW s \in Nat, NEW t \in Nat, s <= t, Live(e, t)
  PROVE  Live(e, s)
<1>1. CASE e.expires_at = Never
  BY <1>1 DEF Live
<1>2. CASE e.expires_at # Never
  <2>1. e.expires_at \in Nat
    BY <1>2, AclAssumption DEF AclAssumption, AclEntry, AclTime
  <2> QED BY <2>1, <1>2 DEF Live
<1> QED BY <1>1, <1>2

\* What an entry is filed under is of the type of a summary.
LEMMA FiledType ==
  ASSUME NEW e \in AclEntry
  PROVE  Filed(e) \subseteq {SlotOf(r) : r \in Resource} \X Action
BY DEF Filed, AclEntry

\* Type correctness of the access lists.
LEMMA AclTypeInit == AclInit => AclTypeOK
BY AclAssumption DEF AclAssumption, AclInit, AclTypeOK, AclTime

LEMMA AclTypeNext == AclTypeOK /\ [AclNext]_aclVars => AclTypeOK'
<1> SUFFICES ASSUME AclTypeOK, [AclNext]_aclVars PROVE AclTypeOK'
  OBVIOUS
<1> USE DEF AclTypeOK
<1>1. ASSUME NEW e \in Grantable, grant(e) PROVE AclTypeOK'
  BY <1>1, AclAssumption DEF AclAssumption, grant
<1>2. ASSUME NEW q \in Question, revoke(q) PROVE AclTypeOK'
  BY <1>2 DEF revoke
<1>3. CASE AclTick
  BY <1>3, AclAssumption DEF AclAssumption, AclTick, AclTime
<1>4. ASSUME NEW p \in Principal, StartSummary(p) PROVE AclTypeOK'
  BY <1>4 DEF StartSummary, Summary
<1>5. ASSUME NEW e \in entries, Summarise(e) PROVE AclTypeOK'
  <2>1. summary \in Summary
    BY <1>5 DEF Summarise, Building
  <2>2. Filed(e) \subseteq {SlotOf(r) : r \in Resource} \X Action
    BY FiledType, <1>5
  <2>3. summary' \in Summary
    BY <1>5, <2>1, <2>2 DEF Summarise, Summary
  <2> QED BY <1>5, <2>3 DEF Summarise
<1>6. CASE UNCHANGED aclVars
  BY <1>6 DEF aclVars
<1> QED BY <1>1, <1>2, <1>3, <1>4, <1>5, <1>6 DEF AclNext

\* A revocation drops all that grants the question, a grant takes its questions off the
\* list of the revoked.
LEMMA RevokedNext == AclTypeOK /\ RevokedAreGone /\ [AclNext]_aclVars => RevokedAreGone'
<1> SUFFICES ASSUME AclTypeOK, RevokedAreGone, [AclNext]_aclVars PROVE RevokedAreGone'
  OBVIOUS
<1> USE DEF RevokedAreGone
<1>1. ASSUME NEW e \in Grantable, grant(e) PROVE RevokedAreGone'
  BY <1>1 DEF grant, Matches
<1>2. ASSUME NEW q \in Question, revoke(q) PROVE RevokedAreGone'
  BY <1>2 DEF revoke, Dropped, Matches
<1>3. CASE AclTick
  BY <1>3 DEF AclTick, Matches
<1>4. ASSUME NEW p \in Principal, StartSummary(p) PROVE RevokedAreGone'
  BY <1>4 DEF StartSummary, Matches
<1>5. ASSUME NEW e \in entries, Summarise(e) PROVE RevokedAreGone'
  BY <1>5 DEF Summarise, Matches
<1>6. CASE UNCHANGED aclVars
  BY <1>6 DEF aclVars, Matches
<1> QED BY <1>1, <1>2, <1>3, <1>4, <1>5, <1>6 DEF AclNext

\* An entry that was live when it was visited was live when the summary began.
LEMMA FiledIsAllowed ==
  ASSUME AclTypeOK, summary \in Summary, summary.start <= clock, NEW e \in entries,
         e.principal_id = summary.principal_id, Live(e, clock)
  PROVE  Filed(e) \subseteq AllowedAt(summary.start)
<1> SUFFICES ASSUME NEW a \in e.actions, e.resource.kind = "System" => a = "Admin"
             PROVE  <<SlotOf(e.resource), a>> \in AllowedAt(summary.start)
  BY DEF Filed
<1>1. e \in AclEntry /\ summary.start \in Nat /\ clock \in Nat
  BY AclAssumption DEF AclAssumption, AclTypeOK, AclTime, Summary
<1>2. Live(e, summary.start)
  BY <1>1, LiveEarlier
<1> DEFINE q == [principal_id |-> e.principal_id, action |-> a, resource |-> e.resource]
<1>3. q \in Question
  BY <1>1 DEF AclEntry, Question
<1>4. checkAt(q, summary.start)
  BY <1>2 DEF checkAt, Matches
<1>5. q.principal_id = summary.principal_id /\ q.resource = e.resource /\ q.action = a
  OBVIOUS
<1> HIDE DEF q
<1> QED BY <1>3, <1>4, <1>5 DEF AllowedAt

LEMMA SummaryNext == AclTypeOK /\ SummaryInv /\ [AclNext]_aclVars => SummaryInv'
<1> SUFFICES ASSUME AclTypeOK, SummaryInv, [AclNext]_aclVars, (summary # NoSummary)'
             PROVE  /\ (summary.todo \subseteq entries)'
                    /\ (summary.start <= clock)'
                    /\ (summary.perms \subseteq AllowedAt(summary.start))'
                    /\ (\A e \in entries : e.principal_id = summary.principal_id /\ Live(e, clock) =>
                          e \in summary.todo \/ Filed(e) \subseteq summary.perms)'
  BY DEF SummaryInv
<1>1. ASSUME NEW e \in Grantable, grant(e) PROVE FALSE
  BY <1>1 DEF grant
<1>2. ASSUME NEW q \in Question, revoke(q) PROVE FALSE
  BY <1>2 DEF revoke
<1>3. CASE AclTick
  <2>1. summary # NoSummary /\ UNCHANGED <<entries, summary>> /\ clock' = clock + 1
    BY <1>3 DEF AclTick
  <2>2. clock \in Nat /\ summary \in Summary /\ summary.start \in Nat
    BY <2>1, AclAssumption DEF AclAssumption, AclTypeOK, AclTime, Summary
  <2>3. (summary.start <= clock)'
    BY <2>1, <2>2 DEF SummaryInv
  <2>4. (summary.perms \subseteq AllowedAt(summary.start))'
    BY <2>1 DEF SummaryInv, AllowedAt, checkAt
  <2>5. ASSUME NEW e \in entries, Live(e, clock + 1) PROVE Live(e, clock)
    BY <2>2, <2>5, LiveEarlier DEF AclTypeOK
  <2> QED BY <2>1, <2>3, <2>4, <2>5 DEF SummaryInv, Filed
<1>4. ASSUME NEW p \in Principal, StartSummary(p) PROVE SummaryInv'
  <2>1. clock \in Nat
    BY AclAssumption DEF AclAssumption, AclTypeOK, AclTime
  <2>2. /\ summary'.todo = entries' /\ summary'.start = clock' /\ summary'.perms = {}
        /\ clock' = clock
    BY <1>4 DEF StartSummary
  <2> QED BY <2>1, <2>2 DEF SummaryInv
<1>5. ASSUME NEW e \in entries, Summarise(e) PROVE SummaryInv'
  <2>1. summary # NoSummary /\ summary \in Summary
    BY <1>5 DEF Summarise, Building, AclTypeOK
  <2>2. /\ summary'.todo = summary.todo \ {e}
        /\ summary'.principal_id = summary.principal_id
        /\ summary'.start = summary.start
        /\ summary'.perms = IF Skipped(e) THEN summary.perms ELSE summary.perms \cup Filed(e)
        /\ UNCHANGED <<entries, clock>>
    BY <1>5, <2>1 DEF Summarise, Summary
  <2>3. AllowedAt(summary.start)' = AllowedAt(summary.start)
    BY <2>2 DEF AllowedAt, checkAt
  <2>4. summary'.perms \subseteq AllowedAt(summary.start)
    <3>1. CASE Skipped(e)
      BY <3>1, <2>1, <2>2 DEF SummaryInv
    <3>2. CASE ~Skipped(e)
      <4>1. e.principal_id = summary.principal_id /\ Live(e, clock)
        BY <3>2 DEF Skipped
      <4>2. summary.start <= clock
        BY <2>1 DEF SummaryInv
      <4>3. Filed(e) \subseteq AllowedAt(summary.start)
        BY <4>1, <4>2, <2>1, FiledIsAllowed
      <4> QED BY <3>2, <4>3, <2>1, <2>2 DEF SummaryInv
    <3> QED BY <3>1, <3>2
  <2>5. ASSUME NEW f \in entries, f.principal_id = summary.principal_id, Live(f, clock)
        PROVE  f \in summary'.todo \/ Filed(f) \subseteq summary'.perms
    <3>1. CASE f = e
      <4>1. ~Skipped(e)
        BY <3>1, <2>5 DEF Skipped
      <4> QED BY <3>1, <4>1, <2>2
    <3>2. CASE f # e
      <4>1. f \in summary.todo \/ Filed(f) \subseteq summary.perms
        BY <2>1, <2>5 DEF SummaryInv
      <4> QED BY <3>2, <4>1, <2>2
    <3> QED BY <3>1, <3>2
  <2>6. (summary.todo \subseteq entries)' /\ (summary.start <= clock)'
    BY <2>1, <2>2 DEF SummaryInv
  <2>7. \A f \in entries' : f.principal_id = summary'.principal_id /\ Live(f, clock') =>
          f \in summary'.todo \/ Filed(f)' \subseteq summary'.perms
    BY <2>2, <2>5 DEF Filed
  <2>8. (summary.perms \subseteq AllowedAt(summary.start))'
    BY <2>2, <2>3, <2>4
  <2> QED BY <2>6, <2>7, <2>8 DEF SummaryInv, Live, Filed
<1>6. CASE UNCHANGED aclVars
  BY <1>6 DEF aclVars, SummaryInv, AllowedAt, checkAt, Live, Filed
<1> QED BY <1>1, <1>2, <1>3, <1>4, <1>5, <1>6 DEF AclNext, SummaryInv

-----------------------------------------------------------------------------
(* Theorems *)

LEMMA AclStep == AclInv /\ [AclNext]_aclVars => AclInv'
BY AclTypeNext, RevokedNext, SummaryNext DEF AclInv

\* The inductive invariant of the access lists.
THEOREM AclInvariant == AclSpec => []AclInv
<1>1. AclInit => AclInv
  BY AclTypeInit DEF AclInit, AclInv, RevokedAreGone, SummaryInv
<1> QED BY <1>1, AclStep, PTL DEF AclSpec

\* Type correctness for any grants and revocations.
THEOREM AclTypeCorrect == AclSpec => []AclTypeOK
<1>1. AclInv => AclTypeOK
  BY DEF AclInv
<1> QED BY <1>1, AclInvariant, PTL

\* What has been revoked stays denied until it is granted again.
THEOREM RevocationsHold == AclSpec => []RevokedIsDenied
<1>1. AclInv => RevokedIsDenied
  BY DEF AclInv, RevokedAreGone, RevokedIsDenied, check, checkAt
<1> QED BY <1>1, AclInvariant, PTL

\* A finished summary holds no less than checks allow at its end, and no summary more
\* than they allowed at its beginning.
THEOREM SummariesAreSound == AclSpec => []SummaryWithinWindow
<1>1. ASSUME AclInv PROVE SummaryWithinWindow
  <2>1. SUFFICES ASSUME summary # NoSummary, ~Building,
                        NEW q \in Question, q.principal_id = summary.principal_id,
                        q.resource.kind = "System" => q.action = "Admin",
                        checkAt(q, clock)
                 PROVE  <<SlotOf(q.resource), q.action>> \in summary.perms
    BY <1>1 DEF AclInv, SummaryInv, SummaryWithinWindow, AllowedAt
  <2>2. PICK e \in entries : Matches(e, q) /\ Live(e, clock)
    BY <2>1 DEF checkAt
  <2>3. e \notin summary.todo
    BY <2>1 DEF Building
  <2>4. Filed(e) \subseteq summary.perms
    BY <1>1, <2>1, <2>2, <2>3 DEF AclInv, SummaryInv, Matches
  <2>5. <<SlotOf(q.resource), q.action>> \in Filed(e)
    BY <2>1, <2>2 DEF Filed, Matches
  <2> QED BY <2>4, <2>5
<1>2. AclInv => SummaryWithinWindow
  BY <1>1
<1> QED BY <1>2, AclInvariant, PTL

\* The clock never goes back.
LEMMA ClockForward ==
  ASSUME AclTypeOK, [AclNext]_aclVars
  PROVE  clock \in Nat /\ clock' \in Nat /\ clock <= clock'
<1>1. clock \in Nat
  BY AclAssumption DEF AclAssumption, AclTypeOK, AclTime
<1>2. clock' = clock \/ clock' = clock + 1
  <2>1. CASE AclTick
    BY <2>1 DEF AclTick
  <2>2. ASSUME NEW e, grant(e) PROVE clock' = clock
    BY <2>2 DEF grant
  <2>3. ASSUME NEW q, revoke(q) PROVE clock' = clock
    BY <2>3 DEF revoke
  <2>4. ASSUME NEW p, StartSummary(p) PROVE clock' = clock
    BY <2>4 DEF StartSummary
  <2>5. ASSUME NEW e, Summarise(e) PROVE clock' = clock
    BY <2>5 DEF Summarise
  <2>6. CASE UNCHANGED aclVars
    BY <2>6 DEF aclVars
  <2> QED BY <2>1, <2>2, <2>3, <2>4, <2>5, <2>6 DEF AclNext
<1> QED BY <1>1, <1>2

\* Only a new entry turns a denial into a permission.
THEOREM OnlyGrantsDoAllow == AclSpec => OnlyGrantsAllow
<1>1. ASSUME AclInv, [AclNext]_aclVars, NEW q \in Question, ~check(q), check(q)'
      PROVE  \E e \in entries' \ entries : Matches(e, q)
  <2>1. PICK e \in entries' : Matches(e, q) /\ Live(e, clock')
    BY <1>1 DEF check, checkAt, Matches, Live
  <2>2. SUFFICES ASSUME e \in entries PROVE FALSE
    BY <2>1
  <2>3. clock \in Nat /\ clock' \in Nat /\ clock <= clock'
    BY <1>1, ClockForward DEF AclInv
  <2>4. Live(e, clock)
    BY <1>1, <2>1, <2>2, <2>3, LiveEarlier DEF AclInv, AclTypeOK
  <2> QED BY <1>1, <2>1, <2>2, <2>4 DEF check, checkAt
<1>2. AclInv /\ [AclNext]_aclVars =>
        [\A q \in Question : ~check(q) /\ check(q)' =>
           \E e \in entries' \ entries : Matches(e, q)]_aclVars
  BY <1>1
<1> QED BY <1>2, AclInvariant, PTL DEF OnlyGrantsAllow, AclSpec

\* At one moment a permission is lost only to a revocation that every entry which gave
\* it had granted as well.
THEOREM RevocationsAreLocal == AclSpec => RevokeIsLocal
<1>1. ASSUME AclInv, [AclNext]_aclVars, NEW q \in Question, check(q), ~check(q)',
             clock' = clock
      PROVE  \E r \in revoked' \ revoked :
               \A e \in entries : Matches(e, q) /\ Live(e, clock) => Matches(e, r)
  <2>1. ASSUME NEW e \in entries, Matches(e, q), Live(e, clock) PROVE e \notin entries'
    BY <1>1, <2>1 DEF check, checkAt, Matches, Live
  <2>2. PICK e \in entries : Matches(e, q) /\ Live(e, clock)
    BY <1>1 DEF check, checkAt
  <2>3. PICK r \in Question : revoke(r)
    BY <1>1, <2>1, <2>2 DEF AclNext, aclVars, grant, AclTick, StartSummary, Summarise
  <2>4. ASSUME NEW f \in entries, Matches(f, q), Live(f, clock) PROVE Matches(f, r)
    BY <2>1, <2>3, <2>4 DEF revoke, Dropped
  <2>5. r \notin revoked
    BY <1>1, <2>2, <2>4 DEF AclInv, RevokedAreGone
  <2> QED BY <2>3, <2>4, <2>5 DEF revoke
<1>2. AclInv /\ [AclNext]_aclVars =>
        [\A q \in Question : check(q) /\ ~check(q)' /\ clock' = clock =>
           \E r \in revoked' \ revoked :
             \A e \in entries : Matches(e, q) /\ Live(e, clock) => Matches(e, r)]_aclVars
  BY <1>1
<1> QED BY <1>2, AclInvariant, PTL DEF RevokeIsLocal, AclSpec

-----------------------------------------------------------------------------
(* Tokens *)

\* Append puts an element at the end.
LEMMA LastOfAppend ==
  ASSUME NEW S, NEW s \in Seq(S), NEW e \in S
  PROVE  Append(s, e)[Len(s) + 1] = e /\ Len(Append(s, e)) = Len(s) + 1
OBVIOUS

\* What a service signs is a token.
LEMMA SignedIsToken ==
  ASSUME moment \in Nat, NEW s \in Service, NEW a \in Address, NEW who \in Identity,
         NEW l \in Nat
  PROVE  Signed(s, a, who, l) \in Token
<1>1. Config[s].secret \in Secret
  BY DEF Secret
<1>2. moment + l \in Nat
  OBVIOUS
<1> QED BY <1>1, <1>2 DEF Signed, Token

\* What a step does to the tokens: nothing while the clock goes on, or one more token,
\* of a new session or of one that a service accepts.
LEMMA TokenSteps ==
  ASSUME JwtTypeOK, JwtNext
  PROVE  \/ moment' = moment + 1 /\ UNCHANGED <<tokens, origin>>
         \/ \E t \in Token, o \in Nat \ {0} :
              /\ moment' = moment
              /\ tokens' = Append(tokens, t) /\ origin' = Append(origin, o)
              /\ \/ o = Len(tokens) + 1
                 \/ \E s \in Service, i \in 1..Len(tokens) :
                      /\ Accepted(s, i) /\ o = origin[i]
                      /\ t = Signed(s, tokens[i].address, tokens[i].who, Config[s].token_ttl)
<1>1. moment \in Nat /\ (\A s \in Service : Config[s].token_ttl \in Nat)
      /\ Lifetimes \subseteq Nat /\ tokens \in Seq(Token)
      /\ origin \in Seq(Nat \ {0}) /\ Len(origin) = Len(tokens) /\ Len(tokens) \in Nat
  BY JwtAssumption DEF JwtAssumption, JwtTypeOK
<1>2. CASE JwtTick
  BY <1>2 DEF JwtTick
<1>3. ASSUME NEW s \in Service, Login(s)
      PROVE  \E t \in Token, o \in Nat \ {0} :
               /\ moment' = moment /\ tokens' = Append(tokens, t) /\ origin' = Append(origin, o)
               /\ o = Len(tokens) + 1
  <2>1. PICK who \in Identity, a \in Address, l \in Lifetimes : generate(s, a, who, l)
    BY <1>3 DEF Login
  <2>2. Signed(s, a, who, l) \in Token
    BY <1>1, SignedIsToken
  <2> QED BY <1>1, <1>3, <2>1, <2>2 DEF Login, generate
<1>4. ASSUME NEW s \in Service, NEW i \in 1..Len(tokens), refresh(s, i)
      PROVE  \E t \in Token, o \in Nat \ {0} :
               /\ moment' = moment /\ tokens' = Append(tokens, t) /\ origin' = Append(origin, o)
               /\ Accepted(s, i) /\ o = origin[i]
               /\ t = Signed(s, tokens[i].address, tokens[i].who, Config[s].token_ttl)
  <2>1. tokens[i] \in Token /\ origin[i] \in Nat \ {0}
    BY <1>1
  <2>2. tokens[i].address \in Address /\ tokens[i].who \in Identity
    BY <2>1 DEF Token
  <2>3. Signed(s, tokens[i].address, tokens[i].who, Config[s].token_ttl) \in Token
    BY <1>1, <2>2, SignedIsToken
  <2> QED BY <1>4, <2>1, <2>3 DEF refresh, generate
<1> QED BY <1>2, <1>3, <1>4 DEF JwtNext

\* The invariant: a token keeps the claims of the login its session goes back to.
JwtInv == JwtTypeOK /\ SessionKeepsClaims

LEMMA TokensBegin == JwtInit => JwtInv
  BY JwtAssumption DEF JwtAssumption, JwtInit, JwtInv, JwtTypeOK, SessionKeepsClaims

LEMMA TokensKeepTypes ==
  ASSUME JwtTypeOK, [JwtNext]_jwtVars
  PROVE  JwtTypeOK'
<1>1. moment \in Nat /\ MaxMoment \in Nat /\ tokens \in Seq(Token)
      /\ origin \in Seq(Nat \ {0}) /\ Len(origin) = Len(tokens) /\ Len(tokens) \in Nat
  BY JwtAssumption DEF JwtAssumption, JwtTypeOK
<1>2. CASE UNCHANGED jwtVars
  BY <1>2 DEF jwtVars, JwtTypeOK
<1>3. moment' \in 0..MaxMoment
  <2>1. CASE JwtTick
    BY <1>1, <2>1 DEF JwtTick
  <2>2. CASE UNCHANGED moment
    BY <2>2 DEF JwtTypeOK
  <2> QED BY <1>2, <2>1, <2>2 DEF JwtNext, Login, refresh, jwtVars
<1>4. CASE UNCHANGED <<tokens, origin>>
  BY <1>3, <1>4 DEF JwtTypeOK
<1>5. ASSUME NEW t \in Token, NEW o \in Nat \ {0}, o <= Len(tokens) + 1,
             tokens' = Append(tokens, t), origin' = Append(origin, o)
      PROVE  JwtTypeOK'
  <2>1. tokens' \in Seq(Token) /\ origin' \in Seq(Nat \ {0}) /\ Len(origin') = Len(tokens')
        /\ Len(origin') = Len(tokens) + 1
    BY <1>1, <1>5
  <2>2. ASSUME NEW i \in 1..Len(origin') PROVE origin'[i] <= i
    <3>1. CASE i = Len(tokens) + 1
      BY <1>1, <1>5, <3>1
    <3>2. CASE i \in 1..Len(tokens)
      BY <1>1, <1>5, <3>2 DEF JwtTypeOK
    <3> QED BY <1>1, <2>1, <3>1, <3>2
  <2> QED BY <1>3, <2>1, <2>2 DEF JwtTypeOK
<1>6. ASSUME NEW i \in 1..Len(tokens) PROVE origin[i] <= Len(tokens) + 1
  <2>1. origin[i] \in Nat /\ origin[i] <= i
    BY <1>1 DEF JwtTypeOK
  <2> QED BY <1>1, <2>1
<1> QED
  <2>1. CASE JwtNext
    <3>1. CASE \E t \in Token, o \in Nat \ {0} :
                 /\ tokens' = Append(tokens, t) /\ origin' = Append(origin, o)
                 /\ \/ o = Len(tokens) + 1
                    \/ \E i \in 1..Len(tokens) : o = origin[i]
      <4>1. PICK t \in Token, o \in Nat \ {0} :
              /\ tokens' = Append(tokens, t) /\ origin' = Append(origin, o)
              /\ \/ o = Len(tokens) + 1
                 \/ \E i \in 1..Len(tokens) : o = origin[i]
        BY <3>1
      <4>2. o <= Len(tokens) + 1
        BY <1>1, <1>6, <4>1
      <4> QED BY <1>5, <4>1, <4>2
    <3> QED BY <1>4, <2>1, <3>1, TokenSteps
  <2> QED BY <1>2, <2>1

LEMMA TokensNext == JwtInv /\ [JwtNext]_jwtVars => JwtInv'
<1> SUFFICES ASSUME JwtInv, [JwtNext]_jwtVars PROVE JwtInv'
  OBVIOUS
<1>1. JwtTypeOK'
  BY TokensKeepTypes DEF JwtInv
<1> SUFFICES SessionKeepsClaims'
  BY <1>1 DEF JwtInv
<1>2. /\ tokens \in Seq(Token) /\ origin \in Seq(Nat \ {0})
      /\ Len(origin) = Len(tokens) /\ Len(tokens) \in Nat
  BY DEF JwtInv, JwtTypeOK
<1>3. ASSUME NEW i \in 1..Len(tokens) PROVE origin[i] \in 1..Len(tokens)
  <2>1. origin[i] \in Nat \ {0} /\ origin[i] <= i
    BY <1>2 DEF JwtInv, JwtTypeOK
  <2> QED BY <1>2, <2>1
<1>4. CASE UNCHANGED <<tokens, origin>>
  BY <1>4 DEF JwtInv, SessionKeepsClaims
<1>5. ASSUME NEW t \in Token, NEW o \in Nat \ {0},
             tokens' = Append(tokens, t), origin' = Append(origin, o),
             \/ o = Len(tokens) + 1
             \/ \E i \in 1..Len(tokens) :
                  /\ o = origin[i] /\ t.who = tokens[i].who
                  /\ t.secret = tokens[i].secret /\ t.address = tokens[i].address
      PROVE  SessionKeepsClaims'
  <2> SUFFICES ASSUME NEW j \in 1..Len(tokens')
               PROVE  /\ tokens'[j].who = tokens'[origin'[j]].who
                      /\ tokens'[j].secret = tokens'[origin'[j]].secret
                      /\ tokens'[j].address = tokens'[origin'[j]].address
    BY DEF SessionKeepsClaims
  <2>1. CASE j \in 1..Len(tokens)
    <3>1. tokens'[j] = tokens[j] /\ origin'[j] = origin[j]
      BY <1>2, <1>5, <2>1
    <3>2. tokens'[origin[j]] = tokens[origin[j]]
      BY <1>2, <1>3, <1>5, <2>1
    <3> QED BY <2>1, <3>1, <3>2 DEF JwtInv, SessionKeepsClaims
  <2>2. CASE j = Len(tokens) + 1
    <3>1. tokens'[j] = t /\ origin'[j] = o
      BY <1>2, <1>5, <2>2
    <3>2. CASE o = Len(tokens) + 1
      BY <2>2, <3>1, <3>2
    <3>3. ASSUME NEW i \in 1..Len(tokens), o = origin[i]
          PROVE  tokens'[o] = tokens[origin[i]]
      BY <1>2, <1>3, <1>5, <3>3
    <3>4. ASSUME NEW i \in 1..Len(tokens), o = origin[i], t.who = tokens[i].who,
                 t.secret = tokens[i].secret, t.address = tokens[i].address
          PROVE  /\ t.who = tokens'[o].who /\ t.secret = tokens'[o].secret
                 /\ t.address = tokens'[o].address
      BY <3>3, <3>4 DEF JwtInv, SessionKeepsClaims
    <3> QED BY <1>5, <3>1, <3>2, <3>4
  <2>3. Len(tokens') = Len(tokens) + 1
    BY <1>2, <1>5, LastOfAppend
  <2> QED BY <1>2, <2>1, <2>2, <2>3
<1>6. ASSUME NEW s \in Service, NEW i \in 1..Len(tokens), Accepted(s, i),
             NEW t, t = Signed(s, tokens[i].address, tokens[i].who, Config[s].token_ttl)
      PROVE  /\ t.who = tokens[i].who /\ t.secret = tokens[i].secret
             /\ t.address = tokens[i].address
  BY <1>6 DEF Accepted, Signed
<1>7. CASE JwtNext
  <2>1. CASE \E t \in Token, o \in Nat \ {0} :
               /\ tokens' = Append(tokens, t) /\ origin' = Append(origin, o)
               /\ \/ o = Len(tokens) + 1
                  \/ \E i \in 1..Len(tokens) :
                       /\ o = origin[i] /\ t.who = tokens[i].who
                       /\ t.secret = tokens[i].secret /\ t.address = tokens[i].address
    BY <1>5, <2>1
  <2> QED BY <1>4, <1>6, <1>7, <2>1, TokenSteps DEF JwtInv
<1> QED BY <1>4, <1>7 DEF jwtVars

\* Every token generated or refreshed keeps the claims of its session.
THEOREM JwtInvariant == JwtSpec => []JwtInv
  BY TokensBegin, TokensNext, PTL DEF JwtSpec

\* Tokens, the clock and the sessions keep their types.
THEOREM JwtTypeCorrect == JwtSpec => []JwtTypeOK
<1>1. JwtInv => JwtTypeOK
  BY DEF JwtInv
<1> QED BY <1>1, JwtInvariant, PTL

\* No refresh, by whichever service and however many after each other, changes whom a
\* session is for or which services take its tokens.
THEOREM SessionsKeepClaims == JwtSpec => []SessionKeepsClaims
<1>1. JwtInv => SessionKeepsClaims
  BY DEF JwtInv
<1> QED BY <1>1, JwtInvariant, PTL

\* A session no token of which is accepted any more stays over, for every leeway and
\* lifetime, and however services share secrets and addresses.
THEOREM LapsedSessionsStayOver == JwtSpec => LapsedForGood
<1>1. ASSUME JwtTypeOK, [JwtNext]_jwtVars, NEW s \in Service, NEW o \in 1..Len(tokens),
             Alive(s, o)'
      PROVE  Alive(s, o)
  <2>1. /\ tokens \in Seq(Token) /\ origin \in Seq(Nat \ {0})
        /\ Len(origin) = Len(tokens) /\ Len(tokens) \in Nat
        /\ moment \in Nat /\ Leeway \in Nat
    BY <1>1, JwtAssumption DEF JwtAssumption, JwtTypeOK
  <2>2. PICK i \in 1..Len(tokens') :
          /\ origin'[i] = o
          /\ tokens'[i].secret = Config[s].secret /\ tokens'[i].address = Config[s].address
          /\ moment' <= tokens'[i].exp + Leeway
    BY <1>1 DEF Alive, OfSession, Accepted
  <2>3. ASSUME i \in 1..Len(tokens), tokens'[i] = tokens[i], origin'[i] = origin[i],
               moment' = moment \/ moment' = moment + 1
        PROVE  Alive(s, o)
    <3>1. tokens[i].exp \in Nat
      <4>1. tokens[i] \in Token
        BY <2>1, <2>3
      <4> QED BY <4>1 DEF Token
    <3>2. moment <= tokens[i].exp + Leeway
      BY <2>1, <2>2, <2>3, <3>1
    <3> QED BY <2>2, <2>3, <3>2 DEF Alive, OfSession, Accepted
  <2>4. CASE UNCHANGED jwtVars
    BY <2>2, <2>3, <2>4 DEF jwtVars
  <2>5. CASE moment' = moment + 1 /\ UNCHANGED <<tokens, origin>>
    BY <2>2, <2>3, <2>5
  <2>6. ASSUME NEW t \in Token, NEW p \in Nat \ {0}, moment' = moment,
               tokens' = Append(tokens, t), origin' = Append(origin, p),
               \/ p = Len(tokens) + 1
               \/ \E a \in Service, j \in 1..Len(tokens) :
                    /\ Accepted(a, j) /\ p = origin[j]
                    /\ t = Signed(a, tokens[j].address, tokens[j].who, Config[a].token_ttl)
        PROVE  Alive(s, o)
    <3>1. CASE i \in 1..Len(tokens)
      <4>1. tokens'[i] = tokens[i] /\ origin'[i] = origin[i]
        BY <2>1, <2>6, <3>1
      <4> QED BY <2>3, <2>6, <3>1, <4>1
    <3>2. CASE i = Len(tokens) + 1
      <4>1. tokens'[i] = t /\ origin'[i] = p
        <5>1. tokens' = Append(tokens, t) /\ origin' = Append(origin, p)
          BY <2>6
        <5>2. Append(tokens, t)[Len(tokens) + 1] = t
          BY <2>1, LastOfAppend
        <5>3. Append(origin, p)[Len(origin) + 1] = p
          BY <2>1, LastOfAppend
        <5> QED BY <2>1, <3>2, <5>1, <5>2, <5>3
      <4>2. p = o /\ p # Len(tokens) + 1
        BY <2>1, <2>2, <4>1
      <4>3. PICK a \in Service, j \in 1..Len(tokens) :
              /\ Accepted(a, j) /\ p = origin[j]
              /\ t = Signed(a, tokens[j].address, tokens[j].who, Config[a].token_ttl)
        BY <2>6, <4>2
      <4>4. t.secret = tokens[j].secret /\ t.address = tokens[j].address
        BY <4>3 DEF Accepted, Signed
      <4> QED BY <2>2, <4>1, <4>2, <4>3, <4>4 DEF Alive, OfSession, Accepted
    <3>3. Len(tokens') = Len(tokens) + 1
      BY <2>1, <2>6, LastOfAppend
    <3> QED BY <2>1, <3>1, <3>2, <3>3
  <2> QED BY <1>1, <2>4, <2>5, <2>6, TokenSteps
<1>2. JwtTypeOK /\ [JwtNext]_jwtVars =>
        [\A s \in Service : \A o \in 1..Len(tokens) : ~Alive(s, o) => ~Alive(s, o)']_jwtVars
  BY <1>1
<1> QED BY <1>2, JwtTypeCorrect, PTL DEF LapsedForGood, JwtSpec

-----------------------------------------------------------------------------
(* Policies *)

\* The roles a role implies are implied by themselves, go no further, and rank no higher.
LEMMA ImpliedRoles ==
  ASSUME NEW r \in Role
  PROVE  /\ implied_roles(r) \subseteq Role /\ r \in implied_roles(r)
         /\ \A s \in implied_roles(r) :
              implied_roles(s) \subseteq implied_roles(r) /\ rank(s) <= rank(r)
<1>1. CASE r = "SuperAdmin"
  BY <1>1 DEF implied_roles, rank, Role
<1>2. CASE r = "Admin"
  BY <1>2 DEF implied_roles, rank, Role
<1>3. CASE r = "Developer"
  BY <1>3 DEF implied_roles, rank, Role
<1>4. CASE r = "Analyst"
  BY <1>4 DEF implied_roles, rank, Role
<1>5. CASE r = "Service"
  BY <1>5 DEF implied_roles, rank, Role
<1> QED BY <1>1, <1>2, <1>3, <1>4, <1>5 DEF Role

\* The types of a principal's roles, of the rules and of the hour.
THEOREM PolicyTypeCorrect == PolicySpec => []PolicyTypeOK
<1>1. PolicyInit => PolicyTypeOK
  BY DEF PolicyInit, PolicyTypeOK, Role
<1>2. PolicyTypeOK /\ [PolicyNext]_policyVars => PolicyTypeOK'
  <2> SUFFICES ASSUME PolicyTypeOK, [PolicyNext]_policyVars PROVE PolicyTypeOK'
    OBVIOUS
  <2> USE DEF PolicyTypeOK
  <2>1. ASSUME NEW r \in Role, with_role(r) PROVE PolicyTypeOK'
    BY <2>1 DEF with_role
  <2>2. ASSUME NEW rule \in Rules, add_rule(rule) PROVE PolicyTypeOK'
    BY <2>2 DEF add_rule
  <2>3. CASE HourPasses
    BY <2>3 DEF HourPasses, Hour
  <2>4. CASE UNCHANGED policyVars
    BY <2>4 DEF policyVars
  <2> QED BY <2>1, <2>2, <2>3, <2>4 DEF PolicyNext
<1> QED BY <1>1, <1>2, PTL DEF PolicySpec

\* resolve_roles is a closure: one pass over any of a principal's roles finds all that
\* they lead to, and none that ranks above them.
THEOREM RolesResolveOnce == PolicySpec => []ResolvedOnce
<1>1. PolicyTypeOK => ResolvedOnce
  <2> SUFFICES ASSUME roles \subseteq Role, NEW some \in SUBSET roles
               PROVE  LET resolved == resolve_roles(some)
                      IN  /\ some \subseteq resolved
                          /\ resolve_roles(resolved) = resolved
                          /\ \A r \in resolved : \E held \in some :
                               satisfies(held, r) /\ rank(r) <= rank(held)
    BY DEF PolicyTypeOK, ResolvedOnce
  <2> DEFINE resolved == resolve_roles(some)
  <2>1. some \subseteq Role
    OBVIOUS
  <2>2. some \subseteq resolved
    BY <2>1, ImpliedRoles DEF resolve_roles
  <2>3. ASSUME NEW r \in resolved
        PROVE  \E held \in some : r \in implied_roles(held) /\ rank(r) <= rank(held)
    BY <2>1, <2>3, ImpliedRoles DEF resolve_roles
  <2>4. ASSUME NEW r \in resolve_roles(resolved)
        PROVE  r \in resolved
    <3>1. PICK s \in resolved : r \in implied_roles(s)
      BY <2>4 DEF resolve_roles
    <3>2. PICK held \in some : s \in implied_roles(held)
      BY <2>3
    <3>3. r \in implied_roles(held)
      BY <2>1, <3>1, <3>2, ImpliedRoles
    <3> QED BY <3>3 DEF resolve_roles
  <2>5. resolved \subseteq resolve_roles(resolved)
    <3>1. resolved \subseteq Role
      BY <2>1, ImpliedRoles DEF resolve_roles
    <3> QED BY <3>1, ImpliedRoles DEF resolve_roles
  <2> QED BY <2>2, <2>3, <2>4, <2>5 DEF satisfies
<1> QED BY <1>1, PolicyTypeCorrect, PTL

\* The first rule that decides a request stays the first when another is added.
LEMMA FirstRuleStands ==
  ASSUME PolicyTypeOK, [PolicyNext]_policyVars, hour' = hour,
         NEW q \in Request, Deciding(q) # {}
  PROVE  evaluate(q)' <=> evaluate(q)
<1>1. CASE rules' = rules
  BY <1>1 DEF evaluate, Deciding, Decision, InHours
<1>2. ASSUME NEW rule \in Rules, rules' = Append(rules, rule)
      PROVE  evaluate(q)' <=> evaluate(q)
  <2>1. /\ rules \in Seq(Rules) /\ Len(rules) \in Nat /\ Len(rules') = Len(rules) + 1
        /\ \A i \in 1..Len(rules) : rules'[i] = rules[i]
    BY <1>2 DEF PolicyTypeOK
  <2>2. \A i \in 1..Len(rules) : Decision(rules[i], q)' = Decision(rules[i], q)
    BY <2>1 DEF Decision, InHours
  <2>3. /\ Deciding(q) \subseteq 1..Len(rules) /\ Deciding(q) \subseteq Deciding(q)'
        /\ \A i \in Deciding(q)' \ Deciding(q) : i = Len(rules) + 1
        /\ Deciding(q)' \subseteq Nat
    BY <2>1, <2>2 DEF Deciding
  <2>4. PICK m \in Deciding(q) : \A k \in Deciding(q) : m <= k
    BY <2>3, LeastNatural
  <2>5. Min(Deciding(q)) = m
    BY <2>3, <2>4, MinIsLeast
  <2>6. Min(Deciding(q)') = m
    <3>1. m \in Deciding(q)' /\ \A k \in Deciding(q)' : m <= k
      BY <2>1, <2>3, <2>4
    <3> QED BY <3>1, <2>3, MinIsLeast
  <2>7. evaluate(q)' <=> Decision(rules[m], q) = "allow"
    BY <2>1, <2>2, <2>3, <2>4, <2>6 DEF evaluate
  <2> QED BY <2>5, <2>7 DEF evaluate
<1> QED BY <1>1, <1>2 DEF PolicyNext, policyVars, with_role, add_rule, HourPasses

\* Adding a rule to a PolicyEngine changes no answer that an earlier rule has given.
THEOREM EarlierRulesDecide == PolicySpec => EarlierRulesStand
<1>1. PolicyTypeOK /\ [PolicyNext]_policyVars =>
        [\A q \in Request : Deciding(q) # {} /\ hour' = hour =>
           (evaluate(q)' <=> evaluate(q))]_policyVars
  BY FirstRuleStands
<1> QED BY <1>1, PolicyTypeCorrect, PTL DEF PolicySpec, EarlierRulesStand
-----------------------------------------------------------------------------
(* The four parts together *)

\* A behaviour of the small instances is one of each part: three of them stutter.
LEMMA PartsStepAlone ==
  /\ MCInit => Init /\ AclInit /\ JwtInit /\ PolicyInit
  /\ [MCNext]_allVars =>
       [Next]_vars /\ [AclNext]_aclVars /\ [JwtNext]_jwtVars /\ [PolicyNext]_policyVars
<1>1. MCInit => Init /\ AclInit /\ JwtInit /\ PolicyInit
  BY DEF MCInit
<1>2. ASSUME MCNext
      PROVE  [Next]_vars /\ [AclNext]_aclVars /\ [JwtNext]_jwtVars /\ [PolicyNext]_policyVars
  BY <1>2 DEF MCNext
<1>3. ASSUME UNCHANGED allVars
      PROVE  UNCHANGED vars /\ UNCHANGED aclVars /\ UNCHANGED jwtVars /\ UNCHANGED policyVars
  BY <1>3 DEF allVars
<1> QED BY <1>1, <1>2, <1>3

\* Limiter, access lists, tokens and policies keep their types, and with them what is
\* proved of each part holds of the four together.
THEOREM AdmissionTypeCorrect == MCSpec => []AdmissionTypeOK
<1>1. MCSpec => Spec /\ AclSpec /\ JwtSpec /\ PolicySpec
  BY PartsStepAlone, PTL DEF MCSpec, Spec, AclSpec, JwtSpec, PolicySpec
<1>2. TypeOK /\ AclTypeOK /\ JwtTypeOK /\ PolicyTypeOK => AdmissionTypeOK
  BY DEF AdmissionTypeOK
<1> QED
  BY <1>1, <1>2, LimiterTypeCorrect, AclTypeCorrect, JwtTypeCorrect, PolicyTypeCorrect, PTL
=============================================================================
