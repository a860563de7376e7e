----------------------------- MODULE RateLimiter -----------------------------
(***************************************************************************)
(* The token buckets of the gateway: RateLimiter in                        *)
(* cmd/cdf-gateway/main.go, one bucket per API key or address, created at  *)
(* its first request and never removed.                                    *)
(*                                                                         *)
(* Time is counted in ticks, Second of them to the second.  A level is     *)
(* counted in fractions of a token, Second of them to the token, so that a *)
(* tick adds Rate of them exactly: the code's float64 is taken as the      *)
(* rational it stands for.                                                 *)
(***************************************************************************)
EXTENDS Integers, Sequences

CONSTANTS Client,  \* API keys and addresses
          Rate,    \* rate: tokens per second
          Burst,   \* burst: bucket capacity
          Second,  \* ticks in a second
          NoBucket,
          MaxTime  \* bound: ticks in a behaviour

Full == Burst * Second
Bucket == [tokens : 0..Full, lastTime : 0..MaxTime]

ASSUME LimiterAssumption ==
  /\ {Rate, MaxTime} \subseteq Nat
  /\ {Burst, Second} \subseteq Nat \ {0}
  /\ NoBucket \notin Bucket

VARIABLES now,     \* the monotonic clock
          buckets, \* per client, its bucket
          granted, \* history: per client, the times of the requests let through
          denied   \* history: the clients refused at this time

vars == <<now, buckets, granted, denied>>

TypeOK ==
  /\ now \in 0..MaxTime
  /\ buckets \in [Client -> Bucket \cup {NoBucket}]
  /\ granted \in [Client -> Seq(0..MaxTime)]
  /\ denied \subseteq Client

Init ==
  /\ now = 0
  /\ buckets = [c \in Client |-> NoBucket]
  /\ granted = [c \in Client |-> <<>>]
  /\ denied = {}

\* Bug: the level is not capped.
Refilled_NoCap(b) ==
  IF b = NoBucket THEN Full ELSE b.tokens + (now - b.lastTime) * Rate

\* Bug: whole tokens only, the fraction is lost as lastTime moves on.
Refilled_Whole(b) ==
  IF b = NoBucket THEN Full
  ELSE LET level == b.tokens + (((now - b.lastTime) * Rate) \div Second) * Second
       IN  IF level < Full THEN level ELSE Full

Refilled(b) ==
  IF b = NoBucket THEN Full
  ELSE LET level == b.tokens + (now - b.lastTime) * Rate
       IN  IF level < Full THEN level ELSE Full

\* Bug: the time of the last request is not moved on.
Allow_KeepsTime(c) ==
  /\ Refilled(buckets[c]) >= Second
  /\ buckets' = [buckets EXCEPT ![c] =
                   [tokens |-> Refilled(buckets[c]) - Second,
                    lastTime |-> IF buckets[c] = NoBucket THEN now ELSE buckets[c].lastTime]]
  /\ granted' = [granted EXCEPT ![c] = Append(@, now)]
  /\ UNCHANGED <<now, denied>>

\* allow(key) under the mutex: the bucket is brought up to date, then charged.
Allow(c) ==
  /\ Refilled(buckets[c]) >= Second
  /\ buckets' = [buckets EXCEPT ![c] = [tokens |-> Refilled(buckets[c]) - Second,
                                        lastTime |-> now]]
  /\ granted' = [granted EXCEPT ![c] = Append(@, now)]
  /\ UNCHANGED <<now, denied>>

Deny(c) ==
  /\ Refilled(buckets[c]) < Second
  /\ buckets' = [buckets EXCEPT ![c] = [tokens |-> Refilled(buckets[c]), lastTime |-> now]]
  /\ denied' = denied \cup {c}
  /\ UNCHANGED <<now, granted>>

Tick ==
  /\ now < MaxTime
  /\ now' = now + 1
  /\ denied' = {}
  /\ UNCHANGED <<buckets, granted>>

Next == Tick \/ \E c \in Client : Allow(c) \/ Deny(c)

Spec == Init /\ [][Next]_vars

-----------------------------------------------------------------------------
(* Properties *)

\* What is left of the limit at time t in a window that opens with the i-th grant and
\* has seen n grants.
Left(c, i, t, n) == Full + (t - granted[c][i]) * Rate - n * Second

\* In no window of time does a client get more than the burst and what the rate
\* gives over the window, however its requests are spaced.
WithinRate ==
  \A c \in Client : \A j \in 1..Len(granted[c]) : \A i \in 1..j :
    Left(c, i, granted[c][j], j - i + 1) >= 0

\* The i-th grant and those after it, at time t.
Allowance(c, i, t) == Left(c, i, t, Len(granted[c]) - i + 1)

\* A client is refused only if one more grant would take some window over that limit:
\* no spacing of requests, refused ones included, loses a client what it is owed.
DeniedOnlyAtLimit ==
  \A c \in denied : \E i \in 1..Len(granted[c]) : Allowance(c, i, now) < Second

\* The answer to a refused request says "Retry-After: 1": a client that nothing was
\* granted for a second is not refused.
RetryAfterSuffices ==
  Rate > 0 => \A c \in denied : \E i \in 1..Len(granted[c]) : now < granted[c][i] + Second

\* A client is refused no more than the limit demands.
RefusalsAreFair == DeniedOnlyAtLimit /\ RetryAfterSuffices

\* The strengthening: the level of a bucket is exactly what its tightest window leaves.
BucketsAreUsed ==
  \A c \in Client : /\ buckets[c] = NoBucket => granted[c] = <<>>
                    /\ buckets[c] # NoBucket => buckets[c].lastTime <= now

LevelIsExact ==
  \A c \in Client : buckets[c] # NoBucket =>
    LET b == buckets[c] IN
      /\ \A i \in 1..Len(granted[c]) : /\ granted[c][i] <= b.lastTime
                                       /\ b.tokens <= Allowance(c, i, b.lastTime)
      /\ \/ b.tokens = Full
         \/ \E i \in 1..Len(granted[c]) : b.tokens = Allowance(c, i, b.lastTime)

LimiterInv == TypeOK /\ BucketsAreUsed /\ LevelIsExact /\ WithinRate /\ DeniedOnlyAtLimit
=============================================================================
