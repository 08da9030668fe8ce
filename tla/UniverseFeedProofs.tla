-------------------------- MODULE UniverseFeedProofs --------------------------
(* What holds of UniverseFeed for every timeframe, every pair of windows,  *)
(* every price and rate, and any room in the event bus.                    *)
EXTENDS UniverseFeed, SequenceTheorems, WellFoundedInduction, TLAPS

-----------------------------------------------------------------------------
(* Buckets: multiplication and division by the timeframe.                  *)

(* Multiples of a timeframe are ordered as their factors are.              *)
LEMMA TimesGrow ==
    ASSUME NEW T \in Nat, NEW p \in Int, NEW q \in Int, p <= q
    PROVE  p * T <= q * T
OBVIOUS

(* The next multiple is one timeframe further.                             *)
LEMMA TimesNext ==
    ASSUME NEW T \in Nat, NEW p \in Int
    PROVE  p * T \in Int /\ (p + 1) * T = p * T + T
OBVIOUS

(* Rounding down to a multiple loses less than a timeframe.                *)
LEMMA DivBounds ==
    ASSUME NEW T \in Nat \ {0}, NEW a \in Nat
    PROVE  a \div T \in Nat /\ (a \div T) * T <= a /\ a < (a \div T) * T + T
OBVIOUS

(* What the assumption says of each constant.                              *)
LEMMA FeedTypes ==
    /\ Timeframe \in Nat /\ Timeframe > 0 /\ FirstTime \in Nat /\ MaxNow \in Nat
    /\ BaseBackoff \in Nat /\ MaxBackoff \in Nat /\ BaseBackoff <= MaxBackoff
    /\ \A p \in Prices : p \in Nat
    /\ \A t \in FirstTime .. MaxNow : t \in Nat
<1>1. /\ Timeframe \in Nat /\ Timeframe > 0 /\ FirstTime \in Nat /\ MaxNow \in Nat
      /\ BaseBackoff \in Nat /\ MaxBackoff \in Nat /\ BaseBackoff <= MaxBackoff
  BY FeedAssumption
<1>2. \A p \in Prices : p \in Nat
  BY FeedAssumption
<1>3. \A t \in FirstTime .. MaxNow : t \in Nat
  BY <1>1
<1> QED BY <1>1, <1>2, <1>3

(* A time lies in its bucket.                                              *)
LEMMA InBucket ==
    ASSUME NEW t \in Nat
    PROVE  BucketStart(t) \in Nat /\ BucketStart(t) <= t /\ t < BucketStart(t) + Timeframe
<1> DEFINE q == t \div Timeframe
<1>1. q \in Nat /\ q * Timeframe <= t /\ t < q * Timeframe + Timeframe
  BY FeedAssumption, DivBounds
<1>2. q * Timeframe \in Nat
  <2>1. q * Timeframe \in Int /\ 0 * Timeframe = 0
    BY <1>1, FeedAssumption, TimesNext
  <2>2. 0 * Timeframe <= q * Timeframe
    BY <1>1, FeedAssumption, TimesGrow
  <2> QED BY <2>1, <2>2
<1> QED BY <1>1, <1>2 DEF BucketStart

(* A time at or after a bucket's start, in another bucket, is in a later   *)
(* one.                                                                    *)
LEMMA LaterBucket ==
    ASSUME NEW a \in Nat, NEW b \in Nat, BucketStart(a) <= b, BucketStart(a) # BucketStart(b)
    PROVE  BucketStart(a) + Timeframe <= BucketStart(b)
<1> DEFINE p == a \div Timeframe
           q == b \div Timeframe
<1>1. /\ Timeframe \in Nat \ {0} /\ p \in Nat /\ q \in Nat
      /\ p * Timeframe <= b /\ b < q * Timeframe + Timeframe /\ p # q
  BY FeedAssumption, DivBounds DEF BucketStart
<1> HIDE DEF p, q
<1>2. p * Timeframe \in Int /\ q * Timeframe \in Int
      /\ (q + 1) * Timeframe = q * Timeframe + Timeframe
      /\ (p + 1) * Timeframe = p * Timeframe + Timeframe
  BY <1>1, TimesNext
<1>3. p < q
  <2> SUFFICES ASSUME q + 1 <= p PROVE FALSE
    BY <1>1
  <2>1. (q + 1) * Timeframe <= p * Timeframe
    BY <1>1, TimesGrow
  <2> QED BY <1>1, <1>2, <2>1
<1>4. (p + 1) * Timeframe <= q * Timeframe
  BY <1>1, <1>3, TimesGrow
<1> QED BY <1>2, <1>4 DEF BucketStart, p, q

-----------------------------------------------------------------------------
(* The popleft loop finds its place: all before it is older than the       *)
(* cutoff, and what it stops at is not.                                    *)
LEMMA FirstKeptExists ==
    ASSUME NEW S, NEW h \in Seq(Samples(S)), NEW c \in Int
    PROVE  /\ FirstKept(h, c) \in 1 .. Len(h) + 1
           /\ \A j \in 1 .. FirstKept(h, c) - 1 : h[j].ts < c
           /\ FirstKept(h, c) <= Len(h) => h[FirstKept(h, c)].ts >= c
<1> DEFINE K == {k \in 1 .. Len(h) + 1 : k <= Len(h) => h[k].ts >= c}
           Good(k) == /\ \A j \in 1 .. k - 1 : h[j].ts < c
                      /\ k <= Len(h) => h[k].ts >= c
<1>1. Len(h) \in Nat /\ \A j \in 1 .. Len(h) : h[j].ts \in Int
  <2>1. \A j \in 1 .. Len(h) : h[j] \in Samples(S)
    BY ElementOfSeq
  <2> QED BY <2>1, LenProperties DEF Samples
<1>2. K \subseteq Nat /\ Len(h) + 1 \in K
  BY <1>1
<1>3. PICK k \in K : \A y \in K : ~(<<y, k>> \in OpToRel(<, Nat))
  <2>1. K # {}
    BY <1>2
  <2> HIDE DEF K
  <2> QED BY <1>2, <2>1, WFMin, NatLessThanWellFounded
<1>4. \A y \in K : ~(y < k)
  BY <1>2, <1>3 DEF OpToRel
<1>5. \A j \in 1 .. k - 1 : h[j].ts < c
  <2> SUFFICES ASSUME NEW j \in 1 .. k - 1, ~(h[j].ts < c) PROVE FALSE
    OBVIOUS
  <2>1. j \in 1 .. Len(h) /\ h[j].ts >= c
    BY <1>1
  <2>2. j \in K /\ j < k
    BY <1>1, <2>1
  <2> QED BY <2>2, <1>4
<1>6. k \in 1 .. Len(h) + 1 /\ Good(k)
  BY <1>5
<1>7. FirstKept(h, c) = CHOOSE n \in 1 .. Len(h) + 1 : Good(n)
  BY DEF FirstKept
<1>8. FirstKept(h, c) \in 1 .. Len(h) + 1 /\ Good(FirstKept(h, c))
  <2> HIDE DEF Good
  <2> QED BY <1>6, <1>7
<1> QED BY <1>8

(* What PopOlder leaves is a tail, whose first sample is not older than    *)
(* the cutoff; it is not empty if the last sample is not older either.     *)
LEMMA PopOlderIsTail ==
    ASSUME NEW S, NEW h \in Seq(Samples(S)), NEW c \in Int
    PROVE  LET p == PopOlder(h, c)
           IN  /\ p \in Seq(Samples(S)) /\ Len(p) <= Len(h) /\ Len(p) \in Nat
               /\ \A i \in 1 .. Len(p) : p[i] = h[Len(h) - Len(p) + i]
               /\ Len(p) >= 1 => p[1].ts >= c
               /\ Len(h) >= 1 /\ h[Len(h)].ts >= c => Len(p) >= 1
<1> DEFINE k == FirstKept(h, c)
           p == PopOlder(h, c)
<1>1. Len(h) \in Nat /\ \A j \in 1 .. Len(h) : h[j] \in Samples(S) /\ h[j].ts \in Int
  <2>1. \A j \in 1 .. Len(h) : h[j] \in Samples(S)
    BY ElementOfSeq
  <2> QED BY <2>1, LenProperties DEF Samples
<1>2. /\ k \in 1 .. Len(h) + 1
      /\ \A j \in 1 .. k - 1 : h[j].ts < c
      /\ k <= Len(h) => h[k].ts >= c
  BY FirstKeptExists
<1> HIDE DEF k
<1>3. /\ SubSeq(h, k, Len(h)) \in Seq(Samples(S))
      /\ Len(SubSeq(h, k, Len(h))) = IF k <= Len(h) THEN Len(h) - k + 1 ELSE 0
      /\ \A i \in 1 .. Len(h) - k + 1 : SubSeq(h, k, Len(h))[i] = h[k + i - 1]
  <2>1. k \in Int /\ Len(h) \in Int /\ \A i \in k .. Len(h) : h[i] \in Samples(S)
    BY <1>1, <1>2
  <2> QED BY <2>1, SubSeqProperties
<1>4. p = SubSeq(h, k, Len(h))
  BY DEF PopOlder, k
<1> HIDE DEF p
<1>5. Len(p) = Len(h) - k + 1
  BY <1>1, <1>2, <1>3, <1>4
<1>6. p \in Seq(Samples(S)) /\ Len(p) <= Len(h) /\ Len(p) \in Nat
  BY <1>1, <1>2, <1>3, <1>4, <1>5
<1>7. ASSUME NEW i \in 1 .. Len(p) PROVE p[i] = h[Len(h) - Len(p) + i]
  <2>1. Len(h) - Len(p) + i = k + i - 1 /\ i \in 1 .. Len(h) - k + 1
    BY <1>1, <1>2, <1>5
  <2> QED BY <2>1, <1>3, <1>4
<1>8. ASSUME Len(p) >= 1 PROVE p[1].ts >= c
  <2>1. k <= Len(h) /\ p[1] = h[k]
    BY <1>1, <1>2, <1>3, <1>4, <1>5, <1>8
  <2> QED BY <1>2, <2>1
<1>9. ASSUME Len(h) >= 1, h[Len(h)].ts >= c PROVE Len(p) >= 1
  <2> SUFFICES ASSUME k = Len(h) + 1 PROVE FALSE
    BY <1>1, <1>2, <1>5
  <2>1. Len(h) \in 1 .. k - 1 /\ h[Len(h)].ts \in Int
    BY <1>1, <1>9
  <2> QED BY <1>2, <1>9, <2>1
<1> QED BY <1>6, <1>7, <1>8, <1>9 DEF p
-----------------------------------------------------------------------------
(* A sample's lag is by how much it is misdated: a whole timeframe for a   *)
(* kline of the backfill, less for the open one, nothing for a live price. *)
(* In a history times rise and lags do not, and it is as long as its       *)
(* window at most.                                                         *)
Lag(x) == x.at - x.ts

Ordered(h, t) ==
    /\ \A i \in 1 .. Len(h) : Lag(h[i]) \in 0 .. Timeframe /\ h[i].at <= t
    /\ \A i, j \in 1 .. Len(h) : i < j =>
           h[i].ts <= h[j].ts /\ h[i].at <= h[j].at /\ Lag(h[j]) <= Lag(h[i])

Within(h, w) == Len(h) >= 1 => h[Len(h)].ts - w <= h[1].ts

History(h, w, t) == Ordered(h, t) /\ Within(h, w)

(* Trimming an ordered history to a window before its last sample.         *)
LEMMA TrimKeeps ==
    ASSUME NEW S, NEW h \in Seq(Samples(S)), NEW w \in Nat, NEW t \in Nat,
           Ordered(h, t), Len(h) >= 1, NEW c, c = h[Len(h)].ts - w
    PROVE  /\ PopOlder(h, c) \in Seq(Samples(S))
           /\ History(PopOlder(h, c), w, t)
           /\ Len(PopOlder(h, c)) >= 1
           /\ PopOlder(h, c)[Len(PopOlder(h, c))] = h[Len(h)]
<1> DEFINE p == PopOlder(h, c)
           d == Len(h) - Len(p)
<1>1. Len(h) \in Nat /\ h[Len(h)].ts \in Int /\ c \in Int /\ h[Len(h)].ts >= c
  <2>1. Len(h) \in Nat /\ Len(h) \in 1 .. Len(h)
    BY LenProperties
  <2>2. h[Len(h)] \in Samples(S)
    BY <2>1, ElementOfSeq
  <2>3. h[Len(h)].ts \in Int
    BY <2>2 DEF Samples
  <2> QED BY <2>1, <2>3
<1>2. /\ p \in Seq(Samples(S)) /\ Len(p) <= Len(h) /\ Len(p) \in Nat
      /\ \A i \in 1 .. Len(p) : p[i] = h[d + i]
      /\ p[1].ts >= c /\ Len(p) >= 1
  BY <1>1, PopOlderIsTail
<1> HIDE DEF p
<1>3. \A i \in 1 .. Len(p) : d + i \in 1 .. Len(h)
  BY <1>1, <1>2
<1>4. Len(p) \in 1 .. Len(p) /\ d + Len(p) = Len(h)
  BY <1>1, <1>2
<1>5. p[Len(p)] = h[Len(h)]
  <2>1. p[Len(p)] = h[d + Len(p)]
    BY <1>2, <1>4
  <2> QED BY <1>4, <2>1
<1>6. Ordered(p, t)
  <2>1. ASSUME NEW i \in 1 .. Len(p) PROVE Lag(p[i]) \in 0 .. Timeframe /\ p[i].at <= t
    BY <1>2, <1>3 DEF Ordered
  <2>2. ASSUME NEW i \in 1 .. Len(p), NEW j \in 1 .. Len(p), i < j
        PROVE  p[i].ts <= p[j].ts /\ p[i].at <= p[j].at /\ Lag(p[j]) <= Lag(p[i])
    <3>1. d + i < d + j
      BY <1>1, <1>2, <2>2
    <3> QED BY <1>2, <1>3, <3>1 DEF Ordered
  <2> QED BY <2>1, <2>2 DEF Ordered
<1>7. Within(p, w)
  BY <1>2, <1>5 DEF Within
<1> QED BY <1>2, <1>5, <1>6, <1>7 DEF History, p

(* A live sample, dated now, is appended and the history trimmed.          *)
LEMMA AppendKeeps ==
    ASSUME NEW S, NEW h \in Seq(Samples(S)), NEW w \in Nat, NEW t \in Nat, NEW v \in S,
           Ordered(h, t)
    PROVE  LET p == AppendTrimmed(h, t, t, v, w)
           IN  /\ p \in Seq(Samples(S)) /\ History(p, w, t)
               /\ Len(p) >= 1 /\ p[Len(p)].at = t
<1> DEFINE x == Sample(t, t, v)
           g == Append(h, x)
<1>1. x \in Samples(S) /\ x.ts = t /\ x.at = t /\ Lag(x) = 0
  BY DEF Sample, Samples, Lag
<1> HIDE DEF x
<1>2. /\ g \in Seq(Samples(S)) /\ Len(h) \in Nat /\ Len(g) = Len(h) + 1
      /\ \A i \in 1 .. Len(h) : g[i] = h[i]
      /\ g[Len(g)] = x
  BY <1>1, AppendProperties, LenProperties
<1> HIDE DEF g
<1>3. \A i \in 1 .. Len(g) : i \in 1 .. Len(h) \/ i = Len(g)
  BY <1>2
<1>4. \A i \in 1 .. Len(h) : h[i].ts \in Int /\ h[i].at \in Int
  <2>1. \A i \in 1 .. Len(h) : h[i] \in Samples(S)
    BY ElementOfSeq
  <2> QED BY <2>1 DEF Samples
<1>5. \A i \in 1 .. Len(h) : Lag(h[i]) \in 0 .. Timeframe /\ h[i].at <= t /\ h[i].ts <= t
  <2>1. \A i \in 1 .. Len(h) : h[i].at - h[i].ts \in 0 .. Timeframe /\ h[i].at <= t
    BY DEF Ordered, Lag
  <2>2. Timeframe \in Nat
    BY FeedTypes
  <2>3. ASSUME NEW i \in 1 .. Len(h) PROVE h[i].ts <= t
    <3>1. h[i].ts \in Int /\ h[i].at \in Int /\ h[i].at - h[i].ts >= 0 /\ h[i].at <= t
      BY <1>4, <2>1, <2>2
    <3> QED BY <3>1
  <2> QED BY <2>1, <2>3 DEF Lag
<1>6. Ordered(g, t)
  <2>1. ASSUME NEW i \in 1 .. Len(g) PROVE Lag(g[i]) \in 0 .. Timeframe /\ g[i].at <= t
    <3>1. CASE i \in 1 .. Len(h)
      <4>1. g[i] = h[i]
        BY <1>2, <3>1
      <4> QED BY <1>5, <3>1, <4>1
    <3>2. CASE i = Len(g)
      <4>1. g[i] = x /\ 0 \in 0 .. Timeframe
        BY <1>2, <3>2, FeedAssumption
      <4> QED BY <1>1, <4>1
    <3> QED BY <1>3, <3>1, <3>2
  <2>2. ASSUME NEW i \in 1 .. Len(g), NEW j \in 1 .. Len(g), i < j
        PROVE  g[i].ts <= g[j].ts /\ g[i].at <= g[j].at /\ Lag(g[j]) <= Lag(g[i])
    <3>1. i \in 1 .. Len(h)
      BY <1>2, <2>2
    <3>2. CASE j \in 1 .. Len(h)
      BY <1>2, <2>2, <3>1, <3>2 DEF Ordered
    <3>3. CASE j = Len(g)
      <4>1. Lag(h[i]) >= 0
        BY <1>5, <3>1
      <4> QED BY <1>1, <1>2, <1>5, <3>1, <3>3, <4>1
    <3> QED BY <1>3, <3>2, <3>3
  <2> QED BY <2>1, <2>2 DEF Ordered
<1>7. Len(g) >= 1 /\ g[Len(g)].ts = t /\ g[Len(g)].at = t
  BY <1>1, <1>2
<1>8. AppendTrimmed(h, t, t, v, w) = PopOlder(g, g[Len(g)].ts - w)
  BY <1>7 DEF AppendTrimmed, g, x
<1> QED BY <1>2, <1>6, <1>7, <1>8, TrimKeeps

(* A backfill of any length leaves an ordered history, or none.            *)
LEMMA SeedKeeps ==
    ASSUME NEW S, NEW n \in Nat, NEW values \in [1 .. n -> S], NEW w \in Nat, NEW t \in Nat
    PROVE  Seeded(values, w, t) \in Seq(Samples(S)) /\ History(Seeded(values, w, t), w, t)
<1> DEFINE q == t \div Timeframe
           h == [i \in 1 .. n |-> Row(values, i, t)]
           o(i) == Opened(i, n, t)
<1>1. values \in Seq(S) /\ Len(values) = n
  BY IsASeq, LenProperties
<1>2. /\ Timeframe \in Nat \ {0} /\ q \in Nat
      /\ q * Timeframe <= t /\ t < q * Timeframe + Timeframe
  BY FeedAssumption, DivBounds
<1>3. \A i \in Int : o(i) = (q - (n - i)) * Timeframe /\ o(i) \in Int
  BY <1>2, TimesNext DEF Opened
<1>4. \A i, j \in Int : i <= j => o(i) <= o(j)
  <2> SUFFICES ASSUME NEW i \in Int, NEW j \in Int, i <= j PROVE o(i) <= o(j)
    OBVIOUS
  <2>1. q - (n - i) \in Int /\ q - (n - j) \in Int /\ q - (n - i) <= q - (n - j)
    BY <1>2
  <2>2. (q - (n - i)) * Timeframe <= (q - (n - j)) * Timeframe
    BY <1>2, <2>1, TimesGrow
  <2> QED BY <1>3, <2>2
<1>5. \A i \in Int : o(i) + Timeframe = o(i + 1)
  <2> SUFFICES ASSUME NEW i \in Int PROVE o(i) + Timeframe = o(i + 1)
    OBVIOUS
  <2>1. q - (n - i) \in Int /\ (q - (n - i)) + 1 = q - (n - (i + 1))
    BY <1>2
  <2>2. ((q - (n - i)) + 1) * Timeframe = (q - (n - i)) * Timeframe + Timeframe
    BY <1>2, <2>1, TimesNext
  <2> QED BY <1>3, <2>1, <2>2
<1>6. o(n) = q * Timeframe /\ o(n) <= t /\ t < o(n) + Timeframe
  <2>1. q - (n - n) = q
    BY <1>2
  <2>2. o(n) = (q - (n - n)) * Timeframe
    BY <1>3
  <2> QED BY <1>2, <2>1, <2>2
<1>int. o(n) \in Int /\ \A i \in 1 .. n : o(i) \in Int
  <2>1. n \in Int /\ \A i \in 1 .. n : i \in Int
    OBVIOUS
  <2> QED BY <1>3, <2>1
<1> HIDE DEF o, q
<1>7. ASSUME NEW i \in 1 .. n
      PROVE  /\ h[i] \in Samples(S) /\ h[i].ts = o(i) /\ h[i].ts \in Int /\ h[i].at \in Int
             /\ h[i].at = IF i = n THEN t ELSE o(i) + Timeframe
  <2>1. h[i] = Sample(o(i), IF i = n THEN t ELSE o(i) + Timeframe, values[i])
    BY <1>1 DEF Row, o
  <2>2. values[i] \in S /\ o(i) \in Int /\ o(i) + Timeframe \in Int /\ t \in Int
    BY <1>2, <1>int
  <2> HIDE DEF h
  <2> QED BY <2>1, <2>2 DEF Sample, Samples
<1>8. h \in Seq(Samples(S)) /\ Len(h) = n
  <2>1. h \in [1 .. n -> Samples(S)]
    BY <1>7
  <2> HIDE DEF h
  <2> QED BY <2>1, IsASeq, LenProperties
<1>9. Seeded(values, w, t) = PopOlder(h, o(n) - w)
  BY <1>1 DEF Seeded, o
<1> HIDE DEF h
<1>10. Ordered(h, t)
  <2>1. ASSUME NEW i \in 1 .. n PROVE o(i) <= o(n) /\ (i # n => o(i) + Timeframe <= o(n))
    <3>1. o(i) <= o(n)
      BY <1>4
    <3>2. ASSUME i # n PROVE o(i) + Timeframe <= o(n)
      <4>1. i + 1 <= n /\ o(i) + Timeframe = o(i + 1)
        BY <1>5, <3>2
      <4> QED BY <1>4, <4>1
    <3> QED BY <3>1, <3>2
  <2>2. ASSUME NEW i \in 1 .. n PROVE Lag(h[i]) \in 0 .. Timeframe /\ h[i].at <= t
    <3>1. CASE i = n
      <4>1. h[i].at = t /\ h[i].ts = o(n)
        BY <1>7, <3>1
      <4> QED BY <1>2, <1>int, <1>6, <4>1 DEF Lag
    <3>2. CASE i # n
      <4>1. h[i].at = o(i) + Timeframe /\ h[i].ts = o(i) /\ o(i) \in Int /\ o(n) \in Int
        BY <1>int, <1>7, <3>2
      <4>2. o(i) + Timeframe <= o(n)
        BY <2>1, <3>2
      <4> QED BY <1>2, <1>6, <4>1, <4>2 DEF Lag
    <3> QED BY <3>1, <3>2
  <2>3. ASSUME NEW i \in 1 .. n, NEW j \in 1 .. n, i < j
        PROVE  h[i].ts <= h[j].ts /\ h[i].at <= h[j].at /\ Lag(h[j]) <= Lag(h[i])
    <3>1. /\ i # n /\ h[i].at = o(i) + Timeframe /\ h[i].ts = o(i) /\ h[j].ts = o(j)
          /\ o(i) \in Int /\ o(j) \in Int /\ o(n) \in Int /\ o(i) <= o(j)
      <4>1. i # n /\ i \in Int /\ j \in Int /\ i <= j
        BY <2>3
      <4>2. o(i) <= o(j)
        BY <1>4, <4>1
      <4> QED BY <1>int, <1>7, <4>1, <4>2
    <3>2. Lag(h[i]) = Timeframe /\ Lag(h[j]) <= Timeframe
      BY <1>2, <2>2, <3>1 DEF Lag
    <3>3. h[i].at <= h[j].at
      <4>1. CASE j = n
        BY <1>2, <1>6, <1>7, <2>1, <3>1, <4>1
      <4>2. CASE j # n
        BY <1>2, <1>7, <3>1, <4>2
      <4> QED BY <4>1, <4>2
    <3> QED BY <3>1, <3>2, <3>3
  <2> QED BY <1>8, <2>2, <2>3 DEF Ordered
<1>11. CASE n = 0
  <2>1. o(n) - w \in Int
    BY <1>int
  <2> DEFINE p == PopOlder(h, o(n) - w)
  <2>2. p \in Seq(Samples(S)) /\ Len(p) <= Len(h) /\ Len(p) \in Nat
    BY <1>8, <2>1, PopOlderIsTail
  <2> HIDE DEF p
  <2>3. Len(p) = 0
    BY <1>8, <1>11, <2>2
  <2>4. History(p, w, t)
    BY <2>3 DEF History, Ordered, Within
  <2> QED BY <1>9, <2>2, <2>4 DEF p
<1>12. CASE n >= 1
  <2>1. h[Len(h)].ts = o(n) /\ Len(h) >= 1
    BY <1>7, <1>8, <1>12
  <2>2. o(n) - w = h[Len(h)].ts - w
    BY <2>1
  <2> QED BY <1>8, <1>9, <1>10, <2>1, <2>2, TrimKeeps
<1> QED BY <1>11, <1>12
-----------------------------------------------------------------------------
(* The windows: every step keeps their types and their order.              *)

WindowInv ==
    /\ now \in FirstTime .. MaxNow
    /\ price \in Seq(Samples(Prices)) /\ rate \in Seq(Samples(Rates))
    /\ History(price, PriceWindow, now) /\ History(rate, FundingWindow, now)
    /\ link = "backfill" => price = <<>>

(* As time passes, a history stays one.                                    *)
LEMMA HistoryLasts ==
    ASSUME NEW S, NEW h \in Seq(Samples(S)), NEW w \in Nat, NEW t \in Nat, History(h, w, t)
    PROVE  History(h, w, t + 1)
<1>1. \A i \in 1 .. Len(h) : h[i].at \in Int
  <2>1. \A i \in 1 .. Len(h) : h[i] \in Samples(S)
    BY ElementOfSeq
  <2> QED BY <2>1 DEF Samples
<1>2. ASSUME NEW i \in 1 .. Len(h) PROVE Lag(h[i]) \in 0 .. Timeframe /\ h[i].at <= t + 1
  <2>1. Lag(h[i]) \in 0 .. Timeframe /\ h[i].at <= t /\ h[i].at \in Int
    BY <1>1 DEF History, Ordered
  <2> QED BY <2>1
<1>3. \A i, j \in 1 .. Len(h) : i < j =>
           h[i].ts <= h[j].ts /\ h[i].at <= h[j].at /\ Lag(h[j]) <= Lag(h[i])
  BY DEF History, Ordered
<1> QED BY <1>2, <1>3 DEF History, Ordered

(* A message is stored: the window stays a history, and reaches to now.    *)
LEMMA StoreKeeps ==
    ASSUME WindowInv, NEW p \in Prices, NEW r \in Rates, HandleMessage(p, r)
    PROVE  /\ WindowInv'
           /\ Len(price') >= 1 /\ price'[Len(price')].at = now
<1>1. now \in Nat /\ now \in FirstTime .. MaxNow /\ PriceWindow \in Nat /\ FundingWindow \in Nat
  BY FeedAssumption DEF WindowInv
<1>2. Ordered(price, now) /\ Ordered(rate, now)
  BY DEF WindowInv, History
<1>3. /\ price' \in Seq(Samples(Prices)) /\ History(price', PriceWindow, now)
      /\ Len(price') >= 1 /\ price'[Len(price')].at = now
  <2> DEFINE h == AppendTrimmed(price, now, now, p, PriceWindow)
  <2>1. price \in Seq(Samples(Prices)) /\ price' = h
    BY DEF HandleMessage, WindowInv
  <2>2. /\ h \in Seq(Samples(Prices)) /\ History(h, PriceWindow, now)
        /\ Len(h) >= 1 /\ h[Len(h)].at = now
    BY <1>1, <1>2, <2>1, AppendKeeps
  <2> HIDE DEF h
  <2> QED BY <2>1, <2>2
<1>4. rate' \in Seq(Samples(Rates)) /\ History(rate', FundingWindow, now)
  BY <1>1, <1>2, AppendKeeps DEF HandleMessage, WindowInv
<1>5. now' = now /\ link' = "up"
  BY DEF HandleMessage
<1> QED BY <1>1, <1>3, <1>4, <1>5 DEF WindowInv

(* The windows are histories in every reachable state.                     *)
LEMMA WindowInvariant == Spec => []WindowInv
<1>1. Init => WindowInv
  <2> SUFFICES ASSUME Init PROVE WindowInv
    OBVIOUS
  <2>1. now \in FirstTime .. MaxNow /\ price = <<>> /\ rate = <<>>
    BY FeedAssumption DEF Init
  <2>2. <<>> \in Seq(Samples(Prices)) /\ <<>> \in Seq(Samples(Rates)) /\ Len(<<>>) = 0
    OBVIOUS
  <2>3. \A w : History(<<>>, w, now)
    BY <2>2 DEF History, Ordered, Within
  <2> QED BY <2>1, <2>2, <2>3 DEF WindowInv
<1>2. WindowInv /\ [Next]_vars => WindowInv'
  <2> SUFFICES ASSUME WindowInv, [Next]_vars PROVE WindowInv'
    OBVIOUS
  <2>0. now \in Nat /\ PriceWindow \in Nat /\ FundingWindow \in Nat
    BY FeedAssumption DEF WindowInv
  <2>1. ASSUME NEW ps \in Rows(Prices, PriceWindow), NEW rs \in Rows(Rates, FundingWindow),
               Backfill(ps, rs)
        PROVE  WindowInv'
    <3>1. PICK n \in 0 .. KlineLimit(PriceWindow) : ps \in [1 .. n -> Prices]
      BY DEF Rows
    <3>2. PICK m \in 0 .. KlineLimit(FundingWindow) : rs \in [1 .. m -> Rates]
      BY DEF Rows
    <3>3. n \in Nat /\ m \in Nat
      OBVIOUS
    <3>4. price' \in Seq(Samples(Prices)) /\ History(price', PriceWindow, now)
      BY <2>0, <2>1, <3>1, <3>3, SeedKeeps DEF Backfill
    <3>5. rate' \in Seq(Samples(Rates)) /\ History(rate', FundingWindow, now)
      BY <2>0, <2>1, <3>2, <3>3, SeedKeeps DEF Backfill
    <3>6. now' = now /\ link' = "down"
      BY <2>1 DEF Backfill
    <3> QED BY <3>4, <3>5, <3>6 DEF WindowInv
  <2>2. ASSUME NEW p \in Prices, NEW r \in Rates, HandleMessage(p, r) PROVE WindowInv'
    BY <2>2, StoreKeeps
  <2>3. CASE Clock
    <3>1. now' = now + 1 /\ now' \in FirstTime .. MaxNow /\ UNCHANGED <<price, rate, link>>
      BY <2>3, FeedAssumption DEF Clock, WindowInv
    <3>2. History(price, PriceWindow, now + 1) /\ History(rate, FundingWindow, now + 1)
      BY <2>0, HistoryLasts DEF WindowInv
    <3> QED BY <3>1, <3>2 DEF WindowInv
  <2>4. CASE BackfillFails \/ Connect \/ StreamFails \/ WakeUp \/ OnTick \/ OnBar \/ UNCHANGED vars
    <3>1. UNCHANGED <<now, price, rate>> /\ (link' = "backfill" => link = "backfill")
      BY <2>4 DEF BackfillFails, Connect, StreamFails, WakeUp, OnTick, OnBar, vars
    <3> QED BY <3>1 DEF WindowInv
  <2> QED BY <2>1, <2>2, <2>3, <2>4 DEF Next
<1> QED BY <1>1, <1>2, PTL DEF Spec

(* The price change never spans more than its window, nor less than nine   *)
(* tenths of it but for one timeframe, whatever was backfilled, however    *)
(* long the stream was away and however often it came back.                *)
THEOREM WindowsAreHonest == Spec => []SpanHonest
<1>1. WindowInv => SpanHonest
  <2> SUFFICES ASSUME WindowInv, PriceChange.known
               PROVE  LET span == price[Len(price)].at - price[1].at
                      IN  /\ span <= PriceWindow
                          /\ span * 10 >= PriceWindow * 9 - Timeframe * 10
                          /\ \A i \in 1 .. Len(price) - 1 :
                                 price[i].ts <= price[i + 1].ts /\ price[i].at <= price[i + 1].at
    BY DEF SpanHonest
  <2> DEFINE n == Len(price)
             a == price[1]
             z == price[n]
  <2>1. FullWindow(price, PriceWindow)
    BY DEF PriceChange, Ends, Unknown
  <2>2. n \in Nat /\ n >= 2 /\ 1 \in 1 .. n /\ n \in 1 .. n /\ 1 < n
    BY <2>1, LenProperties DEF FullWindow, WindowInv
  <2>3. a.ts \in Int /\ a.at \in Int /\ z.ts \in Int /\ z.at \in Int
    <3>1. a \in Samples(Prices) /\ z \in Samples(Prices)
      BY <2>2, ElementOfSeq DEF WindowInv
    <3> QED BY <3>1 DEF Samples
  <2>4. /\ Lag(a) \in 0 .. Timeframe /\ Lag(z) \in 0 .. Timeframe /\ Lag(z) <= Lag(a)
        /\ z.ts - PriceWindow <= a.ts
    BY <2>2 DEF WindowInv, History, Ordered, Within
  <2>5. (z.ts - a.ts) * 10 >= PriceWindow * 9
    BY <2>1 DEF FullWindow
  <2>6. ASSUME NEW i \in 1 .. n - 1
        PROVE  price[i].ts <= price[i + 1].ts /\ price[i].at <= price[i + 1].at
    <3>1. i \in 1 .. n /\ i + 1 \in 1 .. n /\ i < i + 1
      BY <2>2
    <3> QED BY <3>1 DEF WindowInv, History, Ordered
  <2>7. PriceWindow \in Nat /\ Timeframe \in Nat
    BY FeedAssumption
  <2> HIDE DEF a, z
  <2>8. z.at - a.at <= PriceWindow /\ (z.at - a.at) * 10 >= PriceWindow * 9 - Timeframe * 10
    BY <2>3, <2>4, <2>5, <2>7 DEF Lag
  <2> QED BY <2>6, <2>8 DEF a, z
<1> QED BY <1>1, WindowInvariant, PTL

-----------------------------------------------------------------------------
(* Types of the bus, the bars and the decisions.                           *)
Events == TickEvents \cup BarEvents

(* Publish keeps a queue within its room, or drops the event.              *)
LEMMA PublishKeeps ==
    ASSUME NEW q \in Seq(Events), Len(q) <= QueueBound, NEW e \in Events
    PROVE  /\ Publish(q, e) \in Seq(Events) /\ Len(Publish(q, e)) <= QueueBound
           /\ \A i \in 1 .. Len(Publish(q, e)) :
                  \/ i \in 1 .. Len(q) /\ Publish(q, e)[i] = q[i]
                  \/ i = Len(q) + 1 /\ Publish(q, e)[i] = e
<1>1. Len(q) \in Nat /\ QueueBound \in Nat
  BY LenProperties, FeedAssumption
<1>2. CASE Len(q) < QueueBound
  <2>1. Publish(q, e) = Append(q, e)
    BY <1>2 DEF Publish
  <2>2. /\ Append(q, e) \in Seq(Events) /\ Len(Append(q, e)) = Len(q) + 1
        /\ \A i \in 1 .. Len(q) : Append(q, e)[i] = q[i]
        /\ Append(q, e)[Len(q) + 1] = e
    BY AppendProperties
  <2> QED BY <1>1, <1>2, <2>1, <2>2
<1>3. CASE ~(Len(q) < QueueBound)
  BY <1>3 DEF Publish
<1> QED BY <1>2, <1>3

(* The first event of the bus is dispatched: the rest moves up.            *)
LEMMA TailKeeps ==
    ASSUME NEW q \in Seq(Events), q # <<>>
    PROVE  /\ Head(q) \in Events /\ Tail(q) \in Seq(Events) /\ Head(q) = q[1]
           /\ Len(q) \in Nat /\ Len(q) >= 1 /\ Len(Tail(q)) = Len(q) - 1
           /\ \A i \in 1 .. Len(Tail(q)) : i + 1 \in 1 .. Len(q) /\ Tail(q)[i] = q[i + 1]
<1>1. /\ Head(q) \in Events /\ Tail(q) \in Seq(Events) /\ Len(Tail(q)) = Len(q) - 1
      /\ \A i \in 1 .. Len(Tail(q)) : Tail(q)[i] = q[i + 1]
  BY HeadTailProperties
<1>2. Len(q) \in Nat /\ Len(q) >= 1 /\ Head(q) = q[1]
  BY EmptySeq
<1> QED BY <1>1, <1>2

(* A tick on the bus, and the bar it opens or changes.                     *)
LEMMA BarTypes ==
    ASSUME NEW ts \in FirstTime .. MaxNow, NEW p \in Prices
    PROVE  /\ NewBar(ts, p) \in Bars
           /\ \A b \in Bars : /\ Update(b, p) \in Bars
                              /\ Update(b, p).start = b.start /\ Update(b, p).open = b.open
                              /\ Update(b, p).close = p
                              /\ Update(b, p).high = IF p > b.high THEN p ELSE b.high
                              /\ Update(b, p).low = IF p < b.low THEN p ELSE b.low
<1>1. ts \in Nat /\ MaxNow \in Nat
  BY FeedAssumption
<1>2. BucketStart(ts) \in 0 .. MaxNow
  <2>1. BucketStart(ts) \in Nat /\ BucketStart(ts) <= ts
    BY <1>1, InBucket
  <2> QED BY <1>1, <2>1
<1>3. NewBar(ts, p) \in Bars
  BY <1>2 DEF NewBar, Bars
<1>4. ASSUME NEW b \in Bars
      PROVE  /\ Update(b, p) \in Bars
             /\ Update(b, p).start = b.start /\ Update(b, p).open = b.open
             /\ Update(b, p).close = p
             /\ Update(b, p).high = IF p > b.high THEN p ELSE b.high
             /\ Update(b, p).low = IF p < b.low THEN p ELSE b.low
  BY DEF Update, Bars
<1> QED BY <1>3, <1>4

(* What a decision is made of.                                             *)
LEMMA SideOfEntry ==
    EvaluateEntry(PriceChange, FundingTrend) \in {"none", "BUY", "SELL"}
    /\ (EvaluateEntry(PriceChange, FundingTrend) # "none" => FullWindow(price, PriceWindow))
<1>1. PriceChange.known => FullWindow(price, PriceWindow)
  BY DEF PriceChange, Ends, Unknown
<1> DEFINE p == PriceChange
           f == FundingTrend
           side == EvaluateEntry(p, f)
           known == p.known /\ f.known
           jump == (p.last - p.first) * 100 >= JumpPct * p.first
           fall == ~jump /\ (p.last - p.first) * 100 <= -JumpPct * p.first
           buy == known /\ jump /\ f.last < f.first
           sell == known /\ fall /\ f.first < 0 /\ f.last > f.first
<1> HIDE DEF p, f
<1>2. side = CASE buy -> "BUY" [] sell -> "SELL" [] OTHER -> "none"
  BY DEF EvaluateEntry
<1>3. (buy \/ sell => p.known) /\ ~(buy /\ sell)
  OBVIOUS
<1> HIDE DEF side, buy, sell
<1>4. side \in {"none", "BUY", "SELL"} /\ (side # "none" => p.known)
  BY <1>2, <1>3
<1> QED BY <1>1, <1>4 DEF side, p, f

(* Every variable keeps its type; of a decision in particular, that there  *)
(* was a last price to take.                                               *)
THEOREM TypeCorrect == Spec => []TypeOK
<1>1. Init => TypeOK
  BY FeedAssumption DEF Init, TypeOK, Decisions
<1>2. WindowInv' /\ TypeOK /\ [Next]_vars => TypeOK'
  <2> SUFFICES ASSUME WindowInv', TypeOK, [Next]_vars PROVE TypeOK'
    OBVIOUS
  <2>w. now' \in FirstTime .. MaxNow /\ price' \in Seq(Samples(Prices)) /\ rate' \in Seq(Samples(Rates))
    BY DEF WindowInv
  <2>q. queue \in Seq(Events) /\ Len(queue) <= QueueBound
    BY DEF TypeOK, Events
  <2>1. ASSUME NEW ps \in Rows(Prices, PriceWindow), NEW rs \in Rows(Rates, FundingWindow),
               Backfill(ps, rs)
        PROVE  TypeOK'
    <3>1. UNCHANGED <<backoff, queue, bar, heard, closed, decided>> /\ link' = "down"
      BY <2>1 DEF Backfill
    <3> QED BY <2>w, <3>1 DEF TypeOK
  <2>2. ASSUME NEW p \in Prices, NEW r \in Rates, HandleMessage(p, r) PROVE TypeOK'
    <3>1. UNCHANGED <<link, backoff, bar, heard, closed, decided>>
      BY <2>2 DEF HandleMessage
    <3>2. [kind |-> "tick", ts |-> now, price |-> p] \in Events
      BY DEF TypeOK, Events, TickEvents
    <3>3. queue' \in Seq(Events) /\ Len(queue') <= QueueBound
      BY <2>2, <2>q, <3>2, PublishKeeps DEF HandleMessage
    <3> QED BY <2>w, <3>1, <3>3 DEF TypeOK, Events
  <2>3. CASE OnTick
    <3> DEFINE e == Head(queue)
               done == Completes(bar, e.ts)
               old == IF done \/ bar = NoBar THEN NewBar(e.ts, e.price) ELSE bar
               bars == [kind |-> "bar", ts |-> bar.start, price |-> bar.close]
    <3>0. /\ bar' = Update(old, e.price)
          /\ heard' = IF done THEN <<e>> ELSE Append(heard, e)
          /\ closed' = IF done THEN [bar |-> bar, ticks |-> heard, before |-> closed.bar.start]
                       ELSE closed
          /\ queue' = IF done THEN Publish(Tail(queue), bars) ELSE Tail(queue)
          /\ UNCHANGED <<now, link, backoff, price, rate, decided>>
          /\ queue # <<>> /\ e.kind = "tick"
      BY <2>3 DEF OnTick
    <3>1. /\ e \in Events /\ Tail(queue) \in Seq(Events) /\ Len(Tail(queue)) <= QueueBound
      <4>1. e \in Events /\ Tail(queue) \in Seq(Events) /\ Len(queue) \in Nat /\ Len(Tail(queue)) = Len(queue) - 1
        BY <2>q, <3>0, TailKeeps
      <4> QED BY <4>1, <2>q, FeedAssumption
    <3>2. e \in TickEvents /\ e.ts \in FirstTime .. MaxNow /\ e.price \in Prices
      BY <3>0, <3>1 DEF Events, TickEvents, BarEvents
    <3> HIDE DEF e
    <3>3. bar \in Bars \cup {NoBar} /\ (done => bar \in Bars)
      BY DEF TypeOK, Completes, NoBar
    <3>4. old \in Bars
      BY <3>2, <3>3, BarTypes
    <3> HIDE DEF old
    <3>5. bar' \in Bars
      BY <3>0, <3>2, <3>4, BarTypes
    <3>6. heard \in Seq(TickEvents) /\ heard' \in Seq(TickEvents)
      BY <3>0, <3>2 DEF TypeOK
    <3>7. closed' \in [bar : Bars \cup {NoBar}, ticks : Seq(TickEvents), before : -1 .. MaxNow]
      <4>1. closed \in [bar : Bars \cup {NoBar}, ticks : Seq(TickEvents), before : -1 .. MaxNow]
        BY DEF TypeOK
      <4>2. closed.bar.start \in -1 .. MaxNow
        BY <4>1, FeedAssumption DEF Bars, NoBar
      <4> QED BY <3>0, <3>3, <3>6, <4>1, <4>2
    <3>8. queue' \in Seq(Events) /\ Len(queue') <= QueueBound
      <4>1. done => bars \in Events
        BY <3>3 DEF Events, BarEvents, Bars
      <4> HIDE DEF bars
      <4> QED BY <3>0, <3>1, <4>1, PublishKeeps
    <3> QED BY <2>w, <3>0, <3>5, <3>6, <3>7, <3>8 DEF TypeOK, Events
  <2>4. CASE OnBar
    <3> DEFINE side == EvaluateEntry(PriceChange, FundingTrend)
    <3>0. /\ queue # <<>> /\ Head(queue).kind = "bar" /\ queue' = Tail(queue)
          /\ decided' = IF side = "none" THEN [side |-> "none"]
                        ELSE [side |-> side, bar |-> Head(queue).ts, to |-> price[Len(price)].at]
          /\ UNCHANGED <<now, link, backoff, price, rate, bar, heard, closed>>
      BY <2>4 DEF OnBar
    <3>1. Head(queue) \in Events /\ queue' \in Seq(Events) /\ Len(queue') <= QueueBound
      <4>1. Head(queue) \in Events /\ Tail(queue) \in Seq(Events) /\ Len(queue) \in Nat /\ Len(Tail(queue)) = Len(queue) - 1
        BY <2>q, <3>0, TailKeeps
      <4> QED BY <3>0, <4>1, <2>q, FeedAssumption
    <3>2. Head(queue).ts \in 0 .. MaxNow
      BY <3>0, <3>1 DEF Events, TickEvents, BarEvents
    <3>3. side \in {"none", "BUY", "SELL"} /\ (side # "none" => price[Len(price)].at \in Int)
      <4>1. side \in {"none", "BUY", "SELL"} /\ (side # "none" => FullWindow(price, PriceWindow))
        BY SideOfEntry
      <4>2. ASSUME FullWindow(price, PriceWindow) PROVE price[Len(price)].at \in Int
        <5>1. price \in Seq(Samples(Prices)) /\ Len(price) \in 1 .. Len(price)
          BY <4>2, LenProperties DEF TypeOK, FullWindow
        <5>2. price[Len(price)] \in Samples(Prices)
          BY <5>1, ElementOfSeq
        <5> QED BY <5>2 DEF Samples
      <4> QED BY <4>1, <4>2
    <3> HIDE DEF side
    <3>4. decided' \in Decisions
      BY <3>0, <3>2, <3>3 DEF Decisions
    <3> QED BY <2>w, <3>0, <3>1, <3>4 DEF TypeOK, Events
  <2>5. CASE BackfillFails \/ WakeUp \/ Clock \/ UNCHANGED vars
    <3>1. /\ UNCHANGED <<backoff, queue, bar, heard, closed, decided>>
          /\ link' = "down" \/ link' = link
      BY <2>5 DEF BackfillFails, WakeUp, Clock, vars
    <3> QED BY <2>w, <3>1 DEF TypeOK
  <2>6. CASE Connect \/ StreamFails
    <3>1. /\ UNCHANGED <<queue, bar, heard, closed, decided>>
          /\ link' \in {"up", "asleep"}
          /\ backoff' = BaseBackoff \/ backoff' = NextBackoff(backoff)
      BY <2>6 DEF Connect, StreamFails
    <3>2. backoff' \in BaseBackoff .. MaxBackoff
      <4>1. /\ backoff \in Nat /\ BaseBackoff <= backoff /\ backoff <= MaxBackoff
            /\ BaseBackoff \in Nat /\ MaxBackoff \in Nat /\ BaseBackoff <= MaxBackoff
        <5>1. backoff \in BaseBackoff .. MaxBackoff
          BY DEF TypeOK
        <5> QED BY <5>1, FeedTypes
      <4>2. NextBackoff(backoff) \in BaseBackoff .. MaxBackoff
        BY <4>1 DEF NextBackoff
      <4> QED BY <3>1, <4>1, <4>2
    <3> QED BY <2>w, <3>1, <3>2 DEF TypeOK
  <2> QED BY <2>1, <2>2, <2>3, <2>4, <2>5, <2>6 DEF Next
<1> QED BY <1>1, <1>2, WindowInvariant, PTL DEF Spec

-----------------------------------------------------------------------------
(* Bars.  An open bar tells of the ticks heard since it was opened, all of *)
(* its bucket; the bus holds no tick of an earlier bucket, and no event    *)
(* that the price window does not reach yet.                               *)

BarOf(b, ticks) ==
    /\ ticks # <<>>
    /\ \A i \in 1 .. Len(ticks) :
           /\ ticks[i].ts \in b.start .. b.start + Timeframe - 1
           /\ b.low <= ticks[i].price /\ ticks[i].price <= b.high
    /\ b.open = ticks[1].price /\ b.close = ticks[Len(ticks)].price
    /\ \E i \in 1 .. Len(ticks) : b.high = ticks[i].price
    /\ \E i \in 1 .. Len(ticks) : b.low = ticks[i].price

(* From when on the window must reach an event: a tick's own time, the end *)
(* of a bar.                                                               *)
Due(e) == IF e.kind = "tick" THEN e.ts ELSE e.ts + Timeframe

EventSeen(h, e) == Len(h) >= 1 /\ Due(e) <= h[Len(h)].at

QueueInv ==
    /\ link = "backfill" => queue = <<>>
    /\ \A i \in 1 .. Len(queue) : EventSeen(price, queue[i])
    /\ \A i, j \in 1 .. Len(queue) :
           i < j /\ queue[i].kind = "tick" /\ queue[j].kind = "tick" => queue[i].ts <= queue[j].ts
    /\ bar # NoBar =>
           /\ bar.start <= now
           /\ \A i \in 1 .. Len(queue) : queue[i].kind = "tick" => bar.start <= queue[i].ts

BarInv ==
    /\ bar = NoBar => heard = <<>> /\ closed.bar = NoBar
    /\ bar # NoBar => /\ BarOf(bar, heard)
                      /\ bar.start = BucketStart(heard[1].ts)
                      /\ closed.bar.start < bar.start
    /\ closed.ticks # <<>> => closed.before < closed.bar.start /\ BarOf(closed.bar, closed.ticks)

FeedInv == TypeOK /\ WindowInv /\ QueueInv /\ BarInv /\ DecisionFresh

(* A tick opens a bar.                                                     *)
LEMMA BarOpens ==
    ASSUME NEW e \in TickEvents
    PROVE  LET b == Update(NewBar(e.ts, e.price), e.price)
           IN  /\ BarOf(b, <<e>>) /\ b \in Bars /\ b # NoBar
               /\ b.start = BucketStart(e.ts) /\ b.start >= 0 /\ b.start <= e.ts
<1> DEFINE n == NewBar(e.ts, e.price)
           b == Update(n, e.price)
<1>1. /\ e.ts \in FirstTime .. MaxNow /\ e.ts \in Nat /\ e.price \in Prices /\ e.price \in Nat
      /\ Timeframe \in Nat
  <2>1. e.ts \in FirstTime .. MaxNow /\ e.price \in Prices
    BY DEF TickEvents
  <2>2. e.ts \in Nat /\ Timeframe \in Nat
    BY <2>1, FeedAssumption
  <2>3. e.price \in Nat
    BY <2>1, FeedAssumption
  <2> QED BY <2>1, <2>2, <2>3
<1>2. n \in Bars /\ n.start = BucketStart(e.ts) /\ n.open = e.price /\ n.high = e.price /\ n.low = e.price
  BY <1>1, BarTypes DEF NewBar
<1> HIDE DEF n
<1>3. /\ b \in Bars /\ b.start = BucketStart(e.ts) /\ b.open = e.price /\ b.close = e.price
      /\ b.high = e.price /\ b.low = e.price
  BY <1>1, <1>2, BarTypes
<1> HIDE DEF b
<1>4. BucketStart(e.ts) \in Nat /\ BucketStart(e.ts) <= e.ts /\ e.ts < BucketStart(e.ts) + Timeframe
  BY <1>1, InBucket
<1>5. e.ts \in b.start .. b.start + Timeframe - 1
  BY <1>1, <1>3, <1>4
<1>6. b # NoBar
  BY <1>3, <1>4 DEF NoBar
<1>7. <<e>> # <<>> /\ Len(<<e>>) = 1 /\ <<e>>[1] = e
  OBVIOUS
<1>8. BarOf(b, <<e>>)
  BY <1>1, <1>3, <1>5, <1>7 DEF BarOf
<1> QED BY <1>3, <1>4, <1>6, <1>8 DEF b, n

(* A further tick of its bucket changes a bar.                             *)
LEMMA BarGrows ==
    ASSUME NEW b \in Bars, NEW ticks \in Seq(TickEvents), BarOf(b, ticks),
           NEW e \in TickEvents, b.start = BucketStart(e.ts)
    PROVE  LET u == Update(b, e.price)
           IN  /\ BarOf(u, Append(ticks, e)) /\ u \in Bars /\ u.start = b.start
               /\ Append(ticks, e)[1] = ticks[1]
<1> DEFINE u == Update(b, e.price)
           more == Append(ticks, e)
           p == e.price
<1>1. /\ e.ts \in FirstTime .. MaxNow /\ e.ts \in Nat /\ p \in Prices /\ p \in Nat
      /\ Timeframe \in Nat /\ b.high \in Nat /\ b.low \in Nat
  <2>1. e.ts \in FirstTime .. MaxNow /\ p \in Prices /\ b.high \in Prices /\ b.low \in Prices
    BY DEF TickEvents, Bars
  <2> QED BY <2>1, FeedTypes
<1>2. /\ u \in Bars /\ u.start = b.start /\ u.open = b.open /\ u.close = p
      /\ u.high = IF p > b.high THEN p ELSE b.high
      /\ u.low = IF p < b.low THEN p ELSE b.low
  BY <1>1, BarTypes
<1>3. /\ Len(ticks) \in Nat /\ Len(ticks) >= 1 /\ 1 \in 1 .. Len(ticks)
      /\ Len(more) = Len(ticks) + 1
      /\ \A i \in 1 .. Len(ticks) : more[i] = ticks[i]
      /\ more[Len(ticks) + 1] = e /\ more # <<>>
  <2>1. Len(ticks) \in Nat /\ Len(ticks) >= 1
    BY EmptySeq DEF BarOf
  <2>2. /\ Len(more) = Len(ticks) + 1
        /\ \A i \in 1 .. Len(ticks) : more[i] = ticks[i]
        /\ more[Len(ticks) + 1] = e
    BY AppendProperties
  <2>3. more # <<>>
    BY <2>1, <2>2, EmptySeq
  <2> QED BY <2>1, <2>2, <2>3
<1> HIDE DEF u, more
<1>4. e.ts \in b.start .. b.start + Timeframe - 1
  <2>1. BucketStart(e.ts) \in Nat /\ BucketStart(e.ts) <= e.ts /\ e.ts < BucketStart(e.ts) + Timeframe
    BY <1>1, InBucket
  <2> QED BY <1>1, <2>1
<1>5. \A i \in 1 .. Len(ticks) : ticks[i].price \in Nat
  <2>1. \A i \in 1 .. Len(ticks) : ticks[i] \in TickEvents
    BY ElementOfSeq
  <2> QED BY <2>1, FeedAssumption DEF TickEvents
<1>6. ASSUME NEW i \in 1 .. Len(more)
      PROVE  /\ more[i].ts \in u.start .. u.start + Timeframe - 1
             /\ u.low <= more[i].price /\ more[i].price <= u.high
  <2>1. CASE i \in 1 .. Len(ticks)
    <3>1. /\ more[i] = ticks[i] /\ ticks[i].price \in Nat
          /\ ticks[i].ts \in b.start .. b.start + Timeframe - 1
          /\ b.low <= ticks[i].price /\ ticks[i].price <= b.high
      BY <1>3, <1>5, <2>1 DEF BarOf
    <3>2. u.low <= ticks[i].price /\ ticks[i].price <= u.high
      BY <1>1, <1>2, <3>1
    <3> QED BY <1>2, <3>1, <3>2
  <2>2. CASE i = Len(ticks) + 1
    <3>1. more[i] = e
      BY <1>3, <2>2
    <3>2. u.low <= p /\ p <= u.high
      BY <1>1, <1>2
    <3> QED BY <1>2, <1>4, <3>1, <3>2
  <2> QED BY <1>3, <2>1, <2>2
<1>7. \E i \in 1 .. Len(more) : u.high = more[i].price
  <2>1. CASE p > b.high
    <3>1. u.high = more[Len(ticks) + 1].price /\ Len(ticks) + 1 \in 1 .. Len(more)
      BY <1>2, <1>3, <2>1
    <3> QED BY <3>1
  <2>2. CASE ~(p > b.high)
    <3>1. PICK i \in 1 .. Len(ticks) : b.high = ticks[i].price
      BY DEF BarOf
    <3>2. i \in 1 .. Len(more) /\ u.high = more[i].price
      BY <1>2, <1>3, <2>2, <3>1
    <3> QED BY <3>2
  <2> QED BY <2>1, <2>2
<1>8. \E i \in 1 .. Len(more) : u.low = more[i].price
  <2>1. CASE p < b.low
    <3>1. u.low = more[Len(ticks) + 1].price /\ Len(ticks) + 1 \in 1 .. Len(more)
      BY <1>2, <1>3, <2>1
    <3> QED BY <3>1
  <2>2. CASE ~(p < b.low)
    <3>1. PICK i \in 1 .. Len(ticks) : b.low = ticks[i].price
      BY DEF BarOf
    <3>2. i \in 1 .. Len(more) /\ u.low = more[i].price
      BY <1>2, <1>3, <2>2, <3>1
    <3> QED BY <3>2
  <2> QED BY <2>1, <2>2
<1>9. more[1] = ticks[1] /\ u.open = more[1].price /\ u.close = more[Len(more)].price
  <2>1. b.open = ticks[1].price
    BY DEF BarOf
  <2>2. more[1] = ticks[1] /\ more[Len(more)] = e
    BY <1>3
  <2> QED BY <1>2, <2>1, <2>2
<1>10. BarOf(u, more)
  BY <1>3, <1>6, <1>7, <1>8, <1>9 DEF BarOf
<1> QED BY <1>2, <1>9, <1>10 DEF u, more

(* The window's end is not in the future.                                  *)
LEMMA SeenIsPast ==
    ASSUME WindowInv
    PROVE  /\ now \in Nat
           /\ Len(price) >= 1 => price[Len(price)].at \in Int /\ price[Len(price)].at <= now
<1>1. now \in Nat
  BY FeedAssumption DEF WindowInv
<1>2. ASSUME Len(price) >= 1
      PROVE  price[Len(price)].at \in Int /\ price[Len(price)].at <= now
  <2>1. Len(price) \in 1 .. Len(price) /\ price \in Seq(Samples(Prices))
    BY <1>2, LenProperties DEF WindowInv
  <2>2. price[Len(price)] \in Samples(Prices)
    BY <2>1, ElementOfSeq
  <2>3. price[Len(price)].at <= now
    BY <2>1 DEF WindowInv, History, Ordered
  <2> QED BY <2>2, <2>3 DEF Samples
<1> QED BY <1>1, <1>2

(* The events of the bus, by kind.                                         *)
LEMMA EventTypes ==
    ASSUME TypeOK
    PROVE  /\ queue \in Seq(Events) /\ Len(queue) \in Nat /\ Len(queue) <= QueueBound
           /\ \A i \in 1 .. Len(queue) : queue[i] \in Events /\ queue[i].ts \in Nat
           /\ \A e \in Events : /\ e.ts \in Nat
                                /\ e.kind = "tick" => e \in TickEvents
                                /\ e.kind # "tick" => e.kind = "bar"
<1>1. queue \in Seq(Events) /\ Len(queue) \in Nat /\ Len(queue) <= QueueBound
  BY LenProperties DEF TypeOK, Events
<1>2. ASSUME NEW e \in Events
      PROVE  e.ts \in Nat /\ (e.kind = "tick" => e \in TickEvents) /\ (e.kind # "tick" => e.kind = "bar")
  <2>1. FirstTime .. MaxNow \subseteq Nat /\ 0 .. MaxNow \subseteq Nat
    BY FeedAssumption
  <2> QED BY <2>1 DEF Events, TickEvents, BarEvents
<1>3. \A i \in 1 .. Len(queue) : queue[i] \in Events
  BY <1>1, ElementOfSeq
<1> QED BY <1>1, <1>2, <1>3

(* What was seen stays seen while the window's end does not move back.     *)
LEMMA SeenLater ==
    ASSUME NEW g, NEW h, Len(h) >= 1, h[Len(h)].at \in Int,
           Len(g) >= 1 => g[Len(g)].at \in Int /\ g[Len(g)].at <= h[Len(h)].at,
           NEW e \in Events, e.ts \in Nat, EventSeen(g, e)
    PROVE  EventSeen(h, e)
<1>1. Timeframe \in Nat
  BY FeedAssumption
<1>2. Len(g) >= 1 /\ Due(e) <= g[Len(g)].at /\ Due(e) \in Int
  BY <1>1 DEF EventSeen, Due
<1> QED BY <1>2 DEF EventSeen

(* A message is stored before its tick is published.                       *)
LEMMA MessageKeepsFeed ==
    ASSUME FeedInv, NEW p \in Prices, NEW r \in Rates, HandleMessage(p, r)
    PROVE  QueueInv' /\ BarInv' /\ DecisionFresh'
<1> DEFINE e == [kind |-> "tick", ts |-> now, price |-> p]
<1>0. UNCHANGED <<now, link, bar, heard, closed, decided>> /\ link = "up" /\ queue' = Publish(queue, e)
  BY DEF HandleMessage
<1>1. Len(price') >= 1 /\ price'[Len(price')].at = now
  BY StoreKeeps DEF FeedInv
<1>2. now \in Nat /\ (Len(price) >= 1 => price[Len(price)].at \in Int /\ price[Len(price)].at <= now)
  BY SeenIsPast DEF FeedInv
<1>3. /\ queue \in Seq(Events) /\ Len(queue) \in Nat /\ Len(queue) <= QueueBound
      /\ \A i \in 1 .. Len(queue) : queue[i] \in Events /\ queue[i].ts \in Nat
  BY EventTypes DEF FeedInv
<1>4. e \in Events /\ e.kind = "tick" /\ e.ts = now
  BY DEF FeedInv, TypeOK, Events, TickEvents
<1> HIDE DEF e
<1>5. \A i \in 1 .. Len(queue') : \/ i \in 1 .. Len(queue) /\ queue'[i] = queue[i]
                                  \/ i = Len(queue) + 1 /\ queue'[i] = e
  BY <1>0, <1>3, <1>4, PublishKeeps
<1>6. ASSUME NEW i \in 1 .. Len(queue)
      PROVE  EventSeen(price', queue[i]) /\ (queue[i].kind = "tick" => queue[i].ts <= now)
  <2>1. EventSeen(price, queue[i]) /\ queue[i].ts \in Nat /\ queue[i] \in Events
    BY <1>3 DEF FeedInv, QueueInv
  <2>2. EventSeen(price', queue[i])
    <3>1. price'[Len(price')].at \in Int
      BY <1>1, <1>2
    <3> QED BY <1>1, <1>2, <2>1, <3>1, SeenLater
  <2>3. queue[i].kind = "tick" => queue[i].ts <= now
    BY <1>1, <2>2 DEF EventSeen, Due
  <2> QED BY <2>2, <2>3
<1>7. EventSeen(price', e)
  BY <1>1, <1>2, <1>4 DEF EventSeen, Due
<1>8. \A i \in 1 .. Len(queue') : EventSeen(price', queue'[i])
  BY <1>5, <1>6, <1>7
<1>9. ASSUME NEW i \in 1 .. Len(queue'), NEW j \in 1 .. Len(queue'),
             i < j, queue'[i].kind = "tick", queue'[j].kind = "tick"
      PROVE  queue'[i].ts <= queue'[j].ts
  <2>1. i \in 1 .. Len(queue) /\ queue'[i] = queue[i]
    <3> SUFFICES ASSUME i = Len(queue) + 1 PROVE FALSE
      BY <1>5
    <3> QED BY <1>3, <1>5, <1>9
  <2>2. CASE j \in 1 .. Len(queue) /\ queue'[j] = queue[j]
    BY <1>9, <2>1, <2>2 DEF FeedInv, QueueInv
  <2>3. CASE queue'[j] = e
    BY <1>4, <1>6, <1>9, <2>1, <2>3
  <2> QED BY <1>5, <2>2, <2>3
<1>10. ASSUME bar # NoBar
       PROVE  /\ bar.start <= now
              /\ \A i \in 1 .. Len(queue') : queue'[i].kind = "tick" => bar.start <= queue'[i].ts
  BY <1>4, <1>5, <1>10 DEF FeedInv, QueueInv
<1>11. QueueInv'
  BY <1>0, <1>8, <1>9, <1>10 DEF QueueInv
<1>12. BarInv' /\ DecisionFresh'
  BY <1>0 DEF FeedInv, BarInv, DecisionFresh
<1> QED BY <1>11, <1>12

(* A tick is dispatched: it goes into the open bar of its bucket, or       *)
(* completes that bar, which the window then reaches beyond.               *)
LEMMA TickKeepsFeed ==
    ASSUME FeedInv, OnTick
    PROVE  QueueInv' /\ BarInv' /\ DecisionFresh'
<1> DEFINE e == Head(queue)
           q == Tail(queue)
           done == Completes(bar, e.ts)
           old == IF done \/ bar = NoBar THEN NewBar(e.ts, e.price) ELSE bar
           full == [kind |-> "bar", ts |-> bar.start, price |-> bar.close]
<1>0. /\ bar' = Update(old, e.price)
      /\ heard' = IF done THEN <<e>> ELSE Append(heard, e)
      /\ closed' = IF done THEN [bar |-> bar, ticks |-> heard, before |-> closed.bar.start] ELSE closed
      /\ queue' = IF done THEN Publish(q, full) ELSE q
      /\ UNCHANGED <<now, link, backoff, price, rate, decided>>
      /\ queue # <<>> /\ e.kind = "tick"
  BY DEF OnTick
<1>1. /\ queue \in Seq(Events) /\ Len(queue) \in Nat /\ Len(queue) <= QueueBound
      /\ \A i \in 1 .. Len(queue) : queue[i] \in Events /\ queue[i].ts \in Nat
  BY EventTypes DEF FeedInv
<1>2. /\ e \in Events /\ q \in Seq(Events) /\ e = queue[1] /\ Len(queue) >= 1
      /\ Len(q) = Len(queue) - 1
      /\ \A i \in 1 .. Len(q) : i + 1 \in 1 .. Len(queue) /\ q[i] = queue[i + 1]
  BY <1>0, <1>1, TailKeeps
<1>3. e \in TickEvents /\ e.ts \in Nat
  BY <1>0, <1>2, EventTypes DEF FeedInv
<1> HIDE DEF e, q
<1>4. EventSeen(price, e) /\ e.ts <= now
  <2>1. 1 \in 1 .. Len(queue)
    BY <1>1, <1>2
  <2>2. EventSeen(price, e)
    BY <1>2, <2>1 DEF FeedInv, QueueInv
  <2>3. now \in Nat /\ (Len(price) >= 1 => price[Len(price)].at \in Int /\ price[Len(price)].at <= now)
    BY SeenIsPast DEF FeedInv
  <2> QED BY <1>0, <1>3, <2>2, <2>3 DEF EventSeen, Due
<1>5. \A i \in 1 .. Len(q) : q[i].kind = "tick" => e.ts <= q[i].ts
  <2> SUFFICES ASSUME NEW i \in 1 .. Len(q), q[i].kind = "tick" PROVE e.ts <= q[i].ts
    OBVIOUS
  <2>1. 1 \in 1 .. Len(queue) /\ i + 1 \in 1 .. Len(queue) /\ 1 < i + 1 /\ q[i] = queue[i + 1]
    BY <1>1, <1>2
  <2> QED BY <1>0, <1>2, <2>1 DEF FeedInv, QueueInv
<1>6. \A i, j \in 1 .. Len(q) : i < j /\ q[i].kind = "tick" /\ q[j].kind = "tick" => q[i].ts <= q[j].ts
  <2> SUFFICES ASSUME NEW i \in 1 .. Len(q), NEW j \in 1 .. Len(q), i < j,
                      q[i].kind = "tick", q[j].kind = "tick"
               PROVE  q[i].ts <= q[j].ts
    OBVIOUS
  <2>1. /\ i + 1 \in 1 .. Len(queue) /\ j + 1 \in 1 .. Len(queue) /\ i + 1 < j + 1
        /\ q[i] = queue[i + 1] /\ q[j] = queue[j + 1]
    BY <1>2
  <2> QED BY <2>1 DEF FeedInv, QueueInv
<1>7. \A i \in 1 .. Len(q) : EventSeen(price, q[i]) /\ q[i].ts \in Nat
  BY <1>1, <1>2 DEF FeedInv, QueueInv
<1>8. /\ bar \in Bars \cup {NoBar} /\ heard \in Seq(TickEvents)
      /\ closed \in [bar : Bars \cup {NoBar}, ticks : Seq(TickEvents), before : -1 .. MaxNow]
      /\ closed.bar.start \in Int
  <2>1. closed \in [bar : Bars \cup {NoBar}, ticks : Seq(TickEvents), before : -1 .. MaxNow]
    BY DEF FeedInv, TypeOK
  <2>2. closed.bar.start \in Int
    BY <2>1, FeedAssumption DEF Bars, NoBar
  <2> QED BY <2>1, <2>2 DEF FeedInv, TypeOK
<1>9. CASE bar = NoBar
  <2>1. ~done /\ heard = <<>> /\ closed.bar = NoBar
    BY <1>9 DEF Completes, NoBar, FeedInv, BarInv
  <2>2. /\ bar' = Update(NewBar(e.ts, e.price), e.price) /\ heard' = <<e>>
        /\ closed' = closed /\ queue' = q
    BY <1>0, <1>9, <2>1
  <2>3. /\ BarOf(bar', <<e>>) /\ bar' # NoBar
        /\ bar'.start = BucketStart(e.ts) /\ bar'.start >= 0 /\ bar'.start <= e.ts /\ bar'.start \in Nat
    BY <1>3, <2>2, BarOpens, InBucket
  <2>4. closed.bar.start < bar'.start
    BY <2>1, <2>3 DEF NoBar
  <2>5. BarInv'
    <3>1. <<e>>[1] = e
      OBVIOUS
    <3> QED BY <2>2, <2>3, <2>4, <3>1 DEF BarInv, FeedInv
  <2>6. bar'.start <= now' /\ \A i \in 1 .. Len(q) : q[i].kind = "tick" => bar'.start <= q[i].ts
    <3>1. now' = now /\ now \in Nat
      BY <1>0, SeenIsPast DEF FeedInv
    <3> QED BY <1>3, <1>4, <1>5, <1>7, <2>3, <3>1
  <2>7. QueueInv'
    BY <1>0, <1>6, <1>7, <2>2, <2>6 DEF QueueInv, FeedInv
  <2> QED BY <1>0, <2>5, <2>7 DEF FeedInv, DecisionFresh
<1>10. CASE bar # NoBar /\ ~done
  <2>1. bar \in Bars /\ bar.start \in Nat /\ bar.start = BucketStart(e.ts)
    BY <1>8, <1>10 DEF Completes, Bars
  <2>2. /\ BarOf(bar, heard) /\ bar.start = BucketStart(heard[1].ts) /\ closed.bar.start < bar.start
        /\ bar.start <= now
        /\ \A i \in 1 .. Len(queue) : queue[i].kind = "tick" => bar.start <= queue[i].ts
    BY <1>10 DEF FeedInv, BarInv, QueueInv
  <2>3. bar' = Update(bar, e.price) /\ heard' = Append(heard, e) /\ closed' = closed /\ queue' = q
    BY <1>0, <1>10
  <2>4. /\ BarOf(bar', heard') /\ bar' \in Bars /\ bar'.start = bar.start /\ heard'[1] = heard[1]
    BY <1>3, <1>8, <2>1, <2>2, <2>3, BarGrows
  <2>5. bar' # NoBar
    BY <2>1, <2>4 DEF NoBar
  <2>6. BarInv'
    BY <2>2, <2>3, <2>4, <2>5 DEF BarInv, FeedInv
  <2>7. \A i \in 1 .. Len(q) : q[i].kind = "tick" => bar'.start <= q[i].ts
    BY <1>2, <2>2, <2>4
  <2>8. QueueInv'
    BY <1>0, <1>6, <1>7, <2>2, <2>3, <2>4, <2>7 DEF QueueInv, FeedInv
  <2> QED BY <1>0, <2>6, <2>8 DEF FeedInv, DecisionFresh
<1>11. CASE bar # NoBar /\ done
  <2>1. bar \in Bars /\ bar.start \in Nat /\ bar.start # BucketStart(e.ts)
    BY <1>8, <1>11 DEF Completes, Bars
  <2>2. /\ BarOf(bar, heard) /\ bar.start = BucketStart(heard[1].ts) /\ closed.bar.start < bar.start
        /\ bar.start <= e.ts
    <3>1. 1 \in 1 .. Len(queue)
      BY <1>1, <1>2
    <3>2. queue[1] = e /\ e.kind = "tick"
      BY <1>0, <1>2
    <3> QED BY <1>11, <3>1, <3>2 DEF FeedInv, BarInv, QueueInv
  <2>3. heard[1].ts \in Nat /\ heard # <<>>
    <3>1. heard # <<>> /\ 1 \in 1 .. Len(heard)
      BY <1>8, <2>2, EmptySeq DEF BarOf
    <3>2. heard[1] \in TickEvents
      BY <1>8, <3>1, ElementOfSeq
    <3> QED BY <3>1, <3>2, FeedAssumption DEF TickEvents
  <2>4. bar.start + Timeframe <= BucketStart(e.ts)
    <3> DEFINE a == heard[1].ts
               b == e.ts
    <3>1. a \in Nat /\ b \in Nat /\ BucketStart(a) <= b /\ BucketStart(a) # BucketStart(b)
      BY <1>3, <2>1, <2>2, <2>3
    <3> HIDE DEF a, b
    <3>2. BucketStart(a) + Timeframe <= BucketStart(b)
      BY <3>1, LaterBucket
    <3> QED BY <2>2, <3>2 DEF a, b
  <2>5. /\ bar' = Update(NewBar(e.ts, e.price), e.price) /\ heard' = <<e>>
        /\ closed' = [bar |-> bar, ticks |-> heard, before |-> closed.bar.start]
        /\ queue' = Publish(q, full)
    BY <1>0, <1>11
  <2>6. /\ BarOf(bar', <<e>>) /\ bar' # NoBar
        /\ bar'.start = BucketStart(e.ts) /\ bar'.start <= e.ts /\ bar'.start \in Nat
    BY <1>3, <2>5, BarOpens, InBucket
  <2>7. closed'.bar = bar /\ closed'.ticks = heard /\ closed'.before = closed.bar.start
    BY <2>5
  <2>8. BarInv'
    <3>1. <<e>>[1] = e /\ Timeframe \in Nat \ {0}
      BY FeedAssumption
    <3>2. bar.start < bar'.start
      BY <2>1, <2>4, <2>6, <3>1
    <3>3. /\ bar' # NoBar /\ BarOf(bar', heard') /\ bar'.start = BucketStart(heard'[1].ts)
          /\ closed'.bar.start < bar'.start
          /\ closed'.before < closed'.bar.start /\ BarOf(closed'.bar, closed'.ticks)
      BY <2>2, <2>5, <2>6, <2>7, <3>1, <3>2
    <3> QED BY <3>3 DEF BarInv
  <2>9. full \in Events /\ full.kind = "bar" /\ EventSeen(price, full)
    <3>1. full \in Events /\ full.kind = "bar" /\ full.ts = bar.start
      BY <2>1 DEF Events, BarEvents, Bars
    <3>2. Len(price) >= 1 /\ e.ts <= price[Len(price)].at /\ price[Len(price)].at \in Int
      BY <1>0, <1>4, SeenIsPast DEF EventSeen, Due, FeedInv
    <3>3. bar.start + Timeframe <= price[Len(price)].at
      <4> DEFINE w == bar.start
                 x == BucketStart(e.ts)
                 y == e.ts
                 z == price[Len(price)].at
      <4>1. w \in Nat /\ Timeframe \in Nat
        BY <2>1, FeedTypes DEF Bars
      <4>2. x \in Nat /\ y \in Nat /\ x <= y
        BY <1>3, InBucket
      <4>3. w + Timeframe <= x /\ y <= z /\ z \in Int
        BY <2>4, <3>2
      <4> HIDE DEF w, x, y, z
      <4>4. w + Timeframe <= z
        BY <4>1, <4>2, <4>3
      <4> QED BY <4>4 DEF w, z
    <3> HIDE DEF full
    <3> QED BY <3>1, <3>2, <3>3 DEF EventSeen, Due
  <2> HIDE DEF full
  <2>10. \A i \in 1 .. Len(queue') : \/ i \in 1 .. Len(q) /\ queue'[i] = q[i]
                                     \/ i = Len(q) + 1 /\ queue'[i] = full
    <3>1. Len(q) <= QueueBound
      BY <1>1, <1>2, FeedAssumption
    <3> QED BY <1>2, <2>5, <2>9, <3>1, PublishKeeps
  <2>11. \A i \in 1 .. Len(queue') : EventSeen(price, queue'[i])
    BY <1>7, <2>9, <2>10
  <2>12. \A i, j \in 1 .. Len(queue') :
             i < j /\ queue'[i].kind = "tick" /\ queue'[j].kind = "tick" => queue'[i].ts <= queue'[j].ts
    BY <1>6, <2>9, <2>10
  <2>13. bar'.start <= now' /\ \A i \in 1 .. Len(queue') : queue'[i].kind = "tick" => bar'.start <= queue'[i].ts
    <3>1. now' = now /\ now \in Nat
      BY <1>0, SeenIsPast DEF FeedInv
    <3>2. bar'.start <= now'
      BY <1>3, <1>4, <2>6, <3>1
    <3>3. ASSUME NEW i \in 1 .. Len(queue'), queue'[i].kind = "tick" PROVE bar'.start <= queue'[i].ts
      <4>1. i \in 1 .. Len(q) /\ queue'[i] = q[i]
        BY <2>9, <2>10, <3>3
      <4>2. e.ts <= q[i].ts /\ q[i].ts \in Nat
        BY <1>5, <1>7, <3>3, <4>1
      <4> QED BY <1>3, <2>6, <4>1, <4>2
    <3> QED BY <3>2, <3>3
  <2>14. link' = "backfill" => queue' = <<>>
    BY <1>0 DEF FeedInv, QueueInv
  <2>15. QueueInv'
    BY <1>0, <2>11, <2>12, <2>13, <2>14 DEF QueueInv
  <2> QED BY <1>0, <2>8, <2>15 DEF FeedInv, DecisionFresh
<1> QED BY <1>9, <1>10, <1>11

(* A bar is dispatched: whatever is decided, the window reaches its end.   *)
LEMMA BarKeepsFeed ==
    ASSUME FeedInv, OnBar
    PROVE  QueueInv' /\ BarInv' /\ DecisionFresh'
<1> DEFINE side == EvaluateEntry(PriceChange, FundingTrend)
           e == Head(queue)
           q == Tail(queue)
<1>0. /\ queue # <<>> /\ e.kind = "bar" /\ queue' = q
      /\ decided' = IF side = "none" THEN [side |-> "none"]
                    ELSE [side |-> side, bar |-> e.ts, to |-> price[Len(price)].at]
      /\ UNCHANGED <<now, link, price, rate, bar, heard, closed>>
  BY DEF OnBar
<1> HIDE DEF side
<1>1. queue \in Seq(Events) /\ Len(queue) \in Nat
  BY EventTypes DEF FeedInv
<1>2. /\ e \in Events /\ q \in Seq(Events) /\ e = queue[1] /\ Len(queue) >= 1
      /\ Len(q) = Len(queue) - 1
      /\ \A i \in 1 .. Len(q) : i + 1 \in 1 .. Len(queue) /\ q[i] = queue[i + 1]
  BY <1>0, <1>1, TailKeeps
<1> HIDE DEF e, q
<1>3. DecisionFresh'
  <2>1. EventSeen(price, e)
    <3>1. 1 \in 1 .. Len(queue)
      BY <1>1, <1>2
    <3> QED BY <1>2, <3>1 DEF FeedInv, QueueInv
  <2>2. e.ts + Timeframe <= price[Len(price)].at
    BY <1>0, <2>1 DEF EventSeen, Due
  <2>3. CASE side = "none"
    BY <1>0, <2>3 DEF DecisionFresh
  <2>4. CASE side # "none"
    <3>1. decided'.to = price[Len(price)].at /\ decided'.bar = e.ts
      BY <1>0, <2>4
    <3>2. Len(price) >= 1 /\ price[Len(price)].at \in Int /\ e.ts \in Nat /\ Timeframe \in Nat
      BY <1>2, <2>1, SeenIsPast, EventTypes, FeedAssumption DEF EventSeen, FeedInv
    <3>3. decided'.to >= decided'.bar + Timeframe
      BY <2>2, <3>1, <3>2
    <3> QED BY <3>3 DEF DecisionFresh
  <2> QED BY <2>3, <2>4
<1>4. QueueInv'
  <2>1. \A i \in 1 .. Len(q) : EventSeen(price, q[i])
    BY <1>2 DEF FeedInv, QueueInv
  <2>2. \A i, j \in 1 .. Len(q) : i < j /\ q[i].kind = "tick" /\ q[j].kind = "tick" => q[i].ts <= q[j].ts
    <3> SUFFICES ASSUME NEW i \in 1 .. Len(q), NEW j \in 1 .. Len(q), i < j,
                        q[i].kind = "tick", q[j].kind = "tick"
                 PROVE  q[i].ts <= q[j].ts
      OBVIOUS
    <3>1. /\ i + 1 \in 1 .. Len(queue) /\ j + 1 \in 1 .. Len(queue) /\ i + 1 < j + 1
          /\ q[i] = queue[i + 1] /\ q[j] = queue[j + 1]
      BY <1>2
    <3> QED BY <3>1 DEF FeedInv, QueueInv
  <2>3. bar # NoBar => \A i \in 1 .. Len(q) : q[i].kind = "tick" => bar.start <= q[i].ts
    BY <1>2 DEF FeedInv, QueueInv
  <2>4. link # "backfill"
    BY <1>0 DEF FeedInv, QueueInv
  <2> QED BY <1>0, <2>1, <2>2, <2>3, <2>4 DEF QueueInv, FeedInv
<1>5. BarInv'
  BY <1>0 DEF BarInv, FeedInv
<1> QED BY <1>3, <1>4, <1>5

(* Types, windows, bus and bars together hold in every reachable state.    *)
LEMMA FeedInvariant == Spec => [](QueueInv /\ BarInv /\ DecisionFresh)
<1> DEFINE Rest == QueueInv /\ BarInv /\ DecisionFresh
<1>1. Init => Rest
  <2> SUFFICES ASSUME Init PROVE Rest
    OBVIOUS
  <2>1. /\ queue = <<>> /\ Len(<<>>) = 0 /\ bar = NoBar /\ heard = <<>> /\ decided.side = "none"
        /\ closed.bar = NoBar /\ closed.ticks = <<>>
    BY DEF Init
  <2> QED BY <2>1 DEF QueueInv, BarInv, DecisionFresh
<1>2. TypeOK /\ WindowInv /\ WindowInv' /\ Rest /\ [Next]_vars => Rest'
  <2> SUFFICES ASSUME FeedInv, WindowInv', [Next]_vars PROVE Rest'
    BY DEF FeedInv
  <2>1. ASSUME NEW ps \in Rows(Prices, PriceWindow), NEW rs \in Rows(Rates, FundingWindow),
               Backfill(ps, rs)
        PROVE  Rest'
    <3>1. UNCHANGED <<now, queue, bar, heard, closed, decided>> /\ queue = <<>> /\ Len(<<>>) = 0
      BY <2>1 DEF Backfill, FeedInv, QueueInv
    <3> QED BY <3>1 DEF FeedInv, QueueInv, BarInv, DecisionFresh
  <2>2. ASSUME NEW p \in Prices, NEW r \in Rates, HandleMessage(p, r) PROVE Rest'
    BY <2>2, MessageKeepsFeed
  <2>3. CASE OnTick
    BY <2>3, TickKeepsFeed
  <2>4. CASE OnBar
    BY <2>4, BarKeepsFeed
  <2>5. CASE Clock
    <3>1. UNCHANGED <<link, price, queue, bar, heard, closed, decided>> /\ now' = now + 1
      BY <2>5 DEF Clock
    <3>2. bar # NoBar => bar.start <= now'
      <4> SUFFICES ASSUME bar # NoBar PROVE bar.start <= now'
        OBVIOUS
      <4>1. bar.start <= now /\ bar \in Bars
        BY DEF FeedInv, QueueInv, TypeOK
      <4>2. bar.start \in Int /\ now \in Int
        BY <4>1, SeenIsPast, FeedAssumption DEF Bars, FeedInv
      <4> QED BY <3>1, <4>1, <4>2
    <3> QED BY <3>1, <3>2 DEF FeedInv, QueueInv, BarInv, DecisionFresh
  <2>6. CASE BackfillFails \/ Connect \/ StreamFails \/ WakeUp \/ UNCHANGED vars
    <3>1. /\ UNCHANGED <<now, price, queue, bar, heard, closed, decided>>
          /\ link' = "backfill" => link = "backfill"
      BY <2>6 DEF BackfillFails, Connect, StreamFails, WakeUp, vars
    <3> QED BY <3>1 DEF FeedInv, QueueInv, BarInv, DecisionFresh
  <2> QED BY <2>1, <2>2, <2>3, <2>4, <2>5, <2>6 DEF Next
<1> HIDE DEF Rest
<1>3. Spec => []Rest
  BY <1>1, <1>2, TypeCorrect, WindowInvariant, PTL DEF Spec
<1> QED BY <1>3 DEF Rest

(* An entry is decided on prices that reach beyond the end of its bar,     *)
(* however long the bar waited and whatever the bus dropped.               *)
THEOREM DecisionsAreFresh == Spec => []DecisionFresh
BY FeedInvariant, PTL

(* Completed bars come in order, and each has the open, high, low and      *)
(* close of exactly the ticks dispatched within its bucket.                *)
THEOREM BarsAreTrue == Spec => []BarsTrue
<1>1. TypeOK /\ BarInv => BarsTrue
  <2> SUFFICES ASSUME TypeOK, BarInv, closed.ticks # <<>>
               PROVE  LET b == closed.bar
                          ps == {closed.ticks[i].price : i \in DOMAIN closed.ticks}
                      IN  /\ closed.before < b.start
                          /\ \A i \in DOMAIN closed.ticks :
                                 closed.ticks[i].ts \in b.start .. b.start + Timeframe - 1
                          /\ b.open = closed.ticks[1].price /\ b.close = closed.ticks[Len(closed.ticks)].price
                          /\ b.high \in ps /\ b.low \in ps
                          /\ \A p \in ps : b.low <= p /\ p <= b.high
    BY DEF BarsTrue
  <2>1. closed.before < closed.bar.start /\ BarOf(closed.bar, closed.ticks)
    BY DEF BarInv
  <2>2. DOMAIN closed.ticks = 1 .. Len(closed.ticks)
    <3>1. closed.ticks \in Seq(TickEvents)
      BY DEF TypeOK
    <3> QED BY <3>1, LenProperties
  <2> QED BY <2>1, <2>2 DEF BarOf
<1> QED BY <1>1, TypeCorrect, FeedInvariant, PTL

=============================================================================
