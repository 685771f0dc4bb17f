------------------------------- MODULE DeskProofs -------------------------------
(* The limits of security/rate_limiter.py and telegram/alerts.py and the    *)
(* confirmations of telegram/commands.py, for every set of operators, every *)
(* limit and window, and any number of commands and alerts.                 *)
EXTENDS OperatorDesk, FiniteSetTheorems, SequenceTheorems, TLAPS

-----------------------------------------------------------------------------
(* The inductive invariant                                                  *)

(* The commands of acc accepted at s or later. *)
Used(acc, s) == Cardinality({i \in DOMAIN acc : acc[i] >= s})

(* A bucket that holds `tokens` at time `at`, after the commands acc:       *)
(* since any of them it granted what it holds less and time brought more,   *)
(* and it holds what time brought since s, up to its size, but for what was *)
(* used since s.                                                            *)
BucketOK(acc, tokens, at, limit) ==
  /\ tokens \in 0..limit * Window
  /\ \A i \in 1..Len(acc) :
      /\ acc[i] <= at
      /\ (Len(acc) - i + 1) * Window + tokens <= limit * Window + (at - acc[i]) * limit
  /\ \A s \in Int : s <= at =>
      Least(limit * Window, (at - s) * limit) <= tokens + Used(acc, s) * Window

(* A bucket that is not there is as good as a full one.                     *)
BucketsOK ==
  \A k \in Keys :
    IF k \in DOMAIN buckets
    THEN /\ buckets[k].last \in 0..now
         /\ BucketOK(accepted[k], buckets[k].tokens, buckets[k].last, Limit[k[2]])
    ELSE BucketOK(accepted[k], Full(k), now, Limit[k[2]])

LimitsTyped ==
  /\ now \in Nat
  /\ accepted \in [Keys -> Seq(Nat)]
  /\ DOMAIN buckets \subseteq Keys
  /\ \A r \in refused : r.key \in Keys /\ r.at \in 0..now

LimiterInv == LimitsTyped /\ BucketsOK /\ BucketBound /\ RefusalEarned

-----------------------------------------------------------------------------
(* One bucket                                                               *)

LEMMA Product ==
  ASSUME NEW a \in Nat, NEW b \in Nat
  PROVE  a * b \in Nat
OBVIOUS

LEMMA NextProduct ==
  ASSUME NEW a \in Int, NEW b \in Int
  PROVE  (a + 1) * b = a * b + b /\ a * b \in Int
OBVIOUS

LEMMA Times ==
  ASSUME NEW acc \in Seq(Nat)
  PROVE  Len(acc) \in Nat /\ \A i \in 1..Len(acc) : acc[i] \in Nat
OBVIOUS

LEMMA OneMore ==
  ASSUME NEW acc \in Seq(Nat), NEW t \in Nat
  PROVE  /\ Append(acc, t) \in Seq(Nat)
         /\ Len(Append(acc, t)) = Len(acc) + 1
         /\ Append(acc, t)[Len(acc) + 1] = t
         /\ \A i \in 1..Len(acc) : Append(acc, t)[i] = acc[i]
OBVIOUS

LEMMA UsedIsCount ==
  ASSUME NEW acc \in Seq(Nat), NEW s
  PROVE  /\ IsFiniteSet({i \in DOMAIN acc : acc[i] >= s})
         /\ Used(acc, s) \in Nat
<1>1. IsFiniteSet(1..Len(acc)) /\ DOMAIN acc = 1..Len(acc)
  BY FS_Interval
<1>2. IsFiniteSet({i \in DOMAIN acc : acc[i] >= s})
  BY <1>1, FS_Subset
<1> QED
  BY <1>2, FS_CardinalityType DEF Used

(* One more command, now, is one more for every s.                          *)
LEMMA UsedOneMore ==
  ASSUME NEW acc \in Seq(Nat), NEW t \in Nat, NEW s \in Int, s <= t
  PROVE  Used(Append(acc, t), s) = Used(acc, s) + 1
<1> DEFINE new == Append(acc, t)
           old == {i \in DOMAIN acc : acc[i] >= s}
<1>1. /\ DOMAIN new = 1..Len(acc) + 1 /\ DOMAIN acc = 1..Len(acc)
      /\ new[Len(acc) + 1] = t /\ \A i \in 1..Len(acc) : new[i] = acc[i]
  OBVIOUS
<1>2. {i \in DOMAIN new : new[i] >= s} = old \union {Len(acc) + 1}
  <2>1. DOMAIN new = DOMAIN acc \union {Len(acc) + 1}
    BY <1>1
  <2> HIDE DEF new
  <2> QED
    BY <1>1, <2>1
<1>3. IsFiniteSet(old) /\ Len(acc) + 1 \notin old
  <2>1. IsFiniteSet(old)
    BY UsedIsCount
  <2>2. Len(acc) + 1 \notin DOMAIN acc
    BY <1>1
  <2> QED
    BY <2>1, <2>2
<1>4. Cardinality(old \union {Len(acc) + 1}) = Cardinality(old) + 1
  BY <1>3, FS_AddElement
<1> QED
  BY <1>2, <1>4 DEF Used

(* What is no older than the window and not later than now is in it.        *)
LEMMA InWindow ==
  ASSUME NEW t \in Nat, NEW w \in Nat, NEW a \in Nat, NEW b \in Nat,
         ~(t - a > w), a <= b, b <= t
  PROVE  b \in (t - w) .. t
OBVIOUS

LEMMA AfterAll == \A k \in Nat : k + 1 \notin 1..k
OBVIOUS

(* Three moments of a bucket that gains `limit` per unit of time. *)
LEMMA TimeAdds ==
  ASSUME NEW a \in Int, NEW b \in Int, NEW c \in Int, NEW limit \in Nat
  PROVE  /\ (b - a) * limit + (c - b) * limit = (c - a) * limit
         /\ (b - a) * limit \in Int /\ (c - a) * limit \in Int
OBVIOUS

(* Comparisons of a bucket before and after a refill; u is what was spent.  *)
LEMMA RefillBounds ==
  ASSUME NEW full \in Nat, NEW brought \in Nat, NEW tokens \in 0..full
  PROVE  LET refilled == Least(full, tokens + brought)
         IN  /\ refilled \in 0..full
             /\ \A u, was, is \in Int :
                  u + tokens <= full + was /\ was + brought = is => u + refilled <= full + is
             /\ \A u \in Nat, was, is \in Int :
                  Least(full, was) <= tokens + u /\ was + brought = is
                    => Least(full, is) <= refilled + u
             /\ \A u \in Nat, is \in Int :
                  is <= brought => Least(full, is) <= refilled + u
BY DEF Least

(* TokenBucket.refill, from at to t. *)
LEMMA RefillOK ==
  ASSUME DeskAssumption, NEW acc \in Seq(Nat), NEW limit \in Nat,
         NEW tokens, NEW at \in Nat, NEW t \in Nat, at <= t,
         BucketOK(acc, tokens, at, limit)
  PROVE  BucketOK(acc, Least(limit * Window, tokens + (t - at) * limit), t, limit)
<1> DEFINE full == limit * Window
           brought == (t - at) * limit
           refilled == Least(full, tokens + brought)
<1>1. Window \in Nat /\ full \in Nat /\ brought \in Nat /\ tokens \in 0..full
  <2>1. Window \in Nat /\ t - at \in Nat
    BY DEF DeskAssumption
  <2> QED
    BY <2>1, Product DEF BucketOK
<1>2. /\ refilled \in 0..full
      /\ \A u, was, is \in Int :
           u + tokens <= full + was /\ was + brought = is => u + refilled <= full + is
      /\ \A u \in Nat, was, is \in Int :
           Least(full, was) <= tokens + u /\ was + brought = is => Least(full, is) <= refilled + u
      /\ \A u \in Nat, is \in Int : is <= brought => Least(full, is) <= refilled + u
  <2> HIDE DEF full, brought
  <2> QED
    BY <1>1, RefillBounds
<1>3. ASSUME NEW i \in 1..Len(acc)
      PROVE  /\ acc[i] <= t
             /\ (Len(acc) - i + 1) * Window + refilled <= full + (t - acc[i]) * limit
  <2> DEFINE a == acc[i]
             spent == (Len(acc) - i + 1) * Window
             was == (at - a) * limit
             is == (t - a) * limit
  <2>1. a \in Nat
    BY Times
  <2>2. a <= at /\ spent + tokens <= full + was
    BY Zenon DEF BucketOK
  <2>3. was + brought = is /\ was \in Int /\ is \in Int
    <3> HIDE DEF a
    <3> QED
      BY <2>1, TimeAdds
  <2>4. spent \in Int
    <3>1. Len(acc) - i + 1 \in Nat
      OBVIOUS
    <3> QED
      BY <1>1, <3>1, Product
  <2>5. spent + refilled <= full + is
    <3> HIDE DEF full, brought, refilled, spent, was, is
    <3> QED
      BY <1>2, <2>2, <2>3, <2>4
  <2>6. a <= t
    <3> HIDE DEF a, spent, was
    <3> QED
      BY <2>1, <2>2
  <2> QED
    BY <2>5, <2>6
<1>4. ASSUME NEW s \in Int, s <= t
      PROVE  Least(full, (t - s) * limit) <= refilled + Used(acc, s) * Window
  <2> DEFINE u == Used(acc, s) * Window
             was == (at - s) * limit
             is == (t - s) * limit
  <2>1. u \in Nat
    BY <1>1, UsedIsCount, Product
  <2>2. was + brought = is /\ was \in Int /\ is \in Int
    BY TimeAdds
  <2>3. CASE s <= at
    <3>1. Least(full, was) <= tokens + u
      BY <2>3 DEF BucketOK
    <3>2. Least(full, is) <= refilled + u
      <4> HIDE DEF full, brought, refilled, u, was, is
      <4> QED
        BY <1>2, <2>1, <2>2, <3>1
    <3> QED
      BY <3>2
  <2>4. CASE at < s
    <3> DEFINE gap == (s - at) * limit
    <3>1. gap \in Nat
      BY <2>4, Product
    <3>2. is <= brought
      <4>1. gap + is = brought
        BY TimeAdds
      <4> HIDE DEF is, brought, gap
      <4> QED
        BY <1>1, <2>2, <3>1, <4>1
    <3>3. Least(full, is) <= refilled + u
      <4> HIDE DEF full, brought, refilled, u, is
      <4> QED
        BY <1>2, <2>1, <2>2, <3>2
    <3> QED
      BY <3>3
  <2> QED
    BY <2>3, <2>4
<1> QED
  BY <1>2, <1>3, <1>4 DEF BucketOK

(* A bucket that waits for a window, or is not there, may be made anew.     *)
LEMMA FullOK ==
  ASSUME DeskAssumption, NEW acc \in Seq(Nat), NEW limit \in Nat,
         NEW tokens, NEW at \in Nat, NEW t \in Nat, at <= t,
         BucketOK(acc, tokens, at, limit),
         tokens = limit * Window \/ t - at >= Window
  PROVE  BucketOK(acc, limit * Window, t, limit)
<1> DEFINE full == limit * Window
           brought == (t - at) * limit
<1>1. Window \in Nat /\ full \in Nat /\ brought \in Nat /\ tokens \in 0..full
  <2>1. Window \in Nat /\ t - at \in Nat
    BY DEF DeskAssumption
  <2> QED
    BY <2>1, Product DEF BucketOK
<1>2. tokens + brought >= full
  <2>1. CASE tokens = full
    <3> HIDE DEF full, brought
    <3> QED
      BY <1>1, <2>1
  <2>2. CASE t - at >= Window
    <3> DEFINE more == (t - at - Window) * limit
    <3>1. more \in Nat
      <4>1. t - at - Window \in Nat
        BY <1>1, <2>2
      <4> QED
        BY <4>1, Product
    <3>2. brought = more + full
      BY <1>1
    <3> HIDE DEF full, brought, more
    <3> QED
      BY <1>1, <3>1, <3>2
  <2> QED
    BY <2>1, <2>2
<1>3. Least(full, tokens + brought) = full
  <2> HIDE DEF full, brought
  <2> QED
    BY <1>1, <1>2 DEF Least
<1> QED
  BY <1>3, RefillOK, SMTT(30)

(* try_consume with a token there. *)
LEMMA ConsumeOK ==
  ASSUME DeskAssumption, NEW acc \in Seq(Nat), NEW limit \in Nat,
         NEW tokens, NEW t \in Nat, tokens >= Window,
         BucketOK(acc, tokens, t, limit)
  PROVE  BucketOK(Append(acc, t), tokens - Window, t, limit)
<1> DEFINE full == limit * Window
           new == Append(acc, t)
<1>1. Window \in Nat /\ full \in Nat /\ tokens \in 0..full
  <2>1. Window \in Nat
    BY DEF DeskAssumption
  <2> QED
    BY <2>1, Product DEF BucketOK
<1>2. tokens - Window \in 0..full
  <2> HIDE DEF full
  <2> QED
    BY <1>1
<1>3. /\ Len(new) = Len(acc) + 1 /\ new[Len(acc) + 1] = t /\ Len(acc) \in Nat
      /\ \A i \in 1..Len(acc) : new[i] = acc[i] /\ acc[i] \in Nat
  BY OneMore, Times
<1>4. ASSUME NEW i \in 1..Len(new)
      PROVE  /\ new[i] <= t
             /\ (Len(new) - i + 1) * Window + (tokens - Window) <= full + (t - new[i]) * limit
  <2>1. CASE i = Len(acc) + 1
    <3>1. new[i] = t /\ Len(new) - i + 1 = 1
      BY <1>3, <2>1
    <3>2. 1 * Window + (tokens - Window) = tokens /\ (t - t) * limit = 0
      BY <1>1
    <3>3. full + 0 = full /\ tokens <= full /\ t <= t
      <4> HIDE DEF full
      <4> QED
        BY <1>1
    <3> QED
      BY <3>1, <3>2, <3>3
  <2>2. CASE i \in 1..Len(acc)
    <3> DEFINE a == acc[i]
               was == (Len(acc) - i + 1) * Window
               is == (Len(new) - i + 1) * Window
               gain == (t - a) * limit
    <3>1. a <= t /\ was + tokens <= full + gain
      BY <2>2, Zenon DEF BucketOK
    <3>2. is = was + Window
      <4>1. Len(acc) - i + 1 \in Int /\ Len(new) - i + 1 = (Len(acc) - i + 1) + 1
        <5> HIDE DEF new
        <5> QED
          BY <1>3, <2>2
      <4> QED
        BY <1>1, <4>1, NextProduct
    <3>3. was \in Int /\ gain \in Int
      <4>1. a \in Nat
        BY <2>2, Times
      <4>2. Len(acc) - i + 1 \in Int
        BY <2>2, Times
      <4> HIDE DEF a
      <4> QED
        BY <1>1, <4>1, <4>2
    <3>4. is + (tokens - Window) <= full + gain
      <4> HIDE DEF full, was, is, gain
      <4> QED
        BY <1>1, <3>1, <3>2, <3>3
    <3>5. new[i] = a
      BY <1>3, <2>2
    <3> QED
      BY <3>1, <3>4, <3>5
  <2>3. i = Len(acc) + 1 \/ i \in 1..Len(acc)
    BY <1>3, SMTT(30)
  <2> QED
    BY <2>1, <2>2, <2>3
<1>5. ASSUME NEW s \in Int, s <= t
      PROVE  Least(full, (t - s) * limit) <= (tokens - Window) + Used(new, s) * Window
  <2> DEFINE n == Used(acc, s)
             least == Least(full, (t - s) * limit)
             gain == (t - s) * limit
             u == n * Window
  <2>1. n \in Nat /\ Used(new, s) = n + 1
    BY <1>5, UsedIsCount, UsedOneMore
  <2>2. least <= tokens + u
    BY <1>5, Zenon DEF BucketOK
  <2>3. (n + 1) * Window = u + Window /\ u \in Nat
    <3> HIDE DEF n
    <3> QED
      BY <1>1, <2>1, Product, NextProduct
  <2>4. gain \in Int
    OBVIOUS
  <2>5. least \in Int
    <3> HIDE DEF full, gain
    <3> QED
      BY <1>1, <2>4 DEF Least
  <2>6. least <= (tokens - Window) + (u + Window)
    <3> HIDE DEF full, u, least
    <3> QED
      BY <1>1, <2>2, <2>3, <2>5
  <2> QED
    BY <2>1, <2>3, <2>6
<1> QED
  BY <1>2, <1>4, <1>5, Zenon DEF BucketOK

(* Who finds no token there has used the limit within the window.           *)
LEMMA EmptyIsUsed ==
  ASSUME DeskAssumption, NEW acc \in Seq(Nat), NEW limit \in Nat,
         NEW tokens, NEW t \in Nat, tokens < Window,
         BucketOK(acc, tokens, t, limit)
  PROVE  Used(acc, t - Window) >= limit
<1> DEFINE n == Used(acc, t - Window)
           full == limit * Window
<1>1. Window \in Nat \ {0} /\ n \in Nat /\ full \in Nat /\ tokens \in 0..full
  <2>1. Window \in Nat \ {0}
    BY DEF DeskAssumption
  <2> QED
    BY <2>1, UsedIsCount, Product DEF BucketOK
<1>2. Least(full, (t - (t - Window)) * limit) <= tokens + n * Window
  <2>1. t - Window \in Int /\ t - Window <= t
    BY <1>1
  <2> QED
    BY <2>1, Zenon DEF BucketOK
<1>3. (t - (t - Window)) * limit = full
  <2>1. t - (t - Window) = Window
    BY <1>1
  <2> QED
    BY <1>1, <2>1
<1>4. full < (n + 1) * Window
  <2> DEFINE u == n * Window
  <2>1. u \in Nat /\ (n + 1) * Window = u + Window
    <3> HIDE DEF n
    <3> QED
      BY <1>1, Product, NextProduct
  <2>2. full <= tokens + u
    BY <1>2, <1>3 DEF Least
  <2>3. tokens \in Nat /\ Window \in Nat /\ full \in Nat /\ tokens < Window
    BY <1>1
  <2>4. full < u + Window
    <3> HIDE DEF full, u
    <3> QED
      BY <2>1, <2>2, <2>3
  <2> QED
    BY <2>1, <2>4
<1>5. ASSUME ~(n >= limit) PROVE FALSE
  <2> HIDE DEF n
  <2> DEFINE gap == (limit - (n + 1)) * Window
             some == (n + 1) * Window
  <2>1. gap \in Nat
    <3>1. limit - (n + 1) \in Nat
      BY <1>1, <1>5
    <3> QED
      BY <1>1, <3>1, Product
  <2>2. full = some + gap
    BY <1>1
  <2>3. some \in Nat /\ full < some
    BY <1>1, <1>4, Product
  <2> HIDE DEF full, gap, some
  <2> QED
    BY <2>1, <2>2, <2>3
<1> QED
  BY <1>5

(* What was granted since command i, when the last one is of this moment.   *)
LEMMA Granted ==
  ASSUME DeskAssumption, NEW acc \in Seq(Nat), NEW limit \in Nat,
         NEW tokens, NEW t \in Nat, BucketOK(acc, tokens, t, limit),
         NEW i \in 1..Len(acc)
  PROVE  (Len(acc) - i + 1) * Window <= limit * Window + (t - acc[i]) * limit
<1> DEFINE a == acc[i]
           spent == (Len(acc) - i + 1) * Window
           full == limit * Window
           gain == (t - a) * limit
<1>1. Window \in Nat /\ full \in Nat /\ tokens \in 0..full
  <2>1. Window \in Nat
    BY DEF DeskAssumption
  <2> QED
    BY <2>1, Product DEF BucketOK
<1>2. spent + tokens <= full + gain
  BY Zenon DEF BucketOK
<1>3. spent \in Int /\ gain \in Int
  <2>1. Len(acc) - i + 1 \in Int
    BY Times, SMTT(30)
  <2>2. a \in Nat
    BY Times
  <2> HIDE DEF a
  <2> QED
    BY <1>1, <2>1, <2>2
<1>4. spent <= full + gain
  <2> HIDE DEF spent, full, gain
  <2> QED
    BY <1>1, <1>2, <1>3
<1> QED
  BY <1>4

-----------------------------------------------------------------------------
(* The rate limiter                                                         *)

LEMMA KeyLimit ==
  ASSUME DeskAssumption, NEW k \in Keys
  PROVE  Limit[k[2]] \in Nat \ {0}
<1>1. PICK u \in Users, c \in Commands : k = <<u, RateLimitAction(c)>>
  BY DEF Keys
<1>2. RateLimitAction(c) \in {"NUKE", "PAUSE", "RESUME", "STATUS", "POSITIONS"}
  BY DEF DeskAssumption, Destructive, RateLimitAction
<1> QED
  BY <1>1, <1>2 DEF DeskAssumption

(* What _cleanup_old_buckets drops had waited for a window.                 *)
LEMMA DroppedIsFull ==
  ASSUME DeskAssumption, LimitsTyped, BucketsOK, NEW k \in Keys, k \notin Kept
  PROVE  BucketOK(accepted[k], Full(k), now, Limit[k[2]])
<1>1. CASE k \in DOMAIN buckets
  <2> DEFINE at == buckets[k].last
  <2>1. now \in Nat /\ IdleFor \in Nat /\ Window \in Nat /\ IdleFor >= Window
    BY DEF DeskAssumption, LimitsTyped
  <2>2. at \in 0..now /\ BucketOK(accepted[k], buckets[k].tokens, at, Limit[k[2]])
    BY <1>1, Zenon DEF BucketsOK
  <2>3. ~(at >= now - IdleFor)
    BY <1>1, Zenon DEF Kept
  <2>4. at \in Nat /\ at <= now /\ now - at >= Window
    <3> HIDE DEF at
    <3> QED
      BY <2>1, <2>2, <2>3
  <2>5. accepted[k] \in Seq(Nat) /\ Limit[k[2]] \in Nat
    BY KeyLimit DEF LimitsTyped
  <2> HIDE DEF at
  <2>6. BucketOK(accepted[k], Limit[k[2]] * Window, now, Limit[k[2]])
    BY <2>1, <2>2, <2>4, <2>5, FullOK
  <2> QED
    BY <2>6 DEF Full
<1>2. CASE k \notin DOMAIN buckets
  BY <1>2 DEF BucketsOK
<1> QED
  BY <1>1, <1>2

(* The bucket that try_consume refills, old or new. *)
LEMMA BucketIsOK ==
  ASSUME DeskAssumption, LimitsTyped, BucketsOK, NEW k \in Keys
  PROVE  /\ Bucket(k).last = now
         /\ BucketOK(accepted[k], Bucket(k).tokens, now, Limit[k[2]])
<1>1. CASE k \in Kept
  <2> DEFINE at == buckets[k].last
             tokens == buckets[k].tokens
  <2>1. k \in DOMAIN buckets
    BY <1>1 DEF Kept
  <2>2. at \in 0..now /\ BucketOK(accepted[k], tokens, at, Limit[k[2]])
    BY <2>1, Zenon DEF BucketsOK
  <2>3. accepted[k] \in Seq(Nat) /\ Limit[k[2]] \in Nat /\ now \in Nat
    BY KeyLimit DEF LimitsTyped
  <2>4. Bucket(k) = [tokens |-> Least(Full(k), tokens + (now - at) * Limit[k[2]]), last |-> now]
    BY <1>1, Zenon DEF Bucket, refill
  <2> HIDE DEF at, tokens
  <2>5. at \in Nat /\ at <= now
    BY <2>2, <2>3
  <2>6. BucketOK(accepted[k], Least(Limit[k[2]] * Window, tokens + (now - at) * Limit[k[2]]),
                 now, Limit[k[2]])
    BY <2>2, <2>3, <2>5, RefillOK
  <2>7. /\ Bucket(k).last = now
        /\ Bucket(k).tokens = Least(Full(k), tokens + (now - at) * Limit[k[2]])
    BY <2>4
  <2> QED
    BY <2>6, <2>7 DEF Full
<1>2. CASE k \notin Kept
  <2>1. Bucket(k) = [tokens |-> Full(k), last |-> now]
    BY <1>2 DEF Bucket
  <2> QED
    BY <1>2, <2>1, DroppedIsFull
<1> QED
  BY <1>1, <1>2

(* Time alone fills what is not there. *)
LEMMA LimiterWaits ==
  ASSUME DeskAssumption, LimiterInv, now' \in Nat, now <= now',
         UNCHANGED <<buckets, accepted, refused>>
  PROVE  LimiterInv'
<1> USE DEF LimiterInv
<1>1. LimitsTyped'
  <2>1. now \in Nat
    BY DEF LimitsTyped
  <2>2. \A r \in refused' : r.key \in Keys /\ r.at \in 0..now'
    BY <2>1, SMTT(30) DEF LimitsTyped
  <2> QED
    BY <2>2 DEF LimitsTyped
<1>2. BucketsOK'
  <2> SUFFICES ASSUME NEW k \in Keys
               PROVE  IF k \in DOMAIN buckets'
                      THEN /\ buckets'[k].last \in 0..now'
                           /\ BucketOK(accepted'[k], buckets'[k].tokens, buckets'[k].last, Limit[k[2]])
                      ELSE BucketOK(accepted'[k], Full(k), now', Limit[k[2]])
    BY Zenon DEF BucketsOK, BucketOK, Full, Least, Used
  <2>1. now \in Nat
    BY DEF LimitsTyped
  <2>2. CASE k \in DOMAIN buckets
    <3> DEFINE at == buckets[k].last
    <3>1. at \in 0..now /\ BucketOK(accepted[k], buckets[k].tokens, at, Limit[k[2]])
      BY <2>2, Zenon DEF BucketsOK
    <3>2. at \in 0..now'
      <4> HIDE DEF at
      <4> QED
        BY <2>1, <3>1
    <3> QED
      BY <2>2, <3>1, <3>2
  <2>3. CASE k \notin DOMAIN buckets
    <3>1. BucketOK(accepted[k], Full(k), now, Limit[k[2]])
      BY <2>3 DEF BucketsOK
    <3>2. accepted[k] \in Seq(Nat) /\ Limit[k[2]] \in Nat
      BY KeyLimit DEF LimitsTyped
    <3>3. BucketOK(accepted[k], Limit[k[2]] * Window, now', Limit[k[2]])
      BY <2>1, <3>1, <3>2, FullOK DEF Full
    <3> QED
      BY <2>3, <3>3 DEF Full
  <2> QED
    BY <2>2, <2>3
<1>3. BucketBound' /\ RefusalEarned'
  BY Zenon DEF BucketBound, RefusalEarned, Full
<1> QED
  BY <1>1, <1>2, <1>3

(* What a check leaves of the buckets and the times of accepted commands.   *)
LEMMA CheckEffect ==
  ASSUME DeskAssumption, LimitsTyped, NEW k \in Keys, NEW allowed \in BOOLEAN,
         check_limit(k, allowed), now' = now
  PROVE  /\ DOMAIN buckets' = Kept \union {k}
         /\ \A x \in Kept : x # k => buckets'[x] = buckets[x]
         /\ \A x \in Keys : x # k => accepted'[x] = accepted[x]
         /\ allowed = (Bucket(k).tokens >= Window)
         /\ allowed => /\ buckets'[k].tokens = Bucket(k).tokens - Window
                       /\ accepted'[k] = Append(accepted[k], now) /\ refused' = refused
         /\ ~allowed => /\ buckets'[k].tokens = Bucket(k).tokens
                        /\ accepted' = accepted
                        /\ refused' = refused \union {[key |-> k, at |-> now]}
         /\ buckets'[k].last = Bucket(k).last
         /\ accepted' \in [Keys -> Seq(Nat)]
<1> DEFINE b == Bucket(k)
<1>1. DOMAIN buckets' = Kept \union {k}
  BY Zenon DEF check_limit
<1>2. \A x \in Kept : x # k => buckets'[x] = buckets[x]
  BY Zenon DEF check_limit
<1>3. buckets'[k] = [b EXCEPT !.tokens = IF allowed THEN @ - Window ELSE @]
  BY Zenon DEF check_limit
<1>4. allowed = (b.tokens >= Window)
  BY Zenon DEF check_limit
<1>5. /\ buckets'[k].last = b.last
      /\ allowed => buckets'[k].tokens = b.tokens - Window
      /\ ~allowed => buckets'[k].tokens = b.tokens
  <2>1. b = [tokens |-> b.tokens, last |-> b.last]
    BY DEF Bucket, refill
  <2> HIDE DEF b
  <2> QED
    BY <1>3, <2>1
<1>6. CASE allowed
  <2>1. accepted' = [accepted EXCEPT ![k] = Append(@, now)] /\ refused' = refused
    BY <1>6, Zenon DEF check_limit
  <2>2. accepted'[k] = Append(accepted[k], now) /\ accepted' \in [Keys -> Seq(Nat)]
    <3>1. Append(accepted[k], now) \in Seq(Nat)
      BY OneMore DEF LimitsTyped
    <3> QED
      BY <2>1, <3>1 DEF LimitsTyped
  <2>3. \A x \in Keys : x # k => accepted'[x] = accepted[x]
    BY <2>1 DEF LimitsTyped
  <2> QED
    BY <1>1, <1>2, <1>4, <1>5, <1>6, <2>1, <2>2, <2>3, Zenon
<1>7. CASE ~allowed
  <2>1. refused' = refused \union {[key |-> k, at |-> now]} /\ accepted' = accepted
    BY <1>7, Zenon DEF check_limit
  <2>2. accepted' \in [Keys -> Seq(Nat)]
    BY <2>1 DEF LimitsTyped
  <2> QED
    BY <1>1, <1>2, <1>4, <1>5, <1>7, <2>1, <2>2, Zenon
<1> QED
  BY <1>6, <1>7

(* Both bounds of a bucket survive a check of any bucket. *)
LEMMA LimiterChecks ==
  ASSUME DeskAssumption, LimiterInv, NEW k \in Keys, NEW allowed \in BOOLEAN,
         check_limit(k, allowed), now' = now
  PROVE  LimiterInv'
<1> USE DEF LimiterInv
<1> DEFINE limit == Limit[k[2]]
           acc == accepted[k]
           tokens == Bucket(k).tokens
<1>1. /\ DOMAIN buckets' = Kept \union {k}
      /\ \A x \in Kept : x # k => buckets'[x] = buckets[x]
      /\ \A x \in Keys : x # k => accepted'[x] = accepted[x]
      /\ allowed = (tokens >= Window)
      /\ allowed => /\ buckets'[k].tokens = tokens - Window
                    /\ accepted'[k] = Append(acc, now) /\ refused' = refused
      /\ ~allowed => /\ buckets'[k].tokens = tokens
                     /\ accepted' = accepted
                     /\ refused' = refused \union {[key |-> k, at |-> now]}
      /\ buckets'[k].last = Bucket(k).last
      /\ accepted' \in [Keys -> Seq(Nat)]
  BY CheckEffect
<1>2. Bucket(k).last = now /\ BucketOK(acc, tokens, now, limit)
  BY BucketIsOK
<1>3. /\ now \in Nat /\ acc \in Seq(Nat) /\ limit \in Nat /\ Window \in Nat
      /\ tokens \in 0..limit * Window
  BY <1>2, KeyLimit DEF LimitsTyped, DeskAssumption, BucketOK
<1>4. LimitsTyped'
  <2>1. DOMAIN buckets' \subseteq Keys
    BY <1>1 DEF LimitsTyped, Kept
  <2>2. \A r \in refused' : r.key \in Keys /\ r.at \in 0..now
    <3>1. [key |-> k, at |-> now].key = k /\ [key |-> k, at |-> now].at = now /\ now \in 0..now
      BY <1>3
    <3>2. \A r \in refused : r.key \in Keys /\ r.at \in 0..now
      BY DEF LimitsTyped
    <3> QED
      BY <1>1, <3>1, <3>2
  <2> QED
    BY <1>1, <1>3, <2>1, <2>2 DEF LimitsTyped
<1>5. BucketOK(accepted'[k], buckets'[k].tokens, now, limit)
  <2>1. CASE allowed
    <3>1. tokens >= Window
      BY <1>1, <2>1
    <3>2. BucketOK(Append(acc, now), tokens - Window, now, limit)
      <4> HIDE DEF acc, tokens, limit
      <4> QED
        BY <1>2, <1>3, <3>1, ConsumeOK
    <3> QED
      BY <1>1, <2>1, <3>2
  <2>2. CASE ~allowed
    BY <1>1, <1>2, <2>2
  <2> QED
    BY <2>1, <2>2
<1>6. BucketsOK'
  <2> SUFFICES ASSUME NEW x \in Keys
               PROVE  IF x \in DOMAIN buckets'
                      THEN /\ buckets'[x].last \in 0..now'
                           /\ BucketOK(accepted'[x], buckets'[x].tokens, buckets'[x].last, Limit[x[2]])
                      ELSE BucketOK(accepted'[x], Full(x), now', Limit[x[2]])
    BY Zenon DEF BucketsOK, BucketOK, Full, Least, Used
  <2>1. CASE x = k
    <3>1. k \in DOMAIN buckets' /\ buckets'[k].last = now /\ now \in 0..now
      BY <1>1, <1>2, <1>3
    <3> QED
      BY <1>5, <2>1, <3>1
  <2>2. CASE x # k /\ x \in Kept
    <3>1. x \in DOMAIN buckets /\ x \in DOMAIN buckets'
      BY <1>1, <2>2 DEF Kept
    <3>2. /\ buckets[x].last \in 0..now
          /\ BucketOK(accepted[x], buckets[x].tokens, buckets[x].last, Limit[x[2]])
      BY <3>1, Zenon DEF BucketsOK
    <3>3. buckets'[x] = buckets[x] /\ accepted'[x] = accepted[x]
      BY <1>1, <2>2
    <3> QED
      BY <3>1, <3>2, <3>3
  <2>3. CASE x # k /\ x \notin Kept
    <3>1. x \notin DOMAIN buckets' /\ accepted'[x] = accepted[x]
      BY <1>1, <2>3
    <3>2. BucketOK(accepted[x], Full(x), now, Limit[x[2]])
      BY <2>3, DroppedIsFull
    <3> QED
      BY <3>1, <3>2
  <2> QED
    BY <2>1, <2>2, <2>3
<1>7. BucketBound'
  <2> SUFFICES ASSUME NEW x \in Keys, NEW i \in DOMAIN accepted'[x], NEW j \in DOMAIN accepted'[x],
                      i <= j
               PROVE  (j - i + 1) * Window
                        <= Full(x) + (accepted'[x][j] - accepted'[x][i]) * Limit[x[2]]
    BY Zenon DEF BucketBound, Full
  <2>1. CASE j \in DOMAIN accepted[x] /\ accepted'[x][j] = accepted[x][j]
             /\ i \in DOMAIN accepted[x] /\ accepted'[x][i] = accepted[x][i]
    BY <2>1, Zenon DEF BucketBound, Full
  <2>2. CASE accepted'[x] = accepted[x]
    BY <2>1, <2>2
  <2>3. CASE x = k /\ allowed
    <3> DEFINE n == Len(acc)
               new == accepted'[k]
    <3>1. /\ n \in Nat /\ new = Append(acc, now) /\ new \in Seq(Nat) /\ Len(new) = n + 1
          /\ new[n + 1] = now /\ (\A m \in 1..n : new[m] = acc[m])
          /\ DOMAIN new = 1..(n + 1) /\ DOMAIN acc = 1..n
      <4>1. n \in Nat /\ DOMAIN acc = 1..n
        BY <1>3, Times, SMTT(30)
      <4>2. new = Append(acc, now)
        BY <1>1, <2>3
      <4>3. /\ new \in Seq(Nat) /\ Len(new) = n + 1
            /\ new[n + 1] = now /\ (\A m \in 1..n : new[m] = acc[m])
        <5> HIDE DEF acc, new
        <5> QED
          BY <1>3, <4>2, OneMore
      <4>4. DOMAIN new = 1..Len(new)
        <5> HIDE DEF new
        <5> QED
          BY <4>3, SMTT(30)
      <4> QED
        BY <4>1, <4>2, <4>3, <4>4
    <3>2. CASE j = n + 1
      <4>1. i \in 1..Len(new) /\ BucketOK(new, buckets'[k].tokens, now, limit)
        BY <1>5, <2>3, <3>1
      <4>2. (Len(new) - i + 1) * Window <= limit * Window + (now - new[i]) * limit
        <5> HIDE DEF new, limit
        <5> QED
          BY <1>3, <3>1, <4>1, Granted
      <4>3. j = Len(new) /\ new[j] = now
        BY <3>1, <3>2, Zenon
      <4>4. (j - i + 1) * Window <= limit * Window + (new[j] - new[i]) * limit
        BY <4>2, <4>3, Zenon
      <4> QED
        BY <2>3, <4>4, Zenon DEF Full
    <3>3. CASE j # n + 1
      <4>1. i \in 1..n /\ j \in 1..n
        <5>1. i \in 1..(n + 1) /\ j \in 1..(n + 1)
          BY <2>3, <3>1, Zenon
        <5>2. n \in Nat
          BY <3>1
        <5> HIDE DEF n
        <5> QED
          BY <3>3, <5>1, <5>2
      <4> QED
        BY <2>1, <2>3, <3>1, <4>1
    <3> QED
      BY <3>2, <3>3
  <2>4. (x = k /\ allowed) \/ accepted'[x] = accepted[x]
    BY <1>1
  <2> QED
    BY <2>2, <2>3, <2>4
<1>8. RefusalEarned'
  <2> SUFFICES ASSUME NEW r \in refused'
               PROVE  Cardinality({i \in DOMAIN accepted'[r.key] :
                        accepted'[r.key][i] \in (r.at - Window) .. r.at}) >= Limit[r.key[2]]
    BY Zenon DEF RefusalEarned
  <2> DEFINE old == accepted[r.key]
             new == accepted'[r.key]
             Old == {i \in DOMAIN old : old[i] \in (r.at - Window) .. r.at}
             New == {i \in DOMAIN new : new[i] \in (r.at - Window) .. r.at}
  <2>1. CASE r \in refused
    <3>1. Cardinality(Old) >= Limit[r.key[2]] /\ r.key \in Keys
      BY <2>1, Zenon DEF RefusalEarned, LimitsTyped
    <3>2. old \in Seq(Nat) /\ new \in Seq(Nat) /\ (new = old \/ new = Append(old, now))
      <4>1. new = old \/ new = Append(old, now)
        BY <1>1, <3>1
      <4> QED
        BY <1>4, <3>1, <4>1 DEF LimitsTyped
    <3>3. Old \subseteq New
      <4>1. DOMAIN old \subseteq DOMAIN new /\ \A i \in DOMAIN old : new[i] = old[i]
        <5> HIDE DEF old, new
        <5>1. DOMAIN old = 1..Len(old) /\ DOMAIN new = 1..Len(new) /\ Len(old) \in Nat
          BY <3>2, Times
        <5>2. CASE new = Append(old, now)
          BY <1>3, <3>2, <5>1, <5>2, OneMore
        <5> QED
          BY <3>2, <5>2
      <4> HIDE DEF old, new
      <4> QED
        BY <4>1
    <3>4. IsFiniteSet(New)
      <4> HIDE DEF old
      <4> HIDE DEF new
      <4>1. DOMAIN new = 1..Len(new) /\ Len(new) \in Nat
        BY <3>2, Times
      <4>2. IsFiniteSet(DOMAIN new) /\ New \subseteq DOMAIN new
        BY <4>1, FS_Interval
      <4> HIDE DEF New
      <4> QED
        BY <4>2, FS_Subset
    <3>5. /\ Cardinality(Old) <= Cardinality(New)
          /\ Cardinality(Old) \in Nat /\ Cardinality(New) \in Nat
      <4> HIDE DEF Old, New
      <4> QED
        BY <3>3, <3>4, FS_Subset, FS_CardinalityType
    <3>6. Limit[r.key[2]] \in Nat
      BY <3>1, KeyLimit
    <3> QED
      <4> HIDE DEF Old, New
      <4>1. Cardinality(New) >= Limit[r.key[2]]
        BY <3>1, <3>5, <3>6
      <4> QED
        BY <4>1 DEF New
  <2>2. CASE r \notin refused
    <3>1. ~allowed /\ r = [key |-> k, at |-> now]
      BY <1>1, <2>2
    <3>2. r.key = k /\ r.at = now /\ accepted' = accepted /\ ~(tokens >= Window)
      BY <1>1, <3>1
    <3>3. Used(acc, now - Window) >= limit
      <4>1. tokens < Window
        <5> HIDE DEF tokens
        <5> QED
          BY <1>3, <3>2
      <4> HIDE DEF acc, tokens, limit
      <4> QED
        BY <1>2, <1>3, <4>1, EmptyIsUsed
    <3>4. \A i \in DOMAIN acc : acc[i] \in Nat /\ acc[i] <= now
      <4>1. DOMAIN acc = 1..Len(acc) /\ \A i \in 1..Len(acc) : acc[i] \in Nat
        BY <1>3, Times, SMTT(30)
      <4>2. \A i \in 1..Len(acc) : acc[i] <= now
        BY <1>2, Zenon DEF BucketOK
      <4> QED
        BY <4>1, <4>2
    <3>5. {i \in DOMAIN acc : acc[i] \in (now - Window) .. now}
            = {i \in DOMAIN acc : acc[i] >= now - Window}
      <4> HIDE DEF acc
      <4> QED
        BY <1>3, <3>4, SMTT(30)
    <3> QED
      BY <3>2, <3>3, <3>5 DEF Used
  <2> QED
    BY <2>1, <2>2
<1> QED
  BY <1>4, <1>6, <1>7, <1>8

-----------------------------------------------------------------------------
(* The alerts                                                               *)

(* The stamps are the last of the times sent, and those before them left    *)
(* the window.                                                              *)
StampsAreLast ==
  /\ now \in Nat /\ sent \in Seq(Nat) /\ _timestamps \in Seq(Nat)
  /\ Len(_timestamps) <= Len(sent) /\ Len(_timestamps) <= MaxMessages
  /\ \A i \in 1..Len(_timestamps) :
      _timestamps[i] = sent[Len(sent) - Len(_timestamps) + i]
  /\ \A i \in 1..Len(sent) - Len(_timestamps) : now - sent[i] > AlertWindow
  /\ \A i, j \in 1..Len(sent) : i <= j => sent[i] <= sent[j]
  /\ \A i \in 1..Len(sent) : sent[i] <= now
  /\ \A m \in muted : m.at \in 0..now

AlertInv == StampsAreLast /\ AlertBound

(* What is left of a sequence when d of its elements are popped.            *)
LEMMA Popped ==
  ASSUME NEW s \in Seq(Nat), NEW d \in 0..Len(s)
  PROVE  LET left == SubSeq(s, d + 1, Len(s))
         IN  /\ left \in Seq(Nat) /\ Len(left) = Len(s) - d
             /\ \A i \in 1..Len(s) - d : left[i] = s[d + i]
<1> DEFINE left == SubSeq(s, d + 1, Len(s))
<1>1. Len(s) \in Nat /\ d \in Int /\ d + 1 \in Int
  BY Times
<1>2. \A i \in d + 1..Len(s) : s[i] \in Nat
  <2>1. \A i \in d + 1..Len(s) : i \in 1..Len(s)
    BY <1>1
  <2> QED
    BY <2>1, Times
<1>3. /\ left \in Seq(Nat)
      /\ Len(left) = IF d + 1 <= Len(s) THEN Len(s) - (d + 1) + 1 ELSE 0
      /\ \A i \in 1..Len(s) - (d + 1) + 1 : left[i] = s[(d + 1) + i - 1]
  BY <1>1, <1>2, SubSeqProperties
<1> HIDE DEF left
<1>4. Len(left) = Len(s) - d
  BY <1>1, <1>3
<1>5. ASSUME NEW i \in 1..Len(s) - d PROVE left[i] = s[d + i]
  <2>1. i \in 1..Len(s) - (d + 1) + 1 /\ (d + 1) + i - 1 = d + i
    BY <1>1
  <2> QED
    BY <1>3, <2>1
<1> QED
  BY <1>3, <1>4, <1>5 DEF left

(* The alerts of the window that ends now are those whose stamps are left.  *)
LEMMA FreshIsWindow ==
  ASSUME DeskAssumption, StampsAreLast, NEW d \in 0..Len(_timestamps), StopsAfter(d)
  PROVE  LET n == Len(sent)
             f == Len(_timestamps) - d
         IN  /\ f \in 0..n
             /\ Len(Fresh(d)) = f
             /\ Fresh(d) \in Seq(Nat)
             /\ \A i \in 1..f : Fresh(d)[i] = sent[n - f + i]
             /\ \A i \in 1..n - f : now - sent[i] > AlertWindow
             /\ Cardinality({i \in DOMAIN sent : sent[i] \in (now - AlertWindow) .. now}) = f
<1> DEFINE n == Len(sent)
           m == Len(_timestamps)
           f == m - d
           first == n - f
<1>1. n \in Nat /\ m \in Nat /\ d \in 0..m /\ m <= n /\ f \in 0..n /\ first \in 0..n
  <2>1. n \in Nat /\ m \in Nat /\ m <= n
    BY DEF StampsAreLast
  <2> HIDE DEF n
  <2> QED
    BY <2>1
<1>2. /\ \A i \in 1..m : _timestamps[i] = sent[n - m + i]
      /\ \A i \in 1..n - m : now - sent[i] > AlertWindow
      /\ \A i, j \in 1..n : i <= j => sent[i] <= sent[j]
      /\ \A i \in 1..n : sent[i] <= now
  BY Zenon DEF StampsAreLast
<1>3. now \in Nat /\ AlertWindow \in Nat /\ \A i \in 1..n : sent[i] \in Nat
  <2>1. sent \in Seq(Nat) /\ now \in Nat /\ AlertWindow \in Nat
    BY DEF StampsAreLast, DeskAssumption
  <2> QED
    BY <2>1, Times
<1>4. /\ Len(Fresh(d)) = f
      /\ Fresh(d) \in Seq(Nat)
      /\ \A i \in 1..f : Fresh(d)[i] = _timestamps[d + i]
  <2>1. _timestamps \in Seq(Nat)
    BY DEF StampsAreLast
  <2> QED
    BY <1>1, <2>1, Popped DEF Fresh
<1>5. \A i \in 1..f : Fresh(d)[i] = sent[n - f + i]
  <2> SUFFICES ASSUME NEW i \in 1..f PROVE Fresh(d)[i] = sent[n - f + i]
    OBVIOUS
  <2> HIDE DEF n, m
  <2>1. d + i \in 1..m /\ n - m + (d + i) = n - f + i
    BY <1>1
  <2>2. _timestamps[d + i] = sent[n - m + (d + i)]
    BY <1>2, <2>1
  <2> QED
    BY <1>4, <2>1, <2>2
<1>6. \A i \in 1..first : now - sent[i] > AlertWindow
  <2> SUFFICES ASSUME NEW i \in 1..first PROVE now - sent[i] > AlertWindow
    OBVIOUS
  <2>1. CASE i \in 1..n - m
    BY <1>2, <2>1
  <2>2. CASE i \notin 1..n - m
    <3> DEFINE j == i - (n - m)
    <3>1. j \in 1..d /\ j \in 1..m /\ n - m + j = i
      <4> HIDE DEF n, m
      <4> QED
        BY <1>1, <2>2
    <3>2. now - _timestamps[j] > AlertWindow
      BY <3>1, Zenon DEF StopsAfter, Expired
    <3>3. _timestamps[j] = sent[n - m + j]
      BY <1>2, <3>1, Zenon
    <3> QED
      BY <3>1, <3>2, <3>3, Zenon
  <2> QED
    BY <2>1, <2>2
<1>7. \A i \in first + 1..n : sent[i] \in (now - AlertWindow) .. now
  <2> SUFFICES ASSUME NEW i \in first + 1..n PROVE sent[i] \in (now - AlertWindow) .. now
    OBVIOUS
  <2>1. d < m /\ first + 1 \in 1..n /\ i \in 1..n /\ first + 1 <= i /\ d + 1 \in 1..m
        /\ n - m + (d + 1) = first + 1
    <3> HIDE DEF n, m
    <3> QED
      BY <1>1
  <2>2. ~(now - _timestamps[d + 1] > AlertWindow)
    BY <2>1, Zenon DEF StopsAfter, Expired
  <2>3. _timestamps[d + 1] = sent[first + 1]
    <3>1. _timestamps[d + 1] = sent[n - m + (d + 1)]
      BY <1>2, <2>1, Zenon
    <3>2. n - m + (d + 1) = first + 1
      BY <2>1
    <3> QED
      BY <3>1, <3>2, Zenon
  <2>4. sent[first + 1] <= sent[i] /\ sent[i] <= now
    BY <1>2, <2>1, Zenon
  <2>5. sent[first + 1] \in Nat /\ sent[i] \in Nat
    BY <1>3, <2>1, Zenon
  <2> DEFINE a == sent[first + 1]
             b == sent[i]
  <2>6. b \in (now - AlertWindow) .. now
    <3>1. ~(now - a > AlertWindow) /\ a <= b /\ b <= now /\ a \in Nat /\ b \in Nat
      BY <2>2, <2>3, <2>4, <2>5, Zenon
    <3>2. now \in Nat /\ AlertWindow \in Nat
      BY <1>3, Zenon
    <3> HIDE DEF a, b
    <3> QED
      BY <3>1, <3>2, InWindow, Zenon
  <2> QED
    BY <2>6
<1>8. {i \in DOMAIN sent : sent[i] \in (now - AlertWindow) .. now} = first + 1..n
  <2>1. DOMAIN sent = 1..n
    BY DEF StampsAreLast
  <2>2. ASSUME NEW i \in 1..n
        PROVE  sent[i] \in (now - AlertWindow) .. now <=> i \in first + 1..n
    <3>1. CASE i \in first + 1..n
      BY <1>7, <3>1
    <3>2. CASE i \notin first + 1..n
      <4>1. i \in 1..first
        <5> HIDE DEF n, f
        <5> QED
          BY <1>1, <3>2
      <4>2. now - sent[i] > AlertWindow /\ sent[i] \in Nat
        BY <1>3, <1>6, <4>1
      <4> DEFINE b == sent[i]
      <4>3. b \notin (now - AlertWindow) .. now
        <5>1. now - b > AlertWindow /\ b \in Nat
          BY <4>2
        <5> HIDE DEF b
        <5> QED
          BY <1>3, <5>1
      <4> QED
        BY <3>2, <4>3
    <3> QED
      BY <3>1, <3>2
  <2>3. first + 1..n \subseteq 1..n
    <3> HIDE DEF n, f
    <3> QED
      BY <1>1
  <2> HIDE DEF n, first
  <2> QED
    BY <2>1, <2>2, <2>3
<1>9. Cardinality(first + 1..n) = f
  <2>1. first + 1 \in Int /\ n \in Int /\ n - (first + 1) + 1 = f
    <3> HIDE DEF n, m
    <3> QED
      BY <1>1
  <2>2. Cardinality(first + 1..n) = IF first + 1 > n THEN 0 ELSE n - (first + 1) + 1
    <3> HIDE DEF first, n
    <3> QED
      BY <2>1, FS_Interval
  <2>3. first + 1 > n => f = 0
    <3> HIDE DEF n, m
    <3> QED
      BY <1>1
  <2> QED
    BY <2>1, <2>2, <2>3
<1> QED
  BY <1>1, <1>4, <1>5, <1>6, <1>8, <1>9

(* What left the window stays out of it. *)
LEMMA StaysOut ==
  ASSUME NEW a \in Nat, NEW t1 \in Nat, NEW t2 \in Nat, NEW w \in Nat, t1 <= t2, t1 - a > w
  PROVE  t2 - a > w
OBVIOUS

(* Some time passes and no alert goes out. *)
LEMMA AlertsWait ==
  ASSUME DeskAssumption, AlertInv, now' \in Nat, now <= now', UNCHANGED alerts
  PROVE  AlertInv'
<1> USE DEF AlertInv, alerts
<1>1. now \in Nat /\ AlertWindow \in Nat /\ sent \in Seq(Nat)
  BY DEF StampsAreLast, DeskAssumption
<1>2. \A i \in 1..Len(sent) : sent[i] \in Nat
  BY <1>1, Times
<1>3. \A i \in 1..Len(sent) - Len(_timestamps) : now' - sent[i] > AlertWindow
  <2> SUFFICES ASSUME NEW i \in 1..Len(sent) - Len(_timestamps)
               PROVE  now' - sent[i] > AlertWindow
    OBVIOUS
  <2>1. now - sent[i] > AlertWindow
    BY Zenon DEF StampsAreLast
  <2>2. sent[i] \in Nat
    <3>1. Len(sent) \in Nat /\ Len(_timestamps) \in Nat
      BY SMTT(30) DEF StampsAreLast
    <3>2. i \in 1..Len(sent)
      BY <3>1
    <3> QED
      BY <1>2, <3>2
  <2> DEFINE a == sent[i]
  <2>3. now - a > AlertWindow /\ a \in Nat /\ now \in Nat /\ AlertWindow \in Nat
    BY <1>1, <2>1, <2>2, Zenon
  <2>4. now' - a > AlertWindow
    <3> HIDE DEF a
    <3> QED
      BY <2>3, StaysOut
  <2> QED
    BY <2>4
<1>4. \A i \in 1..Len(sent) : sent[i] <= now'
  <2> SUFFICES ASSUME NEW i \in 1..Len(sent) PROVE sent[i] <= now'
    OBVIOUS
  <2> DEFINE a == sent[i]
  <2>1. a <= now /\ a \in Nat /\ now \in Nat
    BY <1>1, <1>2, Zenon DEF StampsAreLast
  <2>2. a <= now'
    <3> HIDE DEF a
    <3> QED
      BY <2>1
  <2> QED
    BY <2>2
<1>5. \A m \in muted : m.at \in 0..now'
  <2>1. \A m \in muted : m.at \in 0..now
    BY Zenon DEF StampsAreLast
  <2> QED
    BY <1>1, <2>1, SMTT(30)
<1>6. StampsAreLast'
  BY <1>3, <1>4, <1>5, Zenon DEF StampsAreLast
<1>7. AlertBound'
  BY Zenon DEF AlertBound
<1> QED
  BY <1>6, <1>7

(* A normal alert goes out. *)
LEMMA AlertSent ==
  ASSUME DeskAssumption, AlertInv, now' = now,
         NEW d \in 0..Len(_timestamps), StopsAfter(d), Len(Fresh(d)) < MaxMessages,
         _timestamps' = Append(Fresh(d), now), sent' = Append(sent, now), muted' = muted
  PROVE  AlertInv'
<1> USE DEF AlertInv
<1> DEFINE n == Len(sent)
           f == Len(_timestamps) - d
           left == Fresh(d)
<1>1. /\ f \in 0..n /\ Len(left) = f /\ left \in Seq(Nat)
      /\ \A i \in 1..f : left[i] = sent[n - f + i]
      /\ \A i \in 1..n - f : now - sent[i] > AlertWindow
      /\ Cardinality({i \in DOMAIN sent : sent[i] \in (now - AlertWindow) .. now}) = f
  BY FreshIsWindow
<1>2. /\ n \in Nat /\ now \in Nat /\ AlertWindow \in Nat /\ MaxMessages \in Nat /\ sent \in Seq(Nat)
      /\ \A i \in 1..n : sent[i] \in Nat
  <2>1. now \in Nat /\ AlertWindow \in Nat /\ MaxMessages \in Nat /\ sent \in Seq(Nat)
    BY DEF StampsAreLast, DeskAssumption
  <2> QED
    BY <2>1, Times
<1>3. /\ sent' \in Seq(Nat) /\ Len(sent') = n + 1 /\ sent'[n + 1] = now
      /\ \A i \in 1..n : sent'[i] = sent[i]
  BY <1>2, OneMore
<1>4. /\ _timestamps' \in Seq(Nat) /\ Len(_timestamps') = f + 1 /\ _timestamps'[f + 1] = now
      /\ \A i \in 1..f : _timestamps'[i] = left[i]
  <2>1. left \in Seq(Nat) /\ Len(left) = f /\ _timestamps' = Append(left, now) /\ now \in Nat
    BY <1>1, <1>2, Zenon
  <2> HIDE DEF left, f
  <2>2. /\ Append(left, now) \in Seq(Nat)
        /\ Len(Append(left, now)) = Len(left) + 1
        /\ Append(left, now)[Len(left) + 1] = now
        /\ \A i \in 1..Len(left) : Append(left, now)[i] = left[i]
    BY <2>1, OneMore
  <2> QED
    BY <2>1, <2>2, Zenon
<1>5. f < MaxMessages
  BY <1>1
<1>sizes. /\ n \in Nat /\ f \in 0..n /\ f < MaxMessages
         /\ now \in Nat /\ AlertWindow \in Nat /\ MaxMessages \in Nat
  BY <1>1, <1>2, <1>5, Zenon
<1> HIDE DEF n, f, left
<1>6. \A i \in 1..Len(_timestamps') :
        _timestamps'[i] = sent'[Len(sent') - Len(_timestamps') + i]
  <2>3. Len(_timestamps') = f + 1 /\ Len(sent') - Len(_timestamps') = n - f
    <3>1. (n + 1) - (f + 1) = n - f
      BY <1>sizes
    <3> QED
      BY <1>3, <1>4, <3>1, Zenon
  <2> SUFFICES ASSUME NEW i \in 1..f + 1 PROVE _timestamps'[i] = sent'[n - f + i]
    BY <2>3
  <2>1. CASE i = f + 1
    <3>1. n - f + i = n + 1
      BY <1>sizes, <2>1
    <3> QED
      BY <1>3, <1>4, <2>1, <3>1
  <2>2. CASE i # f + 1
    <3>1. i \in 1..f /\ n - f + i \in 1..n
      BY <1>sizes, <2>2
    <3> QED
      BY <1>1, <1>3, <1>4, <3>1, Zenon
  <2> QED
    BY <2>1, <2>2
<1>7. \A i \in 1..Len(sent') - Len(_timestamps') : now - sent'[i] > AlertWindow
  <2>1. Len(sent') - Len(_timestamps') = n - f
    <3>1. (n + 1) - (f + 1) = n - f
      BY <1>sizes
    <3> QED
      BY <1>3, <1>4, <3>1, Zenon
  <2>2. ASSUME NEW i \in 1..n - f PROVE now - sent'[i] > AlertWindow
    <3>1. i \in 1..n
      BY <1>sizes
    <3> QED
      BY <1>1, <1>3, <3>1, Zenon
  <2> QED
    BY <2>1, <2>2
<1>8. \A i \in 1..Len(sent') : sent'[i] <= now
  <2> SUFFICES ASSUME NEW i \in 1..n + 1 PROVE sent'[i] <= now
    BY <1>3
  <2>1. CASE i \in 1..n
    BY <1>3, <2>1, Zenon DEF StampsAreLast, n
  <2>2. CASE i = n + 1
    <3>1. sent'[i] = now /\ now <= now
      BY <1>3, <1>sizes, <2>2
    <3> QED
      BY <3>1
  <2>3. i = n + 1 \/ i \in 1..n
    BY <1>sizes
  <2> QED
    BY <2>1, <2>2, <2>3
<1>9. \A i, j \in 1..Len(sent') : i <= j => sent'[i] <= sent'[j]
  <2> SUFFICES ASSUME NEW i \in 1..n + 1, NEW j \in 1..n + 1, i <= j
               PROVE  sent'[i] <= sent'[j]
    BY <1>3
  <2>1. CASE j = n + 1
    BY <1>3, <1>8, <2>1, Zenon
  <2>2. CASE j # n + 1
    <3>1. i \in 1..n /\ j \in 1..n
      BY <1>sizes, <2>2
    <3>2. sent[i] <= sent[j]
      BY <3>1, Zenon DEF StampsAreLast, n
    <3> QED
      BY <1>3, <3>1, <3>2, Zenon
  <2> QED
    BY <2>1, <2>2
<1>10. StampsAreLast'
  <2>1. Len(_timestamps') <= Len(sent') /\ Len(_timestamps') <= MaxMessages
    <3>1. f + 1 <= n + 1 /\ f + 1 <= MaxMessages
      BY <1>sizes
    <3> QED
      BY <1>3, <1>4, <3>1, Zenon
  <2>2. \A m \in muted : m.at \in 0..now
    BY Zenon DEF StampsAreLast
  <2> QED
    BY <1>2, <1>3, <1>4, <1>6, <1>7, <1>8, <1>9, <2>1, <2>2, Zenon DEF StampsAreLast
<1>11. \A i \in DOMAIN sent' :
         i + MaxMessages \in DOMAIN sent' => sent'[i + MaxMessages] - sent'[i] > AlertWindow
  <2>1. DOMAIN sent' = 1..n + 1 /\ DOMAIN sent = 1..n
    BY <1>2, <1>3 DEF n
  <2> SUFFICES ASSUME NEW i \in 1..n + 1, i + MaxMessages \in 1..n + 1
               PROVE  sent'[i + MaxMessages] - sent'[i] > AlertWindow
    BY <2>1
  <2>2. CASE i + MaxMessages = n + 1
    <3>1. i \in 1..n - f /\ i \in 1..n
      BY <1>sizes, <2>2
    <3>2. now - sent[i] > AlertWindow /\ sent'[i] = sent[i] /\ sent'[n + 1] = now
      BY <1>1, <1>3, <3>1, Zenon
    <3> QED
      BY <2>2, <3>2, Zenon
  <2>3. CASE i + MaxMessages # n + 1
    <3>1. i \in 1..n /\ i + MaxMessages \in 1..n
      BY <1>sizes, <2>3
    <3>2. sent[i + MaxMessages] - sent[i] > AlertWindow
      BY <2>1, <3>1, Zenon DEF AlertBound
    <3> QED
      BY <1>3, <3>1, <3>2, Zenon
  <2> QED
    BY <2>2, <2>3
<1>12. ASSUME NEW m \in muted
       PROVE  /\ m.priority = "normal"
              /\ Cardinality({i \in DOMAIN sent' : sent'[i] \in (m.at - AlertWindow) .. m.at})
                   = MaxMessages
  <2> DEFINE Old(at) == {i \in DOMAIN sent : sent[i] \in (at - AlertWindow) .. at}
             New(at) == {i \in DOMAIN sent' : sent'[i] \in (at - AlertWindow) .. at}
  <2>1. m.priority = "normal" /\ Cardinality(Old(m.at)) = MaxMessages
    BY Zenon DEF AlertBound
  <2>2. m.at \in 0..now
    BY Zenon DEF StampsAreLast
  <2>3. Cardinality(Old(now)) = f
    BY <1>1
  <2>4. m.at # now
    <3> SUFFICES ASSUME m.at = now PROVE FALSE
      OBVIOUS
    <3>1. Cardinality(Old(now)) = MaxMessages
      BY <2>1, Zenon
    <3>2. f # MaxMessages
      BY <1>sizes
    <3> QED
      BY <2>3, <3>1, <3>2, Zenon
  <2>5. New(m.at) = Old(m.at)
    <3> DEFINE at == m.at
    <3>1. DOMAIN sent' = 1..n + 1 /\ DOMAIN sent = 1..n
      BY <1>2, <1>3 DEF n
    <3>2. now \notin (at - AlertWindow) .. at
      <4>1. at \in 0..now /\ at # now
        BY <2>2, <2>4
      <4> HIDE DEF at
      <4> QED
        BY <1>sizes, <4>1
    <3>3. \A i \in 1..n + 1 : i = n + 1 \/ i \in 1..n
      BY <1>sizes
    <3>4. 1..n \subseteq 1..n + 1
      BY <1>sizes
    <3>5. \A i \in 1..n + 1 : sent'[i] \in (at - AlertWindow) .. at
                           <=> i \in 1..n /\ sent[i] \in (at - AlertWindow) .. at
      <4> SUFFICES ASSUME NEW i \in 1..n + 1
                   PROVE  sent'[i] \in (at - AlertWindow) .. at
                            <=> i \in 1..n /\ sent[i] \in (at - AlertWindow) .. at
        OBVIOUS
      <4>1. n + 1 \notin 1..n
        BY <1>sizes, AfterAll, Zenon
      <4>2. CASE i = n + 1
        BY <1>3, <3>2, <4>1, <4>2, Zenon
      <4>3. CASE i \in 1..n
        BY <1>3, <4>3, Zenon
      <4> QED
        BY <3>3, <4>2, <4>3
    <3> QED
      BY <3>1, <3>4, <3>5, Zenon
  <2> QED
    BY <2>1, <2>5
<1>13. AlertBound'
  BY <1>11, <1>12, Zenon DEF AlertBound
<1> QED
  BY <1>10, <1>13

(* A normal alert is suppressed. *)
LEMMA AlertMuted ==
  ASSUME DeskAssumption, AlertInv, now' = now, sent' = sent,
         NEW d \in 0..Len(_timestamps), StopsAfter(d), ~(Len(Fresh(d)) < MaxMessages),
         _timestamps' = Fresh(d),
         muted' = muted \union {[priority |-> "normal", at |-> now]}
  PROVE  AlertInv'
<1> USE DEF AlertInv
<1> DEFINE n == Len(sent)
           f == Len(_timestamps) - d
           left == Fresh(d)
<1>1. /\ f \in 0..n /\ Len(left) = f /\ left \in Seq(Nat)
      /\ \A i \in 1..f : left[i] = sent[n - f + i]
      /\ \A i \in 1..n - f : now - sent[i] > AlertWindow
      /\ Cardinality({i \in DOMAIN sent : sent[i] \in (now - AlertWindow) .. now}) = f
  BY FreshIsWindow
<1>2. now \in Nat /\ MaxMessages \in Nat /\ sent \in Seq(Nat) /\ Len(_timestamps) <= MaxMessages
      /\ Len(_timestamps) \in Nat
  BY DEF StampsAreLast, DeskAssumption
<1>3. f = MaxMessages
  <2>1. f <= MaxMessages
    BY <1>2
  <2>2. ~(f < MaxMessages)
    BY <1>1
  <2> HIDE DEF f
  <2> QED
    BY <1>1, <1>2, <2>1, <2>2
<1>4. \A m \in muted' : m \in muted \/ (m.priority = "normal" /\ m.at = now)
  OBVIOUS
<1>5. \A m \in muted' : m.at \in 0..now
  <2>1. \A m \in muted : m.at \in 0..now
    BY Zenon DEF StampsAreLast
  <2> QED
    BY <1>2, <1>4, <2>1, SMTT(30)
<1>6. StampsAreLast'
  <2>1. /\ \A i, j \in 1..Len(sent) : i <= j => sent[i] <= sent[j]
        /\ \A i \in 1..Len(sent) : sent[i] <= now
    BY Zenon DEF StampsAreLast
  <2>2. Len(left) <= n /\ Len(left) <= MaxMessages
    <3>1. n \in Nat
      BY <1>2, Times
    <3> HIDE DEF f, left, n
    <3> QED
      BY <1>1, <1>2, <1>3, <3>1
  <2>3. Len(_timestamps') = f /\ _timestamps' = left
    BY <1>1
  <2> HIDE DEF left, f
  <2> QED
    BY <1>1, <1>2, <1>5, <2>1, <2>2, <2>3, Zenon DEF StampsAreLast
<1>7. AlertBound'
  <2>1. \A i \in DOMAIN sent :
          i + MaxMessages \in DOMAIN sent => sent[i + MaxMessages] - sent[i] > AlertWindow
    BY Zenon DEF AlertBound
  <2>2. ASSUME NEW m \in muted'
        PROVE  /\ m.priority = "normal"
               /\ Cardinality({i \in DOMAIN sent : sent[i] \in (m.at - AlertWindow) .. m.at})
                    = MaxMessages
    <3>1. CASE m \in muted
      BY <3>1, Zenon DEF AlertBound
    <3>2. CASE m.priority = "normal" /\ m.at = now
      BY <1>1, <1>3, <3>2
    <3> QED
      BY <1>4, <3>1, <3>2
  <2> QED
    BY <2>1, <2>2, Zenon DEF AlertBound
<1> QED
  BY <1>6, <1>7

(* TelegramRateLimiter.allow *)
LEMMA AlertStep ==
  ASSUME DeskAssumption, AlertInv, NEW priority \in {"normal", "high"}, Sends(priority)
  PROVE  AlertInv'
<1>1. now' = now /\ now \in Nat /\ now <= now
  BY DEF Sends, AlertInv, StampsAreLast
<1>2. CASE priority = "high"
  <2>1. UNCHANGED alerts
    BY <1>2, Zenon DEF Sends
  <2> QED
    BY <1>1, <2>1, AlertsWait
<1>3. CASE priority = "normal"
  <2>1. priority # "high"
    BY <1>3
  <2>2. PICK d \in 0..Len(_timestamps) :
          /\ StopsAfter(d)
          /\ IF Len(Fresh(d)) < MaxMessages
             THEN /\ _timestamps' = Append(Fresh(d), now) /\ sent' = Append(sent, now)
                  /\ UNCHANGED muted
             ELSE /\ _timestamps' = Fresh(d)
                  /\ muted' = muted \union {[priority |-> priority, at |-> now]}
                  /\ UNCHANGED sent
    BY <2>1, Zenon DEF Sends
  <2>3. CASE Len(Fresh(d)) < MaxMessages
    <3>1. _timestamps' = Append(Fresh(d), now) /\ sent' = Append(sent, now) /\ muted' = muted
      BY <2>2, <2>3, Zenon
    <3> QED
      BY <1>1, <2>2, <2>3, <3>1, AlertSent
  <2>4. CASE ~(Len(Fresh(d)) < MaxMessages)
    <3>1. /\ _timestamps' = Fresh(d) /\ sent' = sent
          /\ muted' = muted \union {[priority |-> "normal", at |-> now]}
      BY <1>3, <2>2, <2>4, Zenon
    <3> QED
      BY <1>1, <2>2, <2>4, <3>1, AlertMuted
  <2> QED
    BY <2>3, <2>4
<1> QED
  BY <1>2, <1>3

-----------------------------------------------------------------------------
(* Confirmations                                                            *)

(* A request that waits is the last thing its user did, and the handler of  *)
(* a confirmed one belongs to a user.                                       *)
RequestsKnown ==
  /\ now \in Nat
  /\ DOMAIN pending \subseteq Users
  /\ \A u \in DOMAIN pending :
      /\ last[u].what = "asked" /\ last[u].action = pending[u].action
      /\ pending[u].action \in Destructive
      /\ pending[u].expires_at = last[u].at + Ttl
  /\ DOMAIN last = Users
  /\ DOMAIN nuked = Users
  /\ closing # None => closing.user \in Users

(* A new request takes the place of the one before it. *)
LEMMA RequestAsked ==
  ASSUME RequestsKnown, now' = now, NEW u \in Users, NEW c \in Destructive,
         _register_confirmation(u, c), UNCHANGED <<closing, nuked>>
  PROVE  RequestsKnown'
<1> USE DEF RequestsKnown
<1>1. /\ DOMAIN pending' = DOMAIN pending \union {u}
      /\ pending'[u] = [action |-> c, expires_at |-> now + Ttl]
      /\ \A x \in DOMAIN pending : x # u => pending'[x] = pending[x]
  BY Zenon DEF _register_confirmation
<1>2. /\ DOMAIN last' = Users
      /\ last'[u] = [what |-> "asked", action |-> c, at |-> now]
      /\ \A x \in Users : x # u => last'[x] = last[x]
  BY DEF _register_confirmation
<1>3. ASSUME NEW x \in DOMAIN pending'
      PROVE  /\ last'[x].what = "asked" /\ last'[x].action = pending'[x].action
             /\ pending'[x].action \in Destructive
             /\ pending'[x].expires_at = last'[x].at + Ttl
  <2>1. CASE x = u
    BY <1>1, <1>2, <2>1
  <2>2. CASE x # u
    BY <1>1, <1>2, <2>2
  <2> QED
    BY <2>1, <2>2
<1> QED
  BY <1>1, <1>2, <1>3

(* A confirmation or a cancellation leaves no request of its user.          *)
LEMMA RequestGone ==
  ASSUME RequestsKnown, now' = now, NEW u \in Users,
         pending' = Without(pending, u), NEW act, last' = [last EXCEPT ![u] = act],
         closing' # None => closing'.user \in Users, UNCHANGED nuked
  PROVE  RequestsKnown'
<1> USE DEF RequestsKnown
<1>1. DOMAIN pending' = DOMAIN pending \ {u} /\ \A x \in DOMAIN pending' : pending'[x] = pending[x]
  BY DEF Without
<1>2. DOMAIN last' = Users /\ \A x \in Users : x # u => last'[x] = last[x]
  OBVIOUS
<1>3. ASSUME NEW x \in DOMAIN pending'
      PROVE  /\ last'[x].what = "asked" /\ last'[x].action = pending'[x].action
             /\ pending'[x].action \in Destructive
             /\ pending'[x].expires_at = last'[x].at + Ttl
  BY <1>1, <1>2
<1> QED
  BY <1>1, <1>2, <1>3

-----------------------------------------------------------------------------
(* The whole desk                                                           *)

DeskInv == LimiterInv /\ AlertInv /\ RequestsKnown

LEMMA DeskInit == Init => DeskInv
<1> SUFFICES ASSUME Init PROVE DeskInv
  OBVIOUS
<1> USE DeskAssumption
<1>1. /\ now = 0 /\ sent = <<>> /\ _timestamps = <<>> /\ muted = {} /\ refused = {}
      /\ DOMAIN buckets = {} /\ DOMAIN pending = {} /\ DOMAIN last = Users
      /\ DOMAIN nuked = Users /\ closing = None
      /\ accepted = [k \in Keys |-> <<>>]
  BY DEF Init
<1>2. /\ <<>> \in Seq(Nat) /\ Len(<<>>) = 0 /\ DOMAIN <<>> = {}
      /\ 1..0 = {} /\ 0 \in Nat
  BY EmptySeq
<1>3. LimitsTyped
  BY <1>1, <1>2 DEF LimitsTyped
<1>4. BucketsOK
  <2> SUFFICES ASSUME NEW k \in Keys PROVE BucketOK(<<>>, Full(k), 0, Limit[k[2]])
    BY <1>1 DEF BucketsOK
  <2> DEFINE full == Limit[k[2]] * Window
  <2>1. Window \in Nat /\ Limit[k[2]] \in Nat /\ full \in Nat
    <3>1. Window \in Nat /\ Limit[k[2]] \in Nat
      BY KeyLimit DEF DeskAssumption
    <3> QED
      BY <3>1, Product
  <2>2. ASSUME NEW s \in Int, s <= 0
        PROVE  Least(full, (0 - s) * Limit[k[2]]) <= full + Used(<<>>, s) * Window
    <3> DEFINE u == Used(<<>>, s) * Window
               gain == (0 - s) * Limit[k[2]]
    <3>1. u \in Nat
      BY <1>2, <2>1, UsedIsCount, Product
    <3>2. gain \in Int
      BY <2>1
    <3>3. Least(full, gain) <= full + u
      <4> HIDE DEF full, u, gain
      <4> QED
        BY <2>1, <3>1, <3>2 DEF Least
    <3> QED
      BY <3>3
  <2>3. full \in 0..full
    <3> HIDE DEF full
    <3> QED
      BY <2>1
  <2> QED
    BY <1>2, <2>2, <2>3, Zenon DEF BucketOK, Full
<1>5. BucketBound /\ RefusalEarned
  BY <1>1, <1>2 DEF BucketBound, RefusalEarned
<1>6. StampsAreLast
  <2>1. Len(_timestamps) <= MaxMessages /\ Len(_timestamps) <= Len(sent)
    BY <1>1, <1>2 DEF DeskAssumption
  <2>2. Len(sent) - Len(_timestamps) = 0
    BY <1>1, <1>2
  <2> QED
    BY <1>1, <1>2, <2>1, <2>2 DEF StampsAreLast
<1>7. AlertBound
  BY <1>1, <1>2 DEF AlertBound
<1>8. RequestsKnown
  BY <1>1, <1>2 DEF RequestsKnown
<1> QED
  BY <1>3, <1>4, <1>5, <1>6, <1>7, <1>8 DEF DeskInv, LimiterInv, AlertInv

LEMMA CommandKey ==
  ASSUME NEW u \in Users, NEW c \in Commands
  PROVE  <<u, RateLimitAction(c)>> \in Keys
BY DEF Keys

(* Every update, alert and tick of the clock keeps the invariant. *)
LEMMA DeskStep == DeskInv /\ [Next]_vars => DeskInv'
<1> SUFFICES ASSUME DeskInv, [Next]_vars PROVE DeskInv'
  OBVIOUS
<1> USE DeskAssumption DEF DeskInv
<1>1. now \in Nat /\ now <= now
  BY DEF LimiterInv, LimitsTyped
<1>2. ASSUME NEW u \in Users, NEW c \in Commands, Refused(u, c) PROVE DeskInv'
  <2>1. /\ check_limit(<<u, RateLimitAction(c)>>, FALSE) /\ now' = now
        /\ UNCHANGED <<pending, closing, nuked, last>> /\ UNCHANGED alerts
    BY <1>2, Zenon DEF Refused
  <2>2. LimiterInv'
    BY <2>1, CommandKey, LimiterChecks
  <2>3. AlertInv'
    BY <1>1, <2>1, AlertsWait
  <2>4. RequestsKnown'
    BY <2>1 DEF RequestsKnown
  <2> QED
    BY <2>2, <2>3, <2>4
<1>3. ASSUME NEW u \in Users, NEW c \in Commands, cmd_nuke(u, c) PROVE DeskInv'
  <2>1. /\ c \in Destructive /\ check_limit(<<u, "NUKE">>, TRUE) /\ now' = now
        /\ _register_confirmation(u, c)
        /\ UNCHANGED <<closing, nuked>> /\ UNCHANGED alerts
    BY <1>3, Zenon DEF cmd_nuke
  <2>2. RateLimitAction(c) = "NUKE"
    BY <2>1 DEF RateLimitAction, Destructive
  <2>3. LimiterInv'
    BY <2>1, <2>2, CommandKey, LimiterChecks
  <2>4. AlertInv'
    BY <1>1, <2>1, AlertsWait
  <2>5. RequestsKnown'
    BY <2>1, RequestAsked
  <2> QED
    BY <2>3, <2>4, <2>5
<1>4. ASSUME NEW u \in Users, NEW c \in Commands, Allowed(u, c) PROVE DeskInv'
  <2>1. /\ check_limit(<<u, RateLimitAction(c)>>, TRUE) /\ now' = now
        /\ UNCHANGED <<pending, closing, nuked, last>> /\ UNCHANGED alerts
    BY <1>4, Zenon DEF Allowed
  <2>2. LimiterInv'
    BY <2>1, CommandKey, LimiterChecks
  <2>3. AlertInv'
    BY <1>1, <2>1, AlertsWait
  <2>4. RequestsKnown'
    BY <2>1 DEF RequestsKnown
  <2> QED
    BY <2>2, <2>3, <2>4
<1>5. ASSUME NEW u \in Users, ConfirmsNothing(u) \/ cmd_confirm(u) PROVE DeskInv'
  <2>1. /\ now' = now /\ UNCHANGED <<buckets, nuked>> /\ UNCHANGED alerts
        /\ UNCHANGED <<accepted, refused>> /\ closing = None
        /\ last' = [last EXCEPT ![u] = [what |-> "confirmed", action |-> None, at |-> now]]
        /\ pending' = Without(pending, u)
    BY <1>5, Zenon DEF ConfirmsNothing, cmd_confirm, Confirming, Handles, _consume_confirmation
  <2>2. closing' # None => closing'.user \in Users
    <3>1. CASE ConfirmsNothing(u)
      BY <2>1, <3>1, Zenon DEF ConfirmsNothing
    <3>2. CASE cmd_confirm(u)
      <4>1. PICK taken, c : closing' = [user |-> u, action |-> taken, controller |-> c]
        BY <3>2, Zenon DEF cmd_confirm
      <4> QED
        BY <4>1
    <3> QED
      BY <1>5, <3>1, <3>2
  <2>3. LimiterInv'
    BY <1>1, <2>1, LimiterWaits
  <2>4. AlertInv'
    BY <1>1, <2>1, AlertsWait
  <2>5. RequestsKnown'
    BY <2>1, <2>2, RequestGone
  <2> QED
    BY <2>3, <2>4, <2>5
<1>6. ASSUME NEW u \in Users, cmd_cancel(u) PROVE DeskInv'
  <2>1. /\ now' = now /\ UNCHANGED <<buckets, closing, nuked>> /\ UNCHANGED alerts
        /\ UNCHANGED <<accepted, refused>> /\ closing = None
        /\ last' = [last EXCEPT ![u] = [what |-> "cancelled", action |-> None, at |-> now]]
        /\ pending' = Without(pending, u)
    BY <1>6, Zenon DEF cmd_cancel, Handles
  <2>2. LimiterInv'
    BY <1>1, <2>1, LimiterWaits
  <2>3. AlertInv'
    BY <1>1, <2>1, AlertsWait
  <2>4. RequestsKnown'
    BY <2>1, RequestGone
  <2> QED
    BY <2>2, <2>3, <2>4
<1>7. CASE force_nuclear
  <2>1. /\ now' = now /\ UNCHANGED <<buckets, pending>> /\ UNCHANGED alerts
        /\ UNCHANGED <<accepted, refused, last>> /\ closing' = None
        /\ nuked' = IF closing.controller = "tests"
                    THEN [nuked EXCEPT ![closing.user] = @ + 1] ELSE nuked
    BY <1>7, Zenon DEF force_nuclear, observed
  <2>2. LimiterInv'
    BY <1>1, <2>1, LimiterWaits
  <2>3. AlertInv'
    BY <1>1, <2>1, AlertsWait
  <2>4. DOMAIN nuked' = DOMAIN nuked
    BY <2>1
  <2>5. RequestsKnown'
    BY <2>1, <2>4 DEF RequestsKnown
  <2> QED
    BY <2>2, <2>3, <2>5
<1>8. ASSUME NEW priority \in {"normal", "high"}, Sends(priority) PROVE DeskInv'
  <2>1. /\ now' = now /\ UNCHANGED <<buckets, pending, closing, nuked>>
        /\ UNCHANGED <<accepted, refused, last>>
    BY <1>8, Zenon DEF Sends, desk, observed
  <2>2. LimiterInv'
    BY <1>1, <2>1, LimiterWaits
  <2>3. AlertInv'
    BY <1>8, AlertStep
  <2>4. RequestsKnown'
    BY <2>1 DEF RequestsKnown
  <2> QED
    BY <2>2, <2>3, <2>4
<1>9. CASE Elapse
  <2>1. /\ now' = now + 1 /\ UNCHANGED <<buckets, pending, closing, nuked>>
        /\ UNCHANGED <<accepted, refused, last>> /\ UNCHANGED alerts
    BY <1>9, Zenon DEF Elapse, desk, observed
  <2>2. now' \in Nat /\ now <= now'
    BY <1>1, <2>1
  <2>3. LimiterInv'
    BY <2>1, <2>2, LimiterWaits
  <2>4. AlertInv'
    BY <2>1, <2>2, AlertsWait
  <2>5. RequestsKnown'
    BY <2>1, <2>2 DEF RequestsKnown
  <2> QED
    BY <2>3, <2>4, <2>5
<1>10. CASE UNCHANGED vars
  <2>1. /\ now' = now /\ UNCHANGED <<buckets, pending, closing, nuked>>
        /\ UNCHANGED <<accepted, refused, last>> /\ UNCHANGED alerts
    BY <1>10, Zenon DEF vars, desk, observed
  <2>2. LimiterInv'
    BY <1>1, <2>1, LimiterWaits
  <2>3. AlertInv'
    BY <1>1, <2>1, AlertsWait
  <2>4. RequestsKnown'
    BY <2>1 DEF RequestsKnown
  <2> QED
    BY <2>2, <2>3, <2>4
<1> QED
  BY <1>2, <1>3, <1>4, <1>5, <1>6, <1>7, <1>8, <1>9, <1>10, Zenon DEF Next, Command

(* Buckets, stamps and pending requests are as the invariant says, whatever *)
(* the operators send and however the clock runs.                           *)
THEOREM DeskSafe == Spec => []DeskInv
BY DeskInit, DeskStep, PTL DEF Spec

(* security/rate_limiter.py and telegram/alerts.py: no window has more than *)
(* the limits allow, and nobody is refused and no alert suppressed before   *)
(* they are used up.                                                        *)
THEOREM LimitsAlwaysHold == Spec => []LimitsHold
<1>1. DeskInv => LimitsHold
  BY DEF DeskInv, LimiterInv, AlertInv, LimitsHold
<1> QED
  BY <1>1, DeskSafe, PTL

(* telegram/commands.py, cmd_confirm: positions are closed only for the     *)
(* last, unexpired request of the user who confirms, and once for it.       *)
THEOREM AlwaysConfirmedOnce == Spec => ConfirmedOnce
<1> DEFINE Answers ==
      /\ (closing' # closing /\ closing' # None) =>
           LET l == last[closing'.user]
           IN  /\ l.what = "asked" /\ l.action = closing'.action
               /\ now <= l.at + Ttl
      /\ \A u \in Users : nuked'[u] # nuked[u] =>
           nuked'[u] = nuked[u] + 1 /\ closing # None /\ closing' = None
<1>1. DeskInv /\ [Next]_vars => [Answers]_vars
  <2> SUFFICES ASSUME DeskInv, Next PROVE Answers
    BY Zenon
  <2> USE DeskAssumption
  <2>1. /\ now \in Nat /\ DOMAIN nuked = Users
        /\ \A u \in DOMAIN pending :
            /\ last[u].what = "asked" /\ last[u].action = pending[u].action
            /\ pending[u].action \in Destructive
            /\ pending[u].expires_at = last[u].at + Ttl
        /\ closing # None => closing.user \in Users
    BY Zenon DEF DeskInv, RequestsKnown
  <2>2. ASSUME NEW u \in Users, cmd_confirm(u) PROVE Answers
    <3>1. PICK taken \in Destructive, c \in Controllers \ {"none"} :
            /\ taken = IF u \in DOMAIN pending /\ pending[u].expires_at >= now
                       THEN pending[u].action ELSE None
            /\ closing' = [user |-> u, action |-> taken, controller |-> c]
      BY <2>2, Zenon DEF cmd_confirm, _consume_confirmation
    <3>2. nuked' = nuked
      BY <2>2, Zenon DEF cmd_confirm, Confirming
    <3>3. None \notin Destructive
      BY DEF DeskAssumption
    <3>4. u \in DOMAIN pending /\ pending[u].expires_at >= now /\ taken = pending[u].action
      BY <3>1, <3>3, Zenon
    <3>5. /\ last[u].what = "asked" /\ last[u].action = taken
          /\ pending[u].expires_at = last[u].at + Ttl
      BY <2>1, <3>4, Zenon
    <3>6. now <= last[u].at + Ttl
      <4> DEFINE e == pending[u].expires_at
                 f == last[u].at + Ttl
      <4>1. e >= now /\ e = f
        BY <3>4, <3>5, Zenon
      <4> HIDE DEF e, f
      <4>2. now <= f
        BY <4>1
      <4> QED
        BY <4>2 DEF f
    <3>7. closing'.user = u /\ closing'.action = taken
      BY <3>1
    <3> QED
      BY <3>2, <3>5, <3>6, <3>7, Zenon
  <2>3. CASE force_nuclear
    <3>1. /\ closing # None /\ closing' = None
          /\ nuked' = IF closing.controller = "tests"
                      THEN [nuked EXCEPT ![closing.user] = @ + 1] ELSE nuked
      BY <2>3, Zenon DEF force_nuclear
    <3>2. \A u \in Users : nuked'[u] # nuked[u] => nuked'[u] = nuked[u] + 1
      BY <2>1, <3>1
    <3> QED
      BY <3>1, <3>2, Zenon
  <2>4. CASE UNCHANGED <<closing, nuked>>
    BY <2>4
  <2>5. ASSUME NEW u \in Users, NEW c \in Commands, Refused(u, c) \/ cmd_nuke(u, c) \/ Allowed(u, c)
        PROVE  UNCHANGED <<closing, nuked>>
    BY <2>5, Zenon DEF Refused, cmd_nuke, Allowed
  <2>6. ASSUME NEW u \in Users, ConfirmsNothing(u) \/ cmd_cancel(u)
        PROVE  UNCHANGED <<closing, nuked>>
    BY <2>6, Zenon DEF ConfirmsNothing, Confirming, cmd_cancel
  <2>7. ASSUME NEW priority, Sends(priority) PROVE UNCHANGED <<closing, nuked>>
    BY <2>7, Zenon DEF Sends, desk
  <2>8. Elapse => UNCHANGED <<closing, nuked>>
    BY Zenon DEF Elapse, desk
  <2> HIDE DEF Answers
  <2> QED
    BY <2>2, <2>3, <2>4, <2>5, <2>6, <2>7, <2>8, Zenon DEF Next, Command
<1> QED
  BY <1>1, DeskSafe, PTL DEF Spec, ConfirmedOnce
=============================================================================
