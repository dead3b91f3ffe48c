--------------------------- MODULE AdmissionProofs ---------------------------
(***************************************************************************)
(* Proofs about Admission for any rates, any number of sockets, addresses  *)
(* and devices, and any lockout threshold and window.                      *)
(***************************************************************************)
EXTENDS Admission, TLAPS

\* The burst of a bucket, its rate and their relation to the constants.
LEMMA BucketRates ==
    ASSUME NEW b \in Buckets
    PROVE  Rate(b) \in Nat /\ Burst(b) \in Nat /\ Minute \in Nat \ {0}
<1>1. b[1] \in Kinds
  BY DEF Buckets, Kinds
<1>2. PerMinute[b[1]] \in Nat /\ Minute \in Nat \ {0}
  BY <1>1, RateAssumption, MinuteAssumption
<1>3. \A m, n \in Nat : m * n \in Nat
  OBVIOUS
<1> QED
  BY <1>2, <1>3 DEF Rate, Burst

\* A refill of elapsed time e is a natural number.
LEMMA RefillNat ==
    ASSUME NEW e \in Nat, NEW r \in Nat
    PROVE  e * r \in Nat
OBVIOUS

LEMMA OneMore ==
    ASSUME NEW e \in Nat, NEW r \in Nat
    PROVE  (e + 1) * r = e * r + r
OBVIOUS

LEMMA ZeroTimes == \A r \in Nat : 0 * r = 0 /\ r * 0 = 0
OBVIOUS

\* What a refilled bucket holds: between the tokens it had and the burst.
LEMMA RefillBounds ==
    ASSUME TypeOK, NEW b \in Buckets
    PROVE  /\ Refill(b, bucket[b]).last = clock
           /\ Refill(b, bucket[b]).tokens \in Nat
           /\ Refill(b, bucket[b]).tokens <= Burst(b)
<1> DEFINE t == bucket[b].tokens  l == bucket[b].last
<1>1. t \in Nat /\ t <= Burst(b) /\ l \in Int /\ l <= clock /\ l >= -1 /\ clock \in Nat
  BY DEF TypeOK, Never
<1>2. Burst(b) \in Nat /\ Rate(b) \in Nat
  BY BucketRates
<1>3. CASE l = Never
  BY <1>1, <1>3 DEF Refill
<1>4. CASE l # Never
  <2>1. clock - l \in Nat
    BY <1>1, <1>4
  <2>2. (clock - l) * Rate(b) \in Nat
    BY <2>1, <1>2, RefillNat
  <2> QED
    BY <1>1, <1>2, <1>4, <2>2 DEF Refill, Least
<1> QED
  BY <1>3, <1>4

\* Charging a bucket keeps its type, and tokens never become negative.
LEMMA ChargedBounds ==
    ASSUME TypeOK, NEW b \in Buckets
    PROVE  /\ Charged(b) \in [tokens : Nat, last : Int]
           /\ Charged(b).tokens <= Burst(b)
           /\ Charged(b).last = clock
           /\ Charged(b).tokens = IF Allows(b)
                                  THEN Refill(b, bucket[b]).tokens - Minute
                                  ELSE Refill(b, bucket[b]).tokens
<1> DEFINE r == Refill(b, bucket[b])
<1>1. r.tokens \in Nat /\ r.tokens <= Burst(b) /\ r.last = clock /\ clock \in Nat
  BY RefillBounds DEF TypeOK
<1>2. Minute \in Nat \ {0} /\ Burst(b) \in Nat
  BY BucketRates
<1>3. r = [tokens |-> r.tokens, last |-> r.last]
  BY DEF Refill
<1>4. Charged(b) = [tokens |-> IF Allows(b) THEN r.tokens - Minute ELSE r.tokens,
                    last |-> r.last]
  BY <1>3 DEF Charged
<1>5. Allows(b) <=> r.tokens >= Minute
  BY DEF Allows
<1> HIDE DEF r
<1>6. (IF Allows(b) THEN r.tokens - Minute ELSE r.tokens) \in 0 .. Burst(b)
  BY <1>1, <1>2, <1>5
<1> QED
  BY <1>1, <1>2, <1>4, <1>6 DEF r

\* Every step keeps the types of the buckets.
BucketTypes ==
    /\ bucket \in [Buckets -> [tokens : Nat, last : Int]]
    /\ \A b \in Buckets :
          bucket[b].tokens <= Burst(b) /\ bucket[b].last \in Never .. clock
    /\ granted \in [Buckets -> Nat]

LEMMA ChargeTypes ==
    ASSUME TypeOK, NEW B, Charge(B), clock' = clock
    PROVE  BucketTypes'
<1>1. /\ bucket' = [b \in Buckets |-> IF b \in B THEN Charged(b) ELSE bucket[b]]
      /\ granted' = [b \in Buckets |->
                      IF b \in B /\ Allows(b) THEN granted[b] + 1 ELSE granted[b]]
  BY DEF Charge
<1>2. ASSUME NEW b \in Buckets
      PROVE  /\ bucket'[b] \in [tokens : Nat, last : Int]
             /\ bucket'[b].tokens <= Burst(b)
             /\ bucket'[b].last \in Never .. clock'
             /\ granted'[b] \in Nat
  <2>1. bucket'[b] = (IF b \in B THEN Charged(b) ELSE bucket[b])
    BY <1>1
  <2>2. clock \in Nat /\ clock \in Never .. clock
    BY DEF TypeOK, Never
  <2>3. granted'[b] \in Nat
    BY <1>1 DEF TypeOK
  <2>4. CASE b \in B
    BY <2>1, <2>2, <2>3, <2>4, ChargedBounds
  <2>5. CASE b \notin B
    BY <2>1, <2>3, <2>5 DEF TypeOK
  <2> QED
    BY <2>4, <2>5
<1>3. \A b \in Buckets : Burst(b)' = Burst(b)
  BY DEF Burst
<1> QED
  BY <1>1, <1>2, <1>3 DEF BucketTypes

\* The tracker's map and the failure counts keep their types.
LEMMA TrackerTypes ==
    ASSUME TypeOK
    PROVE  /\ \A K : Forget(K) \in [ScopeKeys -> [count : Nat, firstAt : Nat]]
           /\ \A k \in ScopeKeys : Recorded(k) \in [count : Nat, firstAt : Nat]
<1>1. NoEntry \in [count : Nat, firstAt : Nat]
  BY DEF NoEntry
<1>2. failures \in [ScopeKeys -> [count : Nat, firstAt : Nat]] /\ clock \in Nat
  BY DEF TypeOK
<1> QED
  BY <1>1, <1>2 DEF Forget, Recorded

LEMMA InitTypes == Init => TypeOK
<1> SUFFICES ASSUME Init PROVE TypeOK
  OBVIOUS
<1>1. ASSUME NEW b \in Buckets
      PROVE  /\ bucket[b] \in [tokens : Nat, last : Int]
             /\ bucket[b].tokens <= Burst(b)
             /\ bucket[b].last \in Never .. clock
  <2>1. Burst(b) \in Nat
    BY BucketRates
  <2> QED
    BY <2>1 DEF Init, NewBucket, Never
<1>2. bucket \in [Buckets -> [tokens : Nat, last : Int]]
  BY <1>1 DEF Init
<1> QED
  BY <1>1, <1>2 DEF Init, TypeOK, NoEntry

LEMMA TypeStep == TypeOK /\ [Next]_vars => TypeOK'
<1> SUFFICES ASSUME TypeOK, [Next]_vars PROVE TypeOK'
  OBVIOUS
<1>0. TypeOK' <=> /\ BucketTypes'
                  /\ clock' \in Nat
                  /\ conn' \in [Sockets -> {"new", "open", "authenticated", "closed"}]
                  /\ attempts' \in [Sockets -> Nat]
                  /\ failures' \in [ScopeKeys -> [count : Nat, firstAt : Nat]]
                  /\ mark' \in 0 .. clock'
                  /\ failed' \in [ScopeKeys -> Nat]
  BY DEF TypeOK, BucketTypes
<1>a. ASSUME bucket' = bucket, granted' = granted, clock' \in {clock, clock + 1}
      PROVE  BucketTypes'
  BY <1>a DEF TypeOK, BucketTypes, Burst, Never
<1> USE DEF TypeOK
<1>1. ASSUME NEW s \in Sockets, SocketNext(s) PROVE TypeOK'
  <2>1. CASE Connect(s)
    BY <2>1, <1>0, ChargeTypes DEF Connect
  <2>2. CASE AuthTooMany(s)
    BY <2>2, <1>0, <1>a DEF AuthTooMany, CountAttempt
  <2>3. CASE AuthRateLimited(s)
    BY <2>3, <1>0, ChargeTypes DEF AuthRateLimited, CountAttempt
  <2>4. ASSUME NEW d, AuthLockedOut(s, d) PROVE TypeOK'
    BY <2>4, <1>0, ChargeTypes, TrackerTypes DEF AuthLockedOut, CountAttempt
  <2>5. ASSUME NEW d, AuthFails(s, d) PROVE TypeOK'
    <3>1. failures' \in [ScopeKeys -> [count : Nat, firstAt : Nat]]
      BY <2>5, TrackerTypes DEF AuthFails
    <3> QED
      BY <2>5, <3>1, <1>0, ChargeTypes DEF AuthFails, ReachesEngine, CountAttempt
  <2>6. ASSUME NEW d, AuthSucceeds(s, d) PROVE TypeOK'
    BY <2>6, <1>0, ChargeTypes, TrackerTypes
    DEF AuthSucceeds, ReachesEngine, CountAttempt
  <2>7. CASE EventWithoutSession(s)
    <3>1. Aggregate(s) \in Buckets
      BY DEF Aggregate, Buckets
    <3>2. Burst(Aggregate(s)) \in Nat
      BY <3>1, BucketRates
    <3>3. BucketTypes'
      BY <2>7, <3>1, <3>2 DEF EventWithoutSession, Drained, BucketTypes, Burst, Never
    <3> QED
      BY <2>7, <3>3, <1>0 DEF EventWithoutSession
  <2>8. ASSUME NEW domain \in Domains, Event(s, domain) PROVE TypeOK'
    BY <2>8, <1>0, ChargeTypes DEF Event
  <2>9. CASE Close(s)
    BY <2>9, <1>0, <1>a DEF Close
  <2> QED
    BY <1>1, <2>1, <2>2, <2>3, <2>4, <2>5, <2>6, <2>7, <2>8, <2>9 DEF SocketNext
<1>2. CASE Tick
  BY <1>2, <1>0, <1>a DEF Tick
<1>3. CASE StartWindow
  BY <1>3, <1>0 DEF StartWindow, BucketTypes, Burst, Never
<1>4. CASE UNCHANGED vars
  BY <1>4, <1>0, <1>a DEF vars
<1> QED
  BY <1>1, <1>2, <1>3, <1>4 DEF Next

\* Tokens stay between zero and the burst in every reachable state.
THEOREM AdmissionTypes == Spec => []TypeOK
BY InitTypes, TypeStep, PTL DEF Spec

-----------------------------------------------------------------------------
(* The rate bound *)

\* What a bucket has granted in the window and what it could still grant now
\* never exceed the burst and the refill of the window.
RateInv ==
    \A b \in Buckets :
        granted[b] * Minute + Refill(b, bucket[b]).tokens
            <= Burst(b) + Rate(b) * (clock - mark)

\* Refilling a bucket that was refilled at this very time changes nothing.
LEMMA RefillTwice ==
    ASSUME TypeOK, TypeOK', clock' = clock, NEW b \in Buckets,
           bucket'[b].last = clock
    PROVE  Refill(b, bucket[b])'.tokens = bucket'[b].tokens
<1> DEFINE t == bucket'[b].tokens
<1>1. t \in Nat /\ t <= Burst(b) /\ Burst(b) \in Nat /\ Rate(b) \in Nat /\ clock \in Nat
  BY BucketRates DEF TypeOK, Burst
<1>2. Refill(b, bucket[b])'.tokens = Least(Burst(b), t + (clock - clock) * Rate(b))
  BY <1>1 DEF Refill, Burst, Rate, Least, Never
<1>3. (clock - clock) * Rate(b) = 0
  BY <1>1, ZeroTimes
<1>4. \A z : z = 0 => t + z = t
  BY <1>1
<1>5. t + (clock - clock) * Rate(b) = t
  BY <1>3, <1>4, Zenon
<1>6. Least(Burst(b), t) = t
  BY <1>1 DEF Least
<1> QED
  BY <1>2, <1>5, <1>6, Zenon

\* A bucket nobody touched and no time passed.
LEMMA RefillSame ==
    ASSUME clock' = clock, NEW b \in Buckets, bucket'[b] = bucket[b]
    PROVE  Refill(b, bucket[b])'.tokens = Refill(b, bucket[b]).tokens
BY DEF Refill, Burst, Rate, Least

\* The right-hand side of the bound, as one number.
Allowance(b) == Burst(b) + Rate(b) * (clock - mark)

LEMMA AllowanceNat ==
    ASSUME TypeOK, NEW b \in Buckets
    PROVE  Allowance(b) \in Nat
<1>1. clock - mark \in Nat
  BY DEF TypeOK
<1> QED
  BY <1>1, BucketRates, RefillNat DEF Allowance

\* A charge moves a token from what the bucket holds to what it granted.
LEMMA ChargeKeepsRate ==
    ASSUME TypeOK, TypeOK', RateInv, NEW B, Charge(B),
           UNCHANGED <<clock, mark>>
    PROVE  RateInv'
<1> SUFFICES ASSUME NEW b \in Buckets
             PROVE  granted'[b] * Minute + Refill(b, bucket[b])'.tokens
                      <= Allowance(b)
  BY DEF RateInv, Allowance, Burst, Rate
<1>1. /\ bucket'[b] = (IF b \in B THEN Charged(b) ELSE bucket[b])
      /\ granted'[b] = (IF b \in B /\ Allows(b) THEN granted[b] + 1 ELSE granted[b])
  BY DEF Charge
<1>2. granted[b] * Minute + Refill(b, bucket[b]).tokens <= Allowance(b)
  BY DEF RateInv, Allowance
<1>3. granted[b] \in Nat /\ Minute \in Nat /\ Refill(b, bucket[b]).tokens \in Nat
  BY RefillBounds, BucketRates DEF TypeOK
<1>4. CASE b \notin B
  BY <1>1, <1>2, <1>4, RefillSame
<1>5. CASE b \in B
  <2>1. Refill(b, bucket[b])'.tokens = Charged(b).tokens
    BY <1>1, <1>5, ChargedBounds, RefillTwice
  <2>2. CASE Allows(b)
    <3>1. granted'[b] * Minute = granted[b] * Minute + Minute
      BY <1>1, <1>3, <1>5, <2>2, OneMore
    <3>2. Refill(b, bucket[b])'.tokens = Refill(b, bucket[b]).tokens - Minute
      BY <2>1, <2>2, ChargedBounds
    <3> DEFINE g == granted[b] * Minute
    <3>3. g \in Nat
      BY <1>3, RefillNat
    <3>4. Allowance(b) \in Nat
      BY AllowanceNat
    <3> HIDE DEF g
    <3> QED
      BY <1>2, <1>3, <3>1, <3>2, <3>3, <3>4 DEF g
  <2>3. CASE ~Allows(b)
    BY <1>1, <1>2, <2>1, <2>3, ChargedBounds
  <2> QED
    BY <2>2, <2>3
<1> QED
  BY <1>4, <1>5

\* Draining leaves a bucket with no more than it had.
LEMMA DrainKeepsRate ==
    ASSUME TypeOK, TypeOK', RateInv, NEW s \in Sockets, EventWithoutSession(s)
    PROVE  RateInv'
<1>1. bucket' = [bucket EXCEPT ![Aggregate(s)] = Drained(Aggregate(s))]
  BY DEF EventWithoutSession
<1>2. UNCHANGED <<clock, mark, granted>>
  BY DEF EventWithoutSession
<1> SUFFICES ASSUME NEW b \in Buckets
             PROVE  granted[b] * Minute + Refill(b, bucket[b])'.tokens
                      <= Allowance(b)
  BY <1>2 DEF RateInv, Allowance, Burst, Rate
<1>3. granted[b] * Minute + Refill(b, bucket[b]).tokens <= Allowance(b)
  BY DEF RateInv, Allowance
<1>4. granted[b] * Minute \in Nat /\ Allowance(b) \in Nat
  BY AllowanceNat, BucketRates, RefillNat DEF TypeOK
<1>5. CASE b # Aggregate(s)
  BY <1>1, <1>2, <1>3, <1>5, RefillSame DEF TypeOK
<1>6. CASE b = Aggregate(s)
  <2> DEFINE t == bucket[b].tokens  l == bucket[b].last
             x == (clock - l) * Rate(b)
  <2>1. bucket'[b] = [bucket[b] EXCEPT !.tokens = 0]
    BY <1>1, <1>6 DEF TypeOK, Drained
  <2>2. bucket'[b].tokens = 0 /\ bucket'[b].last = l
    BY <2>1 DEF TypeOK
  <2>3. t \in Nat /\ l \in Int /\ Burst(b) \in Nat /\ Rate(b) \in Nat
    BY BucketRates DEF TypeOK
  <2>4. l # Never => x \in Nat
    <3>1. l # Never => clock - l \in Nat
      BY <2>3 DEF TypeOK, Never
    <3> QED
      BY <3>1, <2>3, RefillNat
  <2>5. Refill(b, bucket[b])'.tokens
          = IF l = Never THEN 0 ELSE Least(Burst(b), 0 + x)
    BY <1>2, <2>2 DEF Refill, Burst, Rate, Least
  <2>6. Refill(b, bucket[b]).tokens
          = IF l = Never THEN t ELSE Least(Burst(b), t + x)
    BY DEF Refill
  <2> HIDE DEF x
  <2>7. /\ Refill(b, bucket[b])'.tokens <= Refill(b, bucket[b]).tokens
        /\ Refill(b, bucket[b])'.tokens \in Nat
        /\ Refill(b, bucket[b]).tokens \in Nat
    BY <2>3, <2>4, <2>5, <2>6 DEF Least
  <2> DEFINE g == granted[b] * Minute
  <2> HIDE DEF g
  <2> QED
    BY <1>3, <1>4, <2>7 DEF g
<1> QED
  BY <1>5, <1>6

\* A tick refills at most the rate, and that is what the window gains.
LEMMA TickKeepsRate ==
    ASSUME TypeOK, RateInv, Tick
    PROVE  RateInv'
<1>1. clock' = clock + 1 /\ UNCHANGED <<bucket, mark, granted>>
  BY DEF Tick
<1> SUFFICES ASSUME NEW b \in Buckets
             PROVE  granted[b] * Minute + Refill(b, bucket[b])'.tokens
                      <= Burst(b) + Rate(b) * (clock' - mark)
  BY <1>1 DEF RateInv, Burst, Rate
<1> DEFINE t == bucket[b].tokens  l == bucket[b].last  r == Rate(b)
           x == (clock - l) * r  g == granted[b] * Minute
<1>2. t \in Nat /\ l \in Int /\ l <= clock /\ Burst(b) \in Nat /\ r \in Nat /\ g \in Nat
      /\ clock \in Nat /\ t <= Burst(b)
  BY BucketRates, RefillNat DEF TypeOK
<1>3. Allowance(b) \in Nat /\ g + Refill(b, bucket[b]).tokens <= Allowance(b)
  BY AllowanceNat DEF RateInv, Allowance
<1>4. Burst(b) + r * (clock' - mark) = Allowance(b) + r
  <2>1. clock - mark \in Nat /\ clock' - mark = (clock - mark) + 1
    BY <1>1 DEF TypeOK
  <2>2. r * (clock' - mark) = r * (clock - mark) + r /\ r * (clock - mark) \in Nat
    BY <2>1, <1>2, OneMore, RefillNat
  <2> QED
    BY <2>2, <1>2 DEF Allowance
<1>5. Refill(b, bucket[b])'.tokens <= Refill(b, bucket[b]).tokens + r
      /\ Refill(b, bucket[b])'.tokens \in Nat /\ Refill(b, bucket[b]).tokens \in Nat
  <2>1. CASE l = Never
    BY <1>1, <1>2, <2>1 DEF Refill
  <2>2. CASE l # Never
    <3>1. clock - l \in Nat /\ clock' - l = (clock - l) + 1
      BY <1>1, <1>2
    <3>2. (clock' - l) * r = x + r /\ x \in Nat
      BY <3>1, <1>2, OneMore, RefillNat
    <3>3. Refill(b, bucket[b])'.tokens = Least(Burst(b), t + (x + r))
      BY <1>1, <2>2, <3>2 DEF Refill, Burst, Rate, Least
    <3>4. Refill(b, bucket[b]).tokens = Least(Burst(b), t + x)
      BY <2>2 DEF Refill
    <3> HIDE DEF x
    <3> QED
      BY <1>2, <3>2, <3>3, <3>4 DEF Least
  <2> QED
    BY <2>1, <2>2
<1> HIDE DEF g, r
<1> QED
  BY <1>2, <1>3, <1>4, <1>5 DEF g, r

\* A window that starts now has granted nothing, and no bucket is over-full.
LEMMA WindowKeepsRate ==
    ASSUME TypeOK, StartWindow
    PROVE  RateInv'
<1>1. /\ mark' = clock /\ clock' = clock /\ bucket' = bucket
      /\ granted' = [b \in Buckets |-> 0]
  BY DEF StartWindow
<1> SUFFICES ASSUME NEW b \in Buckets
             PROVE  0 * Minute + Refill(b, bucket[b])'.tokens
                      <= Burst(b) + Rate(b) * (clock - clock)
  BY <1>1 DEF RateInv, Burst, Rate
<1>2. Refill(b, bucket[b])'.tokens <= Burst(b) /\ Refill(b, bucket[b])'.tokens \in Nat
  BY <1>1, RefillBounds, RefillSame
<1>3. 0 * Minute = 0 /\ Rate(b) * (clock - clock) = 0 /\ Burst(b) \in Nat
  BY BucketRates, ZeroTimes DEF TypeOK
<1> QED
  BY <1>2, <1>3

LEMMA RateStep == TypeOK /\ TypeOK' /\ RateInv /\ [Next]_vars => RateInv'
<1> SUFFICES ASSUME TypeOK, TypeOK', RateInv, [Next]_vars PROVE RateInv'
  OBVIOUS
<1>a. ASSUME UNCHANGED <<clock, mark, bucket, granted>> PROVE RateInv'
  BY <1>a DEF RateInv, Refill, Burst, Rate, Least
<1>1. ASSUME NEW s \in Sockets, SocketNext(s) PROVE RateInv'
  <2>1. CASE Connect(s)
    BY <2>1, ChargeKeepsRate DEF Connect
  <2>2. CASE AuthTooMany(s)
    BY <2>2, <1>a DEF AuthTooMany
  <2>3. CASE AuthRateLimited(s)
    BY <2>3, ChargeKeepsRate DEF AuthRateLimited
  <2>4. ASSUME NEW d, AuthLockedOut(s, d) PROVE RateInv'
    BY <2>4, ChargeKeepsRate DEF AuthLockedOut
  <2>5. ASSUME NEW d, AuthFails(s, d) PROVE RateInv'
    BY <2>5, ChargeKeepsRate DEF AuthFails, ReachesEngine
  <2>6. ASSUME NEW d, AuthSucceeds(s, d) PROVE RateInv'
    BY <2>6, ChargeKeepsRate DEF AuthSucceeds, ReachesEngine
  <2>7. CASE EventWithoutSession(s)
    BY <2>7, DrainKeepsRate
  <2>8. ASSUME NEW domain \in Domains, Event(s, domain) PROVE RateInv'
    BY <2>8, ChargeKeepsRate DEF Event
  <2>9. CASE Close(s)
    BY <2>9, <1>a DEF Close
  <2> QED
    BY <1>1, <2>1, <2>2, <2>3, <2>4, <2>5, <2>6, <2>7, <2>8, <2>9 DEF SocketNext
<1>2. CASE Tick
  BY <1>2, TickKeepsRate
<1>3. CASE StartWindow
  BY <1>3, WindowKeepsRate
<1>4. CASE UNCHANGED vars
  BY <1>4, <1>a DEF vars
<1> QED
  BY <1>1, <1>2, <1>3, <1>4 DEF Next

LEMMA InitRate == Init => RateInv
<1> SUFFICES ASSUME Init, NEW b \in Buckets
             PROVE  0 * Minute + Burst(b) <= Burst(b) + Rate(b) * (0 - 0)
  BY DEF Init, RateInv, NewBucket, Refill
<1>1. 0 * Minute = 0 /\ Rate(b) * (0 - 0) = 0 /\ Burst(b) \in Nat
  BY BucketRates, ZeroTimes
<1> QED
  BY <1>1

LEMMA RateInvImplies == TypeOK /\ RateInv => RateBound
<1> SUFFICES ASSUME TypeOK, RateInv, NEW b \in Buckets
             PROVE  granted[b] * Minute <= Burst(b) + Rate(b) * (clock - mark)
  BY DEF RateBound
<1>1. granted[b] * Minute + Refill(b, bucket[b]).tokens <= Allowance(b)
  BY DEF RateInv, Allowance
<1>2. granted[b] * Minute \in Nat /\ Allowance(b) \in Nat
      /\ Refill(b, bucket[b]).tokens \in Nat
  BY AllowanceNat, RefillBounds, BucketRates, RefillNat DEF TypeOK
<1> DEFINE g == granted[b] * Minute
<1> HIDE DEF g
<1>3. g <= Allowance(b)
  BY <1>1, <1>2 DEF g
<1> QED
  BY <1>3 DEF g, Allowance

\* In any window a token bucket grants at most its burst plus the refill of
\* the window, for every rate and every pattern of calls.
THEOREM RateBoundTheorem == Spec => []RateBound
<1>1. TypeOK /\ RateInv /\ [Next]_vars => (TypeOK /\ RateInv)'
  BY TypeStep, RateStep
<1> QED
  BY <1>1, InitTypes, InitRate, RateInvImplies, PTL DEF Spec

-----------------------------------------------------------------------------
(* The lockout bound *)

\* No entry counts more failures than the threshold, an entry counts at least
\* one, and its first failure is in the past.
CountInv ==
    \A k \in ScopeKeys :
        /\ failures[k].count <= LockoutThreshold
        /\ failures[k].firstAt <= clock
        /\ failures[k].count = 0 => failures[k] = NoEntry

\* While the window lasts: failures of an entry that began before the window
\* exclude its first one; an entry that began inside it can follow at most
\* one earlier entry, which was of the first kind.
LockInv ==
    clock - mark <= LockoutMs => \A k \in ScopeKeys :
        failed[k] <=
            IF failures[k].count = 0 THEN LockoutThreshold - 1
            ELSE IF failures[k].firstAt < mark THEN failures[k].count - 1
            ELSE (LockoutThreshold - 1) + failures[k].count

\* One key after a recorded failure that the lockout check let through.
LEMMA RecordKeepsLock ==
    ASSUME TypeOK, CountInv, LockInv, clock' = clock, mark' = mark,
           NEW k \in ScopeKeys, ~IsLocked(k),
           failures'[k] = Recorded(k), failed'[k] = failed[k] + 1
    PROVE  /\ failures'[k].count <= LockoutThreshold
           /\ failures'[k].firstAt <= clock
           /\ failures'[k].count # 0
           /\ clock - mark <= LockoutMs =>
                failed'[k] <= IF failures'[k].firstAt < mark
                              THEN failures'[k].count - 1
                              ELSE (LockoutThreshold - 1) + failures'[k].count
<1> USE LockoutAssumption
<1>1. failures[k] \in [count : Nat, firstAt : Nat] /\ failed[k] \in Nat
      /\ clock \in Nat /\ mark \in Nat /\ mark <= clock
  BY DEF TypeOK
<1>2. CASE failures[k] = NoEntry \/ Stale(k)
  <2>1. failures'[k].count = 1 /\ failures'[k].firstAt = clock
    BY <1>2 DEF Recorded
  <2>2. clock - mark <= LockoutMs => failed[k] <= LockoutThreshold - 1
    BY <1>1, <1>2 DEF LockInv, CountInv, Stale, NoEntry
  <2> QED
    BY <1>1, <2>1, <2>2
<1>3. CASE ~(failures[k] = NoEntry \/ Stale(k))
  <2>1. /\ failures'[k].count = failures[k].count + 1
        /\ failures'[k].firstAt = failures[k].firstAt
    BY <1>1, <1>3 DEF Recorded
  <2>2. failures[k].count < LockoutThreshold /\ failures[k].count # 0
    BY <1>1, <1>3 DEF IsLocked, CountInv
  <2> QED
    BY <1>1, <2>1, <2>2 DEF LockInv, CountInv
<1> QED
  BY <1>2, <1>3

\* Forgetting stale or cleared keys.
LEMMA ForgetKeepsLock ==
    ASSUME TypeOK, CountInv, LockInv, UNCHANGED <<clock, mark>>,
           NEW K, failures' = Forget(K),
           \A k \in ScopeKeys : \/ failed'[k] = 0
                                \/ /\ failed'[k] = failed[k]
                                   /\ k \in K => Stale(k)
    PROVE  CountInv' /\ LockInv'
<1> USE LockoutAssumption
<1> SUFFICES ASSUME NEW k \in ScopeKeys
             PROVE  /\ failures'[k].count <= LockoutThreshold
                    /\ failures'[k].firstAt <= clock
                    /\ failures'[k].count = 0 => failures'[k] = NoEntry
                    /\ clock - mark <= LockoutMs => failed'[k] <=
                         IF failures'[k].count = 0 THEN LockoutThreshold - 1
                         ELSE IF failures'[k].firstAt < mark
                         THEN failures'[k].count - 1
                         ELSE (LockoutThreshold - 1) + failures'[k].count
  BY DEF CountInv, LockInv, NoEntry
<1>1. failures[k] \in [count : Nat, firstAt : Nat] /\ failed[k] \in Nat
      /\ clock \in Nat /\ mark \in Nat /\ mark <= clock
  BY DEF TypeOK
<1>2. failures'[k] = IF k \in K THEN NoEntry ELSE failures[k]
  BY DEF Forget
<1>3. clock - mark <= LockoutMs => failed[k] <=
         IF failures[k].count = 0 THEN LockoutThreshold - 1
         ELSE IF failures[k].firstAt < mark THEN failures[k].count - 1
         ELSE (LockoutThreshold - 1) + failures[k].count
  BY DEF LockInv
<1>4. /\ failures[k].count <= LockoutThreshold
      /\ failures[k].firstAt <= clock
      /\ failures[k].count = 0 => failures[k] = NoEntry
  BY DEF CountInv
<1>5. CASE k \notin K
  BY <1>1, <1>2, <1>3, <1>4, <1>5
<1>6. CASE k \in K
  <2>1. failures'[k].count = 0 /\ failures'[k].firstAt = 0
    BY <1>2, <1>6 DEF NoEntry
  <2>2. CASE failed'[k] = 0
    BY <1>1, <1>2, <1>6, <2>1, <2>2
  <2>3. CASE failed'[k] = failed[k] /\ Stale(k)
    <3>1. clock - mark <= LockoutMs => failures[k].firstAt < mark
      BY <1>1, <2>3 DEF Stale
    <3> QED
      BY <1>1, <1>2, <1>3, <1>4, <1>6, <2>1, <2>3, <3>1 DEF Stale
  <2> QED
    BY <1>6, <2>2, <2>3
<1> QED
  BY <1>5, <1>6

LEMMA LockStep ==
    TypeOK /\ CountInv /\ LockInv /\ [Next]_vars => CountInv' /\ LockInv'
<1> SUFFICES ASSUME TypeOK, CountInv, LockInv, [Next]_vars
             PROVE  CountInv' /\ LockInv'
  OBVIOUS
<1> USE LockoutAssumption
<1>a. ASSUME UNCHANGED <<clock, mark, failures, failed>> PROVE CountInv' /\ LockInv'
  BY <1>a DEF CountInv, LockInv
<1>1. ASSUME NEW s \in Sockets, SocketNext(s) PROVE CountInv' /\ LockInv'
  <2>1. CASE Connect(s)
    BY <2>1, <1>a DEF Connect
  <2>2. CASE AuthTooMany(s)
    BY <2>2, <1>a DEF AuthTooMany
  <2>3. CASE AuthRateLimited(s)
    BY <2>3, <1>a DEF AuthRateLimited
  <2>4. ASSUME NEW d, AuthLockedOut(s, d) PROVE CountInv' /\ LockInv'
    <3>1. PICK seen \in SUBSET StaleIn(LockoutKeys(s, d)) : failures' = Forget(seen)
      BY <2>4 DEF AuthLockedOut
    <3>2. \A k \in seen : Stale(k)
      BY <3>1 DEF StaleIn
    <3> QED
      BY <2>4, <3>1, <3>2, ForgetKeepsLock DEF AuthLockedOut
  <2>5. ASSUME NEW d, AuthFails(s, d) PROVE CountInv' /\ LockInv'
    <3> DEFINE keys == LockoutKeys(s, d)
    <3>1. UNCHANGED <<clock, mark>> /\ \A k \in keys : ~IsLocked(k)
      BY <2>5 DEF AuthFails, ReachesEngine
    <3>2. \A k \in ScopeKeys :
             /\ failures'[k] = IF k \in keys THEN Recorded(k) ELSE failures[k]
             /\ failed'[k] = IF k \in keys THEN failed[k] + 1 ELSE failed[k]
      BY <2>5 DEF AuthFails
    <3> HIDE DEF keys
    <3> SUFFICES ASSUME NEW k \in ScopeKeys
                 PROVE  /\ failures'[k].count <= LockoutThreshold
                        /\ failures'[k].firstAt <= clock
                        /\ failures'[k].count = 0 => failures'[k] = NoEntry
                        /\ clock - mark <= LockoutMs => failed'[k] <=
                             IF failures'[k].count = 0 THEN LockoutThreshold - 1
                             ELSE IF failures'[k].firstAt < mark
                             THEN failures'[k].count - 1
                             ELSE (LockoutThreshold - 1) + failures'[k].count
      BY <3>1 DEF CountInv, LockInv, NoEntry
    <3>3. CASE k \in keys
      BY <3>1, <3>2, <3>3, RecordKeepsLock
    <3>4. CASE k \notin keys
      BY <3>1, <3>2, <3>4 DEF CountInv, LockInv
    <3> QED
      BY <3>3, <3>4
  <2>6. ASSUME NEW d, AuthSucceeds(s, d) PROVE CountInv' /\ LockInv'
    <3> DEFINE cleared == {k \in LockoutKeys(s, d) : k[1] = "device"}
               stale == StaleIn(LockoutKeys(s, d))
    <3>1. /\ failures' = Forget(cleared \union stale)
          /\ failed' = [k \in ScopeKeys |-> IF k \in cleared THEN 0 ELSE failed[k]]
          /\ UNCHANGED <<clock, mark>>
      BY <2>6 DEF AuthSucceeds
    <3>2. \A k \in stale : Stale(k)
      BY DEF StaleIn
    <3> HIDE DEF cleared, stale
    <3> QED
      BY <3>1, <3>2, ForgetKeepsLock
  <2>7. CASE EventWithoutSession(s)
    BY <2>7, <1>a DEF EventWithoutSession
  <2>8. ASSUME NEW domain \in Domains, Event(s, domain) PROVE CountInv' /\ LockInv'
    BY <2>8, <1>a DEF Event
  <2>9. CASE Close(s)
    BY <2>9, <1>a DEF Close
  <2> QED
    BY <1>1, <2>1, <2>2, <2>3, <2>4, <2>5, <2>6, <2>7, <2>8, <2>9 DEF SocketNext
<1>2. CASE Tick
  BY <1>2 DEF Tick, CountInv, LockInv, TypeOK
<1>3. CASE StartWindow
  <2>1. /\ mark' = clock /\ clock' = clock /\ failures' = failures
        /\ \A k \in ScopeKeys : failed'[k] = 0
    BY <1>3 DEF StartWindow
  <2>2. failures \in [ScopeKeys -> [count : Nat, firstAt : Nat]]
    BY DEF TypeOK
  <2> QED
    BY <2>1, <2>2 DEF CountInv, LockInv
<1>4. CASE UNCHANGED vars
  BY <1>4, <1>a DEF vars
<1> QED
  BY <1>1, <1>2, <1>3, <1>4 DEF Next

LEMMA InitLock == Init => CountInv /\ LockInv
BY LockoutAssumption DEF Init, CountInv, LockInv, NoEntry

LEMMA LockInvImplies == TypeOK /\ CountInv /\ LockInv => LockoutBound
BY LockoutAssumption DEF TypeOK, CountInv, LockInv, LockoutBound

\* Fewer than twice the threshold of failed proofs per window of LockoutMs,
\* for every threshold and window and any number of sockets and addresses.
THEOREM LockoutBoundTheorem == Spec => []LockoutBound
<1>1. TypeOK /\ CountInv /\ LockInv /\ [Next]_vars => (TypeOK /\ CountInv /\ LockInv)'
  BY TypeStep, LockStep
<1> QED
  BY <1>1, InitTypes, InitLock, LockInvImplies, PTL DEF Spec
=============================================================================
