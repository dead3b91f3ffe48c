------------------------------ MODULE Admission ------------------------------
(***************************************************************************)
(* Admission control of the realtime server: TokenBucketRateLimiter (one   *)
(* per IP for new connections, one per socket and domain, one aggregate    *)
(* per socket), AuthFailureTracker, and the handlers that consult them:    *)
(* connectionMiddleware, onAuthResponse up to and after the engine's       *)
(* verdict, requireSession and consumeRate.                                *)
(*                                                                         *)
(* A token is Minute units of refill, so that a bucket of perMinute tokens *)
(* a minute gains perMinute units per clock unit and all amounts are       *)
(* integers (the code uses fractions of a token).                          *)
(***************************************************************************)
EXTENDS Integers, FiniteSets

CONSTANTS
    Sockets,           \* socket ids; each has limiters of its own
    Ips,               \* client addresses
    IpOf,              \* the address of each socket
    Devices,           \* device ids a client may claim
    Domains,           \* rate limited event domains (message, sync, ...)
    PerMinute,         \* tokens per minute, and burst, of each kind of bucket
    Minute,            \* clock units in a minute
    MaxAuthAttempts,   \* config.maxAuthAttemptsPerConnection
    LockoutThreshold,  \* config.authFailuresLockout
    LockoutMs,         \* config.authLockoutMs, which is also the window
    LockoutScopes,     \* config.authLockoutScopes
    MaxTime            \* bound: last clock value explored

Kinds == Domains \union {"ip", "auth", "aggregate"}

ASSUME SocketAssumption == IpOf \in [Sockets -> Ips]
ASSUME RateAssumption == PerMinute \in [Kinds -> Nat \ {0}]
ASSUME MinuteAssumption == Minute \in Nat \ {0}
ASSUME LockoutAssumption ==
    LockoutThreshold \in Nat \ {0} /\ LockoutMs \in Nat
ASSUME ScopeAssumption == LockoutScopes \subseteq {"device", "ip"}
ASSUME AttemptAssumption == MaxAuthAttempts \in Nat
ASSUME BoundAssumption == MaxTime \in Nat

VARIABLES
    clock,     \* the injected clock
    conn,      \* socket -> "new" | "open" | "authenticated" | "closed"
    attempts,  \* socket -> socket.data.authAttempts
    bucket,    \* bucket name -> tokens (in units) and time of the last refill
    failures,  \* AuthFailureTracker.failures: scope key -> count and firstAtMs
    mark,      \* history: start of the window the bounds are stated for
    granted,   \* history: bucket name -> tokens granted since mark
    failed     \* history: scope key -> failures recorded since mark

vars == <<clock, conn, attempts, bucket, failures, mark, granted,
          failed>>

-----------------------------------------------------------------------------
(* TokenBucketRateLimiter *)

\* A bucket is named by its kind and by its address or socket.
Buckets == ({"ip"} \X Ips) \union
           ((Domains \union {"auth", "aggregate"}) \X Sockets)

Rate(b) == PerMinute[b[1]]
Burst(b) == PerMinute[b[1]] * Minute

Never == -1

NewBucket(b) == [tokens |-> Burst(b), last |-> Never]

Least(m, n) == IF m <= n THEN m ELSE n

\* Mutant: the refill is not capped by the burst.
RefillUncapped(b, state) ==
    [tokens |-> IF state.last = Never THEN state.tokens
                ELSE state.tokens + (clock - state.last) * Rate(b),
     last |-> clock]

\* The first call only starts the clock of the bucket.
Refill(b, state) ==
    [tokens |-> IF state.last = Never THEN state.tokens
                ELSE Least(Burst(b), state.tokens + (clock - state.last) * Rate(b)),
     last |-> clock]

\* allow() takes a token, if there is a whole one after the refill.
Allows(b) == Refill(b, bucket[b]).tokens >= Minute

\* Mutant: a refused call is charged too.
ChargedAlways(b) == [Refill(b, bucket[b]) EXCEPT !.tokens = @ - Minute]

Charged(b) ==
    [Refill(b, bucket[b]) EXCEPT !.tokens = IF Allows(b) THEN @ - Minute ELSE @]

Drained(b) == [bucket[b] EXCEPT !.tokens = 0]

\* allow() was called on the buckets of B.
Charge(B) ==
    /\ bucket' = [b \in Buckets |-> IF b \in B THEN Charged(b) ELSE bucket[b]]
    /\ granted' = [b \in Buckets |->
                     IF b \in B /\ Allows(b) THEN granted[b] + 1 ELSE granted[b]]

\* `first.allow() && second.allow()`: the second bucket is consulted only
\* when the first one allows.
Consulted(first, second) == IF Allows(first) THEN {first, second} ELSE {first}
BothAllow(first, second) == Allows(first) /\ Allows(second)

-----------------------------------------------------------------------------
(* AuthFailureTracker *)

NoEntry == [count |-> 0, firstAt |-> 0]

ScopeKeys == ({"device"} \X Devices) \union ({"ip"} \X Ips)

\* lockoutScopeKeys; d is the claimed device, NoDevice a payload without one.
NoDevice == "none"
LockoutKeys(s, d) ==
    {k \in {<<"device", d>>, <<"ip", IpOf[s]>>} :
        k \in ScopeKeys /\ k[1] \in LockoutScopes}

\* The window of an entry is counted from its first failure.
Stale(k) == failures[k] # NoEntry /\ clock - failures[k].firstAt > LockoutMs

IsLocked(k) == ~Stale(k) /\ failures[k].count >= LockoutThreshold

\* isLocked() deletes a stale entry it meets.
Forget(keys) ==
    [k \in ScopeKeys |-> IF k \in keys THEN NoEntry ELSE failures[k]]

StaleIn(keys) == {k \in keys : Stale(k)}

\* recordFailure(): a new window or one failure more.
Recorded(k) ==
    IF failures[k] = NoEntry \/ Stale(k)
    THEN [count |-> 1, firstAt |-> clock]
    ELSE [failures[k] EXCEPT !.count = @ + 1]

-----------------------------------------------------------------------------
(* Handlers *)

Init ==
    /\ clock = 0
    /\ conn = [s \in Sockets |-> "new"]
    /\ attempts = [s \in Sockets |-> 0]
    /\ bucket = [b \in Buckets |-> NewBucket(b)]
    /\ failures = [k \in ScopeKeys |-> NoEntry]
    /\ mark = 0
    /\ granted = [b \in Buckets |-> 0]
    /\ failed = [k \in ScopeKeys |-> 0]

\* connectionMiddleware
Connect(s) ==
    LET ip == <<"ip", IpOf[s]>> IN
    /\ conn[s] = "new"
    /\ Charge({ip})
    /\ conn' = [conn EXCEPT ![s] = IF Allows(ip) THEN "open" ELSE "closed"]
    /\ UNCHANGED <<clock, attempts, failures, mark, failed>>

Live(s) == conn[s] \in {"open", "authenticated"}

\* onAuthResponse up to the lockout check: the attempt is counted, and past
\* the limit nothing else is looked at.
CountAttempt(s) == attempts' = [attempts EXCEPT ![s] = @ + 1]

WithinAttempts(s) == attempts[s] < MaxAuthAttempts

Auth(s) == <<"auth", s>>
Aggregate(s) == <<"aggregate", s>>

\* Bound: attempts past the limit all end alike, one of them is explored.
AuthTooMany(s) ==
    /\ Live(s)
    /\ attempts[s] = MaxAuthAttempts
    /\ CountAttempt(s)
    /\ UNCHANGED <<clock, conn, bucket, failures, mark, granted, failed>>

AuthRateLimited(s) ==
    /\ Live(s) /\ WithinAttempts(s)
    /\ CountAttempt(s)
    /\ ~BothAllow(Auth(s), Aggregate(s))
    /\ Charge(Consulted(Auth(s), Aggregate(s)))
    /\ UNCHANGED <<clock, conn, failures, mark, failed>>

\* The lockout check stops at the first locked key, so it may have deleted
\* the stale entry of the other one or not.
AuthLockedOut(s, d) ==
    /\ Live(s) /\ WithinAttempts(s)
    /\ CountAttempt(s)
    /\ BothAllow(Auth(s), Aggregate(s))
    /\ Charge({Auth(s), Aggregate(s)})
    /\ \E k \in LockoutKeys(s, d) : IsLocked(k)
    /\ \E seen \in SUBSET StaleIn(LockoutKeys(s, d)) : failures' = Forget(seen)
    /\ UNCHANGED <<clock, conn, mark, failed>>

\* Mutant: the handshake is tried although a key is locked.
ReachesEngineAlways(s, d) ==
    /\ Live(s) /\ WithinAttempts(s)
    /\ CountAttempt(s)
    /\ BothAllow(Auth(s), Aggregate(s))
    /\ Charge({Auth(s), Aggregate(s)})

\* The response gets as far as HandshakeEngine.handleAuthResponse.
ReachesEngine(s, d) ==
    /\ Live(s) /\ WithinAttempts(s)
    /\ CountAttempt(s)
    /\ BothAllow(Auth(s), Aggregate(s))
    /\ Charge({Auth(s), Aggregate(s)})
    /\ \A k \in LockoutKeys(s, d) : ~IsLocked(k)

\* The engine rejects: a failure for every scope key.
AuthFails(s, d) ==
    /\ ReachesEngine(s, d)
    /\ failures' = [k \in ScopeKeys |->
                      IF k \in LockoutKeys(s, d) THEN Recorded(k) ELSE failures[k]]
    /\ failed' = [k \in ScopeKeys |->
                    IF k \in LockoutKeys(s, d) THEN failed[k] + 1 ELSE failed[k]]
    /\ UNCHANGED <<clock, conn, mark>>

\* The engine accepts: the device key is cleared, the address key is not.
AuthSucceeds(s, d) ==
    LET cleared == {k \in LockoutKeys(s, d) : k[1] = "device"} IN
    /\ ReachesEngine(s, d)
    /\ d # NoDevice
    /\ failures' = Forget(cleared \union StaleIn(LockoutKeys(s, d)))
    /\ failed' = [k \in ScopeKeys |-> IF k \in cleared THEN 0 ELSE failed[k]]
    /\ conn' = [conn EXCEPT ![s] = "authenticated"]
    /\ UNCHANGED <<clock, mark>>

\* requireSession without a session: a protocol violation drains the
\* aggregate bucket.
EventWithoutSession(s) ==
    /\ conn[s] = "open"
    /\ bucket' = [bucket EXCEPT ![Aggregate(s)] = Drained(Aggregate(s))]
    /\ UNCHANGED <<clock, conn, attempts, failures, mark, granted, failed>>

\* consumeRate in front of an event of a domain; a refusal by the aggregate
\* bucket has already cost a token of the domain.
Event(s, domain) ==
    /\ conn[s] = "authenticated"
    /\ Charge(Consulted(<<domain, s>>, Aggregate(s)))
    /\ UNCHANGED <<clock, conn, attempts, failures, mark, failed>>

\* The timer that every refusal above arms, or the client, closes the socket;
\* until then further packets of the socket are handled.
Close(s) ==
    /\ Live(s)
    /\ conn' = [conn EXCEPT ![s] = "closed"]
    /\ UNCHANGED <<clock, attempts, bucket, failures, mark, granted, failed>>

Tick ==
    /\ clock < MaxTime
    /\ clock' = clock + 1
    /\ UNCHANGED <<conn, attempts, bucket, failures, mark, granted,
                   failed>>

\* History: the window of the bounds starts at any one moment.
StartWindow ==
    /\ mark = 0
    /\ mark' = clock
    /\ granted' = [b \in Buckets |-> 0]
    /\ failed' = [k \in ScopeKeys |-> 0]
    /\ UNCHANGED <<clock, conn, attempts, bucket, failures>>

SocketNext(s) ==
    \/ Connect(s)
    \/ AuthTooMany(s)
    \/ AuthRateLimited(s)
    \/ \E d \in Devices \union {NoDevice} :
          AuthLockedOut(s, d) \/ AuthFails(s, d) \/ AuthSucceeds(s, d)
    \/ EventWithoutSession(s)
    \/ \E domain \in Domains : Event(s, domain)
    \/ Close(s)

Next == (\E s \in Sockets : SocketNext(s)) \/ Tick \/ StartWindow

Spec == Init /\ [][Next]_vars

-----------------------------------------------------------------------------
(* Properties *)

\* Tokens stay between zero and the burst, counters are naturals.
TypeOK ==
    /\ clock \in Nat
    /\ conn \in [Sockets -> {"new", "open", "authenticated", "closed"}]
    /\ attempts \in [Sockets -> Nat]
    /\ bucket \in [Buckets -> [tokens : Nat, last : Int]]
    /\ \A b \in Buckets :
          bucket[b].tokens <= Burst(b) /\ bucket[b].last \in Never .. clock
    /\ failures \in [ScopeKeys -> [count : Nat, firstAt : Nat]]
    /\ mark \in 0 .. clock
    /\ granted \in [Buckets -> Nat]
    /\ failed \in [ScopeKeys -> Nat]

\* Whatever the pattern of events, refusals and drains: in any window a bucket
\* grants no more than its burst and what it refills in that time.
RateBound ==
    \A b \in Buckets :
        granted[b] * Minute <= Burst(b) + Rate(b) * (clock - mark)

\* In any window of LockoutMs fewer than twice LockoutThreshold failed proofs
\* of an address or device reach the engine, however they are spread over
\* sockets and over the tracker's own windows (for a device: since its last
\* success, which clears its key).
LockoutBound ==
    \A k \in ScopeKeys :
        clock - mark <= LockoutMs => failed[k] <= 2 * LockoutThreshold - 1
=============================================================================
