-------------------------- MODULE NovaClientProofs --------------------------
(***************************************************************************)
(* Proofs about NovaClient, for any set of messages, any page limit and    *)
(* any number of connections: the invariants of the reference client       *)
(* follow from what the packets on their way say.  However late the client *)
(* deals with a packet (in flight, buffered in a queue, or handed to a     *)
(* waiter that has not gone on yet), an ack names a logged message, a      *)
(* session belongs to the current socket and a page leaves no gap above    *)
(* the cursor.                                                             *)
(***************************************************************************)
EXTENDS NovaClient, FiniteSetTheorems, SequenceTheorems, WellFoundedInduction, TLAPS

-----------------------------------------------------------------------------
(* What applySync computes, by induction over the page *)

\* g goes through the page, starting from what was applied before.
Applying(a, page, g, n) ==
    g = [i \in 0 .. n |->
           IF i = 0 THEN a
           ELSE IF page[i] \in ToSet(g[i - 1]) THEN g[i - 1]
           ELSE Append(g[i - 1], page[i])]

\* A set of numbers that is not empty has a least element.
LEMMA LeastNumber ==
    ASSUME NEW T \in SUBSET Nat, T # {}
    PROVE  \E x \in T : \A y \in T : x <= y
<1>1. PICK x \in T : \A y \in T : ~(<<y, x>> \in OpToRel(<, Nat))
  BY NatLessThanWellFounded, WFMin, Zenon
<1>2. ASSUME NEW y \in T PROVE x <= y
  <2>1. ~(y < x)
    BY <1>1, Zenon DEF OpToRel
  <2> QED
    BY <2>1
<1> QED
  BY <1>2

\* The loop can be run to the end of any page: else there is a shortest page
\* for which it cannot, and the run for all but its last event can be extended.
LEMMA ApplyingExists ==
    ASSUME NEW a, NEW page, NEW n \in Nat
    PROVE  \E g : Applying(a, page, g, n)
<1> DEFINE T == {m \in Nat : ~ \E g : Applying(a, page, g, m)}
<1> SUFFICES ASSUME T # {} PROVE FALSE
  OBVIOUS
<1>1. PICK m \in T : \A y \in T : m <= y
  BY LeastNumber
<1>2. m # 0
  <2>1. Applying(a, page, [i \in 0 .. 0 |-> a], 0)
    BY DEF Applying
  <2> QED
    BY <1>1, <2>1
<1>3. m \in Nat /\ m - 1 \in Nat /\ m - 1 \notin T
  BY <1>1, <1>2
<1>4. PICK g : Applying(a, page, g, m - 1)
  BY <1>3
<1> DEFINE h == [i \in 0 .. m |->
                   IF i < m THEN g[i]
                   ELSE IF page[m] \in ToSet(g[m - 1]) THEN g[m - 1]
                   ELSE Append(g[m - 1], page[m])]
<1>5. Applying(a, page, h, m)
  <2>1. DOMAIN h = 0 .. m
    OBVIOUS
  <2>2. ASSUME NEW i \in 0 .. m
        PROVE  h[i] = IF i = 0 THEN a
                      ELSE IF page[i] \in ToSet(h[i - 1]) THEN h[i - 1]
                      ELSE Append(h[i - 1], page[i])
    <3>1. CASE i = m
      <4>1. i # 0 /\ h[i - 1] = g[m - 1]
        BY <1>3, <3>1, <1>2
      <4> QED
        BY <1>3, <3>1, <4>1
    <3>2. CASE i # m
      <4>1. i \in 0 .. m - 1 /\ h[i] = g[i]
        BY <1>3, <3>2
      <4>2. i # 0 => i - 1 \in 0 .. m - 1 /\ h[i - 1] = g[i - 1]
        BY <1>3, <3>2
      <4>3. g[i] = IF i = 0 THEN a
                   ELSE IF page[i] \in ToSet(g[i - 1]) THEN g[i - 1]
                   ELSE Append(g[i - 1], page[i])
        BY <1>4, <4>1, Zenon DEF Applying
      <4> HIDE DEF h
      <4> QED
        BY <4>1, <4>2, <4>3
    <3> QED
      BY <3>1, <3>2
  <2>3. h = [i \in 0 .. m |-> h[i]]
    OBVIOUS
  <2> HIDE DEF h
  <2> QED
    BY <2>2, <2>3, Zenon DEF Applying
<1> QED
  BY <1>1, <1>5

\* A sequence without repetitions stays one when a new element is appended.
LEMMA AppendOnce ==
    ASSUME NEW S, NEW s \in Seq(S), NEW x \in S
    PROVE  /\ Append(s, x) \in Seq(S)
           /\ ToSet(Append(s, x)) = ToSet(s) \union {x}
           /\ IsInjective(s) /\ x \notin ToSet(s) => IsInjective(Append(s, x))
<1> DEFINE r == Append(s, x)
<1>1. /\ r \in Seq(S) /\ Len(s) \in Nat /\ DOMAIN s = 1 .. Len(s)
      /\ DOMAIN r = 1 .. Len(s) + 1
      /\ r[Len(s) + 1] = x /\ \A i \in 1 .. Len(s) : r[i] = s[i]
  OBVIOUS
<1> HIDE DEF r
<1>2. ToSet(r) = ToSet(s) \union {x}
  <2>1. 1 .. Len(s) + 1 = (1 .. Len(s)) \union {Len(s) + 1}
    BY <1>1
  <2> QED
    BY <1>1, <2>1 DEF ToSet
<1>3. ASSUME IsInjective(s), x \notin ToSet(s) PROVE IsInjective(r)
  <2> SUFFICES ASSUME NEW i \in DOMAIN r, NEW j \in DOMAIN r, r[i] = r[j]
               PROVE  i = j
    BY DEF IsInjective
  <2>1. \A k \in 1 .. Len(s) : s[k] \in ToSet(s)
    BY <1>1 DEF ToSet
  <2>2. CASE i \in 1 .. Len(s) /\ j \in 1 .. Len(s)
    BY <1>1, <1>3, <2>2 DEF IsInjective
  <2>3. CASE i = Len(s) + 1 \/ j = Len(s) + 1
    BY <1>1, <1>3, <2>1, <2>3
  <2> QED
    BY <1>1, <2>2, <2>3
<1> QED
  BY <1>1, <1>2, <1>3 DEF r

\* What applySync leaves: each message once, those of the page and those that
\* were there, and no other.
LEMMA AppliedMeans ==
    ASSUME NEW S, applied \in Seq(S), NEW page \in Seq(S), IsInjective(applied)
    PROVE  /\ Applied(page) \in Seq(S) /\ IsInjective(Applied(page))
           /\ ToSet(Applied(page)) = Inbox \union ToSet(page)
<1>1. Len(page) \in Nat
  OBVIOUS
<1>2. PICK g : Applying(applied, page, g, Len(page)) /\ Applied(page) = g[Len(page)]
  <2>1. \E g : Applying(applied, page, g, Len(page))
    BY <1>1, ApplyingExists
  <2> QED
    BY <2>1, Zenon DEF Applied, Applying
<1> DEFINE N == Len(page)
           P(i) == /\ g[i] \in Seq(S) /\ IsInjective(g[i])
                   /\ ToSet(g[i]) = Inbox \union {page[j] : j \in 1 .. i}
           T == {i \in 0 .. N : ~P(i)}
<1>3. \A i \in 0 .. N : g[i] = IF i = 0 THEN applied
                               ELSE IF page[i] \in ToSet(g[i - 1]) THEN g[i - 1]
                               ELSE Append(g[i - 1], page[i])
  BY <1>2, Zenon DEF Applying
<1>4. P(0)
  BY <1>1, <1>3 DEF Inbox
<1>5. ASSUME NEW i \in 1 .. N, P(i - 1) PROVE P(i)
  <2>1. page[i] \in S
    OBVIOUS
  <2>2. {page[j] : j \in 1 .. i} = {page[j] : j \in 1 .. i - 1} \union {page[i]}
    <3>1. 1 .. i = (1 .. i - 1) \union {i}
      OBVIOUS
    <3> QED
      BY <3>1
  <2>3. g[i] = IF page[i] \in ToSet(g[i - 1]) THEN g[i - 1]
               ELSE Append(g[i - 1], page[i])
    BY <1>3
  <2>4. CASE page[i] \in ToSet(g[i - 1])
    BY <1>5, <2>2, <2>3, <2>4
  <2>5. CASE page[i] \notin ToSet(g[i - 1])
    <3> DEFINE f == g[i - 1]
    <3>1. /\ f \in Seq(S) /\ IsInjective(f) /\ page[i] \notin ToSet(f)
          /\ g[i] = Append(f, page[i])
      BY <1>5, <2>3, <2>5
    <3> HIDE DEF f
    <3>2. g[i] \in Seq(S) /\ IsInjective(g[i]) /\ ToSet(g[i]) = ToSet(f) \union {page[i]}
      BY <2>1, <3>1, AppendOnce
    <3> QED
      BY <1>5, <2>2, <3>2 DEF f
  <2> QED
    BY <2>4, <2>5
<1>6. T = {}
  <2> SUFFICES ASSUME T # {} PROVE FALSE
    OBVIOUS
  <2>1. T \in SUBSET Nat
    BY <1>1
  <2>2. PICK m \in T : \A y \in T : m <= y
    BY <2>1, LeastNumber
  <2>3. m \in 1 .. N /\ m - 1 \in 0 .. N
    BY <1>1, <1>4, <2>2
  <2> HIDE DEF P
  <2>4. P(m - 1)
    <3>1. m - 1 \notin T
      BY <2>1, <2>2, <2>3
    <3> QED
      BY <2>3, <3>1
  <2> QED
    BY <1>5, <2>2, <2>3, <2>4
<1>7. P(N)
  BY <1>1, <1>6
<1>8. ToSet(page) = {page[j] : j \in 1 .. N}
  BY DEF ToSet
<1> QED
  BY <1>2, <1>7, <1>8

-----------------------------------------------------------------------------
(* Sequences *)

\* The head and the tail of a sequence, as sets.
LEMMA TailSet ==
    ASSUME NEW S, NEW s \in Seq(S), s # <<>>
    PROVE  /\ Head(s) \in S /\ Tail(s) \in Seq(S)
           /\ Head(s) \in ToSet(s) /\ ToSet(Tail(s)) \subseteq ToSet(s)
           /\ \A x \in ToSet(s) : x = Head(s) \/ x \in ToSet(Tail(s))
<1>1. /\ Len(s) \in Nat \ {0} /\ DOMAIN s = 1 .. Len(s) /\ Head(s) = s[1]
      /\ Tail(s) \in Seq(S) /\ DOMAIN Tail(s) = 1 .. Len(s) - 1
      /\ \A i \in 1 .. Len(s) - 1 : Tail(s)[i] = s[i + 1]
      /\ Head(s) \in S
  OBVIOUS
<1>2. 1 \in DOMAIN s /\ \A i \in 1 .. Len(s) - 1 : i + 1 \in DOMAIN s
  BY <1>1
<1>3. \A i \in DOMAIN s : i = 1 \/ (i - 1 \in 1 .. Len(s) - 1 /\ Tail(s)[i - 1] = s[i])
  BY <1>1
<1>4. Head(s) \in ToSet(s)
  BY <1>1, <1>2 DEF ToSet
<1>5. ToSet(Tail(s)) \subseteq ToSet(s)
  BY <1>1, <1>2 DEF ToSet
<1>6. ASSUME NEW i \in DOMAIN s PROVE s[i] = Head(s) \/ s[i] \in ToSet(Tail(s))
  <2> DEFINE r == Tail(s)
  <2>1. i = 1 \/ (i - 1 \in DOMAIN r /\ r[i - 1] = s[i])
    BY <1>1, <1>3
  <2> HIDE DEF r
  <2> QED
    BY <1>1, <2>1 DEF ToSet, r
<1> QED
  BY <1>1, <1>4, <1>5, <1>6 DEF ToSet

\* Concatenation, as sets.
LEMMA ConcatSet ==
    ASSUME NEW S, NEW s \in Seq(S), NEW t \in Seq(S)
    PROVE  s \o t \in Seq(S) /\ ToSet(s \o t) = ToSet(s) \union ToSet(t)
<1> DEFINE r == s \o t
<1>1. /\ r \in Seq(S) /\ Len(s) \in Nat /\ Len(t) \in Nat
      /\ DOMAIN s = 1 .. Len(s) /\ DOMAIN t = 1 .. Len(t)
      /\ DOMAIN r = 1 .. Len(s) + Len(t)
      /\ \A i \in 1 .. Len(s) : r[i] = s[i]
      /\ \A i \in 1 .. Len(t) : r[Len(s) + i] = t[i]
  OBVIOUS
<1> HIDE DEF r
<1>2. ASSUME NEW i \in DOMAIN r PROVE r[i] \in ToSet(s) \union ToSet(t)
  <2>1. CASE i <= Len(s)
    BY <1>1, <2>1 DEF ToSet
  <2>2. CASE ~(i <= Len(s))
    <3>1. i - Len(s) \in 1 .. Len(t) /\ Len(s) + (i - Len(s)) = i
      BY <1>1, <2>2
    <3>2. r[i] = t[i - Len(s)]
      BY <1>1, <3>1
    <3> QED
      BY <1>1, <3>1, <3>2 DEF ToSet
  <2> QED
    BY <2>1, <2>2
<1>3. ASSUME NEW i \in DOMAIN s PROVE s[i] \in ToSet(r)
  BY <1>1 DEF ToSet
<1>4. ASSUME NEW i \in DOMAIN t PROVE t[i] \in ToSet(r)
  <2>1. Len(s) + i \in DOMAIN r
    BY <1>1
  <2> QED
    BY <1>1, <2>1 DEF ToSet
<1>5. ToSet(r) \subseteq ToSet(s) \union ToSet(t)
  BY <1>2 DEF ToSet
<1>6. ToSet(s) \subseteq ToSet(r) /\ ToSet(t) \subseteq ToSet(r)
  BY <1>3, <1>4 DEF ToSet
<1> QED
  BY <1>1, <1>5, <1>6 DEF r

\* A prefix, as a set.
LEMMA PrefixSet ==
    ASSUME NEW S, NEW s \in Seq(S), NEW i \in 0 .. Len(s)
    PROVE  /\ SubSeq(s, 1, i) \in Seq(S) /\ ToSet(SubSeq(s, 1, i)) \subseteq ToSet(s)
<1>1. /\ SubSeq(s, 1, i) \in Seq(S) /\ DOMAIN SubSeq(s, 1, i) = 1 .. i
      /\ \A j \in 1 .. i : SubSeq(s, 1, i)[j] = s[j] /\ j \in DOMAIN s
  OBVIOUS
<1> QED
  BY <1>1 DEF ToSet

\* SetToSeq of a finite set enumerates it.
LEMMA SetToSeqType ==
    ASSUME NEW S, IsFiniteSet(S)
    PROVE  SetToSeq(S) \in Seq(S)
<1>1. PICK n \in Nat : ExistsBijection(1 .. n, S)
  BY FS_NatBijection
<1>2. Cardinality(S) = n
  BY <1>1, FS_CountingElements
<1>3. PICK f : f \in Bijection(1 .. Cardinality(S), S)
  BY <1>1, <1>2 DEF ExistsBijection
<1>4. f \in [1 .. Cardinality(S) -> S] /\ IsInjective(f)
  BY <1>3 DEF Bijection, Injection, IsInjective
<1>5. SetToSeq(S) \in [1 .. Cardinality(S) -> S]
  BY <1>4, Zenon DEF SetToSeq
<1> QED
  BY <1>2, <1>5

-----------------------------------------------------------------------------
(* Types *)

Msgs == Own \union Peer
Ids == Msgs \union {"", "refused", "DEVICE_REVOKED"}

\* What the server sends, and what the client sends.
DownPackets ==
    [ev : Awaited \union {"message.ack", "message.new", "device.revoked"},
     id : Ids, n : Nat, page : Seq(Msgs)]

UpPackets ==
    [ev : {"auth.response", "message.send", "sync.request"},
     id : Ids, n : Nat, page : Seq(Msgs)]

\* A call in progress: what it awaits and the outcome it has not dealt with.
AuthCalls == [awaits : {"none", "connect", "auth.challenge", "verdict"},
              got : DownPackets \union {Nothing}]
SyncCalls == [awaits : {"none", "sync.response"}, got : DownPackets \union {Nothing}]

ClientTypes ==
    /\ state \in States /\ session \in Nat
    /\ opened \in 0 .. MaxConnects /\ sock \in 0 .. opened
    /\ online \in BOOLEAN
    /\ queues \in [Awaited -> Seq(DownPackets)]
    /\ auth \in AuthCalls /\ sync \in SyncCalls
    /\ outbox \in [Own -> {"none", "pending", "acked"}] /\ IsFiniteSet(Pending)
    /\ applied \in Seq(Msgs) /\ cursor \in Nat /\ jumped \in BOOLEAN

ServerTypes ==
    /\ srv \in [Sockets -> {"new", "challenged", "authed", "out", "closed"}]
    /\ closing \subseteq Sockets
    /\ up \in [Sockets -> Seq(UpPackets)]
    /\ down \in Seq(DownPackets)
    /\ log \in Seq(Msgs)
    /\ revoked \in BOOLEAN

\* A waiter is resolved, and a queue filled, by packets of its event only.
Sorted ==
    /\ \A e \in Awaited : \A p \in ToSet(queues[e]) : p.ev = e
    /\ auth.got # Nothing /\ auth.awaits \in {"connect", "auth.challenge"} =>
          auth.got.ev = auth.awaits
    /\ sync.got # Nothing => sync.got.ev = "sync.response"

TypeInv == ClientTypes /\ ServerTypes /\ Sorted

-----------------------------------------------------------------------------
(* The invariant *)

\* A packet the client has not dealt with yet.
Held(p) ==
    \/ p \in ToSet(down)
    \/ \E e \in Awaited : p \in ToSet(queues[e])
    \/ p = auth.got
    \/ p = sync.got

\* The server has answered the handshake of the current socket.
Admitted == sock # 0 /\ srv[sock] \in {"authed", "out", "closed"}

\* A packet tells the truth however late the client deals with it: a message
\* that is acked or announced is in the log, a session belongs to the current
\* socket, and a page leaves no gap between the cursor and its own.
Truth(p) ==
    /\ p.ev = "message.ack" => p.id \in Own /\ p.id \in ToSet(log)
    /\ p.ev = "message.new" => p.n \in 1 .. Len(log) /\ log[p.n] = p.id
    /\ p.ev = "auth.success" => p.n = sock /\ Admitted
    /\ p.ev = "sync.response" =>
          /\ p.n \in 0 .. Len(log)
          /\ \A i \in 1 .. p.n : i <= cursor \/ log[i] \in ToSet(p.page)

PacketInv ==
    /\ \A p \in DownPackets : Held(p) => Truth(p)
    /\ \A k \in Sockets : \A p \in ToSet(up[k]) :
          /\ p.ev = "sync.request" => p.n <= cursor
          /\ p.ev = "message.send" => p.id \in Own

LogInv ==
    /\ IsInjective(log) /\ IsInjective(applied)
    /\ cursor <= Len(log)
    /\ \A m \in Own : outbox[m] = "acked" => m \in ToSet(log)
    /\ NothingMissed

NoConnect == \A p \in ToSet(down) : p.ev # "connect"

\* The connect packet of the current socket was dealt with.
Greeted == NoConnect /\ (sock # 0 => srv[sock] # "new")

ConnInv ==
    /\ session # 0 => session = sock /\ Admitted
    /\ \A k \in Sockets : srv[k] = "out" => k \in closing
    /\ sock # 0 /\ srv[sock] = "closed" =>
          \/ \E p \in ToSet(down) : p.ev = "disconnect"
          \/ ~online /\ NoConnect
    /\ down # <<>> =>
          /\ sock # 0 /\ srv[sock] # "new"
          /\ \A i \in DOMAIN down : i # 1 => down[i].ev # "connect"
    /\ (\/ state = "blocked" \/ auth.awaits = "verdict"
        \/ auth.got.ev = "auth.challenge" \/ queues["auth.challenge"] # <<>>) => Greeted

Inv == TypeInv /\ PacketInv /\ LogInv /\ ConnInv

-----------------------------------------------------------------------------
(* Queues and waiters *)

\* What the queues and the waiters hold.
Kept(p) == (\E e \in Awaited : p \in ToSet(queues[e])) \/ p = auth.got \/ p = sync.got

\* A packet that the server may send has an event.
LEMMA PacketEvent ==
    ASSUME NEW p \in DownPackets
    PROVE  /\ p # Nothing
           /\ p.ev \in Awaited \union {"message.ack", "message.new", "device.revoked"}
           /\ p.n \in Nat /\ p.id \in Ids /\ p.page \in Seq(Msgs)
<1>1. /\ p.ev \in Awaited \union {"message.ack", "message.new", "device.revoked"}
      /\ p.n \in Nat /\ p.id \in Ids /\ p.page \in Seq(Msgs)
  BY DEF DownPackets
<1>2. Nothing.ev = "none" /\ p.ev # "none"
  BY <1>1 DEF Nothing, Packet, Awaited
<1> QED
  BY <1>1, <1>2

\* waitFor takes the oldest packet of the event, if there is one.
LEMMA BufferedMeans ==
    ASSUME TypeInv, NEW e \in Awaited
    PROVE  \/ Buffered(e) = Nothing
           \/ /\ queues[e] # <<>> /\ Buffered(e) \in DownPackets
              /\ Buffered(e) \in ToSet(queues[e]) /\ Buffered(e).ev = e
<1>1. queues[e] \in Seq(DownPackets)
  BY DEF TypeInv, ClientTypes
<1>2. CASE queues[e] = <<>>
  BY <1>2 DEF Buffered
<1>3. CASE queues[e] # <<>>
  BY <1>1, <1>3, TailSet DEF Buffered, TypeInv, Sorted
<1> QED
  BY <1>2, <1>3

\* and the others stay.
LEMMA ShiftedMeans ==
    ASSUME TypeInv, NEW E
    PROVE  /\ Shifted(E) \in [Awaited -> Seq(DownPackets)]
           /\ \A e \in Awaited : ToSet(Shifted(E)[e]) \subseteq ToSet(queues[e])
           /\ \A e \in Awaited : queues[e] = <<>> => Shifted(E)[e] = <<>>
<1>1. ASSUME NEW e \in Awaited
      PROVE  /\ Shifted(E)[e] \in Seq(DownPackets)
             /\ ToSet(Shifted(E)[e]) \subseteq ToSet(queues[e])
             /\ queues[e] = <<>> => Shifted(E)[e] = <<>>
  <2>1. queues[e] \in Seq(DownPackets)
    BY DEF TypeInv, ClientTypes
  <2>2. CASE e \in E /\ queues[e] # <<>>
    <3>1. Shifted(E)[e] = Tail(queues[e])
      BY <2>2 DEF Shifted
    <3> QED
      BY <2>1, <2>2, <3>1, TailSet
  <2>3. CASE ~(e \in E /\ queues[e] # <<>>)
    <3>1. Shifted(E)[e] = queues[e]
      BY <2>3 DEF Shifted
    <3> QED
      BY <2>1, <3>1
  <2> QED
    BY <2>2, <2>3
<1>2. Shifted(E) = [e \in Awaited |-> Shifted(E)[e]]
  BY DEF Shifted
<1> QED
  BY <1>1, <1>2

\* race takes a packet of one of its events.
LEMMA RacedMeans ==
    ASSUME TypeInv
    PROVE  \/ Raced = Nothing
           \/ \E e \in Awaited \ {"auth.challenge"} :
                 Raced \in DownPackets /\ Raced \in ToSet(queues[e]) /\ Raced.ev = e
<1> DEFINE ready == {i \in DOMAIN Verdicts : queues[Verdicts[i]] # <<>>}
<1>1. CASE ready = {}
  BY <1>1 DEF Raced
<1>2. CASE ready # {}
  <2>1. DOMAIN Verdicts = 1 .. 3
    BY DEF Verdicts
  <2>2. \E i \in ready : \A j \in ready : i <= j
    BY <1>2, <2>1, LeastNumber
  <2>3. Min(ready) \in ready
    BY <2>2, Zenon DEF Min
  <2> DEFINE e == Verdicts[Min(ready)]
  <2>4. e \in Awaited \ {"auth.challenge"} /\ queues[e] # <<>>
    BY <2>1, <2>3 DEF Verdicts, Awaited
  <2>5. Raced = Buffered(e)
    BY <1>2 DEF Raced
  <2>6. Buffered(e) = Nothing \/ /\ Buffered(e) \in DownPackets
                                 /\ Buffered(e) \in ToSet(queues[e]) /\ Buffered(e).ev = e
    BY <2>4, BufferedMeans
  <2> QED
    BY <2>4, <2>5, <2>6
<1> QED
  BY <1>1, <1>2

\* enqueue hands the packet to a waiter or buffers it, and loses no other.
LEMMA EnqueueMeans ==
    ASSUME TypeInv, NEW p \in DownPackets, p.ev \in Awaited, Enqueue(p)
    PROVE  /\ queues' \in [Awaited -> Seq(DownPackets)]
           /\ auth' \in AuthCalls /\ sync' \in SyncCalls
           /\ Sorted'
           /\ \A x : Kept(x)' => Kept(x) \/ x = p
           /\ auth'.awaits = auth.awaits
           /\ auth'.got = auth.got \/ auth'.got = p
           /\ p.ev # "auth.challenge" =>
                 queues'["auth.challenge"] = queues["auth.challenge"]
<1>1. /\ queues \in [Awaited -> Seq(DownPackets)] /\ Sorted
      /\ auth \in AuthCalls /\ sync \in SyncCalls
  BY DEF TypeInv, ClientTypes
<1>2. p # Nothing
  BY PacketEvent
<1>3. CASE AuthAwaits(p.ev)
  <2>1. /\ auth' = IF auth.got = Nothing THEN [auth EXCEPT !.got = p] ELSE auth
        /\ queues' = queues /\ sync' = sync
    BY <1>3 DEF Enqueue
  <2>2. /\ auth' \in AuthCalls
        /\ auth'.awaits = auth.awaits /\ (auth'.got = auth.got \/ auth'.got = p)
    BY <1>1, <2>1 DEF AuthCalls, SyncCalls
  <2>3. auth'.got = p /\ auth.awaits \in {"connect", "auth.challenge"} => p.ev = auth.awaits
    BY <1>3 DEF AuthAwaits
  <2>4. Sorted'
    BY <1>1, <2>1, <2>2, <2>3 DEF Sorted
  <2> QED
    BY <1>1, <2>1, <2>2, <2>4 DEF Kept
<1>4. CASE ~AuthAwaits(p.ev) /\ sync.awaits = p.ev /\ sync.got = Nothing
  <2>1. sync' = [sync EXCEPT !.got = p] /\ queues' = queues /\ auth' = auth
    BY <1>4 DEF Enqueue
  <2>2. /\ sync' \in SyncCalls
        /\ sync'.got = p
    BY <1>1, <2>1 DEF AuthCalls, SyncCalls
  <2>3. p.ev = "sync.response"
    BY <1>1, <1>4 DEF Awaited, AuthCalls, SyncCalls
  <2>4. Sorted'
    BY <1>1, <2>1, <2>2, <2>3 DEF Sorted
  <2> QED
    BY <1>1, <2>1, <2>2, <2>4 DEF Kept
<1>5. CASE ~AuthAwaits(p.ev) /\ ~(sync.awaits = p.ev /\ sync.got = Nothing)
  <2>1. /\ queues' = [queues EXCEPT ![p.ev] = Append(@, p)]
        /\ auth' = auth /\ sync' = sync
    BY <1>5 DEF Enqueue
  <2>2. queues[p.ev] \in Seq(DownPackets)
    BY <1>1
  <2>3. /\ Append(queues[p.ev], p) \in Seq(DownPackets)
        /\ ToSet(Append(queues[p.ev], p)) = ToSet(queues[p.ev]) \union {p}
    BY <2>2, AppendOnce
  <2>4. /\ queues' \in [Awaited -> Seq(DownPackets)]
        /\ \A e \in Awaited : e # p.ev => queues'[e] = queues[e]
        /\ ToSet(queues'[p.ev]) = ToSet(queues[p.ev]) \union {p}
    BY <1>1, <2>1, <2>3
  <2>5. Sorted'
    BY <1>1, <2>1, <2>4 DEF Sorted
  <2> QED
    BY <1>1, <2>1, <2>4, <2>5 DEF Kept, Awaited
<1> QED
  BY <1>3, <1>4, <1>5

-----------------------------------------------------------------------------
(* Every step keeps the types; only packets that arrive are kept anew *)

\* An empty packet is no packet, and empty queues keep none.
LEMMA NothingKept ==
    /\ NoQueues \in [Awaited -> Seq(DownPackets)]
    /\ \A e \in Awaited : NoQueues[e] = <<>> /\ ToSet(NoQueues[e]) = {}
    /\ NoAuth = [awaits |-> "none", got |-> Nothing]
    /\ NoSync = [awaits |-> "none", got |-> Nothing]
    /\ Nothing.ev = "none"
    /\ \A p \in DownPackets : p # Nothing
<1>1. ToSet(<<>>) = {} /\ <<>> \in Seq(DownPackets)
  BY DEF ToSet
<1>2. /\ NoQueues \in [Awaited -> Seq(DownPackets)]
      /\ \A e \in Awaited : NoQueues[e] = <<>>
  BY DEF NoQueues
<1>3. Nothing.ev = "none"
  BY DEF Nothing, Packet
<1> QED
  BY <1>1, <1>2, <1>3, PacketEvent DEF NoAuth, NoSync

\* dropConnection and connect() forget all packets.
LEMMA DroppedTypes ==
    ASSUME TypeInv, Dropped
    PROVE  /\ session' = 0 /\ online' = FALSE /\ down' = <<>>
           /\ queues' = NoQueues /\ auth' = NoAuth /\ sync' = NoSync
           /\ queues' \in [Awaited -> Seq(DownPackets)]
           /\ auth' \in AuthCalls /\ sync' \in SyncCalls
           /\ down' \in Seq(DownPackets) /\ Sorted'
           /\ \A p \in DownPackets : ~Kept(p)'
<1>1. /\ session' = 0 /\ online' = FALSE /\ down' = <<>>
      /\ queues' = NoQueues /\ auth' = NoAuth /\ sync' = NoSync
  BY DEF Dropped, DroppedQueues
<1>2. Sorted' /\ \A p \in DownPackets : ~Kept(p)'
  BY <1>1, NothingKept DEF Sorted, Kept
<1> QED
  BY <1>1, <1>2, NothingKept DEF AuthCalls, SyncCalls

\* Connecting and dropping keep the types.
LEMMA ConnectTypes ==
    ASSUME TypeInv, Connect \/ DropConnection PROVE TypeInv'
<1>1. Dropped
  BY DEF Connect, DropConnection
<1>2. /\ opened' \in 0 .. MaxConnects /\ sock' \in 0 .. opened' /\ state' \in States
  <2>1. CASE Connect
    BY <2>1, ConnectsAssumption DEF Connect, TypeInv, ClientTypes, States
  <2>2. CASE DropConnection
    <3>1. opened' = opened /\ sock' = 0 /\ state' \in {state, "disconnected"}
      BY <2>2 DEF DropConnection
    <3> QED
      BY <3>1, ConnectsAssumption DEF TypeInv, ClientTypes, States
  <2> QED
    BY <2>1, <2>2
<1>3. UNCHANGED <<outbox, applied, cursor, jumped, srv, closing, up, log, revoked>>
  BY DEF Connect, DropConnection
<1>4. Pending' = Pending
  BY <1>3 DEF Pending
<1>5. /\ session' = 0 /\ online' = FALSE
      /\ queues' \in [Awaited -> Seq(DownPackets)]
      /\ auth' \in AuthCalls /\ sync' \in SyncCalls
      /\ down' \in Seq(DownPackets) /\ Sorted'
  BY <1>1, DroppedTypes
<1>6. ClientTypes'
  BY <1>2, <1>3, <1>4, <1>5 DEF TypeInv, ClientTypes
<1>7. ServerTypes'
  BY <1>3, <1>5 DEF TypeInv, ServerTypes
<1> QED
  BY <1>5, <1>6, <1>7 DEF TypeInv

\* An await of authenticate() takes a buffered packet or leaves a waiter.
LEMMA AuthenticateTypes ==
    ASSUME TypeInv, Authenticate \/ AwaitChallenge
    PROVE  /\ TypeInv' /\ \A x \in DownPackets : Kept(x)' => Kept(x)
           /\ auth'.awaits \in {"connect", "auth.challenge"}
           /\ auth'.got.ev = "auth.challenge" => queues["auth.challenge"] # <<>>
           /\ queues'["auth.challenge"] # <<>> => queues["auth.challenge"] # <<>>
<1>1. PICK e \in {"connect", "auth.challenge"} :
         /\ auth' = [awaits |-> e, got |-> Buffered(e)]
         /\ \/ queues' = Shifted({e})
            \/ queues' = [Shifted({e}) EXCEPT !["connect"] = <<>>]
         /\ UNCHANGED <<state, session, sock, opened, online, sync, outbox, applied,
                        cursor, jumped, serverVars>>
  <2>1. CASE Authenticate
    BY <2>1 DEF Authenticate
  <2>2. CASE AwaitChallenge
    <3>1. auth' = [awaits |-> "auth.challenge", got |-> Buffered("auth.challenge")]
      BY <2>2 DEF AwaitChallenge, TypeInv, ClientTypes, AuthCalls, SyncCalls
    <3> QED
      BY <2>2, <3>1 DEF AwaitChallenge
  <2> QED
    BY <2>1, <2>2
<1>2. e \in Awaited /\ "auth.challenge" \in Awaited /\ "connect" \in Awaited
  BY DEF Awaited
<1>3. \/ Buffered(e) = Nothing
      \/ /\ queues[e] # <<>> /\ Buffered(e) \in DownPackets
         /\ Buffered(e) \in ToSet(queues[e]) /\ Buffered(e).ev = e
  BY <1>2, BufferedMeans
<1>4. /\ queues' \in [Awaited -> Seq(DownPackets)]
      /\ \A a \in Awaited : ToSet(queues'[a]) \subseteq ToSet(queues[a])
      /\ queues["auth.challenge"] = <<>> => queues'["auth.challenge"] = <<>>
  <2>1. /\ Shifted({e}) \in [Awaited -> Seq(DownPackets)]
        /\ \A a \in Awaited : ToSet(Shifted({e})[a]) \subseteq ToSet(queues[a])
        /\ \A a \in Awaited : queues[a] = <<>> => Shifted({e})[a] = <<>>
    BY ShiftedMeans
  <2>2. CASE queues' = Shifted({e})
    BY <1>2, <2>1, <2>2
  <2>3. CASE queues' = [Shifted({e}) EXCEPT !["connect"] = <<>>]
    <3>1. ToSet(<<>>) = {} /\ <<>> \in Seq(DownPackets)
      BY DEF ToSet
    <3> QED
      BY <1>2, <2>1, <2>3, <3>1
  <2> QED
    BY <1>1, <2>2, <2>3
<1>5. /\ auth' \in AuthCalls
      /\ auth'.awaits = e /\ auth'.got = Buffered(e)
  BY <1>1, <1>3 DEF AuthCalls, SyncCalls
<1>6. Sorted'
  BY <1>1, <1>3, <1>4, <1>5 DEF TypeInv, Sorted
<1>7. \A x \in DownPackets : Kept(x)' => Kept(x)
  BY <1>1, <1>2, <1>3, <1>4, <1>5, PacketEvent DEF Kept
<1>8. Pending' = Pending
  BY <1>1 DEF Pending
<1>9. TypeInv'
  BY <1>1, <1>4, <1>5, <1>6, <1>8 DEF TypeInv, ClientTypes, ServerTypes, serverVars
<1>10. auth'.got.ev = "auth.challenge" => queues["auth.challenge"] # <<>>
  BY <1>3, <1>5, NothingKept
<1> QED
  BY <1>4, <1>5, <1>7, <1>9, <1>10

\* The socket of the client is one of the server's.
LEMMA SockType == ASSUME TypeInv, sock # 0 PROVE sock \in Sockets
<1>1. sock \in 0 .. opened /\ opened \in 0 .. MaxConnects
  BY DEF TypeInv, ClientTypes
<1> QED
  BY <1>1, ConnectsAssumption DEF Sockets

\* emitRaw adds the packet to what is on its way on the current socket.
LEMMA EmittedMeans ==
    ASSUME TypeInv, sock # 0, NEW p \in UpPackets, up' = Emitted(p)
    PROVE  /\ up' \in [Sockets -> Seq(UpPackets)]
           /\ \A k \in Sockets : ToSet(up'[k]) \subseteq ToSet(up[k]) \union {p}
<1>1. sock \in Sockets /\ up \in [Sockets -> Seq(UpPackets)]
  BY SockType DEF TypeInv, ServerTypes
<1>2. up[sock] \in Seq(UpPackets)
  BY <1>1
<1>3. /\ Append(up[sock], p) \in Seq(UpPackets)
      /\ ToSet(Append(up[sock], p)) = ToSet(up[sock]) \union {p}
  BY <1>2, AppendOnce
<1>4. up' = [up EXCEPT ![sock] = IF srv[sock] = "closed" THEN up[sock] ELSE Append(up[sock], p)]
  BY DEF Emitted
<1>5. /\ up'[sock] \in Seq(UpPackets)
      /\ ToSet(up'[sock]) \subseteq ToSet(up[sock]) \union {p}
  BY <1>1, <1>3, <1>4
<1> QED
  BY <1>1, <1>4, <1>5

\* The packets the client emits.
LEMMA UpPacketType ==
    /\ \A n \in Nat : Packet("auth.response", "", n) \in UpPackets
    /\ \A n \in Nat : Packet("sync.request", "", n) \in UpPackets
    /\ \A m \in Own : Packet("message.send", m, 0) \in UpPackets
<1>1. \A n \in Nat : Packet("auth.response", "", n) \in UpPackets
  BY DEF Packet, UpPackets, Ids
<1>2. \A n \in Nat : Packet("sync.request", "", n) \in UpPackets
  BY DEF Packet, UpPackets, Ids
<1>3. \A m \in Own : Packet("message.send", m, 0) \in UpPackets
  <2>1. \A m \in Own : m \in Ids
    BY DEF Ids, Msgs
  <2> QED
    BY <2>1 DEF Packet, UpPackets
<1> QED
  BY <1>1, <1>2, <1>3

\* The signed answer to a challenge and the race for its verdict.
LEMMA SendAuthResponseMeans ==
    ASSUME TypeInv, SendAuthResponse
    PROVE  /\ TypeInv' /\ \A x \in DownPackets : Kept(x)' => Kept(x)
           /\ auth.got.ev = "auth.challenge"
           /\ auth'.got.ev # "auth.challenge"
           /\ \A k \in Sockets : \A p \in ToSet(up'[k]) :
                 p \in ToSet(up[k]) \/ p.ev = "auth.response"
<1> DEFINE p == Packet("auth.response", "", auth.got.n)
<1>1. /\ auth \in AuthCalls
      /\ auth.awaits = "auth.challenge" /\ auth.got # Nothing
  BY DEF TypeInv, ClientTypes, SendAuthResponse
<1>2. auth.got \in DownPackets /\ auth.got.ev = "auth.challenge" /\ auth.got.n \in Nat
  BY <1>1, PacketEvent DEF TypeInv, Sorted, AuthCalls, SyncCalls
<1>3. p \in UpPackets /\ p.ev = "auth.response"
  BY <1>2, UpPacketType DEF Packet
<1>4. sock # 0 /\ up' = Emitted(p)
  BY DEF SendAuthResponse, CanEmit
<1> HIDE DEF p
<1>5. /\ up' \in [Sockets -> Seq(UpPackets)]
      /\ \A k \in Sockets : ToSet(up'[k]) \subseteq ToSet(up[k]) \union {p}
  BY <1>3, <1>4, EmittedMeans
<1>6. /\ auth' = [awaits |-> "verdict", got |-> Raced]
      /\ queues' = Shifted(ToSet(Verdicts))
      /\ state' = "authenticating"
      /\ UNCHANGED <<session, sock, opened, online, sync, outbox, applied, cursor,
                     jumped, srv, closing, down, log, revoked>>
  BY <1>1 DEF SendAuthResponse, AuthCalls, SyncCalls
<1>7. \/ Raced = Nothing
      \/ \E e \in Awaited \ {"auth.challenge"} :
            Raced \in DownPackets /\ Raced \in ToSet(queues[e]) /\ Raced.ev = e
  BY RacedMeans
<1>8. /\ queues' \in [Awaited -> Seq(DownPackets)]
      /\ \A e \in Awaited : ToSet(queues'[e]) \subseteq ToSet(queues[e])
  BY <1>6, ShiftedMeans
<1>9. /\ auth' \in AuthCalls
      /\ auth'.awaits = "verdict" /\ auth'.got = Raced
  BY <1>6, <1>7 DEF AuthCalls, SyncCalls
<1>10. Sorted'
  BY <1>6, <1>8, <1>9 DEF TypeInv, Sorted
<1>11. \A x \in DownPackets : Kept(x)' => Kept(x)
  BY <1>6, <1>7, <1>8, <1>9, NothingKept DEF Kept
<1>12. auth'.got.ev # "auth.challenge"
  BY <1>7, <1>9, NothingKept
<1>13. Pending' = Pending
  BY <1>6 DEF Pending
<1>14. ClientTypes'
  BY <1>6, <1>8, <1>9, <1>13 DEF TypeInv, ClientTypes, States
<1>15. ServerTypes'
  BY <1>5, <1>6 DEF TypeInv, ServerTypes
<1> QED
  BY <1>2, <1>3, <1>5, <1>10, <1>11, <1>12, <1>14, <1>15 DEF TypeInv

\* resend emits the pending entries with their own ids.
LEMMA ResendMeans ==
    ASSUME TypeInv
    PROVE  LET s == SetToSeq({Packet("message.send", m, 0) : m \in Pending})
           IN  /\ s \in Seq(UpPackets)
               /\ \A p \in ToSet(s) : p.ev = "message.send" /\ p.id \in Own
<1> DEFINE P == {Packet("message.send", m, 0) : m \in Pending}
           s == SetToSeq(P)
<1>1. IsFiniteSet(Pending) /\ Pending \subseteq Own
  BY DEF TypeInv, ClientTypes, Pending
<1>2. IsFiniteSet(P)
  <2> DEFINE f == [m \in Pending |-> Packet("message.send", m, 0)]
  <2>1. f \in [Pending -> P] /\ \A p \in P : \E m \in Pending : f[m] = p
    BY Zenon
  <2>2. f \in Surjection(Pending, P)
    BY <2>1, Zenon DEF Surjection
  <2> QED
    BY <1>1, <2>2, FS_Surjection
<1>3. s \in Seq(P)
  BY <1>2, SetToSeqType
<1>4. P \subseteq UpPackets
  BY <1>1, UpPacketType
<1>5. \A p \in P : p.ev = "message.send" /\ p.id \in Own
  BY <1>1 DEF Packet
<1> HIDE DEF P
<1>6. \A i \in DOMAIN s : s[i] \in P
  <2> HIDE DEF s
  <2> QED
    BY <1>3
<1>7. s \in Seq(UpPackets)
  BY <1>3, <1>4
<1>8. \A p \in ToSet(s) : p \in P
  BY <1>6 DEF ToSet
<1> QED
  BY <1>5, <1>7, <1>8 DEF P

\* Adopting a session, with the outbox re-emitted or not.
LEMMA AuthSucceedsMeans ==
    ASSUME TypeInv, sock # 0, NEW resend \in BOOLEAN, AuthSucceeds(resend)
    PROVE  /\ TypeInv' /\ \A x \in DownPackets : Kept(x)' => Kept(x)
           /\ \A k \in Sockets : \A p \in ToSet(up'[k]) :
                 p \in ToSet(up[k]) \/ (p.ev = "message.send" /\ p.id \in Own)
<1>1. /\ auth \in AuthCalls
      /\ auth.got.ev = "auth.success"
  BY DEF TypeInv, ClientTypes, AuthSucceeds
<1>2. auth.got \in DownPackets /\ auth.got.n \in Nat
  BY <1>1, NothingKept, PacketEvent DEF AuthCalls, SyncCalls
<1>3. /\ session' = auth.got.n /\ state' = "authenticated" /\ auth' = NoAuth
      /\ UNCHANGED <<sock, opened, online, queues, sync, outbox, applied, cursor,
                     jumped, srv, closing, down, log, revoked>>
  BY DEF AuthSucceeds
<1>4. sock \in Sockets /\ up \in [Sockets -> Seq(UpPackets)]
  BY SockType DEF TypeInv, ServerTypes
<1>5. /\ up' \in [Sockets -> Seq(UpPackets)]
      /\ \A k \in Sockets : \A p \in ToSet(up'[k]) :
            p \in ToSet(up[k]) \/ (p.ev = "message.send" /\ p.id \in Own)
  <2> DEFINE s == SetToSeq({Packet("message.send", m, 0) : m \in Pending})
  <2>1. CASE resend /\ srv[sock] # "closed"
    <3>1. up' = [up EXCEPT ![sock] = up[sock] \o s]
      BY <2>1 DEF AuthSucceeds
    <3>2. s \in Seq(UpPackets) /\ \A p \in ToSet(s) : p.ev = "message.send" /\ p.id \in Own
      BY ResendMeans
    <3> HIDE DEF s
    <3>3. up[sock] \in Seq(UpPackets)
      BY <1>4
    <3>4. /\ up[sock] \o s \in Seq(UpPackets)
          /\ ToSet(up[sock] \o s) = ToSet(up[sock]) \union ToSet(s)
      BY <3>2, <3>3, ConcatSet
    <3>5. /\ up'[sock] = up[sock] \o s
          /\ \A k \in Sockets : k # sock => up'[k] = up[k]
          /\ up' \in [Sockets -> Seq(UpPackets)]
      BY <1>4, <3>1, <3>4
    <3> QED
      BY <3>2, <3>4, <3>5
  <2>2. CASE ~(resend /\ srv[sock] # "closed")
    <3>1. up' = up
      BY <2>2 DEF AuthSucceeds
    <3> QED
      BY <1>4, <3>1
  <2> QED
    BY <2>1, <2>2
<1>6. /\ auth' \in AuthCalls
      /\ auth'.awaits = "none" /\ auth'.got = Nothing
  BY <1>3 DEF NoAuth, AuthCalls, SyncCalls
<1>7. Sorted'
  BY <1>3, <1>6 DEF TypeInv, Sorted
<1>8. \A x \in DownPackets : Kept(x)' => Kept(x)
  BY <1>3, <1>6, NothingKept DEF Kept
<1>9. Pending' = Pending
  BY <1>3 DEF Pending
<1>10. ClientTypes'
  BY <1>2, <1>3, <1>6, <1>9 DEF TypeInv, ClientTypes, States
<1>11. ServerTypes'
  BY <1>3, <1>5 DEF TypeInv, ServerTypes
<1> QED
  BY <1>5, <1>7, <1>8, <1>10, <1>11 DEF TypeInv

\* A handshake that ends without a session.
LEMMA AuthEndsMeans ==
    ASSUME TypeInv, AuthThrows \/ AuthTimeout
    PROVE  TypeInv' /\ \A x \in DownPackets : Kept(x)' => Kept(x)
<1>1. /\ auth' = NoAuth /\ state' \in States
      /\ UNCHANGED <<session, sock, opened, online, queues, sync, outbox, applied,
                     cursor, jumped, srv, closing, up, down, log, revoked>>
  BY DEF AuthThrows, AuthTimeout, serverVars, TypeInv, ClientTypes, States
<1>2. /\ auth' \in AuthCalls
      /\ auth'.awaits = "none" /\ auth'.got = Nothing
  BY <1>1 DEF NoAuth, AuthCalls, SyncCalls
<1>3. Sorted'
  BY <1>1, <1>2 DEF TypeInv, Sorted
<1>4. \A x \in DownPackets : Kept(x)' => Kept(x)
  BY <1>1, <1>2, NothingKept DEF Kept
<1>5. Pending' = Pending
  BY <1>1 DEF Pending
<1>6. ClientTypes'
  BY <1>1, <1>2, <1>5 DEF TypeInv, ClientTypes
<1>7. ServerTypes'
  BY <1>1 DEF TypeInv, ServerTypes
<1> QED
  BY <1>3, <1>4, <1>6, <1>7 DEF TypeInv

\* sendEnvelope reopens or keeps its entry and emits it.
LEMMA SendEnvelopeMeans ==
    ASSUME TypeInv, NEW m \in Own, NEW force \in BOOLEAN, SendEnvelope(m, force)
    PROVE  /\ TypeInv'
           /\ outbox' = [outbox EXCEPT ![m] = "pending"]
           /\ \A k \in Sockets : \A p \in ToSet(up'[k]) :
                 p \in ToSet(up[k]) \/ (p.ev = "message.send" /\ p.id \in Own)
<1>1. /\ outbox' = [outbox EXCEPT ![m] = "pending"]
      /\ UNCHANGED <<state, session, sock, opened, online, queues, auth, sync,
                     applied, cursor, jumped, srv, closing, down, log, revoked>>
  BY DEF SendEnvelope, OutboxAfterSend
<1>2. /\ outbox \in [Own -> {"none", "pending", "acked"}] /\ IsFiniteSet(Pending)
  BY DEF TypeInv, ClientTypes
<1>3. /\ outbox' \in [Own -> {"none", "pending", "acked"}]
      /\ Pending' = Pending \union {m}
  BY <1>1, <1>2 DEF Pending
<1>4. IsFiniteSet(Pending')
  BY <1>2, <1>3, FS_AddElement
<1>5. up \in [Sockets -> Seq(UpPackets)]
  BY DEF TypeInv, ServerTypes
<1>6. /\ up' \in [Sockets -> Seq(UpPackets)]
      /\ \A k \in Sockets : \A p \in ToSet(up'[k]) :
            p \in ToSet(up[k]) \/ (p.ev = "message.send" /\ p.id \in Own)
  <2>1. CASE sock = 0
    <3>1. up' = up
      BY <2>1 DEF SendEnvelope
    <3> QED
      BY <1>5, <3>1
  <2>2. CASE sock # 0
    <3> DEFINE p == Packet("message.send", m, 0)
    <3>1. up' = Emitted(p)
      BY <2>2 DEF SendEnvelope
    <3>2. p \in UpPackets /\ p.ev = "message.send" /\ p.id \in Own
      BY UpPacketType DEF Packet
    <3> HIDE DEF p
    <3> QED
      BY <2>2, <3>1, <3>2, EmittedMeans
  <2> QED
    BY <2>1, <2>2
<1>7. Sorted'
  BY <1>1 DEF TypeInv, Sorted
<1>8. ClientTypes'
  BY <1>1, <1>3, <1>4 DEF TypeInv, ClientTypes
<1>9. ServerTypes'
  BY <1>1, <1>6 DEF TypeInv, ServerTypes
<1> QED
  BY <1>1, <1>6, <1>7, <1>8, <1>9 DEF TypeInv

\* sync() asks from the cursor on and may find an older response.
LEMMA SyncRequestMeans ==
    ASSUME TypeInv, SyncRequest
    PROVE  /\ TypeInv' /\ \A x \in DownPackets : Kept(x)' => Kept(x)
           /\ queues["auth.challenge"] = <<>> => queues'["auth.challenge"] = <<>>
           /\ \A k \in Sockets : \A p \in ToSet(up'[k]) :
                 p \in ToSet(up[k]) \/ (p.ev = "sync.request" /\ p.n = cursor)
<1> DEFINE p == Packet("sync.request", "", cursor)
<1>1. /\ sock # 0 /\ up' = Emitted(p)
      /\ sync' = [awaits |-> "sync.response", got |-> Buffered("sync.response")]
      /\ queues' = Shifted({"sync.response"})
      /\ UNCHANGED <<state, session, sock, opened, online, auth, outbox, applied,
                     cursor, jumped, srv, closing, down, log, revoked>>
  BY DEF SyncRequest, CanEmit
<1>2. cursor \in Nat
  BY DEF TypeInv, ClientTypes
<1>3. p \in UpPackets /\ p.ev = "sync.request" /\ p.n = cursor
  BY <1>2, UpPacketType DEF Packet
<1> HIDE DEF p
<1>4. /\ up' \in [Sockets -> Seq(UpPackets)]
      /\ \A k \in Sockets : ToSet(up'[k]) \subseteq ToSet(up[k]) \union {p}
  BY <1>1, <1>3, EmittedMeans
<1>5. "sync.response" \in Awaited /\ "auth.challenge" \in Awaited
  BY DEF Awaited
<1>6. \/ Buffered("sync.response") = Nothing
      \/ /\ Buffered("sync.response") \in DownPackets
         /\ Buffered("sync.response") \in ToSet(queues["sync.response"])
         /\ Buffered("sync.response").ev = "sync.response"
  BY <1>5, BufferedMeans
<1>7. /\ queues' \in [Awaited -> Seq(DownPackets)]
      /\ \A e \in Awaited : ToSet(queues'[e]) \subseteq ToSet(queues[e])
      /\ queues["auth.challenge"] = <<>> => queues'["auth.challenge"] = <<>>
  BY <1>1, <1>5, ShiftedMeans
<1>8. /\ sync' \in SyncCalls
      /\ sync'.got = Buffered("sync.response")
  BY <1>1, <1>6 DEF AuthCalls, SyncCalls
<1>9. Sorted'
  BY <1>1, <1>6, <1>7, <1>8 DEF TypeInv, Sorted
<1>10. \A x \in DownPackets : Kept(x)' => Kept(x)
  BY <1>1, <1>5, <1>6, <1>7, <1>8, NothingKept DEF Kept
<1>11. Pending' = Pending
  BY <1>1 DEF Pending
<1>12. ClientTypes'
  BY <1>1, <1>7, <1>8, <1>11 DEF TypeInv, ClientTypes
<1>13. ServerTypes'
  BY <1>1, <1>4 DEF TypeInv, ServerTypes
<1> QED
  BY <1>3, <1>4, <1>7, <1>9, <1>10, <1>12, <1>13 DEF TypeInv

\* advanceCursor never moves back.
LEMMA AdvancedMeans ==
    ASSUME cursor \in Nat, NEW n \in Nat
    PROVE  /\ Advanced(n) \in Nat /\ cursor <= Advanced(n) /\ n <= Advanced(n)
           /\ Advanced(n) \in {n, cursor}
BY DEF Advanced

\* The end of a sync(): by a response or by its timeout.
LEMMA SyncEndsMeans ==
    ASSUME TypeInv, IsInjective(applied), ApplySync \/ SyncTimeout
    PROVE  /\ TypeInv' /\ \A x \in DownPackets : Kept(x)' => Kept(x)
           /\ \/ applied' = applied /\ cursor' = cursor
              \/ \E p \in DownPackets :
                    /\ p = sync.got /\ p.ev = "sync.response"
                    /\ cursor' = Advanced(p.n)
                    /\ IsInjective(applied') /\ Inbox' = Inbox \union ToSet(p.page)
<1>1. /\ sync' = NoSync
      /\ UNCHANGED <<state, session, sock, opened, online, queues, auth, outbox,
                     jumped, srv, closing, up, down, log, revoked>>
  BY DEF ApplySync, SyncTimeout, serverVars
<1>2. /\ applied \in Seq(Msgs) /\ cursor \in Nat
      /\ sync.got \in DownPackets \union {Nothing}
  BY DEF TypeInv, ClientTypes, AuthCalls, SyncCalls
<1>3. \/ applied' = applied /\ cursor' = cursor
      \/ \E p \in DownPackets :
            /\ p = sync.got /\ p.ev = "sync.response"
            /\ applied' = Applied(p.page) /\ cursor' = Advanced(p.n)
  BY <1>2 DEF ApplySync, SyncTimeout, TypeInv, Sorted
<1>4. /\ applied' \in Seq(Msgs) /\ cursor' \in Nat
      /\ \/ applied' = applied /\ cursor' = cursor
         \/ \E p \in DownPackets :
               /\ p = sync.got /\ p.ev = "sync.response"
               /\ cursor' = Advanced(p.n)
               /\ IsInjective(applied') /\ Inbox' = Inbox \union ToSet(p.page)
  <2>1. CASE applied' = applied /\ cursor' = cursor
    BY <1>2, <2>1
  <2>2. ASSUME NEW p \in DownPackets, p = sync.got, p.ev = "sync.response",
               applied' = Applied(p.page), cursor' = Advanced(p.n)
        PROVE  /\ applied' \in Seq(Msgs) /\ cursor' \in Nat
               /\ IsInjective(applied') /\ Inbox' = Inbox \union ToSet(p.page)
    <3>1. p.page \in Seq(Msgs) /\ p.n \in Nat
      BY PacketEvent
    <3>2. /\ Applied(p.page) \in Seq(Msgs) /\ IsInjective(Applied(p.page))
          /\ ToSet(Applied(p.page)) = Inbox \union ToSet(p.page)
      BY <1>2, <3>1, AppliedMeans
    <3>3. Advanced(p.n) \in Nat
      BY <1>2, <3>1, AdvancedMeans
    <3> QED
      BY <2>2, <3>2, <3>3 DEF Inbox
  <2> QED
    BY <1>3, <2>1, <2>2
<1>5. /\ sync' \in SyncCalls
      /\ sync'.got = Nothing
  BY <1>1 DEF NoSync, AuthCalls, SyncCalls
<1>6. Sorted'
  BY <1>1, <1>5 DEF TypeInv, Sorted
<1>7. \A x \in DownPackets : Kept(x)' => Kept(x)
  BY <1>1, <1>5, NothingKept DEF Kept
<1>8. Pending' = Pending
  BY <1>1 DEF Pending
<1>9. ClientTypes'
  BY <1>1, <1>4, <1>5, <1>8 DEF TypeInv, ClientTypes
<1>10. ServerTypes'
  BY <1>1 DEF TypeInv, ServerTypes
<1> QED
  BY <1>4, <1>6, <1>7, <1>9, <1>10 DEF TypeInv

\* A listener takes the oldest packet on its way.
LEMMA ArrivesMeans ==
    ASSUME TypeInv, NEW ev, Arrives(ev)
    PROVE  /\ down # <<>> /\ down' = Tail(down) /\ down' \in Seq(DownPackets)
           /\ Head(down) \in DownPackets /\ Head(down).ev = ev
           /\ Head(down) \in ToSet(down) /\ ToSet(down') \subseteq ToSet(down)
           /\ \A x \in ToSet(down) : x = Head(down) \/ x \in ToSet(down')
<1>1. down \in Seq(DownPackets)
  BY DEF TypeInv, ServerTypes
<1>2. down # <<>> /\ Head(down).ev = ev /\ down' = Tail(down)
  BY DEF Arrives
<1>3. /\ Head(down) \in DownPackets /\ Tail(down) \in Seq(DownPackets)
      /\ Head(down) \in ToSet(down) /\ ToSet(Tail(down)) \subseteq ToSet(down)
      /\ \A x \in ToSet(down) : x = Head(down) \/ x \in ToSet(Tail(down))
  BY <1>1, <1>2, TailSet
<1> QED
  BY <1>2, <1>3

\* A packet that is passed on to the waiters.
LEMMA OnEnqueuedMeans ==
    ASSUME TypeInv, OnConnect \/ OnDisconnect \/ OnAwaited
    PROVE  /\ TypeInv'
           /\ \A x \in DownPackets : Held(x)' => Held(x)
           /\ UNCHANGED <<sock, opened, outbox, applied, cursor, jumped, srv, closing,
                          up, log, revoked>>
           /\ auth'.awaits = auth.awaits
<1>1. PICK ev \in Awaited : Arrives(ev)
  BY DEF OnConnect, OnDisconnect, OnAwaited, Awaited
<1>2. /\ down' \in Seq(DownPackets)
      /\ Head(down) \in DownPackets /\ Head(down).ev = ev
      /\ Head(down) \in ToSet(down) /\ ToSet(down') \subseteq ToSet(down)
  BY <1>1, ArrivesMeans
<1>3. /\ Enqueue(Head(down))
      /\ UNCHANGED <<sock, opened, outbox, applied, cursor, jumped, srv, closing,
                     up, log, revoked>>
  BY DEF OnConnect, OnDisconnect, OnAwaited
<1>4. /\ queues' \in [Awaited -> Seq(DownPackets)]
      /\ auth' \in AuthCalls /\ sync' \in SyncCalls
      /\ Sorted'
      /\ \A x : Kept(x)' => Kept(x) \/ x = Head(down)
      /\ auth'.awaits = auth.awaits
  BY <1>2, <1>3, EnqueueMeans
<1>5. state' \in States /\ session' \in Nat /\ online' \in BOOLEAN
  <2>1. state \in States /\ session \in Nat /\ online \in BOOLEAN
    BY DEF TypeInv, ClientTypes
  <2>2. CASE OnConnect
    BY <2>1, <2>2 DEF OnConnect, States
  <2>3. CASE OnDisconnect
    BY <2>1, <2>3 DEF OnDisconnect, AfterDisconnect, States
  <2>4. CASE OnAwaited
    BY <2>1, <2>4 DEF OnAwaited
  <2> QED
    BY <2>2, <2>3, <2>4
<1>6. Pending' = Pending
  BY <1>3 DEF Pending
<1>7. ClientTypes'
  BY <1>3, <1>4, <1>5, <1>6 DEF TypeInv, ClientTypes
<1>8. ServerTypes'
  BY <1>2, <1>3 DEF TypeInv, ServerTypes
<1>9. \A x \in DownPackets : Held(x)' => Held(x)
  <2>1. \A x : Held(x)' <=> x \in ToSet(down') \/ Kept(x)'
    BY DEF Held, Kept
  <2>2. \A x : Held(x) <=> x \in ToSet(down) \/ Kept(x)
    BY DEF Held, Kept
  <2> QED
    BY <1>2, <1>4, <2>1, <2>2
<1> QED
  BY <1>3, <1>4, <1>7, <1>8, <1>9 DEF TypeInv

\* device.revoked takes the session away.
LEMMA OnDeviceRevokedMeans ==
    ASSUME TypeInv, OnDeviceRevoked
    PROVE  TypeInv' /\ \A x \in DownPackets : Held(x)' => Held(x)
<1>1. /\ state' = "blocked" /\ session' = 0
      /\ UNCHANGED <<sock, opened, online, queues, auth, sync, outbox, applied,
                     cursor, jumped, srv, closing, up, log, revoked>>
      /\ Arrives("device.revoked")
  BY DEF OnDeviceRevoked
<1>2. down' \in Seq(DownPackets) /\ ToSet(down') \subseteq ToSet(down)
  BY <1>1, ArrivesMeans
<1>3. Pending' = Pending
  BY <1>1 DEF Pending
<1>4. Sorted'
  BY <1>1 DEF TypeInv, Sorted
<1>5. ClientTypes'
  BY <1>1, <1>3 DEF TypeInv, ClientTypes, States
<1>6. ServerTypes'
  BY <1>1, <1>2 DEF TypeInv, ServerTypes
<1>7. \A x \in DownPackets : Held(x)' => Held(x)
  BY <1>1, <1>2 DEF Held
<1> QED
  BY <1>4, <1>5, <1>6, <1>7 DEF TypeInv

\* An ack closes an entry whose message is in the log.
LEMMA OnAckMeans ==
    ASSUME TypeInv, PacketInv, OnAck
    PROVE  /\ TypeInv' /\ \A x \in DownPackets : Held(x)' => Held(x)
           /\ \E m \in Own : m \in ToSet(log) /\ outbox' = [outbox EXCEPT ![m] = "acked"]
<1> DEFINE m == Head(down).id
<1>1. /\ outbox' = [outbox EXCEPT ![m] = "acked"]
      /\ UNCHANGED <<state, session, sock, opened, online, queues, auth, sync,
                     applied, cursor, jumped, srv, closing, up, log, revoked>>
      /\ Arrives("message.ack")
  BY DEF OnAck
<1>2. /\ down' \in Seq(DownPackets) /\ ToSet(down') \subseteq ToSet(down)
      /\ Head(down) \in ToSet(down) /\ Head(down) \in DownPackets
      /\ Head(down).ev = "message.ack"
  BY <1>1, ArrivesMeans
<1>3. m \in Own /\ m \in ToSet(log)
  BY <1>2 DEF PacketInv, Held, Truth
<1> HIDE DEF m
<1>4. outbox \in [Own -> {"none", "pending", "acked"}] /\ IsFiniteSet(Pending)
  BY DEF TypeInv, ClientTypes
<1>5. /\ outbox' \in [Own -> {"none", "pending", "acked"}]
      /\ Pending' \in SUBSET Pending
  BY <1>1, <1>3, <1>4 DEF Pending
<1>6. IsFiniteSet(Pending')
  BY <1>4, <1>5, FS_Subset
<1>7. Sorted'
  BY <1>1 DEF TypeInv, Sorted
<1>8. ClientTypes'
  BY <1>1, <1>5, <1>6 DEF TypeInv, ClientTypes
<1>9. ServerTypes'
  BY <1>1, <1>2 DEF TypeInv, ServerTypes
<1>10. \A x \in DownPackets : Held(x)' => Held(x)
  BY <1>1, <1>2 DEF Held
<1> QED
  BY <1>1, <1>3, <1>7, <1>8, <1>9, <1>10 DEF TypeInv

\* A live message is applied unless it was, at its place in the log.
LEMMA OnMessageNewMeans ==
    ASSUME TypeInv, PacketInv, IsInjective(applied), OnMessageNew
    PROVE  /\ TypeInv' /\ \A x \in DownPackets : Held(x)' => Held(x)
           /\ \E n \in 1 .. Len(log) :
                 /\ IsInjective(applied') /\ Inbox' = Inbox \union {log[n]}
                 /\ cursor' = Advanced(n)
                 /\ jumped' = (jumped \/ \E i \in cursor + 1 .. n - 1 :
                                            log[i] \notin Own \union Inbox)
<1> DEFINE p == Head(down)
<1>1. /\ applied' = IF p.id \in Inbox THEN applied ELSE Append(applied, p.id)
      /\ cursor' = Advanced(p.n)
      /\ jumped' = (jumped \/ \E i \in cursor + 1 .. p.n - 1 :
                                 log[i] \notin Own \union Inbox)
      /\ UNCHANGED <<state, session, sock, opened, online, queues, auth, sync,
                     outbox, srv, closing, up, log, revoked>>
      /\ Arrives("message.new")
  BY DEF OnMessageNew
<1>2. /\ down' \in Seq(DownPackets) /\ ToSet(down') \subseteq ToSet(down)
      /\ p \in ToSet(down) /\ p \in DownPackets /\ p.ev = "message.new"
  BY <1>1, ArrivesMeans
<1> HIDE DEF p
<1>3. p.n \in 1 .. Len(log) /\ log[p.n] = p.id
  BY <1>2 DEF PacketInv, Held, Truth
<1>4. log \in Seq(Msgs) /\ applied \in Seq(Msgs) /\ cursor \in Nat
  BY DEF TypeInv, ClientTypes, ServerTypes
<1>5. p.id \in Msgs /\ p.n \in Nat
  BY <1>3, <1>4
<1>6. /\ applied' \in Seq(Msgs) /\ IsInjective(applied')
      /\ ToSet(applied') = ToSet(applied) \union {p.id}
  BY <1>1, <1>4, <1>5, AppendOnce DEF Inbox
<1>7. cursor' \in Nat
  BY <1>1, <1>4, <1>5, AdvancedMeans
<1>8. jumped' \in BOOLEAN
  BY <1>1
<1>9. Pending' = Pending
  BY <1>1 DEF Pending
<1>10. Sorted'
  BY <1>1 DEF TypeInv, Sorted
<1>11. ClientTypes'
  BY <1>1, <1>6, <1>7, <1>8, <1>9 DEF TypeInv, ClientTypes
<1>12. ServerTypes'
  BY <1>1, <1>2 DEF TypeInv, ServerTypes
<1>13. \A x \in DownPackets : Held(x)' => Held(x)
  BY <1>1, <1>2 DEF Held
<1>14. Inbox' = Inbox \union {log[p.n]}
  BY <1>3, <1>6 DEF Inbox
<1> QED
  BY <1>1, <1>3, <1>6, <1>10, <1>11, <1>12, <1>13, <1>14 DEF TypeInv

-----------------------------------------------------------------------------
(* The server's steps *)

\* Only the first packet on its way may be the connect.
ConnectFirst(s) == \A i \in DOMAIN s : i # 1 => s[i].ev # "connect"

\* A packet that follows some of those on their way.
LEMMA FollowsMeans ==
    ASSUME NEW s \in Seq(DownPackets), NEW i \in 0 .. Len(s), NEW p \in DownPackets
    PROVE  LET d == Append(SubSeq(s, 1, i), p)
           IN  /\ d \in Seq(DownPackets) /\ ToSet(d) \subseteq ToSet(s) \union {p}
               /\ p \in ToSet(d) /\ d # <<>>
               /\ i = Len(s) => d = Append(s, p) /\ ToSet(d) = ToSet(s) \union {p}
               /\ ConnectFirst(s) /\ p.ev # "connect" => ConnectFirst(d)
<1> DEFINE t == SubSeq(s, 1, i)
           d == Append(t, p)
<1>1. /\ t \in Seq(DownPackets) /\ ToSet(t) \subseteq ToSet(s)
  BY PrefixSet
<1>2. /\ Len(t) = i /\ i \in Nat /\ DOMAIN t = 1 .. i
      /\ \A j \in 1 .. i : t[j] = s[j] /\ j \in DOMAIN s
  OBVIOUS
<1>3. i = Len(s) => t = s
  OBVIOUS
<1> HIDE DEF t
<1>4. d \in Seq(DownPackets) /\ ToSet(d) = ToSet(t) \union {p}
  BY <1>1, AppendOnce
<1>5. /\ DOMAIN d = 1 .. i + 1 /\ d[i + 1] = p /\ \A j \in 1 .. i : d[j] = t[j]
      /\ Len(d) = i + 1
  BY <1>1, <1>2
<1>6. d # <<>>
  <2>1. Len(<<>>) = 0
    OBVIOUS
  <2> HIDE DEF d
  <2> QED
    BY <1>2, <1>5, <2>1
<1>7. ASSUME ConnectFirst(s), p.ev # "connect" PROVE ConnectFirst(d)
  <2>1. SUFFICES ASSUME NEW j \in DOMAIN d, j # 1 PROVE d[j].ev # "connect"
    BY DEF ConnectFirst
  <2>2. j \in 1 .. i \/ j = i + 1
    BY <1>2, <1>5
  <2>3. CASE j \in 1 .. i
    BY <1>2, <1>5, <1>7, <2>1, <2>3 DEF ConnectFirst
  <2>4. CASE j = i + 1
    BY <1>5, <1>7, <2>4
  <2> QED
    BY <2>2, <2>3, <2>4
<1> HIDE DEF d
<1>8. /\ ToSet(d) \subseteq ToSet(s) \union {p} /\ p \in ToSet(d)
  BY <1>1, <1>4
<1>9. i = Len(s) => d = Append(s, p) /\ ToSet(d) = ToSet(s) \union {p}
  BY <1>3, <1>4 DEF d
<1> QED
  BY <1>4, <1>6, <1>7, <1>8, <1>9 DEF d, t

\* The same for a packet that follows all of them.
LEMMA AppendMeans ==
    ASSUME NEW s \in Seq(DownPackets), NEW p \in DownPackets
    PROVE  /\ Append(s, p) \in Seq(DownPackets)
           /\ ToSet(Append(s, p)) = ToSet(s) \union {p}
           /\ ConnectFirst(s) /\ p.ev # "connect" => ConnectFirst(Append(s, p))
<1> DEFINE n == Len(s)
           d == Append(SubSeq(s, 1, n), p)
<1>1. n \in 0 .. Len(s) /\ SubSeq(s, 1, n) = s
  OBVIOUS
<1> HIDE DEF n
<1>2. /\ d \in Seq(DownPackets)
      /\ n = Len(s) => ToSet(d) = ToSet(s) \union {p}
      /\ ConnectFirst(s) /\ p.ev # "connect" => ConnectFirst(d)
  BY <1>1, FollowsMeans
<1> QED
  BY <1>1, <1>2 DEF n

\* What a packet says stays true while the log and the cursor grow.
LEMMA TruthStays ==
    ASSUME log \in Seq(Msgs), log' \in Seq(Msgs), Len(log) <= Len(log'),
           \A i \in 1 .. Len(log) : log'[i] = log[i],
           cursor \in Nat, cursor' \in Nat, cursor <= cursor',
           sock' = sock, Admitted => Admitted',
           NEW p \in DownPackets, Truth(p)
    PROVE  Truth(p)'
<1>1. Len(log) \in Nat /\ Len(log') \in Nat /\ DOMAIN log = 1 .. Len(log)
      /\ DOMAIN log' = 1 .. Len(log')
  OBVIOUS
<1>2. ToSet(log) \subseteq ToSet(log')
  <2>1. \A i \in DOMAIN log : i \in DOMAIN log' /\ log'[i] = log[i]
    BY <1>1
  <2> QED
    BY <2>1 DEF ToSet
<1>3. (p.ev = "message.ack" => p.id \in Own /\ p.id \in ToSet(log))'
  BY <1>2 DEF Truth
<1>4. (p.ev = "message.new" => p.n \in 1 .. Len(log) /\ log[p.n] = p.id)'
  BY <1>1 DEF Truth
<1>5. (p.ev = "auth.success" => p.n = sock /\ Admitted)'
  BY DEF Truth
<1>6. ASSUME p.ev = "sync.response"
      PROVE  /\ p.n \in 0 .. Len(log')
             /\ \A i \in 1 .. p.n : i <= cursor' \/ log'[i] \in ToSet(p.page)
  <2>1. /\ p.n \in 0 .. Len(log)
        /\ \A i \in 1 .. p.n : i <= cursor \/ log[i] \in ToSet(p.page)
    BY <1>6 DEF Truth
  <2>2. p.n \in 0 .. Len(log')
    BY <1>1, <2>1
  <2>3. ASSUME NEW i \in 1 .. p.n PROVE i <= cursor' \/ log'[i] \in ToSet(p.page)
    <3>1. i \in 1 .. Len(log) /\ i \in Nat
      BY <1>1, <2>1
    <3>2. log'[i] = log[i]
      BY <3>1
    <3>3. i <= cursor \/ log[i] \in ToSet(p.page)
      BY <2>1
    <3> QED
      BY <3>1, <3>2, <3>3
  <2> QED
    BY <2>2, <2>3
<1>7. (p.ev = "sync.response" =>
          /\ p.n \in 0 .. Len(log)
          /\ \A i \in 1 .. p.n : i <= cursor \/ log[i] \in ToSet(p.page))'
  BY <1>6
<1> QED
  BY <1>3, <1>4, <1>5, <1>7 DEF Truth

\* The log only grows, and holds no message twice.
LogStep ==
    \/ log' = log
    \/ \E m \in Msgs : m \notin ToSet(log) /\ log' = Append(log, m)

\* What is in the log stays at its place.
LEMMA LogStepMeans ==
    ASSUME TypeInv, LogInv, LogStep,
           UNCHANGED <<applied, cursor, outbox, jumped>>
    PROVE  /\ log' \in Seq(Msgs) /\ Len(log) <= Len(log')
           /\ \A i \in 1 .. Len(log) : log'[i] = log[i]
           /\ ToSet(log) \subseteq ToSet(log')
           /\ LogInv'
<1>1. log \in Seq(Msgs) /\ cursor \in Nat /\ Len(log) \in Nat
  BY DEF TypeInv, ClientTypes, ServerTypes
<1>2. /\ log' \in Seq(Msgs) /\ Len(log) <= Len(log')
      /\ \A i \in 1 .. Len(log) : log'[i] = log[i]
      /\ ToSet(log) \subseteq ToSet(log') /\ IsInjective(log')
  <2>1. CASE log' = log
    BY <1>1, <2>1 DEF LogInv
  <2>2. ASSUME NEW m \in Msgs, m \notin ToSet(log), log' = Append(log, m)
        PROVE  /\ log' \in Seq(Msgs) /\ Len(log) <= Len(log')
               /\ \A i \in 1 .. Len(log) : log'[i] = log[i]
               /\ ToSet(log) \subseteq ToSet(log') /\ IsInjective(log')
    <3>1. /\ log' \in Seq(Msgs) /\ ToSet(log') = ToSet(log) \union {m}
          /\ IsInjective(log')
      BY <1>1, <2>2, AppendOnce DEF LogInv
    <3>2. Len(log) <= Len(log') /\ \A i \in 1 .. Len(log) : log'[i] = log[i]
      BY <1>1, <2>2
    <3> QED
      BY <3>1, <3>2
  <2> QED
    BY <2>1, <2>2 DEF LogStep
<1>3. cursor <= Len(log)
  BY DEF LogInv
<1>4. NothingMissed'
  <2>1. SUFFICES ASSUME ~jumped', NEW i \in 1 .. cursor' PROVE log'[i] \in Own \union Inbox'
    BY DEF NothingMissed
  <2>2. i \in 1 .. cursor /\ ~jumped /\ Inbox' = Inbox
    BY <2>1 DEF Inbox
  <2>3. i \in 1 .. Len(log)
    BY <1>1, <1>3, <2>2
  <2>4. log[i] \in Own \union Inbox
    BY <2>2 DEF LogInv, NothingMissed
  <2> QED
    BY <1>2, <2>2, <2>3, <2>4
<1>5. cursor' <= Len(log')
  <2>1. Len(log') \in Nat
    BY <1>2
  <2> QED
    BY <1>1, <1>2, <1>3, <2>1
<1> QED
  BY <1>2, <1>4, <1>5 DEF LogInv

\* Sockets move on in their life; one that loses its session is to be closed.
SocketsStep ==
    /\ srv' \in [Sockets -> {"new", "challenged", "authed", "out", "closed"}]
    /\ closing' \subseteq Sockets
    /\ \A k \in Sockets :
          /\ srv[k] # "new" => srv'[k] # "new"
          /\ srv[k] \in {"authed", "out", "closed"} =>
                srv'[k] \in {"authed", "out", "closed"}
          /\ srv'[k] = "closed" => srv[k] = "closed"
          /\ srv'[k] = "out" => k \in closing'

\* A step of the server that closes no socket: sockets move on, the log grows
\* and at most one packet is emitted to the client.
LEMMA ServerStep ==
    ASSUME Inv, UNCHANGED clientVars, LogStep,
           NEW p \in DownPackets, p.ev # "connect", down' # down => Truth(p)',
           \/ down' = down
           \/ sock # 0 /\ srv[sock] # "new" /\ down' = Append(down, p),
           SocketsStep,
           up' \in [Sockets -> Seq(UpPackets)],
           \A k \in Sockets : ToSet(up'[k]) \subseteq ToSet(up[k]),
           revoked' \in BOOLEAN
    PROVE  Inv'
<1> USE DEF Inv
<1>1. /\ UNCHANGED <<state, session, sock, opened, online, queues, auth, sync,
                     outbox, applied, cursor, jumped>>
  BY DEF clientVars
<1>2. sock # 0 => sock \in Sockets
  BY SockType
<1>3. /\ log' \in Seq(Msgs) /\ Len(log) <= Len(log')
      /\ \A i \in 1 .. Len(log) : log'[i] = log[i]
      /\ LogInv'
  BY <1>1, LogStepMeans
<1>4. down \in Seq(DownPackets)
  BY DEF TypeInv, ServerTypes
<1>5. /\ down' \in Seq(DownPackets)
      /\ ToSet(down) \subseteq ToSet(down')
      /\ ToSet(down') \subseteq ToSet(down) \union {p}
      /\ ConnectFirst(down) => ConnectFirst(down')
      /\ down' = down \/ (sock # 0 /\ srv[sock] # "new")
  <2>1. CASE down' = down
    BY <1>4, <2>1 DEF ConnectFirst
  <2>2. CASE sock # 0 /\ srv[sock] # "new" /\ down' = Append(down, p)
    <3>1. PICK s \in Seq(DownPackets) : s = down
      BY <1>4
    <3>2. /\ Append(s, p) \in Seq(DownPackets)
          /\ ToSet(Append(s, p)) = ToSet(s) \union {p}
          /\ ConnectFirst(s) => ConnectFirst(Append(s, p))
      BY AppendMeans
    <3> QED
      BY <2>2, <3>1, <3>2
  <2> QED
    BY <2>1, <2>2
<1>6. Admitted => Admitted'
  BY <1>1, <1>2 DEF Admitted, SocketsStep
<1>7. TypeInv'
  <2>1. Pending' = Pending
    BY <1>1 DEF Pending
  <2>2. ClientTypes'
    BY <1>1, <2>1 DEF TypeInv, ClientTypes
  <2>3. ServerTypes'
    BY <1>3, <1>5 DEF ServerTypes, SocketsStep
  <2>4. Sorted'
    BY <1>1 DEF TypeInv, Sorted
  <2> QED
    BY <2>2, <2>3, <2>4 DEF TypeInv
<1>8. PacketInv'
  <2>1. ASSUME NEW x \in DownPackets, Held(x)' PROVE Truth(x)'
    <3>1. Held(x) \/ (x = p /\ down' # down)
      <4>1. CASE down' = down
        BY <1>1, <2>1, <4>1 DEF Held
      <4>2. CASE down' # down
        BY <1>1, <1>5, <2>1, <4>2 DEF Held
      <4> QED
        BY <4>1, <4>2
    <3>2. CASE Held(x)
      <4>1. Truth(x)
        BY <3>2 DEF PacketInv
      <4>2. log \in Seq(Msgs) /\ cursor \in Nat /\ cursor' = cursor /\ sock' = sock
        BY <1>1 DEF TypeInv, ClientTypes, ServerTypes
      <4> QED
        BY <1>3, <1>6, <4>1, <4>2, TruthStays
    <3> QED
      BY <3>1, <3>2
  <2>2. \A k \in Sockets : \A x \in ToSet(up'[k]) :
          /\ x.ev = "sync.request" => x.n <= cursor'
          /\ x.ev = "message.send" => x.id \in Own
    BY <1>1 DEF PacketInv
  <2> QED
    BY <2>1, <2>2 DEF PacketInv
<1>9. ConnInv'
  <2>1. (session # 0 => session = sock /\ Admitted)'
    BY <1>1, <1>6 DEF ConnInv
  <2>2. (\A k \in Sockets : srv[k] = "out" => k \in closing)'
    BY DEF SocketsStep
  <2>3. NoConnect => NoConnect'
    BY <1>5 DEF NoConnect
  <2>4. ASSUME sock' # 0, srv'[sock'] = "closed"
        PROVE  (\E x \in ToSet(down') : x.ev = "disconnect") \/ (~online' /\ NoConnect')
    BY <1>1, <1>2, <1>5, <2>3, <2>4 DEF ConnInv, SocketsStep
  <2>5. ASSUME down' # <<>> PROVE sock' # 0 /\ srv'[sock'] # "new" /\ ConnectFirst(down')
    <3>1. sock # 0 /\ srv[sock] # "new"
      BY <1>5, <2>5 DEF ConnInv
    <3>2. ConnectFirst(down)
      <4>1. CASE down = <<>>
        BY <4>1 DEF ConnectFirst
      <4>2. CASE down # <<>>
        BY <4>2 DEF ConnInv, ConnectFirst
      <4> QED
        BY <4>1, <4>2
    <3> QED
      BY <1>1, <1>2, <1>5, <3>1, <3>2 DEF SocketsStep
  <2>6. Greeted => Greeted'
    BY <1>1, <1>2, <2>3 DEF Greeted, SocketsStep
  <2>7. ((\/ state = "blocked" \/ auth.awaits = "verdict"
          \/ auth.got.ev = "auth.challenge" \/ queues["auth.challenge"] # <<>>) => Greeted)'
    BY <1>1, <2>6 DEF ConnInv
  <2> QED
    BY <2>1, <2>2, <2>4, <2>5, <2>7 DEF ConnInv, ConnectFirst
<1> QED
  BY <1>3, <1>7, <1>8, <1>9

\* The packets the server emits.
LEMMA PacketType ==
    ASSUME NEW ev \in Awaited \union {"message.ack", "message.new", "device.revoked"},
           NEW id \in Ids, NEW n \in Nat
    PROVE  /\ Packet(ev, id, n) \in DownPackets /\ Packet(ev, id, n).ev = ev
           /\ Packet(ev, id, n).id = id /\ Packet(ev, id, n).n = n
BY DEF Packet, DownPackets

\* A page.
LEMMA SyncPacketType ==
    ASSUME NEW n \in Nat, NEW page \in Seq(Msgs)
    PROVE  LET q == [Packet("sync.response", "", n) EXCEPT !.page = page]
           IN  q \in DownPackets /\ q.ev = "sync.response" /\ q.n = n /\ q.page = page
BY DEF Packet, DownPackets, Awaited, Ids

\* The parts they are made of.
LEMMA PacketParts ==
    /\ Sockets \subseteq Nat \ {0}
    /\ "" \in Ids /\ "refused" \in Ids /\ "DEVICE_REVOKED" \in Ids /\ Msgs \subseteq Ids
    /\ Awaited = {"connect", "auth.challenge", "auth.success", "auth.failure",
                  "disconnect", "sync.response"}
<1>1. Sockets \subseteq Nat \ {0}
  BY ConnectsAssumption DEF Sockets
<1>2. "" \in Ids /\ "refused" \in Ids /\ "DEVICE_REVOKED" \in Ids /\ Msgs \subseteq Ids
  BY DEF Ids
<1> QED
  BY <1>1, <1>2, Zenon DEF Awaited

\* A handler takes the oldest packet of an open socket.
LEMMA HandlesMeans ==
    ASSUME TypeInv, NEW k \in Sockets, NEW ev, Handles(k, ev)
    PROVE  /\ srv[k] \in {"challenged", "authed", "out"}
           /\ Head(up[k]) \in UpPackets /\ Head(up[k]) \in ToSet(up[k])
           /\ Head(up[k]).ev = ev
           /\ up' \in [Sockets -> Seq(UpPackets)]
           /\ \A j \in Sockets : ToSet(up'[j]) \subseteq ToSet(up[j])
<1>1. /\ srv[k] \in {"challenged", "authed", "out"} /\ up[k] # <<>>
      /\ Head(up[k]).ev = ev /\ up' = [up EXCEPT ![k] = Tail(up[k])]
  BY DEF Handles, Open
<1>2. up \in [Sockets -> Seq(UpPackets)] /\ up[k] \in Seq(UpPackets)
  BY DEF TypeInv, ServerTypes
<1>3. /\ Head(up[k]) \in UpPackets /\ Tail(up[k]) \in Seq(UpPackets)
      /\ Head(up[k]) \in ToSet(up[k]) /\ ToSet(Tail(up[k])) \subseteq ToSet(up[k])
  BY <1>1, <1>2, TailSet
<1> QED
  BY <1>1, <1>2, <1>3

\* What is emitted to an open socket reaches the client if it is its own.
LEMMA ToClientMeans ==
    ASSUME TypeInv, NEW k \in Sockets, srv[k] # "new", NEW p, p \in DownPackets,
           down' = ToClient(k, <<p>>)
    PROVE  /\ \/ down' = down
              \/ sock # 0 /\ srv[sock] # "new" /\ down' = Append(down, p)
           /\ k # sock => down' = down
<1>1. down \in Seq(DownPackets)
  BY DEF TypeInv, ServerTypes
<1>2. down \o <<p>> = Append(down, p)
  BY <1>1
<1>3. k # 0
  BY PacketParts
<1> QED
  BY <1>2, <1>3 DEF ToClient

\* A verdict: auth.success is sent once the socket is admitted.
LEMMA ServerAuthenticatesStep ==
    ASSUME Inv, NEW k \in Sockets, ServerAuthenticates(k) PROVE Inv'
<1>1. /\ srv \in [Sockets -> {"new", "challenged", "authed", "out", "closed"}]
      /\ closing \subseteq Sockets /\ revoked \in BOOLEAN /\ TypeInv
  BY DEF Inv, TypeInv, ServerTypes
<1>2. /\ Handles(k, "auth.response") /\ UNCHANGED clientVars /\ log' = log
      /\ revoked' = revoked
  BY DEF ServerAuthenticates
<1>3. /\ srv[k] \in {"challenged", "authed", "out"}
      /\ up' \in [Sockets -> Seq(UpPackets)]
      /\ \A j \in Sockets : ToSet(up'[j]) \subseteq ToSet(up[j])
  BY <1>1, <1>2, HandlesMeans
<1>4. LogStep
  BY <1>2 DEF LogStep
<1>5. \A j \in Sockets : srv[j] = "out" => j \in closing
  BY DEF Inv, ConnInv
<1>6. CASE srv[k] = "challenged" /\ Head(up[k]).n = k /\ ~revoked
  <2> DEFINE q == Packet("auth.success", "", k)
  <2>1. /\ srv' = [j \in Sockets |-> IF j = k THEN "authed"
                                     ELSE IF srv[j] = "authed" THEN "out" ELSE srv[j]]
        /\ closing' = closing \union {j \in Sockets \ {k} : srv[j] = "authed"}
        /\ down' = ToClient(k, <<q>>)
    BY <1>6 DEF ServerAuthenticates, Authed
  <2>2. q \in DownPackets /\ q.ev = "auth.success" /\ q.n = k
    <3>1. k \in Nat /\ "" \in Ids /\ "auth.success" \in Awaited \union
                {"message.ack", "message.new", "device.revoked"}
      BY PacketParts
    <3>2. Packet("auth.success", "", k) \in DownPackets
      BY <3>1, PacketType, Zenon
    <3>3. q.ev = "auth.success" /\ q.n = k
      BY DEF Packet
    <3> QED
      BY <3>2, <3>3
  <2>3. PICK p \in DownPackets : p = q
    BY <2>2
  <2> HIDE DEF q
  <2>4. /\ \/ down' = down
           \/ sock # 0 /\ srv[sock] # "new" /\ down' = Append(down, p)
        /\ k # sock => down' = down
    BY <1>1, <1>3, <2>1, <2>3, ToClientMeans
  <2>5. SocketsStep /\ srv'[k] = "authed"    BY <1>1, <1>5, <2>1 DEF SocketsStep
  <2>6. sock' = sock
    BY <1>2 DEF clientVars
  <2>7. down' # down => Truth(p)'
    <3>1. SUFFICES ASSUME k = sock PROVE Truth(p)'
      BY <2>4
    <3>2. Admitted'
      BY <2>4, <2>5, <2>6, <3>1, PacketParts DEF Admitted
    <3> QED
      BY <2>2, <2>3, <2>6, <3>1, <3>2 DEF Truth
  <2> QED
    BY <1>1, <1>2, <1>3, <1>4, <2>2, <2>3, <2>4, <2>5, <2>7, ServerStep
<1>7. CASE ~(srv[k] = "challenged" /\ Head(up[k]).n = k /\ ~revoked)
  <2> DEFINE q == Packet("auth.failure", IF revoked THEN "DEVICE_REVOKED" ELSE "refused", k)
  <2>1. /\ srv' = [srv EXCEPT ![k] = IF srv[k] = "challenged" /\ ~revoked
                                     THEN "out" ELSE srv[k]]
        /\ closing' = closing \union {k}
        /\ down' = ToClient(k, <<q>>)
    BY <1>7 DEF ServerAuthenticates
  <2>2. q \in DownPackets /\ q.ev = "auth.failure"
    <3>1. /\ (IF revoked THEN "DEVICE_REVOKED" ELSE "refused") \in Ids
          /\ k \in Nat /\ "auth.failure" \in Awaited \union
                {"message.ack", "message.new", "device.revoked"}
      BY PacketParts
    <3> QED
      BY <3>1 DEF Packet, DownPackets
  <2>3. PICK p \in DownPackets : p = q
    BY <2>2
  <2> HIDE DEF q
  <2>4. \/ down' = down
        \/ sock # 0 /\ srv[sock] # "new" /\ down' = Append(down, p)
    BY <1>1, <1>3, <2>1, <2>3, ToClientMeans
  <2>5. SocketsStep    BY <1>1, <1>5, <2>1 DEF SocketsStep
  <2>6. Truth(p)'
    BY <2>2, <2>3 DEF Truth
  <2> QED
    BY <1>1, <1>2, <1>3, <1>4, <2>2, <2>3, <2>4, <2>5, <2>6, ServerStep
<1> QED
  BY <1>6, <1>7

\* A packet outside a session only gets its socket closed.
LEMMA ServerRefusesStep ==
    ASSUME Inv, NEW k \in Sockets, ServerRefuses(k) PROVE Inv'
<1>1. /\ srv \in [Sockets -> {"new", "challenged", "authed", "out", "closed"}]
      /\ closing \subseteq Sockets /\ revoked \in BOOLEAN /\ TypeInv
  BY DEF Inv, TypeInv, ServerTypes
<1>2. /\ closing' = closing \union {k}
      /\ UNCHANGED <<clientVars, srv, down, log, revoked>>
  BY DEF ServerRefuses
<1>3. PICK ev : Handles(k, ev)
  BY DEF ServerRefuses
<1>4. /\ up' \in [Sockets -> Seq(UpPackets)]
      /\ \A j \in Sockets : ToSet(up'[j]) \subseteq ToSet(up[j])
  BY <1>1, <1>3, HandlesMeans
<1>5. LogStep
  BY <1>2 DEF LogStep
<1>6. \A j \in Sockets : srv[j] = "out" => j \in closing
  BY DEF Inv, ConnInv
<1>7. SocketsStep  BY <1>1, <1>2, <1>6 DEF SocketsStep
<1>8. PICK p \in DownPackets : p.ev = "disconnect"
  <2>1. "" \in Ids /\ 0 \in Nat /\ "disconnect" \in Awaited \union
              {"message.ack", "message.new", "device.revoked"}
    BY PacketParts
  <2> QED
    BY <2>1, PacketType, Zenon
<1> QED
  BY <1>1, <1>2, <1>4, <1>5, <1>7, <1>8, ServerStep

\* An ack is sent for a message that is in the log by then.
LEMMA ServerLogsStep ==
    ASSUME Inv, NEW k \in Sockets, ServerLogs(k) PROVE Inv'
<1> DEFINE m == Head(up[k]).id
           q == Packet("message.ack", m, 0)
<1>1. /\ srv \in [Sockets -> {"new", "challenged", "authed", "out", "closed"}]
      /\ closing \subseteq Sockets /\ revoked \in BOOLEAN /\ TypeInv
      /\ log \in Seq(Msgs)
  BY DEF Inv, TypeInv, ServerTypes
<1>2. /\ Handles(k, "message.send") /\ UNCHANGED <<clientVars, srv, closing, revoked>>
      /\ log' = IF m \in ToSet(log) THEN log ELSE Append(log, m)
      /\ down' = ToClient(k, <<q>>)
  BY DEF ServerLogs
<1>3. /\ srv[k] \in {"challenged", "authed", "out"}
      /\ Head(up[k]) \in ToSet(up[k]) /\ Head(up[k]).ev = "message.send"
      /\ up' \in [Sockets -> Seq(UpPackets)]
      /\ \A j \in Sockets : ToSet(up'[j]) \subseteq ToSet(up[j])
  BY <1>1, <1>2, HandlesMeans
<1>4. m \in Own
  BY <1>3 DEF Inv, PacketInv
<1>5. m \in Msgs
  BY <1>4 DEF Msgs
<1>6. q \in DownPackets /\ q.ev = "message.ack" /\ q.id = m
  <2>1. /\ m \in Ids /\ 0 \in Nat
        /\ "message.ack" \in Awaited \union {"message.ack", "message.new", "device.revoked"}
    BY <1>5, PacketParts
  <2> QED
    BY <2>1 DEF Packet, DownPackets
<1>7. PICK p \in DownPackets : p = q
  BY <1>6
<1> HIDE DEF q, m
<1>8. \/ down' = down
      \/ sock # 0 /\ srv[sock] # "new" /\ down' = Append(down, p)
  BY <1>1, <1>2, <1>3, <1>7, ToClientMeans
<1>9. LogStep /\ m \in ToSet(log')
  <2>1. CASE m \in ToSet(log)
    BY <1>2, <2>1 DEF LogStep
  <2>2. CASE m \notin ToSet(log)
    <3>1. ToSet(Append(log, m)) = ToSet(log) \union {m}
      BY <1>1, <1>5, AppendOnce
    <3> QED
      BY <1>2, <1>5, <2>2, <3>1 DEF LogStep
  <2> QED
    BY <2>1, <2>2
<1>10. Truth(p)'
  <2>1. p.ev = "message.ack" /\ p.id = m
    BY <1>6, <1>7
  <2>2. p.id \in Own /\ p.id \in ToSet(log')
    BY <1>4, <1>9, <2>1
  <2> QED
    BY <2>1, <2>2 DEF Truth
<1>11. \A j \in Sockets : srv[j] = "out" => j \in closing
  BY DEF Inv, ConnInv
<1>12. SocketsStep  BY <1>1, <1>2, <1>11 DEF SocketsStep
<1>13. UNCHANGED clientVars /\ revoked' \in BOOLEAN
  BY <1>1, <1>2
<1> QED
  BY <1>3, <1>6, <1>7, <1>8, <1>9, <1>10, <1>12, <1>13, ServerStep

\* A page and the cursor it comes with: no gap after n.
LEMMA PageMeans ==
    ASSUME TypeInv, NEW n \in Nat, n <= Len(log)
    PROVE  /\ PageAfter(n) \in Seq(Msgs) /\ SyncCursor(n) \in 0 .. Len(log)
           /\ \A i \in 1 .. SyncCursor(n) : i <= n \/ log[i] \in ToSet(PageAfter(n))
<1> DEFINE last == IF n + PageLimit < Len(log) THEN n + PageLimit ELSE Len(log)
           page == PageAfter(n)
<1>1. log \in Seq(Msgs) /\ Len(log) \in Nat /\ PageLimit \in Nat \ {0}
  BY PageAssumption DEF TypeInv, ServerTypes
<1>2. last \in n .. Len(log) /\ last \in Nat
  BY <1>1
<1>3. page = SubSeq(log, n + 1, last)
  BY DEF PageAfter
<1>4. last - n = PageLimit => n + PageLimit = last
  BY <1>1, <1>2
<1>5. last - n # PageLimit => last = Len(log)
  BY <1>1
<1> HIDE DEF last, page
<1>6. /\ page \in Seq(Msgs) /\ Len(page) = last - n
      /\ DOMAIN page = 1 .. last - n
      /\ \A j \in 1 .. last - n : page[j] = log[n + j]
  BY <1>1, <1>2, <1>3
<1>7. SyncCursor(n) = last
  <2>1. SyncCursor(n) = IF Len(page) = PageLimit THEN n + PageLimit ELSE Len(log)
    BY DEF SyncCursor, page
  <2> QED
    BY <1>4, <1>5, <1>6, <2>1
<1>8. ASSUME NEW i \in 1 .. last, ~(i <= n) PROVE log[i] \in ToSet(page)
  <2>1. i - n \in DOMAIN page /\ page[i - n] = log[n + (i - n)] /\ n + (i - n) = i
    BY <1>1, <1>2, <1>6, <1>8
  <2> QED
    BY <2>1 DEF ToSet
<1> QED
  BY <1>1, <1>2, <1>6, <1>7, <1>8 DEF page

\* A page is sent for a request that was not ahead of the cursor.
LEMMA ServerSyncsStep ==
    ASSUME Inv, NEW k \in Sockets, ServerSyncs(k) PROVE Inv'
<1> DEFINE n == Head(up[k]).n
           q == [Packet("sync.response", "", SyncCursor(n)) EXCEPT !.page = PageAfter(n)]
<1>1. /\ srv \in [Sockets -> {"new", "challenged", "authed", "out", "closed"}]
      /\ closing \subseteq Sockets /\ revoked \in BOOLEAN /\ TypeInv
      /\ log \in Seq(Msgs) /\ cursor \in Nat
  BY DEF Inv, TypeInv, ServerTypes, ClientTypes
<1>2. /\ Handles(k, "sync.request") /\ UNCHANGED <<clientVars, srv, closing, log, revoked>>
      /\ down' = ToClient(k, <<q>>)
  BY DEF ServerSyncs
<1>3. /\ srv[k] \in {"challenged", "authed", "out"}
      /\ Head(up[k]) \in UpPackets
      /\ Head(up[k]) \in ToSet(up[k]) /\ Head(up[k]).ev = "sync.request"
      /\ up' \in [Sockets -> Seq(UpPackets)]
      /\ \A j \in Sockets : ToSet(up'[j]) \subseteq ToSet(up[j])
  BY <1>1, <1>2, HandlesMeans
<1>4. n \in Nat /\ n <= cursor
  BY <1>3 DEF UpPackets, Inv, PacketInv
<1>5. cursor <= Len(log) /\ Len(log) \in Nat
  BY <1>1 DEF Inv, LogInv
<1>6. n <= Len(log)
  BY <1>1, <1>4, <1>5
<1> HIDE DEF n
<1>8. /\ PageAfter(n) \in Seq(Msgs) /\ SyncCursor(n) \in 0 .. Len(log)
      /\ \A i \in 1 .. SyncCursor(n) : i <= n \/ log[i] \in ToSet(PageAfter(n))
  BY <1>1, <1>4, <1>6, PageMeans
<1>9. /\ q \in DownPackets /\ q.ev = "sync.response"
      /\ q.n = SyncCursor(n) /\ q.page = PageAfter(n)
  <2>1. SyncCursor(n) \in Nat
    BY <1>5, <1>8
  <2> QED
    BY <1>8, <2>1, SyncPacketType, Zenon
<1> HIDE DEF q
<1>10. PICK p \in DownPackets : p = q
  BY <1>9
<1>11. \/ down' = down
       \/ sock # 0 /\ srv[sock] # "new" /\ down' = Append(down, p)
  BY <1>1, <1>2, <1>3, <1>10, ToClientMeans
<1>12. LogStep
  BY <1>2 DEF LogStep
<1>13. Truth(p)'
  <2>1. log' = log /\ cursor' = cursor
    BY <1>2 DEF clientVars
  <2>2. /\ p.ev = "sync.response" /\ p.n \in 0 .. Len(log)
        /\ \A i \in 1 .. p.n : i <= n \/ log[i] \in ToSet(p.page)
    BY <1>8, <1>9, <1>10
  <2>3. \A i \in 1 .. p.n : i <= cursor \/ log[i] \in ToSet(p.page)
    BY <1>1, <1>4, <2>2
  <2> QED
    BY <2>1, <2>2, <2>3 DEF Truth
<1>14. \A j \in Sockets : srv[j] = "out" => j \in closing
  BY DEF Inv, ConnInv
<1>15. SocketsStep  BY <1>1, <1>2, <1>14 DEF SocketsStep
<1>16. UNCHANGED clientVars /\ revoked' \in BOOLEAN
  BY <1>1, <1>2
<1> QED
  BY <1>3, <1>9, <1>10, <1>11, <1>12, <1>13, <1>15, <1>16, ServerStep

\* A live message is announced at its place in the log.
LEMMA PeerSendsStep ==
    ASSUME Inv, NEW m \in Peer, PeerSends(m) PROVE Inv'
<1> DEFINE q == Packet("message.new", m, Len(log) + 1)
<1>1. /\ srv \in [Sockets -> {"new", "challenged", "authed", "out", "closed"}]
      /\ closing \subseteq Sockets /\ up \in [Sockets -> Seq(UpPackets)]
      /\ revoked \in BOOLEAN /\ TypeInv /\ log \in Seq(Msgs) /\ Len(log) \in Nat
  BY DEF Inv, TypeInv, ServerTypes
<1>2. /\ m \notin ToSet(log) /\ log' = Append(log, m)
      /\ UNCHANGED <<clientVars, srv, closing, up, revoked>>
      /\ down' = IF sock # 0 /\ srv[sock] = "authed" THEN Append(down, q) ELSE down
  BY DEF PeerSends, Authed
<1>3. m \in Msgs /\ m \in Ids /\ Len(log) + 1 \in Nat
  <2>1. m \in Msgs
    BY DEF Msgs
  <2>2. Len(log) + 1 \in Nat
    BY <1>1
  <2> QED
    BY <2>1, <2>2 DEF Ids
<1>4. q \in DownPackets /\ q.ev = "message.new" /\ q.id = m /\ q.n = Len(log) + 1
  <2>1. "message.new" \in Awaited \union {"message.ack", "message.new", "device.revoked"}
    OBVIOUS
  <2>2. Packet("message.new", m, Len(log) + 1) \in DownPackets
    BY <1>3, <2>1, PacketType, Zenon
  <2>3. q.ev = "message.new" /\ q.id = m /\ q.n = Len(log) + 1
    BY DEF Packet
  <2> QED
    BY <2>2, <2>3
<1>5. PICK p \in DownPackets : p = q
  BY <1>4
<1> HIDE DEF q
<1>6. \/ down' = down
      \/ sock # 0 /\ srv[sock] # "new" /\ down' = Append(down, p)
  BY <1>2, <1>5
<1>7. LogStep
  BY <1>2, <1>3 DEF LogStep
<1>8. Truth(p)'
  <2>1. Len(log') = Len(log) + 1 /\ log'[Len(log) + 1] = m
    BY <1>1, <1>2, <1>3
  <2>2. p.ev = "message.new" /\ p.n \in 1 .. Len(log') /\ log'[p.n] = p.id
    BY <1>1, <1>4, <1>5, <2>1
  <2> QED
    BY <2>2 DEF Truth
<1>9. \A j \in Sockets : srv[j] = "out" => j \in closing
  BY DEF Inv, ConnInv
<1>10. SocketsStep  BY <1>1, <1>2, <1>9 DEF SocketsStep
<1>11. /\ UNCHANGED clientVars /\ revoked' \in BOOLEAN
       /\ up' \in [Sockets -> Seq(UpPackets)]
       /\ \A j \in Sockets : ToSet(up'[j]) \subseteq ToSet(up[j])
  BY <1>1, <1>2
<1>12. p.ev # "connect"
  BY <1>4, <1>5
<1> QED
  BY <1>6, <1>7, <1>8, <1>10, <1>11, <1>12, ServerStep

\* Revocation: the sockets it takes out of session are about to close.
LEMMA RevokeStep ==
    ASSUME Inv, Revoke PROVE Inv'
<1> DEFINE q == Packet("device.revoked", "", 0)
<1>1. /\ srv \in [Sockets -> {"new", "challenged", "authed", "out", "closed"}]
      /\ closing \subseteq Sockets /\ up \in [Sockets -> Seq(UpPackets)]
      /\ TypeInv
  BY DEF Inv, TypeInv, ServerTypes
<1>2. /\ revoked' = TRUE
      /\ srv' = [k \in Sockets |-> IF srv[k] = "authed" THEN "out" ELSE srv[k]]
      /\ closing' = closing \union {k \in Sockets : srv[k] = "authed"}
      /\ UNCHANGED <<clientVars, up, log>>
      /\ down' = IF sock # 0 /\ srv[sock] = "authed" THEN Append(down, q) ELSE down
  BY DEF Revoke, Authed
<1>3. q \in DownPackets /\ q.ev = "device.revoked"
  <2>1. /\ "" \in Ids /\ 0 \in Nat
        /\ "device.revoked" \in Awaited \union {"message.ack", "message.new", "device.revoked"}
    BY PacketParts
  <2>2. Packet("device.revoked", "", 0) \in DownPackets
    BY <2>1, PacketType, Zenon
  <2>3. q.ev = "device.revoked"
    BY DEF Packet
  <2> QED
    BY <2>2, <2>3
<1>4. PICK p \in DownPackets : p = q
  BY <1>3
<1> HIDE DEF q
<1>5. \/ down' = down
      \/ sock # 0 /\ srv[sock] # "new" /\ down' = Append(down, p)
  BY <1>2, <1>4
<1>6. LogStep
  BY <1>2 DEF LogStep
<1>7. Truth(p)'
  BY <1>3, <1>4 DEF Truth
<1>8. \A j \in Sockets : srv[j] = "out" => j \in closing
  BY DEF Inv, ConnInv
<1>9. SocketsStep  BY <1>1, <1>2, <1>8 DEF SocketsStep
<1>10. /\ UNCHANGED clientVars /\ revoked' \in BOOLEAN
       /\ up' \in [Sockets -> Seq(UpPackets)]
       /\ \A j \in Sockets : ToSet(up'[j]) \subseteq ToSet(up[j])
  BY <1>1, <1>2
<1>11. p.ev # "connect"
  BY <1>3, <1>4
<1> QED
  BY <1>5, <1>6, <1>7, <1>9, <1>10, <1>11, ServerStep

\* The challenge is the first that a new connection sees after its connect.
LEMMA ServerAcceptsStep ==
    ASSUME Inv, NEW k \in Sockets, ServerAccepts(k) PROVE Inv'
<1> DEFINE q == Packet("connect", "", k)
           c == Packet("auth.challenge", "", k)
<1>1. /\ srv[k] = "new" /\ k = sock /\ srv' = [srv EXCEPT ![k] = "challenged"]
      /\ down' = <<q, c>> /\ UNCHANGED <<clientVars, closing, up, log, revoked>>
  BY DEF ServerAccepts
<1>2. UNCHANGED <<state, session, sock, opened, online, queues, auth, sync,
                  outbox, applied, cursor, jumped, closing, up, log, revoked>>
  BY <1>1 DEF clientVars
<1>3. /\ q \in DownPackets /\ q.ev = "connect"
      /\ c \in DownPackets /\ c.ev = "auth.challenge" /\ k \in Nat \ {0}
  <2>1. /\ k \in Nat \ {0} /\ "" \in Ids
        /\ "connect" \in Awaited \union {"message.ack", "message.new", "device.revoked"}
        /\ "auth.challenge" \in Awaited \union {"message.ack", "message.new", "device.revoked"}
    BY PacketParts
  <2>2. Packet("connect", "", k) \in DownPackets /\ Packet("auth.challenge", "", k) \in DownPackets
    BY <2>1, PacketType, Zenon
  <2>3. q.ev = "connect" /\ c.ev = "auth.challenge"
    BY DEF Packet
  <2> QED
    BY <2>1, <2>2, <2>3
<1> HIDE DEF q, c
<1>4. /\ down' \in Seq(DownPackets) /\ ToSet(down') = {q, c}
      /\ DOMAIN down' = {1, 2} /\ down'[1] = q /\ down'[2] = c
  BY <1>1, <1>3 DEF ToSet
<1>5. srv \in [Sockets -> {"new", "challenged", "authed", "out", "closed"}]
  BY DEF Inv, TypeInv, ServerTypes
<1>6. /\ srv' \in [Sockets -> {"new", "challenged", "authed", "out", "closed"}]
      /\ srv'[k] = "challenged" /\ \A j \in Sockets \ {k} : srv'[j] = srv[j]
  BY <1>1, <1>5
<1>7. ~Admitted
  BY <1>1 DEF Admitted
<1>8. ~Greeted
  BY <1>1, <1>3 DEF Greeted
<1>9. TypeInv'
  <2>1. Pending' = Pending
    BY <1>2 DEF Pending
  <2>2. ClientTypes'
    BY <1>2, <2>1 DEF Inv, TypeInv, ClientTypes
  <2>3. ServerTypes'
    BY <1>2, <1>4, <1>6 DEF Inv, TypeInv, ServerTypes
  <2>4. Sorted'
    BY <1>2 DEF Inv, TypeInv, Sorted
  <2> QED
    BY <2>2, <2>3, <2>4 DEF TypeInv
<1>10. PacketInv'
  <2>1. ASSUME NEW x \in DownPackets, Held(x)' PROVE Truth(x)'
    <3>1. Held(x) \/ x.ev = "connect" \/ x.ev = "auth.challenge"
      BY <1>2, <1>3, <1>4, <2>1 DEF Held
    <3>2. CASE Held(x)
      <4>1. Truth(x)
        BY <3>2 DEF Inv, PacketInv
      <4> QED
        BY <1>2, <1>7, <4>1 DEF Truth
    <3>3. CASE x.ev = "connect" \/ x.ev = "auth.challenge"
      BY <3>3 DEF Truth
    <3> QED
      BY <3>1, <3>2, <3>3
  <2>2. \A j \in Sockets : \A x \in ToSet(up'[j]) :
          /\ x.ev = "sync.request" => x.n <= cursor'
          /\ x.ev = "message.send" => x.id \in Own
    BY <1>2 DEF Inv, PacketInv
  <2> QED
    BY <2>1, <2>2 DEF PacketInv
<1>11. LogInv'
  BY <1>2 DEF Inv, LogInv, NothingMissed, Inbox
<1>12. ConnInv'
  <2>1. session' = 0
    BY <1>2, <1>7 DEF Inv, ConnInv
  <2>2. \A j \in Sockets : srv'[j] = "out" => j \in closing'
    BY <1>2, <1>6 DEF Inv, ConnInv
  <2>3. sock' # 0 /\ srv'[sock'] = "challenged"
    BY <1>1, <1>2, <1>3, <1>6
  <2>4. \A i \in DOMAIN down' : i # 1 => down'[i].ev # "connect"
    BY <1>3, <1>4
  <2>5. ~(\/ state' = "blocked" \/ auth'.awaits = "verdict"
          \/ auth'.got.ev = "auth.challenge" \/ queues'["auth.challenge"] # <<>>)
    BY <1>2, <1>8 DEF Inv, ConnInv
  <2> QED
    BY <2>1, <2>2, <2>3, <2>4, <2>5 DEF ConnInv
<1> QED
  BY <1>9, <1>10, <1>11, <1>12 DEF Inv

\* A connection that ends leaves a disconnect for the client, after a prefix
\* of what was on its way.
LEMMA ClosingStep ==
    ASSUME Inv, NEW k \in Sockets, srv[k] # "new",
           UNCHANGED <<clientVars, log, revoked>>,
           closing' = closing \ {k}, srv' = [srv EXCEPT ![k] = "closed"],
           up' = [up EXCEPT ![k] = <<>>],
           NEW p \in DownPackets, p.ev = "disconnect",
           k # sock => down' = down,
           k = sock => \E i \in 0 .. Len(down) : down' = Append(SubSeq(down, 1, i), p)
    PROVE  Inv'
<1>1. UNCHANGED <<state, session, sock, opened, online, queues, auth, sync,
                  outbox, applied, cursor, jumped, log, revoked>>
  BY DEF clientVars
<1>2. /\ srv \in [Sockets -> {"new", "challenged", "authed", "out", "closed"}]
      /\ closing \subseteq Sockets /\ up \in [Sockets -> Seq(UpPackets)]
      /\ down \in Seq(DownPackets) /\ TypeInv
      /\ sock # 0 => sock \in Sockets
  BY SockType DEF Inv, TypeInv, ServerTypes
<1>3. /\ srv' \in [Sockets -> {"new", "challenged", "authed", "out", "closed"}]
      /\ srv'[k] = "closed" /\ \A j \in Sockets \ {k} : srv'[j] = srv[j]
  BY <1>2
<1>4. /\ up' \in [Sockets -> Seq(UpPackets)] /\ up'[k] = <<>>
      /\ \A j \in Sockets \ {k} : up'[j] = up[j]
  BY <1>2
<1>5. \A j \in Sockets : ToSet(up'[j]) \subseteq ToSet(up[j])
  <2>1. ToSet(<<>>) = {}
    BY DEF ToSet
  <2> QED
    BY <1>4, <2>1
<1>6. ConnectFirst(down)
  <2>1. CASE down = <<>>
    BY <2>1 DEF ConnectFirst
  <2>2. CASE down # <<>>
    BY <2>2 DEF Inv, ConnInv, ConnectFirst
  <2> QED
    BY <2>1, <2>2
<1>7. /\ down' \in Seq(DownPackets) /\ ToSet(down') \subseteq ToSet(down) \union {p}
      /\ ConnectFirst(down') /\ (k = sock => p \in ToSet(down'))
      /\ down' = down \/ k = sock
  <2>1. CASE k # sock
    <3>1. down' = down
      BY <2>1
    <3>2. ConnectFirst(down')
      BY <1>6, <3>1 DEF ConnectFirst
    <3> QED
      BY <1>2, <2>1, <3>1, <3>2
  <2>2. CASE k = sock
    <3>1. PICK i \in 0 .. Len(down) : down' = Append(SubSeq(down, 1, i), p)
      BY <2>2
    <3>2. PICK s \in Seq(DownPackets) : s = down
      BY <1>2
    <3> DEFINE d == Append(SubSeq(s, 1, i), p)
    <3>3. /\ d \in Seq(DownPackets) /\ ToSet(d) \subseteq ToSet(s) \union {p}
          /\ p \in ToSet(d)
          /\ ConnectFirst(s) /\ p.ev # "connect" => ConnectFirst(d)
      BY <3>2, FollowsMeans
    <3>4. down' = d
      BY <3>1, <3>2
    <3>5. ConnectFirst(s)
      BY <1>6, <3>2
    <3> HIDE DEF d
    <3>6. ConnectFirst(d)
      BY <3>3, <3>5
    <3>7. ConnectFirst(down')
      BY <3>4, <3>6 DEF ConnectFirst
    <3> QED
      BY <2>2, <3>2, <3>3, <3>4, <3>7
  <2> QED
    BY <2>1, <2>2
<1>8. Admitted => Admitted'
  BY <1>1, <1>2, <1>3 DEF Admitted
<1>9. TypeInv'
  <2>1. Pending' = Pending
    BY <1>1 DEF Pending
  <2>2. ClientTypes'
    BY <1>1, <2>1 DEF Inv, TypeInv, ClientTypes
  <2>3. ServerTypes'
    BY <1>1, <1>2, <1>3, <1>4, <1>7 DEF Inv, TypeInv, ServerTypes
  <2>4. Sorted'
    BY <1>1 DEF Inv, TypeInv, Sorted
  <2> QED
    BY <2>2, <2>3, <2>4 DEF TypeInv
<1>10. PacketInv'
  <2>1. ASSUME NEW x \in DownPackets, Held(x)' PROVE Truth(x)'
    <3>1. Held(x) \/ x.ev = "disconnect"
      BY <1>1, <1>7, <2>1 DEF Held
    <3>2. CASE Held(x)
      <4>1. Truth(x)
        BY <3>2 DEF Inv, PacketInv
      <4> QED
        BY <1>1, <1>8, <4>1 DEF Truth
    <3>3. CASE x.ev = "disconnect"
      BY <3>3 DEF Truth
    <3> QED
      BY <3>1, <3>2, <3>3
  <2>2. \A j \in Sockets : \A x \in ToSet(up'[j]) :
          /\ x.ev = "sync.request" => x.n <= cursor'
          /\ x.ev = "message.send" => x.id \in Own
    BY <1>1, <1>5 DEF Inv, PacketInv
  <2> QED
    BY <2>1, <2>2 DEF PacketInv
<1>11. LogInv'
  BY <1>1 DEF Inv, LogInv, NothingMissed, Inbox
<1>12. ConnInv'
  <2>1. (session # 0 => session = sock /\ Admitted)'
    BY <1>1, <1>8 DEF Inv, ConnInv
  <2>2. \A j \in Sockets : srv'[j] = "out" => j \in closing'
    BY <1>3 DEF Inv, ConnInv
  <2>3. NoConnect => NoConnect'
    BY <1>7 DEF NoConnect
  <2>4. ASSUME sock' # 0, srv'[sock'] = "closed"
        PROVE  (\E x \in ToSet(down') : x.ev = "disconnect") \/ (~online' /\ NoConnect')
    <3>1. CASE k = sock
      BY <1>7, <3>1
    <3>2. CASE k # sock
      <4>1. down' = down /\ srv[sock] = "closed" /\ sock # 0
        BY <1>1, <1>2, <1>3, <2>4, <3>2
      <4> QED
        BY <1>1, <2>3, <4>1 DEF Inv, ConnInv
    <3> QED
      BY <3>1, <3>2
  <2>5. ASSUME down' # <<>> PROVE sock' # 0 /\ srv'[sock'] # "new"
    <3>1. CASE k = sock
      BY <1>1, <1>3, <3>1, PacketParts
    <3>2. CASE k # sock
      <4>1. down # <<>>
        BY <2>5, <3>2
      <4>2. sock # 0 /\ srv[sock] # "new"
        BY <4>1 DEF Inv, ConnInv
      <4> QED
        BY <1>1, <1>2, <1>3, <3>2, <4>2
    <3> QED
      BY <3>1, <3>2
  <2>6. Greeted => Greeted'
    BY <1>1, <1>2, <1>3, <2>3 DEF Greeted
  <2>7. ((\/ state = "blocked" \/ auth.awaits = "verdict"
          \/ auth.got.ev = "auth.challenge" \/ queues["auth.challenge"] # <<>>) => Greeted)'
    BY <1>1, <2>6 DEF Inv, ConnInv
  <2> QED
    BY <1>7, <2>1, <2>2, <2>4, <2>5, <2>7 DEF ConnInv, ConnectFirst
<1> QED
  BY <1>9, <1>10, <1>11, <1>12 DEF Inv

\* The packet that a closed connection leaves.
LEMMA DisconnectPacket ==
    ASSUME NEW k \in Sockets
    PROVE  LET q == Packet("disconnect", "", k)
           IN  q \in DownPackets /\ q.ev = "disconnect"
<1>1. /\ k \in Nat /\ "" \in Ids
      /\ "disconnect" \in Awaited \union {"message.ack", "message.new", "device.revoked"}
  BY PacketParts
<1>2. Packet("disconnect", "", k) \in DownPackets
  BY <1>1, PacketType, Zenon
<1>3. Packet("disconnect", "", k).ev = "disconnect"
  BY DEF Packet
<1> QED
  BY <1>2, <1>3

\* The server closes a socket.
LEMMA ServerClosesStep ==
    ASSUME Inv, NEW k \in Sockets, ServerCloses(k) PROVE Inv'
<1> DEFINE p == Packet("disconnect", "", k)
<1>1. /\ srv[k] # "new" /\ closing' = closing \ {k}
      /\ srv' = [srv EXCEPT ![k] = "closed"] /\ up' = [up EXCEPT ![k] = <<>>]
      /\ down' = ToClient(k, <<p>>) /\ UNCHANGED <<clientVars, log, revoked>>
  BY DEF ServerCloses, Open
<1>2. p \in DownPackets /\ p.ev = "disconnect"
  BY DisconnectPacket
<1> HIDE DEF p
<1>3. k # sock => down' = down
  BY <1>1 DEF ToClient
<1>4. k = sock => \E i \in 0 .. Len(down) : down' = Append(SubSeq(down, 1, i), p)
  <2>1. down \in Seq(DownPackets)
    BY DEF Inv, TypeInv, ServerTypes
  <2>2. /\ Len(down) \in 0 .. Len(down) /\ SubSeq(down, 1, Len(down)) = down
        /\ down \o <<p>> = Append(down, p)
    BY <1>2, <2>1
  <2> QED
    BY <1>1, <2>2 DEF ToClient
<1> QED
  BY <1>1, <1>2, <1>3, <1>4, ClosingStep

\* The network breaks a connection.
LEMMA NetworkBreaksStep ==
    ASSUME Inv, NEW i \in 0 .. Len(down), NetworkBreaks(i) PROVE Inv'
<1>1. PICK k \in Sockets : k = sock
  <2>1. sock # 0
    BY DEF NetworkBreaks
  <2> QED
    BY <2>1, SockType DEF Inv
<1> DEFINE p == Packet("disconnect", "", k)
<1>2. /\ srv[k] # "new" /\ closing' = closing \ {k}
      /\ srv' = [srv EXCEPT ![k] = "closed"] /\ up' = [up EXCEPT ![k] = <<>>]
      /\ down' = Append(SubSeq(down, 1, i), p) /\ UNCHANGED <<clientVars, log, revoked>>
  BY <1>1 DEF NetworkBreaks, Open
<1>3. p \in DownPackets /\ p.ev = "disconnect"
  BY DisconnectPacket
<1> HIDE DEF p
<1> QED
  BY <1>1, <1>2, <1>3, ClosingStep

-----------------------------------------------------------------------------
(* The client's steps *)

\* The situations that only a greeted connection can be in.
Engaged ==
    \/ state = "blocked" \/ auth.awaits = "verdict"
    \/ auth.got.ev = "auth.challenge" \/ queues["auth.challenge"] # <<>>

\* A client's step that leaves the connection alone and takes no packet.
LEMMA QuietStep ==
    ASSUME Inv, TypeInv', LogInv',
           UNCHANGED <<sock, online, srv, closing, down, log>>,
           \A x \in DownPackets : Kept(x)' => Kept(x),
           cursor <= cursor',
           \A k \in Sockets : \A p \in ToSet(up'[k]) :
              \/ p \in ToSet(up[k])
              \/ /\ p.ev = "sync.request" => p.n <= cursor'
                 /\ p.ev = "message.send" => p.id \in Own,
           session' # 0 => session' = sock /\ Admitted,
           Engaged' => Greeted
    PROVE  Inv'
<1>1. Admitted' = Admitted /\ NoConnect' = NoConnect /\ Greeted' = Greeted
  BY DEF Admitted, NoConnect, Greeted
<1>2. /\ log \in Seq(Msgs) /\ cursor \in Nat /\ cursor' \in Nat
      /\ up \in [Sockets -> Seq(UpPackets)]
  BY DEF Inv, TypeInv, ClientTypes, ServerTypes
<1>3. PacketInv'
  <2>1. ASSUME NEW x \in DownPackets, Held(x)' PROVE Truth(x)'
    <3>1. Held(x)
      BY <2>1 DEF Held, Kept
    <3>2. Truth(x)
      BY <3>1 DEF Inv, PacketInv
    <3> QED
      BY <1>1, <1>2, <3>2, TruthStays
  <2>2. ASSUME NEW k \in Sockets, NEW x \in ToSet(up'[k])
        PROVE  /\ x.ev = "sync.request" => x.n <= cursor'
               /\ x.ev = "message.send" => x.id \in Own
    <3>1. CASE x \in ToSet(up[k])
      <4>1. x \in UpPackets
        BY <1>2, <3>1 DEF ToSet
      <4>2. x.n \in Nat
        BY <4>1 DEF UpPackets
      <4>3. /\ x.ev = "sync.request" => x.n <= cursor
            /\ x.ev = "message.send" => x.id \in Own
        BY <3>1 DEF Inv, PacketInv
      <4> QED
        BY <1>2, <4>2, <4>3
    <3> QED
      BY <3>1
  <2> QED
    BY <2>1, <2>2 DEF PacketInv
<1>4. ConnInv'
  <2>1. (session # 0 => session = sock /\ Admitted)'
    BY <1>1
  <2>2. (\A k \in Sockets : srv[k] = "out" => k \in closing)'
    BY DEF Inv, ConnInv
  <2>3. (sock # 0 /\ srv[sock] = "closed" =>
            (\E p \in ToSet(down) : p.ev = "disconnect") \/ (~online /\ NoConnect))'
    BY <1>1 DEF Inv, ConnInv
  <2>4. (down # <<>> => /\ sock # 0 /\ srv[sock] # "new"
                        /\ \A i \in DOMAIN down : i # 1 => down[i].ev # "connect")'
    BY DEF Inv, ConnInv
  <2>5. (Engaged => Greeted)'
    BY <1>1
  <2> QED
    BY <2>1, <2>2, <2>3, <2>4, <2>5 DEF ConnInv, Engaged
<1> QED
  BY <1>3, <1>4 DEF Inv

\* A packet is taken: the connection has been greeted by then.
LEMMA ReceiveStep ==
    ASSUME Inv, TypeInv', LogInv', NEW ev, Arrives(ev),
           UNCHANGED <<sock, srv, closing, up, log>>,
           \A x \in DownPackets : Held(x)' => Held(x),
           cursor <= cursor',
           session' # 0 => session' = session,
           ev = "disconnect" => ~online',
           ev \notin {"connect", "disconnect"} => online' = online
    PROVE  Inv'
<1>1. Admitted' = Admitted
  BY DEF Admitted
<1>2. /\ log \in Seq(Msgs) /\ cursor \in Nat /\ cursor' \in Nat
      /\ up \in [Sockets -> Seq(UpPackets)] /\ down \in Seq(DownPackets) /\ TypeInv
  BY DEF Inv, TypeInv, ClientTypes, ServerTypes
<1>3. /\ down # <<>> /\ down' = Tail(down)
      /\ Head(down).ev = ev /\ Head(down) \in ToSet(down)
      /\ \A x \in ToSet(down) : x = Head(down) \/ x \in ToSet(down')
  BY <1>2, ArrivesMeans
<1>4. /\ sock # 0 /\ srv[sock] # "new"
      /\ \A i \in DOMAIN down : i # 1 => down[i].ev # "connect"
  BY <1>3 DEF Inv, ConnInv
<1>5. \A i \in DOMAIN down' : down'[i].ev # "connect"
  <2>1. ASSUME NEW i \in DOMAIN down'
        PROVE  i + 1 \in DOMAIN down /\ down'[i] = down[i + 1] /\ i + 1 # 1
    BY <1>2, <1>3
  <2> QED
    BY <1>4, <2>1
<1>6. NoConnect' /\ Greeted'
  BY <1>4, <1>5 DEF NoConnect, Greeted, ToSet
<1>7. PacketInv'
  <2>1. ASSUME NEW x \in DownPackets, Held(x)' PROVE Truth(x)'
    <3>1. Truth(x)
      BY <2>1 DEF Inv, PacketInv
    <3> QED
      BY <1>1, <1>2, <3>1, TruthStays
  <2>2. ASSUME NEW k \in Sockets, NEW x \in ToSet(up'[k])
        PROVE  /\ x.ev = "sync.request" => x.n <= cursor'
               /\ x.ev = "message.send" => x.id \in Own
    <3>1. x \in ToSet(up[k])
      BY <2>2
    <3>2. x \in UpPackets
      BY <1>2, <3>1 DEF ToSet
    <3>3. x.n \in Nat
      BY <3>2 DEF UpPackets
    <3>4. /\ x.ev = "sync.request" => x.n <= cursor
          /\ x.ev = "message.send" => x.id \in Own
      BY <3>1 DEF Inv, PacketInv
    <3> QED
      BY <1>2, <3>3, <3>4
  <2> QED
    BY <2>1, <2>2 DEF PacketInv
<1>8. ConnInv'
  <2>1. (session # 0 => session = sock /\ Admitted)'
    BY <1>1 DEF Inv, ConnInv
  <2>2. (\A k \in Sockets : srv[k] = "out" => k \in closing)'
    BY DEF Inv, ConnInv
  <2>3. ASSUME srv[sock] = "closed"
        PROVE  (\E p \in ToSet(down') : p.ev = "disconnect") \/ (~online' /\ NoConnect')
    <3>1. \/ \E p \in ToSet(down) : p.ev = "disconnect"
          \/ ~online /\ NoConnect
      BY <1>4, <2>3 DEF Inv, ConnInv
    <3>2. CASE ev = "disconnect"
      BY <1>6, <3>2
    <3>3. CASE ev # "disconnect" /\ \E p \in ToSet(down) : p.ev = "disconnect"
      BY <1>3, <3>3
    <3>4. CASE ev # "disconnect" /\ ~online /\ NoConnect
      <4>1. ev # "connect"
        BY <1>3, <3>4 DEF NoConnect
      <4> QED
        BY <1>6, <3>4, <4>1
    <3> QED
      BY <3>1, <3>2, <3>3, <3>4
  <2>4. \A i \in DOMAIN down' : i # 1 => down'[i].ev # "connect"
    BY <1>5
  <2> QED
    BY <1>4, <1>6, <2>1, <2>2, <2>3, <2>4 DEF ConnInv
<1> QED
  BY <1>7, <1>8 DEF Inv

\* connect() and dropConnection() start from nothing.
LEMMA ConnectStep ==
    ASSUME Inv, Connect \/ DropConnection PROVE Inv'
<1>1. TypeInv' /\ TypeInv
  BY ConnectTypes DEF Inv
<1>2. Dropped
  BY DEF Connect, DropConnection
<1>3. /\ session' = 0 /\ online' = FALSE /\ down' = <<>>
      /\ queues' = NoQueues /\ auth' = NoAuth /\ sync' = NoSync
      /\ \A p \in DownPackets : ~Kept(p)'
  BY <1>1, <1>2, DroppedTypes
<1>4. UNCHANGED <<outbox, applied, cursor, jumped, srv, closing, up, log, revoked>>
  BY DEF Connect, DropConnection
<1>5. LogInv'
  BY <1>4 DEF Inv, LogInv, NothingMissed, Inbox
<1>6. ToSet(down') = {}
  BY <1>3 DEF ToSet
<1>7. PacketInv'
  <2>1. \A x \in DownPackets : ~Held(x)'
    BY <1>3, <1>6 DEF Held, Kept
  <2>2. \A k \in Sockets : \A x \in ToSet(up'[k]) :
          /\ x.ev = "sync.request" => x.n <= cursor'
          /\ x.ev = "message.send" => x.id \in Own
    BY <1>4 DEF Inv, PacketInv
  <2> QED
    BY <2>1, <2>2 DEF PacketInv
<1>8. ConnInv'
  <2>1. NoConnect'
    BY <1>6 DEF NoConnect
  <2>2. \A k \in Sockets : srv'[k] = "out" => k \in closing'
    BY <1>4 DEF Inv, ConnInv
  <2>3. auth'.awaits = "none" /\ auth'.got.ev = "none" /\ queues'["auth.challenge"] = <<>>
    BY <1>3, NothingKept DEF Awaited
  <2>4. state' = "blocked" => sock' = 0
    BY DEF Connect, DropConnection
  <2>5. state' = "blocked" => Greeted'
    BY <2>1, <2>4 DEF Greeted
  <2> QED
    BY <1>3, <2>1, <2>2, <2>3, <2>5 DEF ConnInv
<1> QED
  BY <1>1, <1>5, <1>7, <1>8 DEF Inv

\* A step that touches neither log, inbox, cursor nor outbox.
LEMMA LogInvStays ==
    ASSUME LogInv, UNCHANGED <<log, applied, cursor, jumped, outbox>> PROVE LogInv'
BY DEF LogInv, NothingMissed, Inbox

\* authenticate() up to the challenge.
LEMMA AuthenticateStep ==
    ASSUME Inv, Authenticate \/ AwaitChallenge PROVE Inv'
<1>1. /\ TypeInv' /\ \A x \in DownPackets : Kept(x)' => Kept(x)
      /\ auth'.awaits \in {"connect", "auth.challenge"}
      /\ auth'.got.ev = "auth.challenge" => queues["auth.challenge"] # <<>>
      /\ queues'["auth.challenge"] # <<>> => queues["auth.challenge"] # <<>>
  BY AuthenticateTypes DEF Inv
<1>2. UNCHANGED <<state, session, sock, opened, online, sync, outbox, applied,
                  cursor, jumped, srv, closing, up, down, log, revoked>>
  BY DEF Authenticate, AwaitChallenge, serverVars
<1>3. Engaged' => Greeted
  BY <1>1, <1>2 DEF Engaged, Inv, ConnInv
<1>4. LogInv' /\ cursor <= cursor'
  BY <1>2, LogInvStays DEF Inv, TypeInv, ClientTypes
<1>5. session' # 0 => session' = sock /\ Admitted
  BY <1>2 DEF Inv, ConnInv
<1>6. \A k \in Sockets : up'[k] = up[k]
  BY <1>2
<1> QED
  BY <1>1, <1>2, <1>3, <1>4, <1>5, <1>6, QuietStep

\* Only a greeted connection has a challenge to answer.
LEMMA SendAuthResponseStep ==
    ASSUME Inv, SendAuthResponse PROVE Inv'
<1>1. /\ TypeInv' /\ \A x \in DownPackets : Kept(x)' => Kept(x)
      /\ auth.got.ev = "auth.challenge"
      /\ \A k \in Sockets : \A p \in ToSet(up'[k]) :
            p \in ToSet(up[k]) \/ p.ev = "auth.response"
  BY SendAuthResponseMeans DEF Inv
<1>2. UNCHANGED <<session, sock, opened, online, sync, outbox, applied, cursor,
                  jumped, srv, closing, down, log, revoked>>
  BY DEF SendAuthResponse
<1>3. Greeted
  BY <1>1 DEF Inv, ConnInv
<1>4. LogInv' /\ cursor <= cursor'
  BY <1>2, LogInvStays DEF Inv, TypeInv, ClientTypes
<1>5. session' # 0 => session' = sock /\ Admitted
  BY <1>2 DEF Inv, ConnInv
<1>6. \A k \in Sockets : \A p \in ToSet(up'[k]) :
         \/ p \in ToSet(up[k])
         \/ /\ p.ev = "sync.request" => p.n <= cursor'
            /\ p.ev = "message.send" => p.id \in Own
  BY <1>1
<1> QED
  BY <1>1, <1>2, <1>3, <1>4, <1>5, <1>6, QuietStep

\* The adopted session is the one of the current socket.
LEMMA AuthSucceedsStep ==
    ASSUME Inv, NEW resend \in BOOLEAN, AuthSucceeds(resend) PROVE Inv'
<1>1. /\ auth.got \in DownPackets /\ auth.got.ev = "auth.success" /\ auth.awaits = "verdict"
  BY NothingKept DEF Inv, TypeInv, ClientTypes, AuthSucceeds, AuthCalls, SyncCalls
<1>2. PICK p \in DownPackets : p = auth.got
  BY <1>1
<1>3. p.n = sock /\ Admitted
  BY <1>1, <1>2 DEF Inv, PacketInv, Held, Truth
<1>4. sock # 0
  BY <1>3 DEF Admitted
<1>5. /\ TypeInv' /\ \A x \in DownPackets : Kept(x)' => Kept(x)
      /\ \A k \in Sockets : \A x \in ToSet(up'[k]) :
            x \in ToSet(up[k]) \/ (x.ev = "message.send" /\ x.id \in Own)
  BY <1>4, AuthSucceedsMeans DEF Inv
<1>6. /\ session' = p.n /\ state' = "authenticated" /\ auth' = NoAuth
      /\ UNCHANGED <<sock, opened, online, queues, sync, outbox, applied, cursor,
                     jumped, srv, closing, down, log, revoked>>
  BY <1>2 DEF AuthSucceeds
<1>7. Greeted
  BY <1>1 DEF Inv, ConnInv
<1>8. LogInv' /\ cursor <= cursor'
  BY <1>6, LogInvStays DEF Inv, TypeInv, ClientTypes
<1>9. session' # 0 => session' = sock /\ Admitted
  BY <1>3, <1>6
<1>10. \A k \in Sockets : \A x \in ToSet(up'[k]) :
         \/ x \in ToSet(up[k])
         \/ /\ x.ev = "sync.request" => x.n <= cursor'
            /\ x.ev = "message.send" => x.id \in Own
  BY <1>5
<1> QED
  BY <1>5, <1>6, <1>7, <1>8, <1>9, <1>10, QuietStep

\* Refused, disconnected or timed out.
LEMMA AuthEndsStep ==
    ASSUME Inv, AuthThrows \/ AuthTimeout PROVE Inv'
<1>1. TypeInv' /\ \A x \in DownPackets : Kept(x)' => Kept(x)
  BY AuthEndsMeans DEF Inv
<1>2. /\ state' = state \/ auth.awaits = "verdict"
      /\ UNCHANGED <<session, sock, opened, online, queues, sync, outbox, applied,
                     cursor, jumped, srv, closing, up, down, log, revoked>>
  BY DEF AuthThrows, AuthTimeout, serverVars
<1>3. auth' = NoAuth
  BY DEF AuthThrows, AuthTimeout
<1>4. auth'.awaits = "none" /\ auth'.got.ev = "none"
  BY <1>3, NothingKept
<1>5. Engaged' => Greeted
  BY <1>2, <1>4 DEF Engaged, Inv, ConnInv
<1>6. LogInv' /\ cursor <= cursor'
  BY <1>2, LogInvStays DEF Inv, TypeInv, ClientTypes
<1>7. session' # 0 => session' = sock /\ Admitted
  BY <1>2 DEF Inv, ConnInv
<1>8. \A k \in Sockets : up'[k] = up[k]
  BY <1>2
<1> QED
  BY <1>1, <1>2, <1>5, <1>6, <1>7, <1>8, QuietStep

\* Sending reopens an entry, it acks none.
LEMMA SendEnvelopeStep ==
    ASSUME Inv, NEW m \in Own, NEW force \in BOOLEAN, SendEnvelope(m, force) PROVE Inv'
<1>1. /\ TypeInv' /\ outbox' = [outbox EXCEPT ![m] = "pending"]
      /\ \A k \in Sockets : \A p \in ToSet(up'[k]) :
            p \in ToSet(up[k]) \/ (p.ev = "message.send" /\ p.id \in Own)
  BY SendEnvelopeMeans DEF Inv
<1>2. UNCHANGED <<state, session, sock, opened, online, queues, auth, sync,
                  applied, cursor, jumped, srv, closing, down, log, revoked>>
  BY DEF SendEnvelope
<1>3. \A x \in DownPackets : Kept(x)' => Kept(x)
  BY <1>2 DEF Kept
<1>4. Engaged' => Greeted
  BY <1>2 DEF Engaged, Inv, ConnInv
<1>5. \A x \in Own : outbox'[x] = "acked" => outbox[x] = "acked"
  BY <1>1 DEF Inv, TypeInv, ClientTypes
<1>6. LogInv' /\ cursor <= cursor'
  BY <1>2, <1>5 DEF Inv, LogInv, NothingMissed, Inbox, TypeInv, ClientTypes
<1>7. session' # 0 => session' = sock /\ Admitted
  BY <1>2 DEF Inv, ConnInv
<1>8. \A k \in Sockets : \A x \in ToSet(up'[k]) :
         \/ x \in ToSet(up[k])
         \/ /\ x.ev = "sync.request" => x.n <= cursor'
            /\ x.ev = "message.send" => x.id \in Own
  BY <1>1
<1> QED
  BY <1>1, <1>2, <1>3, <1>4, <1>6, <1>7, <1>8, QuietStep

\* A request carries the cursor of the moment, which only grows.
LEMMA SyncRequestStep ==
    ASSUME Inv, SyncRequest PROVE Inv'
<1>1. /\ TypeInv' /\ \A x \in DownPackets : Kept(x)' => Kept(x)
      /\ queues["auth.challenge"] = <<>> => queues'["auth.challenge"] = <<>>
      /\ \A k \in Sockets : \A p \in ToSet(up'[k]) :
            p \in ToSet(up[k]) \/ (p.ev = "sync.request" /\ p.n = cursor)
  BY SyncRequestMeans DEF Inv
<1>2. UNCHANGED <<state, session, sock, opened, online, auth, outbox, applied,
                  cursor, jumped, srv, closing, down, log, revoked>>
  BY DEF SyncRequest
<1>3. Engaged' => Greeted
  BY <1>1, <1>2 DEF Engaged, Inv, ConnInv
<1>4. LogInv' /\ cursor <= cursor'
  BY <1>2, LogInvStays DEF Inv, TypeInv, ClientTypes
<1>5. session' # 0 => session' = sock /\ Admitted
  BY <1>2 DEF Inv, ConnInv
<1>6. \A k \in Sockets : \A x \in ToSet(up'[k]) :
         \/ x \in ToSet(up[k])
         \/ /\ x.ev = "sync.request" => x.n <= cursor'
            /\ x.ev = "message.send" => x.id \in Own
  BY <1>1, <1>4, <1>2
<1> QED
  BY <1>1, <1>2, <1>3, <1>4, <1>5, <1>6, QuietStep

\* A page fills the gap between the cursor and its own.
LEMMA SyncEndsStep ==
    ASSUME Inv, ApplySync \/ SyncTimeout PROVE Inv'
<1>1. /\ TypeInv' /\ \A x \in DownPackets : Kept(x)' => Kept(x)
      /\ \/ applied' = applied /\ cursor' = cursor
         \/ \E p \in DownPackets :
               /\ p = sync.got /\ p.ev = "sync.response"
               /\ cursor' = Advanced(p.n)
               /\ IsInjective(applied') /\ Inbox' = Inbox \union ToSet(p.page)
  BY SyncEndsMeans DEF Inv, LogInv
<1>2. UNCHANGED <<state, session, sock, opened, online, queues, auth, outbox,
                  jumped, srv, closing, up, down, log, revoked>>
  BY DEF ApplySync, SyncTimeout, serverVars
<1>3. Engaged' => Greeted
  BY <1>2 DEF Engaged, Inv, ConnInv
<1>4. cursor \in Nat /\ log \in Seq(Msgs) /\ Len(log) \in Nat
  BY DEF Inv, TypeInv, ClientTypes, ServerTypes
<1>5. LogInv' /\ cursor <= cursor'
  <2>1. CASE applied' = applied /\ cursor' = cursor
    BY <1>2, <1>4, <2>1, LogInvStays DEF Inv
  <2>2. ASSUME NEW p \in DownPackets, p = sync.got, p.ev = "sync.response",
               cursor' = Advanced(p.n),
               IsInjective(applied'), Inbox' = Inbox \union ToSet(p.page)
        PROVE  LogInv' /\ cursor <= cursor'
    <3>1. /\ p.n \in 0 .. Len(log)
          /\ \A i \in 1 .. p.n : i <= cursor \/ log[i] \in ToSet(p.page)
      BY <2>2 DEF Inv, PacketInv, Held, Truth
    <3>2. /\ cursor' \in Nat /\ cursor <= cursor' /\ cursor' \in {p.n, cursor}
      BY <1>4, <2>2, <3>1, AdvancedMeans
    <3>3. cursor' <= Len(log')
      BY <1>2, <1>4, <3>1, <3>2 DEF Inv, LogInv
    <3>4. NothingMissed'
      <4>1. SUFFICES ASSUME ~jumped', NEW i \in 1 .. cursor'
                     PROVE  log'[i] \in Own \union Inbox'
        BY DEF NothingMissed
      <4>2. CASE i <= cursor
        <5>1. i \in 1 .. cursor /\ ~jumped
          BY <1>2, <1>4, <3>2, <4>1, <4>2
        <5>2. log[i] \in Own \union Inbox
          BY <5>1 DEF Inv, LogInv, NothingMissed
        <5> QED
          BY <1>2, <2>2, <5>2
      <4>3. CASE ~(i <= cursor)
        <5>1. i \in 1 .. p.n
          BY <1>4, <3>1, <3>2, <4>3
        <5> QED
          BY <1>2, <2>2, <3>1, <4>3, <5>1
      <4> QED
        BY <4>2, <4>3
    <3> QED
      BY <1>2, <2>2, <3>2, <3>3, <3>4 DEF Inv, LogInv
  <2> QED
    BY <1>1, <2>1, <2>2
<1>6. session' # 0 => session' = sock /\ Admitted
  BY <1>2 DEF Inv, ConnInv
<1>7. \A k \in Sockets : up'[k] = up[k]
  BY <1>2
<1> QED
  BY <1>1, <1>2, <1>3, <1>5, <1>6, <1>7, QuietStep

\* connect, disconnect and the awaited events.
LEMMA OnEnqueuedStep ==
    ASSUME Inv, OnConnect \/ OnDisconnect \/ OnAwaited PROVE Inv'
<1>1. /\ TypeInv' /\ \A x \in DownPackets : Held(x)' => Held(x)
      /\ UNCHANGED <<sock, opened, outbox, applied, cursor, jumped, srv, closing,
                     up, log, revoked>>
  BY OnEnqueuedMeans DEF Inv
<1>2. LogInv' /\ cursor <= cursor'
  BY <1>1, LogInvStays DEF Inv, TypeInv, ClientTypes
<1>3. PICK ev :
         /\ Arrives(ev)
         /\ session' # 0 => session' = session
         /\ ev = "disconnect" => ~online'
         /\ ev \notin {"connect", "disconnect"} => online' = online
  <2>1. CASE OnConnect
    <3>1. /\ Arrives("connect") /\ session' = session
      BY <2>1 DEF OnConnect
    <3> QED
      BY <3>1
  <2>2. CASE OnDisconnect
    <3>1. /\ Arrives("disconnect") /\ session' = 0 /\ online' = FALSE
      BY <2>2 DEF OnDisconnect
    <3> QED
      BY <3>1
  <2>3. CASE OnAwaited
    <3>1. PICK e \in {"auth.challenge", "auth.success", "auth.failure",
                      "sync.response"} : Arrives(e)
      BY <2>3 DEF OnAwaited
    <3>2. session' = session /\ online' = online
      BY <2>3 DEF OnAwaited
    <3> QED
      BY <3>1, <3>2
  <2> QED
    BY <2>1, <2>2, <2>3
<1> QED
  BY <1>1, <1>2, <1>3, ReceiveStep

\* Revoked while connected.
LEMMA OnDeviceRevokedStep ==
    ASSUME Inv, OnDeviceRevoked PROVE Inv'
<1>1. TypeInv' /\ \A x \in DownPackets : Held(x)' => Held(x)
  BY OnDeviceRevokedMeans DEF Inv
<1>2. /\ session' = 0 /\ Arrives("device.revoked")
      /\ UNCHANGED <<sock, opened, online, queues, auth, sync, outbox, applied,
                     cursor, jumped, srv, closing, up, log, revoked>>
  BY DEF OnDeviceRevoked
<1>3. LogInv' /\ cursor <= cursor'
  BY <1>2, LogInvStays DEF Inv, TypeInv, ClientTypes
<1> QED
  BY <1>1, <1>2, <1>3, ReceiveStep

\* An ack arrives.
LEMMA OnAckStep ==
    ASSUME Inv, OnAck PROVE Inv'
<1>1. /\ TypeInv' /\ \A x \in DownPackets : Held(x)' => Held(x)
      /\ \E m \in Own : m \in ToSet(log) /\ outbox' = [outbox EXCEPT ![m] = "acked"]
  BY OnAckMeans DEF Inv
<1>2. /\ Arrives("message.ack")
      /\ UNCHANGED <<state, session, sock, opened, online, queues, auth, sync,
                     applied, cursor, jumped, srv, closing, up, log, revoked>>
  BY DEF OnAck
<1>3. \A x \in Own : outbox'[x] = "acked" => outbox[x] = "acked" \/ x \in ToSet(log)
  BY <1>1 DEF Inv, TypeInv, ClientTypes
<1>4. LogInv' /\ cursor <= cursor'
  BY <1>2, <1>3 DEF Inv, LogInv, NothingMissed, Inbox, TypeInv, ClientTypes
<1> QED
  BY <1>1, <1>2, <1>4, ReceiveStep

\* A live message is taken up to its place, or the cursor jumps.
LEMMA OnMessageNewStep ==
    ASSUME Inv, OnMessageNew PROVE Inv'
<1>1. /\ TypeInv' /\ \A x \in DownPackets : Held(x)' => Held(x)
      /\ \E n \in 1 .. Len(log) :
            /\ IsInjective(applied') /\ Inbox' = Inbox \union {log[n]}
            /\ cursor' = Advanced(n)
            /\ jumped' = (jumped \/ \E i \in cursor + 1 .. n - 1 :
                                       log[i] \notin Own \union Inbox)
  BY OnMessageNewMeans DEF Inv, LogInv
<1>2. /\ Arrives("message.new")
      /\ UNCHANGED <<state, session, sock, opened, online, queues, auth, sync,
                     outbox, srv, closing, up, log, revoked>>
  BY DEF OnMessageNew
<1>3. PICK n \in 1 .. Len(log) :
         /\ IsInjective(applied') /\ Inbox' = Inbox \union {log[n]}
         /\ cursor' = Advanced(n)
         /\ jumped' = (jumped \/ \E i \in cursor + 1 .. n - 1 :
                                    log[i] \notin Own \union Inbox)
  BY <1>1
<1>4. cursor \in Nat /\ log \in Seq(Msgs) /\ Len(log) \in Nat /\ n \in Nat
  BY DEF Inv, TypeInv, ClientTypes, ServerTypes
<1>5. cursor' \in Nat /\ cursor <= cursor' /\ cursor' \in {n, cursor}
  BY <1>3, <1>4, AdvancedMeans
<1>6. cursor' <= Len(log')
  BY <1>2, <1>4, <1>5 DEF Inv, LogInv
<1>7. NothingMissed'
  <2>1. SUFFICES ASSUME ~jumped', NEW i \in 1 .. cursor'
                 PROVE  log'[i] \in Own \union Inbox'
    BY DEF NothingMissed
  <2>2. ~jumped /\ \A j \in cursor + 1 .. n - 1 : log[j] \in Own \union Inbox
    BY <1>3, <2>1
  <2>3. log'[i] = log[i]
    BY <1>2
  <2>4. CASE i <= cursor
    <3>1. i \in 1 .. cursor
      BY <1>4, <1>5, <2>4
    <3>2. log[i] \in Own \union Inbox
      BY <2>2, <3>1 DEF Inv, LogInv, NothingMissed
    <3> QED
      BY <1>3, <2>3, <3>2
  <2>5. CASE ~(i <= cursor)
    <3>1. i = n \/ i \in cursor + 1 .. n - 1
      BY <1>4, <1>5, <2>5
    <3> QED
      BY <1>3, <2>2, <2>3, <3>1
  <2> QED
    BY <2>4, <2>5
<1>8. LogInv'
  BY <1>2, <1>3, <1>6, <1>7 DEF Inv, LogInv
<1> QED
  BY <1>1, <1>2, <1>5, <1>8, ReceiveStep

-----------------------------------------------------------------------------
(* Theorems *)

\* Nothing has been sent, received or logged at the start.
LEMMA InitInv == Init => Inv
<1> SUFFICES ASSUME Init PROVE Inv
  OBVIOUS
<1>1. /\ state = "disconnected" /\ session = 0 /\ sock = 0 /\ opened = 0
      /\ online = FALSE /\ queues = NoQueues /\ auth = NoAuth /\ sync = NoSync
      /\ outbox = [m \in Own |-> "none"] /\ applied = <<>> /\ cursor = 0
      /\ jumped = FALSE /\ srv = [k \in Sockets |-> "new"] /\ closing = {}
      /\ up = [k \in Sockets |-> <<>>] /\ down = <<>> /\ log = <<>> /\ revoked = FALSE
  BY DEF Init
<1>2. /\ NoQueues \in [Awaited -> Seq(DownPackets)]
      /\ \A e \in Awaited : NoQueues[e] = <<>> /\ ToSet(NoQueues[e]) = {}
      /\ NoAuth = [awaits |-> "none", got |-> Nothing]
      /\ NoSync = [awaits |-> "none", got |-> Nothing]
      /\ Nothing.ev = "none" /\ \A p \in DownPackets : p # Nothing
  BY NothingKept
<1>3. ToSet(<<>>) = {} /\ Len(<<>>) = 0 /\ IsInjective(<<>>)
  BY DEF ToSet, IsInjective
<1>4. Pending = {}
  BY <1>1 DEF Pending
<1>5. ClientTypes
  <2>1. IsFiniteSet(Pending)
    BY <1>4, FS_EmptySet
  <2>2. /\ session \in Nat /\ opened \in 0 .. MaxConnects /\ sock \in 0 .. opened
        /\ applied \in Seq(Msgs) /\ cursor \in Nat
    BY <1>1, ConnectsAssumption
  <2>3. /\ auth \in AuthCalls /\ sync \in SyncCalls
        /\ queues \in [Awaited -> Seq(DownPackets)]
    BY <1>1, <1>2 DEF AuthCalls, SyncCalls
  <2>4. /\ outbox \in [Own -> {"none", "pending", "acked"}]
        /\ state \in States /\ online \in BOOLEAN /\ jumped \in BOOLEAN
    BY <1>1 DEF States
  <2> QED
    BY <2>1, <2>2, <2>3, <2>4 DEF ClientTypes
<1>6. ServerTypes
  <2>1. srv \in [Sockets -> {"new", "challenged", "authed", "out", "closed"}]
    BY <1>1
  <2>2. up \in [Sockets -> Seq(UpPackets)]
    BY <1>1
  <2>3. closing \subseteq Sockets /\ revoked \in BOOLEAN
    BY <1>1
  <2>4. down \in Seq(DownPackets) /\ log \in Seq(Msgs)
    BY <1>1
  <2> QED
    BY <2>1, <2>2, <2>3, <2>4 DEF ServerTypes
<1>7. Sorted
  BY <1>1, <1>2 DEF Sorted
<1>8. PacketInv
  <2>1. \A p \in DownPackets : ~Held(p)
    BY <1>1, <1>2, <1>3 DEF Held
  <2>2. \A k \in Sockets : ToSet(up[k]) = {}
    BY <1>1, <1>3
  <2> QED
    BY <2>1, <2>2 DEF PacketInv
<1>9. LogInv
  BY <1>1, <1>3 DEF LogInv, NothingMissed
<1>10. ConnInv
  <2>1. NoConnect
    BY <1>1, <1>3 DEF NoConnect
  <2>2. queues["auth.challenge"] = <<>>
    BY <1>1, <1>2 DEF Awaited
  <2> QED
    BY <1>1, <1>2, <2>1, <2>2 DEF ConnInv
<1> QED
  BY <1>5, <1>6, <1>7, <1>8, <1>9, <1>10 DEF Inv, TypeInv

\* Stuttering.
LEMMA StutterInv == ASSUME Inv, UNCHANGED vars PROVE Inv'
<1>1. /\ UNCHANGED <<state, session, sock, opened, online, queues, auth, sync,
                     outbox, applied, cursor, jumped>>
      /\ UNCHANGED <<srv, closing, up, down, log, revoked>>
  BY DEF vars, clientVars, serverVars
<1>2. TypeInv'
  <2>1. Pending' = Pending
    BY <1>1 DEF Pending
  <2>2. ClientTypes'
    BY <1>1, <2>1 DEF Inv, TypeInv, ClientTypes
  <2>3. ServerTypes' /\ Sorted'
    BY <1>1 DEF Inv, TypeInv, ServerTypes, Sorted
  <2> QED
    BY <2>2, <2>3 DEF TypeInv
<1>3. LogInv' /\ cursor <= cursor'
  BY <1>1, LogInvStays DEF Inv, TypeInv, ClientTypes
<1>4. /\ Engaged' => Greeted
      /\ session' # 0 => session' = sock /\ Admitted
  BY <1>1 DEF Engaged, Inv, ConnInv
<1>5. \A x \in DownPackets : Kept(x)' => Kept(x)
  BY <1>1 DEF Kept
<1>6. \A k \in Sockets : up'[k] = up[k]
  BY <1>1
<1> QED
  BY <1>1, <1>2, <1>3, <1>4, <1>5, <1>6, QuietStep

\* Every step of the client, the server and the network.
LEMMA NextInv == ASSUME Inv, [Next]_vars PROVE Inv'
<1>1. CASE Calls
  BY <1>1, ConnectStep, AuthenticateStep, SendEnvelopeStep, SyncRequestStep DEF Calls
<1>2. CASE Continues
  BY <1>2, AuthenticateStep, SendAuthResponseStep, AuthEndsStep, AuthSucceedsStep,
     SyncEndsStep DEF Continues
<1>3. CASE Receives
  BY <1>3, OnEnqueuedStep, OnAckStep, OnMessageNewStep, OnDeviceRevokedStep DEF Receives
<1>4. CASE ServerNext
  BY <1>4, ServerAcceptsStep, ServerAuthenticatesStep, ServerRefusesStep, ServerLogsStep,
     ServerSyncsStep, ServerClosesStep, PeerSendsStep, RevokeStep, NetworkBreaksStep
     DEF ServerNext
<1>5. CASE UNCHANGED vars
  BY <1>5, StutterInv
<1> QED
  BY <1>1, <1>2, <1>3, <1>4, <1>5 DEF Next

\* The inductive invariant: types, packets that tell the truth, a log
\* without repetition, and a session only where the server admitted one.
THEOREM Invariance == Spec => []Inv
<1>1. Init => Inv
  BY InitInv
<1>2. Inv /\ [Next]_vars => Inv'
  BY NextInv
<1> QED
  BY <1>1, <1>2, PTL DEF Spec

\* TypeOK: every variable of the client and of the server stays within its
\* type; in particular the cursor never runs ahead of the log.
THEOREM NovaTypes == Spec => []TypeOK
<1>1. ASSUME Inv PROVE TypeOK
  <2>1. /\ queues \in [Awaited -> Seq(DownPackets)]
        /\ applied \in Seq(Msgs) /\ log \in Seq(Msgs) /\ Len(log) \in Nat
    BY <1>1 DEF Inv, TypeInv, ClientTypes, ServerTypes
  <2>2. \A e \in Awaited : \A i \in DOMAIN queues[e] : queues[e][i].ev = e
    BY <1>1 DEF Inv, TypeInv, Sorted, ToSet
  <2>3. Inbox \subseteq Own \union Peer /\ ToSet(log) \subseteq Own \union Peer
    BY <2>1 DEF Inbox, ToSet, Msgs
  <2>4. session \in 0 .. MaxConnects
    <3>1. sock \in 0 .. opened /\ opened \in 0 .. MaxConnects
      BY <1>1 DEF Inv, TypeInv, ClientTypes
    <3>2. session = 0 \/ session = sock
      BY <1>1 DEF Inv, ConnInv
    <3> QED
      BY <3>1, <3>2, ConnectsAssumption
  <2>5. cursor \in 0 .. Len(log)
    BY <1>1, <2>1 DEF Inv, LogInv, TypeInv, ClientTypes
  <2> QED
    BY <1>1, <2>2, <2>3, <2>4, <2>5 DEF Inv, TypeInv, ClientTypes, ServerTypes, TypeOK
<1> QED
  BY <1>1, Invariance, PTL

\* SessionIsCurrent: sendAuthResponse never adopts the session of a dead
\* connection, and a session that the server took back is about to be closed.
THEOREM SessionIsCurrentTheorem == Spec => []SessionIsCurrent
<1>1. ASSUME Inv PROVE SessionIsCurrent
  <2>1. SUFFICES ASSUME session # 0
                 PROVE  /\ session = sock
                        /\ online => \/ srv[sock] = "authed" \/ sock \in closing
                                     \/ \E i \in DOMAIN down : down[i].ev = "disconnect"
    BY DEF SessionIsCurrent, Authed
  <2>2. session = sock /\ sock # 0 /\ srv[sock] \in {"authed", "out", "closed"}
    BY <1>1, <2>1 DEF Inv, ConnInv, Admitted
  <2>3. sock \in Sockets
    BY <1>1, <2>2, SockType DEF Inv
  <2>4. srv[sock] = "out" => sock \in closing
    BY <1>1, <2>3 DEF Inv, ConnInv
  <2>5. srv[sock] = "closed" /\ online =>
           \E p \in ToSet(down) : p.ev = "disconnect"
    BY <1>1, <2>2 DEF Inv, ConnInv
  <2> QED
    BY <2>2, <2>4, <2>5 DEF ToSet
<1> QED
  BY <1>1, Invariance, PTL

\* AppliedOnce: observe() and applySync() between them apply no message
\* twice, whatever pages are late or overlap.
THEOREM AppliedOnceTheorem == Spec => []AppliedOnce
<1>1. Inv => AppliedOnce
  BY DEF Inv, LogInv, AppliedOnce
<1> QED
  BY <1>1, Invariance, PTL

\* AckedIsLogged: an entry that observe() marks as acked is in the log of
\* the server exactly once.
THEOREM AckedIsLoggedTheorem == Spec => []AckedIsLogged
<1>1. ASSUME Inv PROVE AckedIsLogged
  <2>1. SUFFICES ASSUME NEW m \in Own, outbox[m] = "acked"
                 PROVE  Cardinality({i \in DOMAIN log : log[i] = m}) = 1
    BY DEF AckedIsLogged
  <2>2. m \in ToSet(log) /\ IsInjective(log)
    BY <1>1, <2>1 DEF Inv, LogInv
  <2>3. PICK j \in DOMAIN log : log[j] = m
    BY <2>2 DEF ToSet
  <2>4. {i \in DOMAIN log : log[i] = m} = {j}
    BY <2>2, <2>3 DEF IsInjective
  <2> QED
    BY <2>4, FS_Singleton
<1> QED
  BY <1>1, Invariance, PTL

\* NothingMissed: unless a live message jumped over a missed one, the inbox
\* holds every message of the others up to the sync cursor.
THEOREM NothingMissedTheorem == Spec => []NothingMissed
<1>1. Inv => NothingMissed
  BY DEF Inv, LogInv
<1> QED
  BY <1>1, Invariance, PTL

\* BlockedIsFinal: no listener and no call leaves the blocked state; a
\* connect packet cannot be on its way any more when it is reached.
THEOREM BlockedIsFinalTheorem == Spec => BlockedIsFinal
<1>1. ASSUME Inv, [Next]_vars, state = "blocked", auth.got = Nothing
      PROVE  state' = "blocked"
  <2>1. auth.got.ev = "none"
    BY <1>1, NothingKept
  <2>2. CASE Calls
    BY <1>1, <2>2 DEF Calls, Connect, DropConnection, Authenticate, SendEnvelope, SyncRequest
  <2>3. CASE Continues
    BY <1>1, <2>1, <2>3 DEF Continues, AwaitChallenge, SendAuthResponse, AuthThrows,
       AuthSucceeds, AuthTimeout, ApplySync, SyncTimeout
  <2>4. CASE OnConnect
    <3>1. Greeted
      BY <1>1 DEF Inv, ConnInv
    <3>2. Head(down).ev = "connect" /\ Head(down) \in ToSet(down)
      BY <1>1, <2>4, ArrivesMeans DEF OnConnect, Inv
    <3> QED
      BY <3>1, <3>2 DEF Greeted, NoConnect
  <2>5. CASE Receives /\ ~OnConnect
    BY <1>1, <2>5 DEF Receives, OnDisconnect, AfterDisconnect, OnAwaited, OnAck,
       OnMessageNew, OnDeviceRevoked
  <2>6. CASE ServerNext
    <3>1. UNCHANGED clientVars
      BY <2>6 DEF ServerNext, ServerAccepts, ServerAuthenticates, ServerRefuses, ServerLogs,
         ServerSyncs, ServerCloses, PeerSends, Revoke, NetworkBreaks
    <3> QED
      BY <1>1, <3>1 DEF clientVars
  <2>7. CASE UNCHANGED vars
    BY <1>1, <2>7 DEF vars, clientVars
  <2> QED
    BY <1>1, <2>2, <2>3, <2>4, <2>5, <2>6, <2>7 DEF Next, Receives
<1>2. Inv /\ [Next]_vars =>
         [state = "blocked" /\ auth.got = Nothing => state' = "blocked"]_vars
  BY <1>1
<1> QED
  BY <1>2, Invariance, PTL DEF Spec, BlockedIsFinal
=============================================================================
