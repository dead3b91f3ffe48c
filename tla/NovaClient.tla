----------------------------- MODULE NovaClient -----------------------------
(***************************************************************************)
(* NovaClient, the TypeScript client of the realtime server, against a     *)
(* server that behaves as the server modules show it to: connection state, *)
(* handshake with its event queues and waiters, outbox, live delivery and  *)
(* sync cursor, over connections that break at any point.                  *)
(*                                                                         *)
(* A packet is handled by its listener at once; the async function that    *)
(* waits for it goes on some micro tasks later, so packets of the same TCP *)
(* chunk may be handled first (Receive steps while an outcome is pending). *)
(* The application calls the client from tasks of its own.  One            *)
(* conversation; connection number k is also the challenge and the session *)
(* of that connection.  The server's handlers are atomic here: their       *)
(* interleavings are the subject of MessagePipeline.                       *)
(***************************************************************************)
EXTENDS Naturals, Sequences, FiniteSets, SequencesExt

CONSTANTS
    Own,          \* ids of messages this client may send
    Peer,         \* ids of messages other members may send
    PageLimit,    \* config.syncPageLimit
    MaxConnects,  \* bound: sockets the client opens
    MaxUp,        \* bound: packets waiting for the server per socket
    MaxDown,      \* bound: packets waiting for the client
    MaxLate       \* bound: late sync.responses buffered when sync is called

ASSUME PageAssumption == PageLimit \in Nat \ {0}
ASSUME ConnectsAssumption == MaxConnects \in Nat
ASSUME QueueAssumption ==
    MaxUp \in Nat /\ MaxDown \in Nat /\ MaxLate \in Nat

VARIABLES
    state,     \* NovaClient.state
    session,   \* NovaClient.session: its session id, 0 when null
    sock,      \* NovaClient.socket: the number of the socket, 0 when null
    opened,    \* sockets created so far
    online,    \* socket.connected
    queues,    \* NovaClient.queues, for the awaited events
    auth,      \* the authenticate() call in progress
    sync,      \* the sync() call in progress
    outbox,    \* id -> "none", "pending" or "acked"
    applied,   \* NovaClient.appliedOrder; inbox is its range
    cursor,    \* NovaClient.cursors of the conversation
    jumped,    \* history: a live message moved the cursor over a missed one
    srv,       \* server: socket -> its state
    closing,   \* server: sockets with a pending disconnectSocket timer
    up,        \* server: socket -> packets on their way to it
    down,      \* packets on their way to the client's current socket
    log,       \* server: the event log of the conversation
    revoked    \* server: the device is revoked

clientVars == <<state, session, sock, opened, online, queues, auth, sync,
                outbox, applied, cursor, jumped>>
serverVars == <<srv, closing, up, down, log, revoked>>
vars == <<clientVars, serverVars>>

Sockets == 1 .. MaxConnects
Awaited == {"connect", "auth.challenge", "auth.success", "auth.failure",
            "disconnect", "sync.response"}

\* A packet: its event, a message or reason, and its number (a connection,
\* a log_seq or a cursor).
Packet(ev, id, n) == [ev |-> ev, id |-> id, n |-> n, page |-> <<>>]
Nothing == Packet("none", "", 0)

NoQueues == [e \in Awaited |-> <<>>]
NoAuth == [awaits |-> "none", got |-> Nothing]
NoSync == [awaits |-> "none", got |-> Nothing]

Inbox == ToSet(applied)
Authed(k) == srv[k] = "authed"
\* "out": connected without a session, its challenge used up.
Open(k) == srv[k] \in {"challenged", "authed", "out"}

-----------------------------------------------------------------------------
Init ==
    /\ state = "disconnected"
    /\ session = 0
    /\ sock = 0
    /\ opened = 0
    /\ online = FALSE
    /\ queues = NoQueues
    /\ auth = NoAuth
    /\ sync = NoSync
    /\ outbox = [m \in Own |-> "none"]
    /\ applied = <<>>
    /\ cursor = 0
    /\ jumped = FALSE
    /\ srv = [k \in Sockets |-> "new"]
    /\ closing = {}
    /\ up = [k \in Sockets |-> <<>>]
    /\ down = <<>>
    /\ log = <<>>
    /\ revoked = FALSE

-----------------------------------------------------------------------------
(* Waiters: enqueue, waitFor, race *)

Verdicts == <<"auth.success", "auth.failure", "disconnect">>

\* What the awaits of an authenticate() call are for.
AuthAwaits(e) ==
    \/ auth.awaits = e
    \/ auth.awaits = "verdict" /\ e \in ToSet(Verdicts)

\* No async function is about to go on: another task may call the client.
Settled == auth.got = Nothing /\ sync.got = Nothing

\* enqueue: the packet resolves the waiter of its event, or is buffered.  A
\* race that has its outcome still swallows the events of its losers.
Enqueue(p) ==
    IF AuthAwaits(p.ev)
    THEN /\ auth' = IF auth.got = Nothing THEN [auth EXCEPT !.got = p] ELSE auth
         /\ UNCHANGED <<queues, sync>>
    ELSE IF sync.awaits = p.ev /\ sync.got = Nothing
    THEN sync' = [sync EXCEPT !.got = p] /\ UNCHANGED <<queues, auth>>
    ELSE /\ queues' = [queues EXCEPT ![p.ev] = Append(@, p)]
         /\ UNCHANGED <<auth, sync>>

\* waitFor: the oldest buffered packet, or Nothing when a waiter is left.
Buffered(e) == IF queues[e] = <<>> THEN Nothing ELSE Head(queues[e])

\* Every event waited for gives up its oldest buffered packet.
Shifted(E) ==
    [e \in Awaited |-> IF e \in E /\ queues[e] # <<>> THEN Tail(queues[e])
                       ELSE queues[e]]

\* race: the first of its events, in their order, that is buffered already.
Raced ==
    LET ready == {i \in DOMAIN Verdicts : queues[Verdicts[i]] # <<>>}
    IN  IF ready = {} THEN Nothing ELSE Buffered(Verdicts[Min(ready)])

-----------------------------------------------------------------------------
(* Connection lifecycle *)

\* Mutant: what the dead connection had buffered stays in the queues.
DroppedQueuesKept == queues

\* dropConnection: buffered events belong to the dead connection.
DroppedQueues == NoQueues

\* dropConnection also forgets the waiters: an authenticate() or sync() in
\* progress can now only time out.
Dropped ==
    /\ session' = 0
    /\ online' = FALSE
    /\ queues' = DroppedQueues
    /\ auth' = NoAuth
    /\ sync' = NoSync
    /\ down' = <<>>

DropConnection ==
    /\ Settled
    /\ sock # 0
    /\ Dropped
    /\ sock' = 0
    /\ state' = IF state = "blocked" THEN state ELSE "disconnected"
    /\ UNCHANGED <<opened, outbox, applied, cursor, jumped, srv, closing, up, log, revoked>>

\* connect(): refused when blocked; the previous socket is torn down.
Connect ==
    /\ Settled
    /\ state # "blocked"
    /\ opened < MaxConnects
    /\ Dropped
    /\ opened' = opened + 1
    /\ sock' = opened + 1
    /\ state' = "connecting"
    /\ UNCHANGED <<outbox, applied, cursor, jumped, srv, closing, up, log, revoked>>

\* emitRaw: the socket buffers what it cannot send yet; a dead one keeps it.
Emitted(p) == [up EXCEPT ![sock] = IF srv[sock] = "closed" THEN @ ELSE Append(@, p)]

CanEmit == sock # 0 /\ Len(up[sock]) < MaxUp

\* authenticate() up to its first await.
Authenticate ==
    /\ Settled
    /\ sock # 0
    /\ auth = NoAuth
    /\ IF online
       THEN /\ auth' = [awaits |-> "auth.challenge", got |-> Buffered("auth.challenge")]
            /\ queues' = [Shifted({"auth.challenge"}) EXCEPT !["connect"] = <<>>]
       ELSE /\ auth' = [awaits |-> "connect", got |-> Buffered("connect")]
            /\ queues' = Shifted({"connect"})
    /\ UNCHANGED <<state, session, sock, opened, online, sync, outbox, applied,
                   cursor, jumped, serverVars>>

AwaitChallenge ==
    /\ auth.awaits = "connect"
    /\ auth.got # Nothing
    /\ auth' = [auth EXCEPT !.awaits = "auth.challenge",
                            !.got = Buffered("auth.challenge")]
    /\ queues' = Shifted({"auth.challenge"})
    /\ UNCHANGED <<state, session, sock, opened, online, sync, outbox, applied,
                   cursor, jumped, serverVars>>

\* The signed auth.response goes out and the race for the verdict starts.
SendAuthResponse ==
    /\ auth.awaits = "auth.challenge"
    /\ auth.got # Nothing
    /\ CanEmit
    /\ state' = "authenticating"
    /\ up' = Emitted(Packet("auth.response", "", auth.got.n))
    /\ auth' = [auth EXCEPT !.awaits = "verdict", !.got = Raced]
    /\ queues' = Shifted(ToSet(Verdicts))
    /\ UNCHANGED <<session, sock, opened, online, sync, outbox, applied, cursor,
                   jumped, srv, closing, down, log, revoked>>

Pending == {m \in Own : outbox[m] = "pending"}

\* auth.success: the session is adopted, also when the socket was dropped or
\* the device revoked by a later packet of the chunk.  Within reconnect(),
\* unless told not to, it goes on to re-emit the outbox (resend), every entry
\* with its own id.
AuthSucceeds(resend) ==
    /\ auth.awaits = "verdict"
    /\ auth.got.ev = "auth.success"
    /\ session' = auth.got.n
    /\ state' = "authenticated"
    /\ auth' = NoAuth
    /\ IF resend /\ srv[sock] # "closed"
       THEN up' = [up EXCEPT ![sock] = @ \o
                     SetToSeq({Packet("message.send", m, 0) : m \in Pending})]
       ELSE UNCHANGED up
    /\ UNCHANGED <<sock, opened, online, queues, sync, outbox, applied, cursor,
                   jumped, srv, closing, down, log, revoked>>

\* auth.failure or disconnect: authenticate() throws.
AuthThrows ==
    /\ auth.awaits = "verdict"
    /\ auth.got.ev \in {"auth.failure", "disconnect"}
    /\ state' = IF auth.got.id = "DEVICE_REVOKED" THEN "blocked" ELSE state
    /\ auth' = NoAuth
    /\ UNCHANGED <<session, sock, opened, online, queues, sync, outbox, applied,
                   cursor, jumped, serverVars>>

\* A wait of 5 s ran out: its waiter is removed and the call throws.
AuthTimeout ==
    /\ Settled
    /\ auth # NoAuth
    /\ auth' = NoAuth
    /\ UNCHANGED <<state, session, sock, opened, online, queues, sync, outbox,
                   applied, cursor, jumped, serverVars>>

-----------------------------------------------------------------------------
(* Sending and syncing *)

\* Mutant: an entry counts as acked once it was written to the socket.
OutboxAfterSendOptimistic(m) == [outbox EXCEPT ![m] = "acked"]

\* sendEnvelope keeps the entry until it is acked; force reopens it.
OutboxAfterSend(m) == [outbox EXCEPT ![m] = "pending"]

\* Without force an acked entry is not emitted again.  emitRaw throws when
\* there is no socket; the entry stays in the outbox.
SendEnvelope(m, force) ==
    /\ Settled
    /\ outbox[m] # "acked" \/ force
    /\ sock # 0 => CanEmit
    /\ outbox' = OutboxAfterSend(m)
    /\ up' = IF sock = 0 THEN up ELSE Emitted(Packet("message.send", m, 0))
    /\ UNCHANGED <<state, session, sock, opened, online, queues, auth, sync,
                   applied, cursor, jumped, srv, closing, down, log, revoked>>

\* sync(), within a session: outside one the request is refused like any
\* other packet, or stays on a dead socket, and the call times out.
SyncRequest ==
    /\ Settled
    /\ state = "authenticated"
    /\ CanEmit
    /\ sync = NoSync
    /\ Len(queues["sync.response"]) <= MaxLate
    /\ up' = Emitted(Packet("sync.request", "", cursor))
    /\ sync' = [awaits |-> "sync.response", got |-> Buffered("sync.response")]
    /\ queues' = Shifted({"sync.response"})
    /\ UNCHANGED <<state, session, sock, opened, online, auth, outbox, applied,
                   cursor, jumped, srv, closing, down, log, revoked>>

\* Mutant: the cursor counts what arrives.
AdvancedCounting(n) == cursor + 1

\* advanceCursor never moves back.
Advanced(n) == IF n > cursor THEN n ELSE cursor

\* Mutant: the events of a response are applied without looking at the inbox.
AppliedUnchecked(page) == applied \o page

\* applySync goes through the events in order and skips those in the inbox.
Applied(page) ==
    LET after[i \in 0 .. Len(page)] ==
            IF i = 0 THEN applied
            ELSE IF page[i] \in ToSet(after[i - 1]) THEN after[i - 1]
            ELSE Append(after[i - 1], page[i])
    IN  after[Len(page)]

\* The response may be one that an earlier, timed out sync() asked for.
ApplySync ==
    /\ sync.got # Nothing
    /\ applied' = Applied(sync.got.page)
    /\ cursor' = Advanced(sync.got.n)
    /\ sync' = NoSync
    /\ UNCHANGED <<state, session, sock, opened, online, queues, auth, outbox,
                   jumped, serverVars>>

SyncTimeout ==
    /\ Settled
    /\ sync # NoSync
    /\ sync' = NoSync
    /\ UNCHANGED <<state, session, sock, opened, online, queues, auth, outbox,
                   applied, cursor, jumped, serverVars>>

-----------------------------------------------------------------------------
(* Packets: the listeners of connect() with observe() *)

Arrives(ev) == down # <<>> /\ Head(down).ev = ev /\ down' = Tail(down)

OnConnect ==
    /\ Arrives("connect")
    /\ state' = "awaiting_challenge"
    /\ online' = TRUE
    /\ Enqueue(Head(down))
    /\ UNCHANGED <<session, sock, opened, outbox, applied, cursor, jumped, srv,
                   closing, up, log, revoked>>

\* Mutant: the blocked state is not terminal for the disconnect listener.
AfterDisconnectAlways == "disconnected"

AfterDisconnect == IF state = "blocked" THEN state ELSE "disconnected"

OnDisconnect ==
    /\ Arrives("disconnect")
    /\ session' = 0
    /\ online' = FALSE
    /\ state' = AfterDisconnect
    /\ Enqueue(Head(down))
    /\ UNCHANGED <<sock, opened, outbox, applied, cursor, jumped, srv, closing, up, log,
                   revoked>>

\* Events that observe() only passes on to the waiters.
OnAwaited ==
    /\ \E ev \in {"auth.challenge", "auth.success", "auth.failure",
                  "sync.response"} : Arrives(ev)
    /\ Enqueue(Head(down))
    /\ UNCHANGED <<state, session, sock, opened, online, outbox, applied, cursor,
                   jumped, srv, closing, up, log, revoked>>

OnAck ==
    /\ Arrives("message.ack")
    /\ outbox' = [outbox EXCEPT ![Head(down).id] = "acked"]
    /\ UNCHANGED <<state, session, sock, opened, online, queues, auth, sync,
                   applied, cursor, jumped, srv, closing, up, log, revoked>>

\* A live message moves the cursor to its log_seq, whatever lies between.
OnMessageNew ==
    /\ Arrives("message.new")
    /\ LET p == Head(down)
       IN  /\ applied' = IF p.id \in Inbox THEN applied ELSE Append(applied, p.id)
           /\ cursor' = Advanced(p.n)
           /\ jumped' = (jumped \/ \E i \in cursor + 1 .. p.n - 1 :
                                      log[i] \notin Own \union Inbox)
    /\ UNCHANGED <<state, session, sock, opened, online, queues, auth, sync,
                   outbox, srv, closing, up, log, revoked>>

OnDeviceRevoked ==
    /\ Arrives("device.revoked")
    /\ state' = "blocked"
    /\ session' = 0
    /\ UNCHANGED <<sock, opened, online, queues, auth, sync, outbox, applied,
                   cursor, jumped, srv, closing, up, log, revoked>>

-----------------------------------------------------------------------------
(* The server and the network *)

\* What the server emits reaches the client only on its current socket.
ToClient(k, packets) == IF k = sock THEN down \o packets ELSE down

Room == Len(down) < MaxDown

\* onConnection: the challenge follows at once.
ServerAccepts(k) ==
    /\ srv[k] = "new"
    /\ k = sock
    /\ srv' = [srv EXCEPT ![k] = "challenged"]
    /\ down' = <<Packet("connect", "", k), Packet("auth.challenge", "", k)>>
    /\ UNCHANGED <<clientVars, closing, up, log, revoked>>

Handles(k, ev) ==
    /\ Open(k)
    /\ Room
    /\ up[k] # <<>>
    /\ Head(up[k]).ev = ev
    /\ up' = [up EXCEPT ![k] = Tail(@)]

\* One session per device: the sockets of evicted sessions are closed.
ServerAuthenticates(k) ==
    /\ Handles(k, "auth.response")
    /\ IF srv[k] = "challenged" /\ Head(up[k]).n = k /\ ~revoked
       THEN /\ srv' = [j \in Sockets |-> IF j = k THEN "authed"
                                         ELSE IF Authed(j) THEN "out"
                                         ELSE srv[j]]
            /\ closing' = closing \union {j \in Sockets \ {k} : Authed(j)}
            /\ down' = ToClient(k, <<Packet("auth.success", "", k)>>)
       ELSE /\ srv' = [srv EXCEPT ![k] = IF @ = "challenged" /\ ~revoked
                                         THEN "out" ELSE @]
            /\ closing' = closing \union {k}
            /\ down' = ToClient(k, <<Packet("auth.failure",
                          IF revoked THEN "DEVICE_REVOKED" ELSE "refused", k)>>)
    /\ UNCHANGED <<clientVars, log, revoked>>

\* requireSession refuses: the packet is dropped and the socket closed.
ServerRefuses(k) ==
    /\ \E ev \in {"message.send", "sync.request"} : Handles(k, ev)
    /\ ~Authed(k)
    /\ closing' = closing \union {k}
    /\ UNCHANGED <<clientVars, srv, down, log, revoked>>

\* Deduplicated by id, logged, acked to the emitting socket only.
ServerLogs(k) ==
    /\ Handles(k, "message.send")
    /\ Authed(k)
    /\ LET m == Head(up[k]).id
       IN  /\ log' = IF m \in ToSet(log) THEN log ELSE Append(log, m)
           /\ down' = ToClient(k, <<Packet("message.ack", m, 0)>>)
    /\ UNCHANGED <<clientVars, srv, closing, revoked>>

PageAfter(n) == SubSeq(log, n + 1, IF n + PageLimit < Len(log)
                                    THEN n + PageLimit ELSE Len(log))

\* Mutant: the cursor of a cut page is the head of the log.
SyncCursorHead(n) == Len(log)

\* The last event of a full page, else the head of the log.
SyncCursor(n) ==
    IF Len(PageAfter(n)) = PageLimit THEN n + PageLimit ELSE Len(log)

ServerSyncs(k) ==
    /\ Handles(k, "sync.request")
    /\ Authed(k)
    /\ LET n == Head(up[k]).n
       IN  down' = ToClient(k, <<[Packet("sync.response", "", SyncCursor(n))
                                    EXCEPT !.page = PageAfter(n)]>>)
    /\ UNCHANGED <<clientVars, srv, closing, log, revoked>>

\* Another member's message is logged and fanned out to the live session.
PeerSends(m) ==
    /\ Room
    /\ m \notin ToSet(log)
    /\ log' = Append(log, m)
    /\ down' = IF sock # 0 /\ Authed(sock)
               THEN Append(down, Packet("message.new", m, Len(log) + 1))
               ELSE down
    /\ UNCHANGED <<clientVars, srv, closing, up, revoked>>

\* adminRevokeDevice: device.revoked, then the sockets are closed.
Revoke ==
    /\ ~revoked
    /\ Room
    /\ revoked' = TRUE
    /\ srv' = [k \in Sockets |-> IF Authed(k) THEN "out" ELSE srv[k]]
    /\ closing' = closing \union {k \in Sockets : Authed(k)}
    /\ down' = IF sock # 0 /\ Authed(sock)
               THEN Append(down, Packet("device.revoked", "", 0)) ELSE down
    /\ UNCHANGED <<clientVars, up, log>>

\* The server's close timer, or its end of a socket the client dropped.
ServerCloses(k) ==
    /\ Open(k)
    /\ k \in closing \/ k # sock
    /\ closing' = closing \ {k}
    /\ srv' = [srv EXCEPT ![k] = "closed"]
    /\ up' = [up EXCEPT ![k] = <<>>]
    /\ down' = ToClient(k, <<Packet("disconnect", "", k)>>)
    /\ UNCHANGED <<clientVars, log, revoked>>

\* The connection breaks: a tail of what is in flight, in both directions, is
\* lost; the client notices by its ping timeout.
NetworkBreaks(i) ==
    /\ sock # 0
    /\ Open(sock)
    /\ srv' = [srv EXCEPT ![sock] = "closed"]
    /\ closing' = closing \ {sock}
    /\ up' = [up EXCEPT ![sock] = <<>>]
    /\ down' = Append(SubSeq(down, 1, i), Packet("disconnect", "", sock))
    /\ UNCHANGED <<clientVars, log, revoked>>

-----------------------------------------------------------------------------
Calls ==
    \/ Connect \/ DropConnection
    \/ Authenticate
    \/ \E m \in Own, force \in BOOLEAN : SendEnvelope(m, force)
    \/ SyncRequest

Continues ==
    \/ AwaitChallenge \/ SendAuthResponse \/ AuthThrows
    \/ \E resend \in BOOLEAN : AuthSucceeds(resend)
    \/ AuthTimeout \/ ApplySync \/ SyncTimeout

Receives ==
    \/ OnConnect \/ OnDisconnect \/ OnAwaited \/ OnAck \/ OnMessageNew
    \/ OnDeviceRevoked

ServerNext ==
    \/ \E k \in Sockets :
          \/ ServerAccepts(k) \/ ServerAuthenticates(k) \/ ServerRefuses(k)
          \/ ServerLogs(k) \/ ServerSyncs(k) \/ ServerCloses(k)
    \/ \E m \in Peer : PeerSends(m)
    \/ Revoke
    \/ \E i \in 0 .. Len(down) : NetworkBreaks(i)

Next == Calls \/ Continues \/ Receives \/ ServerNext

Spec == Init /\ [][Next]_vars

-----------------------------------------------------------------------------
(* Properties *)

States == {"disconnected", "connecting", "awaiting_challenge",
           "authenticating", "authenticated", "blocked"}

\* Every variable of the client and of the server stays within its type.
TypeOK ==
    /\ state \in States
    /\ session \in 0 .. MaxConnects
    /\ sock \in 0 .. opened
    /\ opened \in 0 .. MaxConnects
    /\ online \in BOOLEAN
    /\ \A e \in Awaited : \A i \in DOMAIN queues[e] : queues[e][i].ev = e
    /\ outbox \in [Own -> {"none", "pending", "acked"}]
    /\ Inbox \subseteq Own \union Peer
    /\ cursor \in 0 .. Len(log)
    /\ srv \in [Sockets -> {"new", "challenged", "authed", "out", "closed"}]
    /\ closing \subseteq Sockets
    /\ ToSet(log) \subseteq Own \union Peer

\* A session the client believes in was given to its current socket, and the
\* server still honours it or is about to close that socket: a late
\* auth.success of a dead connection, which a timed out authenticate() left
\* behind, is never taken for the answer to a new handshake.
SessionIsCurrent ==
    (state = "authenticated" /\ session # 0) =>
        /\ session = sock
        /\ online => \/ Authed(sock)
                     \/ sock \in closing
                     \/ \E i \in DOMAIN down : down[i].ev = "disconnect"

\* No message is applied twice, although it may arrive live, in the page of a
\* sync, and again in the late page of a sync that timed out.
AppliedOnce == IsInjective(applied)

\* What the outbox holds as acked is in the server's log, once, whatever was
\* retransmitted, forced or lost with a connection.
AckedIsLogged ==
    \A m \in Own : outbox[m] = "acked" =>
        Cardinality({i \in DOMAIN log : log[i] = m}) = 1

\* Unless a live message jumped over a missed one, the client has every
\* message of the others up to its cursor: paging, stale responses and
\* reconnects lose nothing.
NothingMissed ==
    ~jumped => \A i \in 1 .. cursor : log[i] \in Own \union Inbox

\* The blocked state is terminal: only the verdict of a handshake that was
\* already on its way can overwrite it.
BlockedIsFinal ==
    [][state = "blocked" /\ auth.got = Nothing => state' = "blocked"]_vars
=============================================================================
