-------------------------- MODULE SessionLifecycle --------------------------
(***************************************************************************)
(* Connection, handshake and session lifecycle of the realtime server:     *)
(* RealtimeServer (connection, auth.response, session guard, disconnect    *)
(* and the admin revocations), ChallengeStore, HandshakeEngine,            *)
(* DeviceRegistry and SessionRegistry.                                     *)
(*                                                                         *)
(* Node runs one callback at a time, so an action is one macro task: the   *)
(* code between two points at which the event loop can run another socket  *)
(* event, timer or I/O completion.  The awaits on in-memory work (the      *)
(* handshake engine, joins of the in-process adapter) resolve in micro     *)
(* tasks and do not split an action; the await on the directory in         *)
(* adminRevokeDevice and the two timers (10 ms, 15 ms) do.                 *)
(***************************************************************************)
EXTENDS Naturals, FiniteSets

CONSTANTS
    Sockets,          \* socket ids; Socket.IO never reuses one
    Devices,          \* device ids
    ChallengeTtl,     \* config.challengeTtlMs, in clock units
    SessionTtl,       \* config.sessionTtlMs, in clock units
    MaxAuthAttempts,  \* config.maxAuthAttemptsPerConnection
    MaxTime,          \* bound: last clock value explored
    DirectoryMayFail  \* may directory.revokeDevice reject?

ASSUME TtlAssumption == ChallengeTtl \in Nat /\ SessionTtl \in Nat
ASSUME AttemptsAssumption == MaxAuthAttempts \in Nat
ASSUME TimeAssumption == MaxTime \in Nat
ASSUME FailAssumption == DirectoryMayFail \in BOOLEAN

VARIABLES
    clock,       \* the injected clock
    conn,        \* socket -> "new" | "open" | "closed"
    closing,     \* sockets with a pending disconnectSocket timer
    attempts,    \* socket -> socket.data.authAttempts
    challenges,  \* ChallengeStore.challenges: set of stored challenges
    devices,     \* DeviceRegistry.records: device -> status or "unregistered"
    sessions,    \* SessionRegistry.sessions: set of registered sessions
    nextSid,     \* next fresh session id (randomBytes(32) in the code)
    data,        \* socket -> sid in socket.data.session, 0 when undefined
    room,        \* socket -> devices whose device:<id> room it joined
    revokeWait,  \* devices with adminRevokeDevice awaiting the directory
    revokeFlush, \* devices with the 15 ms disconnect timer pending
    minted       \* history: challenge -> number of sessions it produced

vars == <<clock, conn, closing, attempts, challenges, devices, sessions,
          nextSid, data, room, revokeWait, revokeFlush, minted>>

NoSession == 0

\* Challenge ids are random: the id of the socket it was issued to names it.
Challenge == [id : Sockets, socketKey : Sockets, expiresAt : Nat]

Session == [sid : Nat \ {NoSession}, socketKey : Sockets,
            deviceId : Devices, expiresAt : Nat]

-----------------------------------------------------------------------------
Init ==
    /\ clock = 0
    /\ conn = [s \in Sockets |-> "new"]
    /\ closing = {}
    /\ attempts = [s \in Sockets |-> 0]
    /\ challenges = {}
    /\ devices = [d \in Devices |-> "unregistered"]
    /\ sessions = {}
    /\ nextSid = 1
    /\ data = [s \in Sockets |-> NoSession]
    /\ room = [s \in Sockets |-> {}]
    /\ revokeWait = {}
    /\ revokeFlush = {}
    /\ minted = [c \in Sockets |-> 0]

-----------------------------------------------------------------------------
(* ChallengeStore *)

Expired(entry) == clock > entry.expiresAt

\* issue() stores the new challenge and then sweeps the expired ones.
Issue(s) ==
    {c \in challenges \union
           {[id |-> s, socketKey |-> s, expiresAt |-> clock + ChallengeTtl]} :
        ~Expired(c)}

\* rebind() makes the identity of a live wildcard challenge the claimed one
\* just before consume() compares them, so what consume() can still reject
\* is an unknown id, an expired challenge or another socket's challenge.
ConsumeOk(id, s) ==
    \E c \in challenges : c.id = id /\ ~Expired(c) /\ c.socketKey = s

\* Mutant: the entry is looked up but never deleted.
ConsumedKept(id) == challenges

\* consume() deletes the entry before it looks at it.
Consumed(id) == {c \in challenges : c.id # id}

-----------------------------------------------------------------------------
(* SessionRegistry *)

SessionsOf(d) == {e \in sessions : e.deviceId = d}

EntryOf(sid) == {e \in sessions : e.sid = sid}

NewSession(s, d) ==
    [sid |-> nextSid, socketKey |-> s, deviceId |-> d,
     expiresAt |-> clock + SessionTtl]

\* Mutant: create() without evictByDevice.
CreateNoEvict(s, d) == sessions \union {NewSession(s, d)}

\* create(): evictByDevice, then the new entry.
Create(s, d) == (sessions \ SessionsOf(d)) \union {NewSession(s, d)}

-----------------------------------------------------------------------------
(* Connection and disconnection *)

\* onConnection: fresh counters, and a challenge is issued at once.
Connect(s) ==
    /\ conn[s] = "new"
    /\ conn' = [conn EXCEPT ![s] = "open"]
    /\ challenges' = Issue(s)
    /\ UNCHANGED <<clock, closing, attempts, devices, sessions, nextSid, data,
                   room, revokeWait, revokeFlush, minted>>

\* connectionMiddleware: the per-IP bucket refuses the connection.
Refuse(s) ==
    /\ conn[s] = "new"
    /\ conn' = [conn EXCEPT ![s] = "closed"]
    /\ UNCHANGED <<clock, closing, attempts, challenges, devices, sessions,
                   nextSid, data, room, revokeWait, revokeFlush, minted>>

\* Mutant: the disconnect handler leaves the registry alone.
DroppedByNothing(S) == {}

\* Mutant: the disconnect handler drops every session of the device, also
\* the newer one that a reconnect already owns.
DroppedByDevice(S) ==
    {e \in sessions : \E s \in S : e.deviceId \in room[s]}

\* The registry entries onDisconnect drops for the closing sockets S: the
\* socket's own session, if the registry still ties it to that socket.
DroppedBy(S) == {e \in sessions : e.socketKey \in S /\ data[e.socketKey] = e.sid}

\* onDisconnect for every socket of S (Socket.IO also empties its rooms).
Disconnect(S) ==
    /\ conn' = [s \in Sockets |-> IF s \in S THEN "closed" ELSE conn[s]]
    /\ closing' = closing \ S
    /\ sessions' = sessions \ DroppedBy(S)
    /\ data' = [s \in Sockets |-> IF s \in S THEN NoSession ELSE data[s]]
    /\ room' = [s \in Sockets |-> IF s \in S THEN {} ELSE room[s]]
    /\ UNCHANGED <<clock, attempts, challenges, devices, nextSid, minted>>

\* The client, the transport or the ping timeout closes the socket.
TransportClose(s) ==
    /\ conn[s] = "open"
    /\ Disconnect({s})
    /\ UNCHANGED <<revokeWait, revokeFlush>>

\* The timer armed by disconnectSocket / disconnectSocketKey fires.
CloseTimer(s) ==
    /\ s \in closing
    /\ Disconnect({s})
    /\ UNCHANGED <<revokeWait, revokeFlush>>

-----------------------------------------------------------------------------
(* Handshake: onAuthResponse with HandshakeEngine.handleAuthResponse *)

\* Mutant: any registered device may authenticate, revoked or not.
DeviceKnown(d) == devices[d] # "unregistered"

\* Step 2 of the engine: the device has a record and the record is active.
DeviceActive(d) == devices[d] = "active"

\* Attempts past the limit are all alike, so the counter saturates there.
CountAttempt(s) ==
    attempts' = [attempts EXCEPT
                   ![s] = IF @ > MaxAuthAttempts THEN @ ELSE @ + 1]

\* Too many attempts, a rate limiter or the lockout refuses the response
\* before the engine sees it: no challenge is touched.
AuthRefused(s) ==
    /\ conn[s] = "open"
    /\ CountAttempt(s)
    /\ closing' = closing \union {s}
    /\ UNCHANGED <<clock, conn, challenges, devices, sessions, nextSid, data,
                   room, revokeWait, revokeFlush, minted>>

\* Steps 1 and 2 of the engine fail (payload shape, device record, claimed
\* account): the socket is closed and the challenge stays in the store.
AuthIdentityRejected(s) ==
    /\ conn[s] = "open"
    /\ attempts[s] < MaxAuthAttempts
    /\ CountAttempt(s)
    /\ closing' = closing \union {s}
    /\ UNCHANGED <<clock, conn, challenges, devices, sessions, nextSid, data,
                   room, revokeWait, revokeFlush, minted>>

\* Step 3 or 4 fails: the challenge named by the payload is consumed.
AuthProofRejected(s, d, id, signatureOk) ==
    /\ conn[s] = "open"
    /\ attempts[s] < MaxAuthAttempts
    /\ DeviceActive(d)
    /\ ~(ConsumeOk(id, s) /\ signatureOk)
    /\ CountAttempt(s)
    /\ challenges' = Consumed(id)
    /\ closing' = closing \union {s}
    /\ UNCHANGED <<clock, conn, devices, sessions, nextSid, data, room,
                   revokeWait, revokeFlush, minted>>

\* Mutant: evicted sessions are dropped but their sockets stay connected.
EvictedKept(d) == {}

\* Sockets of evicted sessions get the disconnectSocketKey timer.
Evicted(d) == {e.socketKey : e \in SessionsOf(d)}

AuthSuccess(s, d, id) ==
    /\ conn[s] = "open"
    /\ attempts[s] < MaxAuthAttempts
    /\ DeviceActive(d)
    /\ ConsumeOk(id, s)
    /\ CountAttempt(s)
    /\ challenges' = Consumed(id)
    /\ sessions' = Create(s, d)
    /\ nextSid' = nextSid + 1
    /\ minted' = [minted EXCEPT ![id] = @ + 1]
    /\ closing' = closing \union {k \in Evicted(d) : conn[k] = "open"}
    /\ data' = [data EXCEPT ![s] = nextSid]
    /\ room' = [room EXCEPT ![s] = @ \union {d}]
    /\ UNCHANGED <<clock, conn, devices, revokeWait, revokeFlush>>

-----------------------------------------------------------------------------
(* requireSession: the guard in front of every post-handshake event *)

\* SessionRegistry.validate deletes an expired entry; every refusal arms the
\* disconnect timer of the socket.
GuardRejects(s) ==
    /\ conn[s] = "open"
    /\ ~\E e \in EntryOf(data[s]) : ~Expired(e) /\ e.socketKey = s
    /\ sessions' = {e \in sessions : ~(e.sid = data[s] /\ Expired(e))}
    /\ closing' = closing \union {s}
    /\ UNCHANGED <<clock, conn, attempts, challenges, devices, nextSid, data,
                   room, revokeWait, revokeFlush, minted>>

\* Sliding renewal.
GuardAccepts(s) ==
    /\ conn[s] = "open"
    /\ \E e \in EntryOf(data[s]) :
          /\ ~Expired(e)
          /\ e.socketKey = s
          /\ sessions' = (sessions \ {e}) \union
                           {[e EXCEPT !.expiresAt = clock + SessionTtl]}
    /\ UNCHANGED <<clock, conn, closing, attempts, challenges, devices,
                   nextSid, data, room, revokeWait, revokeFlush, minted>>

-----------------------------------------------------------------------------
(* Admin operations *)

\* adminRegisterDevice: (re-)registering makes the device active.
AdminRegisterDevice(d) ==
    /\ devices' = [devices EXCEPT ![d] = "active"]
    /\ UNCHANGED <<clock, conn, closing, attempts, challenges, sessions,
                   nextSid, data, room, revokeWait, revokeFlush, minted>>

\* adminRevokeDevice up to its await: the local registry entry is revoked.
AdminRevokeDevice(d) ==
    /\ d \notin revokeWait
    /\ devices' = [devices EXCEPT
                     ![d] = IF @ = "unregistered" THEN @ ELSE "revoked"]
    /\ revokeWait' = revokeWait \union {d}
    /\ UNCHANGED <<clock, conn, closing, attempts, challenges, sessions,
                   nextSid, data, room, revokeFlush, minted>>

\* The directory answered: revokeByDevice, fan-out, 15 ms timer.
AdminRevokeResume(d) ==
    /\ d \in revokeWait
    /\ revokeWait' = revokeWait \ {d}
    /\ sessions' = sessions \ SessionsOf(d)
    /\ revokeFlush' = revokeFlush \union {d}
    /\ UNCHANGED <<clock, conn, closing, attempts, challenges, devices,
                   nextSid, data, room, minted>>

\* The directory call rejects: nothing after the await runs.
AdminRevokeFails(d) ==
    /\ DirectoryMayFail
    /\ d \in revokeWait
    /\ revokeWait' = revokeWait \ {d}
    /\ UNCHANGED <<clock, conn, closing, attempts, challenges, devices,
                   sessions, nextSid, data, room, revokeFlush, minted>>

\* The 15 ms timer: every socket then in the device room is disconnected.
RevokeFlushTimer(d) ==
    /\ d \in revokeFlush
    /\ revokeFlush' = revokeFlush \ {d}
    /\ Disconnect({s \in Sockets : d \in room[s]})
    /\ UNCHANGED revokeWait

\* adminRevokeSession: remote logout of one session.
AdminRevokeSession(e) ==
    /\ e \in sessions
    /\ sessions' = sessions \ {e}
    /\ closing' = closing \union ({e.socketKey} \intersect
                                    {s \in Sockets : conn[s] = "open"})
    /\ UNCHANGED <<clock, conn, attempts, challenges, devices, nextSid, data,
                   room, revokeWait, revokeFlush, minted>>

Tick ==
    /\ clock < MaxTime
    /\ clock' = clock + 1
    /\ UNCHANGED <<conn, closing, attempts, challenges, devices, sessions,
                   nextSid, data, room, revokeWait, revokeFlush, minted>>

-----------------------------------------------------------------------------
SocketNext(s) ==
    \/ Connect(s)
    \/ Refuse(s)
    \/ TransportClose(s)
    \/ CloseTimer(s)
    \/ AuthRefused(s)
    \/ AuthIdentityRejected(s)
    \/ \E d \in Devices, id \in Sockets, ok \in BOOLEAN :
          AuthProofRejected(s, d, id, ok)
    \/ \E d \in Devices, id \in Sockets : AuthSuccess(s, d, id)
    \/ GuardRejects(s)
    \/ GuardAccepts(s)

AdminNext(d) ==
    \/ AdminRegisterDevice(d)
    \/ AdminRevokeDevice(d)
    \/ AdminRevokeResume(d)
    \/ AdminRevokeFails(d)
    \/ RevokeFlushTimer(d)

Next ==
    \/ \E s \in Sockets : SocketNext(s)
    \/ \E d \in Devices : AdminNext(d)
    \/ \E e \in sessions : AdminRevokeSession(e)
    \/ Tick

Spec == Init /\ [][Next]_vars

\* Node fires an armed timer, and the directory answers or rejects a call.
\* Nothing obliges a client, an admin or the clock to act.
Fairness ==
    /\ \A s \in Sockets : WF_vars(CloseTimer(s))
    /\ \A d \in Devices :
          /\ WF_vars(AdminRevokeResume(d) \/ AdminRevokeFails(d))
          /\ WF_vars(RevokeFlushTimer(d))

FairSpec == Spec /\ Fairness

-----------------------------------------------------------------------------
(* Properties *)

\* Every variable of the server stays within its type.
TypeOK ==
    /\ clock \in Nat
    /\ conn \in [Sockets -> {"new", "open", "closed"}]
    /\ closing \subseteq Sockets
    /\ attempts \in [Sockets -> Nat]
    /\ challenges \subseteq Challenge
    /\ devices \in [Devices -> {"unregistered", "active", "revoked"}]
    /\ sessions \subseteq Session
    /\ nextSid \in Nat \ {NoSession}
    /\ data \in [Sockets -> Nat]
    /\ room \in [Sockets -> SUBSET Devices]
    /\ revokeWait \subseteq Devices
    /\ revokeFlush \subseteq Devices
    /\ minted \in [Sockets -> Nat]

\* SessionRegistry promises one live session per device, whatever the order
\* of handshakes, disconnects and revocations.
OneSessionPerDevice ==
    \A e, f \in sessions : e.deviceId = f.deviceId => e = f

\* A registered session is carried by the open socket it is bound to: no
\* session outlives its socket and no socket acts under two sessions.
RegistryMatchesSockets ==
    \A e \in sessions :
        /\ conn[e.socketKey] = "open"
        /\ data[e.socketKey] = e.sid
        /\ e.deviceId \in room[e.socketKey]

\* consume() is single use: a challenge opens at most one session, however
\* many auth.response packets name it and on whichever sockets.
ChallengeSingleUse == \A c \in Sockets : minted[c] <= 1

\* Once adminRevokeDevice has completed, the revoked device holds no session
\* (until it is registered again), even if a handshake raced the await.
RevokedDeviceHasNoSession ==
    \A d \in Devices :
        devices[d] = "revoked" /\ d \notin revokeWait => SessionsOf(d) = {}

\* A session leaves the registry only for a cause of its own: its socket
\* closed, it expired, its device opened a newer session, or an admin
\* revoked it.  The late disconnect of a device's older socket is no cause.
LostSession(e) == e.sid \notin {f.sid : f \in sessions'}

SessionLossIsCaused ==
    [][\A e \in sessions : LostSession(e) =>
          \/ conn'[e.socketKey] = "closed"
          \/ Expired(e)
          \/ \E f \in sessions' : f.deviceId = e.deviceId /\ f.sid = nextSid
          \/ AdminRevokeResume(e.deviceId)
          \/ AdminRevokeSession(e)]_vars

\* A socket whose session left the registry (evicted, expired, revoked one by
\* one or with its device) is eventually disconnected by the server itself.
SessionlessSocketIsClosed ==
    \A s \in Sockets :
        (data[s] # NoSession /\ EntryOf(data[s]) = {}) ~> (conn[s] = "closed")
=============================================================================
