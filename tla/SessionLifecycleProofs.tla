----------------------- MODULE SessionLifecycleProofs -----------------------
(***************************************************************************)
(* Proofs about SessionLifecycle for any sets of sockets and devices, any  *)
(* TTLs and any number of authentication attempts.                         *)
(***************************************************************************)
EXTENDS SessionLifecycle, TLAPS

\* A stored challenge still belongs to the socket it was issued to and has
\* produced no session; a socket that never connected has neither.
ChallengesUnspent ==
    /\ \A c \in challenges :
          c.socketKey = c.id /\ minted[c.id] = 0 /\ conn[c.id] # "new"
    /\ \A s \in Sockets : conn[s] = "new" => minted[s] = 0

\* A socket carries a session only while it is open, and only if it spent
\* its own challenge on it.
CarriersSpent ==
    \A s \in Sockets :
        data[s] # NoSession => conn[s] = "open" /\ minted[s] # 0

\* The inductive invariant: on its own RegistryMatchesSockets is not
\* inductive, since a second session on the same socket would break it; that
\* a socket has only one challenge, spent on its first session, rules it out.
SessionInv ==
    /\ TypeOK
    /\ ChallengesUnspent
    /\ CarriersSpent
    /\ ChallengeSingleUse
    /\ OneSessionPerDevice
    /\ RegistryMatchesSockets

-----------------------------------------------------------------------------
\* Every action of the server keeps the variables within their types.
LEMMA TypeStep == TypeOK /\ [Next]_vars => TypeOK'
<1> USE TtlAssumption, AttemptsAssumption, TimeAssumption
<1> SUFFICES ASSUME TypeOK, [Next]_vars PROVE TypeOK'
  OBVIOUS
<1> USE DEF TypeOK, NoSession
<1>1. ASSUME NEW s \in Sockets, SocketNext(s) PROVE TypeOK'
  <2>1. CASE Connect(s)
    BY <2>1 DEF Connect, Issue, Challenge
  <2>2. CASE Refuse(s)
    BY <2>2 DEF Refuse
  <2>3. CASE TransportClose(s) \/ CloseTimer(s)
    BY <2>3 DEF TransportClose, CloseTimer, Disconnect
  <2>4. CASE AuthRefused(s) \/ AuthIdentityRejected(s)
    BY <2>4 DEF AuthRefused, AuthIdentityRejected, CountAttempt
  <2>5. ASSUME NEW d \in Devices, NEW id \in Sockets, NEW ok \in BOOLEAN,
               AuthProofRejected(s, d, id, ok)
        PROVE  TypeOK'
    BY <2>5 DEF AuthProofRejected, CountAttempt, Consumed
  <2>6. ASSUME NEW d \in Devices, NEW id \in Sockets, AuthSuccess(s, d, id)
        PROVE  TypeOK'
    <3>1. NewSession(s, d) \in Session
      BY DEF NewSession, Session
    <3>2. sessions' \subseteq Session
      BY <2>6, <3>1 DEF AuthSuccess, Create
    <3>3. closing' \subseteq Sockets
      BY <2>6 DEF AuthSuccess, Evicted, SessionsOf, Session
    <3> QED
      BY <2>6, <3>2, <3>3 DEF AuthSuccess, CountAttempt, Consumed
  <2>7. CASE GuardRejects(s)
    BY <2>7 DEF GuardRejects
  <2>8. CASE GuardAccepts(s)
    BY <2>8 DEF GuardAccepts, EntryOf, Session
  <2> QED
    BY <1>1, <2>1, <2>2, <2>3, <2>4, <2>5, <2>6, <2>7, <2>8 DEF SocketNext
<1>2. ASSUME NEW d \in Devices, AdminNext(d) PROVE TypeOK'
  <2>1. CASE AdminRegisterDevice(d) \/ AdminRevokeDevice(d)
    BY <2>1 DEF AdminRegisterDevice, AdminRevokeDevice
  <2>2. CASE AdminRevokeResume(d) \/ AdminRevokeFails(d)
    BY <2>2 DEF AdminRevokeResume, AdminRevokeFails
  <2>3. CASE RevokeFlushTimer(d)
    BY <2>3 DEF RevokeFlushTimer, Disconnect
  <2> QED
    BY <1>2, <2>1, <2>2, <2>3 DEF AdminNext
<1>3. ASSUME NEW e \in sessions, AdminRevokeSession(e) PROVE TypeOK'
  BY <1>3 DEF AdminRevokeSession
<1>4. CASE Tick
  BY <1>4 DEF Tick
<1>5. CASE UNCHANGED vars
  BY <1>5 DEF vars
<1> QED
  BY <1>1, <1>2, <1>3, <1>4, <1>5 DEF Next

-----------------------------------------------------------------------------
\* The session invariant is inductive.
LEMMA SessionStep == SessionInv /\ [Next]_vars => SessionInv'
<1> SUFFICES ASSUME SessionInv, [Next]_vars PROVE SessionInv'
  OBVIOUS
<1> USE DEF SessionInv, NoSession
<1>0. TypeOK'
  BY TypeStep
<1> DEFINE Rest == /\ ChallengesUnspent
                   /\ CarriersSpent
                   /\ ChallengeSingleUse
                   /\ OneSessionPerDevice
                   /\ RegistryMatchesSockets
<1> USE DEF ChallengesUnspent, CarriersSpent, ChallengeSingleUse,
            OneSessionPerDevice, RegistryMatchesSockets
\* Closing sockets: what they carried is exactly what the registry drops.
<1>1. ASSUME NEW S \in SUBSET Sockets, Disconnect(S) PROVE Rest'
  <2>1. /\ challenges' = challenges /\ minted' = minted
        /\ \A s \in Sockets : conn'[s] = IF s \in S THEN "closed" ELSE conn[s]
        /\ \A s \in Sockets : data'[s] = IF s \in S THEN NoSession ELSE data[s]
        /\ \A s \in Sockets : room'[s] = IF s \in S THEN {} ELSE room[s]
        /\ sessions' = sessions \ DroppedBy(S)
    BY <1>1 DEF Disconnect
  <2>2. ChallengesUnspent' /\ ChallengeSingleUse'
    BY <2>1 DEF TypeOK, Challenge
  <2>3. CarriersSpent'
    BY <2>1
  <2>4. OneSessionPerDevice'
    BY <2>1
  <2>5. RegistryMatchesSockets'
    BY <2>1 DEF DroppedBy, TypeOK, Session
  <2> QED
    BY <2>2, <2>3, <2>4, <2>5
\* Steps that leave connections, challenges and data alone and at most drop
\* registry entries.
<1>2. ASSUME UNCHANGED <<conn, challenges, data, room, minted>>,
             sessions' \subseteq sessions
      PROVE  Rest'
  BY <1>2
<1>3. ASSUME NEW s \in Sockets, SocketNext(s) PROVE Rest'
  <2>1. CASE Connect(s)
    BY <2>1 DEF Connect, Issue, TypeOK, Challenge, Session
  <2>2. CASE Refuse(s)
    BY <2>2 DEF Refuse, TypeOK, Challenge, Session
  <2>3. CASE TransportClose(s) \/ CloseTimer(s)
    BY <2>3, <1>1 DEF TransportClose, CloseTimer
  <2>4. CASE AuthRefused(s) \/ AuthIdentityRejected(s)
    BY <2>4, <1>2 DEF AuthRefused, AuthIdentityRejected
  <2>5. ASSUME NEW d \in Devices, NEW id \in Sockets, NEW ok \in BOOLEAN,
               AuthProofRejected(s, d, id, ok)
        PROVE  Rest'
    BY <2>5 DEF AuthProofRejected, Consumed
  <2>6. ASSUME NEW d \in Devices, NEW id \in Sockets, AuthSuccess(s, d, id)
        PROVE  Rest'
    \* The challenge is the socket's own and unspent, so the socket carried
    \* no session and no registry entry is bound to it.
    <3>1. id = s /\ minted[s] = 0 /\ data[s] = NoSession
      BY <2>6 DEF AuthSuccess, ConsumeOk
    <3>2. \A e \in sessions : e.socketKey # s
      BY <3>1 DEF TypeOK, Session
    <3>3. /\ conn' = conn /\ conn[s] = "open"
          /\ challenges' = Consumed(s)
          /\ minted' = [minted EXCEPT ![s] = 1]
          /\ data' = [data EXCEPT ![s] = nextSid]
          /\ room' = [room EXCEPT ![s] = @ \union {d}]
          /\ sessions' = Create(s, d)
      BY <2>6, <3>1 DEF AuthSuccess
    <3>4. ChallengesUnspent' /\ ChallengeSingleUse' /\ CarriersSpent'
      BY <3>1, <3>3 DEF TypeOK, Consumed, Challenge
    <3>5. OneSessionPerDevice'
      BY <3>3 DEF Create, SessionsOf, NewSession
    <3>6. RegistryMatchesSockets'
      BY <3>2, <3>3 DEF Create, SessionsOf, NewSession, TypeOK, Session
    <3> QED
      BY <3>4, <3>5, <3>6
  <2>7. CASE GuardRejects(s)
    BY <2>7, <1>2 DEF GuardRejects
  <2>8. CASE GuardAccepts(s)
    BY <2>8 DEF GuardAccepts, EntryOf, TypeOK, Session
  <2> QED
    BY <1>3, <2>1, <2>2, <2>3, <2>4, <2>5, <2>6, <2>7, <2>8 DEF SocketNext
<1>4. ASSUME NEW d \in Devices, AdminNext(d) PROVE Rest'
  <2>1. CASE RevokeFlushTimer(d)
    BY <2>1, <1>1 DEF RevokeFlushTimer
  <2>2. CASE ~RevokeFlushTimer(d)
    BY <1>4, <2>2, <1>2 DEF AdminNext, AdminRegisterDevice, AdminRevokeDevice,
         AdminRevokeResume, AdminRevokeFails
  <2> QED
    BY <2>1, <2>2
<1>5. ASSUME NEW e \in sessions, AdminRevokeSession(e) PROVE Rest'
  BY <1>5, <1>2 DEF AdminRevokeSession
<1>6. ASSUME Tick PROVE Rest'
  BY <1>6, <1>2 DEF Tick
<1>7. ASSUME UNCHANGED vars PROVE Rest'
  BY <1>7, <1>2 DEF vars
<1> QED
  BY <1>0, <1>3, <1>4, <1>5, <1>6, <1>7 DEF Next

\* Initially nothing is connected, issued or registered.
LEMMA SessionInit == Init => SessionInv
BY DEF Init, SessionInv, TypeOK, ChallengesUnspent, CarriersSpent,
       ChallengeSingleUse, OneSessionPerDevice, RegistryMatchesSockets,
       NoSession

\* Whatever the clients, the timers and the admins do, the session invariant
\* of the server holds.
THEOREM SessionInvariant == Spec => []SessionInv
<1>1. SessionInv /\ [Next]_vars => SessionInv'
  BY SessionStep
<1> QED
  BY SessionInit, <1>1, PTL DEF Spec

\* One live session per device (SessionRegistry.create, docs/SOCKET_SECURITY
\* section 4): for any number of sockets racing to authenticate.
THEOREM OneSessionPerDeviceTheorem == Spec => []OneSessionPerDevice
<1>1. SessionInv => OneSessionPerDevice
  BY DEF SessionInv
<1> QED
  BY SessionInvariant, <1>1, PTL

\* No registered session outlives its socket: onDisconnect removes what the
\* socket carried, and nothing re-binds a session.
THEOREM RegistryTheorem == Spec => []RegistryMatchesSockets
<1>1. SessionInv => RegistryMatchesSockets
  BY DEF SessionInv
<1> QED
  BY SessionInvariant, <1>1, PTL

\* ChallengeStore.consume makes every challenge good for one session only.
THEOREM ChallengeTheorem == Spec => []ChallengeSingleUse
<1>1. SessionInv => ChallengeSingleUse
  BY DEF SessionInv
<1> QED
  BY SessionInvariant, <1>1, PTL

-----------------------------------------------------------------------------
\* If the directory never rejects, adminRevokeDevice leaves the revoked
\* device without a session.
THEOREM RevocationTheorem ==
    ASSUME ~DirectoryMayFail
    PROVE  Spec => []RevokedDeviceHasNoSession
<1> USE DEF RevokedDeviceHasNoSession, SessionsOf
<1>1. Init => RevokedDeviceHasNoSession
  BY DEF Init
<1>2. RevokedDeviceHasNoSession /\ TypeOK /\ [Next]_vars
        => RevokedDeviceHasNoSession'
  <2> SUFFICES ASSUME RevokedDeviceHasNoSession, TypeOK, [Next]_vars
               PROVE  RevokedDeviceHasNoSession'
    OBVIOUS
  <2>1. ASSUME UNCHANGED <<devices, revokeWait>>, sessions' \subseteq sessions
        PROVE  RevokedDeviceHasNoSession'
    BY <2>1
  <2>2. ASSUME NEW s \in Sockets, SocketNext(s)
        PROVE  RevokedDeviceHasNoSession'
    <3>1. ASSUME NEW d \in Devices, NEW id \in Sockets, AuthSuccess(s, d, id)
          PROVE  RevokedDeviceHasNoSession'
      BY <3>1 DEF AuthSuccess, DeviceActive, Create, NewSession
    <3>2. CASE GuardAccepts(s)
      BY <3>2 DEF GuardAccepts, EntryOf, TypeOK, Session
    <3>3. CASE TransportClose(s) \/ CloseTimer(s)
      BY <3>3, <2>1 DEF TransportClose, CloseTimer, Disconnect
    <3>4. CASE GuardRejects(s)
      BY <3>4, <2>1 DEF GuardRejects
    <3>5. CASE \/ Connect(s) \/ Refuse(s) \/ AuthRefused(s)
               \/ AuthIdentityRejected(s)
               \/ \E d \in Devices, id \in Sockets, ok \in BOOLEAN :
                      AuthProofRejected(s, d, id, ok)
      BY <3>5, <2>1 DEF Connect, Refuse, AuthRefused, AuthIdentityRejected,
           AuthProofRejected
    <3> QED
      BY <2>2, <3>1, <3>2, <3>3, <3>4, <3>5 DEF SocketNext
  <2>3. ASSUME NEW d \in Devices, AdminNext(d)
        PROVE  RevokedDeviceHasNoSession'
    <3>1. CASE AdminRegisterDevice(d)
      BY <3>1 DEF AdminRegisterDevice, TypeOK
    <3>2. CASE AdminRevokeDevice(d)
      BY <3>2 DEF AdminRevokeDevice, TypeOK
    <3>3. CASE AdminRevokeResume(d)
      BY <3>3 DEF AdminRevokeResume
    <3>4. CASE RevokeFlushTimer(d)
      BY <3>4, <2>1 DEF RevokeFlushTimer, Disconnect
    <3> QED
      BY <2>3, <3>1, <3>2, <3>3, <3>4 DEF AdminNext, AdminRevokeFails
  <2>4. ASSUME NEW e \in sessions, AdminRevokeSession(e)
        PROVE  RevokedDeviceHasNoSession'
    BY <2>4, <2>1 DEF AdminRevokeSession
  <2>5. CASE Tick
    BY <2>5, <2>1 DEF Tick
  <2>6. CASE UNCHANGED vars
    BY <2>6, <2>1 DEF vars
  <2> QED
    BY <2>2, <2>3, <2>4, <2>5, <2>6 DEF Next
<1>3. SessionInv => TypeOK
  BY DEF SessionInv
<1> QED
  BY <1>1, <1>2, <1>3, SessionInvariant, PTL DEF Spec

\* No step loses a session without a cause of that session's own: closing an
\* older socket of a device cannot remove the newer session it opened.
THEOREM SessionLossTheorem == Spec => SessionLossIsCaused
<1> DEFINE Caused(e) ==
      \/ conn'[e.socketKey] = "closed"
      \/ Expired(e)
      \/ \E f \in sessions' : f.deviceId = e.deviceId /\ f.sid = nextSid
      \/ AdminRevokeResume(e.deviceId)
      \/ AdminRevokeSession(e)
<1> DEFINE StepCaused == \A e \in sessions : LostSession(e) => Caused(e)
<1>1. SessionInv /\ [Next]_vars => [StepCaused]_vars
  <2> SUFFICES ASSUME SessionInv, Next, NEW e \in sessions, LostSession(e)
               PROVE  Caused(e)
    OBVIOUS
  <2>0. /\ e \in Session /\ e \notin sessions'
    BY DEF LostSession, SessionInv, TypeOK
  <2>1. ASSUME NEW S \in SUBSET Sockets, Disconnect(S) PROVE Caused(e)
    BY <2>0, <2>1 DEF Disconnect, DroppedBy, Session
  <2>2. ASSUME NEW s \in Sockets, SocketNext(s) PROVE Caused(e)
    <3>1. ASSUME NEW d \in Devices, NEW id \in Sockets, AuthSuccess(s, d, id)
          PROVE  Caused(e)
      <4>1. e.deviceId = d
        BY <2>0, <3>1 DEF AuthSuccess, Create, SessionsOf
      <4>2. NewSession(s, d) \in sessions'
        BY <3>1 DEF AuthSuccess, Create
      <4> QED
        BY <4>1, <4>2 DEF NewSession
    <3>2. CASE GuardAccepts(s)
      <4>1. PICK g \in EntryOf(data[s]) :
              sessions' = (sessions \ {g}) \union
                            {[g EXCEPT !.expiresAt = clock + SessionTtl]}
        BY <3>2 DEF GuardAccepts
      <4>2. g \in Session
        BY <4>1 DEF EntryOf, SessionInv, TypeOK
      <4>3. [g EXCEPT !.expiresAt = clock + SessionTtl].sid = g.sid
        BY <4>2 DEF Session
      <4> QED
        BY <2>0, <4>1, <4>3 DEF LostSession
    <3>3. CASE TransportClose(s) \/ CloseTimer(s)
      BY <3>3, <2>1 DEF TransportClose, CloseTimer
    <3>4. CASE GuardRejects(s)
      BY <3>4, <2>0 DEF GuardRejects
    <3>5. CASE \/ Connect(s) \/ Refuse(s) \/ AuthRefused(s)
               \/ AuthIdentityRejected(s)
               \/ \E d \in Devices, id \in Sockets, ok \in BOOLEAN :
                      AuthProofRejected(s, d, id, ok)
      BY <3>5, <2>0 DEF Connect, Refuse, AuthRefused, AuthIdentityRejected,
           AuthProofRejected
    <3> QED
      BY <2>2, <3>1, <3>2, <3>3, <3>4, <3>5 DEF SocketNext
  <2>3. ASSUME NEW d \in Devices, AdminNext(d) PROVE Caused(e)
    <3>1. CASE AdminRevokeResume(d)
      <4>1. e.deviceId = d
        BY <3>1, <2>0 DEF AdminRevokeResume, SessionsOf
      <4> QED
        BY <3>1, <4>1
    <3>2. CASE RevokeFlushTimer(d)
      BY <3>2, <2>1 DEF RevokeFlushTimer
    <3> QED
      BY <2>0, <2>3, <3>1, <3>2 DEF AdminNext, AdminRegisterDevice,
           AdminRevokeDevice, AdminRevokeFails
  <2>4. ASSUME NEW f \in sessions, AdminRevokeSession(f) PROVE Caused(e)
    BY <2>0, <2>4 DEF AdminRevokeSession
  <2>5. CASE Tick
    BY <2>0, <2>5 DEF Tick
  <2> QED
    BY <2>2, <2>3, <2>4, <2>5 DEF Next
<1> QED
  BY SessionInvariant, <1>1, PTL DEF Spec, SessionLossIsCaused
=============================================================================
