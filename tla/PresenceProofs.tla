--------------------------- MODULE PresenceProofs ---------------------------
(***************************************************************************)
(* Proofs about Presence for any sets of sockets and devices, any TTLs and *)
(* any number of presence updates in flight.                               *)
(***************************************************************************)
EXTENDS Presence, SessionLifecycleProofs, SequenceTheorems

\* What OfflineWhenGone lacks to be inductive: while the offline record of the
\* last socket is still in flight, it is the newest update.
OfflineInv ==
    (nextSid > 1 /\ LiveSockets = {} /\ ~overtaken) =>
        IF updates = <<>> THEN stored = "offline"
        ELSE updates[Len(updates)] = "offline"

-----------------------------------------------------------------------------
\* A step with presence is a step of the session lifecycle or none: presence
\* never writes to the registry, the sockets or the challenges.
LEMMA PresenceIsSession == [PresenceNext]_allVars => [Next]_vars
BY DEF PresenceNext, allVars, WithPresence, PresenceUpdate, SetPresence, Next,
       SocketNext

\* Everything proved of the session lifecycle holds with presence on top.
THEOREM PresenceSessions == PresenceSpec => []SessionInv
<1>1. PresenceInit => SessionInv
  BY SessionInit DEF PresenceInit
<1>2. SessionInv /\ [PresenceNext]_allVars => SessionInv'
  BY SessionStep, PresenceIsSession
<1> QED
  BY <1>1, <1>2, PTL DEF PresenceSpec

\* Committing the i-th of the updates in flight leaves the others, in order.
LEMMA Committed ==
    ASSUME updates \in Seq(Statuses), NEW i \in DOMAIN updates, SetPresence(i)
    PROVE  /\ updates[i] \in Statuses
           /\ updates' \in Seq(Statuses)
           /\ Len(updates') = Len(updates) - 1
           /\ i = 1 => \A j \in 1 .. Len(updates') : updates'[j] = updates[j + 1]
<1> DEFINE n == Len(updates)
<1> DEFINE front == SubSeq(updates, 1, i - 1)
<1> DEFINE back == SubSeq(updates, i + 1, n)
<1>1. /\ i \in 1 .. n /\ n \in Nat
      /\ updates' = front \o back
  BY DEF SetPresence, RemoveAt
<1>2. \A j \in 1 .. n : updates[j] \in Statuses
  BY ElementOfSeq
<1>3. front \in Seq(Statuses) /\ Len(front) = i - 1
  <2>1. \A j \in 1 .. i - 1 : updates[j] \in Statuses
    BY <1>1, <1>2
  <2> HIDE DEF Statuses
  <2> QED
    BY <1>1, <2>1, SubSeqProperties
<1>4. /\ back \in Seq(Statuses)
      /\ Len(back) = n - i
      /\ \A j \in 1 .. n - i : back[j] = updates[i + j]
  <2>1. /\ i + 1 \in Int /\ n \in Int
        /\ \A j \in i + 1 .. n : updates[j] \in Statuses
    BY <1>1, <1>2
  <2>2. /\ back \in Seq(Statuses)
        /\ Len(back) = IF i + 1 <= n THEN n - (i + 1) + 1 ELSE 0
        /\ \A j \in 1 .. n - (i + 1) + 1 : back[j] = updates[i + 1 + j - 1]
    BY <2>1, SubSeqProperties
  <2> HIDE DEF back
  <2>3. Len(back) = n - i
    BY <1>1, <2>2
  <2>4. ASSUME NEW j \in 1 .. n - i PROVE back[j] = updates[i + j]
    <3>1. j \in 1 .. n - (i + 1) + 1 /\ i + 1 + j - 1 = i + j
      BY <1>1
    <3> QED
      BY <2>2, <3>1
  <2> QED
    BY <2>2, <2>3, <2>4
<1> HIDE DEF front, back
<1>5. /\ updates' \in Seq(Statuses)
      /\ Len(updates') = Len(front) + Len(back)
      /\ \A j \in 1 .. Len(front) + Len(back) :
            updates'[j] = IF j <= Len(front) THEN front[j] ELSE back[j - Len(front)]
  BY <1>1, <1>3, <1>4, ConcatProperties
<1>6. Len(updates') = n - 1
  BY <1>1, <1>3, <1>4, <1>5
<1>7. ASSUME i = 1, NEW j \in 1 .. Len(updates')
      PROVE  updates'[j] = updates[j + 1]
  BY <1>1, <1>3, <1>4, <1>5, <1>6, <1>7
<1> QED
  BY <1>1, <1>2, <1>5, <1>6, <1>7

\* Session and presence variables keep their types: in particular only the
\* two statuses the handlers know are ever stored.
THEOREM PresenceTypes == PresenceSpec => []PresenceTypeOK
<1>1. PresenceInit => PresenceTypeOK
  <2> SUFFICES ASSUME PresenceInit PROVE PresenceTypeOK
    OBVIOUS
  <2>1. TypeOK
    BY SessionInit DEF PresenceInit, SessionInv
  <2>2. updates \in Seq(Statuses)
    BY EmptySeq DEF PresenceInit
  <2> QED
    BY <2>1, <2>2 DEF PresenceInit, PresenceTypeOK
<1>2. PresenceTypeOK /\ [PresenceNext]_allVars => PresenceTypeOK'
  <2> SUFFICES ASSUME PresenceTypeOK, [PresenceNext]_allVars
               PROVE  PresenceTypeOK'
    OBVIOUS
  <2> USE DEF PresenceTypeOK, Statuses
  <2>0. TypeOK'
    BY TypeStep, PresenceIsSession
  <2>1. CASE WithPresence(Next)
    BY <2>0, <2>1 DEF WithPresence
  <2>2. ASSUME NEW s \in Sockets, NEW status \in Statuses,
               PresenceUpdate(s, status)
        PROVE  PresenceTypeOK'
    BY <2>0, <2>2 DEF PresenceUpdate
  <2>3. ASSUME NEW i \in DOMAIN updates, SetPresence(i) PROVE PresenceTypeOK'
    BY <2>0, <2>3, Committed DEF SetPresence
  <2>4. CASE UNCHANGED allVars
    BY <2>0, <2>4 DEF allVars, presence
  <2> QED
    BY <2>1, <2>2, <2>3, <2>4 DEF PresenceNext
<1> QED
  BY <1>1, <1>2, PTL DEF PresenceSpec

-----------------------------------------------------------------------------
\* A socket enters the room of sessions only with a new session id.
LEMMA SessionIdIsCarried ==
    ASSUME TypeOK, [Next]_vars, nextSid' # nextSid
    PROVE  LiveSockets' # {}
<1>1. PICK s \in Sockets, d \in Devices, id \in Sockets : AuthSuccess(s, d, id)
  BY DEF Next, vars, SocketNext, AdminNext, Connect, Refuse, TransportClose,
     CloseTimer, AuthRefused, AuthIdentityRejected, AuthProofRejected,
     GuardRejects, GuardAccepts, AdminRegisterDevice, AdminRevokeDevice,
     AdminRevokeResume, AdminRevokeFails, RevokeFlushTimer,
     AdminRevokeSession, Tick, Disconnect
<1>2. data'[s] = nextSid
  BY <1>1 DEF AuthSuccess, TypeOK
<1> QED
  BY <1>2 DEF LiveSockets, TypeOK

\* An update is accepted only from a socket that carries its session.
LEMMA AcceptedIsCarried ==
    ASSUME TypeOK, NEW s \in Sockets, GuardAccepts(s)
    PROVE  LiveSockets # {} /\ LiveSockets' = LiveSockets
BY DEF GuardAccepts, EntryOf, TypeOK, Session, LiveSockets

\* The newest update of an account without sockets is the offline record, on
\* its way or committed.
LEMMA OfflineStep ==
    PresenceTypeOK /\ OfflineInv /\ [PresenceNext]_allVars => OfflineInv'
<1> SUFFICES ASSUME PresenceTypeOK, OfflineInv, [PresenceNext]_allVars,
                    nextSid' > 1, LiveSockets' = {}, ~overtaken'
             PROVE  IF updates' = <<>> THEN stored' = "offline"
                    ELSE updates'[Len(updates')] = "offline"
  BY DEF OfflineInv
<1> USE DEF PresenceTypeOK, Statuses
<1>0. nextSid' = nextSid
  BY SessionIdIsCarried, PresenceIsSession
<1>1. CASE WithPresence(Next)
  <2>1. CASE LiveSockets # {}
    BY <1>1, <2>1 DEF WithPresence, LastSocketGone
  <2>2. CASE LiveSockets = {}
    BY <1>0, <1>1, <2>2 DEF WithPresence, LastSocketGone, OfflineInv
  <2> QED
    BY <2>1, <2>2
<1>2. ASSUME NEW s \in Sockets, NEW status \in Statuses,
             PresenceUpdate(s, status)
      PROVE  FALSE
  BY <1>2, AcceptedIsCarried DEF PresenceUpdate
<1>3. ASSUME NEW i \in DOMAIN updates, SetPresence(i)
      PROVE  IF updates' = <<>> THEN stored' = "offline"
             ELSE updates'[Len(updates')] = "offline"
  <2>0. ~(overtaken \/ i > 1)
    BY <1>3 DEF SetPresence
  <2>1. /\ LiveSockets = {} /\ ~overtaken /\ i = 1
        /\ stored' = updates[1]
        /\ Len(updates) \in Nat \ {0}
    <3>1. LiveSockets = {}
      BY <1>3 DEF SetPresence, LiveSockets, vars
    <3>2. i \in 1 .. Len(updates)
      OBVIOUS
    <3>3. i = 1
      BY <2>0, <3>2
    <3> QED
      BY <1>3, <2>0, <3>1, <3>2, <3>3 DEF SetPresence
  <2>2. updates # <<>> /\ updates[Len(updates)] = "offline"
    BY <1>0, <2>1 DEF OfflineInv
  <2>3. CASE Len(updates) = 1
    <3>1. Len(updates') = 0 /\ updates' \in Seq(Statuses)
      BY <1>3, <2>3, Committed
    <3> QED
      BY <2>1, <2>2, <2>3, <3>1
  <2>4. CASE Len(updates) > 1
    <3>1. /\ Len(updates') = Len(updates) - 1
          /\ updates'[Len(updates')] = updates[Len(updates)]
      BY <1>3, <2>1, <2>4, Committed
    <3> QED
      BY <2>2, <2>4, <3>1
  <2>5. Len(updates) = 1 \/ Len(updates) > 1
    <3>1. Len(updates) \in Nat \ {0}
      BY <2>1
    <3>2. \A k \in Nat \ {0} : k = 1 \/ k > 1
      OBVIOUS
    <3> QED
      BY <3>1, <3>2
  <2> QED
    BY <2>3, <2>4, <2>5
<1>4. CASE UNCHANGED allVars
  BY <1>0, <1>4 DEF allVars, vars, presence, LiveSockets, OfflineInv
<1> QED
  BY <1>1, <1>2, <1>3, <1>4 DEF PresenceNext

\* onDisconnect publishes OFFLINE when the account's last socket is gone,
\* for any number of sockets, whatever ended their sessions first.
THEOREM OfflineTheorem == PresenceSpec => []OfflineWhenGone
<1>1. PresenceInit => OfflineInv
  BY DEF PresenceInit, Init, OfflineInv
<1>2. OfflineInv => OfflineWhenGone
  BY DEF OfflineInv, OfflineWhenGone
<1>3. PresenceTypeOK /\ OfflineInv /\ [PresenceNext]_allVars => OfflineInv'
  BY OfflineStep
<1> QED
  BY <1>1, <1>2, <1>3, PresenceTypes, PTL DEF PresenceSpec

-----------------------------------------------------------------------------
\* adminRevokeDevice leaves the device without a session, even if a handshake
\* raced the await of the directory, unless the directory refused.
THEOREM RevocationHoldsTheorem == PresenceSpec => []RevocationHolds
<1>1. PresenceInit => RevocationHolds
  BY DEF PresenceInit, Init, RevocationHolds
<1>2. TypeOK /\ RevocationHolds /\ [PresenceNext]_allVars => RevocationHolds'
  <2> SUFFICES ASSUME TypeOK, RevocationHolds, [PresenceNext]_allVars,
                      NEW d \in Devices, devices'[d] = "revoked",
                      d \notin revokeWait', d \notin leaked'
               PROVE  \A e \in sessions' : e.deviceId # d
    BY DEF RevocationHolds, SessionsOf
  \* A device that is no longer leaked was just revoked.
  <2>1. CASE AdminRevokeResume(d)
    BY <2>1 DEF AdminRevokeResume, SessionsOf
  <2>2. CASE ~AdminRevokeResume(d)
    <3>1. d \notin leaked /\ ~(WithPresence(Next) /\ AdminRevokeFails(d))
      BY <2>2 DEF PresenceNext, WithPresence, PresenceUpdate, SetPresence,
           allVars, presence
    \* Otherwise its revocation was complete before, and no session of it is
    \* created or brought back.
    <3>2. ASSUME devices[d] = "revoked", d \notin revokeWait
          PROVE  \A e \in sessions : e.deviceId # d
      BY <3>1, <3>2 DEF RevocationHolds, SessionsOf
    <3>3. ASSUME UNCHANGED <<devices, revokeWait>>,
                 \A e \in sessions' : \E f \in sessions : e.deviceId = f.deviceId
          PROVE  \A e \in sessions' : e.deviceId # d
      BY <3>2, <3>3
    <3>4. ASSUME NEW s \in Sockets, GuardAccepts(s)
          PROVE  \A e \in sessions' : e.deviceId # d
      BY <3>3, <3>4 DEF GuardAccepts, EntryOf, TypeOK, Session
    <3>5. ASSUME NEW s \in Sockets, SocketNext(s)
          PROVE  \A e \in sessions' : e.deviceId # d
      <4>1. ASSUME NEW c \in Devices, NEW id \in Sockets, AuthSuccess(s, c, id)
            PROVE  \A e \in sessions' : e.deviceId # d
        BY <3>2, <4>1 DEF AuthSuccess, DeviceActive, Create, NewSession
      <4>2. CASE \/ Connect(s) \/ Refuse(s) \/ AuthRefused(s)
                 \/ AuthIdentityRejected(s)
                 \/ TransportClose(s) \/ CloseTimer(s) \/ GuardRejects(s)
                 \/ \E c \in Devices, id \in Sockets, ok \in BOOLEAN :
                       AuthProofRejected(s, c, id, ok)
        BY <3>3, <4>2 DEF Connect, Refuse, AuthRefused, AuthIdentityRejected,
             AuthProofRejected, TransportClose, CloseTimer, GuardRejects,
             Disconnect
      <4> QED
        BY <3>4, <3>5, <4>1, <4>2 DEF SocketNext
    <3>6. ASSUME NEW c \in Devices, AdminNext(c), WithPresence(Next)
          PROVE  \A e \in sessions' : e.deviceId # d
      <4>1. CASE AdminRegisterDevice(c)
        BY <3>2, <4>1 DEF AdminRegisterDevice, TypeOK
      <4>2. CASE AdminRevokeDevice(c)
        BY <3>2, <4>2 DEF AdminRevokeDevice, TypeOK
      <4>3. CASE AdminRevokeResume(c)
        BY <2>2, <3>2, <4>3 DEF AdminRevokeResume
      <4>4. CASE AdminRevokeFails(c)
        BY <3>1, <3>2, <3>6, <4>4 DEF AdminRevokeFails
      <4>5. CASE RevokeFlushTimer(c)
        BY <3>3, <4>5 DEF RevokeFlushTimer, Disconnect
      <4> QED
        BY <3>6, <4>1, <4>2, <4>3, <4>4, <4>5 DEF AdminNext
    <3>7. ASSUME NEW e \in sessions, AdminRevokeSession(e)
          PROVE  \A f \in sessions' : f.deviceId # d
      BY <3>3, <3>7 DEF AdminRevokeSession
    <3>8. CASE Tick
      BY <3>3, <3>8 DEF Tick
    <3>9. CASE UNCHANGED vars
      BY <3>3, <3>9 DEF vars
    <3>10. \/ WithPresence(Next) /\ Next
           \/ \E s \in Sockets : GuardAccepts(s)
           \/ UNCHANGED vars
      BY DEF PresenceNext, WithPresence, PresenceUpdate, SetPresence, allVars
    <3> QED
      BY <3>4, <3>5, <3>6, <3>7, <3>8, <3>9, <3>10 DEF Next
  <2> QED
    BY <2>1, <2>2
<1>3. SessionInv => TypeOK
  BY DEF SessionInv
<1> QED
  BY <1>1, <1>2, <1>3, PresenceSessions, PTL DEF PresenceSpec
=============================================================================
