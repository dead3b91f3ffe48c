------------------------------ MODULE Presence ------------------------------
(***************************************************************************)
(* Presence on top of the session lifecycle: the presence.update handler   *)
(* and the OFFLINE record that onDisconnect writes when the last socket of *)
(* the account closes, over SupabaseRealtimeStore.  All Devices belong to  *)
(* one account; its privacy audience is told of every change.              *)
(*                                                                         *)
(* Both handlers await setPresence: two updates in flight may be committed *)
(* in either order.  The audience lookup and the presence.changed packets  *)
(* that follow change no state of the server and are left out.             *)
(***************************************************************************)
EXTENDS SessionLifecycle, Sequences, SequencesExt

CONSTANT MaxPending   \* bound: updates in flight when a client sends one

ASSUME PendingAssumption == MaxPending \in Nat

VARIABLES
    stored,     \* realtime_presence.status of the account, or "none"
    updates,    \* statuses of the updates in flight, oldest first
    overtaken,  \* history: an update was committed before an older one
    leaked      \* history: devices whose last revocation the directory refused

presence == <<stored, updates, overtaken>>
allVars == <<vars, presence, leaked>>

Statuses == {"online", "offline"}

-----------------------------------------------------------------------------
PresenceInit ==
    /\ Init
    /\ stored = "none"
    /\ updates = <<>>
    /\ overtaken = FALSE
    /\ leaked = {}

\* accountHasLiveSocket: a socket that still carries a session, also one the
\* registry has already evicted, expired or revoked.
LiveSockets == {s \in Sockets : data[s] # NoSession}

\* Mutant: offline is published only by a socket the registry still knows.
LastSocketGoneOwner ==
    LiveSockets # {} /\ LiveSockets' = {} /\ sessions' # sessions

\* onDisconnect clears the socket's session first and then looks for others.
LastSocketGone == LiveSockets # {} /\ LiveSockets' = {}

\* What a step of the session lifecycle means for presence.
WithPresence(step) ==
    /\ step
    /\ updates' = IF LastSocketGone THEN Append(updates, "offline") ELSE updates
    /\ leaked' = {d \in Devices : \/ AdminRevokeFails(d)
                                  \/ d \in leaked /\ ~AdminRevokeResume(d)}
    /\ UNCHANGED <<stored, overtaken>>

\* presence.update behind the session guard; one that is rate limited or
\* malformed only renews the session.
PresenceUpdate(s, status) ==
    /\ Len(updates) < MaxPending
    /\ GuardAccepts(s)
    /\ updates' = Append(updates, status)
    /\ UNCHANGED <<stored, overtaken, leaked>>

\* The upsert of the i-th update is committed.
SetPresence(i) ==
    /\ stored' = updates[i]
    /\ updates' = RemoveAt(updates, i)
    /\ overtaken' = (overtaken \/ i > 1)
    /\ UNCHANGED <<vars, leaked>>

PresenceNext ==
    \/ WithPresence(Next)
    \/ \E s \in Sockets, status \in Statuses : PresenceUpdate(s, status)
    \/ \E i \in DOMAIN updates : SetPresence(i)

\* The timers and the directory calls are fair as in SessionLifecycle.
PresenceSpec == PresenceInit /\ [][PresenceNext]_allVars /\ Fairness

-----------------------------------------------------------------------------
(* Properties *)

\* The session variables and the presence variables stay within their types.
PresenceTypeOK ==
    /\ TypeOK
    /\ stored \in Statuses \union {"none"}
    /\ updates \in Seq(Statuses)
    /\ overtaken \in BOOLEAN
    /\ leaked \subseteq Devices

\* A completed revocation leaves the device without a session until it is
\* registered again, whatever handshakes raced its await, unless the
\* directory refused it.
RevocationHolds ==
    \A d \in Devices :
        devices[d] = "revoked" /\ d \notin revokeWait \union leaked
          => SessionsOf(d) = {}

\* When an account that was connected has no socket left and its updates were
\* committed in order, it is stored as offline: whatever evictions, expiries,
\* reconnects and revocations took its sockets away, and in whichever order.
OfflineWhenGone ==
    (nextSid > 1 /\ LiveSockets = {} /\ updates = <<>> /\ ~overtaken)
      => stored = "offline"
=============================================================================
