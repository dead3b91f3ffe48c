--------------------------- MODULE ExactlyOnceLog ---------------------------
(***************************************************************************)
(* What the message handlers promise to the members of a conversation,     *)
(* without handlers, store calls, dedup window, retries or crashes: a      *)
(* message is stored once under its key with a sequence of its own, enters *)
(* the log once, is announced live at most once and only from the log, and *)
(* nothing of this is ever taken back.  MessagePipeline implements it over *)
(* the Supabase store.                                                     *)
(***************************************************************************)
VARIABLES
    stored,  \* messages that have their sequence for good: records with
             \* (at least) the fields key, conv and seq
    log,     \* messages a sync can replay
    acked,   \* messages whose sender was given that sequence
    heard    \* messages announced live to the conversation

vars == <<stored, log, acked, heard>>

Init == stored = {} /\ log = {} /\ acked = {} /\ heard = {}

Fresh(m) ==
    \A n \in stored : n.key # m.key /\ (n.conv = m.conv => n.seq # m.seq)

Store(m) ==
    /\ Fresh(m)
    /\ stored' = stored \union {m}
    /\ UNCHANGED <<log, acked, heard>>

Log(m) ==
    /\ m \in stored \ log
    /\ log' = log \union {m}
    /\ UNCHANGED <<stored, acked, heard>>

\* The first ack goes out together with the live event.
Announce(m) ==
    /\ m \in log \ heard
    /\ acked' = acked \union {m}
    /\ heard' = heard \union {m}
    /\ UNCHANGED <<stored, log>>

\* The answer to a retry.
Confirm(m) ==
    /\ m \in stored
    /\ acked' = acked \union {m}
    /\ UNCHANGED <<stored, log, heard>>

\* Which messages clients send is left open: any fresh one may be stored.
Next ==
    \/ \E m \in stored' : Store(m)
    \/ \E m \in stored : Log(m) \/ Announce(m) \/ Confirm(m)

Spec == Init /\ [][Next]_vars
=============================================================================
