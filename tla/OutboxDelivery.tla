--------------------------- MODULE OutboxDelivery ---------------------------
(***************************************************************************)
(* The sending half of the Dart messaging engine: MessageSendService over  *)
(* the SQLite table of OutboxStore, for the messages of one conversation.  *)
(*                                                                         *)
(* Every SQL statement is awaited, so an action is one statement with the  *)
(* synchronous code that follows it; flush, receipts, acks, cancellation   *)
(* and a second flush interleave between statements.  A crash of the app   *)
(* stops every call in progress and keeps the table.                       *)
(*                                                                         *)
(* The clock is abstracted to what the statements compare it with: whether *)
(* next_attempt_at_ms has passed, whether max age has passed, and which of *)
(* two rows was enqueued first.                                            *)
(***************************************************************************)
EXTENDS Integers, FiniteSets

CONSTANTS
    Messages,       \* logical message ids
    Devices,        \* recipient devices
    Malformed,      \* messages that validateOutgoing refuses
    Flushers,       \* concurrent invocations of flush
    MaxAttempts,    \* OutboxStore.maxAttempts
    FlushLimit,     \* limit of dueEntries
    MaxSends,       \* bound on calls of send
    MaxCrashes,     \* bound on crashes of the app
    MaxInFlight     \* bound on unanswered copies of one envelope

ASSUME AttemptsAssumption == MaxAttempts \in Nat \ {0}
ASSUME LimitAssumption == FlushLimit \in Nat \ {0}
ASSUME BoundsAssumption ==
    MaxSends \in Nat /\ MaxCrashes \in Nat /\ MaxInFlight \in Nat

VARIABLES
    table,      \* msg_outbox: (message, device) -> row
    queueing,   \* message -> devices that its send has yet to enqueue
    calls,      \* calls of send so far; stands for the clock at enqueue
    fpc,        \* flusher -> the statement it is about to run
    batch,      \* flusher -> snapshot of dueEntries not yet handled
    current,    \* flusher -> the entry being handled
    seen,       \* flusher -> attempts read by markAttempt
    writes,     \* updates that calls of markState have still to write
    online,     \* MessageTransport.isAuthenticated
    inFlight,   \* (message, device) -> acks on their way over this connection
    stored,     \* pairs the server has stored
    reached,    \* (message, device) -> what the recipient device has done
    sent,       \* history: (message, device) -> envelopes written to the socket
    enqueued,   \* history: (message, device) pairs ever inserted
    acked,      \* history: pairs for which an ack was applied
    cancelled,  \* history: pairs whose row a cancellation deleted
    pruned,     \* history: pairs whose row pruneAcked deleted
    crashes     \* crashes so far

flushing == <<fpc, batch, current, seen>>
network == <<online, inFlight, stored, reached>>
history == <<sent, enqueued, acked, cancelled, pruned>>
vars == <<table, queueing, calls, flushing, writes, network, history, crashes>>

Pairs == Messages \X Devices

States == {"queued", "sending", "sent", "delivered", "read", "failed"}

NoRow == [state |-> "none", attempts |-> 0, due |-> FALSE, stale |-> FALSE,
          acked |-> FALSE, enq |-> 0]

OutboxRows == [state : States \union {"none"}, attempts : Nat, due : BOOLEAN,
               stale : BOOLEAN, acked : BOOLEAN, enq : Nat]

Present(p) == table[p].state # "none"
PendingStates == {"queued", "sending"}
Pending(p) == table[p].state \in PendingStates

\* DeliveryState.rank.
Rank == [queued |-> 0, sending |-> 1, sent |-> 2, delivered |-> 3, read |-> 4,
         failed |-> -1]

\* DeliveryStateMachine.apply: forward only, and failed yields to whatever
\* the network confirms later.
ApplyState(old, new) ==
    CASE new = "failed" ->
           IF Rank[old] >= Rank["delivered"] THEN old ELSE "failed"
      [] new # "failed" /\ old = "failed" ->
           IF Rank[new] >= Rank["sent"] THEN new ELSE old
      [] OTHER -> IF Rank[new] > Rank[old] THEN new ELSE old

Entries == Pairs \X Nat
NoEntry == <<>>

-----------------------------------------------------------------------------
Init ==
    /\ table = [p \in Pairs |-> NoRow]
    /\ queueing = [m \in Messages |-> {}]
    /\ calls = 0
    /\ fpc = [f \in Flushers |-> "idle"]
    /\ batch = [f \in Flushers |-> {}]
    /\ current = [f \in Flushers |-> NoEntry]
    /\ seen = [f \in Flushers |-> 0]
    /\ writes = {}
    /\ online = FALSE
    /\ inFlight = [p \in Pairs |-> 0]
    /\ stored = {}
    /\ reached = [p \in Pairs |-> "none"]
    /\ sent = [p \in Pairs |-> 0]
    /\ enqueued = {}
    /\ acked = {}
    /\ cancelled = {}
    /\ pruned = {}
    /\ crashes = 0

-----------------------------------------------------------------------------
(* send: the durability point *)

\* The peer is not blocked and the devices in T have a ratchet session.  The
\* refusals (BLOCKED, NO_ACTIVE_RECIPIENT_DEVICE, NO_SESSION) change nothing.
Send(m, T) ==
    /\ queueing[m] = {}
    /\ calls < MaxSends
    /\ queueing' = [queueing EXCEPT ![m] = T]
    /\ calls' = calls + 1
    /\ UNCHANGED <<table, flushing, writes, network, history, crashes>>

FreshRow ==
    [state |-> "queued", attempts |-> 0, due |-> TRUE, stale |-> FALSE,
     acked |-> FALSE, enq |-> calls]

\* Mutant: ConflictAlgorithm.replace.
InsertReplacing(p) == FreshRow

\* ConflictAlgorithm.ignore on (message_id, recipient_device_id).
Inserted(p) == IF Present(p) THEN table[p] ELSE FreshRow

\* One step of enqueueAll.
Enqueue(m, d) ==
    /\ d \in queueing[m]
    /\ queueing' = [queueing EXCEPT ![m] = @ \ {d}]
    /\ table' = [table EXCEPT ![<<m, d>>] = Inserted(<<m, d>>)]
    /\ enqueued' = enqueued \union {<<m, d>>}
    /\ UNCHANGED <<calls, flushing, writes, network, sent, acked, cancelled,
                   pruned, crashes>>

-----------------------------------------------------------------------------
(* flush: called by send, on reconnect and by a timer *)

\* dueEntries begins with _expireStale.
FlushStart(f) ==
    /\ fpc[f] = "idle"
    /\ online
    /\ fpc' = [fpc EXCEPT ![f] = "query"]
    /\ table' = [p \in Pairs |->
                   IF Pending(p) /\ table[p].stale
                   THEN [table[p] EXCEPT !.state = "failed"] ELSE table[p]]
    /\ UNCHANGED <<queueing, calls, batch, current, seen, writes, network,
                   history, crashes>>

\* Mutant: only queued rows are due, as if sending rows were put back at start.
QueuedPairs == {p \in Pairs : table[p].state = "queued" /\ table[p].due}

DuePairs == {p \in Pairs : Pending(p) /\ table[p].due}

Entry(p) == <<p, table[p].enq>>

\* The oldest entries first, at most FlushLimit of them.
IsDuePage(S) ==
    /\ S \subseteq DuePairs
    /\ Cardinality(S) <= FlushLimit
    /\ \A p \in DuePairs \ S :
          /\ Cardinality(S) = FlushLimit
          /\ \A q \in S : table[q].enq <= table[p].enq

QueryDue(f) ==
    /\ fpc[f] = "query"
    /\ \E S \in SUBSET DuePairs :
          /\ IsDuePage(S)
          /\ batch' = [batch EXCEPT ![f] = {Entry(p) : p \in S}]
          /\ fpc' = [fpc EXCEPT ![f] = IF S = {} THEN "idle" ELSE "read"]
    /\ UNCHANGED <<table, queueing, calls, current, seen, writes, network,
                   history, crashes>>

\* markAttempt, first statement: a row that is gone is not updated, and the
\* envelope of the snapshot is transmitted all the same.
ReadAttempts(f) ==
    /\ fpc[f] = "read"
    /\ \E e \in batch[f] :
          /\ \A o \in batch[f] : e[2] <= o[2]
          /\ current' = [current EXCEPT ![f] = e]
          /\ batch' = [batch EXCEPT ![f] = @ \ {e}]
          /\ IF Present(e[1])
             THEN /\ seen' = [seen EXCEPT ![f] = table[e[1]].attempts]
                  /\ fpc' = [fpc EXCEPT ![f] = "write"]
             ELSE /\ UNCHANGED seen
                  /\ fpc' = [fpc EXCEPT ![f] = "emit"]
    /\ UNCHANGED <<table, queueing, calls, writes, network, history, crashes>>

\* Mutant: the attempt that reaches the cap is scheduled like any other.
AttemptedNoCap(row, n) ==
    [row EXCEPT !.attempts = MaxAttempts - 1, !.state = "sending", !.due = FALSE]

\* What markAttempt writes over a row when it counts attempt n.
Attempted(row, n) ==
    IF n >= MaxAttempts
    THEN [row EXCEPT !.attempts = n, !.state = "failed"]
    ELSE [row EXCEPT !.attempts = n, !.state = "sending", !.due = FALSE]

AfterAttempt(p, n) == IF Present(p) THEN Attempted(table[p], n) ELSE NoRow

\* markAttempt, second statement, computed from the value read before.
WriteAttempt(f) ==
    LET p == current[f][1]
    IN  /\ fpc[f] = "write"
        /\ table' = [table EXCEPT ![p] = AfterAttempt(p, seen[f] + 1)]
        /\ fpc' = [fpc EXCEPT ![f] = "emit"]
        /\ seen' = [seen EXCEPT ![f] = 0]
        /\ UNCHANGED <<queueing, calls, batch, current, writes, network,
                       history, crashes>>

\* The for loop of flush goes on.
NextEntry(f) ==
    /\ fpc' = [fpc EXCEPT ![f] = IF batch[f] = {} THEN "idle" ELSE "read"]
    /\ current' = [current EXCEPT ![f] = NoEntry]

\* validateOutgoing refuses the envelope: markPermanentFailure.
FailPermanently(f) ==
    LET p == current[f][1]
    IN  /\ fpc[f] = "emit"
        /\ p[1] \in Malformed
        /\ table' = IF Present(p) THEN [table EXCEPT ![p].state = "failed"]
                    ELSE table
        /\ NextEntry(f)
        /\ UNCHANGED <<queueing, calls, batch, seen, writes, network, history,
                       crashes>>

\* sendEnvelope: written when the transport is up.  The server stores it, or
\* refuses it (rate limit), or the connection breaks under it; the result is
\* only counted.
SendEnvelope(f) ==
    LET p == current[f][1]
    IN  /\ fpc[f] = "emit"
        /\ p[1] \notin Malformed
        /\ sent' = IF online THEN [sent EXCEPT ![p] = @ + 1] ELSE sent
        /\ \/ UNCHANGED <<inFlight, stored>>
           \/ /\ online
              /\ inFlight[p] < MaxInFlight
              /\ inFlight' = [inFlight EXCEPT ![p] = @ + 1]
              /\ stored' = stored \union {p}
        /\ NextEntry(f)
        /\ UNCHANGED <<table, queueing, calls, batch, seen, writes, online,
                       reached, enqueued, acked, cancelled, pruned, crashes>>

-----------------------------------------------------------------------------
(* Acks and receipts *)

\* markAcked: one unconditional UPDATE.
OnAck(p) ==
    /\ inFlight[p] > 0
    /\ inFlight' = [inFlight EXCEPT ![p] = @ - 1]
    /\ acked' = acked \union {p}
    /\ table' = IF Present(p)
                THEN [table EXCEPT ![p].state = "sent", ![p].acked = TRUE]
                ELSE table
    /\ UNCHANGED <<queueing, calls, flushing, writes, online, stored, reached,
                   sent, enqueued, cancelled, pruned, crashes>>

\* The server stored the envelope and the recipient device confirms it.
RecipientConfirms(p) ==
    /\ \/ /\ reached[p] = "none"
          /\ p \in stored
          /\ reached' = [reached EXCEPT ![p] = "delivered"]
       \/ /\ reached[p] = "delivered"
          /\ reached' = [reached EXCEPT ![p] = "read"]
    /\ UNCHANGED <<table, queueing, calls, flushing, writes, online, inFlight,
                   stored, history, crashes>>

Receipts(p) ==
    CASE reached[p] = "none" -> {}
      [] reached[p] = "delivered" -> {"delivered"}
      [] reached[p] = "read" -> {"delivered", "read"}

\* markState, first statement: the state to write is computed here.  A receipt
\* comes live and again by sync, so it may come any number of times.
OnReceipt(p, s) ==
    /\ s \in Receipts(p)
    /\ Present(p)
    /\ writes' = writes \union
         {[pair |-> p, state |-> ApplyState(table[p].state, s)]}
    /\ UNCHANGED <<table, queueing, calls, flushing, network, history, crashes>>

\* markState, second statement.
WriteReceipt(w) ==
    /\ writes' = writes \ {w}
    /\ table' = IF Present(w.pair)
                THEN [table EXCEPT ![w.pair].state = w.state] ELSE table
    /\ UNCHANGED <<queueing, calls, flushing, network, history, crashes>>

-----------------------------------------------------------------------------
(* The user, time and failures *)

Cancellable(m) == {p \in Pairs : p[1] = m /\ Pending(p)}

Deleted(S) == [p \in Pairs |-> IF p \in S THEN NoRow ELSE table[p]]

Cancel(m) ==
    /\ Cancellable(m) # {}
    /\ table' = Deleted(Cancellable(m))
    /\ cancelled' = cancelled \union Cancellable(m)
    /\ UNCHANGED <<queueing, calls, flushing, writes, network, sent, enqueued,
                   acked, pruned, crashes>>

\* Mutant: pruneAcked forgets the acked_at_ms condition and the state filter.
PrunableAny == {p \in Pairs : Present(p) /\ ~Pending(p)}

Prunable ==
    {p \in Pairs : /\ table[p].state \in {"sent", "delivered", "read"}
                   /\ table[p].acked}

\* pruneAcked deletes the rows acked before the cutoff.
PruneAcked(S) ==
    /\ S \subseteq Prunable
    /\ S # {}
    /\ table' = Deleted(S)
    /\ pruned' = pruned \union S
    /\ UNCHANGED <<queueing, calls, flushing, writes, network, sent, enqueued,
                   acked, cancelled, crashes>>

BackoffElapses(p) ==
    /\ Present(p)
    /\ ~table[p].due
    /\ table' = [table EXCEPT ![p].due = TRUE]
    /\ UNCHANGED <<queueing, calls, flushing, writes, network, history, crashes>>

MaxAgePasses(p) ==
    /\ Present(p)
    /\ ~table[p].stale
    /\ table' = [table EXCEPT ![p].stale = TRUE]
    /\ UNCHANGED <<queueing, calls, flushing, writes, network, history, crashes>>

GoOnline ==
    /\ ~online
    /\ online' = TRUE
    /\ UNCHANGED <<table, queueing, calls, flushing, writes, inFlight, stored,
                   reached, history, crashes>>

\* Acks on the old connection are lost with it.
GoOffline ==
    /\ online
    /\ online' = FALSE
    /\ inFlight' = [p \in Pairs |-> 0]
    /\ UNCHANGED <<table, queueing, calls, flushing, writes, stored, reached,
                   history, crashes>>

Crash ==
    /\ crashes < MaxCrashes
    /\ crashes' = crashes + 1
    /\ queueing' = [m \in Messages |-> {}]
    /\ fpc' = [f \in Flushers |-> "idle"]
    /\ batch' = [f \in Flushers |-> {}]
    /\ current' = [f \in Flushers |-> NoEntry]
    /\ seen' = [f \in Flushers |-> 0]
    /\ writes' = {}
    /\ online' = FALSE
    /\ inFlight' = [p \in Pairs |-> 0]
    /\ UNCHANGED <<table, calls, stored, reached, history>>

-----------------------------------------------------------------------------
FlushStep(f) ==
    \/ QueryDue(f) \/ ReadAttempts(f) \/ WriteAttempt(f)
    \/ FailPermanently(f) \/ SendEnvelope(f)

Next ==
    \/ \E m \in Messages :
          \/ \E T \in SUBSET Devices \ {{}} : Send(m, T)
          \/ \E d \in Devices : Enqueue(m, d)
          \/ Cancel(m)
    \/ \E f \in Flushers : FlushStart(f) \/ FlushStep(f)
    \/ \E p \in Pairs :
          \/ OnAck(p) \/ RecipientConfirms(p)
          \/ \E s \in {"delivered", "read"} : OnReceipt(p, s)
          \/ BackoffElapses(p) \/ MaxAgePasses(p)
    \/ \E w \in writes : WriteReceipt(w)
    \/ \E S \in SUBSET Pairs : PruneAcked(S)
    \/ GoOnline \/ GoOffline
    \/ Crash

Spec == Init /\ [][Next]_vars

\* The connection comes back, flush keeps being called while it is up, the
\* database answers and backoffs run out.
Fairness ==
    /\ WF_vars(GoOnline)
    /\ \A f \in Flushers : SF_vars(FlushStart(f)) /\ WF_vars(FlushStep(f))
    /\ \A p \in Pairs : WF_vars(BackoffElapses(p))

FairSpec == Spec /\ Fairness

-----------------------------------------------------------------------------
(* Properties *)

\* Every variable of the engine stays within its type.
TypeOK ==
    /\ table \in [Pairs -> OutboxRows]
    /\ queueing \in [Messages -> SUBSET Devices]
    /\ calls \in Nat
    /\ fpc \in [Flushers -> {"idle", "query", "read", "write", "emit"}]
    /\ batch \in [Flushers -> SUBSET Entries]
    /\ current \in [Flushers -> Entries \union {NoEntry}]
    /\ seen \in [Flushers -> Nat]
    /\ writes \subseteq [pair : Pairs, state : States]
    /\ online \in BOOLEAN
    /\ inFlight \in [Pairs -> Nat]
    /\ stored \subseteq Pairs
    /\ reached \in [Pairs -> {"none", "delivered", "read"}]
    /\ sent \in [Pairs -> Nat]
    /\ enqueued \subseteq Pairs
    /\ acked \subseteq Pairs
    /\ cancelled \subseteq Pairs
    /\ pruned \subseteq Pairs
    /\ crashes \in Nat

\* A message that reached the outbox is in it until the user cancels it or the
\* server has acknowledged it, whatever crashes, failures and expiries happen.
NothingLost ==
    \A p \in enqueued : Present(p) \/ p \in cancelled \/ p \in acked

\* No envelope is written to the socket more than MaxAttempts times, and never
\* more often than the table remembers after a crash.
TransmissionsCapped ==
    \A p \in Pairs \ (cancelled \union pruned) :
        /\ sent[p] <= table[p].attempts
        /\ sent[p] <= MaxAttempts

\* The hard cap on attempts, whoever calls flush.
AttemptCap ==
    \A p \in Pairs \ (cancelled \union pruned) : sent[p] <= MaxAttempts

\* A failed row is never retried; only the network's own confirmation, an ack
\* or a receipt, moves it on.
FailedStaysFailed ==
    [][\A p \in Pairs :
          table[p].state = "failed" => table'[p].state \notin PendingStates]_vars

\* Every row stops being retried: it is confirmed, failed or cancelled.
PendingResolves == \A p \in Pairs : Pending(p) ~> ~Pending(p)
=============================================================================
