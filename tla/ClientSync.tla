----------------------------- MODULE ClientSync -----------------------------
(***************************************************************************)
(* The receiving side of the app, for one conversation and one device:     *)
(* MessageReceiveService and MessageSyncService over InboxStore,           *)
(* SyncCursorStore and the receiving ratchet session.                      *)
(*                                                                         *)
(* onMessageNew, syncAll / syncConversation and resumePending are async:   *)
(* every SQL statement, ratchet save and network call is an await at which *)
(* other calls run.  A worker is one such call in progress and an action   *)
(* is one statement with the code up to the next await.                    *)
(*                                                                         *)
(* The server is a log of events, in log_seq order, that sync.request      *)
(* pages through; it sends a live message.new only to the device the copy  *)
(* is addressed to, but replays every copy of the conversation.            *)
(***************************************************************************)
EXTENDS Integers, Sequences, FiniteSets

CONSTANTS
    Messages,    \* logical message ids
    Devices,     \* recipient devices
    Local,       \* this device
    Copies,      \* the <<message, device>> copies senders may produce
    Expiring,    \* disappearing messages
    Workers,     \* calls that may be in progress at once
    PageLimit,   \* config.syncPageLimit of the server
    ResumeLimit, \* limit of InboxStore.pendingProcessing
    MaxLog,      \* bound: length of the event log
    MaxFaults    \* bound: crashes of the app plus calls of resetCursor

ASSUME DeviceAssumption == Local \in Devices
ASSUME CopiesAssumption == Copies \subseteq Messages \X Devices
ASSUME ExpiringAssumption == Expiring \subseteq Messages
ASSUME LimitAssumption == PageLimit \in Nat \ {0} /\ ResumeLimit \in Nat \ {0}
ASSUME BoundAssumption == MaxLog \in Nat /\ MaxFaults \in Nat

VARIABLES
    log,      \* server: the events of the conversation; log_seq is the index
    online,   \* the socket is authenticated
    live,     \* log_seqs of the live events in flight on the socket
    inbox,    \* msg_inbox: message -> row, NoRow when absent
    cursor,   \* msg_sync_cursor: last log_seq and server_seq
    session,  \* is there a ratchet session with the sender?
    ratchet,  \* messages whose key the RatchetState in memory has used
    saved,    \* the same, as last persisted
    work,     \* worker -> the call it runs, see Calls
    receipts, \* history: messages whose DELIVERED receipt was emitted
    applied,  \* history: message -> number of times it was applied
    jumped,   \* history: log_seqs a live message moved the cursor over
    seen,     \* history: log_seqs handed to the inbox, or passed over by a sync
    faults    \* crashes and calls of resetCursor so far

server == <<log, online, live>>
durable == <<inbox, cursor, saved>>
history == <<receipts, applied, jumped, seen>>
vars == <<server, durable, session, ratchet, work, history, faults>>

\* What the log holds: a copy of a message for one device, an event that sync
\* passes over (a receipt, or a message of a blocked sender), or an envelope
\* this client cannot parse.
Events == [kind : {"message"}, copy : Copies]
            \union {[kind |-> "passed"], [kind |-> "malformed"]}

NoRow == [logSeq |-> 0, processed |-> FALSE, deliveredSent |-> FALSE,
          decryptFailed |-> FALSE]

LogSeqs == 1 .. Len(log)

Cursors == [log : LogSeqs \union {0}, server : Nat]

ZeroCursor == [log |-> 0, server |-> 0]

Labels == {"idle", "accept", "deliver", "markDelivered", "decrypt", "persist",
           "markProcessed", "markFailed", "readCursor", "writeCursor",
           "request", "next", "readFinal", "writeFinal"}

\* A call in progress: where it is, what it is, the envelope it ingests, the
\* page or rows still to do, lastAppliedLogSeq, and the cursor as last read.
Calls == [pc : Labels, kind : {"live", "sync", "resume"},
          cur : LogSeqs \union {0}, todo : SUBSET LogSeqs,
          high : LogSeqs \union {0}, base : Cursors]

Idle == [pc |-> "idle", kind |-> "live", cur |-> 0, todo |-> {}, high |-> 0,
         base |-> ZeroCursor]

IsMessage(n) == log[n].kind = "message"

\* Own copies of messages.
Own(n) == IsMessage(n) /\ log[n].copy[2] = Local

\* server_seq counts the messages of the conversation.
ServerSeq(n) == Cardinality({k \in 1 .. n : IsMessage(k)})

Id(w) == log[work[w].cur].copy[1]

\* The inbox has a row for the message.
Present(m) == inbox[m].logSeq # 0

-----------------------------------------------------------------------------
Init ==
    /\ log = <<>>
    /\ online = FALSE
    /\ live = <<>>
    /\ inbox = [m \in Messages |-> NoRow]
    /\ cursor = ZeroCursor
    /\ session = FALSE
    /\ ratchet = {}
    /\ saved = {}
    /\ work = [w \in Workers |-> Idle]
    /\ receipts = {}
    /\ applied = [m \in Messages |-> 0]
    /\ jumped = {}
    /\ seen = {}
    /\ faults = 0

Run(w, call) == work' = [work EXCEPT ![w] = call]

Goto(w, label) == Run(w, [work[w] EXCEPT !.pc = label])

At(w, label) == work[w].pc = label

-----------------------------------------------------------------------------
(* The server and the network *)

\* The server logs a copy of a message at most once, and fans it out to the
\* addressed device if it is connected.
ServerLogs(e) ==
    /\ Len(log) < MaxLog
    /\ e.kind = "message" => \A n \in LogSeqs : log[n] # e
    /\ log' = Append(log, e)
    /\ live' = IF online /\ e.kind = "message" /\ e.copy[2] = Local
               THEN Append(live, Len(log) + 1) ELSE live
    /\ UNCHANGED <<online, durable, session, ratchet, work, history, faults>>

GoOnline ==
    /\ ~online
    /\ online' = TRUE
    /\ UNCHANGED <<log, live, durable, session, ratchet, work, history, faults>>

\* What is in flight on the socket is lost with it.
GoOffline ==
    /\ online
    /\ online' = FALSE
    /\ live' = <<>>
    /\ UNCHANGED <<log, durable, session, ratchet, work, history, faults>>

\* X3DH with the sender's device completes.
SessionEstablished ==
    /\ ~session
    /\ session' = TRUE
    /\ UNCHANGED <<server, durable, ratchet, work, history, faults>>

-----------------------------------------------------------------------------
(* MessageReceiveService.ingest *)

\* onMessageNew for the next live packet.
LiveEvent(w) ==
    /\ At(w, "idle")
    /\ live # <<>>
    /\ live' = Tail(live)
    /\ Run(w, [Idle EXCEPT !.pc = "accept", !.kind = "live", !.cur = Head(live)])
    /\ UNCHANGED <<log, online, durable, session, ratchet, history, faults>>

\* What remains of the call when ingest returns: nothing of a live one; a sync
\* counts the event as done, applied or not, and goes on; so does a resume.
Returned(w) ==
    CASE work[w].kind = "live" -> Idle
      [] work[w].kind = "sync" ->
           [work[w] EXCEPT !.pc = "next", !.high = work[w].cur, !.cur = 0,
                           !.base = ZeroCursor]
      [] work[w].kind = "resume" -> [work[w] EXCEPT !.pc = "next", !.cur = 0]

FreshRow(n) == [NoRow EXCEPT !.logSeq = n]

\* Mutant: the second copy of a message replaces the first.
StoredReplacing(m) == FALSE

\* INSERT OR IGNORE: message_id is the primary key, a conflict is a duplicate.
Stored(m) == Present(m)

\* inbox.accept: stored before anything else happens.  A live envelope is
\* confirmed next, a replayed one goes straight to decryption.
Accept(w) ==
    /\ At(w, "accept")
    /\ seen' = seen \union {work[w].cur}
    /\ \/ /\ Stored(Id(w))
          /\ Run(w, Returned(w))
          /\ UNCHANGED inbox
       \/ /\ ~Stored(Id(w))
          /\ inbox' = [inbox EXCEPT ![Id(w)] = FreshRow(work[w].cur)]
          /\ Goto(w, IF work[w].kind = "live" THEN "deliver" ELSE "decrypt")
    /\ UNCHANGED <<server, cursor, saved, session, ratchet, receipts, applied,
                   jumped, faults>>

\* sendDelivered: emitted if the socket is there.
Deliver(w) ==
    /\ At(w, "deliver")
    /\ receipts' = IF online THEN receipts \union {Id(w)} ELSE receipts
    /\ Goto(w, "markDelivered")
    /\ UNCHANGED <<server, durable, session, ratchet, applied, jumped, seen,
                   faults>>

\* sendDelivered throws: the rest of ingest does not run.
DeliverThrows(w) ==
    /\ At(w, "deliver")
    /\ Run(w, Idle)
    /\ UNCHANGED <<server, durable, session, ratchet, history, faults>>

\* UPDATE ... WHERE message_id: nothing happens when the row is gone.
Updated(m, row) == [inbox EXCEPT ![m] = IF Present(m) THEN row ELSE @]

MarkDelivered(w) ==
    /\ At(w, "markDelivered")
    /\ inbox' = Updated(Id(w), [inbox[Id(w)] EXCEPT !.deliveredSent = TRUE])
    /\ Goto(w, "decrypt")
    /\ UNCHANGED <<server, cursor, saved, session, ratchet, history, faults>>

\* Mutant: the ratchet does not notice that a message key was used.
DecryptsReplayed(n) == Own(n)

\* The context tag is rebuilt with this device's id, so the copy for another
\* device fails; the ratchet refuses a message key it has already used.
Decrypts(n) == Own(n) /\ log[n].copy[1] \notin ratchet

\* _decrypt up to the awaits that record its outcome.
Decrypt(w) ==
    /\ At(w, "decrypt")
    /\ \/ /\ ~session
          /\ Run(w, Returned(w))
          /\ UNCHANGED ratchet
       \/ /\ session
          /\ Decrypts(work[w].cur)
          /\ ratchet' = ratchet \union {Id(w)}
          /\ Goto(w, "persist")
       \/ /\ session
          /\ ~Decrypts(work[w].cur)
          /\ Goto(w, "markFailed")
          /\ UNCHANGED ratchet
    /\ UNCHANGED <<server, durable, session, history, faults>>

\* _sessions.persist: the state as it is now.
PersistSession(w) ==
    /\ At(w, "persist")
    /\ saved' = ratchet
    /\ Goto(w, "markProcessed")
    /\ UNCHANGED <<server, inbox, cursor, session, ratchet, history, faults>>

\* markProcessed; the message is handed to the caller.  Only ingest goes on
\* to move the cursor.
MarkProcessed(w) ==
    /\ At(w, "markProcessed")
    /\ inbox' = Updated(Id(w), [inbox[Id(w)] EXCEPT !.processed = TRUE])
    /\ applied' = [applied EXCEPT ![Id(w)] = @ + 1]
    /\ IF work[w].kind = "resume" THEN Run(w, Returned(w))
                                  ELSE Goto(w, "readCursor")
    /\ UNCHANGED <<server, cursor, saved, session, ratchet, receipts, jumped,
                   seen, faults>>

\* Mutant: a message that cannot be decrypted is deleted.
FailedRowDropped(row) == NoRow

\* Flagged and kept.
FailedRow(row) == [row EXCEPT !.decryptFailed = TRUE, !.processed = TRUE]

MarkFailed(w) ==
    /\ At(w, "markFailed")
    /\ inbox' = Updated(Id(w), FailedRow(inbox[Id(w)]))
    /\ Run(w, Returned(w))
    /\ UNCHANGED <<server, cursor, saved, session, ratchet, history, faults>>

-----------------------------------------------------------------------------
(* SyncCursorStore.advance: a read and a write *)

Higher(a, b) == IF a < b THEN b ELSE a

Advanced(c, n, s) == [log |-> Higher(c.log, n), server |-> Higher(c.server, s)]

ReadCursor(w) ==
    /\ At(w, "readCursor") \/ At(w, "readFinal")
    /\ Run(w, [work[w] EXCEPT !.base = cursor,
                 !.pc = IF @ = "readCursor" THEN "writeCursor" ELSE "writeFinal"])
    /\ UNCHANGED <<server, durable, session, ratchet, history, faults>>

\* Nothing is written when neither sequence moves on.
Write(w, target) ==
    cursor' = IF target = work[w].base THEN cursor ELSE target

\* ingest advances to its envelope.
AdvanceToEnvelope(w) ==
    /\ At(w, "writeCursor")
    /\ Write(w, Advanced(work[w].base, work[w].cur, ServerSeq(work[w].cur)))
    /\ jumped' = IF work[w].kind = "live"
                 THEN jumped \union ((1 .. cursor'.log) \ seen) ELSE jumped
    /\ Run(w, Returned(w))
    /\ UNCHANGED <<server, inbox, saved, session, ratchet, receipts, applied,
                   seen, faults>>

\* A sync advances to its last event.
AdvanceToPage(w) ==
    /\ At(w, "writeFinal")
    /\ Write(w, Advanced(work[w].base, work[w].high, 0))
    /\ Run(w, Idle)
    /\ UNCHANGED <<server, inbox, saved, session, ratchet, history, faults>>

-----------------------------------------------------------------------------
(* MessageSyncService *)

\* syncAll, or one round of syncConversation: the cursor is read and sent.
SyncStart(w) ==
    /\ At(w, "idle")
    /\ online
    /\ Run(w, [Idle EXCEPT !.pc = "request", !.kind = "sync", !.base = cursor])
    /\ UNCHANGED <<server, durable, session, ratchet, history, faults>>

\* The page that sync.response carries for a cursor.
Page(n) == {k \in LogSeqs : n < k /\ k <= n + PageLimit}

SyncResponse(w) ==
    /\ At(w, "request")
    /\ online
    /\ Run(w, [work[w] EXCEPT !.pc = "next", !.todo = Page(work[w].base.log),
                              !.base = ZeroCursor])
    /\ UNCHANGED <<server, durable, session, ratchet, history, faults>>

\* No answer: requestSync returns null.
SyncUnanswered(w) ==
    /\ At(w, "request")
    /\ Run(w, Idle)
    /\ UNCHANGED <<server, durable, session, ratchet, history, faults>>

Syncing(w) == At(w, "next") /\ work[w].kind = "sync"

\* Events are done in log_seq order.
IsNext(w, n) == n \in work[w].todo /\ \A k \in work[w].todo : n <= k

\* The next event of the page is a message.
SyncIngest(w, n) ==
    /\ Syncing(w)
    /\ IsNext(w, n)
    /\ IsMessage(n)
    /\ Run(w, [work[w] EXCEPT !.pc = "accept", !.cur = n, !.todo = @ \ {n}])
    /\ UNCHANGED <<server, durable, session, ratchet, history, faults>>

\* The next event is not for the inbox; an unparsable one does not count.
SyncPass(w, n) ==
    /\ Syncing(w)
    /\ IsNext(w, n)
    /\ ~IsMessage(n)
    /\ Run(w, [work[w] EXCEPT !.todo = @ \ {n},
                 !.high = IF log[n].kind = "malformed" THEN @ ELSE n])
    /\ seen' = seen \union {n}
    /\ UNCHANGED <<server, durable, session, ratchet, receipts, applied, jumped,
                   faults>>

\* Mutant: the cursor is moved to the head that the server reports.
SyncTargetHead(w) == Len(log)

\* Mutant: the cursor is the next sequence number to ask for.
SyncTargetNext(w) == Len(log) + 1

\* The last event of the page that was done, 0 when there was none.
SyncTarget(w) == work[w].high

SyncFinish(w) ==
    /\ Syncing(w)
    /\ work[w].todo = {}
    /\ Run(w, IF SyncTarget(w) = 0 THEN Idle
              ELSE [work[w] EXCEPT !.pc = "readFinal", !.high = SyncTarget(w)])
    /\ UNCHANGED <<server, durable, session, ratchet, history, faults>>

\* resetCursor: the row is deleted, the next sync replays everything.
ResetCursor ==
    /\ faults < MaxFaults
    /\ faults' = faults + 1
    /\ cursor' = ZeroCursor
    /\ UNCHANGED <<server, inbox, saved, session, ratchet, work, history>>

-----------------------------------------------------------------------------
(* Crash recovery and housekeeping *)

PendingRows ==
    {inbox[m].logSeq : m \in {k \in Messages : Present(k) /\ ~inbox[k].processed}}

\* pendingProcessing: the rows with the lowest sequence, up to the limit.
ResumePage ==
    {n \in PendingRows :
        Cardinality({k \in PendingRows : k <= n}) <= ResumeLimit}

\* resumePending, called while no envelope is being ingested.
ResumeStart(w) ==
    /\ \A v \in Workers : At(v, "idle")
    /\ PendingRows # {}
    /\ Run(w, [Idle EXCEPT !.pc = "next", !.kind = "resume", !.todo = ResumePage])
    /\ UNCHANGED <<server, durable, session, ratchet, history, faults>>

ResumeNext(w, n) ==
    /\ At(w, "next") /\ work[w].kind = "resume"
    /\ IsNext(w, n)
    /\ Run(w, [work[w] EXCEPT !.pc = "decrypt", !.cur = n, !.todo = @ \ {n}])
    /\ UNCHANGED <<server, durable, session, ratchet, history, faults>>

ResumeFinish(w) ==
    /\ At(w, "next") /\ work[w].kind = "resume"
    /\ work[w].todo = {}
    /\ Run(w, Idle)
    /\ UNCHANGED <<server, durable, session, ratchet, history, faults>>

\* purgeExpired removes a disappearing message.
PurgeExpired(m) ==
    /\ m \in Expiring
    /\ Present(m)
    /\ inbox' = [inbox EXCEPT ![m] = NoRow]
    /\ UNCHANGED <<server, cursor, saved, session, ratchet, work, history,
                   faults>>

\* The app dies: calls in progress, the socket and the ratchet in memory go.
Crash ==
    /\ faults < MaxFaults
    /\ faults' = faults + 1
    /\ online' = FALSE
    /\ live' = <<>>
    /\ ratchet' = saved
    /\ work' = [w \in Workers |-> Idle]
    /\ UNCHANGED <<log, durable, session, history>>

-----------------------------------------------------------------------------
IngestStep(w) ==
    \/ LiveEvent(w)
    \/ Accept(w)
    \/ Deliver(w)
    \/ DeliverThrows(w)
    \/ MarkDelivered(w)
    \/ Decrypt(w)
    \/ PersistSession(w)
    \/ MarkProcessed(w)
    \/ MarkFailed(w)
    \/ ReadCursor(w)
    \/ AdvanceToEnvelope(w)
    \/ AdvanceToPage(w)

SyncStep(w) ==
    \/ SyncStart(w)
    \/ SyncResponse(w)
    \/ SyncUnanswered(w)
    \/ \E n \in LogSeqs : SyncIngest(w, n) \/ SyncPass(w, n)
    \/ SyncFinish(w)

ResumeStep(w) ==
    \/ ResumeStart(w)
    \/ \E n \in LogSeqs : ResumeNext(w, n)
    \/ ResumeFinish(w)

Next ==
    \/ \E e \in Events : ServerLogs(e)
    \/ GoOnline
    \/ GoOffline
    \/ SessionEstablished
    \/ \E w \in Workers :
          IngestStep(w) \/ SyncStep(w) \/ ResumeStep(w)
    \/ ResetCursor
    \/ \E m \in Messages : PurgeExpired(m)
    \/ Crash

Spec == Init /\ [][Next]_vars

-----------------------------------------------------------------------------
(* Properties *)

Rows == [logSeq : Nat, processed : BOOLEAN, deliveredSent : BOOLEAN,
         decryptFailed : BOOLEAN]

\* Every variable of the receiving engine stays within its type; the cursor,
\* an envelope in progress and the rest of a page are within the log.
TypeOK ==
    /\ log \in Seq(Events)
    /\ online \in BOOLEAN
    /\ live \in Seq(LogSeqs)
    /\ inbox \in [Messages -> Rows]
    /\ cursor \in Cursors
    /\ session \in BOOLEAN
    /\ ratchet \subseteq Messages
    /\ saved \subseteq Messages
    /\ work \in [Workers -> Calls]
    /\ receipts \subseteq Messages
    /\ applied \in [Messages -> Nat]
    /\ jumped \subseteq LogSeqs
    /\ seen \subseteq LogSeqs
    /\ faults \in Nat

\* A message is handed to the app at most once, although it may arrive live
\* and again by sync, be replayed from a reset cursor after it was purged, and
\* be resumed after a crash.
AppliedOnce == \A m \in Messages : applied[m] <= 1

\* A message whose DELIVERED receipt left the device is on disk, whatever
\* crashes or decryption failures follow, unless it was to disappear.
ReceiptIsStored == \A m \in receipts \ Expiring : Present(m)

\* A message that was shown is never flagged as undecryptable, and one that is
\* flagged has not been shown: no second processing attempt of the same id.
FailedNeverApplied ==
    \A m \in Messages \ Expiring : inbox[m].decryptFailed => applied[m] = 0

\* Sync never moves the cursor past an event it has not handled: what the
\* cursor is past was handled, or a live message jumped over it.
SyncSkipsNothing == \A n \in 1 .. cursor.log : n \in seen \union jumped

\* The inbox row of a message is this device's copy, once that has arrived.
OwnCopyKept ==
    \A n \in seen : Own(n) /\ log[n].copy[1] \notin Expiring =>
        inbox[log[n].copy[1]].logSeq = n
=============================================================================
