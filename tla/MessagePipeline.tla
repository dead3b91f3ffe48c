--------------------------- MODULE MessagePipeline ---------------------------
(***************************************************************************)
(* The message handlers of the realtime server over its store: message.send *)
(* with MessageDedup, message.delivered, message.read and sync.request,    *)
(* with MemoryRealtimeStore or SupabaseRealtimeStore behind them.          *)
(*                                                                         *)
(* A handler is an async function: each await of the store lets every      *)
(* other handler run, so an action is one store call together with the     *)
(* synchronous code that follows its answer.  A request passed the session *)
(* guard, the rate limiter, the envelope parser and the membership check   *)
(* before its first action here; one that did not is RequestRefused.       *)
(*                                                                         *)
(* A store call that rejects is never caught: the rejection ends the Node  *)
(* process and the container restarts it, which is Crash.                  *)
(***************************************************************************)
EXTENDS Integers, FiniteSets

CONSTANTS
    Accounts,       \* accounts, all members of every conversation
    Conversations,  \* conversation ids
    MessageIds,     \* client-chosen logical message ids
    Devices,        \* recipient devices of per-device copies
    NoDevice,       \* recipient_device_id is absent
    Requests,       \* handler invocations: one per packet received
    ReadMarks,      \* values a client may put in last_read_seq
    DedupWindow,    \* MessageDedup.windowSize
    PageLimit,      \* config.syncPageLimit
    Backend,        \* config.storeBackend: "memory" or "supabase"
    MaxCrashes      \* bound on spontaneous crashes

ASSUME BackendAssumption == Backend \in {"memory", "supabase"}
ASSUME WindowAssumption == DedupWindow \in Nat \ {0}
ASSUME PageAssumption == PageLimit \in Nat \ {0}
ASSUME MarksAssumption == ReadMarks \subseteq Int
ASSUME CrashAssumption == MaxCrashes \in Nat

VARIABLES
    pc,         \* request -> the store call its handler is waiting for
    job,        \* request -> the parsed packet
    seq,        \* request -> serverSeq of its handler
    logSeq,     \* request -> logSeq of its handler
    page,       \* request -> what a sync handler has read so far
    ticks,      \* MessageDedup.seen: dedup key -> tick, 0 when not remembered
    clockTick,  \* MessageDedup.clockTick
    seqCursor,  \* conversation -> last server_seq minted
    logCursor,  \* conversation -> last log_seq minted
    messages,   \* persisted messages, one per storage key
    rows,       \* event log rows
    acks,       \* history: message.ack packets emitted
    live,       \* history: events fanned out to the conversation
    responses,  \* history: sync.response pages emitted
    refused,    \* history: delivered receipts answered PAYLOAD_INVALID
    crashes     \* spontaneous crashes so far

store == <<seqCursor, logCursor, messages, rows>>
dedup == <<ticks, clockTick>>
history == <<acks, live, responses, refused>>
locals == <<seq, logSeq, page>>
vars == <<pc, job, locals, dedup, store, history, crashes>>

\* storageKey: the logical id, qualified by the recipient device if any.
Keys == MessageIds \X (Devices \union {NoDevice})

DedupKeys == Accounts \X Keys

NoJob == [kind |-> "none"]

SendJobs == [kind : {"send"}, account : Accounts, conv : Conversations,
             key : Keys]
DeliveredJobs == [kind : {"delivered"}, account : Accounts,
                  conv : Conversations, id : MessageIds, device : Devices]
ReadJobs == [kind : {"read"}, account : Accounts, conv : Conversations,
             mark : ReadMarks]
SyncJobs == [kind : {"sync"}, conv : Conversations, from : Nat]

Messages == [key : Keys, conv : Conversations, account : Accounts, seq : Nat]

\* An event row; src is the packet that caused it.
Rows == [conv : Conversations, logSeq : Nat, seq : Nat,
         src : SendJobs \union DeliveredJobs \union ReadJobs]

EmptyPage == [events |-> {}, known |-> {}, head |-> 0]

-----------------------------------------------------------------------------
Init ==
    /\ pc = [r \in Requests |-> "idle"]
    /\ job = [r \in Requests |-> NoJob]
    /\ seq = [r \in Requests |-> 0]
    /\ logSeq = [r \in Requests |-> 0]
    /\ page = [r \in Requests |-> EmptyPage]
    /\ ticks = [k \in DedupKeys |-> 0]
    /\ clockTick = 0
    /\ seqCursor = [c \in Conversations |-> 0]
    /\ logCursor = [c \in Conversations |-> 0]
    /\ messages = {}
    /\ rows = {}
    /\ acks = {}
    /\ live = {}
    /\ responses = {}
    /\ refused = {}
    /\ crashes = 0

Goto(r, label) == pc' = [pc EXCEPT ![r] = label]

\* A packet that an early return drops: no session, rate limited, malformed,
\* or not a member.  Only an error packet leaves the server.
RequestRefused(r) ==
    /\ pc[r] = "idle"
    /\ Goto(r, "done")
    /\ UNCHANGED <<job, locals, dedup, store, history, crashes>>

Accept(r, j, label) ==
    /\ pc[r] = "idle"
    /\ job' = [job EXCEPT ![r] = j]
    /\ Goto(r, label)

-----------------------------------------------------------------------------
(* MessageDedup *)

Remembered(t) == {k \in DedupKeys : t[k] # 0}

\* set(id, clockTick++); ticks are kept one higher than in the code so that
\* 0 can stand for an absent entry.
Touched(k) == [ticks EXCEPT ![k] = clockTick + 1]

\* evictOldest: forget the entry with the smallest tick.
EvictOldest(t) ==
    [k \in DedupKeys |->
        IF \A o \in Remembered(t) : t[k] <= t[o] THEN 0 ELSE t[k]]

Remember(k) ==
    IF Cardinality(Remembered(Touched(k))) > DedupWindow
    THEN EvictOldest(Touched(k))
    ELSE Touched(k)

-----------------------------------------------------------------------------
(* message.send *)

\* The dedup key is new: remembered before anything is stored.
SendNew(r, j) ==
    /\ Accept(r, j, "nextSeq")
    /\ ticks[<<j.account, j.key>>] = 0
    /\ ticks' = Remember(<<j.account, j.key>>)
    /\ clockTick' = clockTick + 1
    /\ UNCHANGED <<locals, store, history, crashes>>

SendDuplicate(r, j) ==
    /\ Accept(r, j, "findOriginal")
    /\ ticks[<<j.account, j.key>>] # 0
    /\ ticks' = Touched(<<j.account, j.key>>)
    /\ clockTick' = clockTick + 1
    /\ UNCHANGED <<locals, store, history, crashes>>

\* sameOrigin: the stored message is this sender's, in this conversation.
Originals(j) ==
    {m \in messages : m.key = j.key /\ m.account = j.account /\ m.conv = j.conv}

Ack(j, n, dup) ==
    [account |-> j.account, conv |-> j.conv, key |-> j.key,
     seq |-> n, duplicate |-> dup]

\* Mutant: a duplicate is acked with the conversation's current sequence.
DuplicateAcksLatest(j) == {Ack(j, seqCursor[j.conv], TRUE)}

DuplicateAcks(j) ==
    IF Originals(j) = {} THEN {Ack(j, 0, TRUE)}
    ELSE {Ack(j, m.seq, TRUE) : m \in Originals(j)}

\* findMessage answers: the original ack is replayed, or server_seq 0.
AckDuplicate(r) ==
    /\ pc[r] = "findOriginal"
    /\ acks' = acks \union DuplicateAcks(job[r])
    /\ Goto(r, "done")
    /\ UNCHANGED <<job, locals, dedup, store, live, responses, refused, crashes>>

\* Mutant: the sequence is computed from what is stored already.
NextServerSeqStale(c) == Cardinality({m \in messages : m.conv = c}) + 1

\* The atomic message counter of the conversation, incremented.
NextServerSeq(c) == seqCursor[c] + 1

NextSeq(r) ==
    /\ pc[r] = "nextSeq"
    /\ seqCursor' = [seqCursor EXCEPT ![job[r].conv] =
                                        NextServerSeq(job[r].conv)]
    /\ seq' = [seq EXCEPT ![r] = NextServerSeq(job[r].conv)]
    /\ Goto(r, "persist")
    /\ UNCHANGED <<job, logSeq, page, dedup, logCursor, messages, rows,
                   history, crashes>>

\* Mutant: the store upserts, as if it merged duplicates.
KeyTakenNever(k) == FALSE

\* SupabaseRealtimeStore inserts: a second row with the same message_id is a
\* primary key conflict.  MemoryRealtimeStore overwrites its map entry.
KeyTaken(k) == Backend = "supabase" /\ \E m \in messages : m.key = k

Persisted(r) ==
    [key |-> job[r].key, conv |-> job[r].conv, account |-> job[r].account,
     seq |-> seq[r]]

PersistMessage(r) ==
    /\ pc[r] = "persist"
    /\ ~KeyTaken(job[r].key)
    /\ messages' = {m \in messages : m.key # job[r].key} \union {Persisted(r)}
    /\ Goto(r, "append")
    /\ UNCHANGED <<job, locals, dedup, seqCursor, logCursor, rows, history,
                   crashes>>

-----------------------------------------------------------------------------
(* appendEvent, shared by the three handlers that log *)

Row(r, n) ==
    [conv |-> job[r].conv, logSeq |-> n, seq |-> seq[r], src |-> job[r]]

\* Mutant: the handler goes on while the row is still being written.
AfterMintEager(r) == "emit"

\* MemoryRealtimeStore appends in the same call that mints the number;
\* SupabaseRealtimeStore mints it by RPC and then inserts the row.
AfterMint(r) == IF Backend = "memory" THEN "emit" ELSE "insert"

\* Mutant: the number is computed from the last row instead of a counter.
MintedSeqStale(c) == Cardinality({e \in rows : e.conv = c}) + 1

\* The atomic counter of the conversation, incremented.
MintedSeq(c) == logCursor[c] + 1

MintLogSeq(r) ==
    /\ pc[r] = "append"
    /\ logCursor' = [logCursor EXCEPT ![job[r].conv] = MintedSeq(job[r].conv)]
    /\ logSeq' = [logSeq EXCEPT ![r] = MintedSeq(job[r].conv)]
    /\ rows' = IF Backend = "memory"
               THEN rows \union {Row(r, MintedSeq(job[r].conv))}
               ELSE rows
    /\ Goto(r, AfterMint(r))
    /\ UNCHANGED <<job, seq, page, dedup, seqCursor, messages, history, crashes>>

InsertRow(r) ==
    /\ pc[r] = "insert"
    /\ rows' = rows \union {Row(r, logSeq[r])}
    /\ Goto(r, "emit")
    /\ UNCHANGED <<job, locals, dedup, seqCursor, logCursor, messages, history,
                   crashes>>

\* The ack (for message.send) and the live fan-out.
Emit(r) ==
    /\ pc[r] = "emit"
    /\ acks' = IF job[r].kind = "send"
               THEN acks \union {Ack(job[r], seq[r], FALSE)} ELSE acks
    /\ live' = live \union {Row(r, logSeq[r])}
    /\ Goto(r, "done")
    /\ UNCHANGED <<job, locals, dedup, store, responses, refused, crashes>>

-----------------------------------------------------------------------------
(* message.delivered and message.read *)

Delivered(r, j) ==
    /\ Accept(r, j, "findMessage")
    /\ UNCHANGED <<locals, dedup, store, history, crashes>>

\* Mutant: the receipt is not checked against conversation and sender.
ReceiptTargetsUnchecked(j) == {m \in messages : m.key = <<j.id, NoDevice>>}

\* The lookup is by the logical id; the message must be of this conversation
\* and of another account.
ReceiptTargets(j) ==
    {m \in messages : /\ m.key = <<j.id, NoDevice>>
                      /\ m.conv = j.conv
                      /\ m.account # j.account}

FindMessage(r) ==
    /\ pc[r] = "findMessage"
    /\ \/ \E m \in ReceiptTargets(job[r]) :
            /\ seq' = [seq EXCEPT ![r] = m.seq]
            /\ Goto(r, "append")
            /\ UNCHANGED refused
       \/ /\ ReceiptTargets(job[r]) = {}
          /\ refused' = refused \union {job[r]}
          /\ Goto(r, "done")
          /\ UNCHANGED seq
    /\ UNCHANGED <<job, logSeq, page, dedup, store, acks, live, responses,
                   crashes>>

Read(r, j) ==
    /\ Accept(r, j, "latestSeq")
    /\ UNCHANGED <<locals, dedup, store, history, crashes>>

Lower(a, b) == IF a < b THEN a ELSE b
Higher(a, b) == IF a < b THEN b ELSE a

\* Mutant: the lower bound of the clamp is missing.
ClampNoFloor(mark, latest) == Lower(mark, latest)

\* Mutant: the client's mark is trusted when it is not negative.
ClampNoCeiling(mark, latest) == Higher(0, mark)

Clamp(mark, latest) == Higher(0, Lower(mark, latest))

LatestSeq(r) ==
    /\ pc[r] = "latestSeq"
    /\ seq' = [seq EXCEPT ![r] = Clamp(job[r].mark, seqCursor[job[r].conv])]
    /\ Goto(r, "append")
    /\ UNCHANGED <<job, logSeq, page, dedup, store, history, crashes>>

-----------------------------------------------------------------------------
(* sync.request, for one conversation *)

Sync(r, j) ==
    /\ Accept(r, j, "eventsSince")
    /\ UNCHANGED <<locals, dedup, store, history, crashes>>

LogSeqs(c) == {e.logSeq : e \in {f \in rows : f.conv = c}}

\* Ascending, cut off at the page limit.
EventsAfter(c, n) ==
    LET later == {k \in LogSeqs(c) : k > n}
    IN  {k \in later : Cardinality({i \in later : i <= k}) <= PageLimit}

EventsSince(r) ==
    /\ pc[r] = "eventsSince"
    /\ page' = [page EXCEPT
                  ![r].events = EventsAfter(job[r].conv, job[r].from),
                  ![r].known = LogSeqs(job[r].conv)]
    /\ Goto(r, "latestLogSeq")
    /\ UNCHANGED <<job, seq, logSeq, dedup, store, history, crashes>>

LatestLogSeq(r) ==
    /\ pc[r] = "latestLogSeq"
    /\ page' = [page EXCEPT ![r].head = logCursor[job[r].conv]]
    /\ Goto(r, "respond")
    /\ UNCHANGED <<job, seq, logSeq, dedup, store, history, crashes>>

Respond(r) ==
    /\ pc[r] = "respond"
    /\ responses' = responses \union
         {[conv |-> job[r].conv, from |-> job[r].from, page |-> page[r]]}
    /\ Goto(r, "done")
    /\ UNCHANGED <<job, locals, dedup, store, acks, live, refused, crashes>>

\* Mutant: the cursor jumps to the head even when the page was cut.
CursorAtHead(p) == p.head

\* The cursor a response carries: the last event of a full page, or the head
\* of the log as read after the page.
Cursor(p) ==
    IF Cardinality(p.events) = PageLimit
    THEN CHOOSE n \in p.events : \A k \in p.events : k <= n
    ELSE p.head

-----------------------------------------------------------------------------
(* Crash and restart *)

\* Handlers and the dedup window live in the process; so does the memory
\* store.  Supabase keeps what it was given.
Restart ==
    /\ pc' = [r \in Requests |-> IF pc[r] = "idle" THEN "idle" ELSE "done"]
    /\ ticks' = [k \in DedupKeys |-> 0]
    /\ clockTick' = 0
    /\ IF Backend = "supabase" THEN UNCHANGED store
       ELSE /\ seqCursor' = [c \in Conversations |-> 0]
            /\ logCursor' = [c \in Conversations |-> 0]
            /\ messages' = {}
            /\ rows' = {}
    /\ UNCHANGED <<job, locals, history>>

Crash ==
    /\ crashes < MaxCrashes
    /\ crashes' = crashes + 1
    /\ Restart

\* The insert conflicts: the rejection is unhandled and ends the process.
PersistConflict(r) ==
    /\ pc[r] = "persist"
    /\ KeyTaken(job[r].key)
    /\ Restart
    /\ UNCHANGED crashes

-----------------------------------------------------------------------------
SendStep(r) ==
    \/ \E j \in SendJobs : SendNew(r, j) \/ SendDuplicate(r, j)
    \/ AckDuplicate(r)
    \/ NextSeq(r)
    \/ PersistMessage(r)
    \/ PersistConflict(r)

LogStep(r) == MintLogSeq(r) \/ InsertRow(r) \/ Emit(r)

ReceiptStep(r) ==
    \/ \E j \in DeliveredJobs : Delivered(r, j)
    \/ FindMessage(r)
    \/ \E j \in ReadJobs : Read(r, j)
    \/ LatestSeq(r)

SyncStep(r) ==
    \/ \E c \in Conversations : \E n \in 0 .. logCursor[c] :
          Sync(r, [kind |-> "sync", conv |-> c, from |-> n])
    \/ EventsSince(r)
    \/ LatestLogSeq(r)
    \/ Respond(r)

Next ==
    \/ \E r \in Requests :
          RequestRefused(r) \/ SendStep(r) \/ LogStep(r) \/ ReceiptStep(r)
            \/ SyncStep(r)
    \/ Crash

Spec == Init /\ [][Next]_vars

-----------------------------------------------------------------------------
(* Properties *)

Labels == {"idle", "nextSeq", "findOriginal", "persist", "append", "insert",
           "emit", "findMessage", "latestSeq", "eventsSince", "latestLogSeq",
           "respond", "done"}

Acks == [account : Accounts, conv : Conversations, key : Keys, seq : Nat,
         duplicate : BOOLEAN]

Pages == [events : SUBSET Nat, known : SUBSET Nat, head : Nat]

\* Every variable of the handlers and of the store stays within its type.
TypeOK ==
    /\ pc \in [Requests -> Labels]
    /\ job \in [Requests -> {NoJob} \union SendJobs \union DeliveredJobs
                               \union ReadJobs \union SyncJobs]
    /\ seq \in [Requests -> Nat]
    /\ logSeq \in [Requests -> Nat]
    /\ page \in [Requests -> Pages]
    /\ ticks \in [DedupKeys -> Nat]
    /\ clockTick \in Nat
    /\ seqCursor \in [Conversations -> Nat]
    /\ logCursor \in [Conversations -> Nat]
    /\ messages \subseteq Messages
    /\ rows \subseteq Rows
    /\ acks \subseteq Acks
    /\ live \subseteq Rows
    /\ responses \subseteq [conv : Conversations, from : Nat, page : Pages]
    /\ refused \subseteq DeliveredJobs
    /\ crashes \in Nat

MessageRows(k) == {e \in rows : e.src.kind = "send" /\ e.src.key = k}

\* An ack that is not a duplicate, and every live event, stands for a row
\* that is already in the log: nobody learns of an event that sync.response
\* could not replay, whatever crashes follow.
EmittedIsLogged ==
    /\ \A a \in acks : ~a.duplicate =>
          \E e \in MessageRows(a.key) :
             e.conv = a.conv /\ e.src.account = a.account /\ e.seq = a.seq
    /\ live \subseteq rows

\* The log holds one message.new event per storage key, also when a retry
\* finds an empty dedup window after a restart or an eviction.
LoggedOnce ==
    \A k \in Keys : \A e, f \in MessageRows(k) : e = f

\* All acks of one message that carry a sequence carry the same one.
AcksAgree ==
    \A a, b \in acks :
        (/\ a.account = b.account /\ a.key = b.key /\ a.conv = b.conv
         /\ a.seq # 0 /\ b.seq # 0) => a.seq = b.seq

\* A log_seq names one row of its conversation and was minted before it.
LogSeqUnique ==
    /\ \A e, f \in rows : e.conv = f.conv /\ e.logSeq = f.logSeq => e = f
    /\ \A e \in rows : e.logSeq \in 1 .. logCursor[e.conv]

\* A delivered receipt in the log names a message of its conversation, by
\* another account, with that message's sequence.
ReceiptNamesMessage ==
    \A e \in rows : e.src.kind = "delivered" =>
        \E m \in messages : /\ m.key[1] = e.src.id /\ m.conv = e.conv
                            /\ m.account # e.src.account /\ m.seq = e.seq

\* A read mark never runs ahead of the sequence of its conversation.
ReadMarkExists ==
    \A e \in rows : e.src.kind = "read" => e.seq <= seqCursor[e.conv]

\* A response never moves the client's cursor past an event that was in the
\* log when the page was read and is not in the page: paging loses nothing.
PageSkipsNothingLogged ==
    \A p \in responses :
        {n \in p.page.known : p.from < n /\ n <= Cursor(p.page)}
          \subseteq p.page.events

\* The stronger promise of the store's header: no event at all is skipped,
\* not even one committed between the reads of the handler.
NothingSkipped ==
    \A p \in responses : \A n \in LogSeqs(p.conv) :
        p.from < n /\ n <= Cursor(p.page) => n \in p.page.events

\* A receipt for a message of another account in the conversation, stored
\* for the very device that confirms it, is not refused.
DeviceReceiptAccepted ==
    \A j \in refused :
        ~\E m \in messages : /\ m.key = <<j.id, j.device>> /\ m.conv = j.conv
                             /\ m.account # j.account

\* What the members of a conversation can see of the handlers: the message
\* behind a row, the sequenced acks, and the messages announced live.
MessageOf(e) ==
    [key |-> e.src.key, conv |-> e.conv, account |-> e.src.account,
     seq |-> e.seq]

MessagesIn(events) == {MessageOf(e) : e \in {f \in events : f.src.kind = "send"}}

Confirmed ==
    {[key |-> a.key, conv |-> a.conv, account |-> a.account, seq |-> a.seq] :
        a \in {b \in acks : b.seq # 0}}

Abstract == INSTANCE ExactlyOnceLog WITH
    stored <- messages, log <- MessagesIn(rows), acked <- Confirmed,
    heard <- MessagesIn(live)

\* Concurrent handlers, retries, the forgetful dedup window and crashes
\* between any two store calls are invisible: seen from outside, every step
\* of the Supabase-backed server is a step of the exactly-once log, or none.
ImplementsExactlyOnceLog == Abstract!Spec
=============================================================================
