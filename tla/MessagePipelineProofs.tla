------------------------ MODULE MessagePipelineProofs ------------------------
(***************************************************************************)
(* Proofs about MessagePipeline for any number of concurrent handlers,     *)
(* accounts, messages and crashes, any dedup window and any page limit:    *)
(* types, sequences and pages over both stores; exactly-once delivery,     *)
(* receipts and the refinement of ExactlyOnceLog over the Supabase store.  *)
(***************************************************************************)
EXTENDS MessagePipeline, FiniteSetTheorems, WellFoundedInduction, TLAPS

\* Which packet a handler is processing, by the call it waits for.
KindOf ==
    \A r \in Requests :
        /\ pc[r] \in {"nextSeq", "findOriginal", "persist"} => job[r] \in SendJobs
        /\ pc[r] = "findMessage" => job[r] \in DeliveredJobs
        /\ pc[r] = "latestSeq" => job[r] \in ReadJobs
        /\ pc[r] \in {"append", "insert", "emit"} =>
              job[r] \in SendJobs \union DeliveredJobs \union ReadJobs
        /\ pc[r] \in {"eventsSince", "latestLogSeq", "respond"} =>
              job[r] \in SyncJobs

TypeInv == TypeOK /\ KindOf

-----------------------------------------------------------------------------
\* An ack echoes the packet it answers.
LEMMA AckType ==
    ASSUME NEW j \in SendJobs, NEW n \in Nat, NEW b \in BOOLEAN
    PROVE  Ack(j, n, b) \in Acks
<1>1. j.account \in Accounts /\ j.conv \in Conversations /\ j.key \in Keys
  BY DEF SendJobs
<1> QED
  BY <1>1, Zenon DEF Ack, Acks

\* Every action keeps the variables within their types and every handler on
\* the packet it parsed.
LEMMA TypeStep == TypeInv /\ [Next]_vars => TypeInv'
<1> USE WindowAssumption, PageAssumption, MarksAssumption
<1> SUFFICES ASSUME TypeInv, [Next]_vars PROVE TypeInv'
  OBVIOUS
<1> USE DEF TypeInv, TypeOK, KindOf, Labels, Goto, store, dedup, history, locals
<1>1. ASSUME NEW r \in Requests, RequestRefused(r) PROVE TypeInv'
  BY <1>1 DEF RequestRefused
<1>2. ASSUME NEW r \in Requests, SendStep(r) PROVE TypeInv'
  <2>1. ASSUME NEW k \in DedupKeys
        PROVE  /\ Touched(k) \in [DedupKeys -> Nat]
               /\ Remember(k) \in [DedupKeys -> Nat]
    BY DEF Touched, Remember, EvictOldest
  <2>2. ASSUME NEW j \in SendJobs, SendNew(r, j) \/ SendDuplicate(r, j)
        PROVE  TypeInv'
    <3>1. <<j.account, j.key>> \in DedupKeys
      BY DEF SendJobs, DedupKeys
    <3>2. ticks' \in [DedupKeys -> Nat]
      BY <2>1, <2>2, <3>1 DEF SendNew, SendDuplicate
    <3>3. /\ clockTick' = clockTick + 1
          /\ job' = [job EXCEPT ![r] = j]
          /\ \/ pc' = [pc EXCEPT ![r] = "nextSeq"]
             \/ pc' = [pc EXCEPT ![r] = "findOriginal"]
          /\ UNCHANGED <<locals, store, history, crashes>>
      BY <2>2 DEF SendNew, SendDuplicate, Accept
    <3>4. TypeOK'
      BY <3>2, <3>3
    <3>5. KindOf'
      BY <3>3
    <3> QED
      BY <3>4, <3>5
  <2>3. CASE AckDuplicate(r)
    <3>1. job[r] \in SendJobs
      BY <2>3 DEF AckDuplicate
    <3>2. \A m \in Originals(job[r]) : m.seq \in Nat
      BY DEF Originals, Messages
    <3>3. DuplicateAcks(job[r]) \subseteq Acks
      BY <3>1, <3>2, AckType DEF DuplicateAcks
    <3> QED
      BY <2>3, <3>3 DEF AckDuplicate
  <2>4. CASE NextSeq(r)
    <3>1. job[r].conv \in Conversations
      BY <2>4 DEF NextSeq, SendJobs
    <3> QED
      BY <2>4, <3>1 DEF NextSeq, NextServerSeq
  <2>5. CASE PersistMessage(r)
    <3>1. Persisted(r) \in Messages
      BY <2>5 DEF PersistMessage, Persisted, SendJobs, Messages
    <3> QED
      BY <2>5, <3>1 DEF PersistMessage
  <2>6. CASE PersistConflict(r)
    BY <2>6 DEF PersistConflict, Restart
  <2> QED
    BY <1>2, <2>2, <2>3, <2>4, <2>5, <2>6 DEF SendStep
<1>3. ASSUME NEW r \in Requests, LogStep(r) PROVE TypeInv'
  <2>1. pc[r] \in {"append", "insert", "emit"}
    BY <1>3 DEF LogStep, MintLogSeq, InsertRow, Emit
  <2>2. /\ job[r] \in SendJobs \union DeliveredJobs \union ReadJobs
        /\ job[r].conv \in Conversations
    BY <2>1 DEF SendJobs, DeliveredJobs, ReadJobs
  <2>3. ASSUME NEW n \in Nat PROVE Row(r, n) \in Rows
    BY <2>2 DEF Row, Rows
  <2>4. CASE MintLogSeq(r)
    BY <2>4, <2>2, <2>3 DEF MintLogSeq, MintedSeq, AfterMint
  <2>5. CASE InsertRow(r)
    BY <2>5, <2>2, <2>3 DEF InsertRow
  <2>6. CASE Emit(r)
    <3>1. ASSUME job[r].kind = "send" PROVE job[r] \in SendJobs
      <4>1. job[r] \notin DeliveredJobs
        BY <3>1 DEF DeliveredJobs
      <4>2. job[r] \notin ReadJobs
        BY <3>1 DEF ReadJobs
      <4> QED
        BY <2>2, <4>1, <4>2
    <3>2. acks' \subseteq Acks
      BY <2>6, <3>1, AckType DEF Emit
    <3>3. live' \subseteq Rows
      BY <2>6, <2>3 DEF Emit
    <3> QED
      BY <2>6, <3>2, <3>3 DEF Emit
  <2> QED
    BY <1>3, <2>4, <2>5, <2>6 DEF LogStep
<1>4. ASSUME NEW r \in Requests, ReceiptStep(r) PROVE TypeInv'
  <2>1. ASSUME NEW j \in DeliveredJobs, Delivered(r, j) PROVE TypeInv'
    BY <2>1 DEF Delivered, Accept
  <2>2. ASSUME NEW j \in ReadJobs, Read(r, j) PROVE TypeInv'
    BY <2>2 DEF Read, Accept
  <2>3. CASE FindMessage(r)
    <3>1. job[r] \in DeliveredJobs
      BY <2>3 DEF FindMessage
    <3>2. \A m \in ReceiptTargets(job[r]) : m.seq \in Nat
      BY DEF ReceiptTargets, Messages
    <3> QED
      BY <2>3, <3>1, <3>2 DEF FindMessage
  <2>4. CASE LatestSeq(r)
    <3>1. job[r].conv \in Conversations /\ job[r].mark \in Int
      BY <2>4 DEF LatestSeq, ReadJobs
    <3>2. Clamp(job[r].mark, seqCursor[job[r].conv]) \in Nat
      BY <3>1 DEF Clamp, Higher, Lower
    <3> QED
      BY <2>4, <3>2 DEF LatestSeq
  <2> QED
    BY <1>4, <2>1, <2>2, <2>3, <2>4 DEF ReceiptStep
<1>5. ASSUME NEW r \in Requests, SyncStep(r) PROVE TypeInv'
  <2>1. ASSUME NEW c \in Conversations, NEW n \in 0 .. logCursor[c],
               Sync(r, [kind |-> "sync", conv |-> c, from |-> n])
        PROVE  TypeInv'
    <3>1. [kind |-> "sync", conv |-> c, from |-> n] \in SyncJobs
      BY DEF SyncJobs
    <3> QED
      BY <2>1, <3>1 DEF Sync, Accept
  <2>2. CASE EventsSince(r)
    <3>1. LogSeqs(job[r].conv) \subseteq Nat
      BY DEF LogSeqs, Rows
    <3>2. EventsAfter(job[r].conv, job[r].from) \subseteq Nat
      BY <3>1 DEF EventsAfter
    <3>3. page' \in [Requests -> Pages]
      BY <2>2, <3>1, <3>2 DEF EventsSince, Pages
    <3> QED
      BY <2>2, <3>3 DEF EventsSince
  <2>3. CASE LatestLogSeq(r)
    <3>1. job[r].conv \in Conversations
      BY <2>3 DEF LatestLogSeq, SyncJobs
    <3>2. page' \in [Requests -> Pages]
      BY <2>3, <3>1 DEF LatestLogSeq, Pages
    <3> QED
      BY <2>3, <3>2 DEF LatestLogSeq
  <2>4. CASE Respond(r)
    BY <2>4 DEF Respond, SyncJobs
  <2> QED
    BY <1>5, <2>1, <2>2, <2>3, <2>4 DEF SyncStep
<1>6. CASE Crash
  BY <1>6 DEF Crash, Restart
<1>7. CASE UNCHANGED vars
  BY <1>7 DEF vars
<1> QED
  BY <1>1, <1>2, <1>3, <1>4, <1>5, <1>6, <1>7 DEF Next

-----------------------------------------------------------------------------
Logging == {"append", "insert", "emit"}

\* The handler of a message.send whose message is already persisted.
Owner(r) == job[r].kind = "send" /\ pc[r] \in Logging

StoredFor(j, n) ==
    [key |-> j.key, conv |-> j.conv, account |-> j.account, seq |-> n]

\* The storage key identifies a persisted message.
KeyUnique == \A m, n \in messages : m.key = n.key => m = n

\* An owner's message is the persisted one, and a key has one owner.
OwnerStored == \A r \in Requests : Owner(r) => StoredFor(job[r], seq[r]) \in messages

OwnerUnique ==
    \A r, q \in Requests :
        Owner(r) /\ Owner(q) /\ job[r].key = job[q].key => r = q

\* A message.new row is about the message persisted under its key.
RowStored ==
    \A e \in rows : e.src.kind = "send" =>
        e.conv = e.src.conv /\ StoredFor(e.src, e.seq) \in messages

\* Until its owner has inserted the row, a key is not in the log.
NotYetLogged ==
    \A r \in Requests :
        Owner(r) /\ pc[r] # "emit" => MessageRows(job[r].key) = {}

\* What a handler is about to emit is in the log.
EmitLogged == \A r \in Requests : pc[r] = "emit" => Row(r, logSeq[r]) \in rows

\* An ack with a sequence quotes the persisted message.
AckStored == \A a \in acks : a.seq # 0 => StoredFor(a, a.seq) \in messages

\* LoggedOnce is not inductive: the dedup window does not survive a restart,
\* so what keeps a second row out is that persisting comes before logging,
\* happens once per key (KeyUnique, OwnerUnique) and is never undone.
Exactly == /\ KeyUnique /\ OwnerStored /\ OwnerUnique /\ RowStored
           /\ NotYetLogged /\ EmitLogged /\ AckStored
           /\ LoggedOnce /\ EmittedIsLogged

PipelineInv == TypeInv /\ Exactly

\* The exactly-once invariant is inductive over the Supabase store.
LEMMA PipelineStep ==
    ASSUME Backend = "supabase", PipelineInv, [Next]_vars
    PROVE  PipelineInv'
<1>0. TypeInv'
  BY TypeStep DEF PipelineInv
<1> USE DEF PipelineInv, Exactly, Logging, store, dedup, history, locals
<1> DEFINE Same(q) == /\ pc'[q] = pc[q] /\ job'[q] = job[q]
                      /\ seq'[q] = seq[q] /\ logSeq'[q] = logSeq[q]
\* Steps that write nothing and bring no handler to the logging phase.
<1>1. ASSUME UNCHANGED <<messages, rows, acks, live>>,
             \A q \in Requests : pc'[q] \in Logging => Same(q)
      PROVE  Exactly'
  <2>1. \A q \in Requests : Owner(q)' => Owner(q)
    BY <1>1 DEF Owner
  <2>2. KeyUnique' /\ AckStored' /\ RowStored' /\ LoggedOnce' /\ EmittedIsLogged'
    BY <1>1 DEF KeyUnique, AckStored, RowStored, StoredFor, LoggedOnce,
         EmittedIsLogged, MessageRows
  <2>3. OwnerStored' /\ OwnerUnique'
    BY <1>1, <2>1 DEF OwnerStored, OwnerUnique, Owner, StoredFor
  <2>4. NotYetLogged'
    BY <1>1, <2>1 DEF NotYetLogged, MessageRows, Owner
  <2>5. EmitLogged'
    BY <1>1 DEF EmitLogged, Row
  <2> QED
    BY <2>2, <2>3, <2>4, <2>5
<1> USE DEF TypeInv, TypeOK
<1>2. ASSUME NEW r \in Requests, SendStep(r) PROVE Exactly'
  <2>1. ASSUME NEW j \in SendJobs, SendNew(r, j) \/ SendDuplicate(r, j)
        PROVE  Exactly'
    BY <1>1, <2>1 DEF SendNew, SendDuplicate, Accept, Goto
  <2>2. CASE NextSeq(r)
    BY <1>1, <2>2 DEF NextSeq, Goto
  <2>3. CASE PersistConflict(r)
    BY <1>1, <2>3 DEF PersistConflict, Restart
  <2>4. CASE AckDuplicate(r)
    <3>1. /\ UNCHANGED <<messages, rows, live, job, seq, logSeq>>
          /\ pc' = [pc EXCEPT ![r] = "done"]
          /\ acks' = acks \union DuplicateAcks(job[r])
      BY <2>4 DEF AckDuplicate, Goto
    <3>2. \A a \in DuplicateAcks(job[r]) :
            a.duplicate /\ (a.seq # 0 => StoredFor(a, a.seq) \in messages)
      <4>1. ASSUME NEW m \in Originals(job[r])
            PROVE  StoredFor(Ack(job[r], m.seq, TRUE), m.seq) = m
        BY DEF Originals, StoredFor, Ack, Messages
      <4> QED
        BY <4>1 DEF DuplicateAcks, Ack, Originals
    <3>3. AckStored'
      BY <3>1, <3>2 DEF AckStored, StoredFor
    <3>4. EmittedIsLogged'
      BY <3>1, <3>2 DEF EmittedIsLogged, MessageRows
    <3>5. KeyUnique' /\ RowStored' /\ LoggedOnce'
      BY <3>1 DEF KeyUnique, RowStored, StoredFor, LoggedOnce, MessageRows
    <3>6. OwnerStored' /\ OwnerUnique' /\ NotYetLogged' /\ EmitLogged'
      BY <3>1 DEF OwnerStored, OwnerUnique, Owner, StoredFor, NotYetLogged,
           MessageRows, EmitLogged, Row
    <3> QED
      BY <3>3, <3>4, <3>5, <3>6
  <2>5. CASE PersistMessage(r)
    <3>1. /\ UNCHANGED <<rows, acks, live, job, seq, logSeq>>
          /\ pc[r] = "persist" /\ pc' = [pc EXCEPT ![r] = "append"]
          /\ messages' = messages \union {StoredFor(job[r], seq[r])}
          /\ \A m \in messages : m.key # job[r].key
          /\ job[r] \in SendJobs
      BY <2>5 DEF PersistMessage, Goto, KeyTaken, Persisted, StoredFor, KindOf
    <3>2. KeyUnique'
      BY <3>1 DEF KeyUnique, StoredFor
    <3>3. /\ RowStored' /\ AckStored' /\ EmittedIsLogged' /\ LoggedOnce'
      BY <3>1 DEF RowStored, AckStored, StoredFor, EmittedIsLogged, LoggedOnce,
           MessageRows
    <3>4. \A q \in Requests : q # r => (Owner(q)' <=> Owner(q))
      BY <3>1 DEF Owner
    <3>5. OwnerStored'
      BY <3>1, <3>4 DEF OwnerStored, StoredFor
    \* No other owner and no row can have a key that was not persisted.
    <3>6. \A q \in Requests : Owner(q) => job[q].key # job[r].key
      BY <3>1 DEF OwnerStored, StoredFor
    <3>7. OwnerUnique'
      BY <3>1, <3>4, <3>6 DEF OwnerUnique
    <3>8. MessageRows(job[r].key) = {}
      BY <3>1 DEF MessageRows, RowStored, StoredFor
    <3>9. NotYetLogged'
      BY <3>1, <3>4, <3>8 DEF NotYetLogged, MessageRows
    <3>10. EmitLogged'
      BY <3>1 DEF EmitLogged, Row
    <3> QED
      BY <3>2, <3>3, <3>5, <3>7, <3>9, <3>10
  <2> QED
    BY <1>2, <2>1, <2>2, <2>3, <2>4, <2>5 DEF SendStep
<1>3. ASSUME NEW r \in Requests, LogStep(r) PROVE Exactly'
  <2>1. CASE MintLogSeq(r)
    <3>1. /\ UNCHANGED <<messages, rows, acks, live, job, seq>>
          /\ pc[r] = "append" /\ pc' = [pc EXCEPT ![r] = "insert"]
          /\ \A q \in Requests : q # r => logSeq'[q] = logSeq[q]
      BY <2>1 DEF MintLogSeq, AfterMint, Goto
    <3>2. \A q \in Requests : Owner(q)' <=> Owner(q)
      BY <3>1 DEF Owner
    <3>3. KeyUnique' /\ AckStored' /\ RowStored' /\ LoggedOnce' /\ EmittedIsLogged'
      BY <3>1 DEF KeyUnique, AckStored, RowStored, StoredFor, LoggedOnce,
           EmittedIsLogged, MessageRows
    <3>4. OwnerStored' /\ OwnerUnique'
      BY <3>1, <3>2 DEF OwnerStored, OwnerUnique, StoredFor
    <3>5. NotYetLogged'
      BY <3>1, <3>2 DEF NotYetLogged, MessageRows
    <3>6. EmitLogged'
      BY <3>1 DEF EmitLogged, Row
    <3> QED
      BY <3>3, <3>4, <3>5, <3>6
  <2>2. CASE InsertRow(r)
    <3>1. /\ UNCHANGED <<messages, acks, live, job, seq, logSeq>>
          /\ pc[r] = "insert" /\ pc' = [pc EXCEPT ![r] = "emit"]
          /\ rows' = rows \union {Row(r, logSeq[r])}
      BY <2>2 DEF InsertRow, Goto
    <3>2. \A q \in Requests : Owner(q)' <=> Owner(q)
      BY <3>1 DEF Owner
    <3>3. KeyUnique' /\ AckStored' /\ OwnerStored' /\ OwnerUnique'
      BY <3>1, <3>2 DEF KeyUnique, AckStored, StoredFor, OwnerStored, OwnerUnique
    <3>4. RowStored'
      BY <3>1 DEF RowStored, Row, OwnerStored, Owner, StoredFor
    <3>5. \A k : MessageRows(k)' = MessageRows(k)
             \/ /\ job[r].kind = "send" /\ job[r].key = k
                /\ MessageRows(k)' = MessageRows(k) \union {Row(r, logSeq[r])}
      BY <3>1 DEF MessageRows, Row
    <3>6. job[r].kind = "send" => MessageRows(job[r].key) = {}
      BY <3>1 DEF NotYetLogged, Owner
    <3>7. LoggedOnce'
      BY <3>5, <3>6 DEF LoggedOnce
    <3>8. NotYetLogged'
      <4> SUFFICES ASSUME NEW q \in Requests, Owner(q)', pc'[q] # "emit"
                   PROVE  MessageRows(job[q].key)' = {}
        BY <3>1 DEF NotYetLogged
      <4>1. q # r /\ Owner(q) /\ pc[q] # "emit"
        BY <3>1, <3>2
      <4>2. job[r].kind = "send" => job[q].key # job[r].key
        BY <3>1, <4>1 DEF OwnerUnique, Owner
      <4>3. MessageRows(job[q].key) = {}
        BY <4>1 DEF NotYetLogged
      <4>4. /\ \A e \in rows : ~(e.src.kind = "send" /\ e.src.key = job[q].key)
            /\ job' = job
        BY <3>1, <4>3 DEF MessageRows
      <4> QED
        BY <3>1, <4>2, <4>4 DEF MessageRows, Row
    <3>9. EmitLogged'
      BY <3>1 DEF EmitLogged, Row
    <3>10. EmittedIsLogged'
      BY <3>1, <3>5 DEF EmittedIsLogged
    <3> QED
      BY <3>3, <3>4, <3>7, <3>8, <3>9, <3>10
  <2>3. CASE Emit(r)
    <3>1. /\ UNCHANGED <<messages, rows, job, seq, logSeq>>
          /\ pc[r] = "emit" /\ pc' = [pc EXCEPT ![r] = "done"]
          /\ live' = live \union {Row(r, logSeq[r])}
          /\ acks' = IF job[r].kind = "send"
                     THEN acks \union {Ack(job[r], seq[r], FALSE)} ELSE acks
      BY <2>3 DEF Emit, Goto
    <3>2. \A q \in Requests : Owner(q)' => Owner(q) /\ q # r
      BY <3>1 DEF Owner
    <3>3. KeyUnique' /\ RowStored' /\ LoggedOnce'
      BY <3>1 DEF KeyUnique, RowStored, StoredFor, LoggedOnce, MessageRows
    <3>4. OwnerStored' /\ OwnerUnique' /\ NotYetLogged' /\ EmitLogged'
      BY <3>1, <3>2 DEF OwnerStored, OwnerUnique, StoredFor, NotYetLogged,
           MessageRows, EmitLogged, Row
    <3>5. Row(r, logSeq[r]) \in rows
      BY <3>1 DEF EmitLogged
    <3>6. AckStored'
      BY <3>1 DEF AckStored, Ack, StoredFor, OwnerStored, Owner
    <3>7. EmittedIsLogged'
      BY <3>1, <3>5 DEF EmittedIsLogged, Ack, MessageRows, Row
    <3> QED
      BY <3>3, <3>4, <3>6, <3>7
  <2> QED
    BY <1>3, <2>1, <2>2, <2>3 DEF LogStep
<1>4. ASSUME NEW r \in Requests, ReceiptStep(r) PROVE Exactly'
  <2>1. ASSUME NEW j \in DeliveredJobs, Delivered(r, j) PROVE Exactly'
    BY <1>1, <2>1 DEF Delivered, Accept, Goto
  <2>2. ASSUME NEW j \in ReadJobs, Read(r, j) PROVE Exactly'
    BY <1>1, <2>2 DEF Read, Accept, Goto
  <2>3. ASSUME UNCHANGED <<messages, rows, acks, live, job, logSeq>>,
               job[r].kind # "send", pc[r] \notin Logging,
               \A q \in Requests : q # r => pc'[q] = pc[q] /\ seq'[q] = seq[q],
               pc'[r] # "emit"
        PROVE  Exactly'
    <3>1. \A q \in Requests : Owner(q)' <=> Owner(q)
      BY <2>3 DEF Owner
    <3>2. KeyUnique' /\ AckStored' /\ RowStored' /\ LoggedOnce' /\ EmittedIsLogged'
      BY <2>3 DEF KeyUnique, AckStored, RowStored, StoredFor, LoggedOnce,
           EmittedIsLogged, MessageRows
    <3>3. OwnerStored' /\ OwnerUnique'
      BY <2>3, <3>1 DEF OwnerStored, OwnerUnique, StoredFor, Owner
    <3>4. NotYetLogged'
      BY <2>3, <3>1 DEF NotYetLogged, MessageRows, Owner
    <3>5. EmitLogged'
      BY <2>3 DEF EmitLogged, Row
    <3> QED
      BY <3>2, <3>3, <3>4, <3>5
  <2>4. CASE FindMessage(r)
    <3>1. job[r].kind # "send" /\ pc[r] \notin Logging
      BY <2>4 DEF FindMessage, KindOf, DeliveredJobs
    <3> QED
      BY <2>3, <2>4, <3>1 DEF FindMessage, Goto
  <2>5. CASE LatestSeq(r)
    <3>1. job[r].kind # "send" /\ pc[r] \notin Logging
      BY <2>5 DEF LatestSeq, KindOf, ReadJobs
    <3> QED
      BY <2>3, <2>5, <3>1 DEF LatestSeq, Goto
  <2> QED
    BY <1>4, <2>1, <2>2, <2>4, <2>5 DEF ReceiptStep
<1>5. ASSUME NEW r \in Requests, SyncStep(r) PROVE Exactly'
  <2>1. ASSUME NEW j, Sync(r, j) PROVE Exactly'
    BY <1>1, <2>1 DEF Sync, Accept, Goto
  <2>2. CASE EventsSince(r) \/ LatestLogSeq(r) \/ Respond(r)
    BY <1>1, <2>2 DEF EventsSince, LatestLogSeq, Respond, Goto
  <2> QED
    BY <1>5, <2>1, <2>2 DEF SyncStep
<1>6. ASSUME NEW r \in Requests, RequestRefused(r) PROVE Exactly'
  BY <1>1, <1>6 DEF RequestRefused, Goto
<1>7. ASSUME Crash PROVE Exactly'
  BY <1>1, <1>7 DEF Crash, Restart
<1>8. ASSUME UNCHANGED vars PROVE Exactly'
  BY <1>1, <1>8 DEF vars
<1> QED
  BY <1>0, <1>2, <1>3, <1>4, <1>5, <1>6, <1>7, <1>8 DEF Next

\* Nothing is stored, logged or emitted initially.
LEMMA PipelineInit == Init => PipelineInv
<1> SUFFICES ASSUME Init PROVE PipelineInv
  OBVIOUS
<1>1. TypeInv
  BY DEF Init, TypeInv, TypeOK, KindOf, Labels, NoJob, EmptyPage, Pages
<1>2. Exactly
  BY DEF Init, Exactly, KeyUnique, OwnerStored, OwnerUnique, RowStored, Owner,
       NotYetLogged, EmitLogged, AckStored, LoggedOnce, EmittedIsLogged,
       MessageRows, Logging
<1> QED
  BY <1>1, <1>2 DEF PipelineInv

\* Over the Supabase store, whatever is retried, reordered, evicted from the
\* dedup window or lost in a crash, the exactly-once invariant holds.
THEOREM PipelineInvariant ==
    ASSUME Backend = "supabase"
    PROVE  Spec => []PipelineInv
<1>1. PipelineInv /\ [Next]_vars => PipelineInv'
  BY PipelineStep
<1> QED
  BY PipelineInit, <1>1, PTL DEF Spec

\* The event log holds at most one message.new per (message, device).
THEOREM LoggedOnceTheorem ==
    ASSUME Backend = "supabase"
    PROVE  Spec => []LoggedOnce
<1>1. PipelineInv => LoggedOnce
  BY DEF PipelineInv, Exactly
<1> QED
  BY PipelineInvariant, <1>1, PTL

\* A first ack and a live event are only emitted for what the log can replay.
THEOREM EmittedIsLoggedTheorem ==
    ASSUME Backend = "supabase"
    PROVE  Spec => []EmittedIsLogged
<1>1. PipelineInv => EmittedIsLogged
  BY DEF PipelineInv, Exactly
<1> QED
  BY PipelineInvariant, <1>1, PTL

\* All sequenced acks of a message agree.
THEOREM AcksAgreeTheorem ==
    ASSUME Backend = "supabase"
    PROVE  Spec => []AcksAgree
<1>1. PipelineInv => AcksAgree
  BY DEF PipelineInv, Exactly, AcksAgree, AckStored, KeyUnique, StoredFor
<1> QED
  BY PipelineInvariant, <1>1, PTL

-----------------------------------------------------------------------------
\* A log_seq that was minted but not yet inserted belongs to one handler.
Minted ==
    /\ \A r \in Requests : pc[r] = "insert" =>
          /\ logSeq[r] \in 1 .. logCursor[job[r].conv]
          /\ \A e \in rows : e.conv = job[r].conv => e.logSeq # logSeq[r]
    /\ \A r, q \in Requests :
          (/\ pc[r] = "insert" /\ pc[q] = "insert"
           /\ job[r].conv = job[q].conv /\ logSeq[r] = logSeq[q]) => r = q

LogInv == TypeInv /\ Minted /\ LogSeqUnique

\* Minting and inserting are two steps over Supabase, yet no interleaving of
\* handlers puts two rows of a conversation at one position.
LEMMA LogStepLemma == LogInv /\ [Next]_vars => LogInv'
<1> SUFFICES ASSUME LogInv, [Next]_vars PROVE LogInv'
  OBVIOUS
<1>0. TypeInv'
  BY TypeStep DEF LogInv
<1> USE DEF LogInv, Minted, LogSeqUnique, store, dedup, history, locals
<1> DEFINE Rest == Minted /\ LogSeqUnique
<1>1. ASSUME UNCHANGED <<rows, logCursor>>,
             \A q \in Requests : pc'[q] = "insert" =>
                /\ pc[q] = "insert" /\ job'[q] = job[q] /\ logSeq'[q] = logSeq[q]
      PROVE  Rest'
  BY <1>1
<1> USE DEF TypeInv, TypeOK
<1>2. ASSUME Restart PROVE Rest'
  <2>1. \A q \in Requests : pc'[q] # "insert"
    BY <1>2 DEF Restart
  <2>2. CASE Backend = "supabase"
    BY <1>1, <1>2, <2>1, <2>2 DEF Restart
  <2>3. CASE Backend # "supabase"
    BY <1>2, <2>1, <2>3 DEF Restart
  <2> QED
    BY <2>2, <2>3
<1>3. ASSUME NEW r \in Requests, SendStep(r) PROVE Rest'
  <2>1. ASSUME NEW j \in SendJobs, SendNew(r, j) \/ SendDuplicate(r, j)
        PROVE  Rest'
    BY <1>1, <2>1 DEF SendNew, SendDuplicate, Accept, Goto
  <2>2. CASE AckDuplicate(r) \/ NextSeq(r) \/ PersistMessage(r)
    BY <1>1, <2>2 DEF AckDuplicate, NextSeq, PersistMessage, Goto
  <2>3. CASE PersistConflict(r)
    BY <1>2, <2>3 DEF PersistConflict
  <2> QED
    BY <1>3, <2>1, <2>2, <2>3 DEF SendStep
<1>4. ASSUME NEW r \in Requests, LogStep(r) PROVE Rest'
  <2>1. job[r].conv \in Conversations
    BY <1>4 DEF LogStep, MintLogSeq, InsertRow, Emit, KindOf, SendJobs,
         DeliveredJobs, ReadJobs
  <2>2. \A e \in rows : e.conv \in Conversations /\ e.logSeq \in Nat
    BY DEF Rows
  <2>3. CASE MintLogSeq(r)
    <3> DEFINE n == logCursor[job[r].conv] + 1
    <3>1. /\ pc[r] = "append" /\ job' = job
          /\ logCursor' = [logCursor EXCEPT ![job[r].conv] = n]
          /\ logSeq' = [logSeq EXCEPT ![r] = n]
      BY <2>3 DEF MintLogSeq, MintedSeq
    <3>2. \A q \in Requests : q # r => pc'[q] = pc[q]
      BY <2>3 DEF MintLogSeq, Goto
    <3>3. \A e \in rows : e.conv = job[r].conv => e.logSeq < n
      BY <2>1, <2>2
    <3>4. \A q \in Requests :
            pc[q] = "insert" /\ job[q].conv = job[r].conv => logSeq[q] < n
      BY <2>1
    <3>5. \A q \in Requests : pc[q] = "insert" => job[q].conv \in Conversations
      BY DEF KindOf, SendJobs, DeliveredJobs, ReadJobs
    <3>6. CASE Backend = "memory"
      <4>1. /\ pc'[r] = "emit"
            /\ rows' = rows \union {Row(r, n)}
        BY <2>3, <3>6 DEF MintLogSeq, MintedSeq, AfterMint, Goto
      <4>2. Row(r, n).conv = job[r].conv /\ Row(r, n).logSeq = n
        BY DEF Row
      <4>3. LogSeqUnique'
        BY <2>1, <2>2, <3>1, <3>3, <4>1, <4>2
      <4>4. Minted'
        BY <2>1, <3>1, <3>2, <3>4, <3>5, <4>1, <4>2
      <4> QED
        BY <4>3, <4>4
    <3>7. CASE Backend # "memory"
      <4>1. pc'[r] = "insert" /\ rows' = rows
        BY <2>3, <3>7 DEF MintLogSeq, AfterMint, Goto
      <4>2. LogSeqUnique'
        BY <2>1, <2>2, <3>1, <4>1
      <4>3. Minted'
        BY <2>1, <3>1, <3>2, <3>3, <3>4, <3>5, <4>1
      <4> QED
        BY <4>2, <4>3
    <3> QED
      BY <3>6, <3>7
  <2>4. CASE InsertRow(r)
    <3>1. /\ pc[r] = "insert" /\ pc' = [pc EXCEPT ![r] = "emit"]
          /\ rows' = rows \union {Row(r, logSeq[r])}
          /\ UNCHANGED <<job, logSeq, logCursor>>
      BY <2>4 DEF InsertRow, Goto
    <3>2. Row(r, logSeq[r]).conv = job[r].conv
          /\ Row(r, logSeq[r]).logSeq = logSeq[r]
      BY DEF Row
    <3>3. LogSeqUnique'
      BY <3>1, <3>2
    <3>4. Minted'
      BY <3>1, <3>2
    <3> QED
      BY <3>3, <3>4
  <2>5. CASE Emit(r)
    BY <1>1, <2>5 DEF Emit, Goto
  <2> QED
    BY <1>4, <2>3, <2>4, <2>5 DEF LogStep
<1>5. ASSUME NEW r \in Requests, ReceiptStep(r) PROVE Rest'
  <2>1. ASSUME NEW j, Delivered(r, j) \/ Read(r, j) PROVE Rest'
    BY <1>1, <2>1 DEF Delivered, Read, Accept, Goto
  <2>2. CASE FindMessage(r) \/ LatestSeq(r)
    BY <1>1, <2>2 DEF FindMessage, LatestSeq, Goto
  <2> QED
    BY <1>5, <2>1, <2>2 DEF ReceiptStep
<1>6. ASSUME NEW r \in Requests, SyncStep(r) PROVE Rest'
  <2>1. ASSUME NEW j, Sync(r, j) PROVE Rest'
    BY <1>1, <2>1 DEF Sync, Accept, Goto
  <2>2. CASE EventsSince(r) \/ LatestLogSeq(r) \/ Respond(r)
    BY <1>1, <2>2 DEF EventsSince, LatestLogSeq, Respond, Goto
  <2> QED
    BY <1>6, <2>1, <2>2 DEF SyncStep
<1>7. ASSUME NEW r \in Requests, RequestRefused(r) PROVE Rest'
  BY <1>1, <1>7 DEF RequestRefused, Goto
<1>8. ASSUME Crash PROVE Rest'
  BY <1>2, <1>8 DEF Crash
<1>9. ASSUME UNCHANGED vars PROVE Rest'
  BY <1>1, <1>9 DEF vars
<1> QED
  BY <1>0, <1>3, <1>4, <1>5, <1>6, <1>7, <1>8, <1>9 DEF Next

\* log_seq, the sync cursor, is unique per conversation, for both stores.
THEOREM LogSeqTheorem == Spec => []LogSeqUnique
<1>1. Init => LogInv
  BY PipelineInit DEF PipelineInv, LogInv, Minted, LogSeqUnique, Init
<1>2. LogInv /\ [Next]_vars => LogInv'
  BY LogStepLemma
<1>3. LogInv => LogSeqUnique
  BY DEF LogInv
<1> QED
  BY <1>1, <1>2, <1>3, PTL DEF Spec
-----------------------------------------------------------------------------
\* Every variable of the handlers and of the store keeps its type.
THEOREM PipelineTypes == Spec => []TypeOK
<1>1. Init => TypeInv
  BY PipelineInit DEF PipelineInv
<1>2. TypeInv => TypeOK
  BY DEF TypeInv
<1> QED
  BY <1>1, <1>2, TypeStep, PTL DEF Spec

-----------------------------------------------------------------------------
\* What a receipt with source src and sequence n says of conversation c is
\* true: the message it confirms is stored, the read mark exists.
NamesMessage(src, c, n) ==
    src.kind = "delivered" =>
        \E m \in messages : /\ m.key[1] = src.id /\ m.conv = c
                            /\ m.account # src.account /\ m.seq = n

MarkExists(src, c, n) == src.kind = "read" => n <= seqCursor[c]

Justified(src, c, n) == NamesMessage(src, c, n) /\ MarkExists(src, c, n)

\* It is true from the lookup on, through both steps of the append, although
\* sends and crashes go on in between.
ReceiptInv ==
    /\ \A e \in rows : Justified(e.src, e.conv, e.seq)
    /\ \A r \in Requests : pc[r] \in {"append", "insert"} =>
          Justified(job[r], job[r].conv, seq[r])

\* What is stored is never removed from Supabase and a counter never goes
\* back, so a receipt that was true when it was looked up stays true.
LEMMA ReceiptStepLemma ==
    ASSUME Backend = "supabase", TypeInv, ReceiptInv, [Next]_vars
    PROVE  ReceiptInv'
<1> USE DEF store, dedup, history, locals
<1>1. ASSUME NEW src, NEW c, NEW n, NamesMessage(src, c, n),
             messages \subseteq messages'
      PROVE  NamesMessage(src, c, n)'
  BY <1>1 DEF NamesMessage
<1>2. ASSUME rows' = rows, messages \subseteq messages',
             \A e \in rows : seqCursor[e.conv] <= seqCursor'[e.conv],
             \A e \in rows : e.seq \in Nat /\ seqCursor[e.conv] \in Nat
                              /\ seqCursor'[e.conv] \in Nat,
             \A q \in Requests : pc'[q] \in {"append", "insert"} =>
                Justified(job[q], job[q].conv, seq[q])'
      PROVE  ReceiptInv'
  BY <1>1, <1>2 DEF ReceiptInv, Justified, MarkExists, NamesMessage
<1> USE DEF TypeInv, TypeOK
<1>3. \A e \in rows : e.seq \in Nat /\ e.conv \in Conversations
  BY DEF Rows
\* Steps that leave the store alone and bring no handler to the append.
<1>4. ASSUME UNCHANGED <<messages, rows, seqCursor>>,
             \A q \in Requests : pc'[q] \in {"append", "insert"} =>
                /\ pc[q] \in {"append", "insert"}
                /\ job'[q] = job[q] /\ seq'[q] = seq[q]
      PROVE  ReceiptInv'
  BY <1>4 DEF ReceiptInv, Justified, MarkExists, NamesMessage
<1>5. ASSUME NEW r \in Requests, SendStep(r) PROVE ReceiptInv'
  <2>1. ASSUME NEW j \in SendJobs, SendNew(r, j) \/ SendDuplicate(r, j)
        PROVE  ReceiptInv'
    BY <1>4, <2>1 DEF SendNew, SendDuplicate, Accept, Goto
  <2>2. CASE AckDuplicate(r)
    BY <1>4, <2>2 DEF AckDuplicate, Goto
  <2>3. CASE NextSeq(r)
    <3>1. /\ UNCHANGED <<messages, rows, job>>
          /\ pc' = [pc EXCEPT ![r] = "persist"]
          /\ \A q \in Requests : q # r => seq'[q] = seq[q]
          /\ job[r].conv \in Conversations
          /\ seqCursor' = [seqCursor EXCEPT ![job[r].conv] = @ + 1]
      BY <2>3 DEF NextSeq, NextServerSeq, Goto, KindOf, SendJobs
    <3>2. \A c \in Conversations :
            seqCursor'[c] \in Nat /\ seqCursor[c] <= seqCursor'[c]
      BY <3>1
    <3>3. ASSUME NEW q \in Requests, pc'[q] \in {"append", "insert"}
          PROVE  Justified(job[q], job[q].conv, seq[q])'
      <4>1. /\ q # r /\ pc[q] \in {"append", "insert"}
            /\ job'[q] = job[q] /\ seq'[q] = seq[q]
        BY <3>1, <3>3
      <4>2. job[q].conv \in Conversations
        BY <4>1 DEF KindOf, SendJobs, DeliveredJobs, ReadJobs
      <4>3. Justified(job[q], job[q].conv, seq[q])
        BY <4>1 DEF ReceiptInv
      <4>4. NamesMessage(job[q], job[q].conv, seq[q])'
        BY <3>1, <4>1, <4>3 DEF Justified, NamesMessage
      <4>5. MarkExists(job[q], job[q].conv, seq[q])'
        BY <3>2, <4>1, <4>2, <4>3 DEF Justified, MarkExists
      <4> QED
        BY <4>4, <4>5 DEF Justified
    <3> QED
      BY <1>2, <1>3, <3>1, <3>2, <3>3
  <2>4. CASE PersistMessage(r)
    <3>1. /\ UNCHANGED <<rows, job, seq, seqCursor>>
          /\ pc' = [pc EXCEPT ![r] = "append"]
          /\ messages \subseteq messages'
          /\ job[r].kind = "send"
      BY <2>4 DEF PersistMessage, KeyTaken, Goto, KindOf, SendJobs
    <3>2. ASSUME NEW q \in Requests, pc'[q] \in {"append", "insert"}
          PROVE  Justified(job[q], job[q].conv, seq[q])'
      <4>1. CASE q = r
        BY <3>1, <4>1 DEF Justified, NamesMessage, MarkExists
      <4>2. CASE q # r
        BY <3>1, <3>2, <4>2
           DEF ReceiptInv, Justified, NamesMessage, MarkExists
      <4> QED
        BY <4>1, <4>2
    <3> QED
      BY <1>2, <1>3, <3>1, <3>2
  <2>5. CASE PersistConflict(r)
    BY <1>4, <2>5 DEF PersistConflict, Restart
  <2> QED
    BY <1>5, <2>1, <2>2, <2>3, <2>4, <2>5 DEF SendStep
<1>6. ASSUME NEW r \in Requests, LogStep(r) PROVE ReceiptInv'
  <2>1. CASE MintLogSeq(r)
    BY <1>4, <2>1 DEF MintLogSeq, AfterMint, Goto
  <2>2. CASE InsertRow(r)
    <3>1. /\ UNCHANGED <<messages, seqCursor, job, seq>>
          /\ pc[r] = "insert" /\ pc' = [pc EXCEPT ![r] = "emit"]
          /\ rows' = rows \union {Row(r, logSeq[r])}
      BY <2>2 DEF InsertRow, Goto
    <3>2. Justified(job[r], job[r].conv, seq[r])
      BY <3>1 DEF ReceiptInv
    <3> QED
      BY <3>1, <3>2 DEF ReceiptInv, Justified, NamesMessage, MarkExists, Row
  <2>3. CASE Emit(r)
    BY <1>4, <2>3 DEF Emit, Goto
  <2> QED
    BY <1>6, <2>1, <2>2, <2>3 DEF LogStep
<1>7. ASSUME NEW r \in Requests, ReceiptStep(r) PROVE ReceiptInv'
  <2>1. ASSUME NEW j, Delivered(r, j) \/ Read(r, j) PROVE ReceiptInv'
    BY <1>4, <2>1 DEF Delivered, Read, Accept, Goto
  <2>2. CASE FindMessage(r)
    <3>1. CASE ReceiptTargets(job[r]) = {}
      BY <1>4, <2>2, <3>1 DEF FindMessage, Goto
    <3>2. ASSUME NEW m \in ReceiptTargets(job[r]),
                 seq' = [seq EXCEPT ![r] = m.seq], Goto(r, "append")
          PROVE  ReceiptInv'
      <4>1. /\ UNCHANGED <<messages, rows, seqCursor, job>>
            /\ job[r].kind = "delivered"
        BY <2>2 DEF FindMessage, KindOf, DeliveredJobs
      <4>2. Justified(job[r], job[r].conv, seq[r])'
        BY <3>2, <4>1
           DEF ReceiptTargets, Justified, NamesMessage, MarkExists
      <4>3. \A q \in Requests : q # r => pc'[q] = pc[q] /\ seq'[q] = seq[q]
        BY <3>2 DEF Goto
      <4> QED
        BY <4>1, <4>2, <4>3 DEF ReceiptInv, Justified, NamesMessage, MarkExists
    <3> QED
      BY <2>2, <3>1, <3>2 DEF FindMessage
  <2>3. CASE LatestSeq(r)
    <3>1. /\ UNCHANGED <<messages, rows, seqCursor, job>>
          /\ job[r].kind = "read" /\ job[r].mark \in Int
          /\ job[r].conv \in Conversations
          /\ seq'[r] = Clamp(job[r].mark, seqCursor[job[r].conv])
          /\ \A q \in Requests : q # r => pc'[q] = pc[q] /\ seq'[q] = seq[q]
      BY MarksAssumption, <2>3 DEF LatestSeq, Goto, KindOf, ReadJobs
    <3>2. Justified(job[r], job[r].conv, seq[r])'
      BY <3>1 DEF Justified, NamesMessage, MarkExists, Clamp, Higher, Lower
    <3> QED
      BY <3>1, <3>2 DEF ReceiptInv, Justified, NamesMessage, MarkExists
  <2> QED
    BY <1>7, <2>1, <2>2, <2>3 DEF ReceiptStep
<1>8. ASSUME NEW r \in Requests, SyncStep(r) PROVE ReceiptInv'
  <2>1. ASSUME NEW j, Sync(r, j) PROVE ReceiptInv'
    BY <1>4, <2>1 DEF Sync, Accept, Goto
  <2>2. CASE EventsSince(r) \/ LatestLogSeq(r) \/ Respond(r)
    BY <1>4, <2>2 DEF EventsSince, LatestLogSeq, Respond, Goto
  <2> QED
    BY <1>8, <2>1, <2>2 DEF SyncStep
<1>9. ASSUME NEW r \in Requests, RequestRefused(r) PROVE ReceiptInv'
  BY <1>4, <1>9 DEF RequestRefused, Goto
<1>10. CASE Crash
  BY <1>4, <1>10 DEF Crash, Restart
<1>11. CASE UNCHANGED vars
  BY <1>4, <1>11 DEF vars
<1> QED
  BY <1>5, <1>6, <1>7, <1>8, <1>9, <1>10, <1>11 DEF Next

\* Every receipt in the log is true when it is written and stays true.
THEOREM ReceiptInvariant ==
    ASSUME Backend = "supabase"
    PROVE  Spec => [](TypeInv /\ ReceiptInv)
<1>1. Init => TypeInv /\ ReceiptInv
  BY PipelineInit DEF PipelineInv, Init, ReceiptInv
<1>2. TypeInv /\ ReceiptInv /\ [Next]_vars => (TypeInv /\ ReceiptInv)'
  BY TypeStep, ReceiptStepLemma
<1> QED
  BY <1>1, <1>2, PTL DEF Spec

\* A delivered receipt in the log names a stored message of another account.
THEOREM ReceiptTheorem ==
    ASSUME Backend = "supabase"
    PROVE  Spec => []ReceiptNamesMessage
<1>1. ReceiptInv => ReceiptNamesMessage
  BY DEF ReceiptInv, Justified, NamesMessage, ReceiptNamesMessage
<1> QED
  BY ReceiptInvariant, <1>1, PTL

\* A read mark in the log never runs ahead of its conversation.
THEOREM ReadMarkTheorem ==
    ASSUME Backend = "supabase"
    PROVE  Spec => []ReadMarkExists
<1>1. ReceiptInv => ReadMarkExists
  BY DEF ReceiptInv, Justified, MarkExists, ReadMarkExists
<1> QED
  BY ReceiptInvariant, <1>1, PTL

-----------------------------------------------------------------------------
(* Paging *)

\* A set of numbers that is not empty has a least element.
LEMMA LeastNumber ==
    ASSUME NEW T \in SUBSET Nat, T # {}
    PROVE  \E x \in T : \A y \in T : x <= y
<1>1. \E x \in T : \A y \in T : ~(<<y, x>> \in OpToRel(<, Nat))
  BY NatLessThanWellFounded, WFMin, Zenon
<1>2. PICK x \in T : \A y \in T : ~(<<y, x>> \in OpToRel(<, Nat))
  BY <1>1, Zenon
<1>3. ASSUME NEW y \in T PROVE x <= y
  <2>1. ~(y < x)
    BY <1>2, Zenon DEF OpToRel
  <2> QED
    BY <2>1
<1> QED
  BY <1>3

\* A bounded one has a greatest.
LEMMA GreatestNumber ==
    ASSUME NEW T \in SUBSET Nat, T # {}, NEW b \in Nat, \A y \in T : y <= b
    PROVE  \E x \in T : \A y \in T : y <= x
<1> DEFINE U == {u \in Nat : \A y \in T : y <= u}
<1>1. PICK u \in U : \A v \in U : u <= v
  <2>1. U \in SUBSET Nat /\ U # {}
    OBVIOUS
  <2> HIDE DEF U
  <2> QED
    BY <2>1, LeastNumber
<1>2. ASSUME u \notin T PROVE FALSE
  <2>1. \A y \in T : y < u
    BY <1>2
  <2>2. PICK y \in T : y < u
    BY <2>1
  <2>3. u - 1 \in Nat /\ \A z \in T : z <= u - 1
    BY <2>1, <2>2
  <2> QED
    BY <1>1, <2>3
<1> QED
  BY <1>2

\* The first events of a log after n, as eventsSince returns them.
FirstAfter(known, n) ==
    LET later == {k \in known : k > n}
    IN  {k \in later : Cardinality({i \in later : i <= k}) <= PageLimit}

\* A page that is cut is cut after its last event: no other event of the log
\* is at or before it.  A page that is not full holds every event.
LEMMA PageIsPrefix ==
    ASSUME NEW known \in SUBSET Nat, NEW b \in Nat, \A k \in known : k <= b,
           NEW from \in Nat, NEW n \in known, from < n,
           LET events == FirstAfter(known, from)
           IN  Cardinality(events) = PageLimit =>
                  n <= CHOOSE x \in events : \A k \in events : k <= x
    PROVE  n \in FirstAfter(known, from)
<1> DEFINE later == {k \in known : k > from}
           Upto(k) == {i \in later : i <= k}
           events == {k \in later : Cardinality(Upto(k)) <= PageLimit}
<1>1. events = FirstAfter(known, from)
  BY DEF FirstAfter
<1>2. /\ later \in SUBSET Nat /\ events \subseteq later /\ n \in later
      /\ \A k \in later : k <= b
  OBVIOUS
<1>3. IsFiniteSet(later)
  <2> HIDE DEF later
  <2> QED
    BY <1>2, FS_BoundedSetOfNaturals
<1>4. \A S \in SUBSET later : IsFiniteSet(S) /\ Cardinality(S) \in Nat
  BY <1>3, FS_Subset, FS_CardinalityType
<1>5. \A S, T \in SUBSET later : S \subseteq T => Cardinality(S) <= Cardinality(T)
  BY <1>4, FS_Subset
<1>6. \A k \in later : Upto(k) \in SUBSET later
  OBVIOUS
<1>7. \A k \in events, i \in later : i <= k => i \in events
  <2> SUFFICES ASSUME NEW k \in events, NEW i \in later, i <= k
               PROVE  i \in events
    OBVIOUS
  <2>1. Upto(i) \subseteq Upto(k)
    BY <1>2
  <2>2. Cardinality(Upto(i)) <= Cardinality(Upto(k))
    BY <1>2, <1>5, <1>6, <2>1
  <2>3. Cardinality(Upto(k)) <= PageLimit
    OBVIOUS
  <2>4. Cardinality(Upto(i)) \in Nat /\ Cardinality(Upto(k)) \in Nat
    BY <1>2, <1>4, <1>6
  <2> HIDE DEF Upto
  <2>5. Cardinality(Upto(i)) <= PageLimit
    BY <2>2, <2>3, <2>4, PageAssumption
  <2> QED
    BY <2>5
<1>8. \A k \in later : k \in events <=> Cardinality(Upto(k)) <= PageLimit
  OBVIOUS
<1>9. PageLimit \in Nat \ {0}
  BY PageAssumption
<1> HIDE DEF later, Upto, events
<1>10. ASSUME n \notin events PROVE FALSE
  <2> DEFINE rest == later \ events
  <2>1. PICK x \in rest : \A y \in rest : x <= y
    <3>1. rest \in SUBSET Nat /\ rest # {}
      BY <1>2, <1>10
    <3> HIDE DEF rest
    <3> QED
      BY <3>1, LeastNumber
  <2>2. x \in later /\ x \notin events /\ x \in Nat
    BY <1>2, <2>1
  <2>3. \A i \in later : i < x <=> i \in events
    BY <1>2, <1>7, <2>1, <2>2
  <2>4. Upto(x) = events \union {x}
    <3>1. \A i \in later : i <= x <=> i \in events \/ i = x
      BY <1>2, <2>2, <2>3
    <3> QED
      BY <1>2, <2>2, <3>1 DEF Upto
  <2>5. Cardinality(Upto(x)) = Cardinality(events) + 1
    BY <1>2, <1>4, <2>2, <2>4, FS_AddElement
  <2>6. Cardinality(events) \in Nat /\ Cardinality(events) >= PageLimit
    <3>1. ~(Cardinality(Upto(x)) <= PageLimit)
      BY <1>8, <2>2
    <3>2. Cardinality(events) \in Nat
      BY <1>2, <1>4
    <3> QED
      BY <1>9, <2>5, <3>1, <3>2
  <2>7. events # {}
    <3>1. Cardinality(events) # 0
      BY <1>9, <2>6
    <3> QED
      BY <3>1, FS_EmptySet
  <2>8. PICK k \in events : \A y \in events : y <= k
    <3>1. events \in SUBSET Nat /\ \A y \in events : y <= b
      BY <1>2
    <3> QED
      BY <2>7, <3>1, GreatestNumber
  <2>9. events \subseteq Upto(k)
    BY <1>2, <2>8 DEF Upto
  <2>10. Cardinality(events) <= Cardinality(Upto(k))
    BY <1>2, <1>5, <1>6, <2>9
  <2>11. Cardinality(events) = PageLimit
    <3>1. Cardinality(Upto(k)) <= PageLimit /\ Cardinality(Upto(k)) \in Nat
      BY <1>2, <1>4, <1>6, <1>8
    <3> QED
      BY <1>9, <2>6, <2>10, <3>1
  <2> DEFINE last == CHOOSE z \in events : \A y \in events : y <= z
  <2>12. last \in events
    BY <2>8
  <2>13. n <= last
    BY <1>1, <2>11
  <2> QED
    BY <1>2, <1>7, <1>10, <2>12, <2>13
<1> QED
  BY <1>1, <1>10

\* A page that was read holds the first events of what the log held then.
PageRead(p, from) ==
    /\ p.events = FirstAfter(p.known, from)
    /\ \E b \in Nat : \A k \in p.known : k <= b

\* The inductive strengthening of PageSkipsNothingLogged: the page a handler
\* carries to its response, and every response.
PageInv ==
    /\ \A r \in Requests : pc[r] \in {"latestLogSeq", "respond"} =>
          PageRead(page[r], job[r].from)
    /\ \A p \in responses : PageRead(p.page, p.from)

\* A step that leaves the handlers with a page, and the responses, alone.
LEMMA PageQuiet ==
    ASSUME PageInv, responses' = responses,
           \A r \in Requests : pc'[r] \in {"latestLogSeq", "respond"} =>
              pc'[r] = pc[r] /\ page'[r] = page[r] /\ job'[r] = job[r]
    PROVE  PageInv'
  BY DEF PageInv

LEMMA PageStepLemma ==
    ASSUME LogInv, PageInv, [Next]_vars PROVE PageInv'
<1> USE DEF store, dedup, history, locals
<1>0. TypeOK /\ KindOf /\ LogSeqUnique
  BY DEF LogInv, TypeInv
<1>1. pc \in [Requests -> Labels] /\ page \in [Requests -> Pages]
  BY <1>0 DEF TypeOK
<1>2. ASSUME NEW r \in Requests, NEW l \in Labels \ {"latestLogSeq", "respond"},
             Goto(r, l), UNCHANGED <<page, responses>>,
             job' = job \/ \E j : job' = [job EXCEPT ![r] = j]
      PROVE  PageInv'
  <2>1. \A q \in Requests : q # r => pc'[q] = pc[q] /\ job'[q] = job[q]
    BY <1>0, <1>2 DEF Goto, TypeOK
  <2>2. pc'[r] = l
    BY <1>1, <1>2 DEF Goto
  <2> QED
    BY <1>2, <2>1, <2>2, PageQuiet
<1>3. CASE Restart
  <2>1. /\ \A q \in Requests : pc'[q] \notin {"latestLogSeq", "respond"}
        /\ responses' = responses
    BY <1>3 DEF Restart
  <2> QED
    BY <2>1, PageQuiet
<1>4. ASSUME NEW r \in Requests, RequestRefused(r) PROVE PageInv'
  BY <1>2, <1>4 DEF RequestRefused, Labels
<1>5. ASSUME NEW r \in Requests, SendStep(r) PROVE PageInv'
  <2>1. ASSUME NEW j \in SendJobs, SendNew(r, j) \/ SendDuplicate(r, j)
        PROVE  PageInv'
    BY <1>2, <2>1 DEF SendNew, SendDuplicate, Accept, Labels
  <2>2. CASE AckDuplicate(r) \/ NextSeq(r) \/ PersistMessage(r)
    BY <1>2, <2>2 DEF AckDuplicate, NextSeq, PersistMessage, Labels
  <2>3. CASE PersistConflict(r)
    BY <1>3, <2>3 DEF PersistConflict
  <2> QED
    BY <1>5, <2>1, <2>2, <2>3 DEF SendStep
<1>6. ASSUME NEW r \in Requests, LogStep(r) PROVE PageInv'
  BY <1>2, <1>6 DEF LogStep, MintLogSeq, InsertRow, Emit, AfterMint, Labels
<1>7. ASSUME NEW r \in Requests, ReceiptStep(r) PROVE PageInv'
  <2>1. ASSUME NEW j, Delivered(r, j) \/ Read(r, j) PROVE PageInv'
    BY <1>2, <2>1 DEF Delivered, Read, Accept, Labels
  <2>2. CASE FindMessage(r) \/ LatestSeq(r)
    BY <1>2, <2>2 DEF FindMessage, LatestSeq, Labels
  <2> QED
    BY <1>7, <2>1, <2>2 DEF ReceiptStep
<1>8. ASSUME NEW r \in Requests, SyncStep(r) PROVE PageInv'
  <2>1. ASSUME NEW j, Sync(r, j) PROVE PageInv'
    BY <1>2, <2>1 DEF Sync, Accept, Labels
  <2>2. CASE EventsSince(r)
    <3>1. job[r] \in SyncJobs
      BY <1>0, <2>2 DEF EventsSince, KindOf
    <3>2. job[r].conv \in Conversations /\ job[r].from \in Nat
      BY <3>1 DEF SyncJobs
    <3> DEFINE known == LogSeqs(job[r].conv)
    <3>3. /\ page'[r].known = known
          /\ page'[r].events = EventsAfter(job[r].conv, job[r].from)
      BY <1>1, <2>2 DEF EventsSince, Pages
    <3>4. /\ \A q \in Requests : q # r => pc'[q] = pc[q] /\ page'[q] = page[q]
          /\ UNCHANGED <<job, responses>>
      BY <1>1, <2>2 DEF EventsSince, Goto
    <3>5. EventsAfter(job[r].conv, job[r].from) = FirstAfter(known, job[r].from)
      BY DEF EventsAfter, FirstAfter
    <3>6. \A k \in known : k <= logCursor[job[r].conv]
      BY <1>0, <3>2 DEF LogSeqs, LogSeqUnique, TypeOK
    <3>7. logCursor[job[r].conv] \in Nat
      BY <1>0, <3>2 DEF TypeOK
    <3> HIDE DEF known
    <3>8. PageRead(page'[r], job[r].from)
      BY <3>3, <3>5, <3>6, <3>7 DEF PageRead
    <3> QED
      BY <3>4, <3>8 DEF PageInv
  <2>3. CASE LatestLogSeq(r)
    <3>1. /\ page'[r].events = page[r].events /\ page'[r].known = page[r].known
          /\ \A q \in Requests : q # r => pc'[q] = pc[q] /\ page'[q] = page[q]
          /\ pc[r] = "latestLogSeq"
          /\ UNCHANGED <<job, responses>>
      BY <1>1, <2>3 DEF LatestLogSeq, Goto, Pages
    <3>2. PageRead(page'[r], job[r].from)
      BY <3>1 DEF PageInv, PageRead
    <3> QED
      BY <3>1, <3>2 DEF PageInv
  <2>4. CASE Respond(r)
    <3> DEFINE p == [conv |-> job[r].conv, from |-> job[r].from, page |-> page[r]]
    <3>1. /\ responses' = responses \union {p}
          /\ \A q \in Requests : q # r => pc'[q] = pc[q]
          /\ pc'[r] = "done" /\ pc[r] = "respond"
          /\ UNCHANGED <<job, page>>
      BY <1>1, <2>4 DEF Respond, Goto
    <3>2. p.page = page[r] /\ p.from = job[r].from
      OBVIOUS
    <3> HIDE DEF p
    <3>3. PageRead(p.page, p.from)
      BY <3>1, <3>2 DEF PageInv
    <3> QED
      BY <3>1, <3>3 DEF PageInv
  <2> QED
    BY <1>8, <2>1, <2>2, <2>3, <2>4 DEF SyncStep
<1>9. CASE Crash
  BY <1>3, <1>9 DEF Crash
<1>10. CASE UNCHANGED vars
  BY <1>10, PageQuiet DEF vars
<1> QED
  BY <1>4, <1>5, <1>6, <1>7, <1>8, <1>9, <1>10 DEF Next

\* Paging loses nothing: for every page limit, and for both stores, the cursor
\* a response carries is past no event that the log held when the page was
\* read and the page leaves out.
THEOREM PageTheorem == Spec => []PageSkipsNothingLogged
<1>1. Init => LogInv /\ PageInv
  BY PipelineInit DEF PipelineInv, Init, LogInv, Minted, LogSeqUnique, PageInv
<1>2. LogInv /\ PageInv /\ [Next]_vars => (LogInv /\ PageInv)'
  BY LogStepLemma, PageStepLemma
<1>3. LogInv /\ PageInv => PageSkipsNothingLogged
  <2> SUFFICES ASSUME LogInv, PageInv, NEW p \in responses,
                      NEW n \in p.page.known, p.from < n, n <= Cursor(p.page)
               PROVE  n \in p.page.events
    BY DEF PageSkipsNothingLogged
  <2>1. p.page \in Pages /\ p.from \in Nat
    BY DEF LogInv, TypeInv, TypeOK
  <2>2. p.page.known \in SUBSET Nat
    BY <2>1 DEF Pages
  <2>3. /\ p.page.events = FirstAfter(p.page.known, p.from)
        /\ \E b \in Nat : \A k \in p.page.known : k <= b
    BY DEF PageInv, PageRead
  <2>4. Cardinality(p.page.events) = PageLimit =>
           n <= CHOOSE x \in p.page.events : \A k \in p.page.events : k <= x
    BY DEF Cursor
  <2>5. PICK b \in Nat : \A k \in p.page.known : k <= b
    BY <2>3
  <2> DEFINE events == FirstAfter(p.page.known, p.from)
  <2>6. p.page.events = events
    BY <2>3
  <2>7. Cardinality(events) = PageLimit =>
           n <= CHOOSE x \in events : \A k \in events : k <= x
    BY <2>4, <2>6, Zenon
  <2>8. n \in events
    BY <2>1, <2>2, <2>5, <2>7, PageIsPrefix, Zenon
  <2> QED
    BY <2>6, <2>8
<1> QED
  BY <1>1, <1>2, <1>3, PTL DEF Spec
-----------------------------------------------------------------------------
(* MessagePipeline over the Supabase store implements ExactlyOnceLog, for  *)
(* any number of handlers, accounts, conversations, messages and crashes.  *)

\* A server_seq names one message of its conversation, stored or on its way.
SeqMinted ==
    /\ \A m \in messages : m.seq \in 1 .. seqCursor[m.conv]
    /\ \A r \in Requests : pc[r] = "persist" =>
          /\ seq[r] \in 1 .. seqCursor[job[r].conv]
          /\ \A m \in messages : m.conv = job[r].conv => m.seq # seq[r]
    /\ \A r, q \in Requests :
          (/\ pc[r] = "persist" /\ pc[q] = "persist"
           /\ job[r].conv = job[q].conv /\ seq[r] = seq[q]) => r = q

\* Until its owner has emitted it, a message was announced to nobody.
NotYetHeard ==
    \A r \in Requests : Owner(r) =>
        \A e \in live : ~(e.src.kind = "send" /\ e.src.key = job[r].key)

RefinementInv == PipelineInv /\ SeqMinted /\ NotYetHeard

-----------------------------------------------------------------------------
\* A minted sequence stays unique: the counter only grows, and a crash ends
\* every handler that held a number not yet stored.
LEMMA SeqMintedStep ==
    ASSUME Backend = "supabase", PipelineInv, SeqMinted, [Next]_vars
    PROVE  SeqMinted'
<1> USE DEF PipelineInv, TypeInv, TypeOK, store, dedup, history, locals
<1>0. \A r \in Requests : pc[r] \in {"nextSeq", "persist"} =>
         job[r] \in SendJobs /\ job[r].conv \in Conversations
  BY DEF KindOf, SendJobs
<1>m. \A m \in messages : m.conv \in Conversations /\ m.seq \in Nat
  BY DEF Messages
\* Steps that touch neither the counter nor the messages and bring no
\* handler to the insertion of a message.
<1>1. ASSUME UNCHANGED <<seqCursor, messages>>,
             \A q \in Requests : pc'[q] = "persist" =>
                /\ pc[q] = "persist" /\ job'[q] = job[q] /\ seq'[q] = seq[q]
      PROVE  SeqMinted'
  BY <1>1 DEF SeqMinted
<1>2. ASSUME NEW r \in Requests, SendStep(r) PROVE SeqMinted'
  <2>1. ASSUME NEW j \in SendJobs, SendNew(r, j) \/ SendDuplicate(r, j)
        PROVE  SeqMinted'
    BY <1>1, <2>1 DEF SendNew, SendDuplicate, Accept, Goto
  <2>2. CASE AckDuplicate(r)
    BY <1>1, <2>2 DEF AckDuplicate, Goto
  <2>3. CASE PersistConflict(r)
    BY <1>1, <2>3 DEF PersistConflict, Restart
  <2>4. CASE NextSeq(r)
    <3> DEFINE c == job[r].conv
               n == seqCursor[c] + 1
    <3>1. /\ pc[r] = "nextSeq" /\ pc' = [pc EXCEPT ![r] = "persist"]
          /\ seqCursor' = [seqCursor EXCEPT ![c] = n]
          /\ seq' = [seq EXCEPT ![r] = n]
          /\ UNCHANGED <<job, messages>>
      BY <2>4 DEF NextSeq, NextServerSeq, Goto
    <3>2. c \in Conversations /\ n \in Nat
      BY <1>0, <3>1
    <3>3. \A m \in messages :
            m.seq \in 1 .. seqCursor'[m.conv] /\ (m.conv = c => m.seq < n)
      BY <1>m, <3>1, <3>2 DEF SeqMinted
    <3>4. \A q \in Requests : pc[q] = "persist" =>
             /\ seq[q] \in 1 .. seqCursor'[job[q].conv]
             /\ job[q].conv = c => seq[q] < n
      BY <1>0, <3>1, <3>2 DEF SeqMinted
    <3> QED
      BY <1>m, <3>1, <3>2, <3>3, <3>4 DEF SeqMinted
  <2>5. CASE PersistMessage(r)
    <3>1. /\ pc[r] = "persist" /\ pc' = [pc EXCEPT ![r] = "append"]
          /\ messages' = messages \union {StoredFor(job[r], seq[r])}
          /\ UNCHANGED <<job, seq, seqCursor>>
      BY <2>5 DEF PersistMessage, Goto, KeyTaken, Persisted, StoredFor
    <3>2. /\ StoredFor(job[r], seq[r]).conv = job[r].conv
          /\ StoredFor(job[r], seq[r]).seq = seq[r]
      BY DEF StoredFor
    <3> QED
      BY <3>1, <3>2 DEF SeqMinted
  <2> QED
    BY <1>2, <2>1, <2>2, <2>3, <2>4, <2>5 DEF SendStep
<1>3. ASSUME NEW r \in Requests, LogStep(r) PROVE SeqMinted'
  BY <1>1, <1>3 DEF LogStep, MintLogSeq, AfterMint, InsertRow, Emit, Goto
<1>4. ASSUME NEW r \in Requests, ReceiptStep(r) PROVE SeqMinted'
  <2>1. ASSUME NEW j, Delivered(r, j) \/ Read(r, j) PROVE SeqMinted'
    BY <1>1, <2>1 DEF Delivered, Read, Accept, Goto
  <2>2. CASE FindMessage(r) \/ LatestSeq(r)
    BY <1>1, <2>2 DEF FindMessage, LatestSeq, Goto
  <2> QED
    BY <1>4, <2>1, <2>2 DEF ReceiptStep
<1>5. ASSUME NEW r \in Requests, SyncStep(r) PROVE SeqMinted'
  <2>1. ASSUME NEW j, Sync(r, j) PROVE SeqMinted'
    BY <1>1, <2>1 DEF Sync, Accept, Goto
  <2>2. CASE EventsSince(r) \/ LatestLogSeq(r) \/ Respond(r)
    BY <1>1, <2>2 DEF EventsSince, LatestLogSeq, Respond, Goto
  <2> QED
    BY <1>5, <2>1, <2>2 DEF SyncStep
<1>6. ASSUME NEW r \in Requests, RequestRefused(r) PROVE SeqMinted'
  BY <1>1, <1>6 DEF RequestRefused, Goto
<1>7. CASE Crash
  BY <1>1, <1>7 DEF Crash, Restart
<1>8. CASE UNCHANGED vars
  BY <1>1, <1>8 DEF vars
<1> QED
  BY <1>2, <1>3, <1>4, <1>5, <1>6, <1>7, <1>8 DEF Next

\* Only Emit announces, and it ends the one handler that owns the key.
LEMMA NotYetHeardStep ==
    ASSUME Backend = "supabase", PipelineInv, NotYetHeard, [Next]_vars
    PROVE  NotYetHeard'
<1> USE DEF PipelineInv, TypeInv, TypeOK, store, dedup, history, locals, Logging
<1>1. ASSUME UNCHANGED live,
             \A q \in Requests : Owner(q)' => Owner(q) /\ job'[q] = job[q]
      PROVE  NotYetHeard'
  BY <1>1 DEF NotYetHeard
<1>2. ASSUME NEW r \in Requests, SendStep(r) PROVE NotYetHeard'
  <2>1. ASSUME NEW j \in SendJobs, SendNew(r, j) \/ SendDuplicate(r, j)
        PROVE  NotYetHeard'
    BY <1>1, <2>1 DEF SendNew, SendDuplicate, Accept, Goto, Owner
  <2>2. CASE AckDuplicate(r) \/ NextSeq(r)
    BY <1>1, <2>2 DEF AckDuplicate, NextSeq, Goto, Owner
  <2>3. CASE PersistConflict(r)
    BY <1>1, <2>3 DEF PersistConflict, Restart, Owner
  <2>4. CASE PersistMessage(r)
    <3>1. /\ UNCHANGED <<live, job>>
          /\ pc[r] = "persist" /\ pc' = [pc EXCEPT ![r] = "append"]
          /\ \A m \in messages : m.key # job[r].key
      BY <2>4 DEF PersistMessage, Goto, KeyTaken
    \* A live event is a row, and a row's key is stored.
    <3>2. \A e \in live : e.src.kind = "send" => e.src.key # job[r].key
      BY <3>1 DEF Exactly, EmittedIsLogged, RowStored, StoredFor
    <3>3. \A q \in Requests : q # r => (Owner(q)' <=> Owner(q))
      BY <3>1 DEF Owner
    <3> QED
      BY <3>1, <3>2, <3>3 DEF NotYetHeard
  <2> QED
    BY <1>2, <2>1, <2>2, <2>3, <2>4 DEF SendStep
<1>3. ASSUME NEW r \in Requests, LogStep(r) PROVE NotYetHeard'
  <2>1. CASE MintLogSeq(r) \/ InsertRow(r)
    BY <1>1, <2>1 DEF MintLogSeq, AfterMint, InsertRow, Goto, Owner
  <2>2. CASE Emit(r)
    <3>1. /\ UNCHANGED job
          /\ pc[r] = "emit" /\ pc' = [pc EXCEPT ![r] = "done"]
          /\ live' = live \union {Row(r, logSeq[r])}
      BY <2>2 DEF Emit, Goto
    <3>2. \A q \in Requests : Owner(q)' => Owner(q) /\ q # r
      BY <3>1 DEF Owner
    <3>3. ASSUME NEW q \in Requests, Owner(q), q # r, job[r].kind = "send"
          PROVE  job[q].key # job[r].key
      BY <3>1, <3>3 DEF Exactly, OwnerUnique, Owner
    <3>4. Row(r, logSeq[r]).src = job[r]
      BY DEF Row
    <3> QED
      BY <3>1, <3>2, <3>3, <3>4 DEF NotYetHeard
  <2> QED
    BY <1>3, <2>1, <2>2 DEF LogStep
<1>4. ASSUME NEW r \in Requests, ReceiptStep(r) PROVE NotYetHeard'
  <2>1. ASSUME NEW j, Delivered(r, j) \/ Read(r, j) PROVE NotYetHeard'
    BY <1>1, <2>1 DEF Delivered, Read, Accept, Goto, Owner
  <2>2. CASE FindMessage(r) \/ LatestSeq(r)
    <3>1. job[r].kind # "send"
      BY <2>2 DEF FindMessage, LatestSeq, KindOf, DeliveredJobs, ReadJobs
    <3> QED
      BY <1>1, <2>2, <3>1 DEF FindMessage, LatestSeq, Goto, Owner
  <2> QED
    BY <1>4, <2>1, <2>2 DEF ReceiptStep
<1>5. ASSUME NEW r \in Requests, SyncStep(r) PROVE NotYetHeard'
  <2>1. ASSUME NEW j, Sync(r, j) PROVE NotYetHeard'
    BY <1>1, <2>1 DEF Sync, Accept, Goto, Owner
  <2>2. CASE EventsSince(r) \/ LatestLogSeq(r) \/ Respond(r)
    BY <1>1, <2>2 DEF EventsSince, LatestLogSeq, Respond, Goto, Owner
  <2> QED
    BY <1>5, <2>1, <2>2 DEF SyncStep
<1>6. ASSUME NEW r \in Requests, RequestRefused(r) PROVE NotYetHeard'
  BY <1>1, <1>6 DEF RequestRefused, Goto, Owner
<1>7. CASE Crash
  BY <1>1, <1>7 DEF Crash, Restart, Owner
<1>8. CASE UNCHANGED vars
  BY <1>1, <1>8 DEF vars, Owner
<1> QED
  BY <1>2, <1>3, <1>4, <1>5, <1>6, <1>7, <1>8 DEF Next

-----------------------------------------------------------------------------
\* What is visible of a set of events or acks after one more was added.
LEMMA OneMoreEvent ==
    ASSUME NEW S, NEW e
    PROVE  /\ e.src.kind = "send" =>
                MessagesIn(S \union {e}) = MessagesIn(S) \union {MessageOf(e)}
           /\ e.src.kind # "send" => MessagesIn(S \union {e}) = MessagesIn(S)
  BY DEF MessagesIn

\* A step that leaves what the members see as it is.
LEMMA Invisible ==
    ASSUME UNCHANGED <<messages, rows, acks, live>>
    PROVE  [Abstract!Next]_(Abstract!vars)
  BY DEF Abstract!vars, MessagesIn, MessageOf, Confirmed

\* Every step of the handlers, the store and the crashes is one step of the
\* exactly-once log or changes nothing of it.
LEMMA StepSimulation ==
    ASSUME Backend = "supabase", RefinementInv, [Next]_vars
    PROVE  [Abstract!Next]_(Abstract!vars)
<1> USE DEF RefinementInv, PipelineInv, TypeInv, TypeOK, store, dedup, history,
            locals, Logging
<1>1. ASSUME NEW r \in Requests, SendStep(r)
      PROVE  [Abstract!Next]_(Abstract!vars)
  <2>1. ASSUME NEW j \in SendJobs, SendNew(r, j) \/ SendDuplicate(r, j)
        PROVE  [Abstract!Next]_(Abstract!vars)
    BY <2>1, Invisible DEF SendNew, SendDuplicate
  <2>2. CASE NextSeq(r)
    BY <2>2, Invisible DEF NextSeq
  <2>3. CASE PersistConflict(r)
    BY <2>3, Invisible DEF PersistConflict, Restart
  <2>4. CASE PersistMessage(r)
    <3> DEFINE m == StoredFor(job[r], seq[r])
    <3>1. /\ messages' = messages \union {m}
          /\ \A n \in messages : n.key # job[r].key
          /\ pc[r] = "persist"
          /\ UNCHANGED <<rows, acks, live>>
      BY <2>4 DEF PersistMessage, KeyTaken, Persisted, StoredFor
    <3>2. m.key = job[r].key /\ m.conv = job[r].conv /\ m.seq = seq[r]
      BY DEF StoredFor
    <3>3. Abstract!Fresh(m)
      BY <3>1, <3>2 DEF Abstract!Fresh, SeqMinted
    <3>4. /\ UNCHANGED <<MessagesIn(rows), Confirmed, MessagesIn(live)>>
      BY <3>1 DEF MessagesIn, MessageOf, Confirmed
    <3>5. Abstract!Store(m)
      BY <3>1, <3>3, <3>4 DEF Abstract!Store
    <3> QED
      BY <3>1, <3>5 DEF Abstract!Next
  <2>5. CASE AckDuplicate(r)
    <3>1. /\ UNCHANGED <<messages, rows, live>>
          /\ acks' = acks \union DuplicateAcks(job[r])
          /\ job[r] \in SendJobs
      BY <2>5 DEF AckDuplicate, KindOf
    <3>2. UNCHANGED <<MessagesIn(rows), MessagesIn(live)>>
      BY <3>1 DEF MessagesIn, MessageOf
    <3>3. CASE Originals(job[r]) = {}
      <4>1. \A a \in DuplicateAcks(job[r]) : a.seq = 0
        BY <3>3 DEF DuplicateAcks, Ack
      <4>2. {b \in acks' : b.seq # 0} = {b \in acks : b.seq # 0}
        BY <3>1, <4>1
      <4>3. UNCHANGED Confirmed
        BY <4>2 DEF Confirmed
      <4> QED
        BY <3>1, <3>2, <4>3 DEF Abstract!vars
    <3>4. ASSUME NEW m \in Originals(job[r])
          PROVE  [Abstract!Next]_(Abstract!vars)
      <4>1. m \in messages /\ m.key = job[r].key
        BY <3>4 DEF Originals
      <4>2. Originals(job[r]) = {m}
        BY <3>4, <4>1 DEF Originals, Exactly, KeyUnique
      <4>3. DuplicateAcks(job[r]) = {Ack(job[r], m.seq, TRUE)}
        BY <4>2 DEF DuplicateAcks
      <4> DEFINE a == Ack(job[r], m.seq, TRUE)
      <4>4. /\ a.key = job[r].key /\ a.conv = job[r].conv
            /\ a.account = job[r].account /\ a.seq = m.seq
        BY DEF Ack
      <4>5. m = [key |-> a.key, conv |-> a.conv, account |-> a.account,
                 seq |-> a.seq]
        BY <3>4, <4>1, <4>4 DEF Originals, Messages
      <4>6. m.seq # 0
        BY <4>1 DEF SeqMinted, Messages
      <4>7. {b \in acks' : b.seq # 0} = {b \in acks : b.seq # 0} \union {a}
        BY <3>1, <4>3, <4>4, <4>6
      <4> HIDE DEF a
      <4>8. Confirmed' = Confirmed \union {m}
        BY <4>5, <4>7 DEF Confirmed
      <4>9. Abstract!Confirm(m)
        BY <3>1, <3>2, <4>1, <4>8 DEF Abstract!Confirm
      <4> QED
        BY <4>1, <4>9 DEF Abstract!Next
    <3> QED
      BY <3>3, <3>4
  <2> QED
    BY <1>1, <2>1, <2>2, <2>3, <2>4, <2>5 DEF SendStep
<1>2. ASSUME NEW r \in Requests, LogStep(r)
      PROVE  [Abstract!Next]_(Abstract!vars)
  <2> DEFINE e == Row(r, logSeq[r])
             m == StoredFor(job[r], seq[r])
  <2>1. /\ e.src = job[r] /\ e.conv = job[r].conv /\ e.seq = seq[r]
        /\ MessageOf(e) = m
        /\ m.key = job[r].key
    BY DEF Row, MessageOf, StoredFor
  <2>2. CASE MintLogSeq(r)
    BY <2>2, Invisible DEF MintLogSeq
  <2>3. CASE InsertRow(r)
    <3>1. /\ rows' = rows \union {e} /\ pc[r] = "insert"
          /\ UNCHANGED <<messages, acks, live>>
      BY <2>3 DEF InsertRow
    <3>2. UNCHANGED <<Confirmed, MessagesIn(live)>>
      BY <3>1 DEF MessagesIn, MessageOf, Confirmed
    <3>3. CASE job[r].kind # "send"
      <4>1. UNCHANGED MessagesIn(rows)
        BY <2>1, <3>1, <3>3, OneMoreEvent
      <4> QED
        BY <3>1, <3>2, <4>1 DEF Abstract!vars
    <3>4. CASE job[r].kind = "send"
      <4>1. MessagesIn(rows)' = MessagesIn(rows) \union {m}
        BY <2>1, <3>1, <3>4, OneMoreEvent
      <4>2. m \in messages
        BY <3>1, <3>4 DEF Exactly, OwnerStored, Owner
      <4>3. MessageRows(job[r].key) = {}
        BY <3>1, <3>4 DEF Exactly, NotYetLogged, Owner
      <4>4. m \notin MessagesIn(rows)
        BY <2>1, <4>3 DEF MessagesIn, MessageOf, MessageRows
      <4>5. Abstract!Log(m)
        BY <3>1, <3>2, <4>1, <4>2, <4>4 DEF Abstract!Log
      <4> QED
        BY <4>2, <4>5 DEF Abstract!Next
    <3> QED
      BY <3>3, <3>4
  <2>4. CASE Emit(r)
    <3>1. /\ live' = live \union {e} /\ pc[r] = "emit"
          /\ acks' = IF job[r].kind = "send"
                     THEN acks \union {Ack(job[r], seq[r], FALSE)} ELSE acks
          /\ UNCHANGED <<messages, rows>>
      BY <2>4 DEF Emit
    <3>2. UNCHANGED MessagesIn(rows)
      BY <3>1 DEF MessagesIn, MessageOf
    <3>3. CASE job[r].kind # "send"
      <4>1. UNCHANGED MessagesIn(live)
        BY <2>1, <3>1, <3>3, OneMoreEvent
      <4>2. UNCHANGED Confirmed
        BY <3>1, <3>3 DEF Confirmed
      <4> QED
        BY <3>1, <3>2, <4>1, <4>2 DEF Abstract!vars
    <3>4. CASE job[r].kind = "send"
      <4> DEFINE a == Ack(job[r], seq[r], FALSE)
      <4>1. MessagesIn(live)' = MessagesIn(live) \union {m}
        BY <2>1, <3>1, <3>4, OneMoreEvent
      <4>2. m \in messages
        BY <3>1, <3>4 DEF Exactly, OwnerStored, Owner
      <4>3. e \in rows
        BY <3>1 DEF Exactly, EmitLogged
      <4>4. m \in MessagesIn(rows)
        BY <2>1, <3>4, <4>3 DEF MessagesIn
      <4>5. m \notin MessagesIn(live)
        BY <2>1, <3>1, <3>4 DEF MessagesIn, MessageOf, NotYetHeard, Owner
      <4>6. /\ a.key = job[r].key /\ a.conv = job[r].conv
            /\ a.account = job[r].account /\ a.seq = seq[r]
        BY DEF Ack
      <4>7. seq[r] # 0
        <5>1. m.seq = seq[r]
          BY DEF StoredFor
        <5> QED
          BY <4>2, <5>1 DEF SeqMinted, Messages
      <4>8. {b \in acks' : b.seq # 0} = {b \in acks : b.seq # 0} \union {a}
        BY <3>1, <3>4, <4>6, <4>7
      <4>9. m = [key |-> a.key, conv |-> a.conv, account |-> a.account,
                 seq |-> a.seq]
        BY <4>6 DEF StoredFor
      <4> HIDE DEF a
      <4>10. Confirmed' = Confirmed \union {m}
        BY <4>8, <4>9 DEF Confirmed
      <4>11. Abstract!Announce(m)
        BY <3>1, <3>2, <4>1, <4>4, <4>5, <4>10 DEF Abstract!Announce
      <4> QED
        BY <4>2, <4>11 DEF Abstract!Next
    <3> QED
      BY <3>3, <3>4
  <2> QED
    BY <1>2, <2>2, <2>3, <2>4 DEF LogStep
<1>3. ASSUME NEW r \in Requests, ReceiptStep(r)
      PROVE  [Abstract!Next]_(Abstract!vars)
  <2>1. UNCHANGED <<messages, rows, acks, live>>
    BY <1>3 DEF ReceiptStep, Delivered, Read, FindMessage, LatestSeq
  <2> QED
    BY <2>1, Invisible
<1>4. ASSUME NEW r \in Requests, SyncStep(r)
      PROVE  [Abstract!Next]_(Abstract!vars)
  <2>1. UNCHANGED <<messages, rows, acks, live>>
    BY <1>4 DEF SyncStep, Sync, EventsSince, LatestLogSeq, Respond
  <2> QED
    BY <2>1, Invisible
<1>5. ASSUME NEW r \in Requests, RequestRefused(r)
      PROVE  [Abstract!Next]_(Abstract!vars)
  BY <1>5, Invisible DEF RequestRefused
<1>6. CASE Crash
  BY <1>6, Invisible DEF Crash, Restart
<1>7. CASE UNCHANGED vars
  BY <1>7, Invisible DEF vars
<1> QED
  BY <1>1, <1>2, <1>3, <1>4, <1>5, <1>6, <1>7 DEF Next

\* The Supabase-backed message handlers implement the exactly-once log: no
\* concurrency, retry, eviction or crash of theirs can be seen from outside.
THEOREM ExactlyOnceTheorem ==
    ASSUME Backend = "supabase"
    PROVE  Spec => ImplementsExactlyOnceLog
<1>1. Init => RefinementInv
  BY PipelineInit DEF RefinementInv, SeqMinted, NotYetHeard, Owner, Logging, Init
<1>2. RefinementInv /\ [Next]_vars => RefinementInv'
  BY PipelineStep, SeqMintedStep, NotYetHeardStep DEF RefinementInv
<1>3. Init => Abstract!Init
  BY DEF Init, Abstract!Init, MessagesIn, Confirmed
<1>4. RefinementInv /\ [Next]_vars => [Abstract!Next]_(Abstract!vars)
  BY StepSimulation
<1> QED
  BY <1>1, <1>2, <1>3, <1>4, PTL DEF Spec, ImplementsExactlyOnceLog, Abstract!Spec
=============================================================================
