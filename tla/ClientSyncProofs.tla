-------------------------- MODULE ClientSyncProofs --------------------------
(***************************************************************************)
(* Proofs about ClientSync, for any number of messages, devices, calls in  *)
(* progress, resets and crashes: types, at-most-once application, that a   *)
(* confirmed message is on disk, that a sync skips no event, and that one  *)
(* processing attempt at a time owns a row.                                *)
(***************************************************************************)
EXTENDS ClientSync, FiniteSetTheorems, TLAPS

\* Log positions that hold a message.
MessageSeqs == {n \in LogSeqs : IsMessage(n)}

\* Where a call works on an envelope.
Ingesting == {"accept", "deliver", "markDelivered", "decrypt", "persist",
              "markProcessed", "markFailed", "readCursor", "writeCursor"}

\* A call in progress works on messages of the log, and resumes only rows.
CallOK(c) ==
    /\ c \in Calls
    /\ c.pc \in Ingesting => c.cur \in MessageSeqs
    /\ c.kind = "resume" => c.todo \subseteq MessageSeqs
    /\ c.pc = "request" => c.kind = "sync"

RowOK(row) == row.logSeq # 0 => row.logSeq \in MessageSeqs

\* The inductive strengthening of TypeOK: the live packets, the rows and the
\* envelopes in progress are messages of the log.
TypeInv ==
    /\ TypeOK
    /\ live \in Seq(MessageSeqs)
    /\ \A m \in Messages : RowOK(inbox[m])
    /\ \A w \in Workers : CallOK(work[w])

-----------------------------------------------------------------------------
\* What an appended event leaves of the log: positions keep their events.
LEMMA LogGrows ==
    ASSUME TypeOK, NEW e \in Events, ServerLogs(e)
    PROVE  /\ log' \in Seq(Events)
           /\ Len(log') = Len(log) + 1
           /\ LogSeqs \subseteq LogSeqs'
           /\ Len(log) + 1 \in LogSeqs'
           /\ \A n \in LogSeqs : log'[n] = log[n]
           /\ log'[Len(log) + 1] = e
           /\ MessageSeqs \subseteq MessageSeqs'
  <1>1. log \in Seq(Events) /\ log' = Append(log, e)
    BY DEF TypeOK, ServerLogs
  <1>2. log' \in Seq(Events) /\ Len(log') = Len(log) + 1 /\ Len(log) \in Nat
    BY <1>1
  <1>3. /\ \A n \in LogSeqs : log'[n] = log[n]
        /\ log'[Len(log) + 1] = e
    BY <1>1 DEF LogSeqs
  <1>4. LogSeqs \subseteq LogSeqs' /\ Len(log) + 1 \in LogSeqs'
    BY <1>2 DEF LogSeqs
  <1> QED
    BY <1>2, <1>3, <1>4 DEF MessageSeqs, IsMessage

\* The id of an envelope in progress is a message id.
LEMMA EnvelopeId ==
    ASSUME TypeOK, NEW n \in MessageSeqs
    PROVE  log[n].copy \in Copies /\ log[n].copy[1] \in Messages
  <1>1. log[n] \in Events /\ log[n].kind = "message"
    BY DEF TypeOK, MessageSeqs, IsMessage, LogSeqs
  <1>2. log[n] \in [kind : {"message"}, copy : Copies]
    BY <1>1 DEF Events
  <1>3. log[n].copy \in Copies
    BY <1>2
  <1> QED
    BY <1>3, CopiesAssumption

\* A sequence number is a natural number.
LEMMA ServerSeqType == ASSUME NEW n \in Nat PROVE ServerSeq(n) \in Nat
  <1>1. IsFiniteSet(1 .. n)
    BY FS_Interval
  <1>2. IsFiniteSet({k \in 1 .. n : IsMessage(k)})
    BY <1>1, FS_Subset
  <1> QED
    BY <1>2, FS_CardinalityType DEF ServerSeq

LEMMA IdleOK == CallOK(Idle)
  BY DEF CallOK, Calls, Idle, Labels, Ingesting, Cursors, ZeroCursor

\* What Returned leaves of a call is a proper call.
LEMMA ReturnedOK ==
    ASSUME NEW w \in Workers, CallOK(work[w]), work[w].pc \in Ingesting
    PROVE  CallOK(Returned(w)) /\ Returned(w).pc \in {"idle", "next"}
  <1>1. work[w] \in Calls /\ work[w].cur \in MessageSeqs
    BY DEF CallOK
  <1>2. work[w].cur \in LogSeqs
    BY <1>1 DEF MessageSeqs
  <1>3. CASE work[w].kind = "live"
    BY <1>3, IdleOK DEF Returned, Idle
  <1>4. CASE work[w].kind = "sync"
    <2>1. Returned(w) = [work[w] EXCEPT !.pc = "next", !.high = work[w].cur,
                                        !.cur = 0, !.base = ZeroCursor]
      BY <1>4 DEF Returned
    <2>2. ZeroCursor \in Cursors
      BY DEF ZeroCursor, Cursors
    <2> QED
      BY <1>1, <1>2, <1>4, <2>1, <2>2 DEF CallOK, Calls, Labels, Ingesting
  <1>5. CASE work[w].kind = "resume"
    <2>1. Returned(w) = [work[w] EXCEPT !.pc = "next", !.cur = 0]
      BY <1>5 DEF Returned
    <2> QED
      BY <1>1, <1>5, <2>1 DEF CallOK, Calls, Labels, Ingesting
  <1> QED
    BY <1>1, <1>3, <1>4, <1>5 DEF Calls

-----------------------------------------------------------------------------
\* What a step must show when it leaves the log alone.
StepOK ==
    /\ log' = log
    /\ online' \in BOOLEAN
    /\ live' \in Seq(MessageSeqs)
    /\ inbox' \in [Messages -> Rows]
    /\ \A m \in Messages : RowOK(inbox'[m])
    /\ cursor' \in Cursors
    /\ session' \in BOOLEAN
    /\ ratchet' \subseteq Messages
    /\ saved' \subseteq Messages
    /\ work' \in [Workers -> Calls]
    /\ \A w \in Workers : CallOK(work'[w])
    /\ receipts' \subseteq Messages
    /\ applied' \in [Messages -> Nat]
    /\ jumped' \subseteq LogSeqs
    /\ seen' \subseteq LogSeqs
    /\ faults' \in Nat

\* A step that leaves the log alone and the other variables within their
\* types preserves the invariant.
LEMMA StepPreserves == TypeInv /\ StepOK => TypeInv'
  <1> SUFFICES ASSUME TypeInv, StepOK PROVE TypeInv'
    OBVIOUS
  <1>1. LogSeqs' = LogSeqs
    BY DEF StepOK, LogSeqs
  <1>2. MessageSeqs' = MessageSeqs
    BY <1>1 DEF StepOK, MessageSeqs, IsMessage
  <1>3. Cursors' = Cursors /\ Calls' = Calls
    BY <1>1 DEF Cursors, Calls
  <1>4. live' \in Seq(LogSeqs)
    BY DEF StepOK, MessageSeqs
  <1>5. TypeOK'
    BY <1>1, <1>3, <1>4 DEF TypeInv, TypeOK, StepOK
  <1>6. (\A m \in Messages : RowOK(inbox[m]))'
    BY <1>2 DEF StepOK, RowOK
  <1>7. (\A w \in Workers : CallOK(work[w]))'
    BY <1>2, <1>3 DEF StepOK, CallOK
  <1> QED
    BY <1>2, <1>5, <1>6, <1>7 DEF TypeInv, StepOK

\* One call moves on.
LEMMA CallMoves ==
    ASSUME TypeInv, NEW w \in Workers, NEW c, CallOK(c), Run(w, c)
    PROVE  work' \in [Workers -> Calls] /\ \A v \in Workers : CallOK(work'[v])
  BY DEF TypeInv, TypeOK, Run, CallOK

\* Moving the program counter keeps a call proper.
LEMMA GotoOK ==
    ASSUME NEW c, CallOK(c), NEW label \in Labels \ {"request"},
           label \in Ingesting => c.cur \in MessageSeqs
    PROVE  CallOK([c EXCEPT !.pc = label])
  BY DEF CallOK, Calls

\* The unprimed counterpart of StepOK.
LEMMA Typed ==
    ASSUME TypeInv
    PROVE  /\ online \in BOOLEAN
           /\ live \in Seq(MessageSeqs)
           /\ inbox \in [Messages -> Rows]
           /\ \A m \in Messages : RowOK(inbox[m])
           /\ cursor \in Cursors
           /\ session \in BOOLEAN
           /\ ratchet \subseteq Messages
           /\ saved \subseteq Messages
           /\ work \in [Workers -> Calls]
           /\ \A w \in Workers : CallOK(work[w])
           /\ receipts \subseteq Messages
           /\ applied \in [Messages -> Nat]
           /\ jumped \subseteq LogSeqs
           /\ seen \subseteq LogSeqs
           /\ faults \in Nat
  BY DEF TypeInv, TypeOK

\* The id of a call that works on an envelope.
LEMMA IdType ==
    ASSUME TypeInv, NEW w \in Workers, work[w].pc \in Ingesting
    PROVE  /\ Id(w) \in Messages
           /\ work[w].cur \in MessageSeqs
           /\ work[w].cur \in LogSeqs
           /\ work[w].cur \in Nat \ {0}
  <1>1. work[w].cur \in MessageSeqs
    BY DEF TypeInv, CallOK
  <1>2. Id(w) \in Messages
    BY <1>1, EnvelopeId DEF TypeInv, Id
  <1> QED
    BY <1>1, <1>2 DEF MessageSeqs, LogSeqs

\* An UPDATE with a proper row keeps the table proper.
LEMMA UpdatedOK ==
    ASSUME TypeInv, NEW m \in Messages, NEW row \in Rows,
           Present(m) => row.logSeq = inbox[m].logSeq
    PROVE  /\ Updated(m, row) \in [Messages -> Rows]
           /\ \A k \in Messages : /\ RowOK(Updated(m, row)[k])
                                  /\ Updated(m, row)[k].logSeq = inbox[k].logSeq
  <1>1. inbox \in [Messages -> Rows] /\ \A k \in Messages : RowOK(inbox[k])
    BY Typed
  <1>2. Updated(m, row) \in [Messages -> Rows]
    BY <1>1 DEF Updated
  <1>3. ASSUME NEW k \in Messages
        PROVE  Updated(m, row)[k].logSeq = inbox[k].logSeq
    BY <1>1 DEF Updated
  <1> QED
    BY <1>1, <1>2, <1>3 DEF RowOK

\* The three updates of the inbox change flags only.
LEMMA FlagsOnly ==
    ASSUME TypeInv, NEW m \in Messages
    PROVE  /\ [inbox[m] EXCEPT !.deliveredSent = TRUE] \in Rows
           /\ [inbox[m] EXCEPT !.processed = TRUE] \in Rows
           /\ FailedRow(inbox[m]) \in Rows
           /\ [inbox[m] EXCEPT !.deliveredSent = TRUE].logSeq = inbox[m].logSeq
           /\ [inbox[m] EXCEPT !.processed = TRUE].logSeq = inbox[m].logSeq
           /\ FailedRow(inbox[m]).logSeq = inbox[m].logSeq
  <1>1. inbox[m] \in Rows
    BY Typed
  <1> QED
    BY <1>1 DEF Rows, FailedRow

-----------------------------------------------------------------------------
\* Every step of a call that ingests an envelope preserves the invariant.
LEMMA IngestTyped ==
    ASSUME TypeInv, NEW w \in Workers, IngestStep(w)
    PROVE  TypeInv'
  <1> USE DEF server, durable, history
  <1>0. /\ CallOK(work[w])
        /\ work[w] \in Calls
        /\ \A l \in Labels \ (Ingesting \union {"request"}) : CallOK([work[w] EXCEPT !.pc = l])
        /\ work[w].pc \in Ingesting =>
             \A l \in Labels \ {"request"} : CallOK([work[w] EXCEPT !.pc = l])
    BY Typed, GotoOK DEF CallOK
  <1>1. CASE LiveEvent(w)
    <2>1. live \in Seq(MessageSeqs) /\ live # <<>>
      BY <1>1, Typed DEF LiveEvent
    <2>2. Head(live) \in MessageSeqs /\ Tail(live) \in Seq(MessageSeqs)
      BY <2>1
    <2> DEFINE c == [Idle EXCEPT !.pc = "accept", !.kind = "live", !.cur = Head(live)]
    <2>3. CallOK(c)
      BY <2>2, IdleOK DEF CallOK, Calls, Labels, Idle, MessageSeqs
    <2>4. work' \in [Workers -> Calls] /\ \A v \in Workers : CallOK(work'[v])
      BY <1>1, <2>3, CallMoves DEF LiveEvent
    <2> QED
      BY <1>1, <2>2, <2>4, Typed, StepPreserves DEF LiveEvent, StepOK
  <1>2. CASE Accept(w)
    <2>1. /\ work[w].pc \in Ingesting
          /\ Id(w) \in Messages
          /\ work[w].cur \in MessageSeqs
          /\ work[w].cur \in LogSeqs
          /\ work[w].cur \in Nat
      BY <1>2, IdType DEF Accept, At, Ingesting
    <2>2. \E c : CallOK(c) /\ Run(w, c)
      BY <1>2, <1>0, <2>1, ReturnedOK DEF Accept, Goto, Labels
    <2>3. work' \in [Workers -> Calls] /\ \A v \in Workers : CallOK(work'[v])
      BY <2>2, CallMoves
    <2>4. FreshRow(work[w].cur) \in Rows /\ RowOK(FreshRow(work[w].cur))
      BY <2>1 DEF FreshRow, NoRow, Rows, RowOK
    <2>5. inbox' \in [Messages -> Rows] /\ \A m \in Messages : RowOK(inbox'[m])
      BY <1>2, <2>1, <2>4, Typed DEF Accept
    <2>6. seen' \subseteq LogSeqs
      BY <1>2, <2>1, Typed DEF Accept
    <2> QED
      BY <1>2, <2>3, <2>5, <2>6, Typed, StepPreserves DEF Accept, StepOK
  <1>3. CASE Deliver(w)
    <2>1. work[w].pc \in Ingesting /\ Id(w) \in Messages
      BY <1>3, IdType DEF Deliver, At, Ingesting
    <2>2. \E c : CallOK(c) /\ Run(w, c)
      BY <1>3, <1>0, <2>1 DEF Deliver, Goto, Labels
    <2>3. work' \in [Workers -> Calls] /\ \A v \in Workers : CallOK(work'[v])
      BY <2>2, CallMoves
    <2>4. receipts' \subseteq Messages
      BY <1>3, <2>1, Typed DEF Deliver
    <2> QED
      BY <1>3, <2>3, <2>4, Typed, StepPreserves DEF Deliver, StepOK
  <1>4. CASE DeliverThrows(w)
    <2>1. work' \in [Workers -> Calls] /\ \A v \in Workers : CallOK(work'[v])
      BY <1>4, IdleOK, CallMoves DEF DeliverThrows
    <2> QED
      BY <1>4, <2>1, Typed, StepPreserves DEF DeliverThrows, StepOK
  <1>5. CASE MarkDelivered(w)
    <2>1. work[w].pc \in Ingesting /\ Id(w) \in Messages
      BY <1>5, IdType DEF MarkDelivered, At, Ingesting
    <2>2. \E c : CallOK(c) /\ Run(w, c)
      BY <1>5, <1>0, <2>1 DEF MarkDelivered, Goto, Labels
    <2>3. work' \in [Workers -> Calls] /\ \A v \in Workers : CallOK(work'[v])
      BY <2>2, CallMoves
    <2>4. inbox' \in [Messages -> Rows] /\ \A m \in Messages : RowOK(inbox'[m])
      BY <1>5, <2>1, UpdatedOK, FlagsOnly DEF MarkDelivered
    <2> QED
      BY <1>5, <2>3, <2>4, Typed, StepPreserves DEF MarkDelivered, StepOK
  <1>6. CASE Decrypt(w)
    <2>1. work[w].pc \in Ingesting /\ Id(w) \in Messages
      BY <1>6, IdType DEF Decrypt, At, Ingesting
    <2>2. \E c : CallOK(c) /\ Run(w, c)
      BY <1>6, <1>0, <2>1, ReturnedOK DEF Decrypt, Goto, Labels
    <2>3. work' \in [Workers -> Calls] /\ \A v \in Workers : CallOK(work'[v])
      BY <2>2, CallMoves
    <2>4. ratchet' \subseteq Messages
      BY <1>6, <2>1, Typed DEF Decrypt
    <2> QED
      BY <1>6, <2>3, <2>4, Typed, StepPreserves DEF Decrypt, StepOK
  <1>7. CASE PersistSession(w)
    <2>1. work[w].pc \in Ingesting
      BY <1>7 DEF PersistSession, At, Ingesting
    <2>2. \E c : CallOK(c) /\ Run(w, c)
      BY <1>7, <1>0, <2>1 DEF PersistSession, Goto, Labels
    <2>3. work' \in [Workers -> Calls] /\ \A v \in Workers : CallOK(work'[v])
      BY <2>2, CallMoves
    <2> QED
      BY <1>7, <2>3, Typed, StepPreserves DEF PersistSession, StepOK
  <1>8. CASE MarkProcessed(w)
    <2>1. work[w].pc \in Ingesting /\ Id(w) \in Messages
      BY <1>8, IdType DEF MarkProcessed, At, Ingesting
    <2>2. \E c : CallOK(c) /\ Run(w, c)
      BY <1>8, <1>0, <2>1, ReturnedOK DEF MarkProcessed, Goto, Labels
    <2>3. work' \in [Workers -> Calls] /\ \A v \in Workers : CallOK(work'[v])
      BY <2>2, CallMoves
    <2>4. inbox' \in [Messages -> Rows] /\ \A m \in Messages : RowOK(inbox'[m])
      BY <1>8, <2>1, UpdatedOK, FlagsOnly DEF MarkProcessed
    <2>5. applied' \in [Messages -> Nat]
      BY <1>8, <2>1, Typed DEF MarkProcessed
    <2> QED
      BY <1>8, <2>3, <2>4, <2>5, Typed, StepPreserves DEF MarkProcessed, StepOK
  <1>9. CASE MarkFailed(w)
    <2>1. work[w].pc \in Ingesting /\ Id(w) \in Messages
      BY <1>9, IdType DEF MarkFailed, At, Ingesting
    <2>2. work' \in [Workers -> Calls] /\ \A v \in Workers : CallOK(work'[v])
      BY <1>9, <1>0, <2>1, ReturnedOK, CallMoves DEF MarkFailed
    <2>3. inbox' \in [Messages -> Rows] /\ \A m \in Messages : RowOK(inbox'[m])
      BY <1>9, <2>1, UpdatedOK, FlagsOnly DEF MarkFailed
    <2> QED
      BY <1>9, <2>2, <2>3, Typed, StepPreserves DEF MarkFailed, StepOK
  <1>10. CASE ReadCursor(w)
    <2> DEFINE c == [work[w] EXCEPT !.base = cursor,
                 !.pc = IF @ = "readCursor" THEN "writeCursor" ELSE "writeFinal"]
    <2>1. cursor \in Cursors /\ work[w] \in Calls
      BY <1>0, Typed
    <2>2. work[w].pc \in {"readCursor", "readFinal"}
      BY <1>10 DEF ReadCursor, At
    <2>3. c.pc \in {"writeCursor", "writeFinal"} /\ c \in Calls
      BY <2>1, <2>2 DEF Calls, Labels
    <2>4. c.cur = work[w].cur /\ c.kind = work[w].kind /\ c.todo = work[w].todo
      BY <2>1 DEF Calls
    <2>5. c.pc = "writeCursor" => work[w].pc = "readCursor"
      BY <2>1, <2>2 DEF Calls
    <2>6. CallOK(c)
      BY <1>0, <2>3, <2>4, <2>5 DEF CallOK, Ingesting
    <2>7. work' \in [Workers -> Calls] /\ \A v \in Workers : CallOK(work'[v])
      BY <1>10, <2>6, CallMoves DEF ReadCursor
    <2> QED
      BY <1>10, <2>7, Typed, StepPreserves DEF ReadCursor, StepOK
  <1>11. CASE AdvanceToEnvelope(w)
    <2>1. /\ work[w].pc \in Ingesting
          /\ work[w].cur \in LogSeqs
          /\ work[w].cur \in Nat
          /\ work[w].base \in Cursors
      BY <1>11, <1>0, IdType DEF AdvanceToEnvelope, At, Ingesting, Calls
    <2>2. ServerSeq(work[w].cur) \in Nat
      BY <2>1, ServerSeqType
    <2>3. Advanced(work[w].base, work[w].cur, ServerSeq(work[w].cur)) \in Cursors
      BY <2>1, <2>2 DEF Advanced, Higher, Cursors
    <2>4. cursor' \in Cursors
      BY <1>11, <2>3, Typed DEF AdvanceToEnvelope, Write
    <2>5. 1 .. cursor'.log \subseteq LogSeqs
      BY <2>4 DEF Cursors, LogSeqs
    <2>6. jumped' \subseteq LogSeqs
      BY <1>11, <2>5, Typed DEF AdvanceToEnvelope
    <2>7. work' \in [Workers -> Calls] /\ \A v \in Workers : CallOK(work'[v])
      BY <1>11, <1>0, <2>1, ReturnedOK, CallMoves DEF AdvanceToEnvelope
    <2> QED
      BY <1>11, <2>4, <2>6, <2>7, Typed, StepPreserves DEF AdvanceToEnvelope, StepOK
  <1>12. CASE AdvanceToPage(w)
    <2>1. work[w].base \in Cursors /\ work[w].high \in LogSeqs \union {0}
      BY <1>0 DEF Calls
    <2>2. Advanced(work[w].base, work[w].high, 0) \in Cursors
      BY <2>1 DEF Advanced, Higher, Cursors
    <2>3. cursor' \in Cursors
      BY <1>12, <2>2, Typed DEF AdvanceToPage, Write
    <2>4. work' \in [Workers -> Calls] /\ \A v \in Workers : CallOK(work'[v])
      BY <1>12, IdleOK, CallMoves DEF AdvanceToPage
    <2> QED
      BY <1>12, <2>3, <2>4, Typed, StepPreserves DEF AdvanceToPage, StepOK
  <1> QED
    BY <1>1, <1>2, <1>3, <1>4, <1>5, <1>6, <1>7, <1>8, <1>9, <1>10, <1>11, <1>12
       DEF IngestStep

\* Every step of a sync preserves the invariant.
LEMMA SyncTyped ==
    ASSUME TypeInv, NEW w \in Workers, SyncStep(w)
    PROVE  TypeInv'
  <1> USE DEF server, durable, history
  <1>0. CallOK(work[w]) /\ work[w] \in Calls
    BY Typed DEF CallOK
  <1>1. CASE SyncStart(w)
    <2> DEFINE c == [Idle EXCEPT !.pc = "request", !.kind = "sync", !.base = cursor]
    <2>1. CallOK(c)
      BY IdleOK, Typed DEF CallOK, Calls, Labels, Idle, Ingesting
    <2>2. work' \in [Workers -> Calls] /\ \A v \in Workers : CallOK(work'[v])
      BY <1>1, <2>1, CallMoves DEF SyncStart
    <2> QED
      BY <1>1, <2>2, Typed, StepPreserves DEF SyncStart, StepOK
  <1>2. CASE SyncResponse(w)
    <2> DEFINE c == [work[w] EXCEPT !.pc = "next",
                       !.todo = Page(work[w].base.log), !.base = ZeroCursor]
    <2>1. work[w].pc = "request"
      BY <1>2 DEF SyncResponse, At
    <2>2. Page(work[w].base.log) \subseteq LogSeqs /\ ZeroCursor \in Cursors
      BY DEF Page, ZeroCursor, Cursors
    <2>3. c \in Calls /\ c.pc = "next" /\ c.kind = work[w].kind
      BY <1>0, <2>2 DEF Calls, Labels
    <2>4. CallOK(c)
      BY <1>0, <2>1, <2>3 DEF CallOK, Ingesting
    <2>5. work' \in [Workers -> Calls] /\ \A v \in Workers : CallOK(work'[v])
      BY <1>2, <2>4, CallMoves DEF SyncResponse
    <2> QED
      BY <1>2, <2>5, Typed, StepPreserves DEF SyncResponse, StepOK
  <1>3. CASE SyncUnanswered(w)
    <2>1. work' \in [Workers -> Calls] /\ \A v \in Workers : CallOK(work'[v])
      BY <1>3, IdleOK, CallMoves DEF SyncUnanswered
    <2> QED
      BY <1>3, <2>1, Typed, StepPreserves DEF SyncUnanswered, StepOK
  <1>4. ASSUME NEW n \in LogSeqs, SyncIngest(w, n)
        PROVE  TypeInv'
    <2> DEFINE c == [work[w] EXCEPT !.pc = "accept", !.cur = n, !.todo = @ \ {n}]
    <2>1. n \in MessageSeqs
      BY <1>4 DEF SyncIngest, MessageSeqs
    <2>2. /\ c \in Calls /\ c.pc = "accept" /\ c.cur = n
          /\ c.kind = work[w].kind /\ c.todo \subseteq work[w].todo
      BY <1>0 DEF Calls, Labels
    <2>3. CallOK(c)
      BY <1>0, <2>1, <2>2 DEF CallOK
    <2>4. work' \in [Workers -> Calls] /\ \A v \in Workers : CallOK(work'[v])
      BY <1>4, <2>3, CallMoves DEF SyncIngest
    <2> QED
      BY <1>4, <2>4, Typed, StepPreserves DEF SyncIngest, StepOK
  <1>5. ASSUME NEW n \in LogSeqs, SyncPass(w, n)
        PROVE  TypeInv'
    <2> DEFINE c == [work[w] EXCEPT !.todo = @ \ {n},
                       !.high = IF log[n].kind = "malformed" THEN @ ELSE n]
    <2>1. /\ c \in Calls /\ c.pc = work[w].pc /\ c.cur = work[w].cur
          /\ c.kind = work[w].kind /\ c.todo \subseteq work[w].todo
      BY <1>0 DEF Calls
    <2>2. CallOK(c)
      BY <1>0, <2>1 DEF CallOK
    <2>3. work' \in [Workers -> Calls] /\ \A v \in Workers : CallOK(work'[v])
      BY <1>5, <2>2, CallMoves DEF SyncPass
    <2>4. seen' \subseteq LogSeqs
      BY <1>5, Typed DEF SyncPass
    <2> QED
      BY <1>5, <2>3, <2>4, Typed, StepPreserves DEF SyncPass, StepOK
  <1>6. CASE SyncFinish(w)
    <2> DEFINE c == [work[w] EXCEPT !.pc = "readFinal", !.high = SyncTarget(w)]
    <2>1. c \in Calls /\ c.pc = "readFinal" /\ c.kind = work[w].kind
            /\ c.todo = work[w].todo
      BY <1>0 DEF Calls, Labels, SyncTarget
    <2>2. CallOK(c)
      BY <1>0, <2>1 DEF CallOK, Ingesting
    <2>3. \E d : CallOK(d) /\ Run(w, d)
      BY <1>6, <2>2, IdleOK DEF SyncFinish
    <2>4. work' \in [Workers -> Calls] /\ \A v \in Workers : CallOK(work'[v])
      BY <2>3, CallMoves
    <2> QED
      BY <1>6, <2>4, Typed, StepPreserves DEF SyncFinish, StepOK
  <1> QED
    BY <1>1, <1>2, <1>3, <1>4, <1>5, <1>6 DEF SyncStep

\* Every step of resumePending preserves the invariant.
LEMMA ResumeTyped ==
    ASSUME TypeInv, NEW w \in Workers, ResumeStep(w)
    PROVE  TypeInv'
  <1> USE DEF server, durable, history
  <1>0. CallOK(work[w]) /\ work[w] \in Calls
    BY Typed DEF CallOK
  <1>1. CASE ResumeStart(w)
    <2> DEFINE c == [Idle EXCEPT !.pc = "next", !.kind = "resume",
                                 !.todo = ResumePage]
    <2>1. ResumePage \subseteq MessageSeqs
      BY Typed DEF ResumePage, PendingRows, Present, RowOK
    <2>2. CallOK(c)
      BY <2>1, IdleOK DEF CallOK, Calls, Labels, Idle, Ingesting, MessageSeqs
    <2>3. work' \in [Workers -> Calls] /\ \A v \in Workers : CallOK(work'[v])
      BY <1>1, <2>2, CallMoves DEF ResumeStart
    <2> QED
      BY <1>1, <2>3, Typed, StepPreserves DEF ResumeStart, StepOK
  <1>2. ASSUME NEW n \in LogSeqs, ResumeNext(w, n)
        PROVE  TypeInv'
    <2> DEFINE c == [work[w] EXCEPT !.pc = "decrypt", !.cur = n, !.todo = @ \ {n}]
    <2>1. n \in MessageSeqs
      BY <1>2, <1>0 DEF ResumeNext, IsNext, CallOK
    <2>2. /\ c \in Calls /\ c.pc = "decrypt" /\ c.cur = n
          /\ c.kind = work[w].kind /\ c.todo \subseteq work[w].todo
      BY <1>0 DEF Calls, Labels
    <2>3. CallOK(c)
      BY <1>0, <2>1, <2>2 DEF CallOK
    <2>4. work' \in [Workers -> Calls] /\ \A v \in Workers : CallOK(work'[v])
      BY <1>2, <2>3, CallMoves DEF ResumeNext
    <2> QED
      BY <1>2, <2>4, Typed, StepPreserves DEF ResumeNext, StepOK
  <1>3. CASE ResumeFinish(w)
    <2>1. work' \in [Workers -> Calls] /\ \A v \in Workers : CallOK(work'[v])
      BY <1>3, IdleOK, CallMoves DEF ResumeFinish
    <2> QED
      BY <1>3, <2>1, Typed, StepPreserves DEF ResumeFinish, StepOK
  <1> QED
    BY <1>1, <1>2, <1>3 DEF ResumeStep

\* Appending to the log preserves the invariant.
LEMMA LogTyped ==
    ASSUME TypeInv, NEW e \in Events, ServerLogs(e)
    PROVE  TypeInv'
  <1> USE DEF durable, history
  <1>1. TypeOK
    BY DEF TypeInv
  <1>2. /\ log' \in Seq(Events)
        /\ LogSeqs \subseteq LogSeqs'
        /\ Len(log) + 1 \in LogSeqs'
        /\ log'[Len(log) + 1] = e
        /\ MessageSeqs \subseteq MessageSeqs'
    BY <1>1, LogGrows
  <1>3. /\ UNCHANGED <<inbox, cursor, saved, online, session, ratchet, work,
                       receipts, applied, jumped, seen, faults>>
        /\ live' = IF online /\ e.kind = "message" /\ e.copy[2] = Local
                   THEN Append(live, Len(log) + 1) ELSE live
    BY DEF ServerLogs
  <1>4. live' \in Seq(MessageSeqs')
    <2>1. live \in Seq(MessageSeqs')
      BY <1>2, Typed
    <2>2. e.kind = "message" => Len(log) + 1 \in MessageSeqs'
      BY <1>2 DEF MessageSeqs, IsMessage
    <2> QED
      BY <1>3, <2>1, <2>2
  <1>5. live' \in Seq(LogSeqs')
    BY <1>4 DEF MessageSeqs
  <1>6. Cursors \subseteq Cursors'
    BY <1>2 DEF Cursors
  <1>7. Calls \subseteq Calls'
    BY <1>2, <1>6 DEF Calls
  <1>8. TypeOK'
    BY <1>1, <1>2, <1>3, <1>5, <1>6, <1>7 DEF TypeOK
  <1>9. (\A m \in Messages : RowOK(inbox[m]))'
    BY <1>2, <1>3, Typed DEF RowOK
  <1>10. (\A w \in Workers : CallOK(work[w]))'
    BY <1>2, <1>3, <1>7, Typed DEF CallOK
  <1> QED
    BY <1>4, <1>8, <1>9, <1>10 DEF TypeInv

\* The network, resets, purges and crashes preserve the invariant.
LEMMA OthersTyped ==
    ASSUME TypeInv,
           \/ GoOnline \/ GoOffline \/ SessionEstablished \/ ResetCursor
           \/ (\E m \in Messages : PurgeExpired(m)) \/ Crash
    PROVE  TypeInv'
  <1> USE DEF server, durable, history
  <1>0. <<>> \in Seq(MessageSeqs)
    OBVIOUS
  <1>1. CASE GoOnline
    BY <1>1, Typed, StepPreserves DEF GoOnline, StepOK
  <1>2. CASE GoOffline
    <2>1. live' \in Seq(MessageSeqs) /\ online' \in BOOLEAN
      BY <1>0, <1>2 DEF GoOffline
    <2> QED
      BY <1>2, <2>1, Typed, StepPreserves DEF GoOffline, StepOK
  <1>3. CASE SessionEstablished
    BY <1>3, Typed, StepPreserves DEF SessionEstablished, StepOK
  <1>4. CASE ResetCursor
    <2>1. cursor' \in Cursors
      BY <1>4 DEF ResetCursor, ZeroCursor, Cursors
    <2> QED
      BY <1>4, <2>1, Typed, StepPreserves DEF ResetCursor, StepOK
  <1>5. ASSUME NEW m \in Messages, PurgeExpired(m)
        PROVE  TypeInv'
    <2>1. NoRow \in Rows /\ RowOK(NoRow)
      BY DEF NoRow, Rows, RowOK
    <2>2. inbox' \in [Messages -> Rows] /\ \A k \in Messages : RowOK(inbox'[k])
      BY <1>5, <2>1, Typed DEF PurgeExpired
    <2> QED
      BY <1>5, <2>2, Typed, StepPreserves DEF PurgeExpired, StepOK
  <1>6. CASE Crash
    <2>1. work' \in [Workers -> Calls] /\ \A v \in Workers : CallOK(work'[v])
      BY <1>6, IdleOK DEF Crash, CallOK
    <2>2. live' \in Seq(MessageSeqs) /\ online' \in BOOLEAN
      BY <1>0, <1>6 DEF Crash
    <2>3. faults' \in Nat /\ ratchet' \subseteq Messages
      BY <1>6, Typed DEF Crash
    <2> QED
      BY <1>6, <2>1, <2>2, <2>3, Typed, StepPreserves DEF Crash, StepOK
  <1> QED
    BY <1>1, <1>2, <1>3, <1>4, <1>5, <1>6

\* The initial state satisfies the invariant.
LEMMA InitTyped == Init => TypeInv
  <1> SUFFICES ASSUME Init PROVE TypeInv
    OBVIOUS
  <1>1. NoRow \in Rows /\ ZeroCursor \in Cursors /\ RowOK(NoRow)
    BY DEF NoRow, Rows, ZeroCursor, Cursors, RowOK
  <1>2. Idle \in Calls
    BY IdleOK DEF CallOK
  <1>3. <<>> \in Seq(Events) /\ <<>> \in Seq(LogSeqs) /\ <<>> \in Seq(MessageSeqs)
    OBVIOUS
  <1>4. TypeOK
    BY <1>1, <1>2, <1>3 DEF Init, TypeOK
  <1> QED
    BY <1>1, <1>3, <1>4, IdleOK DEF Init, TypeInv

\* Every step of the specification preserves the invariant.
LEMMA NextTyped == TypeInv /\ [Next]_vars => TypeInv'
  <1> SUFFICES ASSUME TypeInv, [Next]_vars PROVE TypeInv'
    OBVIOUS
  <1>1. CASE UNCHANGED vars
    BY <1>1, Typed, StepPreserves DEF vars, server, durable, history, StepOK
  <1>2. CASE Next
    BY <1>2, LogTyped, IngestTyped, SyncTyped, ResumeTyped, OthersTyped DEF Next
  <1> QED
    BY <1>1, <1>2

\* Every variable of the receiving engine has its type in every reachable
\* state: the cursor never runs past the log, and every envelope in progress
\* is an event of the log.
THEOREM ClientTypes == Spec => []TypeOK
  <1>1. Spec => []TypeInv
    BY InitTyped, NextTyped, PTL DEF Spec
  <1>2. TypeInv => TypeOK
    BY DEF TypeInv
  <1> QED
    BY <1>1, <1>2, PTL

-----------------------------------------------------------------------------
(* At most once *)

\* A call that has used the message key and not yet recorded the message.
Holding(w) == work[w].pc \in {"persist", "markProcessed"}

\* Why a message is applied once: its key is used by one call at a time, and
\* an applied message's key is used for good, also in the saved session that
\* a crash falls back to.
OnceInv ==
    /\ saved \subseteq ratchet
    /\ \A m \in Messages : applied[m] <= 1 /\ (applied[m] = 1 => m \in saved)
    /\ \A w \in Workers : Holding(w) => Id(w) \in ratchet /\ applied[Id(w)] = 0
    /\ \A w \in Workers : At(w, "markProcessed") => Id(w) \in saved
    /\ \A v, w \in Workers : Holding(v) /\ Holding(w) /\ Id(v) = Id(w) => v = w

\* Why a confirmed message is on disk: it was stored before the receipt.
StoredInv ==
    /\ ReceiptIsStored
    /\ \A w \in Workers :
          At(w, "deliver") /\ Id(w) \notin Expiring => Present(Id(w))

\* The calls at labels L are those of before, on the same envelopes.
SameAt(L) ==
    /\ \A n \in LogSeqs : log'[n] = log[n]
    /\ \A w \in Workers : work'[w].pc \in L => work'[w] = work[w]

\* Envelopes of unchanged calls keep their ids.
LEMMA SameId ==
    ASSUME TypeInv, NEW L \in SUBSET Ingesting, SameAt(L), NEW w \in Workers,
           work'[w].pc \in L
    PROVE  Id(w)' = Id(w) /\ Id(w) \in Messages /\ work'[w] = work[w]
  <1>1. work'[w] = work[w] /\ work[w].pc \in Ingesting
    BY DEF SameAt
  <1>2. work[w].cur \in LogSeqs /\ Id(w) \in Messages
    BY <1>1, IdType
  <1> QED
    BY <1>1, <1>2 DEF SameAt, Id

\* A step that touches neither the ratchet nor the calls that hold a key
\* preserves OnceInv.
LEMMA QuietOnce ==
    ASSUME TypeInv, OnceInv, SameAt({"persist", "markProcessed"}),
           UNCHANGED <<ratchet, saved, applied>>
    PROVE  OnceInv'
  <1>1. {"persist", "markProcessed"} \in SUBSET Ingesting
    BY DEF Ingesting
  <1>2. \A w \in Workers : Holding(w)' =>
           Id(w)' = Id(w) /\ Id(w) \in Messages /\ work'[w] = work[w]
    BY <1>1, SameId DEF Holding
  <1>3. \A w \in Workers : At(w, "markProcessed")' => Holding(w)'
    BY DEF At, Holding
  <1> QED
    BY <1>2, <1>3 DEF OnceInv, Holding, At

\* A step that emits no receipt, keeps the rows that must stay, and lets no
\* call reach the receipt preserves StoredInv.
LEMMA QuietStored ==
    ASSUME TypeInv, StoredInv, SameAt({"deliver"}), UNCHANGED receipts,
           \A m \in Messages \ Expiring : Present(m) => Present(m)'
    PROVE  StoredInv'
  <1>1. {"deliver"} \in SUBSET Ingesting
    BY DEF Ingesting
  <1>2. \A w \in Workers : At(w, "deliver")' =>
           Id(w)' = Id(w) /\ Id(w) \in Messages /\ work'[w] = work[w]
    BY <1>1, SameId DEF At
  <1>3. receipts \subseteq Messages
    BY Typed
  <1> QED
    BY <1>2, <1>3 DEF StoredInv, ReceiptIsStored, At

Quiet == {"deliver", "persist", "markProcessed"}

\* A call that moves to a label outside L, on an unchanged log.
LEMMA MovedAway ==
    ASSUME TypeInv, NEW w \in Workers, NEW c, Run(w, c), log' = log,
           NEW L, c.pc \notin L
    PROVE  SameAt(L)
  BY DEF SameAt, Run, TypeInv, TypeOK

\* SameAt of a set of labels is SameAt of its subsets.
LEMMA SameSubset ==
    ASSUME NEW L, NEW K \in SUBSET L, SameAt(L) PROVE SameAt(K)
  BY DEF SameAt

\* A step that is quiet in every respect preserves both invariants.
LEMMA QuietBoth ==
    ASSUME TypeInv, OnceInv, StoredInv, SameAt(Quiet),
           UNCHANGED <<ratchet, saved, applied, receipts>>,
           \A m \in Messages \ Expiring : Present(m) => Present(m)'
    PROVE  OnceInv' /\ StoredInv'
  <1>1. SameAt({"persist", "markProcessed"}) /\ SameAt({"deliver"})
    BY SameSubset DEF Quiet
  <1> QED
    BY <1>1, QuietOnce, QuietStored

-----------------------------------------------------------------------------
\* Quiet steps of a call: it moves to a label outside Quiet and leaves the
\* ratchet, the histories of the proof and the rows' sequence numbers alone.
LEMMA QuietStep ==
    ASSUME TypeInv, OnceInv, StoredInv, NEW w \in Workers, NEW c, Run(w, c),
           c.pc \notin Quiet,
           UNCHANGED <<log, ratchet, saved, applied, receipts>>,
           \A m \in Messages : Present(m) => Present(m)'
    PROVE  OnceInv' /\ StoredInv'
  BY MovedAway, QuietBoth

\* What a call is when it moves its program counter, or returns.
LEMMA Moves ==
    ASSUME TypeInv, NEW w \in Workers
    PROVE  /\ \A l \in Labels : [work[w] EXCEPT !.pc = l].pc = l
           /\ work[w].pc \in Ingesting => Returned(w).pc \notin Quiet
           /\ Idle.pc \notin Quiet
  <1>1. CallOK(work[w]) /\ work[w] \in Calls
    BY Typed DEF CallOK
  <1>2. work[w].pc \in Ingesting => Returned(w).pc \in {"idle", "next"}
    BY <1>1, ReturnedOK
  <1> QED
    BY <1>1, <1>2 DEF Calls, Quiet, Idle

\* Where a single call moved, the others are where they were.
LEMMA Others ==
    ASSUME TypeInv, NEW w \in Workers, NEW l \in Labels, Goto(w, l)
    PROVE  /\ work'[w] = [work[w] EXCEPT !.pc = l]
           /\ work'[w].pc = l /\ work'[w].cur = work[w].cur
           /\ \A v \in Workers \ {w} : work'[v] = work[v]
  <1>1. work \in [Workers -> Calls]
    BY Typed
  <1>2. work'[w] = [work[w] EXCEPT !.pc = l]
    BY <1>1 DEF Goto, Run
  <1> QED
    BY <1>1, <1>2 DEF Goto, Run, Calls

\* The rows an UPDATE of flags leaves are the rows of before.
LEMMA UpdateKeepsRows ==
    ASSUME TypeInv, NEW m \in Messages,
           \/ inbox' = Updated(m, [inbox[m] EXCEPT !.deliveredSent = TRUE])
           \/ inbox' = Updated(m, [inbox[m] EXCEPT !.processed = TRUE])
           \/ inbox' = Updated(m, FailedRow(inbox[m]))
    PROVE  \A k \in Messages : Present(k) => Present(k)'
  <1>1. PICK row \in Rows : inbox' = Updated(m, row) /\ row.logSeq = inbox[m].logSeq
    BY FlagsOnly
  <1>2. \A k \in Messages : Updated(m, row)[k].logSeq = inbox[k].logSeq
    BY <1>1, UpdatedOK
  <1> QED
    BY <1>1, <1>2 DEF Present

\* Every step of a call that ingests an envelope preserves the two invariants.
LEMMA IngestSafe ==
    ASSUME TypeInv, OnceInv, StoredInv, NEW w \in Workers, IngestStep(w)
    PROVE  OnceInv' /\ StoredInv'
  <1> USE DEF server, durable, history
  <1>0. UNCHANGED inbox => \A m \in Messages : Present(m) => Present(m)'
    BY DEF Present
  <1>1. CASE LiveEvent(w)
    <2>1. [Idle EXCEPT !.pc = "accept", !.kind = "live", !.cur = Head(live)].pc
             \notin Quiet
      BY DEF Idle, Quiet
    <2> QED
      BY <1>0, <1>1, <2>1, QuietStep DEF LiveEvent
  <1>2. CASE Accept(w)
    <2>1. work[w].pc \in Ingesting /\ Id(w) \in Messages
             /\ work[w].cur \in Nat \ {0}
      BY <1>2, IdType DEF Accept, At, Ingesting
    <2>2. CASE Stored(Id(w))
      BY <1>0, <1>2, <2>1, <2>2, Moves, QuietStep DEF Accept
    <2>3. CASE ~Stored(Id(w))
      <3> DEFINE l == IF work[w].kind = "live" THEN "deliver" ELSE "decrypt"
      <3>1. Goto(w, l) /\ l \in Labels /\ l \in {"deliver", "decrypt"}
        BY <1>2, <2>3 DEF Accept, Labels
      <3> HIDE DEF l
      <3>2. /\ work'[w].pc = l /\ work'[w].cur = work[w].cur
            /\ \A v \in Workers \ {w} : work'[v] = work[v]
        BY <3>1, Others
      <3>3. SameAt({"persist", "markProcessed"})
        BY <1>2, <3>1, <3>2 DEF SameAt, Accept
      <3>4. OnceInv'
        BY <1>2, <3>3, QuietOnce DEF Accept
      <3>5. inbox' = [inbox EXCEPT ![Id(w)] = FreshRow(work[w].cur)]
        BY <1>2, <2>3 DEF Accept
      <3>6. /\ inbox \in [Messages -> Rows]
            /\ FreshRow(work[w].cur).logSeq = work[w].cur
        BY Typed DEF FreshRow, NoRow
      <3>7. Present(Id(w))' /\ \A m \in Messages : Present(m) => Present(m)'
        <4>1. Id(w)' = Id(w)
          BY <1>2, <3>2 DEF Id, Accept
        <4>2. inbox'[Id(w)].logSeq # 0
          BY <2>1, <3>5, <3>6
        <4>3. \A m \in Messages \ {Id(w)} : inbox'[m] = inbox[m]
          BY <3>5, <3>6
        <4> QED
          BY <4>1, <4>2, <4>3 DEF Present
      <3>8. receipts' = receipts /\ receipts \subseteq Messages
        BY <1>2, Typed DEF Accept
      <3>9. ReceiptIsStored'
        BY <3>7, <3>8 DEF StoredInv, ReceiptIsStored
      <3>10. ASSUME NEW v \in Workers, At(v, "deliver")', (Id(v) \notin Expiring)'
             PROVE  Present(Id(v))'
        <4>1. CASE v = w
          BY <4>1, <3>7
        <4>2. CASE v # w
          <5>1. work'[v] = work[v] /\ log' = log
            BY <1>2, <3>2, <4>2 DEF Accept
          <5>2. At(v, "deliver") /\ Id(v)' = Id(v) /\ Id(v) \notin Expiring
            BY <3>10, <5>1 DEF At, Id
          <5>3. Id(v) \in Messages
            BY <5>2, IdType DEF At, Ingesting
          <5>4. Present(Id(v))
            BY <5>2 DEF StoredInv
          <5>5. inbox'[Id(v)].logSeq # 0
            BY <3>7, <5>3, <5>4 DEF Present
          <5> QED
            BY <5>2, <5>5 DEF Present
        <4> QED
          BY <4>1, <4>2
      <3> QED
        BY <3>4, <3>9, <3>10 DEF StoredInv
    <2> QED
      BY <2>2, <2>3
  <1>3. CASE Deliver(w)
    <2>1. work[w].pc \in Ingesting /\ Id(w) \in Messages
      BY <1>3, IdType DEF Deliver, At, Ingesting
    <2>2. SameAt(Quiet)
      <3>1. Run(w, [work[w] EXCEPT !.pc = "markDelivered"]) /\ log' = log
        BY <1>3 DEF Deliver, Goto
      <3>2. [work[w] EXCEPT !.pc = "markDelivered"].pc \notin Quiet
        BY Moves DEF Labels, Quiet
      <3> QED
        BY <3>1, <3>2, MovedAway
    <2>3. SameAt({"persist", "markProcessed"}) /\ SameAt({"deliver"})
      BY <2>2, SameSubset DEF Quiet
    <2>4. OnceInv'
      BY <1>3, <2>3, QuietOnce DEF Deliver
    <2>5. Id(w) \notin Expiring => Present(Id(w))
      BY <1>3 DEF Deliver, StoredInv
    <2>6. ReceiptIsStored'
      BY <1>3, <2>5 DEF Deliver, StoredInv, ReceiptIsStored, Present
    <2>7. ASSUME NEW v \in Workers, At(v, "deliver")', (Id(v) \notin Expiring)'
          PROVE  Present(Id(v))'
      <3>1. {"deliver"} \in SUBSET Ingesting
        BY DEF Ingesting
      <3>2. Id(v)' = Id(v) /\ work'[v] = work[v]
        BY <2>3, <2>7, <3>1, SameId DEF At
      <3> QED
        BY <1>3, <2>7, <3>2 DEF Deliver, At, StoredInv, Present
    <2> QED
      BY <2>4, <2>6, <2>7 DEF StoredInv
  <1>4. CASE DeliverThrows(w)
    BY <1>0, <1>4, Moves, QuietStep DEF DeliverThrows
  <1>5. CASE MarkDelivered(w)
    <2>1. Id(w) \in Messages
      BY <1>5, IdType DEF MarkDelivered, At, Ingesting
    <2>2. \A m \in Messages : Present(m) => Present(m)'
      BY <1>5, <2>1, UpdateKeepsRows DEF MarkDelivered
    <2>3. [work[w] EXCEPT !.pc = "decrypt"].pc \notin Quiet
      BY Moves DEF Labels, Quiet
    <2> QED
      BY <1>5, <2>2, <2>3, QuietStep DEF MarkDelivered, Goto
  <1>6. CASE Decrypt(w)
    <2>1. work[w].pc \in Ingesting /\ Id(w) \in Messages /\ UNCHANGED inbox
      BY <1>6, IdType DEF Decrypt, At, Ingesting
    <2>2. CASE ratchet' = ratchet
      <3>1. [work[w] EXCEPT !.pc = "markFailed"].pc \notin Quiet
        BY Moves DEF Labels, Quiet
      <3>2. CASE Run(w, Returned(w))
        BY <1>0, <1>6, <2>1, <2>2, <3>2, Moves, QuietStep DEF Decrypt
      <3>3. CASE Goto(w, "markFailed")
        BY <1>0, <1>6, <2>1, <2>2, <3>1, <3>3, QuietStep DEF Decrypt, Goto
      <3>4. CASE Id(w) \notin ratchet /\ ratchet' = ratchet \union {Id(w)}
        BY <2>2, <3>4
      <3> QED
        BY <1>6, <3>2, <3>3, <3>4 DEF Decrypt, Decrypts, Id
    <2>3. CASE ratchet' # ratchet
      <3>1. /\ Id(w) \notin ratchet
            /\ ratchet' = ratchet \union {Id(w)}
            /\ Goto(w, "persist")
        BY <1>6, <2>3 DEF Decrypt, Decrypts, Id
      <3>2. /\ work'[w].pc = "persist" /\ work'[w].cur = work[w].cur
            /\ \A v \in Workers \ {w} : work'[v] = work[v]
        BY <3>1, Others DEF Labels
      <3>3. UNCHANGED <<log, saved, applied, receipts, inbox>>
        BY <1>6 DEF Decrypt
      <3>4. SameAt({"deliver"})
        BY <3>2, <3>3 DEF SameAt
      <3>5. StoredInv'
        BY <1>0, <3>3, <3>4, QuietStored
      <3>6. \A v \in Workers : Id(v)' = Id(v)
        BY <3>2, <3>3 DEF Id
      <3>7. \A v \in Workers \ {w} : /\ Holding(v)' <=> Holding(v)
                                     /\ At(v, "markProcessed")' <=> At(v, "markProcessed")
        BY <3>2 DEF Holding, At
      <3>8. applied[Id(w)] = 0 /\ \A v \in Workers \ {w} : Holding(v) => Id(v) # Id(w)
        <4>1. Id(w) \notin saved
          BY <3>1 DEF OnceInv
        <4>2. applied[Id(w)] \in Nat /\ applied[Id(w)] <= 1 /\ applied[Id(w)] # 1
          BY <2>1, <4>1, Typed DEF OnceInv
        <4> QED
          BY <3>1, <4>2 DEF OnceInv
      <3>9. ~At(w, "markProcessed")'
        BY <3>2 DEF At
      <3>10. saved' \subseteq ratchet'
        BY <3>1, <3>3 DEF OnceInv
      <3>11. (\A m \in Messages : applied[m] <= 1 /\ (applied[m] = 1 => m \in saved))'
        BY <3>3 DEF OnceInv
      <3>12. (\A v \in Workers : Holding(v) => Id(v) \in ratchet /\ applied[Id(v)] = 0)'
        BY <3>1, <3>3, <3>6, <3>7, <3>8 DEF OnceInv
      <3>13. (\A v \in Workers : At(v, "markProcessed") => Id(v) \in saved)'
        BY <3>3, <3>6, <3>7, <3>9 DEF OnceInv
      <3>14. (\A u, v \in Workers : Holding(u) /\ Holding(v) /\ Id(u) = Id(v) => u = v)'
        BY <3>6, <3>7, <3>8 DEF OnceInv
      <3>15. OnceInv'
        BY <3>10, <3>11, <3>12, <3>13, <3>14 DEF OnceInv
      <3> QED
        BY <3>5, <3>15
    <2> QED
      BY <2>2, <2>3
  <1>7. CASE PersistSession(w)
    <2>1. Goto(w, "markProcessed") /\ Holding(w)
      BY <1>7 DEF PersistSession, At, Holding
    <2>2. /\ work'[w].pc = "markProcessed" /\ work'[w].cur = work[w].cur
          /\ \A v \in Workers \ {w} : work'[v] = work[v]
      BY <2>1, Others DEF Labels
    <2>3. UNCHANGED <<log, ratchet, applied, receipts, inbox>> /\ saved' = ratchet
      BY <1>7 DEF PersistSession
    <2>4. SameAt({"deliver"})
      BY <2>2, <2>3 DEF SameAt
    <2>5. StoredInv'
      BY <1>0, <2>3, <2>4, QuietStored
    <2>6. \A v \in Workers : Id(v)' = Id(v) /\ (Holding(v)' <=> Holding(v))
      BY <2>1, <2>2, <2>3 DEF Id, Holding
    <2>7. \A v \in Workers : At(v, "markProcessed")' => Holding(v)
      BY <2>6 DEF At, Holding
    <2>8. (\A m \in Messages : applied[m] <= 1 /\ (applied[m] = 1 => m \in saved))'
      BY <2>3 DEF OnceInv
    <2>9. (\A v \in Workers : Holding(v) => Id(v) \in ratchet /\ applied[Id(v)] = 0)'
      BY <2>3, <2>6 DEF OnceInv
    <2>10. (\A v \in Workers : At(v, "markProcessed") => Id(v) \in saved)'
      BY <2>3, <2>6, <2>7 DEF OnceInv
    <2>11. (\A u, v \in Workers : Holding(u) /\ Holding(v) /\ Id(u) = Id(v) => u = v)'
      BY <2>6 DEF OnceInv
    <2> QED
      BY <2>3, <2>5, <2>8, <2>9, <2>10, <2>11 DEF OnceInv
  <1>8. CASE MarkProcessed(w)
    <2>1. /\ work[w].pc \in Ingesting /\ Id(w) \in Messages
          /\ Holding(w) /\ At(w, "markProcessed")
      BY <1>8, IdType DEF MarkProcessed, At, Ingesting, Holding
    <2>2. PICK c : Run(w, c) /\ c.pc \notin Quiet
      <3>1. [work[w] EXCEPT !.pc = "readCursor"].pc \notin Quiet
        BY Moves DEF Labels, Quiet
      <3> QED
        BY <1>8, <2>1, <3>1, Moves DEF MarkProcessed, Goto
    <2>3. UNCHANGED <<log, ratchet, saved, receipts>>
      BY <1>8 DEF MarkProcessed
    <2>4. SameAt(Quiet)
      BY <2>2, <2>3, MovedAway
    <2>5. SameAt({"persist", "markProcessed"}) /\ SameAt({"deliver"})
      BY <2>4, SameSubset DEF Quiet
    <2>6. \A m \in Messages : Present(m) => Present(m)'
      BY <1>8, <2>1, UpdateKeepsRows DEF MarkProcessed
    <2>7. StoredInv'
      BY <2>3, <2>5, <2>6, QuietStored
    <2>8. ~Holding(w)'
      <3>1. work'[w] = c
        BY <2>2, Typed DEF Run
      <3> QED
        BY <2>2, <3>1 DEF Holding, Quiet
    <2>9. \A v \in Workers : Holding(v)' =>
             /\ v # w /\ Holding(v) /\ Id(v)' = Id(v) /\ Id(v) \in Messages
             /\ work'[v] = work[v]
      <3>1. {"persist", "markProcessed"} \in SUBSET Ingesting
        BY DEF Ingesting
      <3> QED
        BY <2>5, <2>8, <3>1, SameId DEF Holding
    <2>10. applied' = [applied EXCEPT ![Id(w)] = @ + 1]
      BY <1>8 DEF MarkProcessed
    <2>11. /\ applied \in [Messages -> Nat] /\ applied[Id(w)] = 0
           /\ Id(w) \in saved
      BY <2>1, Typed DEF OnceInv
    <2>12. applied'[Id(w)] = 1 /\ \A m \in Messages \ {Id(w)} : applied'[m] = applied[m]
      BY <2>1, <2>10, <2>11
    <2>13. (\A m \in Messages : applied[m] <= 1 /\ (applied[m] = 1 => m \in saved))'
      BY <2>3, <2>11, <2>12 DEF OnceInv
    <2>14. (\A v \in Workers : Holding(v) => Id(v) \in ratchet /\ applied[Id(v)] = 0)'
      BY <2>1, <2>3, <2>9, <2>12 DEF OnceInv
    <2>15. (\A v \in Workers : At(v, "markProcessed") => Id(v) \in saved)'
      <3>1. \A v \in Workers : At(v, "markProcessed")' => Holding(v)'
        BY DEF At, Holding
      <3> QED
        BY <2>3, <2>9, <3>1 DEF OnceInv, At
    <2>16. (\A u, v \in Workers : Holding(u) /\ Holding(v) /\ Id(u) = Id(v) => u = v)'
      BY <2>9 DEF OnceInv
    <2>17. saved' \subseteq ratchet'
      BY <2>3 DEF OnceInv
    <2> QED
      BY <2>7, <2>13, <2>14, <2>15, <2>16, <2>17 DEF OnceInv
  <1>9. CASE MarkFailed(w)
    <2>1. work[w].pc \in Ingesting /\ Id(w) \in Messages
      BY <1>9, IdType DEF MarkFailed, At, Ingesting
    <2>2. \A m \in Messages : Present(m) => Present(m)'
      BY <1>9, <2>1, UpdateKeepsRows DEF MarkFailed
    <2> QED
      BY <1>9, <2>1, <2>2, Moves, QuietStep DEF MarkFailed
  <1>10. CASE ReadCursor(w)
    <2> DEFINE c == [work[w] EXCEPT !.base = cursor,
                 !.pc = IF @ = "readCursor" THEN "writeCursor" ELSE "writeFinal"]
    <2>1. work[w] \in Calls
      BY Typed
    <2>2. c.pc \notin Quiet
      BY <2>1 DEF Calls, Quiet
    <2> QED
      BY <1>0, <1>10, <2>2, QuietStep DEF ReadCursor
  <1>11. CASE AdvanceToEnvelope(w)
    <2>1. work[w].pc \in Ingesting
      BY <1>11 DEF AdvanceToEnvelope, At, Ingesting
    <2> QED
      BY <1>0, <1>11, <2>1, Moves, QuietStep DEF AdvanceToEnvelope
  <1>12. CASE AdvanceToPage(w)
    BY <1>0, <1>12, Moves, QuietStep DEF AdvanceToPage
  <1> QED
    BY <1>1, <1>2, <1>3, <1>4, <1>5, <1>6, <1>7, <1>8, <1>9, <1>10, <1>11, <1>12
       DEF IngestStep

\* Steps of a sync or a resume use no key and emit no receipt.
LEMMA SyncSafe ==
    ASSUME TypeInv, OnceInv, StoredInv, NEW w \in Workers,
           SyncStep(w) \/ ResumeStep(w)
    PROVE  OnceInv' /\ StoredInv'
  <1> USE DEF server, durable, history
  <1>0. work[w] \in Calls /\ Idle \in Calls /\ Idle.pc = "idle"
    BY Typed, IdleOK DEF CallOK, Idle
  <1>1. UNCHANGED <<log, inbox, ratchet, saved, applied, receipts>>
    BY DEF SyncStep, ResumeStep, SyncStart, SyncResponse, SyncUnanswered,
           SyncIngest, SyncPass, SyncFinish, ResumeStart, ResumeNext,
           ResumeFinish
  <1>2. \A m \in Messages : Present(m) => Present(m)'
    BY <1>1 DEF Present
  <1> SUFFICES \E c : Run(w, c) /\ c.pc \notin Quiet
    BY <1>1, <1>2, QuietStep
  <1>3. CASE SyncStart(w)
    <2> DEFINE c == [Idle EXCEPT !.pc = "request", !.kind = "sync", !.base = cursor]
    <2>1. c.pc = "request"
      BY <1>0 DEF Calls
    <2>2. Run(w, c)
      BY <1>3 DEF SyncStart
    <2> QED
      BY <2>1, <2>2 DEF Quiet
  <1>4. CASE SyncResponse(w)
    <2> DEFINE c == [work[w] EXCEPT !.pc = "next",
                       !.todo = Page(work[w].base.log), !.base = ZeroCursor]
    <2>1. c.pc = "next"
      BY <1>0 DEF Calls
    <2>2. Run(w, c)
      BY <1>4 DEF SyncResponse
    <2> QED
      BY <2>1, <2>2 DEF Quiet
  <1>5. CASE SyncUnanswered(w)
    BY <1>0, <1>5 DEF SyncUnanswered, Quiet
  <1>6. ASSUME NEW n \in LogSeqs, SyncIngest(w, n)
        PROVE  \E c : Run(w, c) /\ c.pc \notin Quiet
    <2> DEFINE c == [work[w] EXCEPT !.pc = "accept", !.cur = n, !.todo = @ \ {n}]
    <2>1. c.pc = "accept"
      BY <1>0 DEF Calls
    <2>2. Run(w, c)
      BY <1>6 DEF SyncIngest
    <2> QED
      BY <2>1, <2>2 DEF Quiet
  <1>7. ASSUME NEW n \in LogSeqs, SyncPass(w, n)
        PROVE  \E c : Run(w, c) /\ c.pc \notin Quiet
    <2> DEFINE c == [work[w] EXCEPT !.todo = @ \ {n},
                       !.high = IF log[n].kind = "malformed" THEN @ ELSE n]
    <2>1. c.pc = work[w].pc /\ work[w].pc = "next"
      BY <1>0, <1>7 DEF SyncPass, Syncing, At, Calls
    <2> QED
      BY <1>7, <2>1 DEF SyncPass, Quiet
  <1>8. CASE SyncFinish(w)
    <2> DEFINE c == [work[w] EXCEPT !.pc = "readFinal", !.high = SyncTarget(w)]
    <2>1. c.pc = "readFinal"
      BY <1>0 DEF Calls
    <2>2. Run(w, Idle) \/ Run(w, c)
      BY <1>8 DEF SyncFinish
    <2> QED
      BY <1>0, <2>1, <2>2 DEF Quiet
  <1>9. CASE ResumeStart(w)
    <2> DEFINE c == [Idle EXCEPT !.pc = "next", !.kind = "resume",
                                 !.todo = ResumePage]
    <2>1. c.pc = "next"
      BY <1>0 DEF Calls
    <2>2. Run(w, c)
      BY <1>9 DEF ResumeStart
    <2> QED
      BY <2>1, <2>2 DEF Quiet
  <1>10. ASSUME NEW n \in LogSeqs, ResumeNext(w, n)
         PROVE  \E c : Run(w, c) /\ c.pc \notin Quiet
    <2> DEFINE c == [work[w] EXCEPT !.pc = "decrypt", !.cur = n, !.todo = @ \ {n}]
    <2>1. c.pc = "decrypt"
      BY <1>0 DEF Calls
    <2>2. Run(w, c)
      BY <1>10 DEF ResumeNext
    <2> QED
      BY <2>1, <2>2 DEF Quiet
  <1>11. CASE ResumeFinish(w)
    BY <1>0, <1>11 DEF ResumeFinish, Quiet
  <1> QED
    BY <1>3, <1>4, <1>5, <1>6, <1>7, <1>8, <1>9, <1>10, <1>11
       DEF SyncStep, ResumeStep

\* The server, the network, resets and purges leave every call where it is; a
\* crash ends them all and falls back to the saved session.
LEMMA OthersSafe ==
    ASSUME TypeInv, OnceInv, StoredInv,
           \/ (\E e \in Events : ServerLogs(e)) \/ GoOnline \/ GoOffline
           \/ SessionEstablished \/ ResetCursor
           \/ (\E m \in Messages : PurgeExpired(m)) \/ Crash \/ UNCHANGED vars
    PROVE  OnceInv' /\ StoredInv'
  <1> USE DEF server, durable, history
  <1>1. ASSUME UNCHANGED <<work, inbox, ratchet, saved, applied, receipts>>,
               \A n \in LogSeqs : log'[n] = log[n]
        PROVE  OnceInv' /\ StoredInv'
    BY <1>1, QuietBoth DEF SameAt, Present
  <1>2. ASSUME NEW e \in Events, ServerLogs(e)
        PROVE  OnceInv' /\ StoredInv'
    <2>1. \A n \in LogSeqs : log'[n] = log[n]
      BY <1>2, LogGrows DEF TypeInv
    <2> QED
      BY <1>1, <1>2, <2>1 DEF ServerLogs
  <1>3. CASE GoOnline \/ GoOffline \/ SessionEstablished \/ ResetCursor
               \/ UNCHANGED vars
    BY <1>1, <1>3 DEF GoOnline, GoOffline, SessionEstablished, ResetCursor, vars
  <1>4. ASSUME NEW m \in Messages, PurgeExpired(m)
        PROVE  OnceInv' /\ StoredInv'
    <2>1. UNCHANGED <<log, work, ratchet, saved, applied, receipts>>
      BY <1>4 DEF PurgeExpired
    <2>2. SameAt(Quiet)
      BY <2>1 DEF SameAt
    <2>3. \A k \in Messages \ Expiring : Present(k) => Present(k)'
      BY <1>4, Typed DEF PurgeExpired, Present
    <2> QED
      BY <2>1, <2>2, <2>3, QuietBoth
  <1>5. CASE Crash
    <2>1. \A v \in Workers : ~Holding(v)' /\ ~At(v, "markProcessed")'
                               /\ ~At(v, "deliver")'
      BY <1>5 DEF Crash, Holding, At, Idle
    <2>2. UNCHANGED <<inbox, saved, applied, receipts>> /\ ratchet' = saved
      BY <1>5 DEF Crash
    <2>3. OnceInv'
      BY <2>1, <2>2 DEF OnceInv
    <2>4. StoredInv'
      BY <2>1, <2>2 DEF StoredInv, ReceiptIsStored, Present
    <2> QED
      BY <2>3, <2>4
  <1> QED
    BY <1>2, <1>3, <1>4, <1>5

\* The invariant from which both results follow.
ClientInv == TypeInv /\ OnceInv /\ StoredInv

\* ClientInv holds initially and is preserved by every step.
THEOREM ClientInvariant == Spec => []ClientInv
  <1>1. Init => ClientInv
    <2> SUFFICES ASSUME Init PROVE ClientInv
      OBVIOUS
    <2>1. TypeInv
      BY InitTyped
    <2>2. OnceInv
      BY DEF Init, OnceInv, Holding, At, Idle
    <2>3. StoredInv
      BY DEF Init, StoredInv, ReceiptIsStored, At, Idle
    <2> QED
      BY <2>1, <2>2, <2>3 DEF ClientInv
  <1>2. ClientInv /\ [Next]_vars => ClientInv'
    <2> SUFFICES ASSUME ClientInv, [Next]_vars PROVE ClientInv'
      OBVIOUS
    <2>1. TypeInv /\ OnceInv /\ StoredInv
      BY DEF ClientInv
    <2>2. TypeInv'
      BY <2>1, NextTyped
    <2>3. OnceInv' /\ StoredInv'
      BY <2>1, IngestSafe, SyncSafe, OthersSafe DEF Next
    <2> QED
      BY <2>2, <2>3 DEF ClientInv
  <1> QED
    BY <1>1, <1>2, PTL DEF Spec

\* A message is handed to the app at most once, however live delivery, syncs,
\* resumes, resets, purges and crashes interleave.
THEOREM AppliedOnceTheorem == Spec => []AppliedOnce
  <1>1. ClientInv => AppliedOnce
    BY DEF ClientInv, OnceInv, AppliedOnce
  <1> QED
    BY <1>1, ClientInvariant, PTL

\* A message confirmed with a DELIVERED receipt stays on disk, unless it was
\* to disappear: ingest stores before it confirms, and nothing else deletes.
THEOREM ReceiptIsStoredTheorem == Spec => []ReceiptIsStored
  <1>1. ClientInv => ReceiptIsStored
    BY DEF ClientInv, StoredInv
  <1> QED
    BY <1>1, ClientInvariant, PTL

-----------------------------------------------------------------------------
(* The cursor *)

\* Every log_seq up to n is in h.
Covers(n, h) == 1 .. n \subseteq h

\* What was handled, or jumped over by a live message.
Handled == seen \union jumped

\* The events a call still has to hand to the inbox.
Rest(c) == c.todo \union (IF c.pc = "accept" THEN {c.cur} ELSE {})

\* What a call knows of the log: the cursor it read and the last event it has
\* done are covered, a sync that has stored its event is covered up to it, and
\* below an event of its page everything is covered or on the page.
CursorCall(c, h) ==
    /\ Covers(c.base.log, h)
    /\ Covers(c.high, h)
    /\ c.pc \in {"readCursor", "writeCursor"} => c.kind # "resume"
    /\ c.kind = "sync" =>
         /\ c.pc \in Ingesting \ {"accept"} => Covers(c.cur, h)
         /\ c.pc = "accept" => \A k \in c.todo : c.cur < k
         /\ \A n \in Rest(c) : 1 .. (n - 1) \subseteq h \union Rest(c)

\* The inductive strengthening of SyncSkipsNothing.
CursorInv ==
    /\ Covers(cursor.log, Handled)
    /\ \A w \in Workers : CursorCall(work[w], Handled)

\* More handled events cover more.
LEMMA CoversMore ==
    ASSUME NEW h, NEW g, h \subseteq g, NEW c, CursorCall(c, h)
    PROVE  CursorCall(c, g)
  BY DEF CursorCall, Covers

\* Nothing is below the first event.
LEMMA CoversNone == ASSUME NEW h PROVE Covers(0, h)
  BY DEF Covers

LEMMA IdleCovers ==
    ASSUME NEW h, NEW c, c.base.log = 0, c.high = 0, c.kind # "sync",
           c.pc \notin {"readCursor", "writeCursor"}
    PROVE  CursorCall(c, h)
  BY CoversNone DEF CursorCall

\* A step of one call: what was handled stays so, the call's new state and the
\* cursor are covered.
LEMMA CursorStep ==
    ASSUME TypeInv, CursorInv, NEW w \in Workers, NEW c, Run(w, c),
           Handled \subseteq Handled', CursorCall(c, Handled'),
           Covers(cursor'.log, Handled')
    PROVE  CursorInv'
  <1>1. work'[w] = c /\ \A v \in Workers \ {w} : work'[v] = work[v]
    BY Typed DEF Run
  <1>2. ASSUME NEW v \in Workers PROVE CursorCall(work'[v], Handled')
    <2>1. CASE v = w
      BY <1>1, <2>1
    <2>2. CASE v # w
      <3>1. CursorCall(work[v], Handled)
        BY DEF CursorInv
      <3>2. CursorCall(work[v], Handled')
        BY <3>1, CoversMore
      <3> QED
        BY <1>1, <2>2, <3>2
    <2> QED
      BY <2>1, <2>2
  <1> QED
    BY <1>2 DEF CursorInv

\* A step of one call that handles nothing and leaves the cursor alone.
LEMMA CursorQuiet ==
    ASSUME TypeInv, CursorInv, NEW w \in Workers, NEW c, Run(w, c),
           UNCHANGED <<cursor, seen, jumped>>, CursorCall(c, Handled)
    PROVE  CursorInv'
  <1>1. Handled' = Handled /\ cursor' = cursor
    BY DEF Handled
  <1>2. Covers(cursor.log, Handled)
    BY DEF CursorInv
  <1> QED
    BY <1>1, <1>2, CursorStep

\* An ingest that moves on, past the inbox, knows what it knew.
LEMMA GotoCovers ==
    ASSUME TypeInv, NEW h, NEW w \in Workers, CursorCall(work[w], h),
           work[w].pc \in Ingesting \ {"accept"}, NEW l \in Labels \ {"accept"},
           l = "readCursor" => work[w].kind # "resume",
           l # "writeCursor"
    PROVE  CursorCall([work[w] EXCEPT !.pc = l], h)
  <1> DEFINE c == [work[w] EXCEPT !.pc = l]
  <1>1. work[w] \in Calls
    BY Typed
  <1>2. /\ c.pc = l /\ c.kind = work[w].kind /\ c.cur = work[w].cur
        /\ c.todo = work[w].todo /\ c.high = work[w].high
        /\ c.base = work[w].base
    BY <1>1 DEF Calls
  <1>3. Rest(c) = Rest(work[w])
    BY <1>2 DEF Rest
  <1> SUFFICES CursorCall(c, h)
    OBVIOUS
  <1> HIDE DEF c
  <1> QED
    BY <1>2, <1>3 DEF CursorCall

\* So does one that returns: a sync has then done its event.
LEMMA ReturnCovers ==
    ASSUME TypeInv, NEW h, NEW w \in Workers, CursorCall(work[w], h),
           work[w].pc \in Ingesting \ {"accept"}
    PROVE  CursorCall(Returned(w), h)
  <1>1. work[w] \in Calls
    BY Typed
  <1>2. CASE work[w].kind = "live"
    BY <1>2, IdleCovers DEF Returned, Idle, ZeroCursor
  <1>3. CASE work[w].kind = "sync"
    <2> DEFINE c == [work[w] EXCEPT !.pc = "next", !.high = work[w].cur,
                                    !.cur = 0, !.base = ZeroCursor]
    <2>1. /\ c.pc = "next" /\ c.kind = "sync" /\ c.high = work[w].cur
          /\ c.todo = work[w].todo /\ c.base.log = 0
      BY <1>1, <1>3 DEF Calls, ZeroCursor
    <2>2. Rest(c) = Rest(work[w])
      BY <2>1 DEF Rest
    <2>3. Returned(w) = c
      BY <1>3 DEF Returned
    <2> HIDE DEF c
    <2>4. CursorCall(c, h)
      BY <1>3, <2>1, <2>2, CoversNone DEF CursorCall, Ingesting
    <2> QED
      BY <2>3, <2>4
  <1>4. CASE work[w].kind = "resume"
    <2> DEFINE c == [work[w] EXCEPT !.pc = "next", !.cur = 0]
    <2>1. /\ c.pc = "next" /\ c.kind = "resume" /\ c.high = work[w].high
          /\ c.base = work[w].base
      BY <1>1, <1>4 DEF Calls
    <2>2. Returned(w) = c
      BY <1>4 DEF Returned
    <2> HIDE DEF c
    <2>3. CursorCall(c, h)
      BY <2>1 DEF CursorCall
    <2> QED
      BY <2>2, <2>3
  <1> QED
    BY <1>1, <1>2, <1>3, <1>4 DEF Calls

\* Every step of a call that ingests an envelope preserves the invariant.
LEMMA IngestCovers ==
    ASSUME TypeInv, CursorInv, NEW w \in Workers, IngestStep(w)
    PROVE  CursorInv'
  <1> USE DEF server, durable, history
  <1>0. /\ work[w] \in Calls
        /\ CursorCall(work[w], Handled)
        /\ Covers(cursor.log, Handled)
        /\ CursorCall(Idle, Handled)
    BY Typed, IdleCovers DEF CursorInv, Idle, ZeroCursor
  <1>1. CASE LiveEvent(w)
    <2> DEFINE c == [Idle EXCEPT !.pc = "accept", !.kind = "live", !.cur = Head(live)]
    <2>1. CursorCall(c, Handled)
      BY IdleCovers DEF Idle, ZeroCursor
    <2> QED
      BY <1>1, <2>1, CursorQuiet DEF LiveEvent
  <1>2. CASE Accept(w)
    <2>1. work[w].pc = "accept" /\ work[w].cur \in Nat
      BY <1>2, IdType DEF Accept, At, Ingesting
    <2>2. Handled' = Handled \union {work[w].cur} /\ cursor' = cursor
      BY <1>2 DEF Accept, Handled
    <2>3. Covers(cursor'.log, Handled')
      BY <1>0, <2>2 DEF Covers
    <2>4. Covers(work[w].base.log, Handled') /\ Covers(work[w].high, Handled')
      BY <1>0, <2>2 DEF CursorCall, Covers
    <2>5. CASE work[w].kind = "sync"
      <3>1. /\ \A k \in work[w].todo : work[w].cur < k
            /\ \A n \in Rest(work[w]) :
                  1 .. (n - 1) \subseteq Handled \union Rest(work[w])
        BY <1>0, <2>1, <2>5 DEF CursorCall
      <3>2. Rest(work[w]) = work[w].todo \union {work[w].cur}
        BY <2>1 DEF Rest
      <3>3. Covers(work[w].cur, Handled')
        <4>1. 1 .. (work[w].cur - 1) \subseteq
                 Handled \union work[w].todo \union {work[w].cur}
          BY <3>1, <3>2
        <4>2. \A k \in 1 .. (work[w].cur - 1) : k \notin work[w].todo
          BY <2>1, <3>1
        <4>3. \A k \in 1 .. work[w].cur : k \in 1 .. (work[w].cur - 1) \/ k = work[w].cur
          BY <2>1
        <4> QED
          BY <2>2, <4>1, <4>2, <4>3 DEF Covers
      <3>4. \A n \in work[w].todo : 1 .. (n - 1) \subseteq Handled' \union work[w].todo
        BY <2>2, <3>1, <3>2
      <3>5. ASSUME NEW c, c.kind = "sync", c.todo = work[w].todo,
                   c.pc \notin {"accept", "readCursor", "writeCursor"},
                   c.cur = work[w].cur \/ c.pc = "next",
                   Covers(c.base.log, Handled'), Covers(c.high, Handled')
            PROVE  CursorCall(c, Handled')
        <4>1. Rest(c) = work[w].todo
          BY <3>5 DEF Rest
        <4> QED
          BY <3>3, <3>4, <3>5, <4>1 DEF CursorCall, Ingesting
      <3>6. CASE Run(w, Returned(w))
        <4> DEFINE c == [work[w] EXCEPT !.pc = "next", !.high = work[w].cur,
                                        !.cur = 0, !.base = ZeroCursor]
        <4>1. /\ c.pc = "next" /\ c.kind = "sync" /\ c.todo = work[w].todo
              /\ c.high = work[w].cur /\ c.base.log = 0
          BY <1>0, <2>5 DEF Calls, ZeroCursor
        <4>2. Returned(w) = c
          BY <2>5 DEF Returned
        <4> HIDE DEF c
        <4>3. CursorCall(c, Handled')
          BY <3>3, <3>5, <4>1, CoversNone
        <4> QED
          BY <2>2, <2>3, <3>6, <4>2, <4>3, CursorStep
      <3>7. CASE Goto(w, "decrypt")
        <4> DEFINE c == [work[w] EXCEPT !.pc = "decrypt"]
        <4>1. /\ c.pc = "decrypt" /\ c.kind = "sync" /\ c.todo = work[w].todo
              /\ c.high = work[w].high /\ c.base = work[w].base
              /\ c.cur = work[w].cur
          BY <1>0, <2>5 DEF Calls
        <4>2. Run(w, c)
          BY <3>7 DEF Goto
        <4> HIDE DEF c
        <4>3. CursorCall(c, Handled')
          BY <2>4, <3>5, <4>1
        <4> QED
          BY <2>2, <2>3, <4>2, <4>3, CursorStep
      <3> QED
        BY <1>2, <2>5, <3>6, <3>7 DEF Accept
    <2>6. CASE work[w].kind # "sync"
      <3>1. ASSUME NEW c, c.kind # "sync",
                   c.pc \notin {"accept", "readCursor", "writeCursor"},
                   Covers(c.base.log, Handled'), Covers(c.high, Handled'), Run(w, c)
            PROVE  CursorInv'
        <4>1. CursorCall(c, Handled')
          BY <3>1 DEF CursorCall
        <4> QED
          BY <2>2, <2>3, <3>1, <4>1, CursorStep
      <3>2. CASE Run(w, Returned(w))
        <4>1. CASE work[w].kind = "live"
          BY <3>1, <3>2, <4>1, CoversNone DEF Returned, Idle, ZeroCursor
        <4>2. CASE work[w].kind = "resume"
          <5> DEFINE c == [work[w] EXCEPT !.pc = "next", !.cur = 0]
          <5>1. /\ c.pc = "next" /\ c.kind = "resume"
                /\ c.high = work[w].high /\ c.base = work[w].base
            BY <1>0, <4>2 DEF Calls
          <5>2. Run(w, c)
            BY <3>2, <4>2 DEF Returned
          <5> HIDE DEF c
          <5> QED
            BY <2>4, <3>1, <5>1, <5>2
        <4> QED
          BY <1>0, <2>6, <4>1, <4>2 DEF Calls
      <3>3. ASSUME NEW l \in {"deliver", "decrypt"}, Goto(w, l)
            PROVE  CursorInv'
        <4> DEFINE c == [work[w] EXCEPT !.pc = l]
        <4>1. /\ c.pc = l /\ c.kind = work[w].kind
              /\ c.high = work[w].high /\ c.base = work[w].base
          BY <1>0 DEF Calls
        <4>2. Run(w, c)
          BY <3>3 DEF Goto
        <4> HIDE DEF c
        <4> QED
          BY <2>4, <2>6, <3>1, <4>1, <4>2
      <3> QED
        BY <1>2, <3>2, <3>3 DEF Accept
    <2> QED
      BY <2>5, <2>6
  <1>3. CASE Deliver(w)
    <2>1. CursorCall([work[w] EXCEPT !.pc = "markDelivered"], Handled)
      BY <1>0, <1>3, GotoCovers DEF Deliver, At, Ingesting, Labels
    <2> QED
      BY <1>3, <2>1, CursorQuiet DEF Deliver, Goto
  <1>4. CASE DeliverThrows(w)
    BY <1>0, <1>4, CursorQuiet DEF DeliverThrows
  <1>5. CASE MarkDelivered(w)
    <2>1. CursorCall([work[w] EXCEPT !.pc = "decrypt"], Handled)
      BY <1>0, <1>5, GotoCovers DEF MarkDelivered, At, Ingesting, Labels
    <2> QED
      BY <1>5, <2>1, CursorQuiet DEF MarkDelivered, Goto
  <1>6. CASE Decrypt(w)
    <2>1. \A l \in {"persist", "markFailed"} :
             CursorCall([work[w] EXCEPT !.pc = l], Handled)
      BY <1>0, <1>6, GotoCovers DEF Decrypt, At, Ingesting, Labels
    <2>2. CursorCall(Returned(w), Handled)
      BY <1>0, <1>6, ReturnCovers DEF Decrypt, At, Ingesting
    <2>3. \E c : Run(w, c) /\ CursorCall(c, Handled)
      BY <1>6, <2>1, <2>2 DEF Decrypt, Goto
    <2> QED
      BY <1>6, <2>3, CursorQuiet DEF Decrypt
  <1>7. CASE PersistSession(w)
    <2>1. CursorCall([work[w] EXCEPT !.pc = "markProcessed"], Handled)
      BY <1>0, <1>7, GotoCovers DEF PersistSession, At, Ingesting, Labels
    <2> QED
      BY <1>7, <2>1, CursorQuiet DEF PersistSession, Goto
  <1>8. CASE MarkProcessed(w)
    <2>1. work[w].kind # "resume" =>
             CursorCall([work[w] EXCEPT !.pc = "readCursor"], Handled)
      BY <1>0, <1>8, GotoCovers DEF MarkProcessed, At, Ingesting, Labels
    <2>2. CursorCall(Returned(w), Handled)
      BY <1>0, <1>8, ReturnCovers DEF MarkProcessed, At, Ingesting
    <2>3. \E c : Run(w, c) /\ CursorCall(c, Handled)
      BY <1>8, <2>1, <2>2 DEF MarkProcessed, Goto
    <2> QED
      BY <1>8, <2>3, CursorQuiet DEF MarkProcessed
  <1>9. CASE MarkFailed(w)
    <2>1. CursorCall(Returned(w), Handled)
      BY <1>0, <1>9, ReturnCovers DEF MarkFailed, At, Ingesting
    <2> QED
      BY <1>9, <2>1, CursorQuiet DEF MarkFailed
  <1>10. CASE ReadCursor(w)
    <2> DEFINE c == [work[w] EXCEPT !.base = cursor,
                 !.pc = IF @ = "readCursor" THEN "writeCursor" ELSE "writeFinal"]
    <2>1. /\ c.base = cursor /\ c.high = work[w].high /\ c.kind = work[w].kind
          /\ c.cur = work[w].cur /\ c.todo = work[w].todo
          /\ c.pc = IF work[w].pc = "readCursor" THEN "writeCursor" ELSE "writeFinal"
      BY <1>0 DEF Calls
    <2>2. work[w].pc \in {"readCursor", "readFinal"}
      BY <1>10 DEF ReadCursor, At
    <2>3. Run(w, c)
      BY <1>10 DEF ReadCursor
    <2> HIDE DEF c
    <2>4. Rest(c) = Rest(work[w])
      BY <2>1, <2>2 DEF Rest
    <2>5. CursorCall(c, Handled)
      BY <1>0, <2>1, <2>2, <2>4 DEF CursorCall, Ingesting
    <2> QED
      BY <1>10, <2>3, <2>5, CursorQuiet DEF ReadCursor
  <1>11. CASE AdvanceToEnvelope(w)
    <2>1. /\ work[w].pc = "writeCursor" /\ work[w].pc \in Ingesting \ {"accept"}
          /\ work[w].kind \in {"live", "sync"}
          /\ work[w].cur \in Nat /\ work[w].base.log \in Nat
      BY <1>0, <1>11, IdType
         DEF AdvanceToEnvelope, At, Ingesting, CursorCall, Calls, Cursors, LogSeqs
    <2>2. Handled \subseteq Handled'
      BY <1>11 DEF AdvanceToEnvelope, Handled
    <2>3. CursorCall(Returned(w), Handled')
      BY <1>0, <2>1, <2>2, ReturnCovers, CoversMore
    <2>4. CASE work[w].kind = "live"
      <3>1. 1 .. cursor'.log \subseteq Handled'
        BY <1>11, <2>4 DEF AdvanceToEnvelope, Handled
      <3> QED
        BY <1>11, <2>2, <2>3, <3>1, CursorStep DEF AdvanceToEnvelope, Covers
    <2>5. CASE work[w].kind = "sync"
      <3>1. Covers(work[w].cur, Handled) /\ Covers(work[w].base.log, Handled)
        BY <1>0, <2>1, <2>5 DEF CursorCall
      <3>2. cursor'.log \in {cursor.log, work[w].cur, work[w].base.log}
        BY <1>11 DEF AdvanceToEnvelope, Write, Advanced, Higher
      <3>3. Covers(cursor'.log, Handled)
        BY <1>0, <3>1, <3>2
      <3>4. Covers(cursor'.log, Handled')
        BY <2>2, <3>3 DEF Covers
      <3> QED
        BY <1>11, <2>2, <2>3, <3>4, CursorStep DEF AdvanceToEnvelope
    <2> QED
      BY <2>1, <2>4, <2>5
  <1>12. CASE AdvanceToPage(w)
    <2>1. Covers(work[w].high, Handled) /\ Covers(work[w].base.log, Handled)
      BY <1>0 DEF CursorCall
    <2>2. cursor'.log \in {cursor.log, work[w].high, work[w].base.log}
      BY <1>12 DEF AdvanceToPage, Write, Advanced, Higher
    <2>3. Covers(cursor'.log, Handled) /\ Handled' = Handled
      BY <1>0, <1>12, <2>1, <2>2 DEF AdvanceToPage, Handled
    <2> QED
      BY <1>0, <1>12, <2>3, CursorStep DEF AdvanceToPage
  <1> QED
    BY <1>1, <1>2, <1>3, <1>4, <1>5, <1>6, <1>7, <1>8, <1>9, <1>10, <1>11, <1>12
       DEF IngestStep

\* Every step of a sync or a resume preserves the invariant.
LEMMA SyncCovers ==
    ASSUME TypeInv, CursorInv, NEW w \in Workers, SyncStep(w) \/ ResumeStep(w)
    PROVE  CursorInv'
  <1> USE DEF server, durable, history
  <1>0. /\ work[w] \in Calls /\ CallOK(work[w])
        /\ CursorCall(work[w], Handled)
        /\ Covers(cursor.log, Handled)
        /\ CursorCall(Idle, Handled)
    BY Typed, IdleCovers DEF CursorInv, Idle, ZeroCursor
  <1>1. CASE SyncStart(w)
    <2> DEFINE c == [Idle EXCEPT !.pc = "request", !.kind = "sync", !.base = cursor]
    <2>1. c.pc = "request" /\ c.base = cursor /\ c.high = 0 /\ c.todo = {}
      BY DEF Idle
    <2>2. Run(w, c)
      BY <1>1 DEF SyncStart
    <2> HIDE DEF c
    <2>3. Rest(c) = {}
      BY <2>1 DEF Rest
    <2>4. CursorCall(c, Handled)
      BY <1>0, <2>1, <2>3, CoversNone DEF CursorCall, Ingesting
    <2> QED
      BY <1>1, <2>2, <2>4, CursorQuiet DEF SyncStart
  <1>2. CASE SyncResponse(w)
    <2> DEFINE c == [work[w] EXCEPT !.pc = "next",
                       !.todo = Page(work[w].base.log), !.base = ZeroCursor]
    <2>1. /\ c.pc = "next" /\ c.base.log = 0 /\ c.high = work[w].high
          /\ c.todo = Page(work[w].base.log)
      BY <1>0 DEF Calls, ZeroCursor
    <2>2. Run(w, c)
      BY <1>2 DEF SyncResponse
    <2> HIDE DEF c
    <2>3. Rest(c) = Page(work[w].base.log)
      BY <2>1 DEF Rest
    <2>4. work[w].base.log \in Nat /\ Covers(work[w].base.log, Handled)
      BY <1>0 DEF CursorCall, Calls, Cursors, LogSeqs
    <2>5. ASSUME NEW n \in Page(work[w].base.log), NEW k \in 1 .. (n - 1)
          PROVE  k \in Handled \union Page(work[w].base.log)
      <3>1. n \in LogSeqs /\ n <= work[w].base.log + PageLimit /\ n \in Nat
        BY <2>5 DEF Page, LogSeqs
      <3>2. CASE k <= work[w].base.log
        BY <2>4, <2>5, <3>1, <3>2 DEF Covers
      <3>3. CASE work[w].base.log < k
        <4>1. Len(log) \in Nat
          BY DEF TypeInv, TypeOK
        <4>2. k \in LogSeqs
          BY <2>5, <3>1, <4>1 DEF LogSeqs
        <4> QED
          BY <2>4, <2>5, <3>1, <3>3, <4>2, LimitAssumption DEF Page
      <3> QED
        BY <2>4, <2>5, <3>1, <3>2, <3>3
    <2>6. CursorCall(c, Handled)
      BY <1>0, <2>1, <2>3, <2>5, CoversNone DEF CursorCall, Ingesting
    <2> QED
      BY <1>2, <2>2, <2>6, CursorQuiet DEF SyncResponse
  <1>3. CASE SyncUnanswered(w)
    BY <1>0, <1>3, CursorQuiet DEF SyncUnanswered
  <1>4. ASSUME NEW n \in LogSeqs, SyncIngest(w, n)
        PROVE  CursorInv'
    <2> DEFINE c == [work[w] EXCEPT !.pc = "accept", !.cur = n, !.todo = @ \ {n}]
    <2>1. /\ c.pc = "accept" /\ c.cur = n /\ c.todo = work[w].todo \ {n}
          /\ c.base = work[w].base /\ c.high = work[w].high
      BY <1>0 DEF Calls
    <2>2. /\ Run(w, c) /\ work[w].kind = "sync" /\ work[w].pc = "next"
          /\ n \in work[w].todo /\ \A k \in work[w].todo : n <= k
      BY <1>4 DEF SyncIngest, Syncing, IsNext, At
    <2> HIDE DEF c
    <2>3. Rest(c) = Rest(work[w])
      BY <2>1, <2>2 DEF Rest
    <2>4. \A k \in c.todo : n < k
      <3>1. work[w].todo \subseteq Nat /\ n \in Nat
        BY <1>0 DEF Calls, LogSeqs
      <3> QED
        BY <2>1, <2>2, <3>1
    <2>5. CursorCall(c, Handled)
      BY <1>0, <2>1, <2>2, <2>3, <2>4 DEF CursorCall
    <2> QED
      BY <1>4, <2>2, <2>5, CursorQuiet DEF SyncIngest
  <1>5. ASSUME NEW n \in LogSeqs, SyncPass(w, n)
        PROVE  CursorInv'
    <2> DEFINE c == [work[w] EXCEPT !.todo = @ \ {n},
                       !.high = IF log[n].kind = "malformed" THEN @ ELSE n]
    <2>1. /\ c.pc = work[w].pc /\ c.todo = work[w].todo \ {n}
          /\ c.base = work[w].base /\ c.high \in {work[w].high, n}
      BY <1>0 DEF Calls
    <2>2. /\ Run(w, c) /\ work[w].kind = "sync" /\ work[w].pc = "next"
          /\ n \in work[w].todo /\ \A k \in work[w].todo : n <= k
      BY <1>5 DEF SyncPass, Syncing, IsNext, At
    <2> HIDE DEF c
    <2>3. Handled' = Handled \union {n} /\ cursor' = cursor
      BY <1>5 DEF SyncPass, Handled
    <2>4. Rest(work[w]) = work[w].todo /\ Rest(c) = work[w].todo \ {n}
      BY <2>1, <2>2 DEF Rest
    <2>5. \A k \in work[w].todo : 1 .. (k - 1) \subseteq Handled \union work[w].todo
      BY <1>0, <2>2, <2>4 DEF CursorCall
    <2>6. Covers(n, Handled')
      <3>1. n \in Nat
        BY DEF LogSeqs
      <3>2. \A k \in 1 .. (n - 1) : k \in Handled
        BY <2>2, <2>5, <3>1
      <3>3. \A k \in 1 .. n : k \in 1 .. (n - 1) \/ k = n
        BY <3>1
      <3> QED
        BY <2>3, <3>2, <3>3 DEF Covers
    <2>7. Covers(c.high, Handled') /\ Covers(c.base.log, Handled')
      BY <1>0, <2>1, <2>3, <2>6 DEF CursorCall, Covers
    <2>8. \A k \in Rest(c) : 1 .. (k - 1) \subseteq Handled' \union Rest(c)
      BY <2>3, <2>4, <2>5
    <2>9. CursorCall(c, Handled')
      BY <2>1, <2>2, <2>7, <2>8 DEF CursorCall, Ingesting
    <2>10. Covers(cursor'.log, Handled')
      BY <1>0, <2>3 DEF Covers
    <2> QED
      BY <2>2, <2>3, <2>9, <2>10, CursorStep
  <1>6. CASE SyncFinish(w)
    <2> DEFINE c == [work[w] EXCEPT !.pc = "readFinal", !.high = SyncTarget(w)]
    <2>1. /\ c.pc = "readFinal" /\ c.todo = work[w].todo
          /\ c.base = work[w].base /\ c.high = work[w].high
      BY <1>0 DEF Calls, SyncTarget
    <2>2. /\ Run(w, Idle) \/ Run(w, c)
          /\ work[w].todo = {}
      BY <1>6 DEF SyncFinish
    <2> HIDE DEF c
    <2>3. Rest(c) = {}
      BY <2>1, <2>2 DEF Rest
    <2>4. CursorCall(c, Handled)
      BY <1>0, <2>1, <2>3 DEF CursorCall, Ingesting
    <2> QED
      BY <1>0, <1>6, <2>2, <2>4, CursorQuiet DEF SyncFinish
  <1>7. CASE ResumeStart(w)
    <2> DEFINE c == [Idle EXCEPT !.pc = "next", !.kind = "resume",
                                 !.todo = ResumePage]
    <2>1. CursorCall(c, Handled)
      BY IdleCovers DEF Idle, ZeroCursor
    <2> QED
      BY <1>7, <2>1, CursorQuiet DEF ResumeStart
  <1>8. ASSUME NEW n \in LogSeqs, ResumeNext(w, n)
        PROVE  CursorInv'
    <2> DEFINE c == [work[w] EXCEPT !.pc = "decrypt", !.cur = n, !.todo = @ \ {n}]
    <2>1. /\ c.pc = "decrypt" /\ c.kind = work[w].kind
          /\ c.base = work[w].base /\ c.high = work[w].high
      BY <1>0 DEF Calls
    <2>2. Run(w, c) /\ work[w].kind = "resume"
      BY <1>8 DEF ResumeNext
    <2> HIDE DEF c
    <2>3. CursorCall(c, Handled)
      BY <1>0, <2>1, <2>2 DEF CursorCall
    <2> QED
      BY <1>8, <2>2, <2>3, CursorQuiet DEF ResumeNext
  <1>9. CASE ResumeFinish(w)
    BY <1>0, <1>9, CursorQuiet DEF ResumeFinish
  <1> QED
    BY <1>1, <1>2, <1>3, <1>4, <1>5, <1>6, <1>7, <1>8, <1>9
       DEF SyncStep, ResumeStep

\* The server, the network, resets, purges and crashes handle nothing; a reset
\* and a crash start from states that are covered.
LEMMA OthersCover ==
    ASSUME TypeInv, CursorInv,
           \/ (\E e \in Events : ServerLogs(e)) \/ GoOnline \/ GoOffline
           \/ SessionEstablished \/ ResetCursor
           \/ (\E m \in Messages : PurgeExpired(m)) \/ Crash \/ UNCHANGED vars
    PROVE  CursorInv'
  <1> USE DEF server, durable, history
  <1>1. Handled' = Handled
    BY DEF Handled, ServerLogs, GoOnline, GoOffline, SessionEstablished,
           ResetCursor, PurgeExpired, Crash, vars
  <1>2. CursorCall(Idle, Handled) /\ Covers(ZeroCursor.log, Handled)
    BY IdleCovers, CoversNone DEF Idle, ZeroCursor
  <1>3. cursor' \in {cursor, ZeroCursor}
    BY DEF ServerLogs, GoOnline, GoOffline, SessionEstablished,
           ResetCursor, PurgeExpired, Crash, vars
  <1>4. Covers(cursor'.log, Handled)
    BY <1>2, <1>3 DEF CursorInv
  <1>5. \A w \in Workers : work'[w] \in {work[w], Idle}
    BY DEF ServerLogs, GoOnline, GoOffline, SessionEstablished,
           ResetCursor, PurgeExpired, Crash, vars
  <1>6. \A w \in Workers : CursorCall(work'[w], Handled)
    BY <1>2, <1>5 DEF CursorInv
  <1> QED
    BY <1>1, <1>4, <1>6 DEF CursorInv

\* A sync never moves the cursor past an event that was neither handled nor
\* jumped over by a live message, whatever other syncs, live messages, resets
\* and crashes run between the read of the cursor, the page and the write.
THEOREM SyncSkipsNothingTheorem == Spec => []SyncSkipsNothing
  <1>1. Init => CursorInv
    BY IdleCovers, CoversNone DEF Init, CursorInv, Handled, Idle, ZeroCursor
  <1>2. TypeInv /\ CursorInv /\ [Next]_vars => CursorInv'
    BY IngestCovers, SyncCovers, OthersCover DEF Next
  <1>3. Spec => []TypeInv
    BY InitTyped, NextTyped, PTL DEF Spec
  <1>4. CursorInv => SyncSkipsNothing
    BY DEF CursorInv, Covers, Handled, SyncSkipsNothing
  <1> QED
    BY <1>1, <1>2, <1>3, <1>4, PTL DEF Spec

-----------------------------------------------------------------------------
(* One processing attempt at a time *)

\* Where a call has the row of its envelope to itself.
Claiming == {"deliver", "markDelivered", "decrypt", "persist", "markProcessed",
             "markFailed"}

\* The rows a call works on or, being a resume, is going to.
Claims(c) == (IF c.pc \in Claiming THEN {c.cur} ELSE {})
               \union (IF c.kind = "resume" THEN c.todo ELSE {})

MessageAt(n) == log[n].copy[1]

\* A claim on the row of a message that does not disappear.
Owns(w, n) == n \in Claims(work[w]) /\ MessageAt(n) \notin Expiring

CallShape(c) ==
    /\ c.pc \in Claiming /\ c.kind = "resume" => c.cur \notin c.todo
    /\ c.pc \in {"accept", "idle"} => c.kind # "resume"

\* What the flags of a row say of the message.
RowStage(m) ==
    /\ inbox[m].processed => Present(m)
    /\ applied[m] = 1 => inbox[m].processed
    /\ inbox[m].decryptFailed => inbox[m].processed /\ applied[m] = 0

\* The inductive strengthening of FailedNeverApplied: a row that is claimed is
\* the row of that envelope and not processed, and one call claims it.
WorkInv ==
    /\ \A m \in Messages : Present(m) => MessageAt(inbox[m].logSeq) = m
    /\ \A m \in Messages \ Expiring : RowStage(m)
    /\ \A w \in Workers : CallShape(work[w])
    /\ \A w \in Workers : \A n \in LogSeqs : Owns(w, n) =>
          /\ inbox[MessageAt(n)].logSeq = n
          /\ ~inbox[MessageAt(n)].processed
    /\ \A v, w \in Workers : \A n \in LogSeqs : Owns(v, n) /\ Owns(w, n) => v = w

\* Claims are on messages of the log.
LEMMA ClaimType ==
    ASSUME TypeInv, NEW w \in Workers, NEW n \in Claims(work[w])
    PROVE  n \in LogSeqs /\ n \in Nat \ {0} /\ MessageAt(n) \in Messages
  <1>1. CallOK(work[w])
    BY Typed
  <1>2. n \in MessageSeqs
    BY <1>1 DEF CallOK, Claims, Claiming, Ingesting
  <1> QED
    BY <1>2, EnvelopeId DEF TypeInv, MessageSeqs, MessageAt, LogSeqs

\* A call moves on with no more claims than it had, and processes at most the
\* rows that nobody claims afterwards.
LEMMA ClaimStep ==
    ASSUME TypeInv, WorkInv, NEW w \in Workers, NEW c, Run(w, c), log' = log,
           CallShape(c), Claims(c) \subseteq Claims(work[w]),
           \A m \in Messages : inbox'[m].logSeq = inbox[m].logSeq,
           \A m \in Messages \ Expiring : RowStage(m)',
           \A v \in Workers : \A n \in LogSeqs : Owns(v, n)' /\ Owns(v, n) =>
              ~inbox'[MessageAt(n)].processed
    PROVE  WorkInv'
  <1>1. work'[w] = c /\ \A v \in Workers \ {w} : work'[v] = work[v]
    BY Typed DEF Run
  <1>2. LogSeqs' = LogSeqs /\ \A n : MessageAt(n)' = MessageAt(n)
    BY DEF LogSeqs, MessageAt
  <1>3. \A v \in Workers : Claims(work'[v]) \subseteq Claims(work[v])
    BY <1>1
  <1>4. \A v \in Workers : \A n \in LogSeqs : Owns(v, n)' => Owns(v, n)
    BY <1>2, <1>3 DEF Owns
  <1>5. (\A v \in Workers : CallShape(work[v]))'
    BY <1>1 DEF WorkInv
  <1>6. (\A m \in Messages : Present(m) => MessageAt(inbox[m].logSeq) = m)'
    BY <1>2 DEF WorkInv, Present
  <1>7. ASSUME NEW v \in Workers, NEW n \in LogSeqs, Owns(v, n)'
        PROVE  inbox'[MessageAt(n)].logSeq = n /\ ~inbox'[MessageAt(n)].processed
    <2>1. Owns(v, n) /\ MessageAt(n) \in Messages
      BY <1>4, <1>7, ClaimType DEF Owns
    <2> QED
      BY <1>7, <2>1 DEF WorkInv
  <1>8. (\A v \in Workers : \A n \in LogSeqs : Owns(v, n) =>
          /\ inbox[MessageAt(n)].logSeq = n
          /\ ~inbox[MessageAt(n)].processed)'
    BY <1>2, <1>7
  <1>9. (\A u, v \in Workers : \A n \in LogSeqs : Owns(u, n) /\ Owns(v, n) => u = v)'
    BY <1>2, <1>4 DEF WorkInv
  <1> QED
    BY <1>5, <1>6, <1>8, <1>9 DEF WorkInv

\* The same, when the inbox and the messages applied stay as they are.
LEMMA ClaimQuiet ==
    ASSUME TypeInv, WorkInv, NEW w \in Workers, NEW c, Run(w, c),
           UNCHANGED <<log, inbox, applied>>,
           CallShape(c), Claims(c) \subseteq Claims(work[w])
    PROVE  WorkInv'
  <1>1. \A m \in Messages \ Expiring : RowStage(m)'
    BY DEF WorkInv, RowStage, Present
  <1>2. \A v \in Workers : \A n \in LogSeqs : Owns(v, n) =>
           ~inbox'[MessageAt(n)].processed
    BY DEF WorkInv
  <1> QED
    BY <1>1, <1>2, ClaimStep

\* A call that moves its program counter, or returns, claims no more.
LEMMA ClaimMoves ==
    ASSUME TypeInv, WorkInv, NEW w \in Workers, work[w].pc \in Ingesting
    PROVE  /\ Claims(Returned(w)) \subseteq Claims(work[w])
           /\ work[w].kind = "resume" => Claims(Returned(w)) = work[w].todo
           /\ work[w].kind # "resume" => Claims(Returned(w)) = {}
           /\ CallShape(Returned(w))
           /\ \A l \in Labels \ {"accept", "idle"} :
                 (l \in Claiming => work[w].pc \in Claiming) =>
                    /\ CallShape([work[w] EXCEPT !.pc = l])
                    /\ Claims([work[w] EXCEPT !.pc = l]) \subseteq Claims(work[w])
  <1>1. work[w] \in Calls /\ CallShape(work[w])
    BY Typed DEF WorkInv
  <1>2. /\ Claims(Returned(w)) \subseteq Claims(work[w])
        /\ work[w].kind = "resume" => Claims(Returned(w)) = work[w].todo
        /\ work[w].kind # "resume" => Claims(Returned(w)) = {}
        /\ CallShape(Returned(w))
    <2>1. CASE work[w].kind = "live"
      BY <2>1 DEF Returned, Idle, Claims, Claiming, CallShape
    <2>2. CASE work[w].kind = "sync"
      <3> DEFINE c == [work[w] EXCEPT !.pc = "next", !.high = work[w].cur,
                                      !.cur = 0, !.base = ZeroCursor]
      <3>1. c.pc = "next" /\ c.kind = "sync"
        BY <1>1, <2>2 DEF Calls
      <3>2. Returned(w) = c
        BY <2>2 DEF Returned
      <3> HIDE DEF c
      <3> QED
        BY <2>2, <3>1, <3>2 DEF Claims, Claiming, CallShape
    <2>3. CASE work[w].kind = "resume"
      <3> DEFINE c == [work[w] EXCEPT !.pc = "next", !.cur = 0]
      <3>1. c.pc = "next" /\ c.kind = "resume" /\ c.todo = work[w].todo
        BY <1>1, <2>3 DEF Calls
      <3>2. Returned(w) = c
        BY <2>3 DEF Returned
      <3> HIDE DEF c
      <3> QED
        BY <2>3, <3>1, <3>2 DEF Claims, Claiming, CallShape
    <2> QED
      BY <1>1, <2>1, <2>2, <2>3 DEF Calls
  <1>3. ASSUME NEW l \in Labels \ {"accept", "idle"},
               l \in Claiming => work[w].pc \in Claiming
        PROVE  /\ CallShape([work[w] EXCEPT !.pc = l])
               /\ Claims([work[w] EXCEPT !.pc = l]) \subseteq Claims(work[w])
    <2> DEFINE c == [work[w] EXCEPT !.pc = l]
    <2>1. /\ c.pc = l /\ c.kind = work[w].kind /\ c.todo = work[w].todo
          /\ c.cur = work[w].cur
      BY <1>1 DEF Calls
    <2> SUFFICES CallShape(c) /\ Claims(c) \subseteq Claims(work[w])
      OBVIOUS
    <2> HIDE DEF c
    <2> QED
      BY <1>1, <1>3, <2>1 DEF Claims, CallShape
  <1> QED
    BY <1>2, <1>3

\* The call that finishes a row leaves no claim on it.
LEMMA LastClaim ==
    ASSUME TypeInv, WorkInv, NEW w \in Workers, work[w].pc \in Claiming,
           Id(w) \notin Expiring, NEW c, Run(w, c), log' = log,
           Claims(c) \subseteq (IF work[w].kind = "resume" THEN work[w].todo ELSE {}),
           NEW v \in Workers, NEW n \in LogSeqs, Owns(v, n)', Owns(v, n)
    PROVE  MessageAt(n) # Id(w)
  <1>1. work'[w] = c /\ \A u \in Workers \ {w} : work'[u] = work[u]
    BY Typed DEF Run
  <1>2. Owns(w, work[w].cur) /\ work[w].cur \in LogSeqs
    BY ClaimType DEF Owns, Claims, MessageAt, Id
  <1>3. SUFFICES ASSUME MessageAt(n) = Id(w) PROVE FALSE
    OBVIOUS
  <1>4. n = work[w].cur
    BY <1>2, <1>3 DEF WorkInv, MessageAt, Id
  <1>5. v = w
    BY <1>2, <1>4 DEF WorkInv
  <1>6. n \in Claims(c)
    BY <1>1, <1>5 DEF Owns
  <1>7. work[w].kind = "resume" /\ work[w].cur \in work[w].todo
    BY <1>4, <1>6
  <1> QED
    BY <1>7 DEF WorkInv, CallShape

\* An update of flags for a claimed row, or for no row that counts.
LEMMA FlagStep ==
    ASSUME TypeInv, WorkInv, NEW w \in Workers, work[w].pc \in Claiming,
           NEW c, Run(w, c), log' = log, CallShape(c),
           Claims(c) \subseteq (IF work[w].kind = "resume" THEN work[w].todo ELSE {}),
           NEW row \in Rows, row.logSeq = inbox[Id(w)].logSeq,
           inbox' = Updated(Id(w), row),
           \A m \in Messages \ {Id(w)} : applied'[m] = applied[m],
           \A m \in Messages \ Expiring : m = Id(w) => RowStage(m)'
    PROVE  WorkInv'
  <1>1. Id(w) \in Messages
    BY IdType DEF Claiming, Ingesting
  <1>2. \A m \in Messages : inbox'[m].logSeq = inbox[m].logSeq
    BY <1>1, UpdatedOK
  <1>3. \A m \in Messages \ {Id(w)} : inbox'[m] = inbox[m]
    BY <1>1, Typed DEF Updated
  <1>4. ASSUME NEW m \in Messages \ Expiring PROVE RowStage(m)'
    <2>1. CASE m = Id(w)
      BY <1>4, <2>1
    <2>2. CASE m # Id(w)
      BY <1>3, <1>4, <2>2 DEF WorkInv, RowStage, Present
    <2> QED
      BY <2>1, <2>2
  <1>5. ASSUME NEW v \in Workers, NEW n \in LogSeqs, Owns(v, n)', Owns(v, n)
        PROVE  ~inbox'[MessageAt(n)].processed
    <2>1. MessageAt(n) \in Messages /\ MessageAt(n) \notin Expiring
      BY <1>5, ClaimType DEF Owns
    <2>2. MessageAt(n) # Id(w)
      BY <1>5, <2>1, LastClaim
    <2>3. inbox'[MessageAt(n)] = inbox[MessageAt(n)]
      BY <1>3, <2>1, <2>2
    <2> QED
      BY <1>5, <2>3 DEF WorkInv
  <1>6. Claims(c) \subseteq Claims(work[w])
    BY DEF Claims
  <1> QED
    BY <1>2, <1>4, <1>5, <1>6, ClaimStep

\* Every step of a call that ingests an envelope preserves the invariant.
LEMMA IngestClaims ==
    ASSUME TypeInv, OnceInv, WorkInv, NEW w \in Workers, IngestStep(w)
    PROVE  WorkInv'
  <1> USE DEF server, durable, history
  <1>0. /\ work[w] \in Calls /\ inbox \in [Messages -> Rows]
        /\ CallShape(work[w]) /\ CallShape(Idle) /\ Claims(Idle) = {}
    BY Typed DEF WorkInv, CallShape, Claims, Claiming, Idle
  <1>1. CASE LiveEvent(w)
    <2> DEFINE c == [Idle EXCEPT !.pc = "accept", !.kind = "live", !.cur = Head(live)]
    <2>1. CallShape(c) /\ Claims(c) = {}
      BY DEF Idle, CallShape, Claims, Claiming
    <2> QED
      BY <1>1, <2>1, ClaimQuiet DEF LiveEvent
  <1>2. CASE Accept(w)
    <2>1. /\ work[w].pc \in Ingesting /\ work[w].pc = "accept"
          /\ Id(w) \in Messages /\ work[w].kind # "resume"
          /\ work[w].cur \in Nat \ {0} /\ work[w].cur \in LogSeqs
      BY <1>0, <1>2, IdType DEF Accept, At, Ingesting, CallShape
    <2>2. CASE Stored(Id(w))
      BY <1>2, <2>1, <2>2, ClaimMoves, ClaimQuiet DEF Accept
    <2>3. CASE ~Stored(Id(w))
      <3> DEFINE l == IF work[w].kind = "live" THEN "deliver" ELSE "decrypt"
      <3>1. /\ Goto(w, l) /\ l \in Labels /\ l \in {"deliver", "decrypt"}
            /\ log' = log /\ applied' = applied /\ ~Present(Id(w))
            /\ inbox' = [inbox EXCEPT ![Id(w)] = FreshRow(work[w].cur)]
        BY <1>2, <2>3 DEF Accept, Labels, Stored
      <3> HIDE DEF l
      <3>2. /\ work'[w].pc = l /\ work'[w].cur = work[w].cur
            /\ work'[w] = [work[w] EXCEPT !.pc = l]
            /\ \A v \in Workers \ {w} : work'[v] = work[v]
        BY <3>1, Others
      <3>3. work'[w].kind = work[w].kind
        BY <1>0, <3>2 DEF Calls
      <3>4. Claims(work'[w]) = {work[w].cur} /\ CallShape(work'[w])
        BY <2>1, <3>1, <3>2, <3>3 DEF Claims, Claiming, CallShape
      <3>5. LogSeqs' = LogSeqs /\ \A n : MessageAt(n)' = MessageAt(n)
        BY <3>1 DEF LogSeqs, MessageAt
      <3>6. /\ inbox'[Id(w)].logSeq = work[w].cur
            /\ ~inbox'[Id(w)].processed /\ ~inbox'[Id(w)].decryptFailed
            /\ \A m \in Messages \ {Id(w)} : inbox'[m] = inbox[m]
        BY <1>0, <2>1, <3>1 DEF FreshRow, NoRow
      <3>7. MessageAt(work[w].cur) = Id(w)
        BY DEF MessageAt, Id
      <3>8. (\A m \in Messages : Present(m) => MessageAt(inbox[m].logSeq) = m)'
        BY <3>5, <3>6, <3>7 DEF WorkInv, Present
      <3>9. ASSUME NEW m \in Messages \ Expiring PROVE RowStage(m)'
        <4>1. CASE m = Id(w)
          <5>1. applied[m] # 1
            BY <3>1, <3>9, <4>1 DEF WorkInv, RowStage
          <5> QED
            BY <3>1, <3>6, <4>1, <5>1 DEF RowStage
        <4>2. CASE m # Id(w)
          BY <3>1, <3>6, <3>9, <4>2 DEF WorkInv, RowStage, Present
        <4> QED
          BY <4>1, <4>2
      <3>10. ASSUME NEW v \in Workers \ {w}, NEW n \in LogSeqs, Owns(v, n)'
             PROVE  /\ Owns(v, n) /\ MessageAt(n) \in Messages
                    /\ MessageAt(n) # Id(w) /\ n # work[w].cur
        <4>1. Owns(v, n)
          BY <3>2, <3>5, <3>10 DEF Owns
        <4>2. MessageAt(n) \in Messages /\ n \in Nat \ {0}
          BY <4>1, ClaimType DEF Owns
        <4>3. inbox[MessageAt(n)].logSeq = n
          BY <4>1 DEF WorkInv
        <4> QED
          BY <3>1, <3>7, <4>1, <4>2, <4>3 DEF Present
      <3>11. (\A v \in Workers : CallShape(work[v]))'
        BY <3>2, <3>4 DEF WorkInv
      <3>12. ASSUME NEW v \in Workers, NEW n \in LogSeqs, Owns(v, n)'
             PROVE  inbox'[MessageAt(n)].logSeq = n /\ ~inbox'[MessageAt(n)].processed
        <4>1. CASE v = w
          <5>1. n = work[w].cur
            BY <3>4, <3>12, <4>1 DEF Owns
          <5> QED
            BY <3>6, <3>7, <5>1
        <4>2. CASE v # w
          BY <3>6, <3>10, <3>12, <4>2 DEF WorkInv
        <4> QED
          BY <4>1, <4>2
      <3>13. \A n \in LogSeqs : Owns(w, n)' => n = work[w].cur
        BY <3>4 DEF Owns
      <3>14. (\A u, v \in Workers : \A n \in LogSeqs : Owns(u, n) /\ Owns(v, n) => u = v)'
        BY <3>5, <3>10, <3>13 DEF WorkInv
      <3>15. (\A v \in Workers : \A n \in LogSeqs : Owns(v, n) =>
                /\ inbox[MessageAt(n)].logSeq = n
                /\ ~inbox[MessageAt(n)].processed)'
        BY <3>5, <3>12
      <3> QED
        BY <3>8, <3>9, <3>11, <3>14, <3>15 DEF WorkInv
    <2> QED
      BY <2>2, <2>3
  <1>3. CASE Deliver(w)
    <2>1. work[w].pc \in Ingesting /\ work[w].pc \in Claiming
      BY <1>3 DEF Deliver, At, Ingesting, Claiming
    <2> QED
      BY <1>3, <2>1, ClaimMoves, ClaimQuiet DEF Deliver, Goto, Labels
  <1>4. CASE DeliverThrows(w)
    BY <1>0, <1>4, ClaimQuiet DEF DeliverThrows
  <1>5. CASE MarkDelivered(w)
    <2>1. /\ work[w].pc \in Ingesting /\ work[w].pc \in Claiming
          /\ Id(w) \in Messages
      BY <1>5, IdType DEF MarkDelivered, At, Ingesting, Claiming
    <2> DEFINE c == [work[w] EXCEPT !.pc = "decrypt"]
    <2>2. CallShape(c) /\ Claims(c) \subseteq Claims(work[w])
      BY <2>1, ClaimMoves DEF Labels
    <2>3. \A m \in Messages : /\ inbox'[m].logSeq = inbox[m].logSeq
                              /\ inbox'[m].processed = inbox[m].processed
                              /\ inbox'[m].decryptFailed = inbox[m].decryptFailed
      BY <1>0, <1>5, <2>1 DEF MarkDelivered, Updated, Rows
    <2>4. applied' = applied /\ log' = log /\ Run(w, c)
      BY <1>5 DEF MarkDelivered, Goto
    <2>5. \A m \in Messages \ Expiring : RowStage(m)'
      BY <2>3, <2>4 DEF WorkInv, RowStage, Present
    <2>6. \A v \in Workers : \A n \in LogSeqs : Owns(v, n) =>
             ~inbox'[MessageAt(n)].processed
      BY <2>3, ClaimType DEF WorkInv, Owns
    <2> HIDE DEF c
    <2> QED
      BY <2>2, <2>3, <2>4, <2>5, <2>6, ClaimStep
  <1>6. CASE Decrypt(w)
    <2>1. work[w].pc \in Ingesting /\ work[w].pc \in Claiming
      BY <1>6 DEF Decrypt, At, Ingesting, Claiming
    <2>2. /\ \A l \in {"persist", "markFailed"} :
                /\ CallShape([work[w] EXCEPT !.pc = l])
                /\ Claims([work[w] EXCEPT !.pc = l]) \subseteq Claims(work[w])
          /\ CallShape(Returned(w)) /\ Claims(Returned(w)) \subseteq Claims(work[w])
      BY <2>1, ClaimMoves DEF Labels
    <2>3. \E c : Run(w, c) /\ CallShape(c) /\ Claims(c) \subseteq Claims(work[w])
      BY <1>6, <2>2 DEF Decrypt, Goto
    <2> QED
      BY <1>6, <2>3, ClaimQuiet DEF Decrypt
  <1>7. CASE PersistSession(w)
    <2>1. work[w].pc \in Ingesting /\ work[w].pc \in Claiming
      BY <1>7 DEF PersistSession, At, Ingesting, Claiming
    <2> QED
      BY <1>7, <2>1, ClaimMoves, ClaimQuiet DEF PersistSession, Goto, Labels
  <1>8. CASE MarkProcessed(w)
    <2>1. /\ work[w].pc \in Ingesting /\ work[w].pc \in Claiming
          /\ Id(w) \in Messages
      BY <1>8, IdType DEF MarkProcessed, At, Ingesting, Claiming
    <2> DEFINE row == [inbox[Id(w)] EXCEPT !.processed = TRUE]
               d == [work[w] EXCEPT !.pc = "readCursor"]
    <2>2. /\ row \in Rows /\ row.logSeq = inbox[Id(w)].logSeq
          /\ row.processed /\ row.decryptFailed = inbox[Id(w)].decryptFailed
      BY <1>0, <2>1 DEF Rows
    <2>3. /\ inbox' = Updated(Id(w), row) /\ log' = log
          /\ applied' = [applied EXCEPT ![Id(w)] = @ + 1]
      BY <1>8 DEF MarkProcessed
    <2>4. PICK c : /\ Run(w, c) /\ CallShape(c)
                   /\ Claims(c) \subseteq
                        (IF work[w].kind = "resume" THEN work[w].todo ELSE {})
      <3>1. d.pc = "readCursor" /\ d.kind = work[w].kind
        BY <1>0 DEF Calls
      <3>2. CallShape(d)
        BY <2>1, ClaimMoves DEF Labels, Claiming
      <3>3. work[w].kind # "resume" => Claims(d) = {}
        BY <3>1 DEF Claims, Claiming
      <3>4. IF work[w].kind = "resume" THEN Run(w, Returned(w)) ELSE Run(w, d)
        BY <1>8 DEF MarkProcessed, Goto
      <3> HIDE DEF d
      <3> QED
        BY <2>1, <3>2, <3>3, <3>4, ClaimMoves
    <2>5. ASSUME NEW m \in Messages \ Expiring, m = Id(w) PROVE RowStage(m)'
      <3>1. Owns(w, work[w].cur) /\ work[w].cur \in LogSeqs
        BY <2>1, <2>5, ClaimType DEF Owns, Claims, MessageAt, Id
      <3>2. /\ inbox[Id(w)].logSeq = work[w].cur /\ ~inbox[Id(w)].processed
            /\ Present(Id(w))
        <4>1. inbox[Id(w)].logSeq = work[w].cur /\ ~inbox[Id(w)].processed
          BY <3>1 DEF WorkInv, MessageAt, Id
        <4> QED
          BY <3>1, <4>1 DEF Present, LogSeqs
      <3>3. ~inbox[Id(w)].decryptFailed
        BY <2>1, <2>5, <3>2 DEF WorkInv, RowStage
      <3>4. inbox'[Id(w)] = row
        BY <1>0, <2>1, <2>3, <3>2 DEF Updated
      <3>5. inbox'[Id(w)].processed /\ ~inbox'[Id(w)].decryptFailed
              /\ inbox'[Id(w)].logSeq # 0
        BY <2>2, <3>2, <3>3, <3>4 DEF Present
      <3> HIDE DEF row
      <3> QED
        BY <2>5, <3>5 DEF RowStage, Present
    <2>6. \A m \in Messages \ {Id(w)} : applied'[m] = applied[m]
      BY <2>3, Typed
    <2> HIDE DEF row, d
    <2> QED
      BY <2>1, <2>2, <2>3, <2>4, <2>5, <2>6, FlagStep
  <1>9. CASE MarkFailed(w)
    <2>1. /\ work[w].pc \in Ingesting /\ work[w].pc \in Claiming
          /\ Id(w) \in Messages
      BY <1>9, IdType DEF MarkFailed, At, Ingesting, Claiming
    <2> DEFINE row == FailedRow(inbox[Id(w)])
    <2>2. /\ row \in Rows /\ row.logSeq = inbox[Id(w)].logSeq
          /\ row.processed
      BY <1>0, <2>1 DEF Rows, FailedRow
    <2>3. /\ inbox' = Updated(Id(w), row) /\ log' = log /\ applied' = applied
          /\ Run(w, Returned(w))
      BY <1>9 DEF MarkFailed
    <2>4. /\ CallShape(Returned(w))
          /\ Claims(Returned(w)) \subseteq
                (IF work[w].kind = "resume" THEN work[w].todo ELSE {})
      BY <2>1, ClaimMoves
    <2>5. ASSUME NEW m \in Messages \ Expiring, m = Id(w) PROVE RowStage(m)'
      <3>1. Owns(w, work[w].cur) /\ work[w].cur \in LogSeqs
        BY <2>1, <2>5, ClaimType DEF Owns, Claims, MessageAt, Id
      <3>2. inbox[Id(w)].logSeq = work[w].cur /\ ~inbox[Id(w)].processed
        BY <3>1 DEF WorkInv, MessageAt, Id
      <3>3. Present(Id(w))
        BY <3>1, <3>2 DEF Present, LogSeqs
      <3>4. applied[Id(w)] = 0
        <4>1. applied[Id(w)] \in Nat /\ applied[Id(w)] <= 1
          BY <2>1, Typed DEF OnceInv
        <4>2. applied[Id(w)] # 1
          BY <2>1, <2>5, <3>2 DEF WorkInv, RowStage
        <4> QED
          BY <4>1, <4>2
      <3>5. inbox'[Id(w)] = row
        BY <1>0, <2>1, <2>3, <3>3 DEF Updated
      <3>6. /\ inbox'[Id(w)].processed /\ inbox'[Id(w)].logSeq # 0
            /\ applied'[Id(w)] = 0
        BY <2>2, <2>3, <3>3, <3>4, <3>5 DEF Present
      <3> HIDE DEF row
      <3> QED
        BY <2>5, <3>6 DEF RowStage, Present
    <2> HIDE DEF row
    <2> QED
      BY <2>1, <2>2, <2>3, <2>4, <2>5, FlagStep
  <1>10. CASE ReadCursor(w)
    <2> DEFINE c == [work[w] EXCEPT !.base = cursor,
                 !.pc = IF @ = "readCursor" THEN "writeCursor" ELSE "writeFinal"]
    <2>1. /\ c.kind = work[w].kind /\ c.todo = work[w].todo
          /\ c.pc \in {"writeCursor", "writeFinal"}
      BY <1>0 DEF Calls
    <2>2. Run(w, c)
      BY <1>10 DEF ReadCursor
    <2> HIDE DEF c
    <2>3. CallShape(c) /\ Claims(c) \subseteq Claims(work[w])
      BY <2>1 DEF CallShape, Claims, Claiming
    <2> QED
      BY <1>10, <2>2, <2>3, ClaimQuiet DEF ReadCursor
  <1>11. CASE AdvanceToEnvelope(w)
    <2>1. work[w].pc \in Ingesting
      BY <1>11 DEF AdvanceToEnvelope, At, Ingesting
    <2> QED
      BY <1>11, <2>1, ClaimMoves, ClaimQuiet DEF AdvanceToEnvelope
  <1>12. CASE AdvanceToPage(w)
    BY <1>0, <1>12, ClaimQuiet DEF AdvanceToPage
  <1> QED
    BY <1>1, <1>2, <1>3, <1>4, <1>5, <1>6, <1>7, <1>8, <1>9, <1>10, <1>11, <1>12
       DEF IngestStep

\* Every step of a sync or a resume preserves the invariant.  A resume starts
\* when no other call runs, and claims only rows that are not processed.
LEMMA SyncClaims ==
    ASSUME TypeInv, WorkInv, NEW w \in Workers, SyncStep(w) \/ ResumeStep(w)
    PROVE  WorkInv'
  <1> USE DEF server, durable, history
  <1>0. /\ work[w] \in Calls
        /\ CallShape(work[w]) /\ CallShape(Idle) /\ Claims(Idle) = {}
    BY Typed DEF WorkInv, CallShape, Claims, Claiming, Idle
  <1>1. UNCHANGED <<log, inbox, applied>>
    BY DEF SyncStep, ResumeStep, SyncStart, SyncResponse, SyncUnanswered,
           SyncIngest, SyncPass, SyncFinish, ResumeStart, ResumeNext,
           ResumeFinish
  <1>2. ASSUME NEW c, Run(w, c), CallShape(c), Claims(c) \subseteq Claims(work[w])
        PROVE  WorkInv'
    BY <1>1, <1>2, ClaimQuiet
  <1>3. ASSUME NEW c, Run(w, c), c.kind = "sync", c.pc \notin Claiming
        PROVE  WorkInv'
    BY <1>2, <1>3 DEF Claims, CallShape
  <1>4. CASE SyncStart(w)
    <2> DEFINE c == [Idle EXCEPT !.pc = "request", !.kind = "sync", !.base = cursor]
    <2>1. c.pc = "request" /\ c.kind = "sync" /\ Run(w, c)
      BY <1>4 DEF SyncStart, Idle
    <2> HIDE DEF c
    <2> QED
      BY <1>3, <2>1 DEF Claiming
  <1>5. CASE SyncResponse(w)
    <2> DEFINE c == [work[w] EXCEPT !.pc = "next",
                       !.todo = Page(work[w].base.log), !.base = ZeroCursor]
    <2>1. work[w].kind = "sync"
      BY <1>5, Typed DEF SyncResponse, At, CallOK
    <2>2. c.pc = "next" /\ c.kind = "sync" /\ Run(w, c)
      BY <1>0, <1>5, <2>1 DEF SyncResponse, Calls
    <2> HIDE DEF c
    <2> QED
      BY <1>3, <2>2 DEF Claiming
  <1>6. CASE SyncUnanswered(w)
    BY <1>0, <1>2, <1>6 DEF SyncUnanswered
  <1>7. ASSUME NEW n \in LogSeqs, SyncIngest(w, n)
        PROVE  WorkInv'
    <2> DEFINE c == [work[w] EXCEPT !.pc = "accept", !.cur = n, !.todo = @ \ {n}]
    <2>1. c.pc = "accept" /\ c.kind = "sync" /\ Run(w, c)
      BY <1>0, <1>7 DEF SyncIngest, Syncing, Calls
    <2> HIDE DEF c
    <2> QED
      BY <1>3, <2>1 DEF Claiming
  <1>8. ASSUME NEW n \in LogSeqs, SyncPass(w, n)
        PROVE  WorkInv'
    <2> DEFINE c == [work[w] EXCEPT !.todo = @ \ {n},
                       !.high = IF log[n].kind = "malformed" THEN @ ELSE n]
    <2>1. c.pc = "next" /\ c.kind = "sync" /\ Run(w, c)
      BY <1>0, <1>8 DEF SyncPass, Syncing, At, Calls
    <2> HIDE DEF c
    <2> QED
      BY <1>3, <2>1 DEF Claiming
  <1>9. CASE SyncFinish(w)
    <2> DEFINE c == [work[w] EXCEPT !.pc = "readFinal", !.high = SyncTarget(w)]
    <2>1. c.pc = "readFinal" /\ c.kind = "sync"
      BY <1>0, <1>9 DEF SyncFinish, Syncing, Calls
    <2>2. Run(w, Idle) \/ Run(w, c)
      BY <1>9 DEF SyncFinish
    <2> HIDE DEF c
    <2> QED
      BY <1>0, <1>2, <1>3, <2>1, <2>2 DEF Claiming
  <1>10. CASE ResumeStart(w)
    <2> DEFINE c == [Idle EXCEPT !.pc = "next", !.kind = "resume",
                                 !.todo = ResumePage]
    <2>1. c.pc = "next" /\ c.kind = "resume" /\ c.todo = ResumePage /\ Run(w, c)
      BY <1>10 DEF ResumeStart, Idle
    <2> HIDE DEF c
    <2>2. work'[w] = c /\ \A v \in Workers \ {w} : work'[v] = work[v]
      BY <2>1, Typed DEF Run
    <2>3. Claims(c) = ResumePage /\ CallShape(c)
      BY <2>1 DEF Claims, Claiming, CallShape
    <2>4. \A v \in Workers : Claims(work[v]) = {}
      <3>1. \A v \in Workers : work[v].pc = "idle" /\ CallShape(work[v])
        BY <1>10 DEF ResumeStart, At, WorkInv
      <3> QED
        BY <3>1 DEF CallShape, Claims, Claiming
    <2>5. LogSeqs' = LogSeqs /\ \A n : MessageAt(n)' = MessageAt(n)
      BY <1>1 DEF LogSeqs, MessageAt
    <2>6. \A v \in Workers : \A n \in LogSeqs : Owns(v, n)' => v = w /\ n \in ResumePage
      BY <2>2, <2>3, <2>4 DEF Owns
    <2>7. \A n \in ResumePage : /\ inbox[MessageAt(n)].logSeq = n
                                /\ ~inbox[MessageAt(n)].processed
      BY DEF ResumePage, PendingRows, WorkInv
    <2>8. (\A v \in Workers : \A n \in LogSeqs : Owns(v, n) =>
             /\ inbox[MessageAt(n)].logSeq = n
             /\ ~inbox[MessageAt(n)].processed)'
      BY <1>1, <2>5, <2>6, <2>7
    <2>9. (\A u, v \in Workers : \A n \in LogSeqs : Owns(u, n) /\ Owns(v, n) => u = v)'
      BY <2>5, <2>6
    <2>10. (\A v \in Workers : CallShape(work[v]))'
      BY <2>2, <2>3 DEF WorkInv
    <2>11. (\A m \in Messages : Present(m) => MessageAt(inbox[m].logSeq) = m)'
      BY <1>1, <2>5 DEF WorkInv, Present
    <2>12. (\A m \in Messages \ Expiring : RowStage(m))'
      BY <1>1 DEF WorkInv, RowStage, Present
    <2> QED
      BY <2>8, <2>9, <2>10, <2>11, <2>12 DEF WorkInv
  <1>11. ASSUME NEW n \in LogSeqs, ResumeNext(w, n)
         PROVE  WorkInv'
    <2> DEFINE c == [work[w] EXCEPT !.pc = "decrypt", !.cur = n, !.todo = @ \ {n}]
    <2>1. /\ c.pc = "decrypt" /\ c.kind = "resume" /\ c.cur = n
          /\ c.todo = work[w].todo \ {n} /\ Run(w, c)
          /\ work[w].kind = "resume" /\ n \in work[w].todo
      BY <1>0, <1>11 DEF ResumeNext, IsNext, Calls
    <2> HIDE DEF c
    <2>2. CallShape(c) /\ Claims(c) \subseteq Claims(work[w])
      BY <2>1 DEF CallShape, Claims
    <2> QED
      BY <1>2, <2>1, <2>2
  <1>12. CASE ResumeFinish(w)
    BY <1>0, <1>2, <1>12 DEF ResumeFinish
  <1> QED
    BY <1>4, <1>5, <1>6, <1>7, <1>8, <1>9, <1>10, <1>11, <1>12
       DEF SyncStep, ResumeStep

\* The other steps make no claims, and purge only what is to disappear.
LEMMA OthersClaim ==
    ASSUME TypeInv, WorkInv,
           \/ (\E e \in Events : ServerLogs(e)) \/ GoOnline \/ GoOffline
           \/ SessionEstablished \/ ResetCursor
           \/ (\E m \in Messages : PurgeExpired(m)) \/ Crash \/ UNCHANGED vars
    PROVE  WorkInv'
  <1> USE DEF server, durable, history
  <1>1. \A n \in LogSeqs : log'[n] = log[n] /\ n \in LogSeqs'
    <2>1. ASSUME NEW e \in Events, ServerLogs(e)
          PROVE  \A n \in LogSeqs : log'[n] = log[n] /\ n \in LogSeqs'
      BY <2>1, LogGrows DEF TypeInv
    <2>2. CASE log' = log
      BY <2>2 DEF LogSeqs
    <2> QED
      BY <2>1, <2>2 DEF GoOnline, GoOffline, SessionEstablished, ResetCursor,
                        PurgeExpired, Crash, vars
  <1>2. applied' = applied
    BY DEF ServerLogs, GoOnline, GoOffline, SessionEstablished, ResetCursor,
           PurgeExpired, Crash, vars
  <1>3. \A w \in Workers : work'[w] \in {work[w], Idle}
    BY DEF ServerLogs, GoOnline, GoOffline, SessionEstablished, ResetCursor,
           PurgeExpired, Crash, vars
  <1>4. \A m \in Messages :
           inbox'[m] = inbox[m] \/ (m \in Expiring /\ inbox'[m].logSeq = 0)
    BY Typed DEF ServerLogs, GoOnline, GoOffline, SessionEstablished, ResetCursor,
                 PurgeExpired, Crash, vars, NoRow
  <1>5. CallShape(Idle) /\ Claims(Idle) = {}
    BY DEF CallShape, Claims, Claiming, Idle
  <1>6. \A w \in Workers : \A n : n \in Claims(work'[w]) =>
           n \in Claims(work[w]) /\ n \in LogSeqs /\ MessageAt(n) \in Messages
    BY <1>3, <1>5, ClaimType
  <1>7. \A n \in LogSeqs : MessageAt(n)' = MessageAt(n)
    BY <1>1 DEF MessageAt
  <1>8. \A w \in Workers : \A n : Owns(w, n)' =>
           /\ Owns(w, n) /\ n \in LogSeqs /\ MessageAt(n)' = MessageAt(n)
           /\ inbox'[MessageAt(n)] = inbox[MessageAt(n)]
    BY <1>4, <1>6, <1>7 DEF Owns
  <1>9. (\A w \in Workers : CallShape(work[w]))'
    BY <1>3, <1>5 DEF WorkInv
  <1>10. (\A m \in Messages : Present(m) => MessageAt(inbox[m].logSeq) = m)'
    <2> SUFFICES ASSUME NEW m \in Messages, inbox'[m].logSeq # 0
                 PROVE  MessageAt(inbox[m].logSeq)' = m
      BY DEF Present
    <2>1. inbox'[m] = inbox[m]
      BY <1>4
    <2>2. inbox[m].logSeq \in LogSeqs /\ MessageAt(inbox[m].logSeq) = m
      BY <2>1, Typed DEF RowOK, MessageSeqs, WorkInv, Present
    <2> QED
      BY <1>1, <2>1, <2>2 DEF MessageAt
  <1>11. (\A m \in Messages \ Expiring : RowStage(m))'
    BY <1>2, <1>4 DEF WorkInv, RowStage, Present
  <1>12. (\A w \in Workers : \A n \in LogSeqs : Owns(w, n) =>
            /\ inbox[MessageAt(n)].logSeq = n
            /\ ~inbox[MessageAt(n)].processed)'
    BY <1>8 DEF WorkInv
  <1>13. (\A v, w \in Workers : \A n \in LogSeqs : Owns(v, n) /\ Owns(w, n) => v = w)'
    BY <1>8 DEF WorkInv
  <1> QED
    BY <1>9, <1>10, <1>11, <1>12, <1>13 DEF WorkInv

\* A message that was shown is never flagged as undecryptable, and one that is
\* flagged was not shown: the inbox row admits one processing attempt, whether
\* it comes from the socket, a sync or a resume after a crash.
THEOREM FailedNeverAppliedTheorem == Spec => []FailedNeverApplied
  <1>1. Init => WorkInv
    BY DEF Init, WorkInv, RowStage, Present, NoRow, CallShape, Claiming, Claims,
           Owns, Idle
  <1>2. ClientInv /\ WorkInv /\ [Next]_vars => WorkInv'
    BY IngestClaims, SyncClaims, OthersClaim DEF Next, ClientInv
  <1>3. WorkInv => FailedNeverApplied
    BY DEF WorkInv, RowStage, FailedNeverApplied
  <1> QED
    BY <1>1, <1>2, <1>3, ClientInvariant, PTL DEF Spec
=============================================================================
