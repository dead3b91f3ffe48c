------------------------ MODULE OutboxDeliveryProofs ------------------------
(***************************************************************************)
(* Proofs about OutboxDelivery for any messages, devices and bounds.       *)
(* NothingLost holds however many calls of flush overlap; the cap on       *)
(* transmissions and the finality of a failed row need that they do not.   *)
(***************************************************************************)
EXTENDS OutboxDelivery, TLAPS

\* Calls of flush do not overlap.
SingleFlusher == \A f, g \in Flushers : f = g

-----------------------------------------------------------------------------
\* A delivered or read receipt merges into one of these two states.
LEMMA ReceiptState ==
    ASSUME NEW old \in States, NEW s \in {"delivered", "read"}
    PROVE  ApplyState(old, s) \in {"delivered", "read"}
<1>1. /\ Rank["queued"] = 0 /\ Rank["sending"] = 1 /\ Rank["sent"] = 2
      /\ Rank["delivered"] = 3 /\ Rank["read"] = 4
  BY DEF Rank
<1>2. CASE old = "failed"
  BY <1>1, <1>2 DEF ApplyState
<1>3. CASE old \in {"queued", "sending", "sent", "delivered", "read"}
  BY <1>1, <1>3 DEF ApplyState
<1> QED
  BY <1>2, <1>3 DEF States

\* Updating the state, the attempts or the flags of a row gives a row.
LEMMA RowUpdates ==
    ASSUME NEW row \in OutboxRows, NEW x \in States, NEW n \in Nat
    PROVE  /\ [row EXCEPT !.state = x] \in OutboxRows
           /\ [row EXCEPT !.state = x, !.acked = TRUE] \in OutboxRows
           /\ [row EXCEPT !.due = TRUE] \in OutboxRows
           /\ [row EXCEPT !.stale = TRUE] \in OutboxRows
           /\ Attempted(row, n) \in OutboxRows
           /\ Attempted(row, n).attempts = n
           /\ Attempted(row, n).acked = row.acked
           /\ Attempted(row, n).state =
                IF n >= MaxAttempts THEN "failed" ELSE "sending"
<1> USE DEF OutboxRows
<1>1. [row EXCEPT !.state = x] \in OutboxRows
  OBVIOUS
<1>2. [row EXCEPT !.state = x, !.acked = TRUE] \in OutboxRows
  OBVIOUS
<1>3. [row EXCEPT !.due = TRUE] \in OutboxRows
  OBVIOUS
<1>4. [row EXCEPT !.stale = TRUE] \in OutboxRows
  OBVIOUS
<1>5. CASE n >= MaxAttempts
  <2>1. Attempted(row, n) = [row EXCEPT !.attempts = n, !.state = "failed"]
    BY <1>5 DEF Attempted
  <2> QED
    BY <1>1, <1>2, <1>3, <1>4, <1>5, <2>1 DEF States
<1>6. CASE ~(n >= MaxAttempts)
  <2>1. Attempted(row, n) =
          [row EXCEPT !.attempts = n, !.state = "sending", !.due = FALSE]
    BY <1>6 DEF Attempted
  <2>2. Attempted(row, n) \in OutboxRows
    BY <2>1 DEF States
  <2> QED
    BY <1>1, <1>2, <1>3, <1>4, <1>6, <2>1, <2>2
<1> QED
  BY <1>5, <1>6

\* A flusher inside its loop body holds an entry.
InLoop == \A f \in Flushers : fpc[f] \in {"write", "emit"} => current[f] \in Entries

\* Every action of the engine keeps the variables within their types.
LEMMA TypeStep == TypeOK /\ InLoop /\ [Next]_vars => TypeOK' /\ InLoop'
<1> SUFFICES ASSUME TypeOK, InLoop, [Next]_vars PROVE TypeOK' /\ InLoop'
  OBVIOUS
<1> USE DEF TypeOK, InLoop
<1>1. ASSUME NEW m \in Messages, NEW T \in SUBSET Devices, Send(m, T)
      PROVE  TypeOK' /\ InLoop'
  BY <1>1 DEF Send, flushing, network, history
<1>2. ASSUME NEW m \in Messages, NEW d \in Devices, Enqueue(m, d)
      PROVE  TypeOK' /\ InLoop'
  <2>1. <<m, d>> \in Pairs
    BY DEF Pairs
  <2>2. Inserted(<<m, d>>) \in OutboxRows
    BY <2>1 DEF Inserted, FreshRow, States, OutboxRows
  <2> QED
    BY <1>2, <2>1, <2>2 DEF Enqueue, flushing, network
<1>3. ASSUME NEW S \in SUBSET Pairs PROVE Deleted(S) \in [Pairs -> OutboxRows]
  BY DEF Deleted, NoRow, OutboxRows
<1>4. ASSUME NEW m \in Messages, Cancel(m)
      PROVE  TypeOK' /\ InLoop'
  BY <1>3, <1>4 DEF Cancel, Cancellable, flushing, network
<1>5. ASSUME NEW f \in Flushers, FlushStart(f) PROVE TypeOK' /\ InLoop'
  <2>1. table' \in [Pairs -> OutboxRows]
    BY <1>5, RowUpdates DEF FlushStart, States
  <2> QED
    BY <1>5, <2>1 DEF FlushStart, network, history
<1>6. ASSUME NEW f \in Flushers, QueryDue(f) PROVE TypeOK' /\ InLoop'
  <2>1. PICK S \in SUBSET DuePairs :
          /\ batch' = [batch EXCEPT ![f] = {Entry(p) : p \in S}]
          /\ fpc' = [fpc EXCEPT ![f] = IF S = {} THEN "idle" ELSE "read"]
    BY <1>6 DEF QueryDue
  <2>2. \A p \in DuePairs : Entry(p) \in Entries
    BY DEF DuePairs, Entry, Entries, OutboxRows
  <2>3. {Entry(p) : p \in S} \subseteq Entries
    BY <2>2
  <2> QED
    BY <1>6, <2>1, <2>3 DEF QueryDue, network, history
<1>7. ASSUME NEW f \in Flushers, ReadAttempts(f) PROVE TypeOK' /\ InLoop'
  <2>1. PICK e \in batch[f] :
          /\ current' = [current EXCEPT ![f] = e]
          /\ batch' = [batch EXCEPT ![f] = @ \ {e}]
          /\ IF Present(e[1])
             THEN /\ seen' = [seen EXCEPT ![f] = table[e[1]].attempts]
                  /\ fpc' = [fpc EXCEPT ![f] = "write"]
             ELSE /\ UNCHANGED seen
                  /\ fpc' = [fpc EXCEPT ![f] = "emit"]
    BY <1>7 DEF ReadAttempts
  <2>2. e \in Entries /\ e[1] \in Pairs /\ table[e[1]].attempts \in Nat
    BY DEF Entries, OutboxRows
  <2> QED
    BY <1>7, <2>1, <2>2 DEF ReadAttempts, network, history
<1>8. ASSUME NEW f \in Flushers, fpc[f] \in {"write", "emit"}
      PROVE  current[f] \in Entries /\ current[f][1] \in Pairs
  BY <1>8 DEF Entries
<1>9. ASSUME NEW f \in Flushers, WriteAttempt(f) PROVE TypeOK' /\ InLoop'
  <2>1. AfterAttempt(current[f][1], seen[f] + 1) \in OutboxRows
    <3>1. CASE Present(current[f][1])
      <4>1. seen[f] + 1 \in Nat
        OBVIOUS
      <4>2. table[current[f][1]] \in OutboxRows
        BY <1>8, <1>9 DEF WriteAttempt
      <4> QED
        BY <3>1, <4>1, <4>2, RowUpdates, "sent" \in States DEF AfterAttempt, States
    <3>2. CASE ~Present(current[f][1])
      BY <3>2 DEF AfterAttempt, NoRow, OutboxRows
    <3> QED
      BY <3>1, <3>2
  <2>2. table' \in [Pairs -> OutboxRows]
    BY <1>9, <2>1 DEF WriteAttempt
  <2> QED
    BY <1>9, <2>2 DEF WriteAttempt, network, history
<1>10. ASSUME NEW f \in Flushers, FailPermanently(f) PROVE TypeOK' /\ InLoop'
  <2>1. table' \in [Pairs -> OutboxRows]
    <3>1. [table[current[f][1]] EXCEPT !.state = "failed"] \in OutboxRows
      BY <1>8, <1>10, RowUpdates, 0 \in Nat, "failed" \in States
         DEF FailPermanently, States
    <3> QED
      BY <1>8, <1>10, <3>1 DEF FailPermanently
  <2> QED
    BY <1>10, <2>1 DEF FailPermanently, NextEntry, network, history
<1>11. ASSUME NEW f \in Flushers, SendEnvelope(f) PROVE TypeOK' /\ InLoop'
  <2>1. current[f][1] \in Pairs
    BY <1>8, <1>11 DEF SendEnvelope
  <2>2. inFlight' \in [Pairs -> Nat] /\ stored' \subseteq Pairs
    BY <1>11, <2>1 DEF SendEnvelope
  <2> QED
    BY <1>11, <2>1, <2>2 DEF SendEnvelope, NextEntry
<1>12. ASSUME NEW p \in Pairs, OnAck(p) PROVE TypeOK' /\ InLoop'
  <2>1. [table[p] EXCEPT !.state = "sent", !.acked = TRUE] \in OutboxRows
    BY RowUpdates, 0 \in Nat, "sent" \in States DEF States
  <2>2. table' \in [Pairs -> OutboxRows]
    BY <1>12, <2>1 DEF OnAck
  <2> QED
    BY <1>12, <2>2 DEF OnAck, flushing
<1>13. ASSUME NEW p \in Pairs, RecipientConfirms(p) PROVE TypeOK' /\ InLoop'
  BY <1>13 DEF RecipientConfirms, flushing, history
<1>14. ASSUME NEW p \in Pairs, NEW s \in {"delivered", "read"}, OnReceipt(p, s)
       PROVE  TypeOK' /\ InLoop'
  <2>1. table[p].state \in States
    BY <1>14 DEF OnReceipt, Present, OutboxRows
  <2>2. ApplyState(table[p].state, s) \in States
    BY <2>1, ReceiptState DEF States
  <2> QED
    BY <1>14, <2>2 DEF OnReceipt, flushing, network, history
<1>15. ASSUME NEW p \in Pairs, BackoffElapses(p) \/ MaxAgePasses(p)
       PROVE  TypeOK' /\ InLoop'
  <2>1. /\ [table[p] EXCEPT !.due = TRUE] \in OutboxRows
        /\ [table[p] EXCEPT !.stale = TRUE] \in OutboxRows
    BY table[p] \in OutboxRows DEF OutboxRows
  <2>2. table' \in [Pairs -> OutboxRows]
    BY <1>15, <2>1 DEF BackoffElapses, MaxAgePasses
  <2> QED
    BY <1>15, <2>2 DEF BackoffElapses, MaxAgePasses, flushing, network, history
<1>16. ASSUME NEW w \in writes, WriteReceipt(w) PROVE TypeOK' /\ InLoop'
  <2>1. w.pair \in Pairs /\ w.state \in States
    OBVIOUS
  <2>2. [table[w.pair] EXCEPT !.state = w.state] \in OutboxRows
    BY <2>1, RowUpdates, 0 \in Nat
  <2>3. table' \in [Pairs -> OutboxRows]
    BY <1>16, <2>1, <2>2 DEF WriteReceipt
  <2> QED
    BY <1>16, <2>3 DEF WriteReceipt, flushing, network, history
<1>17. ASSUME NEW S \in SUBSET Pairs, PruneAcked(S) PROVE TypeOK' /\ InLoop'
  BY <1>3, <1>17 DEF PruneAcked, flushing, network
<1>18. CASE GoOnline \/ GoOffline
  <2>1. CASE GoOnline
    BY <2>1 DEF GoOnline, flushing, history
  <2>2. CASE GoOffline
    <3>1. inFlight' \in [Pairs -> Nat]
      BY <2>2 DEF GoOffline
    <3> QED
      BY <2>2, <3>1 DEF GoOffline, flushing, history
  <2> QED
    BY <1>18, <2>1, <2>2
<1>19. CASE Crash
  <2>1. /\ inFlight' \in [Pairs -> Nat]
        /\ queueing' \in [Messages -> SUBSET Devices]
    BY <1>19 DEF Crash
  <2>2. /\ fpc' \in [Flushers -> {"idle", "query", "read", "write", "emit"}]
        /\ batch' \in [Flushers -> SUBSET Entries]
        /\ current' \in [Flushers -> Entries \union {NoEntry}]
        /\ seen' \in [Flushers -> Nat]
    BY <1>19 DEF Crash
  <2>3. InLoop'
    BY <1>19 DEF Crash
  <2>4. /\ writes' \subseteq [pair : Pairs, state : States]
        /\ crashes' \in Nat
    BY <1>19 DEF Crash
  <2>6. online' \in BOOLEAN
    <3>1. online' = FALSE
      BY <1>19 DEF Crash
    <3> QED
      BY <3>1
  <2>5. UNCHANGED <<table, calls, stored, reached, sent, enqueued, acked,
                    cancelled, pruned>>
    BY <1>19 DEF Crash, history
  <2> HIDE DEF InLoop
  <2> QED
    BY <2>1, <2>2, <2>3, <2>4, <2>5, <2>6
<1>20. CASE UNCHANGED vars
  BY <1>20 DEF vars, flushing, network, history
<1> QED
  BY <1>1, <1>2, <1>4, <1>5, <1>6, <1>7, <1>9, <1>10, <1>11, <1>12, <1>13,
     <1>14, <1>15, <1>16, <1>17, <1>18, <1>19, <1>20 DEF Next, FlushStep

-----------------------------------------------------------------------------
(* Nothing is lost *)

\* acked_at_ms is only set by an ack.
AckedByServer == \A p \in Pairs : table[p].acked => p \in acked

\* An update that keeps every row present and acquires no acked mark, while
\* nothing new is enqueued, keeps the invariant.
LEMMA KeptRows ==
    ASSUME TypeOK, TypeOK', NothingLost, AckedByServer,
           enqueued' = enqueued, acked \subseteq acked',
           cancelled \subseteq cancelled',
           \A p \in Pairs : /\ table'[p].state = "none" <=> table[p].state = "none"
                            /\ table'[p].acked => table[p].acked \/ p \in acked'
    PROVE  NothingLost' /\ AckedByServer'
BY DEF TypeOK, NothingLost, AckedByServer, Present

\* Every action keeps an enqueued message until it is acknowledged or cancelled.
LEMMA NothingLostStep ==
    ASSUME TypeOK, InLoop, TypeOK', NothingLost, AckedByServer, [Next]_vars
    PROVE  NothingLost' /\ AckedByServer'
<1> DEFINE Same ==
      /\ enqueued' = enqueued /\ acked \subseteq acked'
      /\ cancelled \subseteq cancelled'
      /\ \A p \in Pairs : /\ table'[p].state = "none" <=> table[p].state = "none"
                          /\ table'[p].acked => table[p].acked \/ p \in acked'
<1>0. SUFFICES ASSUME ~Same PROVE NothingLost' /\ AckedByServer'
  BY KeptRows
<1>1. ASSUME NEW m \in Messages, NEW T \in SUBSET Devices, Send(m, T)
      PROVE  Same
  BY <1>1 DEF Send, history
<1>2. ASSUME NEW m \in Messages, NEW d \in Devices, Enqueue(m, d)
      PROVE  NothingLost' /\ AckedByServer'
  <2>1. <<m, d>> \in Pairs
    BY DEF Pairs
  <2>2. /\ Inserted(<<m, d>>).state # "none"
        /\ Inserted(<<m, d>>).acked => table[<<m, d>>].acked
    BY DEF Inserted, FreshRow, Present
  <2> QED
    BY <1>2, <2>1, <2>2 DEF Enqueue, NothingLost, AckedByServer, Present, TypeOK
<1>3. ASSUME NEW m \in Messages, Cancel(m)
      PROVE  NothingLost' /\ AckedByServer'
  BY <1>3 DEF Cancel, Deleted, NoRow, NothingLost, AckedByServer, Present, TypeOK
<1>4. ASSUME NEW f \in Flushers, FlushStart(f) PROVE Same
  BY <1>4 DEF FlushStart, Pending, PendingStates, history, TypeOK, OutboxRows
<1>5. ASSUME NEW f \in Flushers, QueryDue(f) \/ ReadAttempts(f) PROVE Same
  BY <1>5 DEF QueryDue, ReadAttempts, history
<1>6. ASSUME NEW f \in Flushers, WriteAttempt(f) PROVE Same
  <2> DEFINE p == current[f][1]
  <2>1. p \in Pairs /\ seen[f] + 1 \in Nat
    BY <1>6 DEF WriteAttempt, InLoop, Entries, TypeOK
  <2>4. table' = [table EXCEPT ![p] = AfterAttempt(p, seen[f] + 1)]
    BY <1>6 DEF WriteAttempt
  <2> HIDE DEF p
  <2>2. Present(p) => /\ AfterAttempt(p, seen[f] + 1).state # "none"
                      /\ AfterAttempt(p, seen[f] + 1).acked = table[p].acked
    <3>1. table[p] \in OutboxRows
      BY <2>1 DEF TypeOK
    <3> QED
      BY <2>1, <3>1 DEF AfterAttempt, Attempted, OutboxRows
  <2>3. ~Present(p) => /\ AfterAttempt(p, seen[f] + 1).state = "none"
                       /\ ~AfterAttempt(p, seen[f] + 1).acked
    BY DEF AfterAttempt, NoRow
  <2> QED
    BY <1>6, <2>1, <2>2, <2>3, <2>4 DEF WriteAttempt, history, TypeOK, Present
<1>7. ASSUME NEW f \in Flushers, FailPermanently(f) PROVE Same
  <2>1. current[f][1] \in Pairs
    BY <1>7 DEF FailPermanently, InLoop, Entries, TypeOK
  <2> QED
    BY <1>7, <2>1 DEF FailPermanently, history, TypeOK, Present, OutboxRows
<1>8. ASSUME NEW f \in Flushers, SendEnvelope(f) PROVE Same
  BY <1>8 DEF SendEnvelope
<1>9. ASSUME NEW p \in Pairs, OnAck(p) PROVE Same
  BY <1>9 DEF OnAck, TypeOK, Present, OutboxRows
<1>10. ASSUME NEW p \in Pairs, RecipientConfirms(p) PROVE Same
  BY <1>10 DEF RecipientConfirms, history
<1>11. ASSUME NEW p \in Pairs, NEW s \in {"delivered", "read"}, OnReceipt(p, s)
       PROVE  Same
  BY <1>11 DEF OnReceipt, history
<1>12. ASSUME NEW p \in Pairs, BackoffElapses(p) \/ MaxAgePasses(p) PROVE Same
  <2>1. CASE BackoffElapses(p)
    BY <2>1 DEF BackoffElapses, history, TypeOK, OutboxRows
  <2>2. CASE MaxAgePasses(p)
    BY <2>2 DEF MaxAgePasses, history, TypeOK, OutboxRows
  <2> QED
    BY <1>12, <2>1, <2>2
<1>13. ASSUME NEW w \in writes, WriteReceipt(w) PROVE Same
  <2>1. w.pair \in Pairs /\ w.state \in States
    BY DEF TypeOK
  <2>2. w.state # "none"
    BY <2>1 DEF States
  <2> QED
    BY <1>13, <2>1, <2>2 DEF WriteReceipt, history, TypeOK, Present, OutboxRows
<1>14. ASSUME NEW S \in SUBSET Pairs, PruneAcked(S)
       PROVE  NothingLost' /\ AckedByServer'
  BY <1>14 DEF PruneAcked, Prunable, Deleted, NoRow, NothingLost, AckedByServer,
               Present, TypeOK
<1>15. CASE GoOnline \/ GoOffline \/ Crash
  <2>1. Same
    BY <1>15 DEF GoOnline, GoOffline, Crash, history
  <2> QED
    BY <1>0, <2>1
<1>16. CASE UNCHANGED vars
  <2>1. Same
    BY <1>16 DEF vars, history
  <2> QED
    BY <1>0, <2>1
<1> HIDE DEF Same
<1> QED
  BY <1>0, <1>1, <1>2, <1>3, <1>4, <1>5, <1>6, <1>7, <1>8, <1>9, <1>10, <1>11,
     <1>12, <1>13, <1>14, <1>15, <1>16 DEF Next, FlushStep

\* The empty outbox is well typed.
LEMMA TypeInit == Init => TypeOK /\ InLoop
<1> SUFFICES ASSUME Init PROVE TypeOK /\ InLoop
  OBVIOUS
<1>1. table \in [Pairs -> OutboxRows]
  BY DEF Init, NoRow, OutboxRows
<1>2. online \in BOOLEAN
  <2>1. online = FALSE
    BY DEF Init
  <2> QED
    BY <2>1
<1>3. InLoop
  BY DEF Init, InLoop
<1>4. current \in [Flushers -> Entries \union {NoEntry}]
  BY DEF Init
<1> QED
  BY <1>1, <1>2, <1>3, <1>4 DEF Init, TypeOK

\* The types are an invariant of the engine.
THEOREM OutboxTypes == Spec => [](TypeOK /\ InLoop)
<1>1. Init => TypeOK /\ InLoop
  BY TypeInit
<1>2. TypeOK /\ InLoop /\ [Next]_vars => (TypeOK /\ InLoop)'
  BY TypeStep
<1> QED
  BY <1>1, <1>2, PTL DEF Spec

\* However many flushes overlap, and whatever crashes: a message that reached
\* the outbox is kept until it is acknowledged or cancelled.
THEOREM NothingLostTheorem == Spec => []NothingLost
<1> DEFINE Inv == TypeOK /\ InLoop /\ NothingLost /\ AckedByServer
<1>1. Init => Inv
  <2>1. Init => TypeOK /\ InLoop
    BY TypeInit
  <2>2. Init => NothingLost /\ AckedByServer
    BY DEF Init, NothingLost, AckedByServer, NoRow
  <2> QED
    BY <2>1, <2>2
<1>2. Inv /\ [Next]_vars => Inv'
  BY TypeStep, NothingLostStep
<1> QED
  BY <1>1, <1>2, PTL DEF Spec

-----------------------------------------------------------------------------
(* When flushes do not overlap *)

\* The rows whose pair was never deleted: the cap is about these.
Kept(p) == p \notin cancelled /\ p \notin pruned

\* Receipts only write the two states of a recipient device.
ReceiptsForward == \A w \in writes : w.state \in {"delivered", "read"}

AbsentUntried == \A p \in Pairs : ~Present(p) => table[p].attempts = 0

\* What a flusher still has to do is to be tried once, has not failed and has
\* attempts left; the attempt it has read is the one in the table; and the
\* attempt it is about to emit has been counted.
FlusherOK(f) ==
    /\ fpc[f] \in {"idle", "query"} => batch[f] = {}
    /\ \A e, o \in batch[f] : e[1] = o[1] => e = o
    /\ fpc[f] \in {"write", "emit"} => \A e \in batch[f] : e[1] # current[f][1]
    /\ \A e \in batch[f] :
          /\ table[e[1]].state # "failed"
          /\ Kept(e[1]) => Present(e[1]) /\ table[e[1]].attempts < MaxAttempts
    /\ fpc[f] = "write" =>
          /\ table[current[f][1]].state # "failed"
          /\ Kept(current[f][1]) =>
                /\ Present(current[f][1])
                /\ seen[f] = table[current[f][1]].attempts
                /\ seen[f] < MaxAttempts
    /\ fpc[f] = "emit" =>
          (Kept(current[f][1]) =>
             sent[current[f][1]] < table[current[f][1]].attempts)

CapOK(p) ==
    Kept(p) => /\ sent[p] <= table[p].attempts
               /\ table[p].attempts <= MaxAttempts
               /\ Pending(p) => table[p].attempts < MaxAttempts

\* The inductive invariant: the cap alone says nothing about an attempt that
\* has been read and not yet written, or counted and not yet emitted.
SerialInv ==
    /\ ReceiptsForward
    /\ AbsentUntried
    /\ \A f \in Flushers : FlusherOK(f)
    /\ \A p \in Pairs : CapOK(p)

\* Whatever leaves the flushers, the counters and the failures alone keeps the
\* invariant of flushers and rows.
LEMMA SerialFrame ==
    ASSUME TypeOK, TypeOK', InLoop, SerialInv,
           UNCHANGED <<fpc, batch, current, seen, sent>>,
           cancelled \subseteq cancelled', pruned \subseteq pruned',
           \A p \in Pairs :
              /\ table'[p].state = "failed" => table[p].state = "failed"
              /\ p \notin cancelled' /\ p \notin pruned' =>
                   /\ table'[p].attempts = table[p].attempts
                   /\ Present(p) => table'[p].state # "none"
                   /\ table'[p].state \in PendingStates
                        => Pending(p) \/ table[p].attempts = 0
    PROVE  /\ \A f \in Flushers : FlusherOK(f)'
           /\ \A p \in Pairs : CapOK(p)'
<1>1. ASSUME NEW f \in Flushers PROVE FlusherOK(f)'
  <2>1. /\ \A e \in batch[f] : e[1] \in Pairs
        /\ fpc[f] \in {"write", "emit"} => current[f][1] \in Pairs
    BY DEF TypeOK, InLoop, Entries
  <2>2. FlusherOK(f)
    BY DEF SerialInv
  <2> QED
    BY <2>1, <2>2 DEF FlusherOK, Kept, Present
<1>2. ASSUME NEW p \in Pairs PROVE CapOK(p)'
  <2>1. CapOK(p) /\ sent[p] \in Nat /\ table[p].attempts \in Nat
    BY DEF SerialInv, TypeOK, OutboxRows
  <2> QED
    BY <2>1, AttemptsAssumption DEF CapOK, Kept, Pending
<1> QED
  BY <1>1, <1>2

\* Statements of other calls than flush keep the invariant.
LEMMA SerialOther ==
    ASSUME TypeOK, InLoop, TypeOK', SerialInv,
           \/ \E m \in Messages : \/ \E T \in SUBSET Devices \ {{}} : Send(m, T)
                                  \/ \E d \in Devices : Enqueue(m, d)
                                  \/ Cancel(m)
           \/ \E p \in Pairs : \/ OnAck(p) \/ RecipientConfirms(p)
                               \/ \E s \in {"delivered", "read"} : OnReceipt(p, s)
                               \/ BackoffElapses(p) \/ MaxAgePasses(p)
           \/ \E w \in writes : WriteReceipt(w)
           \/ \E S \in SUBSET Pairs : PruneAcked(S)
           \/ GoOnline \/ GoOffline
           \/ UNCHANGED vars
    PROVE  SerialInv'
<1> DEFINE Frame ==
      /\ UNCHANGED <<fpc, batch, current, seen, sent>>
      /\ cancelled \subseteq cancelled' /\ pruned \subseteq pruned'
      /\ \A p \in Pairs :
            /\ table'[p].state = "failed" => table[p].state = "failed"
            /\ p \notin cancelled' /\ p \notin pruned' =>
                 /\ table'[p].attempts = table[p].attempts
                 /\ Present(p) => table'[p].state # "none"
                 /\ table'[p].state \in PendingStates
                      => Pending(p) \/ table[p].attempts = 0
      /\ ReceiptsForward' /\ AbsentUntried'
<1>0. SUFFICES Frame
  BY SerialFrame DEF SerialInv
<1> USE DEF PendingStates, Pending, Present
<1>a. /\ \A p \in Pairs : table[p] \in OutboxRows
      /\ table \in [Pairs -> OutboxRows]
      /\ ReceiptsForward /\ AbsentUntried
  BY DEF TypeOK, SerialInv
<1>1. ASSUME NEW m \in Messages, NEW T \in SUBSET Devices, Send(m, T)
      PROVE  Frame
  BY <1>1, <1>a DEF Send, flushing, history, ReceiptsForward, AbsentUntried
<1>2. ASSUME NEW m \in Messages, NEW d \in Devices, Enqueue(m, d)
      PROVE  Frame
  <2>1. <<m, d>> \in Pairs
    BY DEF Pairs
  <2> DEFINE q == <<m, d>>
  <2>2. /\ Inserted(q).state # "none"
        /\ Inserted(q).state = "failed" => table[q].state = "failed"
        /\ Inserted(q).attempts = table[q].attempts
        /\ Inserted(q).state \in PendingStates
             => Pending(q) \/ table[q].attempts = 0
    BY <2>1, <1>a DEF Inserted, FreshRow, AbsentUntried
  <2>3. table' = [table EXCEPT ![q] = Inserted(q)]
    BY <1>2 DEF Enqueue
  <2> HIDE DEF q
  <2> QED
    BY <1>2, <1>a, <2>1, <2>2, <2>3
       DEF Enqueue, flushing, ReceiptsForward, AbsentUntried
<1>3. ASSUME NEW m \in Messages, Cancel(m) PROVE Frame
  <2>1. \A p \in Pairs : table'[p] = IF p \in Cancellable(m) THEN NoRow ELSE table[p]
    BY <1>3 DEF Cancel, Deleted
  <2> QED
    BY <1>3, <1>a, <2>1 DEF Cancel, NoRow, flushing, ReceiptsForward, AbsentUntried
<1>4. ASSUME NEW p \in Pairs, OnAck(p) PROVE Frame
  BY <1>4, <1>a DEF OnAck, flushing, ReceiptsForward, AbsentUntried, OutboxRows
<1>5. ASSUME NEW p \in Pairs, RecipientConfirms(p) PROVE Frame
  BY <1>5, <1>a DEF RecipientConfirms, flushing, history, ReceiptsForward,
                    AbsentUntried
<1>6. ASSUME NEW p \in Pairs, NEW s \in {"delivered", "read"}, OnReceipt(p, s)
      PROVE  Frame
  <2>1. table[p].state \in States
    BY <1>6, <1>a DEF OnReceipt, OutboxRows
  <2>2. ApplyState(table[p].state, s) \in {"delivered", "read"}
    BY <2>1, ReceiptState
  <2> QED
    BY <1>6, <1>a, <2>2 DEF OnReceipt, flushing, history, ReceiptsForward,
                            AbsentUntried
<1>7. ASSUME NEW p \in Pairs, BackoffElapses(p) PROVE Frame
  BY <1>7, <1>a DEF BackoffElapses, flushing, history, ReceiptsForward,
                    AbsentUntried, OutboxRows
<1>8. ASSUME NEW p \in Pairs, MaxAgePasses(p) PROVE Frame
  BY <1>8, <1>a DEF MaxAgePasses, flushing, history, ReceiptsForward,
                    AbsentUntried, OutboxRows
<1>9. ASSUME NEW w \in writes, WriteReceipt(w) PROVE Frame
  <2>1. w.pair \in Pairs /\ w.state \in {"delivered", "read"}
    BY <1>a DEF TypeOK, ReceiptsForward
  <2> QED
    BY <1>9, <1>a, <2>1 DEF WriteReceipt, flushing, history, ReceiptsForward,
                            AbsentUntried, OutboxRows
<1>10. ASSUME NEW S \in SUBSET Pairs, PruneAcked(S) PROVE Frame
  <2>1. \A p \in Pairs : table'[p] = IF p \in S THEN NoRow ELSE table[p]
    BY <1>10 DEF PruneAcked, Deleted
  <2> QED
    BY <1>10, <1>a, <2>1 DEF PruneAcked, NoRow, flushing, ReceiptsForward,
                             AbsentUntried
<1>11. ASSUME GoOnline \/ GoOffline \/ UNCHANGED vars PROVE Frame
  BY <1>11, <1>a DEF GoOnline, GoOffline, vars, flushing, history,
                     ReceiptsForward, AbsentUntried
<1> HIDE DEF Frame
<1> QED
  BY <1>1, <1>2, <1>3, <1>4, <1>5, <1>6, <1>7, <1>8, <1>9, <1>10, <1>11

\* The statements of the only flusher keep the invariant.
LEMMA SerialFlush ==
    ASSUME SingleFlusher, TypeOK, InLoop, TypeOK', SerialInv,
           NEW f \in Flushers, FlushStart(f) \/ FlushStep(f)
    PROVE  SerialInv'
<1> USE DEF PendingStates, Pending, Present
<1>a. /\ \A p \in Pairs : table[p] \in OutboxRows
      /\ table \in [Pairs -> OutboxRows]
      /\ ReceiptsForward /\ AbsentUntried /\ FlusherOK(f)
      /\ \A p \in Pairs : CapOK(p)
  BY DEF TypeOK, SerialInv
<1>b. SUFFICES /\ ReceiptsForward' /\ AbsentUntried' /\ FlusherOK(f)'
               /\ \A p \in Pairs : CapOK(p)'
  BY DEF SerialInv, SingleFlusher
<1>c. /\ \A e \in batch[f] : e[1] \in Pairs
      /\ fpc[f] \in {"write", "emit"} => current[f][1] \in Pairs
  BY DEF TypeOK, InLoop, Entries
<1>1. CASE FlushStart(f)
  <2>1. batch[f] = {} /\ fpc' = [fpc EXCEPT ![f] = "query"] /\ batch' = batch
    BY <1>1, <1>a DEF FlushStart, FlusherOK
  <2>2. fpc'[f] = "query" /\ batch'[f] = {}
    BY <2>1 DEF TypeOK
  <2>3. \A p \in Pairs :
           /\ table'[p].attempts = table[p].attempts
           /\ table'[p].state = "none" <=> table[p].state = "none"
           /\ Pending(p)' => Pending(p)
    BY <1>1, <1>a DEF FlushStart, OutboxRows
  <2> QED
    BY <1>1, <1>a, <2>2, <2>3
       DEF FlushStart, history, ReceiptsForward, AbsentUntried, FlusherOK, CapOK, Kept
<1>2. CASE QueryDue(f)
  <2>1. PICK S \in SUBSET DuePairs :
          /\ batch' = [batch EXCEPT ![f] = {Entry(p) : p \in S}]
          /\ fpc' = [fpc EXCEPT ![f] = IF S = {} THEN "idle" ELSE "read"]
    BY <1>2 DEF QueryDue
  <2>2. /\ batch'[f] = {Entry(p) : p \in S}
        /\ fpc'[f] = IF S = {} THEN "idle" ELSE "read"
    BY <2>1 DEF TypeOK
  <2>3. S \subseteq Pairs /\ \A p \in S : Pending(p)
    BY DEF DuePairs
  <2>4. \A e \in batch'[f] : e[1] \in S /\ e = Entry(e[1])
    BY <2>2 DEF Entry
  <2>5. \A e \in batch'[f] :
           /\ table[e[1]].state # "failed" /\ Present(e[1])
           /\ Kept(e[1]) => table[e[1]].attempts < MaxAttempts
    BY <1>a, <2>3, <2>4 DEF CapOK
  <2>6. UNCHANGED <<table, writes, cancelled, pruned, sent>>
    BY <1>2 DEF QueryDue, history
  <2>7. FlusherOK(f)'
    BY <2>2, <2>4, <2>5, <2>6 DEF FlusherOK, Kept, Entry
  <2> QED
    BY <1>a, <2>6, <2>7 DEF ReceiptsForward, AbsentUntried, CapOK, Kept
<1>3. CASE ReadAttempts(f)
  <2>1. PICK e \in batch[f] :
          /\ current' = [current EXCEPT ![f] = e]
          /\ batch' = [batch EXCEPT ![f] = @ \ {e}]
          /\ IF Present(e[1])
             THEN /\ seen' = [seen EXCEPT ![f] = table[e[1]].attempts]
                  /\ fpc' = [fpc EXCEPT ![f] = "write"]
             ELSE /\ UNCHANGED seen
                  /\ fpc' = [fpc EXCEPT ![f] = "emit"]
    BY <1>3 DEF ReadAttempts
  <2>2. /\ current'[f] = e /\ batch'[f] = batch[f] \ {e}
        /\ Present(e[1]) => seen'[f] = table[e[1]].attempts /\ fpc'[f] = "write"
        /\ ~Present(e[1]) => fpc'[f] = "emit"
    BY <2>1 DEF TypeOK
  <2>3. UNCHANGED <<table, writes, cancelled, pruned, sent>>
    BY <1>3 DEF ReadAttempts, history
  <2>4. FlusherOK(f)'
    BY <1>a, <2>2, <2>3 DEF FlusherOK, Kept
  <2> QED
    BY <1>a, <2>3, <2>4 DEF ReceiptsForward, AbsentUntried, CapOK, Kept
<1>4. CASE WriteAttempt(f)
  <2>q. PICK q \in Pairs : q = current[f][1]
    BY <1>4, <1>c DEF WriteAttempt
  <2>n. PICK n \in Nat : n = seen[f] + 1
    BY DEF TypeOK
  <2>1. /\ fpc[f] = "write" /\ q \in Pairs /\ n \in Nat
        /\ table' = [table EXCEPT ![q] = AfterAttempt(q, n)]
        /\ fpc'[f] = "emit" /\ current'[f] = current[f] /\ batch'[f] = batch[f]
    BY <1>4, <2>q, <2>n DEF WriteAttempt, TypeOK
  <2>2. UNCHANGED <<writes, cancelled, pruned, sent>>
    BY <1>4 DEF WriteAttempt, history
  <2>3. Kept(q) => /\ Present(q) /\ seen[f] = table[q].attempts
                   /\ seen[f] < MaxAttempts
    BY <1>a, <2>1, <2>q DEF FlusherOK
  <2>x. current[f][1] = q /\ current'[f][1] = q
    BY <2>1, <2>q
  <2>y. \A e \in batch[f] : e[1] # q
    BY <1>a, <2>1, <2>q DEF FlusherOK
  <2>z. seen[f] \in Nat /\ n = seen[f] + 1 /\ sent[q] \in Nat
    BY <2>1, <2>n DEF TypeOK
  <2>4. Present(q) => /\ AfterAttempt(q, n).attempts = n
                      /\ AfterAttempt(q, n).state =
                           IF n >= MaxAttempts THEN "failed" ELSE "sending"
    BY <1>a, <2>1 DEF AfterAttempt, Attempted, OutboxRows
  <2>5. ~Present(q) => AfterAttempt(q, n) = NoRow
    BY DEF AfterAttempt
  <2>6. /\ table'[q] = AfterAttempt(q, n)
        /\ \A p \in Pairs : p # q => table'[p] = table[p]
    BY <1>a, <2>1
  <2>7. AbsentUntried'
    BY <1>a, <2>4, <2>5, <2>6 DEF AbsentUntried, NoRow
  <2>8. CapOK(q)'
    <3> SUFFICES ASSUME Kept(q)
                 PROVE  /\ sent[q] <= table'[q].attempts
                        /\ table'[q].attempts <= MaxAttempts
                        /\ Pending(q)' => table'[q].attempts < MaxAttempts
      BY <2>2 DEF CapOK, Kept
    <3>1. sent[q] <= seen[f] /\ n <= MaxAttempts
      BY <1>a, <2>1, <2>3, <2>z, AttemptsAssumption DEF CapOK
    <3>2. table'[q].attempts = n /\ (n >= MaxAttempts => ~Pending(q)')
      BY <2>3, <2>4, <2>6
    <3> QED
      BY <2>1, <2>z, <3>1, <3>2, AttemptsAssumption
  <2>9. ASSUME NEW p \in Pairs PROVE CapOK(p)'
    <3>1. CASE p = q
      BY <2>8, <3>1
    <3>2. CASE p # q
      <4>1. CapOK(p) /\ table'[p] = table[p]
        BY <1>a, <2>6, <3>2
      <4> QED
        BY <2>2, <4>1 DEF CapOK, Kept
    <3> QED
      BY <3>1, <3>2
  <2>10. FlusherOK(f)'
    <3>1. Kept(q) => sent[q] < table'[q].attempts
      <4>1. Kept(q) => sent[q] <= seen[f]
        BY <1>a, <2>1, <2>3 DEF CapOK
      <4> QED
        BY <2>3, <2>4, <2>6, <2>z, <4>1
    <3> QED
      BY <1>a, <1>c, <2>1, <2>2, <2>6, <2>x, <2>y, <3>1 DEF FlusherOK, Kept
  <2> QED
    BY <1>a, <2>2, <2>7, <2>9, <2>10 DEF ReceiptsForward
<1>5. CASE FailPermanently(f)
  <2> DEFINE q == current[f][1]
  <2>1. fpc[f] = "emit" /\ q \in Pairs /\ batch'[f] = batch[f]
    BY <1>5, <1>c DEF FailPermanently
  <2>2. fpc'[f] = IF batch[f] = {} THEN "idle" ELSE "read"
    BY <1>5 DEF FailPermanently, NextEntry, TypeOK
  <2>3. UNCHANGED <<writes, cancelled, pruned, sent>>
    BY <1>5 DEF FailPermanently, history
  <2>4. \A p \in Pairs : /\ table'[p].attempts = table[p].attempts
                         /\ table'[p].state = "none" <=> table[p].state = "none"
                         /\ Pending(p)' => Pending(p)
                         /\ p # q => table'[p] = table[p]
    BY <1>5, <1>a, <2>1 DEF FailPermanently, OutboxRows
  <2>5. \A e \in batch[f] : e[1] # q
    BY <1>a, <2>1 DEF FlusherOK
  <2> HIDE DEF q
  <2>6. FlusherOK(f)'
    BY <1>a, <1>c, <2>1, <2>2, <2>3, <2>4, <2>5 DEF FlusherOK, Kept
  <2> QED
    BY <1>a, <2>3, <2>4, <2>6 DEF ReceiptsForward, AbsentUntried, CapOK, Kept
<1>6. CASE SendEnvelope(f)
  <2> DEFINE q == current[f][1]
  <2>1. fpc[f] = "emit" /\ q \in Pairs /\ batch'[f] = batch[f]
    BY <1>6, <1>c DEF SendEnvelope
  <2>2. fpc'[f] = IF batch[f] = {} THEN "idle" ELSE "read"
    BY <1>6 DEF SendEnvelope, NextEntry, TypeOK
  <2>3. UNCHANGED <<table, writes, cancelled, pruned>>
    BY <1>6 DEF SendEnvelope
  <2>4. sent' = sent \/ sent' = [sent EXCEPT ![q] = @ + 1]
    BY <1>6 DEF SendEnvelope
  <2>5. Kept(q) => sent[q] < table[q].attempts
    BY <1>a, <2>1 DEF FlusherOK
  <2>6. FlusherOK(f)'
    BY <1>a, <2>1, <2>2, <2>3 DEF FlusherOK, Kept
  <2> HIDE DEF q
  <2>7. ASSUME NEW p \in Pairs PROVE CapOK(p)'
    <3>1. sent[p] \in Nat /\ table[p].attempts \in Nat
      BY <1>a DEF TypeOK, OutboxRows
    <3>2. p # q => sent'[p] = sent[p]
      BY <2>1, <2>4 DEF TypeOK
    <3>3. p = q => sent'[p] = sent[p] \/ sent'[p] = sent[p] + 1
      BY <2>1, <2>4 DEF TypeOK
    <3> QED
      BY <1>a, <2>3, <2>5, <3>1, <3>2, <3>3 DEF CapOK, Kept
  <2> QED
    BY <1>a, <2>3, <2>6, <2>7 DEF ReceiptsForward, AbsentUntried
<1> QED
  BY <1>1, <1>2, <1>3, <1>4, <1>5, <1>6 DEF FlushStep

\* A crash stops the flusher between two statements.
LEMMA SerialCrash == ASSUME TypeOK, SerialInv, Crash PROVE SerialInv'
<1>1. UNCHANGED <<table, sent, cancelled, pruned>>
  BY DEF Crash, history
<1>2. ReceiptsForward' /\ AbsentUntried' /\ \A p \in Pairs : CapOK(p)'
  BY <1>1 DEF Crash, SerialInv, ReceiptsForward, AbsentUntried, Present, CapOK,
              Kept, Pending
<1>3. ASSUME NEW f \in Flushers PROVE FlusherOK(f)'
  <2>1. fpc'[f] = "idle" /\ batch'[f] = {}
    BY DEF Crash
  <2> QED
    BY <2>1 DEF FlusherOK
<1> QED
  BY <1>2, <1>3 DEF SerialInv

\* The invariant of an engine whose flushes do not overlap.
THEOREM SerialInvariant ==
    ASSUME SingleFlusher
    PROVE  Spec => [](TypeOK /\ InLoop /\ SerialInv)
<1> DEFINE Inv == TypeOK /\ InLoop /\ SerialInv
<1>1. Init => Inv
  <2>1. Init => SerialInv
    BY AttemptsAssumption
       DEF Init, SerialInv, ReceiptsForward, AbsentUntried, FlusherOK, CapOK,
           Present, Pending, PendingStates, NoRow
  <2> QED
    BY <2>1, TypeInit
<1>2. Inv /\ [Next]_vars => Inv'
  <2> SUFFICES ASSUME TypeOK, InLoop, SerialInv, [Next]_vars PROVE Inv'
    OBVIOUS
  <2>1. TypeOK' /\ InLoop'
    BY TypeStep
  <2>2. CASE Crash
    BY <2>1, <2>2, SerialCrash
  <2>3. ASSUME NEW f \in Flushers, FlushStart(f) \/ FlushStep(f) PROVE Inv'
    BY <2>1, <2>3, SerialFlush
  <2> QED
    BY <2>1, <2>2, <2>3, SerialOther DEF Next
<1> QED
  BY <1>1, <1>2, PTL DEF Spec

\* If flushes do not overlap, no envelope is written to the socket more than
\* MaxAttempts times, through any number of crashes.
THEOREM TransmissionsCappedTheorem ==
    ASSUME SingleFlusher
    PROVE  Spec => []TransmissionsCapped
<1>1. TypeOK /\ SerialInv => TransmissionsCapped
  <2> SUFFICES ASSUME TypeOK, SerialInv,
                      NEW p \in Pairs, p \notin cancelled, p \notin pruned
               PROVE  sent[p] <= table[p].attempts /\ sent[p] <= MaxAttempts
    BY DEF TransmissionsCapped
  <2>1. CapOK(p) /\ sent[p] \in Nat /\ table[p].attempts \in Nat
    BY DEF SerialInv, TypeOK, OutboxRows
  <2> QED
    BY <2>1, AttemptsAssumption DEF CapOK, Kept
<1> QED
  BY <1>1, SerialInvariant, PTL

\* If flushes do not overlap, a failed row is never scheduled again.
THEOREM FailedStaysFailedTheorem ==
    ASSUME SingleFlusher
    PROVE  Spec => FailedStaysFailed
<1> DEFINE Final == \A p \in Pairs :
             table[p].state = "failed" => table'[p].state \notin PendingStates
<1>1. TypeOK /\ InLoop /\ SerialInv /\ [Next]_vars => [Final]_vars
  <2> SUFFICES ASSUME TypeOK, InLoop, SerialInv, Next,
                      NEW p \in Pairs, table[p].state = "failed"
               PROVE  table'[p].state \notin PendingStates
    OBVIOUS
  <2> USE DEF PendingStates
  <2>a. table \in [Pairs -> OutboxRows]
    BY DEF TypeOK
  <2>1. ASSUME NEW m \in Messages, NEW d \in Devices, Enqueue(m, d)
        PROVE  table'[p] = table[p]
    BY <2>a, <2>1 DEF Enqueue, Inserted, Present
  <2>2. ASSUME NEW f \in Flushers, WriteAttempt(f) PROVE table'[p] = table[p]
    <3>1. current[f][1] # p
      BY <2>2 DEF WriteAttempt, SerialInv, FlusherOK
    <3> QED
      BY <2>a, <2>2, <3>1 DEF WriteAttempt
  <2>3. ASSUME NEW f \in Flushers,
               FlushStart(f) \/ QueryDue(f) \/ ReadAttempts(f) \/ SendEnvelope(f)
        PROVE  table'[p] = table[p]
    BY <2>a, <2>3 DEF FlushStart, Pending, QueryDue, ReadAttempts, SendEnvelope
  <2>4. ASSUME NEW f \in Flushers, FailPermanently(f)
        PROVE  table'[p].state = "failed"
    <3>1. current[f][1] \in Pairs
      BY <2>4 DEF FailPermanently, InLoop, Entries
    <3> QED
      BY <2>a, <2>4, <3>1 DEF FailPermanently, OutboxRows
  <2>5. ASSUME NEW m \in Messages, Cancel(m) PROVE table'[p] = table[p]
    BY <2>5 DEF Cancel, Cancellable, Pending, Deleted
  <2>6. ASSUME NEW q \in Pairs, OnAck(q)
        PROVE  table'[p].state \in {"failed", "sent"}
    BY <2>a, <2>6 DEF OnAck, OutboxRows
  <2>7. ASSUME NEW w \in writes, WriteReceipt(w)
        PROVE  table'[p].state \in {"failed", "delivered", "read"}
    <3>1. w.pair \in Pairs /\ w.state \in {"delivered", "read"}
      BY DEF TypeOK, SerialInv, ReceiptsForward
    <3> QED
      BY <2>a, <2>7, <3>1 DEF WriteReceipt, OutboxRows
  <2>8. ASSUME NEW q \in Pairs, BackoffElapses(q)
        PROVE  table'[p].state = "failed"
    BY <2>a, <2>8 DEF BackoffElapses, OutboxRows
  <2>9. ASSUME NEW q \in Pairs, MaxAgePasses(q)
        PROVE  table'[p].state = "failed"
    BY <2>a, <2>9 DEF MaxAgePasses, OutboxRows
  <2>10. ASSUME NEW S \in SUBSET Pairs, PruneAcked(S)
         PROVE  table'[p].state = "failed"
    BY <2>10 DEF PruneAcked, Prunable, Deleted
  <2>11. ASSUME NEW q \in Pairs,
                \/ RecipientConfirms(q)
                \/ \E s \in {"delivered", "read"} : OnReceipt(q, s)
         PROVE  table' = table
    BY <2>11 DEF RecipientConfirms, OnReceipt
  <2>12. ASSUME \/ \E m \in Messages : \E T \in SUBSET Devices \ {{}} : Send(m, T)
                \/ GoOnline \/ GoOffline \/ Crash
         PROVE  table' = table
    BY <2>12 DEF Send, GoOnline, GoOffline, Crash
  <2> QED
    BY <2>1, <2>2, <2>3, <2>4, <2>5, <2>6, <2>7, <2>8, <2>9, <2>10, <2>11, <2>12
       DEF Next, FlushStep
<1> QED
  BY <1>1, SerialInvariant, PTL DEF Spec, FailedStaysFailed
=============================================================================
