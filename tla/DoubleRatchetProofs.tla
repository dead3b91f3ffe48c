------------------------ MODULE DoubleRatchetProofs ------------------------
(***************************************************************************)
(* Replay protection, types, the limit on skipped keys, uniqueness of      *)
(* message keys, forward secrecy and in-order readability of the ratchet,  *)
(* for any number of messages, ratchet steps and skipped keys, over a      *)
(* network that loses, repeats and reorders.                               *)
(***************************************************************************)
EXTENDS DoubleRatchet, FiniteSetTheorems, WellFoundedInduction, TLAPS

\* s has the fields of a RatchetSession, whatever their values.
Fields == {"rootKey", "sending", "receiving", "my", "their", "sendCount",
           "receiveCount", "previousSendCount", "skipped", "decrypted", "pairs"}

IsSession(s) == s = [f \in Fields |-> s[f]]

\* The entry of the replay set that belongs to a body.
ReplayKey(b) == <<b.number, b.pub>>

\* The invariant behind OpenedOnce: whatever a party opened stays in its
\* replay set, however often its ratchet was stepped since.
ReplayInv ==
    /\ session = [p \in Parties |-> session[p]]
    /\ opened = [p \in Parties |-> opened[p]]
    /\ \A p \in Parties : IsSession(session[p])
    /\ \A p \in Parties : \A b \in opened[p] :
          ReplayKey(b) \in session[p].decrypted
    /\ twice = {}

\* t is a session with the replay set of s.
SameReplaySet(t, s) == IsSession(t) /\ t.decrypted = s.decrypted

-----------------------------------------------------------------------------
\* A ratchet step, forwards or back, keeps the replay set and ends on the key
\* of the body.
LEMMA SteppedKeeps ==
    ASSUME NEW p, NEW s, IsSession(s), NEW body
    PROVE  /\ SameReplaySet(Stepped(p, s, body), s)
           /\ Stepped(p, s, body).their = body.pub
<1>1. ASSUME NEW previous
      PROVE  LET t == Rekeyed(p, s, body.pub, previous)
             IN  SameReplaySet(t, s) /\ t.their = body.pub
  BY DEF Rekeyed, SameReplaySet, IsSession, Fields
<1> QED
  BY <1>1 DEF Stepped, dhRatchetStep, initReceiverChains, SameReplaySet

\* Neither storing nor taking skipped keys nor advancing the chain touches it.
LEMMA ChainsKeep ==
    ASSUME NEW s, IsSession(s), NEW k, NEW id
    PROVE  /\ SameReplaySet(Skip(s, k), s)
           /\ SameReplaySet(UseChain(s), s)
           /\ SameReplaySet(TakeSkipped(s, id), s)
<1>1. SameReplaySet(Skip(s, k), s)
  BY DEF Skip, SameReplaySet, IsSession, Fields
<1>2. SameReplaySet(UseChain(s), s)
  BY DEF UseChain, SameReplaySet, IsSession, Fields
<1>3. SameReplaySet(TakeSkipped(s, id), s)
  BY DEF TakeSkipped, SameReplaySet, IsSession, Fields
<1> QED
  BY <1>1, <1>2, <1>3

\* open() adds its entry exactly when it succeeds.
LEMMA OpenAdds ==
    ASSUME NEW s, IsSession(s), NEW key, NEW body, NEW id
    PROVE  LET done == Open(s, key, body, id) IN
           /\ IsSession(done.s)
           /\ s.decrypted \subseteq done.s.decrypted
           /\ done.result = "opened" => id \in done.s.decrypted
BY DEF Open, IsSession, Fields

\* decrypt() opens only what the replay set did not hold, and then holds it.
LEMMA DecryptOnce ==
    ASSUME NEW p, NEW s, IsSession(s), NEW body
    PROVE  LET done == decrypt(p, s, body) IN
           /\ IsSession(done.s)
           /\ s.decrypted \subseteq done.s.decrypted
           /\ done.result = "opened" => /\ ReplayKey(body) \in done.s.decrypted
                                        /\ ReplayKey(body) \notin s.decrypted
<1> DEFINE t == Stepped(p, s, body)
<1> DEFINE id == <<body.number, t.their>>
<1> DEFINE done == decrypt(p, s, body)
<1>1. SameReplaySet(t, s) /\ id = ReplayKey(body)
  BY SteppedKeeps DEF ReplayKey
<1>2. IsSession(t) /\ t.decrypted = s.decrypted
  BY <1>1 DEF SameReplaySet
<1> HIDE DEF t
<1>3. CASE id \in t.decrypted
  <2>1. done = [s |-> t, result |-> "replay"]
    BY <1>3 DEF decrypt, t
  <2> QED
    BY <1>2, <2>1
<1>4. ASSUME NEW u, SameReplaySet(u, t), NEW key, id \notin t.decrypted,
             done = Open(u, key, body, id)
      PROVE  /\ IsSession(done.s)
             /\ s.decrypted \subseteq done.s.decrypted
             /\ done.result = "opened" => /\ ReplayKey(body) \in done.s.decrypted
                                          /\ ReplayKey(body) \notin s.decrypted
  <2>1. IsSession(u) /\ u.decrypted = s.decrypted
    BY <1>2, <1>4 DEF SameReplaySet
  <2> HIDE DEF done, id
  <2> QED
    BY <1>1, <1>2, <1>4, <2>1, OpenAdds
<1>5. CASE id \notin t.decrypted /\ id \in DOMAIN t.skipped
  <2>1. done = Open(TakeSkipped(t, id), t.skipped[id], body, id)
    BY <1>5 DEF decrypt, t
  <2>2. SameReplaySet(TakeSkipped(t, id), t)
    BY <1>2, ChainsKeep
  <2> QED
    BY <1>4, <1>5, <2>1, <2>2
<1>6. CASE id \notin t.decrypted /\ id \notin DOMAIN t.skipped
  <2> DEFINE gap == IF t.receiveCount < body.number
                    THEN body.number - t.receiveCount ELSE 0
  <2> DEFINE full == {k \in 1 .. gap : TooMany(t, k)}
  <2> DEFINE first == CHOOSE k \in full : \A j \in full : k <= j
  <2>1. done = IF t.receiving = NoChain THEN [s |-> t, result |-> "no_chain"]
               ELSE IF full # {} THEN [s |-> Skip(t, first), result |-> "limit"]
               ELSE Open(UseChain(Skip(t, gap)), Skip(t, gap).receiving, body, id)
    BY <1>6, Zenon DEF decrypt, FromChain, t
  <2>0. decrypt(p, s, body) = done
    OBVIOUS
  <2> HIDE DEF gap, full, first, done, id
  <2>2. SameReplaySet(Skip(t, first), t)
    BY <1>2, ChainsKeep
  <2>3. SameReplaySet(UseChain(Skip(t, gap)), t)
    <3>1. SameReplaySet(Skip(t, gap), t)
      BY <1>2, ChainsKeep
    <3>2. SameReplaySet(UseChain(Skip(t, gap)), Skip(t, gap))
      BY <3>1, ChainsKeep DEF SameReplaySet
    <3> QED
      BY <3>1, <3>2 DEF SameReplaySet
  <2>4. CASE done = [s |-> t, result |-> "no_chain"]
    BY <1>2, <2>0, <2>4
  <2>5. CASE done = [s |-> Skip(t, first), result |-> "limit"]
    BY <1>2, <2>0, <2>2, <2>5 DEF SameReplaySet
  <2>6. CASE done = Open(UseChain(Skip(t, gap)), Skip(t, gap).receiving, body, id)
    BY <1>4, <1>6, <2>0, <2>3, <2>6
  <2> QED
    BY <2>1, <2>4, <2>5, <2>6
<1> QED
  BY <1>3, <1>5, <1>6

-----------------------------------------------------------------------------
\* Sending and receiving, in any order, keep the replay invariant.
LEMMA ReplayStep == ReplayInv /\ [Next]_vars => ReplayInv'
<1> SUFFICES ASSUME ReplayInv, [Next]_vars PROVE ReplayInv'
  OBVIOUS
<1> USE DEF ReplayInv
<1>1. ASSUME NEW p \in Parties, encrypt(p) PROVE ReplayInv'
  <2>1. PICK t : /\ session' = [session EXCEPT ![p] = t]
                 /\ SameReplaySet(t, session[p])
    <3>1. session' = [session EXCEPT ![p] =
                        [session[p] EXCEPT !.sending = advanceChain(@),
                                           !.sendCount = @ + 1]]
      BY <1>1 DEF encrypt
    <3>2. SameReplaySet([session[p] EXCEPT !.sending = advanceChain(@),
                                           !.sendCount = @ + 1], session[p])
      BY DEF SameReplaySet, IsSession, Fields
    <3> QED
      BY <3>1, <3>2
  <2>2. opened' = opened /\ twice' = twice
    BY <1>1 DEF encrypt
  <2>3. \A q \in Parties : SameReplaySet(session'[q], session[q])
    BY <2>1 DEF SameReplaySet
  <2>4. session' = [q \in Parties |-> session'[q]]
    BY <2>1
  <2> QED
    BY <2>2, <2>3, <2>4 DEF SameReplaySet
<1>2. ASSUME NEW p \in Parties, NEW body \in sent, Deliver(p, body)
      PROVE  ReplayInv'
  <2> DEFINE done == decrypt(p, session[p], body)
  <2>1. /\ IsSession(done.s)
        /\ session[p].decrypted \subseteq done.s.decrypted
        /\ done.result = "opened" => /\ ReplayKey(body) \in done.s.decrypted
                                     /\ ReplayKey(body) \notin session[p].decrypted
    BY DecryptOnce
  <2>2. /\ session' = [session EXCEPT ![p] = done.s]
        /\ opened' = [opened EXCEPT ![p] = IF done.result = "opened"
                                           THEN opened[p] \union {body}
                                           ELSE opened[p]]
        /\ twice' = IF done.result = "opened" /\ body \in opened[p]
                    THEN twice \union {body} ELSE twice
    BY <1>2 DEF Deliver
  <2> HIDE DEF done
  <2>3. twice' = {}
    BY <2>1, <2>2
  <2>4. /\ session' = [q \in Parties |-> session'[q]]
        /\ opened' = [q \in Parties |-> opened'[q]]
    BY <2>2
  <2>5. ASSUME NEW q \in Parties
        PROVE  /\ IsSession(session'[q])
               /\ \A b \in opened'[q] : ReplayKey(b) \in session'[q].decrypted
    <3>1. CASE q # p
      BY <2>2, <3>1
    <3>2. CASE q = p
      <4>1. session'[p] = done.s
        BY <2>2
      <4>2. opened'[p] \subseteq opened[p] \union
               (IF done.result = "opened" THEN {body} ELSE {})
        BY <2>2
      <4> QED
        BY <2>1, <3>2, <4>1, <4>2
    <3> QED
      BY <3>1, <3>2
  <2> QED
    BY <2>3, <2>4, <2>5
<1>3. CASE UNCHANGED vars
  BY <1>3 DEF vars
<1> QED
  BY <1>1, <1>2, <1>3 DEF Next

\* RatchetSession.decrypt opens no body twice: not after any number of
\* repeats, ratchet steps, skipped keys or refusals, and with no limit on the
\* number of messages.
THEOREM OpenedOnceTheorem == Spec => []OpenedOnce
<1>1. Init => ReplayInv
  <2> SUFFICES ASSUME Init PROVE ReplayInv
    OBVIOUS
  <2>1. \A p \in Parties : IsSession(session[p])
    BY DEF Init, IsSession, Fields, initSender, initReceiver, NewSession
  <2>2. session = [p \in Parties |-> session[p]]
    BY DEF Init
  <2>3. opened = [p \in Parties |-> opened[p]] /\ \A p \in Parties : opened[p] = {}
    BY DEF Init
  <2> QED
    BY <2>1, <2>2, <2>3 DEF Init, ReplayInv
<1>2. ReplayInv /\ [Next]_vars => ReplayInv'
  BY ReplayStep
<1>3. ReplayInv => OpenedOnce
  BY DEF ReplayInv, OpenedOnce
<1> QED
  BY <1>1, <1>2, <1>3, PTL DEF Spec
-----------------------------------------------------------------------------
(* Types, and what each operation does to the fields of a session *)

Typed(s) ==
    /\ IsSession(s)
    /\ s.rootKey \in Seq(SUBSET Pairs)
    /\ s.sending \in ChainKeys /\ s.receiving \in ChainKeys
    /\ s.my \in Pairs /\ s.their \in Pairs \union {NoKey}
    /\ s.sendCount \in Nat /\ s.receiveCount \in Nat
    /\ s.previousSendCount \in Nat /\ s.pairs \in Nat
    /\ s.decrypted \subseteq MessageKeyIds
    /\ DOMAIN s.skipped \subseteq MessageKeyIds
    /\ \A id \in DOMAIN s.skipped : s.skipped[id] \in ChainKeys
    /\ s.receiveCount = s.receiving.n

\* t and s agree on everything that only a ratchet step changes.
SameRatchet(t, s) ==
    /\ t.rootKey = s.rootKey /\ t.sending = s.sending
    /\ t.my = s.my /\ t.their = s.their
    /\ t.sendCount = s.sendCount /\ t.previousSendCount = s.previousSendCount
    /\ t.pairs = s.pairs /\ t.receiving.root = s.receiving.root

\* The pair a party generates next.
NextPair(p, s) == <<p, FirstRatchetPair + s.pairs>>

\* It is a pair.
LEMMA NextPairType ==
    ASSUME NEW p \in Parties, NEW s, s.pairs \in Nat
    PROVE  NextPair(p, s) \in Pairs
BY DEF NextPair, Pairs, FirstRatchetPair

\* A Diffie-Hellman output of two pairs.
LEMMA PairType ==
    ASSUME NEW a \in Pairs, NEW b \in Pairs PROVE {a, b} \in SUBSET Pairs
OBVIOUS

ReceivingRoot(s, their) == Append(s.rootKey, {s.my, their})

SendingRoot(p, s, their) ==
    Append(ReceivingRoot(s, their), {NextPair(p, s), their})

\* A root key grows by two outputs, the first of which starts the receiving
\* chain and the second the sending chain.
IsRekeyed(t, p, s, their) ==
    /\ ReceivingRoot(s, their) \in Seq(SUBSET Pairs)
    /\ SendingRoot(p, s, their) \in Seq(SUBSET Pairs)
    /\ t.rootKey = SendingRoot(p, s, their)
    /\ t.receiving = [root |-> ReceivingRoot(s, their), n |-> 0]
    /\ t.sending = [root |-> SendingRoot(p, s, their), n |-> 0]
    /\ t.their = their /\ t.my = NextPair(p, s)
    /\ t.sendCount = 0 /\ t.receiveCount = 0
    /\ t.pairs = s.pairs + 1
    /\ t.skipped = s.skipped /\ t.decrypted = s.decrypted

LEMMA RekeyedFields ==
    ASSUME NEW p \in Parties, NEW s, Typed(s), NEW their \in Pairs,
           NEW previous \in Nat
    PROVE  /\ Typed(Rekeyed(p, s, their, previous))
           /\ IsRekeyed(Rekeyed(p, s, their, previous), p, s, their)
<1> DEFINE t == Rekeyed(p, s, their, previous)
           recv == ReceivingRoot(s, their)
           send == SendingRoot(p, s, their)
<1>1. /\ recv = kdfRootKey(s.rootKey, dh(s.my, their))
      /\ send = kdfRootKey(recv, dh(NextPair(p, s), their))
  BY DEF kdfRootKey, dh, ReceivingRoot, SendingRoot
<1>2. recv \in Seq(SUBSET Pairs)
  BY PairType DEF Typed, ReceivingRoot
<1>3. NextPair(p, s) \in Pairs
  BY NextPairType DEF Typed
<1>4. send \in Seq(SUBSET Pairs)
  BY <1>2, <1>3, PairType DEF SendingRoot
<1> HIDE DEF recv, send
<1>5. t = [s EXCEPT !.rootKey = send, !.receiving = ChainOf(recv),
                    !.sending = ChainOf(send), !.their = their,
                    !.my = NextPair(p, s), !.sendCount = 0, !.receiveCount = 0,
                    !.previousSendCount = previous, !.pairs = @ + 1]
  BY <1>1, Zenon DEF Rekeyed, NextPair
<1>6. IsSession(s)
  BY DEF Typed
<1>7. /\ IsSession(t)
      /\ t.rootKey = send /\ t.receiving = ChainOf(recv)
      /\ t.sending = ChainOf(send) /\ t.their = their /\ t.my = NextPair(p, s)
      /\ t.sendCount = 0 /\ t.receiveCount = 0
      /\ t.previousSendCount = previous /\ t.pairs = s.pairs + 1
      /\ t.skipped = s.skipped /\ t.decrypted = s.decrypted
  BY <1>5, <1>6 DEF IsSession, Fields
<1> HIDE DEF t
<1>8. /\ t.receiving = [root |-> recv, n |-> 0]
      /\ t.sending = [root |-> send, n |-> 0]
  BY <1>7 DEF ChainOf
<1>9. t.receiving \in ChainKeys /\ t.sending \in ChainKeys /\ t.receiving.n = 0
  BY <1>2, <1>4, <1>8 DEF ChainKeys
<1>10. Typed(t)
  BY <1>3, <1>4, <1>7, <1>9 DEF Typed
<1> QED
  BY <1>2, <1>4, <1>7, <1>8, <1>10 DEF t, recv, send, IsRekeyed

\* The session after the step that decrypt() makes first.
LEMMA SteppedFields ==
    ASSUME NEW p \in Parties, NEW s, Typed(s), NEW body, body.pub \in Pairs
    PROVE  /\ Typed(Stepped(p, s, body))
           /\ Stepped(p, s, body).their = body.pub
           /\ Stepped(p, s, body).skipped = s.skipped
           /\ Stepped(p, s, body).decrypted = s.decrypted
           /\ body.pub = s.their => Stepped(p, s, body) = s
           /\ body.pub # s.their => IsRekeyed(Stepped(p, s, body), p, s, body.pub)
<1>1. CASE body.pub = s.their
  BY <1>1 DEF Stepped
<1>2. CASE body.pub # s.their
  <2>1. PICK previous \in Nat :
           Stepped(p, s, body) = Rekeyed(p, s, body.pub, previous)
    BY <1>2 DEF Stepped, dhRatchetStep, initReceiverChains, Typed
  <2>2. /\ Typed(Rekeyed(p, s, body.pub, previous))
        /\ IsRekeyed(Rekeyed(p, s, body.pub, previous), p, s, body.pub)
    BY RekeyedFields
  <2> QED
    BY <1>2, <2>1, <2>2 DEF IsRekeyed
<1> QED
  BY <1>1, <1>2

\* The identifiers of the keys that k turns of the loop store.
SkipIds(s, k) == {<<i, s.their>> : i \in s.receiveCount .. s.receiveCount + k - 1}

\* Their keys are those the receiving chain passes over.
IsSkip(u, s, k) ==
    /\ SameRatchet(u, s) /\ u.decrypted = s.decrypted
    /\ u.receiving = [root |-> s.receiving.root, n |-> s.receiving.n + k]
    /\ u.receiveCount = s.receiveCount + k
    /\ DOMAIN u.skipped = DOMAIN s.skipped \union SkipIds(s, k)
    /\ \A id \in SkipIds(s, k) :
          u.skipped[id] = [root |-> s.receiving.root, n |-> id[1]]
    /\ \A id \in DOMAIN s.skipped \ SkipIds(s, k) :
          u.skipped[id] = s.skipped[id]

LEMMA SkipFields ==
    ASSUME NEW s, Typed(s), NEW k \in Nat
    PROVE  Typed(Skip(s, k)) /\ IsSkip(Skip(s, k), s, k)
<1> DEFINE u == Skip(s, k)
           ids == SkipIds(s, k)
           map == [id \in DOMAIN s.skipped \union ids |->
                      IF id \in ids
                      THEN [s.receiving EXCEPT !.n = @ + (id[1] - s.receiveCount)]
                      ELSE s.skipped[id]]
<1>1. u = [s EXCEPT !.skipped = map, !.receiving.n = @ + k, !.receiveCount = @ + k]
  BY DEF Skip, SkipIds
<1>2. /\ IsSession(s) /\ s.receiving \in ChainKeys /\ s.receiveCount \in Nat
      /\ s.receiveCount = s.receiving.n
  BY DEF Typed
<1>3. [s.receiving EXCEPT !.n = @ + k] =
         [root |-> s.receiving.root, n |-> s.receiving.n + k]
  BY <1>2 DEF ChainKeys
<1>4. \A id \in ids :
         [s.receiving EXCEPT !.n = @ + (id[1] - s.receiveCount)] =
            [root |-> s.receiving.root, n |-> id[1]]
  <2> SUFFICES ASSUME NEW id \in ids
               PROVE  [s.receiving EXCEPT !.n = @ + (id[1] - s.receiveCount)] =
                         [root |-> s.receiving.root, n |-> id[1]]
    OBVIOUS
  <2>1. PICK i \in s.receiveCount .. s.receiveCount + k - 1 : id = <<i, s.their>>
    BY DEF SkipIds
  <2>2. s.receiving.n + (i - s.receiveCount) = i /\ id[1] = i
    BY <1>2, <2>1
  <2> QED
    BY <1>2, <2>2 DEF ChainKeys
<1>5. /\ DOMAIN map = DOMAIN s.skipped \union ids
      /\ \A id \in ids : map[id] = [root |-> s.receiving.root, n |-> id[1]]
      /\ \A id \in DOMAIN s.skipped \ ids : map[id] = s.skipped[id]
  BY <1>4
<1>6. ids \subseteq Nat \X {s.their} /\ \A id \in ids : id[1] \in Nat
  BY <1>2 DEF SkipIds
<1>7. ids \subseteq MessageKeyIds
  BY <1>6 DEF Typed, MessageKeyIds
<1>8. \A id \in ids : map[id] \in ChainKeys
  BY <1>2, <1>5, <1>6 DEF ChainKeys
<1> HIDE DEF map, ids
<1>9. /\ IsSession(u)
      /\ u.skipped = map /\ u.receiving = [s.receiving EXCEPT !.n = @ + k]
      /\ u.receiveCount = s.receiveCount + k
      /\ u.decrypted = s.decrypted
      /\ u.rootKey = s.rootKey /\ u.sending = s.sending
      /\ u.my = s.my /\ u.their = s.their
      /\ u.sendCount = s.sendCount /\ u.previousSendCount = s.previousSendCount
      /\ u.pairs = s.pairs
  BY <1>1, <1>2 DEF IsSession, Fields
<1> HIDE DEF u
<1>10. u.receiving = [root |-> s.receiving.root, n |-> s.receiving.n + k]
  BY <1>3, <1>9
<1>11. u.receiving \in ChainKeys /\ u.receiving.n = s.receiving.n + k
        /\ u.receiving.root = s.receiving.root
  BY <1>2, <1>10 DEF ChainKeys
<1>12. \A id \in DOMAIN u.skipped : u.skipped[id] \in ChainKeys
  BY <1>5, <1>8, <1>9 DEF Typed
<1>13. DOMAIN u.skipped \subseteq MessageKeyIds
  BY <1>5, <1>7, <1>9 DEF Typed
<1>14. Typed(u)
  BY <1>2, <1>9, <1>11, <1>12, <1>13 DEF Typed
<1> QED
  BY <1>5, <1>9, <1>10, <1>11, <1>14 DEF u, ids, SameRatchet, IsSkip

\* The chain moves on by one key.
IsUse(u, s) ==
    /\ SameRatchet(u, s) /\ u.decrypted = s.decrypted
    /\ u.skipped = s.skipped
    /\ u.receiving = [root |-> s.receiving.root, n |-> s.receiving.n + 1]
    /\ u.receiveCount = s.receiveCount + 1

LEMMA UseChainFields ==
    ASSUME NEW s, Typed(s)
    PROVE  Typed(UseChain(s)) /\ IsUse(UseChain(s), s)
<1> DEFINE u == UseChain(s)
<1>1. /\ IsSession(s) /\ s.receiving \in ChainKeys /\ s.receiveCount \in Nat
      /\ s.receiveCount = s.receiving.n
  BY DEF Typed
<1>2. advanceChain(s.receiving) = [root |-> s.receiving.root, n |-> s.receiving.n + 1]
  BY <1>1 DEF ChainKeys, advanceChain
<1>3. /\ IsSession(u)
      /\ u.skipped = s.skipped /\ u.receiving = advanceChain(s.receiving)
      /\ u.receiveCount = s.receiveCount + 1
      /\ u.decrypted = s.decrypted
      /\ u.rootKey = s.rootKey /\ u.sending = s.sending
      /\ u.my = s.my /\ u.their = s.their
      /\ u.sendCount = s.sendCount /\ u.previousSendCount = s.previousSendCount
      /\ u.pairs = s.pairs
  BY <1>1 DEF UseChain, IsSession, Fields
<1> HIDE DEF u
<1>4. u.receiving \in ChainKeys /\ u.receiving.n = s.receiving.n + 1
        /\ u.receiving.root = s.receiving.root
  BY <1>1, <1>2, <1>3 DEF ChainKeys
<1>5. Typed(u)
  BY <1>1, <1>3, <1>4 DEF Typed
<1> QED
  BY <1>2, <1>3, <1>4, <1>5 DEF u, SameRatchet, IsUse

\* One key leaves the map.
IsTake(u, s, id) ==
    /\ SameRatchet(u, s) /\ u.decrypted = s.decrypted
    /\ u.receiving = s.receiving /\ u.receiveCount = s.receiveCount
    /\ DOMAIN u.skipped = DOMAIN s.skipped \ {id}
    /\ \A i \in DOMAIN s.skipped \ {id} : u.skipped[i] = s.skipped[i]

LEMMA TakeSkippedFields ==
    ASSUME NEW s, Typed(s), NEW id
    PROVE  Typed(TakeSkipped(s, id)) /\ IsTake(TakeSkipped(s, id), s, id)
<1> DEFINE u == TakeSkipped(s, id)
           map == [i \in DOMAIN s.skipped \ {id} |-> s.skipped[i]]
<1>1. IsSession(s)
  BY DEF Typed
<1>2. u = [s EXCEPT !.skipped = map]
  BY DEF TakeSkipped
<1>3. /\ DOMAIN map = DOMAIN s.skipped \ {id}
      /\ \A i \in DOMAIN s.skipped \ {id} : map[i] = s.skipped[i]
  OBVIOUS
<1> HIDE DEF map
<1>4. /\ IsSession(u)
      /\ u.skipped = map /\ u.receiving = s.receiving
      /\ u.receiveCount = s.receiveCount
      /\ u.decrypted = s.decrypted
      /\ u.rootKey = s.rootKey /\ u.sending = s.sending
      /\ u.my = s.my /\ u.their = s.their
      /\ u.sendCount = s.sendCount /\ u.previousSendCount = s.previousSendCount
      /\ u.pairs = s.pairs
  BY <1>1, <1>2 DEF IsSession, Fields
<1> HIDE DEF u
<1>5. Typed(u)
  BY <1>3, <1>4 DEF Typed
<1> QED
  BY <1>3, <1>4, <1>5 DEF u, SameRatchet, IsTake

\* open() changes the replay set only.
IsOpen(done, s, key, body, id) ==
    /\ SameRatchet(done.s, s)
    /\ done.s.receiving = s.receiving /\ done.s.receiveCount = s.receiveCount
    /\ done.s.skipped = s.skipped
    /\ IF key = body.key
       THEN done.result = "opened" /\ done.s.decrypted = s.decrypted \union {id}
       ELSE done.result = "bad_mac" /\ done.s.decrypted = s.decrypted

LEMMA OpenFields ==
    ASSUME NEW s, Typed(s), NEW key, NEW body, NEW id \in MessageKeyIds
    PROVE  /\ Typed(Open(s, key, body, id).s)
           /\ IsOpen(Open(s, key, body, id), s, key, body, id)
<1> DEFINE u == [s EXCEPT !.decrypted = @ \union {id}]
<1>1. IsSession(s)
  BY DEF Typed
<1>2. /\ IsSession(u)
      /\ u.skipped = s.skipped /\ u.receiving = s.receiving
      /\ u.receiveCount = s.receiveCount
      /\ u.decrypted = s.decrypted \union {id}
      /\ u.rootKey = s.rootKey /\ u.sending = s.sending
      /\ u.my = s.my /\ u.their = s.their
      /\ u.sendCount = s.sendCount /\ u.previousSendCount = s.previousSendCount
      /\ u.pairs = s.pairs
  BY <1>1 DEF IsSession, Fields
<1> HIDE DEF u
<1>3. Typed(u)
  BY <1>2 DEF Typed
<1>4. Open(s, key, body, id) = IF key = body.key THEN [s |-> u, result |-> "opened"]
                                                 ELSE [s |-> s, result |-> "bad_mac"]
  BY DEF Open, u
<1>5. CASE key = body.key
  BY <1>2, <1>3, <1>4, <1>5 DEF SameRatchet, IsOpen
<1>6. CASE key # body.key
  BY <1>4, <1>6 DEF SameRatchet, IsOpen
<1> QED
  BY <1>5, <1>6
-----------------------------------------------------------------------------
(* The ways decrypt() ends *)

\* open() under the given key, with the replay set of t.
Verdict(done, t, key, body) ==
    IF key = body.key
    THEN /\ done.result = "opened"
         /\ done.s.decrypted = t.decrypted \union {ReplayKey(body)}
    ELSE done.result = "bad_mac" /\ done.s.decrypted = t.decrypted

\* Refused before any key is touched: a replay, or no receiving chain.
Refused(done, t, body) ==
    /\ done.s = t
    /\ \/ done.result = "replay" /\ ReplayKey(body) \in t.decrypted
       \/ done.result = "no_chain" /\ t.receiving = NoChain

\* The key was stored when the chain passed over the message.
FromSkipped(done, t, body) ==
    /\ ReplayKey(body) \notin t.decrypted
    /\ ReplayKey(body) \in DOMAIN t.skipped
    /\ SameRatchet(done.s, t)
    /\ done.s.receiving = t.receiving /\ done.s.receiveCount = t.receiveCount
    /\ DOMAIN done.s.skipped = DOMAIN t.skipped \ {ReplayKey(body)}
    /\ \A i \in DOMAIN done.s.skipped : done.s.skipped[i] = t.skipped[i]
    /\ Verdict(done, t, t.skipped[ReplayKey(body)], body)

Fits(t, k) ==
    k = 0 \/ Cardinality(DOMAIN t.skipped \union SkipIds(t, k)) <= MaxSkippedKeys

\* The loop stopped in turn k.
Limited(done, t, body, k) ==
    /\ ReplayKey(body) \notin t.decrypted
    /\ ReplayKey(body) \notin DOMAIN t.skipped
    /\ t.receiving # NoChain
    /\ t.receiveCount + k <= body.number
    /\ Fits(t, k - 1)
    /\ IsSkip(done.s, t, k)
    /\ done.result = "limit"

\* The chain was advanced past k messages and its next key was used.
FromCurrent(done, t, body, k) ==
    /\ ReplayKey(body) \notin t.decrypted
    /\ ReplayKey(body) \notin DOMAIN t.skipped
    /\ t.receiving # NoChain
    /\ k = IF t.receiveCount < body.number THEN body.number - t.receiveCount ELSE 0
    /\ Fits(t, k)
    /\ SameRatchet(done.s, t)
    /\ done.s.receiving = [root |-> t.receiving.root, n |-> t.receiving.n + k + 1]
    /\ done.s.receiveCount = t.receiveCount + k + 1
    /\ DOMAIN done.s.skipped = DOMAIN t.skipped \union SkipIds(t, k)
    /\ \A id \in SkipIds(t, k) :
          done.s.skipped[id] = [root |-> t.receiving.root, n |-> id[1]]
    /\ \A id \in DOMAIN t.skipped \ SkipIds(t, k) :
          done.s.skipped[id] = t.skipped[id]
    /\ Verdict(done, t, [root |-> t.receiving.root, n |-> t.receiving.n + k], body)

\* A set of numbers that is not empty has a least element.
LEMMA LeastNumber ==
    ASSUME NEW T \in SUBSET Nat, T # {}
    PROVE  \E x \in T : \A y \in T : x <= y
<1>1. PICK x \in T : \A y \in T : ~(<<y, x>> \in OpToRel(<, Nat))
  BY NatLessThanWellFounded, WFMin, Zenon
<1>2. ASSUME NEW y \in T PROVE x <= y
  <2>1. ~(y < x)
    BY <1>1, Zenon DEF OpToRel
  <2> QED
    BY <2>1
<1> QED
  BY <1>2

\* The loop stores finitely many keys.
LEMMA SkipIdsFinite ==
    ASSUME NEW s, s.receiveCount \in Nat, NEW k \in Nat
    PROVE  IsFiniteSet(SkipIds(s, k))
<1> DEFINE turns == s.receiveCount .. s.receiveCount + k - 1
           f == [i \in turns |-> <<i, s.their>>]
<1>1. IsFiniteSet(turns)
  BY FS_Interval
<1>2. f \in Surjection(turns, SkipIds(s, k))
  BY DEF Surjection, SkipIds
<1> QED
  BY <1>1, <1>2, FS_Surjection

\* What the limit on the loop says of the map.
LEMMA TooManyMeans ==
    ASSUME NEW s, Typed(s), NEW k \in Nat \ {0}
    PROVE  TooMany(s, k) <=>
             Cardinality(DOMAIN s.skipped \union SkipIds(s, k)) > MaxSkippedKeys
<1>1. DOMAIN Skip(s, k).skipped = DOMAIN s.skipped \union SkipIds(s, k)
  BY SkipFields DEF IsSkip
<1>2. k > 0
  OBVIOUS
<1> QED
  BY <1>1, <1>2 DEF TooMany

\* decrypt() ends in one of these ways, after its ratchet step; the map holds
\* finitely many keys.
LEMMA DecryptCases ==
    ASSUME NEW p \in Parties, NEW s, Typed(s), IsFiniteSet(DOMAIN s.skipped),
           NEW body, body.pub \in Pairs, body.number \in Nat
    PROVE  LET t == Stepped(p, s, body)
               done == decrypt(p, s, body)
           IN  /\ Typed(done.s)
               /\ \/ Refused(done, t, body)
                  \/ FromSkipped(done, t, body)
                  \/ \E k \in Nat \ {0} : Limited(done, t, body, k)
                  \/ \E k \in Nat : FromCurrent(done, t, body, k)
<1> DEFINE t == Stepped(p, s, body)
           done == decrypt(p, s, body)
           id == ReplayKey(body)
<1>1. Typed(t) /\ t.their = body.pub /\ t.skipped = s.skipped
  BY SteppedFields
<1>2. id = <<body.number, t.their>> /\ id \in MessageKeyIds
  BY <1>1 DEF ReplayKey, MessageKeyIds
<1> HIDE DEF t
<1>3. CASE id \in t.decrypted
  <2>1. done = [s |-> t, result |-> "replay"]
    BY <1>2, <1>3, Zenon DEF decrypt, t
  <2>2. Typed(done.s) /\ Refused(done, t, body)
    BY <1>1, <1>3, <2>1 DEF Refused
  <2> QED
    BY <2>2 DEF t
<1>4. CASE id \notin t.decrypted /\ id \in DOMAIN t.skipped
  <2> DEFINE u == TakeSkipped(t, id)
  <2>1. done = Open(u, t.skipped[id], body, id)
    BY <1>2, <1>4, Zenon DEF decrypt, t
  <2>2. Typed(u) /\ IsTake(u, t, id)
    BY <1>1, TakeSkippedFields
  <2> HIDE DEF u, done, id
  <2>3. Typed(done.s) /\ IsOpen(done, u, t.skipped[id], body, id)
    BY <1>2, <2>1, <2>2, OpenFields
  <2>4. FromSkipped(done, t, body)
    BY <1>4, <2>2, <2>3
       DEF FromSkipped, IsTake, IsOpen, SameRatchet, Verdict, id
  <2> QED
    BY <2>3, <2>4 DEF t, done
<1>5. CASE id \notin t.decrypted /\ id \notin DOMAIN t.skipped
  <2> DEFINE gap == IF t.receiveCount < body.number
                    THEN body.number - t.receiveCount ELSE 0
             full == {k \in 1 .. gap : TooMany(t, k)}
             first == CHOOSE k \in full : \A j \in full : k <= j
  <2>1. done = IF t.receiving = NoChain THEN [s |-> t, result |-> "no_chain"]
               ELSE IF full # {} THEN [s |-> Skip(t, first), result |-> "limit"]
               ELSE Open(UseChain(Skip(t, gap)), Skip(t, gap).receiving, body, id)
    BY <1>2, <1>5, Zenon DEF decrypt, FromChain, t
  <2>2. t.receiveCount \in Nat /\ gap \in Nat
    BY <1>1 DEF Typed
  <2>3. full \in SUBSET Nat
    BY <2>2
  <2>4. \A k \in 1 .. gap : k \notin full => Fits(t, k)
    <3> SUFFICES ASSUME NEW k \in 1 .. gap, ~TooMany(t, k) PROVE Fits(t, k)
      OBVIOUS
    <3>1. k \in Nat \ {0}
      BY <2>2
    <3>2. ~(Cardinality(DOMAIN t.skipped \union SkipIds(t, k)) > MaxSkippedKeys)
      BY <1>1, <3>1, TooManyMeans
    <3>3. IsFiniteSet(SkipIds(t, k))
      BY <2>2, SkipIdsFinite
    <3>4. IsFiniteSet(DOMAIN t.skipped \union SkipIds(t, k))
      BY <1>1, <3>3, FS_Union
    <3>5. Cardinality(DOMAIN t.skipped \union SkipIds(t, k)) \in Nat
      BY <3>4, FS_CardinalityType
    <3> QED
      BY <3>2, <3>5, RatchetAssumption DEF Fits
  <2>5. CASE t.receiving = NoChain
    <3>1. done = [s |-> t, result |-> "no_chain"]
      BY <2>1, <2>5
    <3>2. Typed(done.s) /\ Refused(done, t, body)
      BY <1>1, <2>5, <3>1 DEF Refused
    <3> QED
      BY <3>2 DEF t
  <2>6. CASE t.receiving # NoChain /\ full # {}
    <3>1. done = [s |-> Skip(t, first), result |-> "limit"]
      BY <2>1, <2>6
    <3>2. first \in full /\ \A j \in full : first <= j
      <4>1. \E k \in full : \A j \in full : k <= j
        <5> HIDE DEF full
        <5> QED
          BY <2>3, <2>6, LeastNumber
      <4> QED
        BY <4>1, Zenon
    <3>3. first \in 1 .. gap
      BY <3>2
    <3> HIDE DEF first, full
    <3>4. first \in Nat \ {0} /\ t.receiveCount + first <= body.number
      BY <2>2, <3>3
    <3>5. Fits(t, first - 1)
      <4>1. CASE first = 1
        BY <4>1 DEF Fits
      <4>2. CASE first # 1
        <5>1. first - 1 \in 1 .. gap /\ ~(first <= first - 1)
          BY <2>2, <3>3, <4>2
        <5> QED
          BY <2>4, <3>2, <5>1
      <4> QED
        BY <4>1, <4>2
    <3>6. Typed(Skip(t, first)) /\ IsSkip(Skip(t, first), t, first)
      BY <1>1, <3>4, SkipFields
    <3> HIDE DEF done, gap
    <3>7. done.s = Skip(t, first) /\ done.result = "limit"
      BY <3>1
    <3>8. Typed(done.s) /\ Limited(done, t, body, first)
      BY <1>5, <2>6, <3>4, <3>5, <3>6, <3>7 DEF Limited
    <3> QED
      BY <3>4, <3>8 DEF t, done
  <2>7. CASE t.receiving # NoChain /\ full = {}
    <3> DEFINE v == Skip(t, gap)
               u == UseChain(v)
    <3>1. done = Open(u, v.receiving, body, id)
      BY <2>1, <2>7
    <3>2. Fits(t, gap)
      <4>1. CASE gap = 0
        BY <4>1 DEF Fits
      <4>2. CASE gap # 0
        <5>1. gap \in 1 .. gap
          BY <2>2, <4>2
        <5> QED
          BY <2>4, <2>7, <5>1
      <4> QED
        BY <4>1, <4>2
    <3>0. gap = IF t.receiveCount < body.number
                THEN body.number - t.receiveCount ELSE 0
      OBVIOUS
    <3> HIDE DEF gap, full
    <3>3. Typed(v) /\ IsSkip(v, t, gap)
      BY <1>1, <2>2, SkipFields
    <3> HIDE DEF v
    <3>4. Typed(u) /\ IsUse(u, v)
      BY <3>3, UseChainFields
    <3> HIDE DEF u, done, id
    <3>5. Typed(done.s) /\ IsOpen(done, u, v.receiving, body, id)
      BY <1>2, <3>1, <3>4, OpenFields
    <3>6. v.receiving = [root |-> t.receiving.root, n |-> t.receiving.n + gap]
      BY <3>3 DEF IsSkip
    <3>7. /\ u.receiving = [root |-> t.receiving.root, n |-> t.receiving.n + gap + 1]
          /\ u.receiveCount = t.receiveCount + gap + 1
      BY <3>3, <3>4, <3>6 DEF IsUse, IsSkip
    <3>8. SameRatchet(done.s, t)
      BY <3>3, <3>4, <3>5 DEF IsSkip, IsUse, IsOpen, SameRatchet
    <3>9. /\ done.s.receiving = [root |-> t.receiving.root,
                                 n |-> t.receiving.n + gap + 1]
          /\ done.s.receiveCount = t.receiveCount + gap + 1
          /\ done.s.skipped = v.skipped
      BY <3>4, <3>5, <3>7 DEF IsOpen, IsUse
    <3>10. Verdict(done, t, [root |-> t.receiving.root, n |-> t.receiving.n + gap],
                   body)
      BY <3>3, <3>4, <3>5, <3>6 DEF IsOpen, IsUse, IsSkip, Verdict, id
    <3>11. FromCurrent(done, t, body, gap)
      <4>1. ReplayKey(body) \notin t.decrypted /\ ReplayKey(body) \notin DOMAIN t.skipped
        BY <1>5 DEF id
      <4> QED
        BY <2>7, <3>0, <3>2, <3>3, <3>8, <3>9, <3>10, <4>1 DEF FromCurrent, IsSkip
    <3> QED
      BY <2>2, <3>5, <3>11 DEF t, done
  <2> QED
    BY <2>5, <2>6, <2>7
<1> QED
  BY <1>3, <1>4, <1>5
-----------------------------------------------------------------------------
(* Types of the specification *)

TypeInv ==
    /\ session = [p \in Parties |-> session[p]]
    /\ \A p \in Parties : Typed(session[p])
    /\ \A p \in Parties : IsFiniteSet(DOMAIN session[p].skipped)
    /\ sent \subseteq Bodies /\ IsFiniteSet(sent)
    /\ opened \in [Parties -> SUBSET sent]
    /\ newest \in [Parties -> Nat]
    /\ late \in BOOLEAN
    /\ overflows \in [Parties -> Nat]

\* There are two parties, each the peer of the other.
LEMMA PeerType ==
    ASSUME NEW p \in Parties
    PROVE  /\ Peer(p) \in Parties /\ Peer(p) # p
           /\ \A q \in Parties : q = p \/ q = Peer(p)
<1>1. \E q \in Parties : q # p
  BY DEF Parties
<1>2. Peer(p) \in Parties /\ Peer(p) # p
  BY <1>1, Zenon DEF Peer
<1> QED
  BY <1>2 DEF Parties

\* What encrypt() makes of a session: the sending chain moves on.
IsSealed(u, s) ==
    /\ u.sending = [root |-> s.sending.root, n |-> s.sending.n + 1]
    /\ u.sendCount = s.sendCount + 1
    /\ u.rootKey = s.rootKey /\ u.receiving = s.receiving
    /\ u.my = s.my /\ u.their = s.their
    /\ u.receiveCount = s.receiveCount /\ u.pairs = s.pairs
    /\ u.skipped = s.skipped /\ u.decrypted = s.decrypted

\* The body encrypt() hands to the network.
Sealed(p) ==
    [id |-> Cardinality(sent), from |-> p, number |-> session[p].sendCount,
     previous |-> session[p].previousSendCount, pub |-> session[p].my,
     key |-> session[p].sending]

LEMMA EncryptFields ==
    ASSUME TypeInv, NEW p \in Parties, encrypt(p)
    PROVE  /\ Typed(session'[p]) /\ IsSealed(session'[p], session[p])
           /\ \A q \in Parties \ {p} : session'[q] = session[q]
           /\ session' = [q \in Parties |-> session'[q]]
           /\ sent' = sent \union {Sealed(p)} /\ Sealed(p) \in Bodies
           /\ session[p].sending # NoChain
           /\ UNCHANGED <<opened, twice, newest, late, overflows>>
<1> DEFINE s == session[p]
           u == [s EXCEPT !.sending = advanceChain(@), !.sendCount = @ + 1]
<1>1. Typed(s) /\ session = [q \in Parties |-> session[q]]
  BY DEF TypeInv
<1>2. session' = [session EXCEPT ![p] = u]
  BY DEF encrypt
<1>3. session'[p] = u /\ \A q \in Parties \ {p} : session'[q] = session[q]
  BY <1>1, <1>2
<1>4. session' = [q \in Parties |-> session'[q]]
  BY <1>1, <1>2
<1>5. IsSession(s) /\ s.sending \in ChainKeys /\ s.sendCount \in Nat
  BY <1>1 DEF Typed
<1>6. /\ IsSession(u)
      /\ u.sending = advanceChain(s.sending) /\ u.sendCount = s.sendCount + 1
      /\ u.skipped = s.skipped /\ u.receiving = s.receiving
      /\ u.receiveCount = s.receiveCount /\ u.decrypted = s.decrypted
      /\ u.rootKey = s.rootKey /\ u.my = s.my /\ u.their = s.their
      /\ u.previousSendCount = s.previousSendCount /\ u.pairs = s.pairs
  BY <1>5 DEF IsSession, Fields
<1>7. advanceChain(s.sending) = [root |-> s.sending.root, n |-> s.sending.n + 1]
  BY <1>5 DEF advanceChain, ChainKeys
<1> HIDE DEF u
<1>8. u.sending \in ChainKeys
  BY <1>5, <1>6, <1>7 DEF ChainKeys
<1>9. Typed(u)
  BY <1>1, <1>5, <1>6, <1>8 DEF Typed
<1>10. IsSealed(u, s)
  BY <1>6, <1>7 DEF IsSealed
<1>11. Sealed(p) \in Bodies
  <2>1. Cardinality(sent) \in Nat
    BY FS_CardinalityType DEF TypeInv
  <2> QED
    BY <1>1, <2>1 DEF Sealed, Bodies, Typed
<1>12. /\ sent' = sent \union {Sealed(p)} /\ session[p].sending # NoChain
       /\ UNCHANGED <<opened, twice, newest, late, overflows>>
  BY DEF encrypt, Sealed
<1> QED
  BY <1>3, <1>4, <1>9, <1>10, <1>11, <1>12

\* What Deliver makes of the state.
LEMMA DeliverFields ==
    ASSUME TypeInv, NEW p \in Parties, NEW body \in sent, Deliver(p, body)
    PROVE  LET t == Stepped(p, session[p], body)
               done == decrypt(p, session[p], body)
           IN  /\ session'[p] = done.s /\ Typed(done.s) /\ Typed(t)
               /\ \A q \in Parties \ {p} : session'[q] = session[q]
               /\ session' = [q \in Parties |-> session'[q]]
               /\ body \in Bodies /\ body.pub \in Pairs /\ body.number \in Nat
               /\ body.from = Peer(p) /\ sent' = sent
               /\ opened'[p] = IF done.result = "opened"
                               THEN opened[p] \union {body} ELSE opened[p]
               /\ \A q \in Parties \ {p} : opened'[q] = opened[q]
               /\ overflows'[p] = IF done.result = "limit"
                                  THEN overflows[p] + 1 ELSE overflows[p]
               /\ \A q \in Parties \ {p} : overflows'[q] = overflows[q]
               /\ \/ Refused(done, t, body)
                  \/ FromSkipped(done, t, body)
                  \/ \E k \in Nat \ {0} : Limited(done, t, body, k)
                  \/ \E k \in Nat : FromCurrent(done, t, body, k)
<1> DEFINE t == Stepped(p, session[p], body)
           done == decrypt(p, session[p], body)
<1>1. /\ Typed(session[p]) /\ session = [q \in Parties |-> session[q]]
      /\ IsFiniteSet(DOMAIN session[p].skipped)
      /\ opened \in [Parties -> SUBSET sent] /\ overflows \in [Parties -> Nat]
  BY DEF TypeInv
<1>2. body \in Bodies /\ body.pub \in Pairs /\ body.number \in Nat
  BY DEF TypeInv, Bodies
<1>3. Typed(t)
  BY <1>1, <1>2, SteppedFields
<1>4. /\ Typed(done.s)
      /\ \/ Refused(done, t, body)
         \/ FromSkipped(done, t, body)
         \/ \E k \in Nat \ {0} : Limited(done, t, body, k)
         \/ \E k \in Nat : FromCurrent(done, t, body, k)
  BY <1>1, <1>2, DecryptCases
<1>5. /\ session' = [session EXCEPT ![p] = done.s]
      /\ opened' = [opened EXCEPT ![p] = IF done.result = "opened"
                                         THEN @ \union {body} ELSE @]
      /\ overflows' = [overflows EXCEPT ![p] = IF done.result = "limit"
                                               THEN @ + 1 ELSE @]
      /\ body.from = Peer(p) /\ sent' = sent
  BY DEF Deliver
<1> HIDE DEF t, done
<1>6. /\ session'[p] = done.s /\ \A q \in Parties \ {p} : session'[q] = session[q]
      /\ session' = [q \in Parties |-> session'[q]]
  BY <1>1, <1>5
<1>7. /\ opened'[p] = IF done.result = "opened"
                      THEN opened[p] \union {body} ELSE opened[p]
      /\ \A q \in Parties \ {p} : opened'[q] = opened[q]
  BY <1>1, <1>5
<1>8. /\ overflows'[p] = IF done.result = "limit"
                         THEN overflows[p] + 1 ELSE overflows[p]
      /\ \A q \in Parties \ {p} : overflows'[q] = overflows[q]
  BY <1>1, <1>5
<1> QED
  BY <1>2, <1>3, <1>4, <1>5, <1>6, <1>7, <1>8 DEF t, done

\* The map of skipped keys stays finite.
LEMMA SkippedFinite ==
    ASSUME TypeInv, NEW p \in Parties, NEW body \in sent, Deliver(p, body)
    PROVE  IsFiniteSet(DOMAIN session'[p].skipped)
<1> DEFINE t == Stepped(p, session[p], body)
           done == decrypt(p, session[p], body)
<1>1. /\ session'[p] = done.s /\ Typed(t) /\ body.pub \in Pairs
      /\ \/ Refused(done, t, body)
         \/ FromSkipped(done, t, body)
         \/ \E k \in Nat \ {0} : Limited(done, t, body, k)
         \/ \E k \in Nat : FromCurrent(done, t, body, k)
  BY DeliverFields
<1>2. t.skipped = session[p].skipped
  BY <1>1, SteppedFields DEF TypeInv
<1> HIDE DEF t, done
<1>3. IsFiniteSet(DOMAIN t.skipped) /\ t.receiveCount \in Nat
  BY <1>1, <1>2 DEF TypeInv, Typed
<1>4. \A k \in Nat : IsFiniteSet(DOMAIN t.skipped \union SkipIds(t, k))
  BY <1>3, SkipIdsFinite, FS_Union
<1>5. CASE Refused(done, t, body)
  BY <1>1, <1>3, <1>5 DEF Refused
<1>6. CASE FromSkipped(done, t, body)
  <2>1. DOMAIN done.s.skipped \subseteq DOMAIN t.skipped
    BY <1>6 DEF FromSkipped
  <2> QED
    BY <1>1, <1>3, <2>1, FS_Subset
<1>7. ASSUME NEW k \in Nat, Limited(done, t, body, k) \/ FromCurrent(done, t, body, k)
      PROVE  IsFiniteSet(DOMAIN session'[p].skipped)
  <2>1. DOMAIN done.s.skipped = DOMAIN t.skipped \union SkipIds(t, k)
    BY <1>7 DEF Limited, FromCurrent, IsSkip
  <2> QED
    BY <1>1, <1>4, <2>1
<1> QED
  BY <1>1, <1>5, <1>6, <1>7

\* The secret that both sides of X3DH compute.
Secret == x3dhSender("alice", "bob", WithOneTimeKey)

\* The receiver of the X3DH message computes the sender's secret.
LEMMA SameSecret ==
    /\ x3dhReceiver("bob", "alice", WithOneTimeKey) = Secret
    /\ Secret \in Seq(SUBSET Pairs)
<1>1. \A a, b : dh(a, b) = dh(b, a)
  BY DEF dh
<1>2. x3dhReceiver("bob", "alice", WithOneTimeKey) = Secret
  BY <1>1 DEF x3dhReceiver, x3dhSender, Secret
<1>3. \A p \in Parties : /\ Identity(p) \in Pairs /\ SignedPreKey(p) \in Pairs
                         /\ OneTimePreKey(p) \in Pairs /\ Ephemeral(p) \in Pairs
  BY DEF Identity, SignedPreKey, OneTimePreKey, Ephemeral, Pairs
<1>4. \A a, b \in Pairs : dh(a, b) \in SUBSET Pairs
  BY DEF dh
<1>5. "alice" \in Parties /\ "bob" \in Parties
  BY DEF Parties
<1> DEFINE a == <<dh(Identity("alice"), SignedPreKey("bob")),
                  dh(Ephemeral("alice"), Identity("bob")),
                  dh(Ephemeral("alice"), SignedPreKey("bob"))>>
           b == <<dh(Ephemeral("alice"), OneTimePreKey("bob"))>>
<1>6. a \in Seq(SUBSET Pairs) /\ b \in Seq(SUBSET Pairs) /\ <<>> \in Seq(SUBSET Pairs)
  BY <1>3, <1>4, <1>5
<1>7. Secret = a \o IF WithOneTimeKey THEN b ELSE <<>>
  BY DEF Secret, x3dhSender
<1> HIDE DEF a, b
<1>8. Secret \in Seq(SUBSET Pairs)
  BY <1>6, <1>7
<1> QED
  BY <1>2, <1>8

\* The constructor sets every field.
LEMMA NewSessionFields ==
    ASSUME NEW root, NEW pair, NEW their, NEW sending, NEW pairs, NEW a,
           a = NewSession(root, pair, their, sending, pairs)
    PROVE  /\ IsSession(a) /\ a.rootKey = root /\ a.sending = sending
           /\ a.receiving = NoChain /\ a.my = pair /\ a.their = their
           /\ a.sendCount = 0 /\ a.receiveCount = 0 /\ a.previousSendCount = 0
           /\ a.skipped = <<>> /\ a.decrypted = {} /\ a.pairs = pairs
BY DEF NewSession, IsSession, Fields

\* What establishSessions leaves on both sides.
LEMMA InitFields ==
    ASSUME Init
    PROVE  LET a == session["alice"]
               b == session["bob"]
               root == Append(Secret, {<<"alice", FirstRatchetPair>>, SignedPreKey("bob")})
           IN  /\ Typed(a) /\ Typed(b)
               /\ session = [p \in Parties |-> session[p]]
               /\ a.rootKey = root /\ a.sending = [root |-> root, n |-> 0]
               /\ a.receiving = NoChain /\ a.my = <<"alice", FirstRatchetPair>>
               /\ a.their = SignedPreKey("bob") /\ a.pairs = 1 /\ a.sendCount = 0
               /\ b.rootKey = Secret /\ b.sending = NoChain /\ b.receiving = NoChain
               /\ b.my = SignedPreKey("bob") /\ b.their = NoKey /\ b.pairs = 0
               /\ \A p \in Parties : /\ DOMAIN session[p].skipped = {}
                                     /\ session[p].decrypted = {}
                                     /\ session[p].receiveCount = 0
<1> DEFINE a == session["alice"]
           b == session["bob"]
           mine == <<"alice", FirstRatchetPair>>
           root == Append(Secret, {mine, SignedPreKey("bob")})
<1>1. Secret \in Seq(SUBSET Pairs)
  BY SameSecret
<1>2. mine \in Pairs /\ SignedPreKey("bob") \in Pairs
  BY DEF Pairs, Parties, FirstRatchetPair, SignedPreKey
<1>3. {mine, SignedPreKey("bob")} \in SUBSET Pairs
  BY <1>2
<1>4. root \in Seq(SUBSET Pairs)
  BY <1>1, <1>3
<1>5. a = NewSession(root, mine, SignedPreKey("bob"), ChainOf(root), 1)
  BY DEF Init, Parties, initSender, kdfRootKey, dh, Secret
<1>6. b = NewSession(Secret, SignedPreKey("bob"), NoKey, NoChain, 0)
  BY SameSecret DEF Init, Parties, initReceiver
<1> HIDE DEF root, mine
<1>7. /\ NoChain \in ChainKeys /\ NoChain.n = 0
      /\ ChainOf(root) = [root |-> root, n |-> 0] /\ ChainOf(root) \in ChainKeys
  BY <1>4 DEF NoChain, ChainKeys, ChainOf
<1>8. DOMAIN <<>> = {}
  OBVIOUS
<1>9. /\ IsSession(a) /\ a.rootKey = root /\ a.sending = ChainOf(root)
      /\ a.receiving = NoChain /\ a.my = mine /\ a.their = SignedPreKey("bob")
      /\ a.sendCount = 0 /\ a.receiveCount = 0 /\ a.previousSendCount = 0
      /\ a.skipped = <<>> /\ a.decrypted = {} /\ a.pairs = 1
  BY <1>5, NewSessionFields
<1>10. /\ IsSession(b) /\ b.rootKey = Secret /\ b.sending = NoChain
       /\ b.receiving = NoChain /\ b.my = SignedPreKey("bob") /\ b.their = NoKey
       /\ b.sendCount = 0 /\ b.receiveCount = 0 /\ b.previousSendCount = 0
       /\ b.skipped = <<>> /\ b.decrypted = {} /\ b.pairs = 0
  BY <1>6, NewSessionFields
<1> HIDE DEF a, b
<1>11. Typed(a)
  BY <1>2, <1>4, <1>7, <1>8, <1>9 DEF Typed
<1>12. Typed(b)
  BY <1>1, <1>2, <1>7, <1>8, <1>10 DEF Typed
<1>13. session = [p \in Parties |-> session[p]]
  BY DEF Init
<1>14. \A p \in Parties : /\ DOMAIN session[p].skipped = {}
                          /\ session[p].decrypted = {}
                          /\ session[p].receiveCount = 0
  BY <1>8, <1>9, <1>10 DEF Parties, a, b
<1> QED
  BY <1>7, <1>9, <1>10, <1>11, <1>12, <1>13, <1>14 DEF a, b, root, mine

\* establishSessions leaves both sessions well formed.
LEMMA InitTyped == Init => TypeInv
<1> SUFFICES ASSUME Init PROVE TypeInv
  OBVIOUS
<1>1. /\ session = [p \in Parties |-> session[p]]
      /\ \A p \in Parties : Typed(session[p]) /\ DOMAIN session[p].skipped = {}
  BY InitFields DEF Parties
<1>2. IsFiniteSet({})
  BY FS_EmptySet
<1> QED
  BY <1>1, <1>2 DEF Init, TypeInv

\* Every step preserves the types.
LEMMA NextTyped == TypeInv /\ [Next]_vars => TypeInv'
<1> SUFFICES ASSUME TypeInv, [Next]_vars PROVE TypeInv'
  OBVIOUS
<1>1. ASSUME NEW p \in Parties, encrypt(p) PROVE TypeInv'
  <2>1. /\ Typed(session'[p]) /\ session'[p].skipped = session[p].skipped
        /\ \A q \in Parties \ {p} : session'[q] = session[q]
        /\ session' = [q \in Parties |-> session'[q]]
        /\ sent' = sent \union {Sealed(p)} /\ Sealed(p) \in Bodies
        /\ UNCHANGED <<opened, newest, late, overflows>>
    BY <1>1, EncryptFields DEF IsSealed
  <2>2. IsFiniteSet(sent')
    BY <2>1, FS_AddElement DEF TypeInv
  <2>3. \A q \in Parties : Typed(session'[q]) /\ IsFiniteSet(DOMAIN session'[q].skipped)
    BY <2>1 DEF TypeInv
  <2>4. sent' \subseteq Bodies /\ opened' \in [Parties -> SUBSET sent']
    BY <2>1 DEF TypeInv
  <2> QED
    BY <2>1, <2>2, <2>3, <2>4 DEF TypeInv
<1>2. ASSUME NEW p \in Parties, NEW body \in sent, Deliver(p, body) PROVE TypeInv'
  <2>1. /\ Typed(session'[p]) /\ IsFiniteSet(DOMAIN session'[p].skipped)
        /\ \A q \in Parties \ {p} : session'[q] = session[q]
        /\ session' = [q \in Parties |-> session'[q]]
        /\ body.pub \in Pairs /\ sent' = sent
    BY <1>2, DeliverFields, SkippedFinite
  <2>2. \A q \in Parties : Typed(session'[q]) /\ IsFiniteSet(DOMAIN session'[q].skipped)
    BY <2>1 DEF TypeInv
  <2>3. body.pub[2] \in Nat
    BY <2>1 DEF Pairs
  <2>4. opened' \in [Parties -> SUBSET sent]
    BY <1>2 DEF Deliver, TypeInv
  <2>5. newest' \in [Parties -> Nat] /\ overflows' \in [Parties -> Nat]
    BY <1>2, <2>3 DEF Deliver, TypeInv
  <2>6. late' \in BOOLEAN
    BY <1>2 DEF Deliver, TypeInv
  <2> QED
    BY <2>1, <2>2, <2>4, <2>5, <2>6 DEF TypeInv
<1>3. CASE UNCHANGED vars
  BY <1>3 DEF vars, TypeInv
<1> QED
  BY <1>1, <1>2, <1>3 DEF Next

\* The types hold in every reachable state.
LEMMA RatchetTypeInvariant == Spec => []TypeInv
BY InitTyped, NextTyped, PTL DEF Spec

\* Every field of both sessions has the type RatchetSession declares, and the
\* receive counter is the position of the receiving chain, through any number
\* of ratchet steps, skipped keys and refused bodies.
THEOREM RatchetTypes == Spec => []TypeOK
<1>1. TypeInv => TypeOK
  BY DEF TypeInv, Typed, TypeOK
<1> QED
  BY <1>1, RatchetTypeInvariant, PTL
-----------------------------------------------------------------------------
(* The number of skipped keys *)

\* One more turn of the loop stores at most one more key.
LEMMA OneMoreId ==
    ASSUME NEW s, s.receiveCount \in Nat, NEW k \in Nat \ {0}
    PROVE  /\ SkipIds(s, k) = SkipIds(s, k - 1) \union
                              {<<s.receiveCount + k - 1, s.their>>}
           /\ SkipIds(s, 0) = {}
<1>1. s.receiveCount .. s.receiveCount + k - 1 =
         (s.receiveCount .. s.receiveCount + (k - 1) - 1) \union
         {s.receiveCount + k - 1}
  OBVIOUS
<1>2. s.receiveCount .. s.receiveCount + 0 - 1 = {}
  OBVIOUS
<1> QED
  BY <1>1, <1>2 DEF SkipIds

\* A delivery adds a key beyond the limit only when it is refused for it.
LEMMA DeliverBound ==
    ASSUME TypeInv, SkippedBound, NEW p \in Parties, NEW body \in sent,
           Deliver(p, body)
    PROVE  Cardinality(DOMAIN session'[p].skipped) <= MaxSkippedKeys + overflows'[p]
<1> DEFINE t == Stepped(p, session[p], body)
           done == decrypt(p, session[p], body)
           D == DOMAIN t.skipped
<1>1. /\ session'[p] = done.s /\ Typed(t) /\ body.pub \in Pairs
      /\ overflows'[p] = IF done.result = "limit"
                         THEN overflows[p] + 1 ELSE overflows[p]
      /\ \/ Refused(done, t, body)
         \/ FromSkipped(done, t, body)
         \/ \E k \in Nat \ {0} : Limited(done, t, body, k)
         \/ \E k \in Nat : FromCurrent(done, t, body, k)
  BY DeliverFields
<1>2. t.skipped = session[p].skipped
  BY <1>1, SteppedFields DEF TypeInv
<1> HIDE DEF t, done
<1>3. IsFiniteSet(D) /\ t.receiveCount \in Nat /\ overflows[p] \in Nat
  BY <1>1, <1>2 DEF TypeInv, Typed
<1>4. Cardinality(D) <= MaxSkippedKeys + overflows[p] /\ MaxSkippedKeys \in Nat
  BY <1>2, RatchetAssumption DEF SkippedBound
<1>5. \A k \in Nat : /\ IsFiniteSet(D \union SkipIds(t, k))
                     /\ Cardinality(D \union SkipIds(t, k)) \in Nat
  BY <1>3, SkipIdsFinite, FS_Union, FS_CardinalityType
<1>6. Cardinality(D) \in Nat
  BY <1>3, FS_CardinalityType
<1>7. /\ overflows'[p] \in Nat /\ overflows'[p] >= overflows[p]
      /\ done.result = "limit" => overflows'[p] = overflows[p] + 1
  BY <1>1, <1>3
<1>8. CASE Refused(done, t, body)
  BY <1>1, <1>3, <1>4, <1>6, <1>7, <1>8 DEF Refused
<1>9. CASE FromSkipped(done, t, body)
  <2>1. DOMAIN done.s.skipped \subseteq D
    BY <1>9 DEF FromSkipped
  <2>2. /\ Cardinality(DOMAIN done.s.skipped) <= Cardinality(D)
        /\ Cardinality(DOMAIN done.s.skipped) \in Nat
    BY <1>3, <2>1, FS_Subset, FS_CardinalityType
  <2> QED
    BY <1>1, <1>3, <1>4, <1>6, <1>7, <2>2
<1>10. ASSUME NEW k \in Nat \ {0}, Limited(done, t, body, k)
       PROVE  Cardinality(DOMAIN session'[p].skipped) <= MaxSkippedKeys + overflows'[p]
  <2> DEFINE E == D \union SkipIds(t, k - 1)
             id == <<t.receiveCount + k - 1, t.their>>
  <2>1. DOMAIN session'[p].skipped = E \union {id} /\ (k = 1 => E = D)
    BY <1>1, <1>3, <1>10, OneMoreId DEF Limited, IsSkip
  <2>2. Fits(t, k - 1) /\ done.result = "limit"
    BY <1>10 DEF Limited
  <2>3. IsFiniteSet(E) /\ Cardinality(E) \in Nat
    BY <1>5
  <2>4. Cardinality(E) <= MaxSkippedKeys + overflows[p]
    <3>1. CASE k = 1
      BY <1>4, <2>1, <3>1
    <3>2. CASE k # 1
      <4>1. Cardinality(E) <= MaxSkippedKeys
        BY <2>2, <3>2 DEF Fits
      <4> QED
        BY <1>3, <1>4, <2>3, <4>1
    <3> QED
      BY <3>1, <3>2
  <2> HIDE DEF E, id
  <2>5. Cardinality(E \union {id}) <= Cardinality(E) + 1
    <3>1. Cardinality(E \union {id}) = IF id \in E THEN Cardinality(E)
                                                   ELSE Cardinality(E) + 1
      BY <2>3, FS_AddElement
    <3> QED
      BY <2>3, <3>1
  <2>6. Cardinality(E \union {id}) \in Nat
    BY <2>3, FS_AddElement, FS_CardinalityType
  <2> QED
    BY <1>3, <1>4, <1>7, <2>1, <2>2, <2>3, <2>4, <2>5, <2>6
<1>11. ASSUME NEW k \in Nat, FromCurrent(done, t, body, k)
       PROVE  Cardinality(DOMAIN session'[p].skipped) <= MaxSkippedKeys + overflows'[p]
  <2>1. DOMAIN session'[p].skipped = D \union SkipIds(t, k) /\ Fits(t, k)
    BY <1>1, <1>11 DEF FromCurrent
  <2>2. CASE k = 0
    <3>1. SkipIds(t, 0) = {}
      BY <1>3, OneMoreId
    <3>2. DOMAIN session'[p].skipped = D
      BY <2>1, <2>2, <3>1
    <3> QED
      BY <1>3, <1>4, <1>6, <1>7, <3>2
  <2>3. CASE k # 0
    <3>1. Cardinality(DOMAIN session'[p].skipped) <= MaxSkippedKeys
      BY <2>1, <2>3 DEF Fits
    <3>2. Cardinality(DOMAIN session'[p].skipped) \in Nat
      BY <1>5, <2>1
    <3> QED
      BY <1>3, <1>4, <1>7, <3>1, <3>2
  <2> QED
    BY <2>2, <2>3
<1> QED
  BY <1>1, <1>8, <1>9, <1>10, <1>11

\* MAX_SKIPPED_KEYS is checked after a key was stored, so each refused body may
\* leave one key too many behind.  It never leaves more, whatever gaps the
\* message numbers have and however many chains the stored keys belong to.
THEOREM SkippedBoundTheorem == Spec => []SkippedBound
<1>1. Init => SkippedBound
  <2> SUFFICES ASSUME Init, NEW p \in Parties
               PROVE  Cardinality(DOMAIN session[p].skipped) <=
                         MaxSkippedKeys + overflows[p]
    BY DEF SkippedBound
  <2>1. DOMAIN session[p].skipped = {} /\ overflows[p] = 0
    BY InitFields DEF Init
  <2> QED
    BY <2>1, FS_EmptySet, RatchetAssumption
<1>2. TypeInv /\ SkippedBound /\ [Next]_vars => SkippedBound'
  <2> SUFFICES ASSUME TypeInv, SkippedBound, [Next]_vars, NEW q \in Parties
               PROVE  Cardinality(DOMAIN session'[q].skipped) <=
                         MaxSkippedKeys + overflows'[q]
    BY DEF SkippedBound
  <2>1. ASSUME NEW p \in Parties, encrypt(p)
        PROVE  session'[q].skipped = session[q].skipped /\ overflows' = overflows
    <3>1. /\ session'[p].skipped = session[p].skipped /\ overflows' = overflows
          /\ \A r \in Parties \ {p} : session'[r] = session[r]
      BY <2>1, EncryptFields DEF IsSealed
    <3> QED
      BY <3>1
  <2>2. ASSUME NEW p \in Parties, NEW body \in sent, Deliver(p, body)
        PROVE  Cardinality(DOMAIN session'[q].skipped) <=
                         MaxSkippedKeys + overflows'[q]
    <3>1. CASE q = p
      BY <2>2, <3>1, DeliverBound
    <3>2. CASE q # p
      <4>1. session'[q] = session[q] /\ overflows'[q] = overflows[q]
        BY <2>2, <3>2, DeliverFields
      <4> QED
        BY <4>1 DEF SkippedBound
    <3> QED
      BY <3>1, <3>2
  <2>3. CASE UNCHANGED vars
    BY <2>3 DEF vars, SkippedBound
  <2> QED
    BY <2>1, <2>2, <2>3 DEF Next, SkippedBound
<1> QED
  BY <1>1, <1>2, RatchetTypeInvariant, PTL DEF Spec
-----------------------------------------------------------------------------
(* Message keys are unique *)

\* With the sessions ss: a pair that its owner has generated, and a root key
\* whose last Diffie-Hellman output is of such pairs.
Known(ss, pair) == pair[2] < FirstRatchetPair + ss[pair[1]].pairs

KnownRoot(ss, root) == \A pair \in root[Len(root)] : Known(ss, pair)

\* The invariant behind MessageKeyUnique: a ratchet step derives its sending
\* chain from a pair that no earlier root key was derived from, so that no two
\* sending chains, of one party or of both, ever have the same root.
KeyInv ==
    /\ \A p \in Parties :
          /\ Known(session, session[p].my)
          /\ session[p].sending # NoChain =>
                /\ session[p].sending.root # <<>>
                /\ KnownRoot(session, session[p].sending.root)
          /\ session[p].sending.root # <<>> =>
                session[p].sending.root # session[Peer(p)].sending.root
    /\ \A b \in sent :
          /\ Known(session, b.pub) /\ b.key.root # <<>> /\ KnownRoot(session, b.key.root)
          /\ \A p \in Parties : b.key.root = session[p].sending.root =>
                b.from = p /\ b.key.n < session[p].sending.n
    /\ MessageKeyUnique

\* What a delivery does to the ratchet: nothing, or a step to the body's key.
LEMMA DeliverRatchet ==
    ASSUME TypeInv, NEW p \in Parties, NEW body \in sent, Deliver(p, body)
    PROVE  LET s == session[p]
               u == session'[p]
           IN  \/ body.pub = s.their /\ SameRatchet(u, s)
               \/ /\ body.pub # s.their
                  /\ ReceivingRoot(s, body.pub) \in Seq(SUBSET Pairs)
                  /\ SendingRoot(p, s, body.pub) \in Seq(SUBSET Pairs)
                  /\ u.rootKey = SendingRoot(p, s, body.pub)
                  /\ u.sending = [root |-> SendingRoot(p, s, body.pub), n |-> 0]
                  /\ u.receiving.root = ReceivingRoot(s, body.pub)
                  /\ u.their = body.pub /\ u.my = NextPair(p, s)
                  /\ u.sendCount = 0 /\ u.pairs = s.pairs + 1
<1> DEFINE s == session[p]
           t == Stepped(p, s, body)
           done == decrypt(p, s, body)
<1>1. /\ session'[p] = done.s /\ Typed(t) /\ body.pub \in Pairs
      /\ \/ Refused(done, t, body)
         \/ FromSkipped(done, t, body)
         \/ \E k \in Nat \ {0} : Limited(done, t, body, k)
         \/ \E k \in Nat : FromCurrent(done, t, body, k)
  BY DeliverFields
<1>2. /\ body.pub = s.their => t = s
      /\ body.pub # s.their => IsRekeyed(t, p, s, body.pub)
  BY <1>1, SteppedFields DEF TypeInv
<1> HIDE DEF t, done
<1>3. SameRatchet(done.s, t)
  <2>1. CASE Refused(done, t, body)
    BY <2>1 DEF Refused, SameRatchet
  <2>2. CASE FromSkipped(done, t, body)
    BY <2>2 DEF FromSkipped
  <2>3. ASSUME NEW k, Limited(done, t, body, k) PROVE SameRatchet(done.s, t)
    BY <2>3 DEF Limited, IsSkip
  <2>4. ASSUME NEW k, FromCurrent(done, t, body, k) PROVE SameRatchet(done.s, t)
    BY <2>4 DEF FromCurrent
  <2> QED
    BY <1>1, <2>1, <2>2, <2>3, <2>4
<1>4. CASE body.pub = s.their
  BY <1>1, <1>2, <1>3, <1>4
<1>5. CASE body.pub # s.their
  BY <1>1, <1>2, <1>3, <1>5 DEF IsRekeyed, SameRatchet
<1> QED
  BY <1>4, <1>5

\* The root that a ratchet step derives differs from every root whose last
\* output is of known pairs.
LEMMA FreshRoot ==
    ASSUME TypeInv, NEW p \in Parties, NEW their \in Pairs,
           NEW root \in Seq(SUBSET Pairs), KnownRoot(session, root)
    PROVE  root # SendingRoot(p, session[p], their)
<1> DEFINE s == session[p]
           send == SendingRoot(p, s, their)
           recv == ReceivingRoot(s, their)
           out == {NextPair(p, s), their}
<1>1. Typed(s) /\ s.pairs \in Nat
  BY DEF TypeInv, Typed
<1>2. out \in SUBSET Pairs
  BY <1>1, NextPairType
<1>3. recv \in Seq(SUBSET Pairs)
  BY <1>1, PairType DEF Typed, ReceivingRoot
<1>4. send = Append(recv, out)
  BY DEF SendingRoot
<1> HIDE DEF recv, send, out
<1>5. send[Len(send)] = out
  BY <1>2, <1>3, <1>4
<1>6. ~ Known(session, NextPair(p, s)) /\ NextPair(p, s) \in out
  BY <1>1 DEF Known, NextPair, FirstRatchetPair, out
<1> QED
  BY <1>5, <1>6 DEF KnownRoot, send, s

\* A party's count of pairs never falls, so what is known stays known.
LEMMA KnownStays ==
    ASSUME TypeInv, \A p \in Parties : session'[p].pairs \in Nat
                                       /\ session[p].pairs <= session'[p].pairs
    PROVE  /\ \A pair \in Pairs : Known(session, pair) => Known(session', pair)
           /\ \A root \in Seq(SUBSET Pairs) :
                 root # <<>> /\ KnownRoot(session, root) => KnownRoot(session', root)
<1>1. \A pair \in Pairs : Known(session, pair) => Known(session', pair)
  <2> SUFFICES ASSUME NEW pair \in Pairs, Known(session, pair) PROVE Known(session', pair)
    OBVIOUS
  <2>1. pair[1] \in Parties /\ pair[2] \in Nat
    BY DEF Pairs
  <2>2. session[pair[1]].pairs \in Nat
    BY <2>1 DEF TypeInv, Typed
  <2> QED
    BY <2>1, <2>2 DEF Known, FirstRatchetPair
<1>2. ASSUME NEW root \in Seq(SUBSET Pairs), root # <<>>
      PROVE  root[Len(root)] \subseteq Pairs
  <2>1. Len(root) \in 1 .. Len(root)
    BY <1>2
  <2> QED
    BY <2>1
<1> QED
  BY <1>1, <1>2 DEF KnownRoot

\* At first one chain exists, from the sender's first pair.
LEMMA InitKeys == Init => KeyInv
<1> SUFFICES ASSUME Init PROVE KeyInv
  OBVIOUS
<1> DEFINE mine == <<"alice", FirstRatchetPair>>
           out == {mine, SignedPreKey("bob")}
           root == Append(Secret, out)
           a == session["alice"]
           b == session["bob"]
<1>1. /\ a.sending = [root |-> root, n |-> 0] /\ a.my = mine /\ a.pairs = 1
      /\ b.sending = NoChain /\ b.my = SignedPreKey("bob") /\ b.pairs = 0
  BY InitFields
<1>2. Known(session, mine) /\ Known(session, SignedPreKey("bob"))
  BY <1>1 DEF Known, FirstRatchetPair, SignedPreKey
<1>3. out \in SUBSET Pairs
  BY DEF Pairs, Parties, FirstRatchetPair, SignedPreKey
<1>4. Secret \in Seq(SUBSET Pairs)
  BY SameSecret
<1> HIDE DEF mine
<1>5. root # <<>> /\ root[Len(root)] = out
  BY <1>3, <1>4
<1>6. KnownRoot(session, root)
  BY <1>2, <1>5 DEF KnownRoot
<1> HIDE DEF root, out, a, b
<1>7. a.sending.root = root /\ b.sending.root = <<>>
  BY <1>1 DEF NoChain
<1>8. Peer("alice") = "bob" /\ Peer("bob") = "alice"
  BY PeerType DEF Parties
<1>9. ASSUME NEW p \in Parties
      PROVE  /\ Known(session, session[p].my)
             /\ session[p].sending # NoChain =>
                   /\ session[p].sending.root # <<>>
                /\ KnownRoot(session, session[p].sending.root)
             /\ session[p].sending.root # <<>> =>
                   session[p].sending.root # session[Peer(p)].sending.root
  <2>1. CASE p = "alice"
    BY <1>1, <1>2, <1>5, <1>6, <1>7, <1>8, <2>1 DEF a, b
  <2>2. CASE p = "bob"
    BY <1>1, <1>2, <1>7, <2>2 DEF b
  <2> QED
    BY <2>1, <2>2 DEF Parties
<1>10. sent = {}
  BY DEF Init
<1> QED
  BY <1>9, <1>10 DEF KeyInv, MessageKeyUnique

\* encrypt() uses a position of its chain that no body has used.
LEMMA EncryptKeys ==
    ASSUME TypeInv, KeyInv, NEW p \in Parties, encrypt(p) PROVE KeyInv'
<1> DEFINE s == session[p]
           u == session'[p]
           new == Sealed(p)
<1>1. /\ Typed(u) /\ IsSealed(u, s)
      /\ \A q \in Parties \ {p} : session'[q] = session[q]
      /\ sent' = sent \union {new} /\ new \in Bodies
      /\ s.sending # NoChain
  BY EncryptFields
<1>2. Typed(s) /\ s.sending.n \in Nat /\ s.sending.root \in Seq(SUBSET Pairs)
  BY DEF TypeInv, Typed, ChainKeys
<1>3. /\ u.sending.root = s.sending.root /\ u.sending.n = s.sending.n + 1
      /\ u.my = s.my /\ u.pairs = s.pairs
  BY <1>1 DEF IsSealed
<1>4. s.sending.root # <<>> /\ KnownRoot(session, s.sending.root) /\ Known(session, s.my)
  BY <1>1 DEF KeyInv
<1>5. \A q \in Parties : /\ session'[q].pairs = session[q].pairs
                         /\ session'[q].my = session[q].my
                         /\ session'[q].sending.root = session[q].sending.root
                         /\ session[q].pairs \in Nat
  BY <1>1, <1>3 DEF TypeInv, Typed
<1>6. \A q \in Parties : session'[q].pairs \in Nat /\ session[q].pairs <= session'[q].pairs
  BY <1>5
<1>7. /\ \A pair \in Pairs : Known(session, pair) => Known(session', pair)
      /\ \A root \in Seq(SUBSET Pairs) :
            root # <<>> /\ KnownRoot(session, root) => KnownRoot(session', root)
  BY <1>6, KnownStays
<1>8. ASSUME NEW q \in Parties
      PROVE  /\ Known(session', session'[q].my)
             /\ session'[q].sending # NoChain =>
                   /\ session'[q].sending.root # <<>>
                   /\ KnownRoot(session', session'[q].sending.root)
             /\ session'[q].sending.root # <<>> =>
                   session'[q].sending.root # session'[Peer(q)].sending.root
  <2>1. Known(session, session[q].my) /\ session[q].my \in Pairs
    BY DEF KeyInv, TypeInv, Typed
  <2>2. session[q].sending.root \in Seq(SUBSET Pairs)
    BY DEF TypeInv, Typed, ChainKeys
  <2>3. session'[q].sending # NoChain =>
           session[q].sending.root # <<>> /\ KnownRoot(session, session[q].sending.root)
    <3>1. CASE q = p
      BY <1>4, <3>1
    <3>2. CASE q # p
      BY <1>1, <3>2 DEF KeyInv
    <3> QED
      BY <3>1, <3>2
  <2>4. session[q].sending.root # <<>> =>
           session[q].sending.root # session[Peer(q)].sending.root
    BY DEF KeyInv
  <2> QED
    BY <1>5, <1>7, <2>1, <2>2, <2>3, <2>4, PeerType
<1>9. /\ new.pub = s.my /\ new.key = s.sending /\ new.from = p
      /\ s.my \in Pairs
  BY <1>2 DEF Sealed, Typed
<1>10. ASSUME NEW b \in sent'
       PROVE  /\ Known(session', b.pub) /\ b.key.root # <<>>
              /\ KnownRoot(session', b.key.root)
  <2>1. CASE b = new
    BY <1>2, <1>4, <1>7, <1>9, <2>1
  <2>2. CASE b \in sent
    <3>1. b.pub \in Pairs /\ b.key.root \in Seq(SUBSET Pairs)
      BY <2>2 DEF TypeInv, Bodies, ChainKeys
    <3>2. /\ Known(session, b.pub) /\ b.key.root # <<>>
          /\ KnownRoot(session, b.key.root)
      BY <2>2 DEF KeyInv
    <3> QED
      BY <1>7, <3>1, <3>2
  <2> QED
    BY <1>1, <2>1, <2>2
<1>11. ASSUME NEW b \in sent', NEW q \in Parties,
              b.key.root = session'[q].sending.root
       PROVE  b.from = q /\ b.key.n < session'[q].sending.n
  <2>1. b.key.root = session[q].sending.root
    BY <1>5, <1>11
  <2>2. CASE b = new
    <3>1. q = p
      BY <1>4, <1>9, <2>1, <2>2, PeerType DEF KeyInv
    <3> QED
      BY <1>2, <1>3, <1>9, <2>2, <3>1
  <2>3. CASE b \in sent
    <3>1. b.from = q /\ b.key.n < session[q].sending.n /\ b.key.n \in Nat
      BY <2>1, <2>3 DEF KeyInv, TypeInv, Bodies, ChainKeys
    <3>2. CASE q = p
      BY <1>2, <1>3, <3>1, <3>2
    <3>3. CASE q # p
      BY <1>1, <3>1, <3>3
    <3> QED
      BY <3>2, <3>3
  <2> QED
    BY <1>1, <2>2, <2>3
<1>12. ASSUME NEW b \in sent PROVE b.key # new.key
  <2>1. b.key.root = s.sending.root => b.key.n < s.sending.n
    BY DEF KeyInv
  <2> QED
    BY <1>2, <1>9, <2>1
<1>13. \A b, c \in sent' : b.key = c.key => b = c
  BY <1>1, <1>12 DEF KeyInv, MessageKeyUnique
<1> QED
  BY <1>8, <1>10, <1>11, <1>13 DEF KeyInv, MessageKeyUnique

\* A delivery that steps the ratchet starts a sending chain with a new root.
LEMMA DeliverKeys ==
    ASSUME TypeInv, KeyInv, NEW p \in Parties, NEW body \in sent, Deliver(p, body)
    PROVE  KeyInv'
<1> DEFINE s == session[p]
           u == session'[p]
           send == SendingRoot(p, s, body.pub)
<1>1. /\ Typed(u) /\ sent' = sent
      /\ \A q \in Parties \ {p} : session'[q] = session[q]
      /\ body.pub \in Pairs
  BY DeliverFields
<1>2. Typed(s)
  BY DEF TypeInv
<1>3. /\ body.pub = s.their => SameRatchet(u, s)
      /\ body.pub # s.their =>
            /\ send \in Seq(SUBSET Pairs)
            /\ u.sending = [root |-> send, n |-> 0]
            /\ u.my = NextPair(p, s) /\ u.pairs = s.pairs + 1
  BY DeliverRatchet
<1>4. \A q \in Parties : session'[q].pairs \in Nat /\ session[q].pairs <= session'[q].pairs
  <2>1. u.pairs = s.pairs \/ u.pairs = s.pairs + 1
    BY <1>3 DEF SameRatchet
  <2>2. \A q \in Parties : session[q].pairs \in Nat
    BY DEF TypeInv, Typed
  <2> QED
    BY <1>1, <2>1, <2>2
<1>5. /\ \A pair \in Pairs : Known(session, pair) => Known(session', pair)
      /\ \A root \in Seq(SUBSET Pairs) :
            root # <<>> /\ KnownRoot(session, root) => KnownRoot(session', root)
  BY <1>4, KnownStays
<1>6. ASSUME NEW q \in Parties
      PROVE  /\ Known(session, session[q].my) /\ session[q].my \in Pairs
             /\ session[q].sending.root \in Seq(SUBSET Pairs)
             /\ session[q].sending # NoChain =>
                   /\ session[q].sending.root # <<>>
                   /\ KnownRoot(session, session[q].sending.root)
             /\ session[q].sending.root # <<>> =>
                   session[q].sending.root # session[Peer(q)].sending.root
  BY DEF KeyInv, TypeInv, Typed, ChainKeys
<1>7. ASSUME NEW b \in sent
      PROVE  /\ b.pub \in Pairs /\ b.key.root \in Seq(SUBSET Pairs)
             /\ Known(session, b.pub) /\ b.key.root # <<>>
             /\ KnownRoot(session, b.key.root)
             /\ \A q \in Parties : b.key.root = session[q].sending.root =>
                   b.from = q /\ b.key.n < session[q].sending.n
  BY DEF KeyInv, TypeInv, Bodies, ChainKeys
<1>8. \A b \in sent : /\ Known(session', b.pub) /\ b.key.root # <<>>
                      /\ KnownRoot(session', b.key.root)
  BY <1>5, <1>7
<1>9. CASE body.pub = s.their
  <2>1. \A q \in Parties : /\ session'[q].my = session[q].my
                           /\ session'[q].sending = session[q].sending
    BY <1>1, <1>3, <1>9 DEF SameRatchet
  <2>2. ASSUME NEW q \in Parties
        PROVE  /\ Known(session', session'[q].my)
               /\ session'[q].sending # NoChain =>
                     /\ session'[q].sending.root # <<>>
                     /\ KnownRoot(session', session'[q].sending.root)
               /\ session'[q].sending.root # <<>> =>
                     session'[q].sending.root # session'[Peer(q)].sending.root
    BY <1>5, <1>6, <2>1, PeerType
  <2> QED
    BY <1>1, <1>7, <1>8, <2>1, <2>2 DEF KeyInv, MessageKeyUnique
<1>10. CASE body.pub # s.their
  <2>1. /\ send \in Seq(SUBSET Pairs) /\ u.sending = [root |-> send, n |-> 0]
        /\ u.my = NextPair(p, s) /\ u.pairs = s.pairs + 1
    BY <1>3, <1>10
  <2>2. Known(session', NextPair(p, s)) /\ Known(session', body.pub)
    <3>1. s.pairs \in Nat
      BY <1>2 DEF Typed
    <3> QED
      BY <1>5, <1>7, <2>1, <3>1 DEF Known, NextPair, FirstRatchetPair
  <2>3. send # <<>> /\ send[Len(send)] = {NextPair(p, s), body.pub}
    <3> DEFINE recv == ReceivingRoot(s, body.pub)
               out == {NextPair(p, s), body.pub}
    <3>1. recv \in Seq(SUBSET Pairs) /\ out \in SUBSET Pairs
      BY <1>1, <1>2, PairType, NextPairType DEF Typed, ReceivingRoot
    <3>2. send = Append(recv, out)
      BY DEF SendingRoot
    <3> HIDE DEF send, recv, out
    <3>3. send # <<>> /\ send[Len(send)] = out
      BY <3>1, <3>2
    <3> QED
      BY <3>3 DEF out
  <2>4. KnownRoot(session', send)
    BY <2>2, <2>3 DEF KnownRoot
  <2>5. \A root \in Seq(SUBSET Pairs) : KnownRoot(session, root) => root # send
    BY <1>1, FreshRoot
  <2> HIDE DEF send
  <2>6. u.sending.root = send /\ u.sending # NoChain
    BY <2>1, <2>3 DEF NoChain
  <2>7. /\ Peer(p) \in Parties \ {p} /\ session'[Peer(p)] = session[Peer(p)]
        /\ \A q \in Parties : q = p \/ q = Peer(p)
        /\ Peer(Peer(p)) = p
    BY <1>1, PeerType
  <2>8. session[Peer(p)].sending.root # send
    BY <1>6, <2>3, <2>5, <2>7 DEF NoChain
  <2>9. ASSUME NEW q \in Parties
        PROVE  /\ Known(session', session'[q].my)
               /\ session'[q].sending # NoChain =>
                     /\ session'[q].sending.root # <<>>
                     /\ KnownRoot(session', session'[q].sending.root)
               /\ session'[q].sending.root # <<>> =>
                     session'[q].sending.root # session'[Peer(q)].sending.root
    <3>1. CASE q = p
      BY <2>1, <2>2, <2>3, <2>4, <2>6, <2>7, <2>8, <3>1
    <3>2. CASE q = Peer(p)
      BY <1>5, <1>6, <2>6, <2>7, <2>8, <3>2
    <3> QED
      BY <2>7, <3>1, <3>2
  <2>10. ASSUME NEW b \in sent, NEW q \in Parties,
                b.key.root = session'[q].sending.root
         PROVE  b.from = q /\ b.key.n < session'[q].sending.n
    <3>1. q # p
      BY <1>7, <2>5, <2>6, <2>10
    <3> QED
      BY <1>1, <1>7, <2>10, <3>1
  <2> QED
    BY <1>1, <1>8, <2>9, <2>10 DEF KeyInv, MessageKeyUnique
<1> QED
  BY <1>9, <1>10

\* The root keys of all sending chains stay distinct.
LEMMA KeyInvariant == Spec => [](TypeInv /\ KeyInv)
<1>1. TypeInv /\ KeyInv /\ [Next]_vars => KeyInv'
  <2> SUFFICES ASSUME TypeInv, KeyInv, [Next]_vars PROVE KeyInv'
    OBVIOUS
  <2>1. CASE UNCHANGED vars
    BY <2>1 DEF vars, KeyInv, MessageKeyUnique
  <2> QED
    BY <2>1, EncryptKeys, DeliverKeys DEF Next
<1> QED
  BY <1>1, InitTyped, NextTyped, InitKeys, PTL DEF Spec

\* AES-GCM fails if a key seals two messages: encrypt() never hands out a key
\* twice, not even when bodies of an earlier chain step the ratchet back and
\* forth, and neither party ever uses a key of the other.
THEOREM MessageKeyUniqueTheorem == Spec => []MessageKeyUnique
<1>1. KeyInv => MessageKeyUnique
  BY DEF KeyInv
<1> QED
  BY <1>1, KeyInvariant, PTL
-----------------------------------------------------------------------------
(* Forward secrecy *)

\* A message key the receiving side has used or set aside: of an earlier root
\* than the session's, and behind the chain if it is of the current one.
Past(s, u) ==
    /\ u \in ChainKeys /\ u.root # <<>>
    /\ Len(u.root) < Len(s.rootKey)
    /\ u.root = s.receiving.root => u.n < s.receiving.n

\* The invariant behind ForwardSecrecy, for a session that opened the bodies O.
SecretInv(s, O) ==
    /\ s.receiving # NoChain => /\ s.receiving.root # <<>>
                                /\ Len(s.receiving.root) < Len(s.rootKey)
    /\ \A b \in O : Past(s, b.key)
    /\ \A id \in DOMAIN s.skipped :
          Past(s, s.skipped[id]) /\ \A b \in O : b.key # s.skipped[id]
    /\ \A i, j \in DOMAIN s.skipped : s.skipped[i] = s.skipped[j] => i = j

\* A root key is one output shorter than the root of the next chain, so a
\* ratchet step leaves every old key behind.
LEMMA SteppedSecret ==
    ASSUME NEW p \in Parties, NEW s, Typed(s), NEW body, body.pub \in Pairs,
           NEW O, SecretInv(s, O)
    PROVE  SecretInv(Stepped(p, s, body), O)
<1> DEFINE t == Stepped(p, s, body)
           recv == ReceivingRoot(s, body.pub)
           send == SendingRoot(p, s, body.pub)
<1>1. /\ body.pub = s.their => t = s
      /\ body.pub # s.their => IsRekeyed(t, p, s, body.pub)
  BY SteppedFields
<1> HIDE DEF t
<1>2. CASE body.pub = s.their
  BY <1>1, <1>2 DEF t
<1>3. CASE body.pub # s.their
  <2>1. /\ t.rootKey = send /\ t.receiving = [root |-> recv, n |-> 0]
        /\ t.skipped = s.skipped
        /\ recv \in Seq(SUBSET Pairs) /\ send \in Seq(SUBSET Pairs)
    BY <1>1, <1>3 DEF IsRekeyed
  <2>2. s.rootKey \in Seq(SUBSET Pairs) /\ {s.my, body.pub} \in SUBSET Pairs
        /\ {NextPair(p, s), body.pub} \in SUBSET Pairs
    BY PairType, NextPairType DEF Typed
  <2>3. Len(recv) = Len(s.rootKey) + 1
    BY <2>2 DEF ReceivingRoot
  <2>4. Len(send) = Len(recv) + 1
    BY <2>1, <2>2 DEF SendingRoot
  <2> HIDE DEF recv, send
  <2>5. Len(s.rootKey) \in Nat
    BY <2>2
  <2>6. recv # <<>> /\ Len(recv) < Len(send)
    BY <2>3, <2>4, <2>5
  <2>7. t.receiving.root = recv /\ t.receiving.n = 0
    BY <2>1
  <2>8. ASSUME NEW u, Past(s, u) PROVE Past(t, u)
    <3>1. u.root \in Seq(SUBSET Pairs) /\ Len(u.root) < Len(s.rootKey)
      BY <2>8 DEF Past, ChainKeys
    <3>2. Len(u.root) \in Nat
      BY <3>1
    <3>3. u.root # recv
      BY <2>3, <2>5, <3>1, <3>2
    <3>4. Len(u.root) < Len(send)
      BY <2>3, <2>4, <2>5, <3>1, <3>2
    <3> QED
      BY <2>1, <2>7, <2>8, <3>3, <3>4 DEF Past
  <2> QED
    BY <2>1, <2>6, <2>7, <2>8 DEF SecretInv, t
<1> QED
  BY <1>2, <1>3

\* What decrypt() leaves behind after the step.
LEMMA DecryptSecret ==
    ASSUME NEW t, Typed(t), NEW O, SecretInv(t, O),
           NEW body, body.number \in Nat, body.pub = t.their,
           NEW done, Typed(done.s),
           \/ Refused(done, t, body)
           \/ FromSkipped(done, t, body)
           \/ \E k \in Nat \ {0} : Limited(done, t, body, k)
           \/ \E k \in Nat : FromCurrent(done, t, body, k)
    PROVE  SecretInv(done.s, IF done.result = "opened" THEN O \union {body} ELSE O)
<1> DEFINE Q == IF done.result = "opened" THEN O \union {body} ELSE O
<1>1. CASE Refused(done, t, body)
  BY <1>1 DEF Refused
<1>2. CASE FromSkipped(done, t, body)
  <2> DEFINE id == ReplayKey(body)
             key == t.skipped[id]
  <2>1. /\ id \in DOMAIN t.skipped
        /\ done.s.rootKey = t.rootKey /\ done.s.receiving = t.receiving
        /\ DOMAIN done.s.skipped = DOMAIN t.skipped \ {id}
        /\ \A i \in DOMAIN done.s.skipped : done.s.skipped[i] = t.skipped[i]
        /\ done.result = "opened" => key = body.key
    BY <1>2 DEF FromSkipped, Verdict, SameRatchet
  <2>2. \A u : Past(t, u) => Past(done.s, u)
    BY <2>1 DEF Past
  <2>3. \A b \in Q : b \in O \/ b.key = key
    BY <2>1
  <2>4. /\ Past(t, key) /\ \A b \in O : Past(t, b.key)
        /\ \A i \in DOMAIN t.skipped : /\ Past(t, t.skipped[i])
                                       /\ t.skipped[i] = key => i = id
                                       /\ \A b \in O : b.key # t.skipped[i]
        /\ \A i, j \in DOMAIN t.skipped : t.skipped[i] = t.skipped[j] => i = j
        /\ t.receiving # NoChain => /\ t.receiving.root # <<>>
                                    /\ Len(t.receiving.root) < Len(t.rootKey)
    BY <2>1 DEF SecretInv
  <2> HIDE DEF id, key, Q
  <2>5. \A b \in Q : Past(done.s, b.key)
    BY <2>2, <2>3, <2>4
  <2>6. \A i \in DOMAIN done.s.skipped :
           Past(done.s, done.s.skipped[i]) /\ \A b \in Q : b.key # done.s.skipped[i]
    BY <2>1, <2>2, <2>3, <2>4
  <2>7. \A i, j \in DOMAIN done.s.skipped :
           done.s.skipped[i] = done.s.skipped[j] => i = j
    BY <2>1, <2>4
  <2> QED
    BY <2>1, <2>4, <2>5, <2>6, <2>7 DEF SecretInv, Q
<1>3. ASSUME NEW k \in Nat, NEW m \in Nat, k <= m,
             t.receiving # NoChain,
             SameRatchet(done.s, t),
             done.s.receiving = [root |-> t.receiving.root, n |-> t.receiving.n + m],
             DOMAIN done.s.skipped = DOMAIN t.skipped \union SkipIds(t, k),
             \A id \in SkipIds(t, k) :
                done.s.skipped[id] = [root |-> t.receiving.root, n |-> id[1]],
             \A id \in DOMAIN t.skipped \ SkipIds(t, k) :
                done.s.skipped[id] = t.skipped[id],
             done.result = "opened" =>
                m = k + 1
                /\ body.key = [root |-> t.receiving.root, n |-> t.receiving.n + k]
      PROVE  SecretInv(done.s, Q)
  <2> DEFINE root == t.receiving.root
             n == t.receiving.n
             v == done.s
  <2>1. /\ n \in Nat /\ t.receiveCount = n /\ root \in Seq(SUBSET Pairs)
        /\ root # <<>> /\ Len(root) < Len(t.rootKey)
    BY <1>3 DEF Typed, ChainKeys, SecretInv
  <2>2. v.rootKey = t.rootKey /\ v.receiving.root = root /\ v.receiving.n = n + m
    BY <1>3 DEF SameRatchet
  <2>3. \A u : Past(t, u) => Past(v, u)
    BY <1>3, <2>1, <2>2 DEF Past, ChainKeys
  <2>4. \A i \in Nat : i < n + m => Past(v, [root |-> root, n |-> i])
    BY <2>1, <2>2 DEF Past, ChainKeys
  <2>5. \A id \in SkipIds(t, k) :
           id[1] \in Nat /\ n <= id[1] /\ id[1] < n + k /\ id = <<id[1], t.their>>
    BY <2>1 DEF SkipIds
  <2>6. \A u : Past(t, u) /\ u.root = root => u.n < n /\ u.n \in Nat
    BY DEF Past, ChainKeys
  <2>7. /\ \A b \in O : Past(t, b.key)
        /\ \A i \in DOMAIN t.skipped : /\ Past(t, t.skipped[i])
                                       /\ \A b \in O : b.key # t.skipped[i]
        /\ \A i, j \in DOMAIN t.skipped : t.skipped[i] = t.skipped[j] => i = j
    BY DEF SecretInv
  <2>8. \A b \in Q : \/ b \in O
                     \/ b.key = [root |-> root, n |-> n + k] /\ n + k < n + m
    BY <1>3, <2>1
  <2> HIDE DEF Q, root, n, v
  <2>9. \A b \in Q : Past(v, b.key)
    <3> SUFFICES ASSUME NEW b \in Q PROVE Past(v, b.key)
      OBVIOUS
    <3>1. CASE b \in O
      BY <2>3, <2>7, <3>1
    <3>2. CASE b.key = [root |-> root, n |-> n + k] /\ n + k < n + m
      <4>1. n + k \in Nat
        BY <2>1
      <4> QED
        BY <2>4, <3>2, <4>1
    <3> QED
      BY <2>8, <3>1, <3>2
  <2>10. ASSUME NEW i \in SkipIds(t, k)
         PROVE  /\ v.skipped[i] = [root |-> root, n |-> i[1]] /\ Past(v, v.skipped[i])
                /\ \A u : Past(t, u) => u # v.skipped[i]
                /\ \A b \in Q : b.key # v.skipped[i]
    <3>1. v.skipped[i] = [root |-> root, n |-> i[1]]
      BY <1>3 DEF v, root
    <3>2. i[1] \in Nat /\ n <= i[1] /\ i[1] < n + k /\ i[1] < n + m
      BY <1>3, <2>1, <2>5
    <3>3. Past(v, v.skipped[i])
      BY <2>4, <3>1, <3>2
    <3>4. \A u : Past(t, u) => u # v.skipped[i]
      BY <2>1, <2>6, <3>1, <3>2
    <3>5. [root |-> root, n |-> n + k] # v.skipped[i]
      BY <2>1, <3>1, <3>2
    <3> QED
      BY <2>7, <2>8, <3>1, <3>3, <3>4, <3>5
  <2>11. ASSUME NEW i \in DOMAIN t.skipped \ SkipIds(t, k)
         PROVE  /\ v.skipped[i] = t.skipped[i] /\ Past(t, v.skipped[i])
                /\ Past(v, v.skipped[i])
                /\ \A b \in Q : b.key # v.skipped[i]
    <3>1. v.skipped[i] = t.skipped[i] /\ Past(t, t.skipped[i])
      BY <1>3, <2>7 DEF v
    <3>2. t.skipped[i] # [root |-> root, n |-> n + k]
      <4>1. t.skipped[i].root = root => t.skipped[i].n < n /\ t.skipped[i].n \in Nat
        BY <2>6, <3>1
      <4> QED
        BY <2>1, <4>1
    <3> QED
      BY <2>3, <2>7, <2>8, <3>1, <3>2
  <2>12. DOMAIN v.skipped = DOMAIN t.skipped \union SkipIds(t, k)
    BY <1>3 DEF v
  <2>13. \A i \in DOMAIN v.skipped :
            Past(v, v.skipped[i]) /\ \A b \in Q : b.key # v.skipped[i]
    BY <2>10, <2>11, <2>12
  <2>14. ASSUME NEW i \in DOMAIN v.skipped, NEW j \in DOMAIN v.skipped,
                v.skipped[i] = v.skipped[j]
         PROVE  i = j
    <3>1. CASE i \in SkipIds(t, k) /\ j \in SkipIds(t, k)
      <4>1. /\ v.skipped[i] = [root |-> root, n |-> i[1]]
            /\ v.skipped[j] = [root |-> root, n |-> j[1]]
        BY <2>10, <3>1
      <4>2. v.skipped[i].n = i[1] /\ v.skipped[j].n = j[1]
        BY <4>1
      <4>3. i[1] = j[1]
        BY <2>14, <4>2
      <4> QED
        BY <2>5, <3>1, <4>3
    <3>2. CASE i \in SkipIds(t, k) /\ j \notin SkipIds(t, k)
      BY <2>10, <2>11, <2>12, <2>14, <3>2
    <3>3. CASE i \notin SkipIds(t, k) /\ j \in SkipIds(t, k)
      BY <2>10, <2>11, <2>12, <2>14, <3>3
    <3>4. CASE i \notin SkipIds(t, k) /\ j \notin SkipIds(t, k)
      BY <2>7, <2>11, <2>12, <2>14, <3>4
    <3> QED
      BY <3>1, <3>2, <3>3, <3>4
  <2>15. v.receiving.root # <<>> /\ Len(v.receiving.root) < Len(v.rootKey)
    BY <2>1, <2>2
  <2> QED
    BY <2>9, <2>13, <2>14, <2>15 DEF SecretInv, v
<1>4. ASSUME NEW k \in Nat, Limited(done, t, body, k) PROVE SecretInv(done.s, Q)
  <2>1. /\ t.receiving # NoChain /\ SameRatchet(done.s, t)
        /\ done.s.receiving = [root |-> t.receiving.root, n |-> t.receiving.n + k]
        /\ DOMAIN done.s.skipped = DOMAIN t.skipped \union SkipIds(t, k)
        /\ \A id \in SkipIds(t, k) :
              done.s.skipped[id] = [root |-> t.receiving.root, n |-> id[1]]
        /\ \A id \in DOMAIN t.skipped \ SkipIds(t, k) :
              done.s.skipped[id] = t.skipped[id]
        /\ done.result # "opened"
    BY <1>4 DEF Limited, IsSkip
  <2> HIDE DEF Q
  <2> QED
    BY <1>3, <2>1
<1>5. ASSUME NEW k \in Nat, FromCurrent(done, t, body, k) PROVE SecretInv(done.s, Q)
  <2>1. /\ t.receiving # NoChain /\ SameRatchet(done.s, t)
        /\ done.s.receiving = [root |-> t.receiving.root, n |-> t.receiving.n + k + 1]
        /\ DOMAIN done.s.skipped = DOMAIN t.skipped \union SkipIds(t, k)
        /\ \A id \in SkipIds(t, k) :
              done.s.skipped[id] = [root |-> t.receiving.root, n |-> id[1]]
        /\ \A id \in DOMAIN t.skipped \ SkipIds(t, k) :
              done.s.skipped[id] = t.skipped[id]
        /\ done.result = "opened" =>
              body.key = [root |-> t.receiving.root, n |-> t.receiving.n + k]
    BY <1>5 DEF FromCurrent, Verdict
  <2>2. t.receiving.n \in Nat
    BY DEF Typed, ChainKeys
  <2>3. t.receiving.n + k + 1 = t.receiving.n + (k + 1) /\ k + 1 \in Nat /\ k <= k + 1
    BY <2>2
  <2>4. done.s.receiving = [root |-> t.receiving.root, n |-> t.receiving.n + (k + 1)]
    BY <2>1, <2>3
  <2> HIDE DEF Q
  <2> QED
    BY <1>3, <2>1, <2>3, <2>4
<1> QED
  BY <1>1, <1>2, <1>4, <1>5

\* Used and stored keys stay behind what the session can derive.
LEMMA SecretInvariant ==
    Spec => []\A p \in Parties : SecretInv(session[p], opened[p])
<1> DEFINE Inv == \A p \in Parties : SecretInv(session[p], opened[p])
<1>1. Init => Inv
  <2> SUFFICES ASSUME Init, NEW p \in Parties PROVE SecretInv(session[p], opened[p])
    OBVIOUS
  <2>1. session[p].receiving = NoChain /\ DOMAIN session[p].skipped = {}
        /\ opened[p] = {}
    BY InitFields DEF Init, Parties
  <2> QED
    BY <2>1 DEF SecretInv
<1>2. TypeInv /\ Inv /\ [Next]_vars => Inv'
  <2> SUFFICES ASSUME TypeInv, Inv, [Next]_vars, NEW q \in Parties
               PROVE  SecretInv(session'[q], opened'[q])
    OBVIOUS
  <2>1. ASSUME NEW p \in Parties, encrypt(p) PROVE SecretInv(session'[q], opened'[q])
    <3>1. /\ session'[q].receiving = session[q].receiving
          /\ session'[q].rootKey = session[q].rootKey
          /\ session'[q].skipped = session[q].skipped /\ opened' = opened
      BY <2>1, EncryptFields DEF IsSealed
    <3>2. SecretInv(session[q], opened[q])
      OBVIOUS
    <3> HIDE DEF Inv
    <3> QED
      BY <3>1, <3>2 DEF SecretInv, Past
  <2>2. ASSUME NEW p \in Parties, NEW body \in sent, Deliver(p, body)
        PROVE  SecretInv(session'[q], opened'[q])
    <3> DEFINE t == Stepped(p, session[p], body)
               done == decrypt(p, session[p], body)
    <3>1. /\ session'[p] = done.s /\ Typed(done.s) /\ Typed(t)
          /\ \A r \in Parties \ {p} : session'[r] = session[r] /\ opened'[r] = opened[r]
          /\ body.pub \in Pairs /\ body.number \in Nat
          /\ opened'[p] = IF done.result = "opened"
                          THEN opened[p] \union {body} ELSE opened[p]
          /\ \/ Refused(done, t, body)
             \/ FromSkipped(done, t, body)
             \/ \E k \in Nat \ {0} : Limited(done, t, body, k)
             \/ \E k \in Nat : FromCurrent(done, t, body, k)
      BY <2>2, DeliverFields
    <3>2. /\ Typed(session[p]) /\ SecretInv(session[p], opened[p])
          /\ SecretInv(session[q], opened[q])
      BY DEF TypeInv
    <3>3. t.their = body.pub
      BY <3>1, <3>2, SteppedFields
    <3>4. SecretInv(t, opened[p])
      BY <3>1, <3>2, SteppedSecret
    <3> HIDE DEF t, done
    <3>5. SecretInv(session'[p], opened'[p])
      <4>1. SecretInv(done.s, IF done.result = "opened"
                              THEN opened[p] \union {body} ELSE opened[p])
        BY <3>1, <3>3, <3>4, DecryptSecret
      <4> QED
        BY <3>1, <4>1
    <3> QED
      BY <3>1, <3>2, <3>5
  <2>3. CASE UNCHANGED vars
    BY <2>3 DEF vars
  <2> QED
    BY <2>1, <2>2, <2>3 DEF Next
<1> QED
  BY <1>1, <1>2, RatchetTypeInvariant, PTL DEF Spec

\* What a session keeps can compute neither the key of a body it opened nor
\* that of a body it sealed: not from its chains, however they were stepped,
\* and not from the map of skipped keys.
THEOREM ForwardSecrecyTheorem == Spec => []ForwardSecrecy
<1>1. ASSUME TypeInv, KeyInv, \A p \in Parties : SecretInv(session[p], opened[p])
      PROVE  ForwardSecrecy
  <2> SUFFICES ASSUME NEW p \in Parties
               PROVE  LET s == session[p] IN
                      /\ \A b \in opened[p] :
                            /\ ~Derives(s.receiving, b.key)
                            /\ \A id \in DOMAIN s.skipped : s.skipped[id] # b.key
                      /\ \A b \in sent : b.from = p => ~Derives(s.sending, b.key)
    BY DEF ForwardSecrecy
  <2> DEFINE s == session[p]
  <2>1. SecretInv(s, opened[p]) /\ s.receiving.n \in Nat /\ s.sending.n \in Nat
    BY <1>1 DEF TypeInv, Typed, ChainKeys
  <2>2. ASSUME NEW b \in opened[p]
        PROVE  /\ ~Derives(s.receiving, b.key)
               /\ \A id \in DOMAIN s.skipped : s.skipped[id] # b.key
    <3>1. b.key.root = s.receiving.root => b.key.n < s.receiving.n /\ b.key.n \in Nat
      BY <2>1 DEF SecretInv, Past, ChainKeys
    <3> QED
      BY <2>1, <3>1 DEF SecretInv, Derives
  <2>3. ASSUME NEW b \in sent PROVE ~Derives(s.sending, b.key)
    <3>1. b.key.n \in Nat
      BY <1>1 DEF TypeInv, Bodies, ChainKeys
    <3>2. b.key.root = s.sending.root => b.key.n < s.sending.n
      BY <1>1 DEF KeyInv
    <3> QED
      BY <2>1, <3>1, <3>2 DEF Derives
  <2> QED
    BY <2>2, <2>3
<1> QED
  BY <1>1, KeyInvariant, SecretInvariant, PTL
-----------------------------------------------------------------------------
(* Reading in order *)

\* The sessions L of l and F of f are in step: L has derived the newest root
\* key, from the newest pair of F.  nl and nf are the newest pairs that were
\* delivered to l and to f.
InStep(l, f, L, F, nl, nf) ==
    /\ L.their = F.my /\ L.my[1] = l /\ F.my[1] = f
    /\ L.sending # NoChain /\ L.rootKey = L.sending.root
    /\ L.rootKey = Append(F.rootKey, {L.my, F.my})
    /\ \/ F.sending = NoChain /\ L.receiving = NoChain /\ nl = 0
       \/ /\ F.sending # NoChain /\ L.receiving # NoChain
          /\ F.sending.root = F.rootKey /\ L.receiving.root = F.rootKey
          /\ nl = F.my[2]
    /\ \/ F.receiving = NoChain /\ nf = 0
       \/ F.receiving # NoChain /\ nf = F.their[2]
    /\ F.their # L.my /\ nf < L.my[2]

\* The body can be read on the receiving chain of s.
OnChain(s, b) ==
    b.pub = s.their /\ s.receiving # NoChain /\ b.key.root = s.receiving.root

\* The bodies B that f sent to l are on l's chain, those that l sent to f on
\* f's chain or on the one that f derives next; the others are late.
ToLeader(f, L, nl, B) == \A b \in B : b.from = f => OnChain(L, b) \/ b.pub[2] < nl

ToFollower(l, L, F, nf, B) ==
    \A b \in B : b.from = l =>
        \/ b.pub = L.my /\ b.key.root = L.sending.root
        \/ OnChain(F, b)
        \/ b.pub[2] < nf

\* What a session that opened the bodies O of the peer q has kept: every number
\* the chain has passed was opened or has its key in the map.
Read(s, O, q, n) ==
    /\ \A id \in s.decrypted : \E c \in O : ReplayKey(c) = id
    /\ \A c \in O : c.from = q /\ c.pub[2] <= n
    /\ \A id \in DOMAIN s.skipped :
          /\ id[2] # NoKey /\ id[2][2] <= n
          /\ id[2] = s.their => s.skipped[id] = [root |-> s.receiving.root, n |-> id[1]]
    /\ \A i \in Nat : i < s.receiveCount =>
          <<i, s.their>> \in s.decrypted \union DOMAIN s.skipped

\* l leads: the sessions are in step and so are the bodies under way.
Leads(l) ==
    LET f == Peer(l) IN
    /\ InStep(l, f, session[l], session[f], newest[l], newest[f])
    /\ ToLeader(f, session[l], newest[l], sent)
    /\ ToFollower(l, session[l], session[f], newest[f], sent)

\* The invariant behind InOrderReadable: until a body of an earlier chain
\* arrives the two sessions stay in step, and take turns in leading.
OrderInv ==
    /\ \A p \in Parties : session[p].sendCount = session[p].sending.n
    /\ \A b \in sent : b.key.n = b.number
    /\ ~late => \A p \in Parties : Read(session[p], opened[p], Peer(p), newest[p])
    /\ ~late => \E l \in Parties : Leads(l)

\* A ratchet step to a pair that is newer than all that was read.
LEMMA SteppedRead ==
    ASSUME NEW p \in Parties, NEW s, Typed(s), NEW body, body.pub \in Pairs,
           body.pub # s.their, NEW O, NEW q, NEW n \in Nat,
           Read(s, O, q, n), n < body.pub[2], \A c \in O : c.pub \in Pairs
    PROVE  Read(Stepped(p, s, body), O, q, body.pub[2])
<1> DEFINE t == Stepped(p, s, body)
<1>1. /\ t.skipped = s.skipped /\ t.decrypted = s.decrypted
      /\ t.their = body.pub /\ t.receiveCount = 0
  <2>1. /\ t.skipped = s.skipped /\ t.decrypted = s.decrypted
        /\ t.their = body.pub /\ IsRekeyed(t, p, s, body.pub)
    BY SteppedFields
  <2> HIDE DEF t
  <2> QED
    BY <2>1 DEF IsRekeyed
<1> HIDE DEF t
<1>2. body.pub[2] \in Nat /\ \A c \in O : c.pub[2] \in Nat
  BY DEF Pairs
<1>3. ASSUME NEW id \in DOMAIN t.skipped
      PROVE  id[2] # NoKey /\ id[2][2] <= body.pub[2] /\ id[2] # t.their
  <2>1. id \in MessageKeyIds /\ id[2] # NoKey /\ id[2][2] <= n
    BY <1>1 DEF Typed, Read
  <2>2. id[2] \in Pairs
    BY <2>1 DEF MessageKeyIds
  <2>3. id[2][2] \in Nat
    BY <2>2 DEF Pairs
  <2> QED
    BY <1>1, <1>2, <2>1, <2>3
<1>4. \A c \in O : c.from = q /\ c.pub[2] <= body.pub[2]
  BY <1>2 DEF Read
<1> QED
  BY <1>1, <1>3, <1>4 DEF Read, t

\* decrypt() opens a body that is on the receiving chain, unless its number is
\* in the replay set or the limit stops it.
LEMMA OpensOnChain ==
    ASSUME NEW t, Typed(t), NEW body \in Bodies, OnChain(t, body),
           body.key.n = body.number,
           NEW O, NEW q, NEW n, Read(t, O, q, n), NEW done,
           \/ Refused(done, t, body)
           \/ FromSkipped(done, t, body)
           \/ \E k \in Nat \ {0} : Limited(done, t, body, k)
           \/ \E k \in Nat : FromCurrent(done, t, body, k)
    PROVE  \/ done.result \in {"opened", "limit"} /\ ReplayKey(body) \notin t.decrypted
           \/ done.s = t /\ done.result = "replay" /\ ReplayKey(body) \in t.decrypted
<1>1. /\ body.number \in Nat /\ body.key \in ChainKeys
      /\ t.receiving.n \in Nat /\ t.receiveCount = t.receiving.n
  BY DEF Bodies, Typed, ChainKeys
<1>2. body.key = [root |-> t.receiving.root, n |-> body.number]
  BY <1>1 DEF OnChain, ChainKeys
<1>3. CASE Refused(done, t, body)
  BY <1>3 DEF Refused, OnChain
<1>4. CASE FromSkipped(done, t, body)
  <2>1. ReplayKey(body)[1] = body.number /\ ReplayKey(body)[2] = t.their
    BY DEF ReplayKey, OnChain
  <2>2. ReplayKey(body) \in DOMAIN t.skipped
    BY <1>4 DEF FromSkipped
  <2>3. t.skipped[ReplayKey(body)] = body.key
    BY <1>2, <2>1, <2>2 DEF Read
  <2> QED
    BY <1>4, <2>3 DEF FromSkipped, Verdict
<1>5. ASSUME NEW k, Limited(done, t, body, k)
      PROVE  done.result = "limit" /\ ReplayKey(body) \notin t.decrypted
  BY <1>5 DEF Limited
<1>6. ASSUME NEW k \in Nat, FromCurrent(done, t, body, k)
      PROVE  done.result = "opened" /\ ReplayKey(body) \notin t.decrypted
  <2>1. ReplayKey(body) \notin t.decrypted /\ ReplayKey(body) \notin DOMAIN t.skipped
    BY <1>6 DEF FromCurrent
  <2>2. ReplayKey(body) = <<body.number, t.their>>
    BY DEF ReplayKey, OnChain
  <2>3. ~(body.number < t.receiveCount)
    BY <1>1, <2>1, <2>2 DEF Read
  <2>4. k = IF t.receiveCount < body.number THEN body.number - t.receiveCount ELSE 0
    BY <1>6 DEF FromCurrent
  <2>5. t.receiving.n + k = body.number
    BY <1>1, <2>3, <2>4
  <2>6. Verdict(done, t, [root |-> t.receiving.root, n |-> body.number], body)
    BY <1>6, <2>5 DEF FromCurrent
  <2> QED
    BY <1>2, <2>1, <2>6 DEF Verdict
<1> QED
  BY <1>3, <1>4, <1>5, <1>6

\* What has been read after it.
LEMMA DecryptRead ==
    ASSUME NEW t, Typed(t), NEW body \in Bodies, OnChain(t, body),
           body.key.n = body.number,
           NEW O, NEW q, NEW n \in Nat, Read(t, O, q, n),
           body.from = q, body.pub[2] <= n,
           NEW done, Typed(done.s),
           \/ Refused(done, t, body)
           \/ FromSkipped(done, t, body)
           \/ \E k \in Nat \ {0} : Limited(done, t, body, k)
           \/ \E k \in Nat : FromCurrent(done, t, body, k)
    PROVE  Read(done.s, IF done.result = "opened" THEN O \union {body} ELSE O, q, n)
<1> DEFINE Q == IF done.result = "opened" THEN O \union {body} ELSE O
           u == done.s
<1>1. /\ body.number \in Nat /\ t.receiving.n \in Nat /\ t.receiveCount = t.receiving.n
      /\ body.pub \in Pairs /\ t.their = body.pub /\ t.receiving # NoChain
  BY DEF Bodies, Typed, ChainKeys, OnChain
<1>2. \/ done.result \in {"opened", "limit"} /\ ReplayKey(body) \notin t.decrypted
      \/ done.s = t /\ done.result = "replay" /\ ReplayKey(body) \in t.decrypted
  BY OpensOnChain
<1>3. t.their # NoKey /\ t.their[2] <= n
  BY <1>1 DEF Pairs, NoKey
<1>4. \A c \in Q : c.from = q /\ c.pub[2] <= n
  BY DEF Read
<1>5. /\ \A id \in t.decrypted : \E c \in O : ReplayKey(c) = id
      /\ \A id \in DOMAIN t.skipped :
            /\ id[2] # NoKey /\ id[2][2] <= n
            /\ id[2] = t.their => t.skipped[id] = [root |-> t.receiving.root, n |-> id[1]]
      /\ \A i \in Nat : i < t.receiveCount =>
            <<i, t.their>> \in t.decrypted \union DOMAIN t.skipped
  BY DEF Read
<1>6. O \subseteq Q /\ (done.result = "opened" => body \in Q)
  OBVIOUS
<1>7. CASE Refused(done, t, body)
  BY <1>2, <1>7 DEF Refused
<1> HIDE DEF Q
<1>8. CASE FromSkipped(done, t, body)
  <2>1. done.result = "opened" /\ u.decrypted = t.decrypted \union {ReplayKey(body)}
    BY <1>2, <1>8 DEF FromSkipped, Verdict
  <2>2. /\ u.their = t.their /\ u.receiving = t.receiving
        /\ u.receiveCount = t.receiveCount
        /\ DOMAIN u.skipped = DOMAIN t.skipped \ {ReplayKey(body)}
        /\ \A i \in DOMAIN u.skipped : u.skipped[i] = t.skipped[i]
    BY <1>8 DEF FromSkipped, SameRatchet
  <2>3. \A id \in u.decrypted : \E c \in Q : ReplayKey(c) = id
    BY <1>5, <1>6, <2>1
  <2>4. \A id \in DOMAIN u.skipped :
           /\ id[2] # NoKey /\ id[2][2] <= n
           /\ id[2] = u.their => u.skipped[id] = [root |-> u.receiving.root, n |-> id[1]]
    BY <1>5, <2>2
  <2>5. \A i \in Nat : i < u.receiveCount =>
           <<i, u.their>> \in u.decrypted \union DOMAIN u.skipped
    BY <1>5, <2>1, <2>2
  <2> QED
    BY <1>4, <2>3, <2>4, <2>5 DEF Read, Q
<1>9. ASSUME NEW k \in Nat, NEW m \in Nat,
             u.their = t.their /\ u.receiving.root = t.receiving.root,
             u.receiveCount = t.receiveCount + m,
             DOMAIN u.skipped = DOMAIN t.skipped \union SkipIds(t, k),
             \A id \in SkipIds(t, k) :
                u.skipped[id] = [root |-> t.receiving.root, n |-> id[1]],
             \A id \in DOMAIN t.skipped \ SkipIds(t, k) : u.skipped[id] = t.skipped[id],
             \/ m = k /\ u.decrypted = t.decrypted
             \/ /\ m = k + 1 /\ u.decrypted = t.decrypted \union {ReplayKey(body)}
                /\ done.result = "opened" /\ body.number = t.receiveCount + k
      PROVE  Read(u, Q, q, n)
  <2>1. \A id \in u.decrypted : \E c \in Q : ReplayKey(c) = id
    BY <1>5, <1>6, <1>9
  <2>2. ASSUME NEW id \in DOMAIN u.skipped
        PROVE  /\ id[2] # NoKey /\ id[2][2] <= n
               /\ id[2] = u.their => u.skipped[id] = [root |-> u.receiving.root, n |-> id[1]]
    <3>1. CASE id \in SkipIds(t, k)
      <4>1. id[2] = t.their
        BY <3>1 DEF SkipIds
      <4> QED
        BY <1>3, <1>9, <3>1, <4>1
    <3>2. CASE id \in DOMAIN t.skipped \ SkipIds(t, k)
      BY <1>5, <1>9, <3>2
    <3> QED
      BY <1>9, <3>1, <3>2
  <2>3. ASSUME NEW i \in Nat, i < u.receiveCount
        PROVE  <<i, u.their>> \in u.decrypted \union DOMAIN u.skipped
    <3>1. CASE i < t.receiveCount
      BY <1>5, <1>9, <3>1
    <3>2. CASE i \in t.receiveCount .. t.receiveCount + k - 1
      <4>1. <<i, t.their>> \in SkipIds(t, k)
        BY <3>2 DEF SkipIds
      <4> QED
        BY <1>9, <4>1
    <3>3. CASE i = t.receiveCount + k /\ m = k + 1
      <4>1. m # k
        BY <3>3
      <4>2. body.number = i /\ u.decrypted = t.decrypted \union {ReplayKey(body)}
        BY <1>9, <3>3, <4>1
      <4>3. ReplayKey(body) = <<i, u.their>>
        BY <1>1, <1>9, <4>2 DEF ReplayKey
      <4> QED
        BY <4>2, <4>3
    <3> QED
      BY <1>1, <1>9, <2>3, <3>1, <3>2, <3>3
  <2> QED
    BY <1>4, <2>1, <2>2, <2>3 DEF Read
<1>10. ASSUME NEW k \in Nat, Limited(done, t, body, k) PROVE Read(u, Q, q, n)
  <2>1. /\ u.their = t.their /\ u.receiving.root = t.receiving.root
        /\ u.receiveCount = t.receiveCount + k /\ u.decrypted = t.decrypted
        /\ DOMAIN u.skipped = DOMAIN t.skipped \union SkipIds(t, k)
        /\ \A id \in SkipIds(t, k) :
              u.skipped[id] = [root |-> t.receiving.root, n |-> id[1]]
        /\ \A id \in DOMAIN t.skipped \ SkipIds(t, k) : u.skipped[id] = t.skipped[id]
    BY <1>10 DEF Limited, IsSkip, SameRatchet
  <2> QED
    BY <1>9, <2>1
<1>11. ASSUME NEW k \in Nat, FromCurrent(done, t, body, k) PROVE Read(u, Q, q, n)
  <2>1. /\ u.their = t.their /\ u.receiving.root = t.receiving.root
        /\ u.receiveCount = t.receiveCount + k + 1
        /\ DOMAIN u.skipped = DOMAIN t.skipped \union SkipIds(t, k)
        /\ \A id \in SkipIds(t, k) :
              u.skipped[id] = [root |-> t.receiving.root, n |-> id[1]]
        /\ \A id \in DOMAIN t.skipped \ SkipIds(t, k) : u.skipped[id] = t.skipped[id]
    BY <1>11 DEF FromCurrent, SameRatchet
  <2>2. /\ Verdict(done, t, [root |-> t.receiving.root, n |-> t.receiving.n + k], body)
        /\ ReplayKey(body) \notin t.decrypted
    BY <1>11 DEF FromCurrent
  <2>3. done.result = "opened" \/ done.result = "bad_mac"
    BY <2>2 DEF Verdict
  <2>4. done.result = "opened"
    BY <1>2, <2>2, <2>3
  <2>5. /\ body.key = [root |-> t.receiving.root, n |-> t.receiving.n + k]
        /\ u.decrypted = t.decrypted \union {ReplayKey(body)}
    BY <2>2, <2>4 DEF Verdict
  <2>6. body.key.n = t.receiving.n + k
    BY <2>5
  <2>7. body.number = t.receiveCount + k
    BY <1>1, <2>6
  <2>8. k + 1 \in Nat /\ u.receiveCount = t.receiveCount + (k + 1)
    BY <1>1, <2>1
  <2> QED
    BY <1>9, <2>1, <2>4, <2>5, <2>7, <2>8
<1> QED
  BY <1>7, <1>8, <1>10, <1>11 DEF Q

\* A body that is not late is on the receiving chain, or on the one that the
\* leader has started and the follower derives when it meets the body.
LEMMA Expected ==
    ASSUME TypeInv, NEW l \in Parties, Leads(l), NEW p \in Parties,
           NEW b \in sent, b.from = Peer(p), newest[p] <= b.pub[2]
    PROVE  \/ OnChain(session[p], b) /\ newest[p] = b.pub[2]
           \/ /\ p = Peer(l) /\ b.pub # session[p].their /\ newest[p] < b.pub[2]
              /\ b.pub = session[l].my /\ b.key.root = session[l].sending.root
<1> DEFINE f == Peer(l)
           L == session[l]
           F == session[f]
<1>1. /\ InStep(l, f, L, F, newest[l], newest[f])
      /\ ToLeader(f, L, newest[l], sent) /\ ToFollower(l, L, F, newest[f], sent)
  BY DEF Leads
<1>2. f \in Parties /\ f # l /\ Peer(f) = l /\ (p = l \/ p = f)
  BY PeerType
<1>3. b.pub[2] \in Nat /\ newest[p] \in Nat /\ ~(b.pub[2] < newest[p])
  BY DEF TypeInv, Bodies, Pairs
<1> HIDE DEF L, F
<1>4. CASE p = l
  <2>1. OnChain(L, b)
    BY <1>1, <1>3, <1>4 DEF ToLeader
  <2>2. newest[l] = b.pub[2]
    BY <1>1, <2>1 DEF OnChain, InStep
  <2> QED
    BY <1>4, <2>1, <2>2 DEF L
<1>5. CASE p = f
  <2>1. b.from = l
    BY <1>2, <1>5
  <2>2. \/ b.pub = L.my /\ b.key.root = L.sending.root
        \/ OnChain(F, b)
    BY <1>1, <1>3, <1>5, <2>1 DEF ToFollower
  <2>3. CASE OnChain(F, b)
    <3>1. newest[f] = b.pub[2]
      BY <1>1, <2>3 DEF OnChain, InStep
    <3> QED
      BY <1>5, <2>3, <3>1 DEF F
  <2>4. CASE b.pub = L.my /\ b.key.root = L.sending.root
    BY <1>1, <1>5, <2>4 DEF InStep, L, F
  <2> QED
    BY <2>2, <2>3, <2>4
<1> QED
  BY <1>2, <1>4, <1>5

\* Once the follower has stepped, the body is on its receiving chain.
LEMMA FollowerMeets ==
    ASSUME TypeInv, NEW l \in Parties, Leads(l), NEW b, b.pub \in Pairs,
           b.pub # session[Peer(l)].their,
           b.pub = session[l].my, b.key.root = session[l].sending.root
    PROVE  /\ ReceivingRoot(session[Peer(l)], b.pub) = session[l].rootKey
           /\ session[l].rootKey # <<>>
           /\ OnChain(Stepped(Peer(l), session[Peer(l)], b), b)
<1> DEFINE f == Peer(l)
           L == session[l]
           F == session[f]
           t == Stepped(f, F, b)
           recv == ReceivingRoot(F, b.pub)
<1>1. f \in Parties /\ Typed(F) /\ Typed(L)
  BY PeerType DEF TypeInv
<1>2. IsRekeyed(t, f, F, b.pub) /\ t.their = b.pub
  BY <1>1, SteppedFields
<1>3. /\ L.rootKey = L.sending.root /\ L.rootKey = Append(F.rootKey, {L.my, F.my})
  BY DEF Leads, InStep
<1>4. recv = L.rootKey
  <2>1. {F.my, L.my} = {L.my, F.my}
    OBVIOUS
  <2> QED
    BY <1>3, <2>1 DEF ReceivingRoot
<1>5. L.rootKey # <<>>
  <2>1. F.rootKey \in Seq(SUBSET Pairs) /\ {L.my, F.my} \in SUBSET Pairs
    BY <1>1, PairType DEF Typed
  <2> HIDE DEF L, F
  <2> QED
    BY <1>3, <2>1
<1> HIDE DEF t, recv, L, F
<1>6. t.receiving = [root |-> recv, n |-> 0]
  BY <1>2 DEF IsRekeyed, recv
<1>7. t.receiving.root = L.rootKey /\ t.receiving # NoChain
  BY <1>4, <1>5, <1>6 DEF NoChain
<1>8. OnChain(t, b)
  BY <1>2, <1>3, <1>7 DEF OnChain, L
<1> QED
  BY <1>4, <1>5, <1>8 DEF t, recv, L, F

\* What decrypt() meets when a body arrives that is not late.
LEMMA Meets ==
    ASSUME TypeInv, OrderInv, ~late, NEW l \in Parties, Leads(l),
           NEW p \in Parties, NEW b \in sent, b.from = Peer(p),
           newest[p] <= b.pub[2]
    PROVE  LET t == Stepped(p, session[p], b)
           IN  OnChain(t, b) /\ Read(t, opened[p], Peer(p), b.pub[2])
<1> DEFINE s == session[p]
           t == Stepped(p, s, b)
<1>1. /\ Typed(s) /\ b.pub \in Pairs /\ newest[p] \in Nat
      /\ \A c \in opened[p] : c.pub \in Pairs
  BY DEF TypeInv, Bodies
<1>2. Read(s, opened[p], Peer(p), newest[p])
  BY DEF OrderInv
<1>3. CASE OnChain(s, b) /\ newest[p] = b.pub[2]
  <2>1. t = s
    BY <1>1, <1>3, SteppedFields DEF OnChain
  <2> HIDE DEF t
  <2> QED
    BY <1>2, <1>3, <2>1 DEF t
<1>4. CASE /\ p = Peer(l) /\ b.pub # s.their /\ newest[p] < b.pub[2]
           /\ b.pub = session[l].my /\ b.key.root = session[l].sending.root
  <2>1. OnChain(t, b)
    BY <1>1, <1>4, FollowerMeets
  <2>2. Read(t, opened[p], Peer(p), b.pub[2])
    BY <1>1, <1>2, <1>4, SteppedRead
  <2> QED
    BY <2>1, <2>2
<1> QED
  BY <1>3, <1>4, Expected

\* The invariant implies readability: what the replay set refuses was opened,
\* since two bodies with the same number and pair are the same body.
LEMMA InvImpliesReadable ==
    ASSUME TypeInv, KeyInv, OrderInv PROVE InOrderReadable
<1> SUFFICES ASSUME ~late, NEW p \in Parties, NEW b \in sent, b.from = Peer(p),
                    b.pub[2] >= newest[p]
             PROVE  Readable(p, b)
  BY DEF InOrderReadable
<1> DEFINE s == session[p]
           t == Stepped(p, s, b)
           done == decrypt(p, s, b)
<1>1. PICK l \in Parties : Leads(l)
  BY DEF OrderInv
<1>2. /\ b \in Bodies /\ b.pub \in Pairs /\ b.number \in Nat /\ b.pub[2] \in Nat
      /\ Typed(s) /\ IsFiniteSet(DOMAIN s.skipped) /\ newest[p] \in Nat
  BY DEF TypeInv, Bodies, Pairs
<1>3. newest[p] <= b.pub[2]
  BY <1>2
<1>4. OnChain(t, b) /\ Read(t, opened[p], Peer(p), b.pub[2])
  BY <1>1, <1>3, Meets
<1>5. Typed(t) /\ t.decrypted = s.decrypted
  BY <1>2, SteppedFields
<1>6. \/ Refused(done, t, b)
      \/ FromSkipped(done, t, b)
      \/ \E k \in Nat \ {0} : Limited(done, t, b, k)
      \/ \E k \in Nat : FromCurrent(done, t, b, k)
  BY <1>2, DecryptCases
<1>7. b.key.n = b.number
  BY DEF OrderInv
<1>8. Outcome(p, b) = done.result
  BY DEF Outcome
<1> HIDE DEF t, done
<1>9. \/ done.result \in {"opened", "limit"}
      \/ ReplayKey(b) \in s.decrypted
  BY <1>2, <1>4, <1>5, <1>6, <1>7, OpensOnChain
<1>10. CASE ReplayKey(b) \in s.decrypted
  <2>1. PICK c \in opened[p] : ReplayKey(c) = ReplayKey(b)
    BY <1>10 DEF OrderInv, Read
  <2>2. /\ c.from = Peer(p) /\ c.pub[2] <= newest[p]
        /\ c \in sent
    BY DEF OrderInv, Read, TypeInv
  <2>3. c.pub = b.pub /\ c.number = b.number
    BY <2>1 DEF ReplayKey
  <2>4. newest[p] <= c.pub[2] /\ ~(newest[p] < c.pub[2]) /\ ~(newest[p] < b.pub[2])
    BY <1>2, <1>3, <2>2, <2>3
  <2>5. OnChain(s, c) /\ OnChain(s, b)
    BY <1>1, <1>3, <2>2, <2>4, Expected
  <2>6. c.key.n = c.number /\ b.key \in ChainKeys /\ c.key \in ChainKeys
    BY <2>2 DEF OrderInv, TypeInv, Bodies
  <2>7. c.key = b.key
    BY <1>7, <2>3, <2>5, <2>6 DEF OnChain, ChainKeys
  <2>8. c = b
    BY <2>2, <2>7 DEF KeyInv, MessageKeyUnique
  <2> QED
    BY <2>8 DEF Readable
<1> QED
  BY <1>8, <1>9, <1>10 DEF Readable

\* The sender of the X3DH message leads first.
LEMMA InitOrder == Init => OrderInv
<1> SUFFICES ASSUME Init PROVE OrderInv
  OBVIOUS
<1> DEFINE a == session["alice"]
           b == session["bob"]
<1>1. /\ a.rootKey = Append(Secret, {<<"alice", FirstRatchetPair>>, SignedPreKey("bob")})
      /\ a.sending = [root |-> a.rootKey, n |-> 0]
      /\ a.receiving = NoChain /\ a.my = <<"alice", FirstRatchetPair>>
      /\ a.their = SignedPreKey("bob") /\ a.sendCount = 0
      /\ b.rootKey = Secret /\ b.sending = NoChain /\ b.receiving = NoChain
      /\ b.my = SignedPreKey("bob") /\ b.their = NoKey
      /\ \A p \in Parties : /\ DOMAIN session[p].skipped = {}
                            /\ session[p].decrypted = {}
                            /\ session[p].receiveCount = 0
  BY InitFields
<1>2. b.sendCount = 0
  BY DEF Init, Parties, initReceiver, NewSession
<1>3. /\ sent = {} /\ \A p \in Parties : opened[p] = {} /\ newest[p] = 0
  BY DEF Init
<1>4. Peer("alice") = "bob" /\ "alice" \in Parties /\ "bob" \in Parties
  BY PeerType DEF Parties
<1> HIDE DEF a, b
<1>5. \A p \in Parties : session[p].sendCount = session[p].sending.n
  BY <1>1, <1>2 DEF Parties, NoChain, a, b
<1>6. a.sending # NoChain
  <2>1. a.rootKey # <<>>
    <3>1. Secret \in Seq(SUBSET Pairs)
      BY SameSecret
    <3>2. {<<"alice", FirstRatchetPair>>, SignedPreKey("bob")} \in SUBSET Pairs
      BY DEF Pairs, Parties, FirstRatchetPair, SignedPreKey
    <3> QED
      BY <1>1, <3>1, <3>2
  <2> QED
    BY <1>1, <2>1 DEF NoChain
<1>7. InStep("alice", "bob", a, b, newest["alice"], newest["bob"])
  <2>1. a.my[1] = "alice" /\ a.my[2] = 5 /\ b.my[1] = "bob" /\ b.their # a.my
    BY <1>1 DEF FirstRatchetPair, SignedPreKey, NoKey
  <2>2. a.rootKey = a.sending.root /\ a.rootKey = Append(b.rootKey, {a.my, b.my})
    BY <1>1
  <2> QED
    BY <1>1, <1>3, <1>4, <1>6, <2>1, <2>2 DEF InStep
<1>8. Leads("alice")
  BY <1>3, <1>4, <1>7 DEF Leads, ToLeader, ToFollower, a, b
<1>9. \A p \in Parties : Read(session[p], opened[p], Peer(p), newest[p])
  BY <1>1, <1>3 DEF Read
<1> QED
  BY <1>3, <1>4, <1>5, <1>8, <1>9 DEF OrderInv

\* A body that is sealed is on the chain of the other side, or on the next.
LEMMA EncryptOrder ==
    ASSUME TypeInv, OrderInv, NEW p \in Parties, encrypt(p) PROVE OrderInv'
<1> DEFINE new == Sealed(p)
<1>1. /\ IsSealed(session'[p], session[p])
      /\ \A q \in Parties \ {p} : session'[q] = session[q]
      /\ sent' = sent \union {new}
      /\ session[p].sending # NoChain
      /\ UNCHANGED <<opened, newest, late>>
  BY EncryptFields
<1>2. /\ new.from = p /\ new.number = session[p].sendCount
      /\ new.pub = session[p].my /\ new.key = session[p].sending
  BY DEF Sealed
<1>3. \A q \in Parties : /\ session[q].sendCount \in Nat /\ session[q].sending.n \in Nat
                         /\ session[q].sendCount = session[q].sending.n
  BY DEF OrderInv, TypeInv, Typed, ChainKeys
<1> HIDE DEF new
<1>4. \A q \in Parties : session'[q].sendCount = session'[q].sending.n
  BY <1>1, <1>3 DEF IsSealed
<1>5. \A b \in sent' : b.key.n = b.number
  BY <1>1, <1>2, <1>3 DEF OrderInv
<1>6. ASSUME NEW q \in Parties
      PROVE  /\ session'[q].rootKey = session[q].rootKey
             /\ session'[q].receiving = session[q].receiving
             /\ session'[q].my = session[q].my /\ session'[q].their = session[q].their
             /\ session'[q].receiveCount = session[q].receiveCount
             /\ session'[q].skipped = session[q].skipped
             /\ session'[q].decrypted = session[q].decrypted
             /\ session'[q].sending.root = session[q].sending.root
             /\ (session'[q].sending = NoChain <=> session[q].sending = NoChain)
  <2>1. CASE q # p
    BY <1>1, <2>1
  <2>2. CASE q = p
    <3>1. session'[p].sending.n = session[p].sending.n + 1
      BY <1>1 DEF IsSealed
    <3>2. session'[p].sending.n # 0 /\ NoChain.n = 0
      BY <1>3, <3>1 DEF NoChain
    <3>3. session'[p].sending # NoChain
      BY <3>2
    <3> QED
      BY <1>1, <2>2, <3>3 DEF IsSealed
  <2> QED
    BY <2>1, <2>2
<1>7. ASSUME ~late'
      PROVE  \A q \in Parties : Read(session'[q], opened'[q], Peer(q), newest'[q])
  <2> SUFFICES ASSUME NEW q \in Parties
               PROVE  Read(session'[q], opened'[q], Peer(q), newest'[q])
    OBVIOUS
  <2>1. Read(session[q], opened[q], Peer(q), newest[q])
    BY <1>1, <1>7 DEF OrderInv
  <2>2. /\ session'[q].receiving = session[q].receiving
        /\ session'[q].their = session[q].their
        /\ session'[q].receiveCount = session[q].receiveCount
        /\ session'[q].skipped = session[q].skipped
        /\ session'[q].decrypted = session[q].decrypted
        /\ opened'[q] = opened[q] /\ newest'[q] = newest[q]
    BY <1>1, <1>6
  <2> QED
    BY <2>1, <2>2 DEF Read
<1>8. ASSUME ~late' PROVE \E l \in Parties : Leads(l)'
  <2>1. PICK l \in Parties : Leads(l)
    BY <1>1, <1>8 DEF OrderInv
  <2> DEFINE f == Peer(l)
             L == session[l]
             F == session[f]
             M == session'[l]
             G == session'[f]
  <2>2. f \in Parties /\ f # l /\ (p = l \/ p = f)
    BY PeerType
  <2>3. /\ InStep(l, f, L, F, newest[l], newest[f])
        /\ ToLeader(f, L, newest[l], sent) /\ ToFollower(l, L, F, newest[f], sent)
    BY <2>1 DEF Leads
  <2>4. /\ M.rootKey = L.rootKey /\ M.receiving = L.receiving
        /\ M.my = L.my /\ M.their = L.their /\ M.sending.root = L.sending.root
        /\ (M.sending = NoChain <=> L.sending = NoChain)
    BY <1>6
  <2>5. /\ G.rootKey = F.rootKey /\ G.receiving = F.receiving
        /\ G.my = F.my /\ G.their = F.their /\ G.sending.root = F.sending.root
        /\ (G.sending = NoChain <=> F.sending = NoChain)
    BY <1>6, <2>2
  <2>6. /\ p = l => new.pub = L.my /\ new.key.root = L.sending.root
        /\ p = f => new.pub = F.my /\ new.key.root = F.sending.root /\ F.sending # NoChain
    BY <1>1, <1>2
  <2> HIDE DEF L, F, M, G, f
  <2>7. InStep(l, f, M, G, newest'[l], newest'[f])
    BY <1>1, <2>3, <2>4, <2>5 DEF InStep
  <2>8. ToLeader(f, M, newest'[l], sent')
    <3> SUFFICES ASSUME NEW b \in sent', b.from = f
                 PROVE  OnChain(M, b) \/ b.pub[2] < newest'[l]
      BY DEF ToLeader
    <3>1. CASE b \in sent
      BY <1>1, <2>3, <2>4, <3>1 DEF ToLeader, OnChain
    <3>2. CASE b = new
      <4>1. p = f
        BY <1>2, <3>2
      <4> QED
        BY <2>3, <2>4, <2>6, <3>2, <4>1 DEF InStep, OnChain
    <3> QED
      BY <1>1, <3>1, <3>2
  <2>9. ToFollower(l, M, G, newest'[f], sent')
    <3> SUFFICES ASSUME NEW b \in sent', b.from = l
                 PROVE  \/ b.pub = M.my /\ b.key.root = M.sending.root
                        \/ OnChain(G, b)
                        \/ b.pub[2] < newest'[f]
      BY DEF ToFollower
    <3>1. CASE b \in sent
      BY <1>1, <2>3, <2>4, <2>5, <3>1 DEF ToFollower, OnChain
    <3>2. CASE b = new
      BY <1>2, <2>4, <2>6, <3>2
    <3> QED
      BY <1>1, <3>1, <3>2
  <2> QED
    BY <2>7, <2>8, <2>9 DEF Leads, f, M, G
<1> QED
  BY <1>4, <1>5, <1>7, <1>8 DEF OrderInv

\* On the chain: nothing but the receiving side of p moves.
LEMMA SameChainOrder ==
    ASSUME TypeInv, NEW l \in Parties, Leads(l), NEW p \in Parties,
           \A q \in Parties \ {p} : session'[q] = session[q],
           SameRatchet(session'[p], session[p]),
           session[p].receiving # NoChain, session'[p].receiving # NoChain,
           newest' = newest, sent' = sent
    PROVE  Leads(l)'
<1> DEFINE f == Peer(l)
           L == session[l]
           F == session[f]
           M == session'[l]
           G == session'[f]
<1>1. f \in Parties
  BY PeerType
<1>2. /\ InStep(l, f, L, F, newest[l], newest[f])
      /\ ToLeader(f, L, newest[l], sent) /\ ToFollower(l, L, F, newest[f], sent)
  BY DEF Leads
<1>3. \A q \in Parties :
         /\ session'[q].rootKey = session[q].rootKey
         /\ session'[q].sending = session[q].sending
         /\ session'[q].my = session[q].my /\ session'[q].their = session[q].their
         /\ session'[q].receiving.root = session[q].receiving.root
         /\ (session'[q].receiving = NoChain <=> session[q].receiving = NoChain)
  BY DEF SameRatchet
<1>4. /\ M.rootKey = L.rootKey /\ M.sending = L.sending /\ M.my = L.my
      /\ M.their = L.their /\ M.receiving.root = L.receiving.root
      /\ (M.receiving = NoChain <=> L.receiving = NoChain)
  BY <1>3
<1>5. /\ G.rootKey = F.rootKey /\ G.sending = F.sending /\ G.my = F.my
      /\ G.their = F.their /\ G.receiving.root = F.receiving.root
      /\ (G.receiving = NoChain <=> F.receiving = NoChain)
  BY <1>1, <1>3
<1> HIDE DEF f, L, F, M, G
<1>6. InStep(l, f, M, G, newest[l], newest[f])
  BY <1>2, <1>4, <1>5 DEF InStep
<1>7. ToLeader(f, M, newest[l], sent)
  BY <1>2, <1>4 DEF ToLeader, OnChain
<1>8. ToFollower(l, M, G, newest[f], sent)
  BY <1>2, <1>4, <1>5 DEF ToFollower, OnChain
<1> QED
  BY <1>6, <1>7, <1>8 DEF Leads, f, M, G

\* The follower meets the leader's new pair, steps its ratchet and leads.
LEMMA TurnOrder ==
    ASSUME TypeInv, KeyInv, NEW l \in Parties, Leads(l), NEW p \in Parties,
           p = Peer(l), NEW their \in Pairs, their = session[l].my,
           ReceivingRoot(session[p], their) = session[l].rootKey,
           session[l].rootKey # <<>>,
           \A q \in Parties \ {p} : session'[q] = session[q] /\ newest'[q] = newest[q],
           session'[p].rootKey = SendingRoot(p, session[p], their),
           session'[p].sending = [root |-> SendingRoot(p, session[p], their), n |-> 0],
           session'[p].receiving.root = ReceivingRoot(session[p], their),
           session'[p].their = their, session'[p].my = NextPair(p, session[p]),
           newest'[p] = their[2], sent' = sent
    PROVE  Leads(p)'
<1> DEFINE L == session[l]
           F == session[p]
           G == session'[p]
           send == SendingRoot(p, F, their)
           pair == NextPair(p, F)
<1>1. /\ l # p /\ Peer(p) = l /\ session'[l] = L /\ newest'[l] = newest[l]
  BY PeerType
<1>2. /\ InStep(l, p, L, F, newest[l], newest[p])
      /\ ToLeader(p, L, newest[l], sent) /\ ToFollower(l, L, F, newest[p], sent)
  BY DEF Leads
<1>3. /\ F.pairs \in Nat /\ F.my \in Pairs /\ L.my \in Pairs
      /\ L.rootKey \in Seq(SUBSET Pairs) /\ pair \in Pairs
  BY NextPairType DEF TypeInv, Typed
<1>4. send = Append(L.rootKey, {pair, their})
  BY DEF SendingRoot
<1>5. {pair, their} \in SUBSET Pairs
  BY <1>3
<1>6. pair[1] = p /\ pair[2] = FirstRatchetPair + F.pairs
  BY DEF NextPair
<1>7. F.my[2] < pair[2] /\ F.my[1] = p
  <2>1. Known(session, F.my) /\ F.my[1] = p
    BY <1>2 DEF KeyInv, InStep
  <2> QED
    BY <1>6, <2>1 DEF Known
<1> HIDE DEF L, F, G, send, pair
<1>8. send # <<>>
  BY <1>3, <1>4, <1>5
<1>9. /\ G.their = L.my /\ G.my = pair /\ G.rootKey = send
      /\ G.sending = [root |-> send, n |-> 0] /\ G.receiving.root = L.rootKey
      /\ newest'[p] = L.my[2]
  BY DEF L, G, F, send, pair
<1>10. G.sending # NoChain /\ G.receiving # NoChain /\ G.sending.root = send
  <2>1. L.rootKey # <<>>
    BY DEF L
  <2> QED
    BY <1>8, <1>9, <2>1 DEF NoChain
<1>11. L.their = F.my /\ L.my[1] = l /\ L.sending # NoChain /\ L.sending.root = L.rootKey
  BY <1>2 DEF InStep
<1>12. newest[l] < pair[2] /\ L.their # G.my
  <2>1. newest[l] = 0 \/ newest[l] = F.my[2]
    BY <1>2 DEF InStep
  <2>2. pair[2] > 0 /\ G.my = pair /\ pair # F.my
    BY <1>3, <1>6, <1>7, <1>9 DEF FirstRatchetPair, Pairs
  <2> QED
    BY <1>7, <1>11, <2>1, <2>2
<1>13. InStep(p, l, G, L, newest'[p], newest[l])
  <2>1. G.rootKey = Append(L.rootKey, {G.my, L.my})
    BY <1>4, <1>9 DEF L
  <2>2. \/ L.receiving = NoChain /\ newest[l] = 0
        \/ L.receiving # NoChain /\ newest[l] = L.their[2]
    BY <1>2 DEF InStep
  <2>3. G.my[1] = p /\ newest[l] < G.my[2]
    BY <1>6, <1>9, <1>12
  <2> QED
    BY <1>9, <1>10, <1>11, <1>12, <2>1, <2>2, <2>3 DEF InStep
<1>14. ToLeader(l, G, newest'[p], sent)
  <2> SUFFICES ASSUME NEW b \in sent, b.from = l
               PROVE  OnChain(G, b) \/ b.pub[2] < newest'[p]
    BY DEF ToLeader
  <2>1. \/ b.pub = L.my /\ b.key.root = L.sending.root
        \/ OnChain(F, b)
        \/ b.pub[2] < newest[p]
    BY <1>2 DEF ToFollower
  <2>2. /\ newest[p] < newest'[p] /\ newest[p] \in Nat /\ newest'[p] \in Nat
        /\ b.pub[2] \in Nat
    BY <1>2, <1>3, <1>9 DEF InStep, TypeInv, Pairs, Bodies
  <2>3. CASE b.pub = L.my /\ b.key.root = L.sending.root
    BY <1>9, <1>10, <1>11, <2>3 DEF OnChain
  <2>4. CASE OnChain(F, b)
    <3>1. newest[p] = b.pub[2]
      BY <1>2, <2>4 DEF OnChain, InStep
    <3> QED
      BY <2>2, <3>1
  <2>5. CASE b.pub[2] < newest[p]
    BY <2>2, <2>5
  <2> QED
    BY <2>1, <2>3, <2>4, <2>5
<1>15. ToFollower(p, G, L, newest[l], sent)
  BY <1>2 DEF ToLeader, ToFollower
<1> QED
  BY <1>1, <1>13, <1>14, <1>15 DEF Leads, G, L

\* A delivery keeps the sessions in step unless the body is late.
LEMMA DeliverOrder ==
    ASSUME TypeInv, KeyInv, OrderInv,
           \A q \in Parties : SecretInv(session[q], opened[q]),
           NEW p \in Parties, NEW body \in sent, Deliver(p, body)
    PROVE  OrderInv'
<1> DEFINE s == session[p]
           u == session'[p]
           t == Stepped(p, s, body)
           done == decrypt(p, s, body)
<1>1. /\ u = done.s /\ Typed(done.s) /\ Typed(t)
      /\ \A q \in Parties \ {p} : session'[q] = session[q]
      /\ body \in Bodies /\ body.pub \in Pairs
      /\ body.from = Peer(p) /\ sent' = sent
      /\ opened'[p] = IF done.result = "opened"
                      THEN opened[p] \union {body} ELSE opened[p]
      /\ \A q \in Parties \ {p} : opened'[q] = opened[q]
      /\ \/ Refused(done, t, body)
         \/ FromSkipped(done, t, body)
         \/ \E k \in Nat \ {0} : Limited(done, t, body, k)
         \/ \E k \in Nat : FromCurrent(done, t, body, k)
  BY DeliverFields
<1>2. \/ body.pub = s.their /\ SameRatchet(u, s)
      \/ /\ body.pub # s.their
         /\ u.rootKey = SendingRoot(p, s, body.pub)
         /\ u.sending = [root |-> SendingRoot(p, s, body.pub), n |-> 0]
         /\ u.receiving.root = ReceivingRoot(s, body.pub)
         /\ u.their = body.pub /\ u.my = NextPair(p, s) /\ u.sendCount = 0
  BY DeliverRatchet
<1>3. \A q \in Parties : session'[q].sendCount = session'[q].sending.n
  <2>1. u.sendCount = u.sending.n
    BY <1>2 DEF SameRatchet, OrderInv
  <2> QED
    BY <1>1, <2>1 DEF OrderInv
<1>4. /\ newest' = [newest EXCEPT ![p] = IF body.pub[2] > @ THEN body.pub[2] ELSE @]
      /\ late' = (late \/ body.pub[2] < newest[p])
  BY DEF Deliver
<1>5. body.pub[2] \in Nat /\ newest \in [Parties -> Nat] /\ newest[p] \in Nat
  BY <1>1 DEF TypeInv, Pairs
<1>6. body.key.n = body.number
  BY DEF OrderInv
<1>7. ASSUME ~late'
      PROVE  /\ \A q \in Parties : Read(session'[q], opened'[q], Peer(q), newest'[q])
             /\ \E l \in Parties : Leads(l)'
  <2>1. ~late /\ newest[p] <= body.pub[2]
    <3>1. ~late /\ ~(body.pub[2] < newest[p])
      BY <1>4, <1>7, Zenon
    <3> QED
      BY <1>5, <3>1
  <2>2. newest'[p] = body.pub[2] /\ \A q \in Parties \ {p} : newest'[q] = newest[q]
    BY <1>4, <1>5, <2>1
  <2>3. PICK l \in Parties : Leads(l)
    BY <2>1 DEF OrderInv
  <2>4. OnChain(t, body) /\ Read(t, opened[p], Peer(p), body.pub[2])
    BY <1>1, <2>1, <2>3, Meets
  <2>5. Read(u, opened'[p], Peer(p), newest'[p])
    <3> HIDE DEF t, done
    <3>1. body.pub[2] <= body.pub[2]
      BY <1>5
    <3>2. Read(done.s, IF done.result = "opened" THEN opened[p] \union {body}
                       ELSE opened[p], Peer(p), body.pub[2])
      BY <1>1, <1>5, <1>6, <2>4, <3>1, DecryptRead
    <3> QED
      BY <1>1, <2>2, <3>2
  <2>6. ASSUME NEW q \in Parties
        PROVE  Read(session'[q], opened'[q], Peer(q), newest'[q])
    <3>1. CASE q = p
      BY <2>5, <3>1
    <3>2. CASE q # p
      BY <1>1, <2>1, <2>2, <3>2 DEF OrderInv
    <3> QED
      BY <3>1, <3>2
  <2> HIDE DEF t, done, u
  <2>7. CASE OnChain(s, body) /\ newest[p] = body.pub[2]
    <3>1. SameRatchet(u, s) /\ s.receiving # NoChain
      BY <1>2, <2>7 DEF OnChain
    <3>2. newest' = newest
      BY <1>4, <1>5, <2>7
    <3>3. u.receiving # NoChain
      BY <3>1 DEF SecretInv, SameRatchet, NoChain
    <3>4. Leads(l)'
      BY <1>1, <2>3, <3>1, <3>2, <3>3, SameChainOrder DEF u
    <3> QED
      BY <2>6, <3>4
  <2>8. CASE /\ p = Peer(l) /\ body.pub # s.their
             /\ body.pub = session[l].my /\ body.key.root = session[l].sending.root
    <3>1. /\ ReceivingRoot(s, body.pub) = session[l].rootKey
          /\ session[l].rootKey # <<>>
      BY <1>1, <2>3, <2>8, FollowerMeets
    <3>2. /\ u.rootKey = SendingRoot(p, s, body.pub)
          /\ u.sending = [root |-> SendingRoot(p, s, body.pub), n |-> 0]
          /\ u.receiving.root = ReceivingRoot(s, body.pub)
          /\ u.their = body.pub /\ u.my = NextPair(p, s)
      BY <1>2, <2>8
    <3>3. Leads(p)'
      BY <1>1, <2>2, <2>3, <2>8, <3>1, <3>2, TurnOrder DEF u
    <3> QED
      BY <2>6, <3>3
  <2> QED
    BY <1>1, <2>1, <2>3, <2>7, <2>8, Expected
<1>8. \A b \in sent' : b.key.n = b.number
  BY <1>1 DEF OrderInv
<1> QED
  BY <1>3, <1>7, <1>8 DEF OrderInv

\* The sessions stay in step in every reachable state.
LEMMA OrderInvariant == Spec => [](TypeInv /\ KeyInv /\ OrderInv)
<1> DEFINE Secrecy == \A p \in Parties : SecretInv(session[p], opened[p])
<1>1. TypeInv /\ KeyInv /\ Secrecy /\ OrderInv /\ [Next]_vars => OrderInv'
  <2> SUFFICES ASSUME TypeInv, KeyInv, Secrecy, OrderInv, [Next]_vars PROVE OrderInv'
    OBVIOUS
  <2>1. CASE UNCHANGED vars
    <3>1. \A l \in Parties : Leads(l) => Leads(l)'
      BY <2>1 DEF vars, Leads
    <3> QED
      BY <2>1, <3>1 DEF vars, OrderInv
  <2> QED
    BY <2>1, EncryptOrder, DeliverOrder DEF Next
<1>2. Spec => []Secrecy
  BY SecretInvariant
<1> HIDE DEF Secrecy
<1> QED
  BY <1>1, <1>2, InitOrder, KeyInvariant, PTL DEF Spec

\* decrypt() reads every body that does not come from an earlier chain than
\* one already met, in any order within a chain, with any losses and repeats:
\* as long as no party is handed such a late body it never refuses one for a
\* wrong key and never meets a body without a receiving chain.
THEOREM InOrderReadableTheorem == Spec => []InOrderReadable
<1>1. TypeInv /\ KeyInv /\ OrderInv => InOrderReadable
  BY InvImpliesReadable
<1> QED
  BY <1>1, OrderInvariant, PTL
=============================================================================
