---------------------------- MODULE DoubleRatchet ----------------------------
(***************************************************************************)
(* End-to-end encryption of the reference client (client/e2ee.ts): X3DH    *)
(* key agreement and the two RatchetSessions it starts, over a network     *)
(* that may reorder, repeat and lose ratchet messages.                     *)
(*                                                                         *)
(* Cryptography is symbolic.  A key pair is named by its owner and an      *)
(* index and stands for both halves; a Diffie-Hellman output is the set of *)
(* the two pairs; a root key is the sequence of the outputs it was derived *)
(* from; a chain key is a root key and the number of times the chain was   *)
(* advanced, which also names the message key derived from it.  AES-GCM    *)
(* opens a body exactly under the key that sealed it: bodies are delivered *)
(* unmodified, so the additional data always matches.                      *)
(***************************************************************************)
EXTENDS Naturals, Sequences, FiniteSets

CONSTANTS
    MaxSkippedKeys,  \* MAX_SKIPPED_KEYS
    WithOneTimeKey,  \* does Bob's bundle hold a one-time prekey?
    MaxSends,        \* bound: messages encrypted in all, and chain length
    MaxPairs         \* bound: ratchet pairs a party generates

ASSUME RatchetAssumption ==
    /\ MaxSkippedKeys \in Nat
    /\ WithOneTimeKey \in BOOLEAN
    /\ MaxSends \in Nat
    /\ MaxPairs \in Nat

VARIABLES
    session,   \* party -> RatchetSession
    sent,      \* set of bodies handed to the network
    opened,    \* history: party -> bodies it decrypted
    twice,     \* history: bodies that were decrypted a second time
    newest,    \* history: party -> highest peer pair delivered to it
    late,      \* history: has a party met a body of an earlier chain?
    overflows  \* history: party -> decryptions refused by the key limit

vars == <<session, sent, opened, twice, newest, late, overflows>>

Parties == {"alice", "bob"}
Peer(p) == CHOOSE q \in Parties : q # p

\* Pairs 1-4 of a party are identity, signed prekey, one-time prekey and
\* ephemeral; the ratchet pairs follow.
Identity(p) == <<p, 1>>
SignedPreKey(p) == <<p, 2>>
OneTimePreKey(p) == <<p, 3>>
Ephemeral(p) == <<p, 4>>
FirstRatchetPair == 5

NoKey == <<>>
NoChain == [root |-> <<>>, n |-> 0]

dh(a, b) == {a, b}

kdfRootKey(root, out) == Append(root, out)

\* The chain that starts with a root key, and the next chain key.
ChainOf(root) == [root |-> root, n |-> 0]

\* Mutant: the chain is not advanced after a message.
advanceChainStuck(chain) == chain

advanceChain(chain) == [chain EXCEPT !.n = @ + 1]

-----------------------------------------------------------------------------
(* X3DH *)

x3dhSender(me, peer, oneTime) ==
    <<dh(Identity(me), SignedPreKey(peer)),
      dh(Ephemeral(me), Identity(peer)),
      dh(Ephemeral(me), SignedPreKey(peer))>>
    \o IF oneTime THEN <<dh(Ephemeral(me), OneTimePreKey(peer))>> ELSE <<>>

x3dhReceiver(me, peer, oneTime) ==
    <<dh(SignedPreKey(me), Identity(peer)),
      dh(Identity(me), Ephemeral(peer)),
      dh(SignedPreKey(me), Ephemeral(peer))>>
    \o IF oneTime THEN <<dh(OneTimePreKey(me), Ephemeral(peer))>> ELSE <<>>

-----------------------------------------------------------------------------
(* RatchetSession *)

\* The constructor: no chains, counters at zero.  pairs counts the ratchet
\* pairs generated so far and names the next one.
NewSession(root, pair, their, sending, pairs) ==
    [rootKey |-> root, sending |-> sending, receiving |-> NoChain,
     my |-> pair, their |-> their, sendCount |-> 0, receiveCount |-> 0,
     previousSendCount |-> 0, skipped |-> <<>>, decrypted |-> {},
     pairs |-> pairs]

initSender(secret, me, their) ==
    LET pair == <<me, FirstRatchetPair>>
        root == kdfRootKey(secret, dh(pair, their))
    IN  NewSession(root, pair, their, ChainOf(root), 1)

initReceiver(secret, pair) == NewSession(secret, pair, NoKey, NoChain, 0)

\* establishSessions
Init ==
    /\ session = [p \in Parties |->
           IF p = "alice"
           THEN initSender(x3dhSender("alice", "bob", WithOneTimeKey),
                           "alice", SignedPreKey("bob"))
           ELSE initReceiver(x3dhReceiver("bob", "alice", WithOneTimeKey),
                             SignedPreKey("bob"))]
    /\ sent = {}
    /\ opened = [p \in Parties |-> {}]
    /\ twice = {}
    /\ newest = [p \in Parties |-> 0]
    /\ late = FALSE
    /\ overflows = [p \in Parties |-> 0]

\* What initReceiverChains and dhRatchetStep have in common: a receiving
\* chain from the current pair, then a fresh pair and a sending chain.
Rekeyed(p, s, their, previous) ==
    LET recv == kdfRootKey(s.rootKey, dh(s.my, their))
        pair == <<p, FirstRatchetPair + s.pairs>>
        send == kdfRootKey(recv, dh(pair, their))
    IN  [s EXCEPT !.rootKey = send, !.receiving = ChainOf(recv),
                  !.sending = ChainOf(send), !.their = their, !.my = pair,
                  !.sendCount = 0, !.receiveCount = 0,
                  !.previousSendCount = previous, !.pairs = @ + 1]

initReceiverChains(p, s, their) == Rekeyed(p, s, their, 0)

dhRatchetStep(p, s, their) == Rekeyed(p, s, their, s.sendCount)

\* decrypt() steps the ratchet whenever the body's key is not the peer key
\* it holds, be the body's chain a later or an earlier one.
Stepped(p, s, body) ==
    IF body.pub = s.their THEN s
    ELSE IF s.receiving # NoChain THEN dhRatchetStep(p, s, body.pub)
    ELSE initReceiverChains(p, s, body.pub)

\* k turns of the loop that stores the keys of messages not seen yet.
Skip(s, k) ==
    LET ids == {<<i, s.their>> : i \in s.receiveCount .. s.receiveCount + k - 1}
        key(id) == [s.receiving EXCEPT !.n = @ + (id[1] - s.receiveCount)]
    IN  [s EXCEPT
           !.skipped = [id \in DOMAIN @ \union ids |->
                          IF id \in ids THEN key(id) ELSE s.skipped[id]],
           !.receiving.n = @ + k, !.receiveCount = @ + k]

\* Mutant: the number of stored keys is not limited.
TooManyNever(s, k) == FALSE

\* The loop throws in turn k when the map has grown past the limit.
TooMany(s, k) ==
    k > 0 /\ Cardinality(DOMAIN Skip(s, k).skipped) > MaxSkippedKeys

\* Mutant: the chain moves on and the counter does not.
UseChainUncounted(s) == [s EXCEPT !.receiving = advanceChain(@)]

\* The next key of the receiving chain is used up before open() is tried.
UseChain(s) == [s EXCEPT !.receiving = advanceChain(@), !.receiveCount = @ + 1]

\* Mutant: a skipped key stays in the map after it was used.
TakeSkippedKept(s, id) == s

TakeSkipped(s, id) ==
    [s EXCEPT !.skipped = [i \in DOMAIN @ \ {id} |-> @[i]]]

\* open() is the last thing decrypt() does on either path.
Open(s, key, body, id) ==
    IF key = body.key
    THEN [s |-> [s EXCEPT !.decrypted = @ \union {id}], result |-> "opened"]
    ELSE [s |-> s, result |-> "bad_mac"]

FromChain(s, body, id) ==
    LET gap == IF s.receiveCount < body.number
               THEN body.number - s.receiveCount ELSE 0
        full == {k \in 1 .. gap : TooMany(s, k)}
    IN  IF s.receiving = NoChain
        THEN [s |-> s, result |-> "no_chain"]
        ELSE IF full # {}
        THEN [s |-> Skip(s, CHOOSE k \in full : \A j \in full : k <= j),
              result |-> "limit"]
        ELSE Open(UseChain(Skip(s, gap)), Skip(s, gap).receiving, body, id)

\* Mutant: decrypt() without the replay check.
decryptNoReplayCheck(p, s, body) ==
    LET t == Stepped(p, s, body)
        id == <<body.number, t.their>>
    IN  IF id \in DOMAIN t.skipped
        THEN Open(TakeSkipped(t, id), t.skipped[id], body, id)
        ELSE FromChain(t, body, id)

\* Mutant: nothing stops a skipped key from being used again.
decryptAgain(p, s, body) ==
    LET t == Stepped(p, s, body)
        id == <<body.number, t.their>>
    IN  IF id \in DOMAIN t.skipped
        THEN Open(TakeSkippedKept(t, id), t.skipped[id], body, id)
        ELSE FromChain(t, body, id)

\* decrypt(): what it leaves in the session, also when it throws.
decrypt(p, s, body) ==
    LET t == Stepped(p, s, body)
        id == <<body.number, t.their>>
    IN  IF id \in t.decrypted
        THEN [s |-> t, result |-> "replay"]
        ELSE IF id \in DOMAIN t.skipped
        THEN Open(TakeSkipped(t, id), t.skipped[id], body, id)
        ELSE FromChain(t, body, id)

-----------------------------------------------------------------------------
(* Actions *)

\* encrypt() throws while there is no sending chain.
encrypt(p) ==
    LET s == session[p] IN
    /\ s.sending # NoChain
    /\ Cardinality(sent) < MaxSends
    /\ sent' = sent \union
         {[id |-> Cardinality(sent), from |-> p, number |-> s.sendCount,
           previous |-> s.previousSendCount, pub |-> s.my,
           key |-> s.sending]}
    /\ session' = [session EXCEPT
                     ![p].sending = advanceChain(@), ![p].sendCount = @ + 1]
    /\ UNCHANGED <<opened, twice, newest, late, overflows>>

\* The network hands any body to its addressee, any number of times.
Deliver(p, body) ==
    LET done == decrypt(p, session[p], body) IN
    /\ body.from = Peer(p)
    /\ done.s.pairs <= MaxPairs /\ done.s.receiveCount <= MaxSends
    /\ session' = [session EXCEPT ![p] = done.s]
    /\ opened' = [opened EXCEPT
                    ![p] = IF done.result = "opened" THEN @ \union {body} ELSE @]
    /\ twice' = IF done.result = "opened" /\ body \in opened[p]
                THEN twice \union {body} ELSE twice
    /\ newest' = [newest EXCEPT ![p] = IF body.pub[2] > @ THEN body.pub[2] ELSE @]
    /\ late' = (late \/ body.pub[2] < newest[p])
    /\ overflows' = [overflows EXCEPT
                       ![p] = IF done.result = "limit" THEN @ + 1 ELSE @]
    /\ UNCHANGED sent

Next ==
    \/ \E p \in Parties : encrypt(p)
    \/ \E p \in Parties, body \in sent : Deliver(p, body)

Spec == Init /\ [][Next]_vars

-----------------------------------------------------------------------------
(* Properties *)

Pairs == Parties \X (Nat \ {0})
ChainKeys == [root : Seq(SUBSET Pairs), n : Nat]
MessageKeyIds == Nat \X (Pairs \union {NoKey})

Bodies == [id : Nat, from : Parties, number : Nat, previous : Nat,
           pub : Pairs, key : ChainKeys]

\* The state of both sessions has the types RatchetSession declares.  (The
\* map of skipped keys is typed by its entries: the set of all such maps is
\* not enumerable.)
TypeOK ==
    /\ \A p \in Parties :
          /\ DOMAIN session[p].skipped \subseteq MessageKeyIds
          /\ \A id \in DOMAIN session[p].skipped :
                session[p].skipped[id] \in ChainKeys
          /\ session[p].rootKey \in Seq(SUBSET Pairs)
          /\ {session[p].sending, session[p].receiving} \subseteq ChainKeys
          /\ session[p].my \in Pairs
          /\ session[p].their \in Pairs \union {NoKey}
          /\ session[p].decrypted \subseteq MessageKeyIds
          /\ session[p].receiveCount = session[p].receiving.n
    /\ sent \subseteq Bodies
    /\ opened \in [Parties -> SUBSET sent]

\* A ratchet body is turned into plaintext at most once, whatever the
\* network repeats or reorders and however far the ratchet has moved.
OpenedOnce == twice = {}

\* AES-GCM requires it: no message key ever seals two bodies, also after the
\* ratchet was stepped by bodies that arrive late or twice.
MessageKeyUnique == \A b, c \in sent : b.key = c.key => b = c

\* Can the chain key still produce the message key?
Derives(chain, key) == chain.root = key.root /\ chain.n <= key.n

\* Forward secrecy: the key of a body that was opened, and of a body that was
\* sealed, can no longer be computed from what the session keeps.
ForwardSecrecy ==
    \A p \in Parties :
        LET s == session[p] IN
        /\ \A b \in opened[p] :
              /\ ~Derives(s.receiving, b.key)
              /\ \A id \in DOMAIN s.skipped : s.skipped[id] # b.key
        /\ \A b \in sent : b.from = p => ~Derives(s.sending, b.key)

\* What decrypt() would make of the body now.
Outcome(p, body) == decrypt(p, session[p], body).result

Readable(p, body) ==
    body \in opened[p] \/ Outcome(p, body) \in {"opened", "limit"}

\* As long as no party was handed a body of an earlier chain, every body of
\* the current or the next chain can be opened, in any order within the
\* chain, through repeats of bodies already opened and through the losses.
InOrderReadable ==
    ~late => \A p \in Parties, b \in sent :
        b.from = Peer(p) /\ b.pub[2] >= newest[p] => Readable(p, b)

\* What decrypt() announces ("Handles out-of-order and DH ratchet steps"):
\* every body can be opened whenever it arrives.
OutOfOrderReadable ==
    \A p \in Parties, b \in sent : b.from = Peer(p) => Readable(p, b)

\* The map of skipped keys exceeds its limit by no more than one key for each
\* decryption that was refused because of the limit.
SkippedBound ==
    \A p \in Parties :
        Cardinality(DOMAIN session[p].skipped) <= MaxSkippedKeys + overflows[p]
=============================================================================
