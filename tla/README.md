# A TLA+ model of NovaApp's realtime messaging

NovaApp is an end-to-end encrypted messenger: a Flutter app (`lib/`), a Node.js
realtime server (`server/src/`) and a Supabase database (`supabase/`).  This
directory models the path a message takes, from the sender's outbox through the
server's handlers and event log to the recipient's inbox, the sessions,
presence and limits under which all of it runs, and the repository's reference
client with its end-to-end encryption.  TLC checks the models on small instances, TLAPS
proves the main safety properties for all instances.

## 1. The system

| Part | State | Operations | Interacts with |
|---|---|---|---|
| Sessions (`realtime_server.ts`, `protocol/*.ts`) | challenges, session registry, device registry, sockets and their close timers | connect, `auth.response`, session guard, disconnect, register / revoke device, revoke session | directory (may reject), Socket.IO, timers |
| Message handlers (`realtime_server.ts`, `message_dedup.ts`) | dedup window, handlers in progress | `message.send`, `message.delivered`, `message.read`, `sync.request` | store (awaits), rooms |
| Store (`store/*.ts`) | messages, event log, two counters per conversation, presence | `nextSeq`, `persistMessage`, `appendEvent`, `eventsSince`, `latestLogSeq` | Supabase over HTTP |
| Outbox (`outbox_store.dart`, `message_send_service.dart`, `delivery_state.dart`) | table `msg_outbox` | send, flush, ack, receipt, cancel, prune, expire | SQLite, socket |
| Inbox (`inbox_store.dart`, `sync_cursor_store.dart`, `message_receive_service.dart`, `message_sync_service.dart`) | tables `msg_inbox`, `msg_sync_cursor`, receiving ratchet | live message, sync, resume, purge, reset cursor | SQLite, ratchet, socket |
| Lockout and rate limits (`auth_failure_tracker.ts`, `rate_limiter.ts`) | failure windows per address and device, token buckets per address, socket and domain | connection, `auth.response`, every event | clock |
| Presence (`realtime_server.ts`, `supabase_store.ts`) | presence row of an account | `presence.update`, disconnect | sessions, store |
| Reference client (`client/nova_client.ts`) | connection state, session, event queues and waiters, outbox, inbox, cursor | connect, authenticate, reconnect, send, flush, sync | server, application |
| End-to-end encryption (`client/e2ee.ts`) | two ratchet sessions: chains, skipped keys, replay set | X3DH, encrypt, decrypt | network |
| App socket service (`websocket_service.dart`, `lib/core/socket/`) | connection status, timers, in-memory outbox, gap detector | connect, reconnect, heartbeat | network |
| Admin API, directory, configuration, relays, UI | none of their own, or I/O | | |

What is hard here:

* **Interleaving at awaits.**  Server handlers and app calls are async
  functions.  Every await of the store, of SQLite or of the network lets other
  calls run between two statements that belong together: reading a page and
  the head of the log, minting a number and inserting its row, reading a
  counter and writing it back.
* **Failure.**  The server restarts and forgets its dedup window; the app dies
  between two SQL statements; the directory rejects a call half way through a
  revocation; connections drop with acks in flight.
* **Duplicates.**  A client retries what may have arrived; a message arrives
  live, again by sync, and again after a cursor reset.
* **Time.**  A lockout counted from its first failure, buckets that refill
  between calls, a timed out handshake whose answer still arrives.
* **Ordering.**  Late disconnects of old sockets, late acks, receipts before
  acks, rows that become visible in another order than they were numbered.

`PROJECT.json` lists each of these at its line under `hazards`, with the
properties that cover it.

What makes each part correct:

* sessions: one per device, bound to an open socket, opened by a challenge used
  once, gone after a revocation, lost only for a cause of their own; a socket
  without a session is closed;
* pipeline: a message is logged once, nothing is emitted before it is logged,
  acks agree, sequence numbers name one row, paging skips nothing, receipts
  name messages that exist;
* outbox: nothing is lost, the attempt cap holds across crashes, a failure is
  final, retrying ends;
* inbox: a message is applied at most once, a confirmed message is on disk, a
  shown message is not flagged as unreadable, sync skips nothing;
* admission: no bucket and no lockout grants more in a window than its limits;
* presence: an account without a socket ends offline;
* reference client: it believes only in the session of its current socket,
  applies a message once, holds as acked only what is logged, misses nothing
  up to its cursor, and stays blocked;
* encryption: a body is opened once, a key seals one body and is gone when it
  was used, and what arrives in order of its chains can be read.

## 2. Modules

| Module | Models | Proofs |
|---|---|---|
| `SessionLifecycle` | handshake, registry, disconnect, revocation | `SessionLifecycleProofs` |
| `Presence` | presence, on top of `SessionLifecycle` | `PresenceProofs` |
| `Admission` | rate limits and lockout, and the handlers that consult them | `AdmissionProofs` |
| `MessagePipeline` | send, receipt and sync handlers over either store | `MessagePipelineProofs` |
| `ExactlyOnceLog` | abstract: what the handlers promise | `MessagePipelineProofs` (the refinement) |
| `OutboxDelivery` | the sender's outbox and its server | `OutboxDeliveryProofs` |
| `ClientSync` | the receiver's inbox, cursor and sync | `ClientSyncProofs` |
| `NovaClient` | the reference client against its server | `NovaClientProofs` |
| `DoubleRatchet` | X3DH and the ratchet of both parties | `DoubleRatchetProofs` |

`MCMessagePipeline`, `MCClientSync`, `MCAdmission` and `MCNovaClient` add the
symmetry sets and structured constants of the model-checking instances.
`Presence` extends `SessionLifecycle` and conjoins to each of its steps what
the step does to presence, so the run of `Presence` checks both.  A definition
whose comment starts with "Mutant" is a plausible mistake in the definition
after it; `PROJECT.json` names the property that catches it.

### Atomicity

On the server an action is the code between two awaits that yield to the event
loop.  Awaits of in-memory code only queue microtasks, which run before the
next socket event, so they do not split an action; awaits of the store and of
the directory do.  In the app an action is one SQL statement, ratchet save or
socket write with the code up to the next one; SQLite executes each statement
atomically.

### SessionLifecycle

A socket is `new`, `open` or `closed`; `data` is `socket.data.session`, `room`
the device room it joined, `sessions` the registry, `challenges` the challenge
store, `devices` the device registry, `closing` the sockets with an armed
disconnect timer, `revokeWait` and `revokeFlush` the revocations suspended in
`directory.revokeDevice` and in the flush delay.  `auth.response` has one
action per way it ends.  Server stop is a `TransportClose` of every socket.
The values of signatures and tokens are left out: a proof is right or wrong.

### Presence

All devices belong to one account.  `stored` is the presence row, `updates` the
`setPresence` requests in flight, oldest first; the database may commit them in
any order.  `onDisconnect` queues an offline record when the socket that closes
was the last of its account.  `overtaken` remembers that a request was
committed before an older one, `leaked` the devices whose revocation the
directory refused; both weaken a property to what the code does and are never
read by an action.

### Admission

Buckets and failure windows over a clock.  A token is `Minute` units of refill,
so the model has integers where the code has fractions of a token, and no
rounding is lost.  `Connect`, the handshake and events consult the buckets in
the order of the code, including the ones that were charged before a later one
refused.  `mark`, `granted` and `failed` are a ghost window that may be opened
at any moment: a bound on it is a bound on every window.

### MessagePipeline

`Requests` are packets; each is handled once and walks through the store calls
of its handler (`pc`, `job`, and the values read so far).  `messages`, `rows`,
`seqCursor` and `logCursor` are the store, `ticks` the dedup window with its
LRU order, `acks`, `live`, `responses` and `refused` what was emitted.  With
`Backend = "supabase"` minting a `log_seq` and inserting the row are two steps,
and persisting an existing key is a conflict that ends the handler; with
`"memory"` an append is one step and persisting overwrites.  PostgREST is
modelled from the requests `supabase_store.ts` sends.  A crash ends all
handlers and empties the dedup window.  The handlers are called without a
`catch`, so a store call that rejects is an unhandled rejection, which ends the
Node process: a failure of any store call is a `Crash`.

`ExactlyOnceLog` has no handlers, window, retries or crashes: a message is
stored under its key with a sequence of its own, then logged, then announced
and acknowledged.  The refinement maps its log and announcements to the
`message.new` events among `rows` and `live`, and its acks to the acks that
carry a sequence.

### OutboxDelivery

A row per (message, device): state, attempts, whether it is due and whether it
is too old.  `Flushers` are calls of `flush` in progress.  Backoff and age are
flags raised by time.  The server side is reduced to what it has stored, the
acks in flight and how far the recipient's confirmation has got.

### ClientSync

One conversation on one device.  The server is a log of events; an event is a
copy of a message for some device, an event that sync passes over (a receipt,
or a message from a blocked sender), or an envelope that cannot be parsed.
`Workers` are the async calls in progress (`onMessageNew`, a round of sync,
`resumePending`).  The session provider is an interface without an
implementation in the repository; it is taken to hand out one ratchet object
per session, persisted as a whole.  Decryption fails for a copy addressed to
another device (the context tag is rebuilt with the local device id) and for a
message key already used.  `resumePending` starts only while no other call is
in progress, as a start-up task; others may start while it runs.  Minting and
inserting an event are one step here: `pipeline_sync_skip` shows what happens
when they are not.  `syncConversation`'s loop is a sequence of rounds.

### NovaClient

A packet is handled by its listener at once (`Receive`); the `async` function
that waits for it goes on some micro tasks later, when later packets of the
same chunk may have been handled.  `queues` holds packets that arrived before
anyone waited for them, `auth` and `sync` the calls in progress.  Connections
break, time out, are evicted by another connection of the device and revoked.
The server is reduced to what the server modules establish: atomic handlers and
an exactly-once log.  Calls of the application come from tasks of their own.

### DoubleRatchet

Cryptography is symbolic: a Diffie-Hellman output is the set of its two key
pairs, a root key the sequence of outputs it was derived from, a chain key a
root key with a number.  A body opens exactly under the key that sealed it, so
two sessions agree when their derivations do, and forward secrecy is a
statement about what can still be derived.  `Deliver` hands any body ever sent
to its recipient, any number of times, in any order.

## 3. Runs

Passing runs (TLC explores the instance completely):

| Run | Shows |
|---|---|
| `session` | two sockets of a device, expiry, evictions, revocations the directory may refuse, presence writes: `OneSessionPerDevice`, `RegistryMatchesSockets`, `ChallengeSingleUse`, `RevocationHolds`, `OfflineWhenGone`, `SessionLossIsCaused`, `SessionlessSocketIsClosed` |
| `admission` | two sockets of an address, failing and succeeding handshakes, a clock: `RateBound`, `LockoutBound` |
| `pipeline_exactly_once` | three requests of two accounts over Supabase with a crash: `EmittedIsLogged`, `LoggedOnce`, `AcksAgree`, `LogSeqUnique`, `PageSkipsNothingLogged`, `ReceiptNamesMessage`, `ReadMarkExists`, `ImplementsExactlyOnceLog` |
| `outbox` | a valid and a malformed message, one flush at a time, a crash: `NothingLost`, `TransmissionsCapped`, `FailedStaysFailed`, `PendingResolves` |
| `client_sync` | two calls in progress, a crash or a reset: `AppliedOnce`, `ReceiptIsStored`, `FailedNeverApplied`, `SyncSkipsNothing` |
| `nova_client` | one own and two foreign messages over two connections: `SessionIsCurrent`, `AppliedOnce`, `AckedIsLogged`, `NothingMissed`, `BlockedIsFinal` |
| `ratchet` | six bodies between two parties: `OpenedOnce`, `MessageKeyUnique`, `ForwardSecrecy`, `InOrderReadable`, `SkippedBound` |

Runs that end in a counterexample, each against a statement of the repository:

| Run | What the code does | Statement |
|---|---|---|
| `pipeline_sync_skip` | the cursor of a response passes an event that is not in the page | `realtime_store.ts:23`: paginating on `log_seq` "makes every event recoverable exactly once" |
| `pipeline_device_receipt` | receipts for per-device copies are refused | `docs/MESSAGE_PROTOCOL.md:159` |
| `outbox_overlap` | overlapping flushes exceed the attempt cap | `outbox_store.dart:95` "Hard cap" |
| `client_own_copy` | another device's copy takes the inbox key, the own copy is dropped | `docs/MULTI_DEVICE_MESSAGING.md:188` |
| `ratchet_out_of_order` | a body of the previous chain that arrives late is unreadable, and derails the ratchet | `e2ee.ts:251` "Handles out-of-order and DH ratchet steps" |

### Bounds

* Two sockets let a session be evicted by a second one, and its disconnect
  arrive before or after.  With lifetimes of 0 and a clock that runs to 1 a
  challenge and a session are valid when they are made and expire at the next
  tick.  One update is in flight when a client sends another.
* Two sockets share the address buckets and failure windows; with a minute of
  2, a threshold of 2, a lockout of 1 and a clock to 2, windows end, meet and
  start again, and buckets are drained, refill and fill up.
* Three requests are a message, its retry, and a sync, a receipt or the send of
  another account with the same id.  A dedup window of 1 is evicted by the
  second key, a page limit of 1 truncates every second page, one crash empties
  the window between a send and its retry.  A request is handled once, so the
  run ends when all have been: `CHECK_DEADLOCK FALSE`.
* Two attempts separate the last attempt from the others; a malformed message
  reaches the permanent failure; two flushes are enough to overlap.
* In `ClientSync` two events with pages of one event need two rounds; two
  calls race on one row, on the ratchet and on the cursor; one of the
  messages disappears, and one has a copy for another device.  A resume
  limit of 1 leaves rows behind.
* Two connections of the reference client are one that breaks and its
  successor, with late packets of the first; two foreign messages with pages of
  one need two rounds of sync.  One packet waits in each direction; a packet
  whose waiter has not gone on yet does not count, so a second packet of its
  chunk can follow.
* Six bodies and four ratchet pairs give several changes of direction; two
  skipped keys are exceeded by a gap of three.

### Fairness

* Sessions: Node fires an armed timer, and the directory call settles.
  Nothing obliges a client, an admin or the clock to act.
* Outbox: the connection comes back, the app keeps calling `flush` while it is
  up (strong fairness, since the connection may drop at any time), SQLite
  answers, and a backoff runs out.  No ack is assumed: retrying ends by the cap.
  `PendingResolves` is checked with one flush at a time: overlapping flushes
  lose increments, which `outbox_overlap` shows.

The other specifications state no fairness and are checked for safety only.

## 4. Proofs

All theorems hold for every value of the constants that satisfies the named
assumptions.

* **Sessions** (`SessionInv`).  `RegistryMatchesSockets` is not inductive: a
  second session on one socket would break it.  The invariant adds that a
  socket has one challenge, unspent until its first session.  From it:
  `OneSessionPerDeviceTheorem`, `RegistryTheorem`, `ChallengeTheorem`,
  `SessionLossTheorem`.  `RevocationTheorem` assumes `~DirectoryMayFail`;
  `RevocationHoldsTheorem` has no such assumption and excepts the devices whose
  revocation was refused.
* **Presence** (`OfflineInv`).  That the row says offline when nothing is in
  flight is not inductive: the invariant says where the offline record of the
  last socket is until then, the newest of the updates in flight.  With it
  `OfflineTheorem`; `PresenceTypes` types both modules.
* **Admission** (`RateInv`, `LockInv`).  `RateBoundTheorem`: what a bucket has
  granted in the window and what it still holds, refill due included, never
  exceed its burst and the refill of the window.  `LockoutBoundTheorem`: the
  failures of the window are those of the tracker's current window and, if that
  began inside it, at most a threshold less one of the window before.
* **Pipeline** (`PipelineInv`, `LogInv`, `ReceiptInv`, `PageInv`).  The dedup window does
  not survive a restart, so exactly-once rests on the store: a key is persisted
  before it is logged, once, by one owner, and never removed.
  `LoggedOnceTheorem`, `EmittedIsLoggedTheorem` and `AcksAgreeTheorem` assume
  the Supabase store; `LogSeqTheorem` and `PipelineTypes` hold for both.  For
  `ReceiptTheorem` and `ReadMarkTheorem` (Supabase) what a receipt says is
  carried from its lookup through both steps of the append.  `PageTheorem`
  (both stores): a page is a complete prefix of what was logged after the
  requested cursor.  The page is cut by counting the rows below each row, so
  the proof counts finite sets of log sequences.
* **Refinement** (`ExactlyOnceTheorem`, Supabase).  Every step of the handlers
  is a step of `ExactlyOnceLog` under the mapping, or a stutter.  Beyond
  `PipelineInv` it needs that a sequence minted by `nextSeq` belongs to one
  handler or one stored message, and that a message still to be emitted was
  announced to nobody.
* **Outbox** (`SerialInv`).  `NothingLostTheorem` holds however flushes
  overlap.  `TransmissionsCappedTheorem` and `FailedStaysFailedTheorem` assume
  one flush at a time; `outbox_overlap` shows why.  `OutboxTypes` types the
  rows and calls.  The invariant relates the
  attempt a flush has read or counted to what is in the table.
* **Inbox** (`ClientInv`).  `ClientTypes` needs that packets, rows and
  envelopes in progress are messages of the log.  `AppliedOnceTheorem` does
  not rest on the inbox, whose row may be purged, but on the ratchet: a call
  between decryption and `markProcessed` holds a key no other call holds, and
  an applied message's key is in the saved ratchet a crash falls back to.
  `ReceiptIsStoredTheorem`: rows are stored before they are confirmed, and
  only expiry deletes.  `SyncSkipsNothingTheorem` (`CursorInv`): the cursor may
  be covered by events that only the call in progress has handled, so the
  invariant follows each sync from its page to the write of the cursor: what
  lies below an event still to be handled is handled or still to be handled.
  `FailedNeverAppliedTheorem` (`WorkInv`): a row is claimed by one call at a
  time and is not processed while it is claimed, so no call marks as unreadable
  what another has applied.
* **Reference client** (`Inv`: `TypeInv`, `PacketInv`, `LogInv`, `ConnInv`).
  Apart from `AppliedOnce` the properties are not inductive, because a packet
  may be dealt with long after it was sent: it is in flight, in a queue, or
  handed to a waiter.
  `PacketInv` says what each kind of packet guarantees until then: an ack or a
  live message names what is in the log, an `auth.success` is of the current
  socket, a page leaves no gap above the cursor of whatever moment it is
  applied in, and a request on its way asks from no later than the cursor.
  `ConnInv` says that a session was admitted, that a socket out of session is
  about to close, and that a client that is blocked or has a challenge has no
  `connect` on its way.  With them `NovaTypes`, `SessionIsCurrentTheorem`,
  `AppliedOnceTheorem`, `AckedIsLoggedTheorem`, `NothingMissedTheorem` and the
  action property `BlockedIsFinalTheorem`.  `AppliedMeans` establishes what the
  loop of `applySync` returns for a page of any length.
* **Ratchet** (`ReplayInv`, `TypeInv`, `KeyInv`, `SecretInv`, `OrderInv`).
  `OpenedOnceTheorem`: whatever a session opened stays in its replay set,
  through every DH step, so that no later delivery reaches the chains with it.
  `RatchetTypes` and `SkippedBoundTheorem` need that the skipped keys are a
  finite map.  `MessageKeyUniqueTheorem`: the root of a sending chain contains
  the fresh pair it was made with, so no two sending chains share a root, and
  within a chain the number grows.  `ForwardSecrecyTheorem`: every opened or set
  aside key is of a shorter root than the session's, or behind its chain.
  `InOrderReadableTheorem`: while nothing arrives late one party leads, and the
  other can follow every chain it was sent; a body of a newer pair makes the
  follower the leader.

Induction over data is done by a least counterexample (`LeastNumber`, from the
well-foundedness of the naturals): the library's induction theorems take an
operator as their parameter, which the provers cannot instantiate.

Only model-checked: the liveness properties `SessionlessSocketIsClosed` and
`PendingResolves`, since fairness and `ENABLED` are out of the prover's reach.
Every safety property of a passing run is the subject of a theorem.

## 5. Observations without a run

* A retry that overtakes its original between `dedup.accept` and
  `persistMessage` is acked with `server_seq` 0 (`realtime_server.ts:618`);
  `AcksAgree` is about acks that carry a sequence.
* Message ids are unique per account in the dedup key and global in the store.
* A store call that rejects ends the process after `nextSeq` and leaves a hole
  in `server_seq`.
* If the directory rejects in `adminRevokeDevice` (`realtime_server.ts:1150`)
  the device keeps its live session; the comment at `:1142` and
  `docs/SOCKET_SECURITY.md:81` describe a revocation that ends it.
* Presence writes that overtake each other leave a stale status, and a process
  that ends leaves its accounts online, where
  `docs/NOVAAPP_REALTIME_E2E_STATUS.md:67` promises "offline automático al caer
  el socket".
* The lockout counts from the first failure of its window: in one period up to
  twice the threshold less one failures pass, not the threshold
  (`auth_failure_tracker.ts:5`).
* The map of skipped keys grows by one key past `MAX_SKIPPED_KEYS` with every
  refused attempt (`e2ee.ts:283`), where `docs/CRYPTOGRAPHIC_VALIDATION.md:120`
  gives 2000 as the limit.  `previous_chain_length` is wrong after
  `initReceiverChains` and is never read.
* In the reference client the continuation of `auth.success` may run after
  later packets of its chunk, so that `device.revoked` or a disconnect is
  overwritten by `authenticated` (`nova_client.ts:174`, `:222`); a live message
  that arrives before the first sync moves the cursor past what was missed; an
  ack may be taken by another `waitForAck`.
* `markAcked` sets `sent` whatever the row's state (`outbox_store.dart:208`); a
  late ack hides a receipt.
* Rows in backoff are overtaken by later messages (`outbox_store.dart:149`);
  `cancel` does not stop a flush that has read the row (`:267`); a crash inside
  `enqueueAll` leaves some devices without a copy (`:136`).
* Two concurrent `send` calls can encrypt with one ratchet state
  (`message_send_service.dart:161`).
* The in-memory outbox evicts its oldest entry at capacity
  (`lib/core/socket/messaging/outbox.dart:116`).
* `SyncCursorStore.advance` is a read and a write: overlapping calls can move
  the cursor back.  Replay is harmless because the inbox deduplicates.
* A live message moves the cursor to its own `log_seq`, past events a sync has
  not fetched; `SyncSkipsNothing` therefore speaks of syncs only.
* Messages that arrive by sync are never confirmed with DELIVERED, and nothing
  calls `pendingDeliveryReceipts`.
* `message_sync_service.dart:16` announces a reset for a cursor ahead of the
  server; no code does that.

## 6. Not modelled

Bytes on the wire: base64, JSON, signatures, AES-GCM beyond which key opens
what; row-level security; the admin HTTP parser, logging and configuration;
typing and call relays, which keep no state (their rate is the `Event` action
of `Admission`); the membership checks of the directory, fixed during a run;
UI, media, WebRTC and plugin wrappers; the Dart ports of the server's protocol
classes; the app's socket service and its in-memory outbox.  See `components`
in `PROJECT.json`.

## 7. Plan

1. Proofs: that a step of `NovaClient`'s server is one that the server modules
   allow, so that the reduction of the server is a theorem as well.
2. The app's socket service: connection status, timers, reconnection and gap
   detection, composed with the server's log as `NovaClient` is.
3. An abstract inbox (a message is absent, confirmed, shown or unreadable) that
   `ClientSync` implements.
4. The ratchet of `DoubleRatchet` below `ClientSync` and the send service.
