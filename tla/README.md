# A TLA+ model of the WhatsApp server

The repository is a server that holds many WhatsApp accounts at once. It pairs
them through an admin API, through public links and through a user portal, sends
messages for them through a rate limiter, works off a bulk queue, and keeps
its tables in PostgreSQL. It is written against `whatsmeow-custom/`, a copy
of the whatsmeow library: the websocket client, its signal sessions and its
device store. This directory holds the modules that model the server and the parts
of the library that decide whether an account is online, whether its messages can be
decrypted and whether its app state agrees with the phone's, the configurations
that check them with TLC, and the proofs.

## Inventory

| Part | State | Operations | Talks to |
|---|---|---|---|
| Send path (`message_safety.go`, `main.go`) | `Session.mu`, the row `message_safety_state`, `recipientRateLimitUntil`, settings | `safeSendMessage`: lock, pause check, limiter check, account health, recipient lookup with LID fallback, typing delay, send, record | the whatsmeow client, PostgreSQL, account health; called by the API, the bulk worker, the automatic message |
| Bulk queue (`bulk_messaging.go`) | table `bulk_messages`, its unique index | import, claim, mark sent or failed, recovery of stuck rows, pause, resume, retry, clear, cancel, worker loop | the send path, the session manager |
| Session manager (`main.go`, `admin_routes.go`, `admin_logout.go`) | two maps (`sessions`, `pending`), `user_sessions`, `whatsapp_sessions`, `pairing_links` | pair, poll, reconnect, log out, load at start | the client, the device store, the automatic message |
| Startup and migration (`main.go`, `sqlite_migration.go`) | the PostgreSQL tables, the old SQLite files | copy the old rows, build and connect a client for every row | the session manager |
| Account health (`account_health.go`) | a cache and the table `whatsapp_account_health` | snapshot, time lock, refresh | the client; asked by the send path |
| User portal (`user_portal.go`, `user_features.go`, `user_whatsapp_pairing.go`) | users, login sessions, accounts, tasks, wallet | register, log in, pair up to three accounts, claim a task, remove an account | the session manager, the send path |
| Admin pages (`admin_schema.go`, `admin_telemetry.go`, `admin_send_logs.go`, `admin_pair_links_status.go`) | none of their own | queries and edits of tables | PostgreSQL |
| Client connection (`client.go`, `connectionevents.go`, `handshake.go`, `socket/`) | `socket`, `socketLock`, `expectedDisconnect`, `forceAutoReconnect`, `isLoggedIn`, the handler queue | connect, disconnect, reset, `onDisconnect`, `autoReconnect`, the handlers of login, failure and stream errors | the server of WhatsApp; the keepalive loop; every request |
| Info queries and keepalive (`request.go`, `keepalive.go`) | `responseWaiters` and their channels | `sendIQ`, `retryFrame`, `receiveResponse`, `clearResponseWaiters`, `keepAliveLoop` | the socket |
| Frames (`socket/framesocket.go`) | a partly received frame | `processData`, `readPump`, `Close` | the noise socket |
| Pairing (`pair.go`, `pair-code.go`) | `Store.ID`, the pairing cache | `PairPhone`, `handlePair` | the device store, the connection |
| Prekeys and receiving (`prekeys.go`, `message.go`, `retry.go`, `receipt.go`) | table `whatsmeow_pre_keys`, `lastPreKeyUpload`, signal sessions, the event buffer, `messageRetries` | count, generate, upload and mark keys; decrypt, dispatch, acknowledge, ask the sender or the phone again | the device store, info queries, other devices |
| App state (`appstate.go`, `appstate/`) | versions and hashes of collections, their value MACs, sync keys, `appStateSyncLock`, the times of key requests | fetch and verify snapshots and patches, send a patch, request and take keys, recover from the phone | the device store, info queries, the phone, event handlers |
| Sending (`send.go`) | caches of devices and groups | encrypt for every device, send, check the response | the device store, info queries |

What is hard here:

* **Checks and uses are far apart.** Handlers look at a map or a row, talk to WhatsApp
  for seconds, and then write what they decided. The limiter, the pairing and
  the claims of the bulk queue all have this shape.
* **Errors that do not say what happened.** A send that timed out may have been
  delivered; a logout whose error is ignored may have done nothing.
* **Many hands on one connection.** The application, `autoReconnect`, the
  keepalive loop, the goroutine after a 515 and the node handlers of an older
  socket all set the same two flags and the same pointer.
* **Restarts.** Maps and pauses are lost, rows are not, and the old SQLite file is
  copied over the new rows every time.

`PROJECT.json` lists these hazards one by one with the line where each bites and
the properties that would catch it.

## Modules

| Module | Models | Runs |
|---|---|---|
| `SafeSend`, `MCSafeSend` | the send path of one account | `send`, `send_instances` |
| `SafeSendProofs` | theorems about `SafeSend` | |
| `BulkQueue`, `MCBulkQueue` | the bulk queue | `bulk`, `bulk_live` |
| `BulkQueueProofs` | theorems about `BulkQueue` | |
| `Sessions`, `MCSessions` | the sessions of one user id | `sessions`, `sessions_expired` |
| `SessionsProofs` | theorems about `Sessions` | |
| `Connection`, `MCConnection` | the connection of one client | `connection` |
| `ConnectionProofs` | theorems about `Connection` | |
| `Account` | what a client promises: an abstract specification | (a property of `connection`) |
| `AccountProofs` | `Connection` implements `Account` | |
| `AppState`, `MCAppState` | one app state collection | `appstate`, `appstate_lost` |
| `AppStateProofs` | theorems about `AppState` | |
| `Signal`, `MCSignal` | prekeys and the messages encrypted with them | `signal`, `signal_ack` |
| `SignalProofs` | theorems about `Signal` | |
| `FiniteMaxima` | lemmas about ranks, largest and smallest elements of finite sets | |
| `FrameSocket`, `MCFrameSocket` | the frames of one websocket | `frames_split` |

Each module looks at its neighbours from outside: `BulkQueue` sees `safeSendMessage` as
a call that delivers or not and returns an error or not; `Sessions` sees a client
as the few facts its handlers read (stored, connected, logged in); `Connection` sees
the application as calls that come at any time; `AppState` and `Signal` see the
connection as info queries that may fail and as reconnects.

### SafeSend

A sender is a goroutine on its way through `safeSendMessage`; `pc` names the call
it is at and `mu` is `Session.mu`. `row` is the limiter's row in PostgreSQL, and
`CheckBegin`/`CheckRow` and `RecordBegin`/`RecordCommit` are the two transactions
with the clock reads before them (`at`), so the time a sender uses may be older
than the row it meets. `paused` is the pause after a 429, memory of one process.
`SettingInt` is the clamping of a setting, with an absent or unreadable value
(`Unset`). Restarts lose `mu`, `paused` and the senders, and keep `row`.
`sends` is a history: when WhatsApp accepted a message, whether the limiter had
been asked for it, and whether the limiter was told.

### BulkQueue

Every SQL statement is one step of a goroutine; `table` maps ids to rows and
`index` says whether the unique index exists, which every request drops and
creates again. `Insert` depends on it as PostgreSQL does: with the index a record that is there
already conflicts and nothing is done; without it `ON CONFLICT` names no
constraint, the statement is refused and the importer skips a good record. When that
can happen is `RefusedOnlyByRebuild`; that the index comes back is `IndexReturns`.
`auto` is the setting `bulk_auto_send_enabled`, off by default and saved either way at any time (`SaveAuto`);
the loop does nothing while it is off (`LoopBegin`). `sessions` are the accounts that are
connected, one of which may log out. A worker's row may be recovered from it while it is only slow.
`doubts` counts the times the queue could not know whether a message went out: an
error after a delivery, a crash, a failed status update, a recovery from a live
worker. `DeliveredOnce` is stated relative to it, because the code can do no better
without a delivery id.

### Sessions

One user id. `active` and `pending` are the two maps, `userRow` and `waRow` the
two tables, `link` the pairing links, and `dev` the clients with what
WhatsApp knows of them. A handler reads the maps in its first step and keeps
what it read in `mine`; its later steps run between those of other
handlers, as in the code. `alone` and `clean` are histories that name the
circumstances under which the logout and the rows can be trusted at all: when a
logout overlaps a poll, the poll may bring the session back, and when
the public page ignores a failed save, the next start does not know the session.
`Migrated` is the copy of `users.db` at a start.

### Connection

`dialer` is who holds `socketLock` in `unlockedConnect`, `fresh` the websocket it
has opened; all other critical sections are single actions, and node
handlers, the keepalive loop and the waiters, which do not take that lock, run meanwhile.
`closing[s]` is the goroutine that will run `onDisconnect` for socket `s`,
`running` counts the goroutines of `autoReconnect` (before and after its delay), of a
515 and of a pairing's confirmation. `queue` holds a node that was received
and is handled later, possibly after its socket was closed or replaced.
A request goes through `sendIQ` and `retryFrame` in eight steps and reads the socket,
registers and sends in the order of the code.

An answer is handled by the frame handler of the socket it came over, in three steps: it comes
(`Answer`, kept in `reply[s]`), `receiveResponse` takes the waiter out of the map under the lock
(`taken`), and after the unlock the answer is delivered (`Deliver`). Between these the
socket may close and the caller may give up, so `Deliver` has three outcomes: the node is in the channel;
it is dropped, because the context of the closed socket is done (`dropped`), and the
caller, who is no longer registered, waits until its timeout; or the handler sends on the
channel its caller's `cancelResponse` has closed, and panics (`panicked`). `WaitsOnCurrent` names the drop as its
only exception, and `OneWriter` the cancellation.

Two ways to lose the connection for good are in the code, are reachable in the
model, and are named in the property rather than hidden by it: the
`connect` after a 515 is not tried again when it fails (`gaveUp`), and a websocket
closed between the last frame of the handshake and the assignment of
`OnDisconnect` calls nobody back (`Orphan`).

The comment at `client.go:686` says that `ResetConnection` does nothing if `EnableAutoReconnect` is
false. The code does not look at it, and neither does the action: it closes the socket, and `autoReconnect`
returns at once.

A pairing is handled in two steps: `handlePair` up to `expectDisconnect`, and then the
confirmation (`PairConfirm`), or the `Disconnect` after an error (`PairRefused`). What an error
leaves depends on where it happens: nothing before `Store.ID` is set, a set `Store.ID` when
`Save` fails, a deleted device when the identity cannot be stored. A pair-success that is handled
after the device was deleted is refused, because `Save` returns `ErrDeviceDeleted`
(`store/store.go:278`).

### Account

What the program that uses a client may rely on, without goroutines, flags and
sockets: `link` ("down", "dialling", "up", or "lost", which is closed and not yet noticed),
`device` and, for each info query, where it is: with its caller ("own"), "out" at the server, its answer on the
way "back" over the link that is up or "late" over one that is gone, "lost" with that one, or "done". A link comes up only
through a dial, and nobody dials for a deleted device; a deletion is final; a query
goes out only on a link that is up; giving the link up brings every query that is out
back to its caller. Only a query whose answer had come and was late can be lost with its link.

`Connection` maps `link` to `dialer`, `sock` and `wire` (`Link`), `device` to
`store`, and `query` to the request's step, its channel and who holds it (`Query`: a request that
waits with an empty channel is out while it is registered, back or late while a frame handler has it
in hand, and lost when that one dropped it). `ImplementsAccount` is `Account`'s specification under
this mapping. It rules out, over whole behaviours, what the invariants say of
single states only: no step may bring a link up except the end of a dial, none may undelete a
device, and none may lose a query but the drop of a late answer.

### AppState

One collection. `log` is the server's list of patches; a value MAC is the version
and position it came from, and the LTHash counts how often each MAC was added less how often it was subtracted (a sum that
commutes and does not collide). `row` is the stored version and hash, `macs` the table of value MACs with its primary
key and its cascade. `job` holds the goroutines: a fetch takes `appStateSyncLock`, reads the version,
queries, verifies, and stores each patch in three statements; a sender does the same without the lock
(version, encode, send), applies the server's patches on a conflict and tries once more. `rec` is the handler of a recovery from
the phone, also without the lock. Keys are requested and shared (`keys`, `requested`, `asking`, `asked`), and the
24 hours after which a key is requested again never pass.

The code has windows in which these goroutines spoil each other's work; TLC found them one by one, and
`harm` and `raced` are histories that name exactly those mishaps, so that each property says under
which it may fail and holds under all others:

* a conflict's patches or a recovery are applied while a fetch is between its read and its last statement;
* a patch is verified, or encoded, while the MACs of the stored version are still being written;
* a recovery compares versions and is overtaken before it deletes;
* a row is written between the reset of a full sync and its read;
* a patch that repeats an index violates the primary key after its version was stored ("torn");
* a record's key is not among those a failed fetch asks for ("unlisted"), or arrives between the
  failure and the request ("crossed").

A key that is shared may fail to be stored, which `KeyShare` counts as a fault. A snapshot is the server's own and verifies;
one that did not would end the fetch as any other failure before the store does (`Fails`).

`StoredPairIsServers` holds under all of them. `CaughtUpWhenIdle` is the safety form of "the client
catches up": in a state with nothing left to do it has.

### Signal

Two peers send one message each, starting a session with a prekey from the server or writing in a
session this device has lost. `rows` is `whatsmeow_pre_keys`, `pool` what the server has to hand
out; a key is an id and a key pair, because ids are used again (the next id is the largest stored one
plus one). An upload counts, generates, sends and marks in steps, under `uploadPreKeysLock`; a retry receipt takes a new key past
that lock. An envelope stays in `inbox` and is delivered on every connection until it is
acknowledged; `job` holds the goroutines that decrypt and dispatch it, of which the queue loop
leaves a slow one behind after five minutes, and `tasks` the goroutines that send acknowledgements and retry receipts.
All four combinations of `EnableDecryptedEventBuffer` and `SynchronousAck` are checked.

A goroutine decrypts with what it has loaded (`LoadSession`: the session and the prekey, kept in `view`), and
then, with no lock, stores the session (`PutSession`) and deletes the prekey (`DeletePreKey`). With the event buffer it looks
into the buffer first (`GetBufferedEvent`) and then does the three in one transaction
(`DoDecryptionTxn`), or finds that another goroutine was faster (`TxnTooLate`). So a goroutine left
behind and one of the new connection may both decrypt an envelope that was delivered again. `raced` is the
history of those peers: two goroutines had loaded their session before either stored it. `wiped` names key pairs that
were deleted in the place of an older one with their id, by a goroutine that was late with `DeletePreKey`.

`signal_ack` is what this shows of `SynchronousAck`: the comment at `client.go:84` says that acknowledgements are
only sent after all event handlers return, but for an envelope that was delivered again the second goroutine
finds an old counter and acknowledges it while the handlers of the first are running.

What was simplified: reading the session and the prekey is one step, and transactions are taken to be serial; counting a retry and making its key is one step, as is locking and
generating in an upload; `AutomaticMessageRerequestFromPhone` is off, as by default, so only
`SynchronousAck` asks the phone; the limit of ten incoming retries of one message is out of
reach of the bounds; groups are not modelled, neither their sender keys nor the
first receipt with keys in it (`forceIncludeIdentity`); the server forgets a key it handed out and keeps one per id.

The exceptions in the properties are the code's own: `doubt` is a key the server took without the client
recording it (the answer was lost, or marking failed), `gaveUp` is the retry limit, `mishap` a retry that a
crash or a lost connection cut off, and, without the event buffer, a crash or a refusing handler after the
decryption; `raced` and `wiped` are above. Without the buffer a raced message may be handled twice; with it, the one
that came too late acknowledges, and a crash before the other's handlers ran can lose it.

### FrameSocket

The bytes of the server's frames, cut into websocket messages anywhere, and
`processData` with its slices.

## Runs

| Run | Instance | Shows |
|---|---|---|
| `send` | two senders, one Session, one process, one saved setting, one restart, clock 0..3, windows of 2 and 3 | the mutex excludes, accepted messages keep the cooldown, both window limits hold, nothing is called during a pause, every handler returns |
| `send_instances` | the same with two processes | **violated**: two processes send within the cooldown, contrary to the comment in `message_safety.go:28` |
| `bulk` | two requests, the loop, two rows, three actions, one fault, one logout, a file that repeats a record | no message goes out more often than the doubts explain, "sent" is true, an import is refused its index only by a rebuild that runs meanwhile or a failed statement, a paused, cancelled or cleared row does not go out |
| `bulk_live` | one request, the loop, one row, two accounts, one fault, one crash, one logout, the switch saved at any time | queued rows are taken if the switch stays on and somebody stays connected, "sending" ends, the unique index comes back |
| `sessions` | two handlers, an old device and a new one, one link, one failing statement, one fault, one restart | never two sessions of one id, one automatic message per link, the row names the session in use, a logout forgets |
| `sessions_expired` | one failure less | **violated**: after the code expired a new one is refused, contrary to `public-pairing.html` |
| `connection` | two websockets, two calls of the application, and either one request and one fault, or no request and three faults | one websocket at a time, a lost connection is in somebody's hands, no request waits on a dead socket but for an answer that was dropped with it, a channel has one writer, and the client implements `Account` |
| `frames_split` | three frames, messages of up to nine bytes | **violated**: a frame split in its data is put together wrongly (`framesocket.go:177`) |
| `appstate` | one fetching goroutine, one sender, recoveries, two indexes, two keys, a log of two patches of three shapes (a plain one, a removal under a newer key, a repeated index), two calls or faults | the stored version and hash are the server's, MACs belong to it, uploads verify, handlers are told of what is stored and an idle client has caught up, but for the named mishaps |
| `appstate_lost` | no sender, no fault, two patches under two keys | **violated**: the events of a patch that was stored before a later one of its list failed are never dispatched (`appstate.go:160`) |
| `signal` | two peers, two handler goroutines, three key pairs, three sendings of a message, three retries; a lost session and a new one without fault, each kind with one fault, and one new session with two | a prekey in other hands still decrypts, goes to one peer and is marked only once offered; no message is lost or handled twice but for the named cases |
| `signal_ack` | the same | **violated**: with `SynchronousAck` an envelope is acknowledged while its handlers run, contrary to the comment in `client.go:84` |

The bounds. All hazards of the send path need two senders: one that has passed the check
and one that passes it meanwhile; the windows are short enough to end within
the clock. The bulk queue needs a worker, a second one and an operator at the same time, and
two rows so that a claim can meet the wrong one. Two handlers are what the races of
the session manager are made of, and two devices let a stored one meet a new one.
Two websockets give an old one whose handlers, keepalive loop and callback are
late, and its successor; a third dial then fails, which is a case of its own. An app state collection needs a
patch that is stored and one that depends on its MACs, and two calls so that a sender, a recovery or a full
sync meets another one or a fault. Prekeys need three key pairs: one batch of two and one made past it, so
that an id can be used again; a message is sent three times before its retries end. Time
outs and retries are steps that may happen at any time, so they need no clock.

Deadlock is not checked, because these systems may stop: nothing is left to do
when the bounded calls, faults and requests are used up.

Fairness is assumed in two runs only. `send`: every sender's next step
is eventually taken (goroutines run, calls to WhatsApp end by their contexts), and
`Session.mu` is handed to a waiter in the end (strong fairness of `Lock`,
the starvation mode of `sync.Mutex`). `bulk_live`: handlers and workers run, the loop
comes back every ten seconds, time passes, and the status is asked for again and again. The last one is an
assumption about people, since the page asks when it is loaded and after an action; without it nothing recovers
a stuck row, because the recovery lives in the status handler, and only the next request brings
the index back. Nothing is assumed about who saves the switch or when: with it off, which is the default, or nobody
connected, nothing drains the queue, so `QueueDrains` has both as its premise,
`<>[](auto /\ sessions # {})`.

## Proofs

Every theorem holds for all values of the constants that meet the assumptions next to them.
The proofs of a module are one lemma per action, each saying what the action does to the
conjuncts it can disturb; actions that leave a conjunct alone in the same way share a lemma about
their shape.

| Module | Theorem | States |
|---|---|---|
| `SafeSendProofs` | `TypeCorrect` | `Spec => []TypeOK` |
| | `Mutex` | `Spec => []MutualExclusion` |
| | `Spaced` | with one Session, `Spec => []SpacedSends` |
| | `PauseHolds` | with one Session, `Spec => []NoCallsWhilePaused` |
| | `LimitsHold` | with one Session, `Spec => []WindowLimits` |
| `BulkQueueProofs` | `TypeCorrect` | `Spec => []TypeOK` |
| | `ImportsHaveTheirIndex` | `Spec => []RefusedOnlyByRebuild` |
| | `SentMeansDelivered` | `Spec => []SentWasDelivered` |
| | `OnlyTheClaimantSends` | `Spec => OnlyClaimedGoOut` |
| | `DeliveredAtMostOnce` | `Spec => []DeliveredOnce` |
| `SessionsProofs` | `TypeCorrect` | `Spec => []TypeOK` |
| | `OneSessionPerUser` | `Spec => []OneSession` |
| | `AutoMessageAtMostOnce` | `Spec => []AutoMessageOnce` |
| | `RowNamesActive` | `Spec => []RowMatchesActive` |
| | `LoneLogoutForgets` | `Spec => LogoutForgets` |
| `ConnectionProofs` | `ConnectionTypes` | `Spec => []TypeOK` |
| | `OneWebsocket` | `Spec => []OneConnection` |
| | `NoLostWaiter` | `Spec => []WaitsOnCurrent` |
| | `ChannelsHaveOneWriter` | `Spec => []OneWriter` |
| | `NeverAbandoned` | `Spec => []SomeoneReconnects` |
| `AccountProofs` | `Implements` | `Spec => ImplementsAccount` |
| `AppStateProofs` | `TypeCorrect` | `Spec => []TypeOK` |
| | `StoredPairVouched` | `Spec => []StoredPairIsServers` |
| | `HandlersTold` | `Spec => []ToldUpToVersion` |
| | `UploadsCarryTheHash` | `Spec => []UploadsVerify` |
| | `MACsFollowVersion` | `Spec => []MACsAgree` |
| | `ClientCatchesUp` | `Spec => []CaughtUpWhenIdle` |
| `SignalProofs` | `TypeCorrect` | `Spec => []TypeOK` |
| | `MarkedOnlyIfOffered` | `Spec => []MarkedWasOffered` |
| | `KeysHaveOneOwner` | `Spec => []OneOwner` |
| | `KeysInHandsWork` | `Spec => []OfferedKeysWork` |
| | `NoMessageLost` | `Spec => []NotLost` |
| | `MessagesHandledOnce` | `Spec => []HandledOnce` |

### SafeSend

`SpacedSends` speaks about pairs of messages in the history and is not inductive: the
limiter never looks at the history, only at its row. The invariant that carries the
proof says what the row knows: `RowCovers`, every recorded message is not
later than the row's `last_sent_at`, and `HolderKnows`, the sender that holds
the mutex and passed the check still sees the row it checked, so that the interval
it computed is still long enough when its message goes out.

`WindowLimits` counts messages of the history, which the limiter does not do either. `RowCounts`
says that the row's counters are at least what the history has in the row's windows (they may be
larger: a message that was sent while the limiter was off is recorded when it is on again), and
`WindowKnown` that an approved sender's counters are still below the limits until it records.
The limits it states are the largest the settings allow, because the administrator may change a
setting between two messages.

`NoCallsWhilePaused` needs `NotPaused`, which says of every sender past the gate, not only of one that is
calling, that there is no pause.

`OneSession` (all senders use one `Session`, as they do in one process) is needed for all three: with a
second one the row or the pause may change between the check and the send, which is the counterexample
of `send_instances`.

### BulkQueue

`Sound` is the typed part: rows are below the next id and live exactly if they have a key, keys are
unique, a worker's claim names a row that has or had its key (`Claimed`), and every campaign was begun by a
request of its own (`Counted`). Uniqueness (`UniqueKeys`) is only a part of it here: an insert
finds its key by the index or is refused. `Budget` below rests on it.

* `IndexHeld`: whoever is past `ensureBulkMessageTable` has the index, or is `Excused`: a statement has failed, or another
  request is between its `DROP` and its `CREATE`. `RefusedOnlyByRebuild` looks at the importers only and is not
  inductive: the statement before the inserts is what hands it on.
* `SentOK` adds that a worker about to mark its row as sent has delivered, because `markBulkSent`
  overwrites whatever status is there.
* `Exclusive`: while nothing is in doubt about its message, a worker's row is "sending" for its
  account and no other worker has it. `OnlyClaimedGoOut` is an action property that follows.
* `Budget`: deliveries made, plus workers that may still deliver or returned an error after they did
  (`Carriers`), plus one if the row can still be claimed (`Open`), are at most one plus the doubts. Every action
  moves a unit from one term to another or adds a doubt.

### Sessions

`Typed` is `TypeOK` with `Own`: the device a handler pairs has no code and belongs to no other
handler, and one that is saved had a JID. `OneSession` follows from each write of the maps. `Once`
adds that a link which is not used has started no message. `Orderly` says what handlers know of the maps and the row
while no logout overlapped them; without it `RowMatchesActive` is not inductive, since it speaks of states
with nothing in flight only. `Forgets` says that while a logout is alone nobody else moves and what it removed
stays away.

### Connection

The theorems hold for any number of websockets, requests, faults and calls and either value of
`EnableAutoReconnect`. Four invariants carry them, each one relative to the ones before it:

* `Inv`: `OpenIsHeld`, an open websocket is the client's socket or the one being
  dialled, and `ClosingIsClosed`, onDisconnect runs only for a closed websocket. With the
  part of `TypeOK` that says a dialling client has no socket, at most one is open.
* `AnswersInv`: `Registered`, a request that waits is held (in the map, in a frame handler's hands, or dropped by one)
  or its channel was used; `Settled`, nobody holds a channel before `waitResponse` or between the two attempts,
  and what was dropped does not come back; and `UsedSockets`, no request has the websocket that is being
  dialled. `OneWriter` and `WaitsOnCurrent` are inductive with these. So a
  frame that went out on an open websocket went out on the client's own, although
  `sendNodeAndGetData` read it before and holds no lock while it sends.
* `FreshIsNew`: nobody was called back for the websocket that is being dialled, so
  one that is published after it closed is the orphan `SomeoneReconnects` names.
* `ReconnectsInv`: `HookIsSet`, the handler of an open socket is set, and `LocalIsForced`,
  when something cleared the force flag of a ResetConnection whose onDisconnect has not
  run yet, it expects the disconnect or a goroutine that reconnects is there.

### Account

The initial states map to the
initial state of `Account`, and under `Inv /\ AnswersInv` every step of `Next` is a step of `Account`
or leaves `Link`, `store` and `Query` alone; one lemma per group of actions says which (`BeginStep`: `Dial`,
`DisconnectStep`: `Drop`, `RequestStepStep`: `Ask` or `Finish`, and so on). `AnswersInv` is needed where a
link is given up: every query that is out is in `responseWaiters`, so clearing them releases all of
them; and where an answer is taken or delivered: the handler that has it in hand is the only one, so the query
moves from out to back or late, and from there to its caller or, if the socket is closed, to lost.
Stating the refinement showed that a pair-success handled after a deletion has to be refused, which the
invariants of `Connection` do not ask for.

### AppState

`StoredPairIsServers` looks at the row alone; what is stored next comes from the locals of a goroutine,
which verified it against a list of patches that was read from the server some steps before. `Fits` says what each
goroutine knows at each step (what it fetched is in the log, what it is about to store is `Vouched`), relative to a log
that only grows, so a verified pair stays one: `Extends` and the lemmas about it. `RecoveryOK` says the same of a
recovery. Nothing has to be known of the MACs: a hash over the wrong ones does not verify.

The other four depend on how the statements of several goroutines interleave. `Kinds` says once what
a step may do to the log, the store, the goroutines and the recovery, and each invariant is shown for those kinds
rather than for every action:

* `Shapes`: what the locals of a goroutine are at each step (a snapshot is applied to the empty state, a patch is the next one).
* `Calm`: until `raced`, everybody finds the row as it left it; this is what `Watch` records, turned around. `OneOpen`:
  until then only one of them, the recovery included, has stored a version whose MACs are still to come.
* `Told`: every record of the stored version was dispatched, or is among the mutations a goroutine or the
  recovery still carries. This gives `ToldUpToVersion`.
* `Truth`, until `raced` or "torn": `Honest`, the patches of the log carry the hash of the records they make;
  `TableRight`, the table agrees with the stored version (`Agree`), and between two statements of `storeMACs` with
  the version before it, less the rows already deleted; `SendsRight`, what a sender is about to upload is right, or its version
  is one the server refuses. `Honest` and `SendsRight` carry each other: an upload is right because the table is and because the stored
  hash, which came from the log, is the one of its records. `UploadsVerify` and `MACsAgree` follow.
* `Attentive`, for `CaughtUpWhenIdle`: `Covered`, the client is at the server's version, or a
  notification, a missing key or a goroutine that fetches up to the last patch (`Fetching`) is there; `AllPlaced`, who holds
  `appStateSyncLock` is at work and who asks for a snapshot has the empty state; and `KeysAsked`, a key that was asked for
  is there or on its way. It also needs that no fetch ends early: `PatchHash` shows that `updateHash` with
  `getPrevSetValueMAC` over a right table gives the hash of the new records, also when a patch repeats an index, so a
  patch that is the next one verifies (`Verified`).

The lemmas these rest on are about the records of a log: what one more patch does to them (`NextContent`), that
there is one per index (`OneRecord`), and which table agrees after a snapshot, a deletion or a patch
(`AgreeSnapshot`, `AgreeDelete`, `AgreePatch`).

### Signal

The invariants of the keys, each relative to the ones before it:

* `Typed`: ids and key pairs are unique in the table and an id is never larger than its key pair's number, so
  `getNextPreKeyID` stays within the keys generated; one uploader has keys at a time.
* `Marking`: `Whole`, a batch has every unmarked row up to its last id. This is what makes `MarkPreKeysAsUploaded`,
  which marks by id, right. `FirstUnuploaded` gives it: by the ranks of rows (`FirstN` in
  `FiniteMaxima`) it takes the smallest ids, and all of them if it has to generate more. A key made for a
  receipt past the upload lock is marked from the start, so it cannot fall into the gap.
* `Owned`: an unmarked row whose key the server has is about to be marked or in doubt (`Unmarked`), so a
  new batch has no key twice (`Fresh`); a key the server still has is stored and has no owner (`PoolOK`); a key in a
  retry receipt is nobody else's (`Tickets`); and the session a peer encrypts with was started with a
  key it was given, and is known or can be started (`Given`, `Works`). `OneOwner` is part of it: when a message
  uses a key up and its row goes, it is what shows that nobody else needed the row.

  `DeletePreKey` comes a step after the session was stored, so a row that goes in the place of another is `wiped`.

And those of the messages, with `Lettered`: a peer's envelopes are numbered, so no two are taken for each other
(`LettersOK`); what a goroutine about to store has loaded is backed by envelopes and does not have
its own (`ViewsOK`); the steps of the two modes are apart (`StepsOK`); and the buffer forgets only what was
handled (`BufferOK`).

* `Cared`: `NotLost` says that somebody will still try, but some of those who try can be stopped without a trace, by an
  acknowledgement, a lost connection or a crash. `Sure` counts only those who cannot: an envelope that
  stays at the server and will decrypt, a plaintext that is not buffered in a handler's hands, a receipt that is being made or
  on its way.
* `Failing`: receipts, the phone's copies and second envelopes are for messages that failed. `Counter`:
  without the event buffer, the session's counter keeps a message that neither failed nor raced from being handled twice: once
  one goroutine has stored it, nobody else gets past the load (`Handling` has at most one). `Single`: a message that was not
  delivered twice is in one place at a time, inbox, goroutine, task or receipt (`Stages`), and in none once it has been
  handled. `HandledOnce` follows from the last two.

### Assumptions and limits

The assumptions are named and stand next to the constants; TLC evaluates
them in every run. Those made for the proofs only: `None` is neither a device nor a handler
(`DevicesAssumption`), the sync keys are finitely many, a patch has a mutation and `None` is
neither a stored state nor a value MAC (`AppState`), there are
finitely many handler goroutines and at least one, and a peer's first session is not one from a prekey (`StartsAssumption`).

Checked by TLC only: liveness (`HandlerReturns`, `QueueDrains`, `SendingEnds`, `IndexReturns`), because temporal
properties under fairness are beyond the prover. Every invariant and every action property of the passing runs,
and the refinement, is also a theorem.

## Not modelled

* Generated code, protocol buffers and the binary codec: by far the most lines of the
  repository, and no decisions.
* Media, the cryptography of noise and signal, HTML and JavaScript, pages that only query,
  `supabase.go` (not called).
* `send.go`: device lists, the encryption for each device and the phash are work inside the one call that
  `SafeSend` takes as accepted, refused, limited or in doubt.
* Account health: `SafeSend` lets its verdict be either one at any time, so what is shown
  of the send path holds for a stale verdict as well; the cache that gives it is left out.
* The user portal: it pairs under a random key with steps like those of `Sessions` and sends
  through `SafeSend`. How often a task can be claimed or an account be listed depends on constraints of
  tables that the repository does not create (`task_claims`, `user_whatsapp_accounts`).
* Groups, newsletters, presence, privacy: one info query each.

`PROJECT.json` lists every part with its status.

## What could come next

* `AppState` is one collection with one log; several collections share `appStateSyncLock` and the key requests.
* The user portal and the account health cache, once the tables they rely on are part of the repository.
