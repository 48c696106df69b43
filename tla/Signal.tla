------------------------------- MODULE Signal -------------------------------
(***************************************************************************)
(* One-time prekeys and the messages other devices encrypt with them:      *)
(* prekeys.go, the receiving half of message.go, retry.go, and the prekey  *)
(* and event buffer tables of store/sqlstore/store.go.                     *)
(*                                                                         *)
(* Every peer sends one message.  It starts a session with a prekey that   *)
(* the server hands out, or writes in a session this device has lost       *)
(* ("stale").  What it sends is an envelope, which the server delivers     *)
(* again on every connection until it is acknowledged.  When decryption    *)
(* fails, a retry receipt asks for the message again, from the second one  *)
(* on with a fresh prekey in it, and the peer, a client of this library    *)
(* too, answers it with handleRetryReceipt.                                *)
(*                                                                         *)
(* The server loses nothing but what a fault takes: an info query or its   *)
(* answer, a node sent while there is no connection.                       *)
(*                                                                         *)
(* Decryption reads the session and the prekey in one step, and then, with *)
(* no lock, writes the session and deletes the prekey in two more; with    *)
(* the event buffer these are one transaction, taken to be serial, after a *)
(* look into the buffer.  Only direct messages are modelled: a group       *)
(* message with no sender key, whose first receipt has keys in it already  *)
(* (forceIncludeIdentity), is not.                                         *)
(***************************************************************************)
EXTENDS Integers, FiniteSets, FiniteSetsExt

CONSTANTS
  Peers,        \* devices that send a message
  Slots,        \* goroutines that handle nodes: handlerQueueLoop leaves slow ones behind
  Modes,        \* the client's settings, a set of [buffer, sync]
  Wanted,       \* WantedPreKeyCount, 50
  Initial,      \* the size of the first batch, 812
  Least,        \* MinPreKeyCount, 5
  RetryLimit,   \* retry receipts stop at this count, 5
  MaxKeys,      \* bound: key pairs generated
  MaxSent,      \* bound: envelopes of one peer
  Starts        \* [session, faults]: each peer's session at first, Stale, none (Signed) or
                \* Absent for a peer that sends nothing; and a bound: failures, lost
                \* connections, delays of minutes and crashes

ASSUME SignalAssumption ==
  /\ Wanted \in Nat \ {0} /\ Initial \in Nat /\ Initial >= Wanted /\ Least \in 1..Wanted
  /\ RetryLimit \in Nat /\ MaxKeys \in Nat /\ MaxSent \in Nat
  /\ \A start \in Starts : start.faults \in Nat
  /\ Modes \subseteq [buffer : BOOLEAN, sync : BOOLEAN]
  /\ Slots \subseteq Nat /\ IsFiniteSet(Slots) /\ Slots # {}

VARIABLES
  mode,      \* EnableDecryptedEventBuffer and SynchronousAck
  rows,      \* whatsmeow_pre_keys: [id, pair, up]
  pairs,     \* key pairs generated so far
  recent,    \* lastPreKeyUpload is less than 10 minutes ago
  upload,    \* the goroutines that may be in uploadPreKeys
  pool,      \* the prekeys the server has for this device
  sent,      \* envelopes each peer has sent
  session,   \* the session each peer encrypts with
  recreated, \* the peers whose sessionRecreateHistory is less than an hour old
  inbox,     \* envelopes the server has no acknowledgement for
  seen,      \* those it has delivered on this connection
  receipts,  \* retry receipts on their way to the peers
  asked,     \* messages the phone was asked for
  conn,      \* the goroutine that takes nodes from this connection's queue
  job,       \* what each of them does
  tasks,     \* goroutines that send acks and retry receipts
  retries,   \* messageRetries
  known,     \* sessions this device has, as <<peer, session>>
  spent,     \* envelopes whose message key is gone from the session
  view,      \* the session record each goroutine loaded last and has not stored
  plain,     \* whatsmeow_event_buffer: hashes with a plaintext
  cleared,   \* and those without
  faults,    \* failures that may still happen
  handled,   \* history: how often the event handlers took each message
  gaveUp,    \* history: messages with RetryLimit failures
  mishap,    \* history: messages whose recovery was cut off
  redone,    \* history: messages delivered again before they were acknowledged
  failed,    \* history: messages that could not be decrypted at least once
  owners,    \* history: <<peer, pair>>, who was given which key pair
  offered,   \* history: key pairs the server took or that were made for a receipt
  doubt,     \* history: key pairs the server took without the client recording it
  raced,     \* history: peers whose session two goroutines had loaded at once
  wiped      \* history: key pairs deleted in the place of another with their id

stored == <<rows, pairs>>
wire == <<pool, sent, session, recreated, inbox, receipts, asked>>
work == <<conn, seen, job, tasks, retries>>
decrypted == <<known, spent, view, plain, cleared>>
overlaps == <<raced, wiped>>
story == <<handled, gaveUp, mishap, redone, failed, owners, offered, doubt, overlaps>>
vars == <<mode, stored, recent, upload, wire, work, decrypted, faults, story>>

Uploaders == {"connect", "notification"}
NoKey == [id |-> 0, pair |-> 0]
Keys == [id : 1..MaxKeys, pair : 1..MaxKeys]
KeyOf(r) == [id |-> r.id, pair |-> r.pair]
Stored == {KeyOf(r) : r \in rows}

\* A session is named by the prekey it was started with; with no prekey left it
\* rests on the signed prekey alone.
Stale == [id |-> -1, pair |-> -1]
Signed == NoKey
Absent == [id |-> -2, pair |-> -2]
Sessions == Keys \cup {Stale, Signed, Absent}

ASSUME StartsAssumption ==
  \A start \in Starts : start.session \in [Peers -> {Stale, Signed, Absent}]

NoEnvelope == [p |-> "none", n |-> 0, s |-> Signed, count |-> 0]
NoView == [known |-> {}, spent |-> {}]
Idle == [pc |-> "idle", e |-> NoEnvelope]
NoUpload == [pc |-> "idle", first |-> FALSE, keys |-> {}]

\* handleConnectSuccess has just started the goroutine that counts the keys.
Connecting ==
  [u \in Uploaders |-> IF u = "connect" THEN [NoUpload EXCEPT !.pc = "count"] ELSE NoUpload]

Fault == faults > 0 /\ faults' = faults - 1
NoFault == UNCHANGED faults

Init ==
  /\ mode \in Modes
  /\ rows = {} /\ pairs = 0 /\ recent = FALSE
  /\ upload = Connecting
  /\ pool = {} /\ sent = [p \in Peers |-> 0]
  /\ \E start \in Starts : session = start.session /\ faults = start.faults
  /\ recreated = {}
  /\ inbox = {} /\ seen = {} /\ receipts = {} /\ asked = {}
  /\ conn \in {Min(Slots)} /\ job = [l \in Slots |-> Idle] /\ tasks = {}
  /\ retries = [p \in Peers |-> 0]
  /\ known = {} /\ spent = {} /\ view = [l \in Slots |-> NoView] /\ plain = {} /\ cleared = {}
  /\ handled = [p \in Peers |-> 0] /\ gaveUp = {} /\ mishap = {} /\ redone = {} /\ failed = {}
  /\ owners = {} /\ offered = {} /\ doubt = {} /\ raced = {} /\ wiped = {}

-----------------------------------------------------------------------------
(***************************************************************************)
(* The prekey table                                                        *)
(***************************************************************************)

\* A mistake to check against: the number of rows plus one.
NextPreKeyID_Count == Cardinality(rows) + 1

\* The largest stored id plus one: the id of a deleted key may come again.
getNextPreKeyID == IF rows = {} THEN 1 ELSE Max({r.id : r \in rows}) + 1

\* n new rows with the next ids.
NewRows(n, up) ==
  {[id |-> getNextPreKeyID + i, pair |-> pairs + 1 + i, up |-> up] : i \in 0..(n - 1)}
Generate(n, up) ==
  /\ pairs + n <= MaxKeys
  /\ rows' = rows \cup NewRows(n, up)
  /\ pairs' = pairs + n

\* A mistake to check against: keys are offered whether or not they were uploaded.
Unuploaded_All == rows

\* The unuploaded rows with the smallest ids, at most count of them.
Unuploaded == {r \in rows : ~r.up}
FirstUnuploaded(count) ==
  {r \in Unuploaded : Cardinality({q \in Unuploaded : q.id < r.id}) < count}

\* A mistake to check against: every row is marked.
MarkPreKeys_All(upTo) == rows' = {[r EXCEPT !.up = TRUE] : r \in rows}

MarkPreKeysAsUploaded(upTo) ==
  rows' = {IF r.id <= upTo THEN [r EXCEPT !.up = TRUE] ELSE r : r \in rows}

UploadedPreKeyCount == Cardinality({r \in rows : r.up})

-----------------------------------------------------------------------------
(***************************************************************************)
(* uploadPreKeys and its two callers                                       *)
(***************************************************************************)

UploadTo(u, v) == upload' = [upload EXCEPT ![u] = v]
UploadPc(u, pc) == upload[u].pc = pc
Locked == \E u \in Uploaders : upload[u].pc \in {"send", "mark"}
NotUpload == UNCHANGED <<mode, recent, wire, work, decrypted>>

\* handleConnectSuccess: a goroutine counts the keys in the database and those at
\* the server, and uploads when either is low.
CountKeys ==
  LET db == UploadedPreKeyCount
      count == Cardinality(pool)
      low == count < Least \/ db < Least
  IN
  /\ UploadPc("connect", "count")
  /\ \/ NoFault /\ low
        /\ UploadTo("connect", [NoUpload EXCEPT !.pc = "lock", !.first = db = 0 /\ count = 0])
     \/ NoFault /\ ~low /\ UploadTo("connect", NoUpload)
     \/ Fault /\ UploadTo("connect", NoUpload)
  /\ NotUpload /\ UNCHANGED <<stored, story>>

\* handleEncryptNotification: the server says that few keys are left, once it has
\* handed some out.
handleEncryptNotification ==
  /\ UploadPc("notification", "idle")
  /\ owners # {} /\ Cardinality(pool) < Least
  /\ UploadTo("notification", [NoUpload EXCEPT !.pc = "lock"])
  /\ NotUpload /\ UNCHANGED <<stored, faults, story>>

\* uploadPreKeys takes its lock, and gives up when an upload was just made and the
\* server has enough; a count that fails reads as zero.  Else GetOrGenPreKeys under
\* preKeyLock; when an insert fails the rows before it stay.
JustUploaded == recent /\ Cardinality(pool) >= Wanted
GiveUpUpload(u) ==
  /\ UploadPc(u, "lock") /\ ~Locked /\ JustUploaded
  /\ UploadTo(u, NoUpload)
  /\ NotUpload /\ UNCHANGED <<stored, faults, story>>

GetOrGenPreKeys(u) ==
  LET count == IF upload[u].first THEN Initial ELSE Wanted
      old == FirstUnuploaded(count)
      missing == count - Cardinality(old)
      batch == {KeyOf(r) : r \in old \cup NewRows(missing, FALSE)}
  IN
  /\ UploadPc(u, "lock") /\ ~Locked
  /\ \/ (IF JustUploaded THEN Fault ELSE NoFault)
        /\ Generate(missing, FALSE)
        /\ UploadTo(u, [upload[u] EXCEPT !.pc = "send", !.keys = batch])
     \/ Fault /\ ~JustUploaded /\ UploadTo(u, NoUpload)
        /\ \E n \in 0..(missing - 1) : Generate(n, FALSE)
  /\ NotUpload /\ UNCHANGED story

\* The info query.  The server keeps one key for an id and forgets those it handed
\* out.  A fault loses the query, or its answer after the server took the keys.
PairsOf(keys) == {k.pair : k \in keys}
Accept(keys) ==
  /\ pool' = {k \in pool : \A new \in keys : new.id # k.id} \cup keys
  /\ offered' = offered \cup PairsOf(keys)
SendUpload(u) ==
  /\ UploadPc(u, "send")
  /\ \/ NoFault /\ UploadTo(u, [upload[u] EXCEPT !.pc = "mark"])
        /\ Accept(upload[u].keys) /\ UNCHANGED doubt
     \/ Fault /\ UploadTo(u, NoUpload) /\ UNCHANGED <<pool, offered, doubt>>
     \/ Fault /\ UploadTo(u, NoUpload) /\ Accept(upload[u].keys)
        /\ doubt' = doubt \cup PairsOf(upload[u].keys)
  /\ UNCHANGED <<mode, stored, recent, sent, session, recreated, inbox, receipts, asked,
                 work, decrypted, handled, gaveUp, mishap, redone, failed, owners, overlaps>>

\* The answer is there: the rows up to the last id are marked.
MarkUploaded(u) ==
  /\ UploadPc(u, "mark")
  /\ UploadTo(u, NoUpload)
  /\ \/ /\ NoFault /\ MarkPreKeysAsUploaded(Max({k.id : k \in upload[u].keys}))
        /\ recent' = TRUE /\ UNCHANGED doubt
     \/ /\ Fault /\ doubt' = doubt \cup PairsOf(upload[u].keys)
        /\ UNCHANGED <<rows, recent>>
  /\ UNCHANGED <<mode, pairs, wire, work, decrypted,
                 handled, gaveUp, mishap, redone, failed, owners, offered, overlaps>>

\* Ten minutes pass.
UploadAges ==
  /\ recent /\ recent' = FALSE /\ Fault
  /\ UNCHANGED <<mode, stored, upload, wire, work, decrypted, story>>

Uploading ==
  \/ CountKeys \/ handleEncryptNotification \/ UploadAges
  \/ \E u \in Uploaders : GiveUpUpload(u) \/ GetOrGenPreKeys(u) \/ SendUpload(u) \/ MarkUploaded(u)

-----------------------------------------------------------------------------
(***************************************************************************)
(* The peers                                                               *)
(***************************************************************************)

\* fetchPreKeys by a peer: the server hands out a key and removes it, or has none.
Fetched(p, k) ==
  \/ k \in pool /\ pool' = pool \ {k} /\ owners' = owners \cup {<<p, k.pair>>}
  \/ pool = {} /\ k = Signed /\ UNCHANGED <<pool, owners>>

Envelope(p, s, count) == [p |-> p, n |-> sent[p] + 1, s |-> s, count |-> count]
Sends(p, s, count) ==
  /\ sent[p] < MaxSent
  /\ sent' = [sent EXCEPT ![p] = @ + 1]
  /\ session' = [session EXCEPT ![p] = s]
  /\ inbox' = inbox \cup {Envelope(p, s, count)}
NotPeer == UNCHANGED <<mode, stored, recent, upload, asked, work, decrypted, faults,
                       handled, gaveUp, mishap, redone, failed, offered, doubt, overlaps>>

\* A peer sends its message, in the lost session or in a new one.
PeerSends(p) ==
  /\ sent[p] = 0 /\ session[p] # Absent
  /\ \/ session[p] = Stale /\ Sends(p, Stale, 0) /\ UNCHANGED <<pool, owners>>
     \/ session[p] # Stale /\ \E k \in pool \cup {Signed} : Fetched(p, k) /\ Sends(p, k, 0)
  /\ NotPeer /\ UNCHANGED <<receipts, recreated>>

\* shouldRecreateSession: a peer that has a session starts a new one when this is
\* not the first request and it has not done so for an hour.
shouldRecreateSession(r) == r.count >= 2 /\ r.p \notin recreated

\* handleRetryReceipt: the message again, in a session from the receipt's keys, from
\* a prekey of the server, or in the one there was.
handleRetryReceipt(r) ==
  /\ r \in receipts /\ receipts' = receipts \ {r}
  /\ \/ /\ r.key # NoKey
        /\ owners' = owners \cup {<<r.p, r.key.pair>>}
        /\ Sends(r.p, r.key, r.count) /\ UNCHANGED <<pool, recreated>>
     \/ /\ r.key = NoKey /\ shouldRecreateSession(r)
        /\ recreated' = recreated \cup {r.p}
        /\ \E k \in pool \cup {Signed} : Fetched(r.p, k) /\ Sends(r.p, k, r.count)
     \/ /\ r.key = NoKey /\ ~shouldRecreateSession(r)
        /\ Sends(r.p, session[r.p], r.count) /\ UNCHANGED <<pool, recreated, owners>>
  /\ NotPeer

-----------------------------------------------------------------------------
(***************************************************************************)
(* Receiving                                                               *)
(***************************************************************************)

JobTo(l, pc) == job' = [job EXCEPT ![l] = [@ EXCEPT !.pc = pc]]
\* With SynchronousAck the handler itself sends what there is to send.
Done(l) == IF mode.sync THEN JobTo(l, "wait") ELSE job' = [job EXCEPT ![l] = Idle]
NotReceiving == UNCHANGED <<mode, recent, upload, conn, retries, wire>>

\* The loop of the current connection takes a node from its queue.
Deliver(e) ==
  /\ job[conn] = Idle /\ e \in inbox \ seen
  /\ job' = [job EXCEPT ![conn] = [pc |-> "decrypt", e |-> e]]
  /\ seen' = seen \cup {e}
  /\ NotReceiving /\ UNCHANGED <<stored, tasks, decrypted, faults, story>>

\* handlerQueueLoop goes on without a handler that takes over five minutes.
LeaveBehind ==
  /\ job[conn] # Idle /\ Fault
  /\ \E l \in Slots : job[l] = Idle /\ conn' = l
  /\ UNCHANGED <<mode, recent, upload, retries, wire, seen, job, tasks, stored, decrypted, story>>

\* What the Signal library makes of an envelope: it knows the session and has used
\* up the key, or can decrypt it in that session or with the stored prekey.
Hash(e) == <<e.p, e.n>>
InSession(e) == <<e.p, e.s>> \in known
OldCounter(e) == InSession(e) /\ Hash(e) \in spent
Decryptable(e) == ~OldCounter(e) /\ (InSession(e) \/ e.s = Signed \/ e.s \in Stored)

\* A peer's session record: the sessions in it and the message keys used up.
Record(p) == [known |-> {k \in known : k[1] = p}, spent |-> {h \in spent : h[1] = p}]

\* A mistake to check against: the session is not saved with its new counter.
StoreSession_NoCounter(e, record) ==
  /\ known' = (known \ Record(e.p).known) \cup record.known \cup {<<e.p, e.s>>}
  /\ spent' = (spent \ Record(e.p).spent) \cup record.spent

\* PutSession overwrites the record with the one that was loaded, advanced by e.
StoreSession(e, record) ==
  /\ known' = (known \ Record(e.p).known) \cup record.known \cup {<<e.p, e.s>>}
  /\ spent' = (spent \ Record(e.p).spent) \cup record.spent \cup {Hash(e)}

\* DELETE by id: whatever key pair has the id by now.
RemovePreKey(e) == rows' = {r \in rows : r.id # e.s.id}
Wiped(e) == {r.pair : r \in {q \in rows : q.id = e.s.id /\ q.pair # e.s.pair}}

AckTask(e) == [kind |-> "ack", e |-> e, count |-> 0, key |-> NoKey]
RetryTask(e) == [kind |-> "count", e |-> e, count |-> 0, key |-> NoKey]

\* A mistake to check against: a buffered event counts as processed before its
\* handlers have returned.
AlreadyDone_Buffered(l) ==
  LET e == job[l].e IN
  /\ job[l].pc = "decrypt"
  /\ IF mode.buffer THEN Hash(e) \in plain \cup cleared ELSE OldCounter(e)
  /\ tasks' = tasks \cup {AckTask(e)} /\ Done(l)
  /\ NotReceiving /\ UNCHANGED <<seen, stored, decrypted, faults, story>>

\* The envelope was handled before: a receipt is all that is left to do.
AlreadyDone(l) ==
  LET e == job[l].e IN
  /\ job[l].pc = "decrypt"
  /\ IF mode.buffer THEN Hash(e) \in cleared ELSE OldCounter(e)
  /\ tasks' = tasks \cup {AckTask(e)} /\ Done(l)
  /\ NotReceiving /\ UNCHANGED <<seen, stored, decrypted, faults, story>>

\* bufferedDecrypt with the event buffer: GetBufferedEvent finds the plaintext kept
\* from an earlier try, or nothing.
GetBufferedEvent(l) ==
  LET h == Hash(job[l].e) IN
  /\ job[l].pc = "decrypt" /\ mode.buffer /\ h \notin cleared
  /\ JobTo(l, IF h \in plain THEN "handle" ELSE "txn")
  /\ NotReceiving /\ UNCHANGED <<seen, tasks, stored, decrypted, faults, story>>

\* Then DoDecryptionTxn decrypts and puts the plaintext into the buffer.
DoDecryptionTxn(l) ==
  LET e == job[l].e IN
  /\ job[l].pc = "txn" /\ Decryptable(e) /\ Hash(e) \notin plain \cup cleared
  /\ JobTo(l, "handle")
  /\ StoreSession(e, Record(e.p))
  /\ IF InSession(e) THEN UNCHANGED rows ELSE RemovePreKey(e)
  /\ plain' = plain \cup {Hash(e)}
  /\ NotReceiving /\ UNCHANGED <<seen, tasks, pairs, view, cleared, faults, story>>

\* Another goroutine stored the session after the look into the buffer: the counter
\* is old, and the envelope is acknowledged though the other may still need it.
TxnTooLate(l) ==
  LET e == job[l].e IN
  /\ job[l].pc = "txn" /\ OldCounter(e)
  /\ raced' = raced \cup {e.p}
  /\ tasks' = tasks \cup {AckTask(e)} /\ Done(l)
  /\ NotReceiving
  /\ UNCHANGED <<seen, stored, decrypted, faults,
                 handled, gaveUp, mishap, redone, failed, owners, offered, doubt, wiped>>

\* Without the buffer: LoadSession, LoadPreKey and the decryption.
LoadSession(l) ==
  LET e == job[l].e IN
  /\ job[l].pc = "decrypt" /\ ~mode.buffer /\ Decryptable(e)
  /\ JobTo(l, "store") /\ view' = [view EXCEPT ![l] = Record(e.p)]
  /\ NotReceiving /\ UNCHANGED <<seen, tasks, stored, known, spent, plain, cleared, faults, story>>

\* StoreSession.  What another goroutine stored for the peer since is overwritten.
PutSession(l) ==
  LET e == job[l].e IN
  /\ job[l].pc = "store" /\ view' = [view EXCEPT ![l] = NoView]
  /\ JobTo(l, IF <<e.p, e.s>> \in view[l].known \/ e.s = Signed THEN "handle" ELSE "remove")
  /\ StoreSession(e, view[l])
  /\ raced' = IF view[l] = Record(e.p) THEN raced ELSE raced \cup {e.p}
  /\ NotReceiving
  /\ UNCHANGED <<seen, tasks, stored, plain, cleared, faults,
                 handled, gaveUp, mishap, redone, failed, owners, offered, doubt, wiped>>

\* RemovePreKey, when the message started the session.
DeletePreKey(l) ==
  LET e == job[l].e IN
  /\ job[l].pc = "remove" /\ JobTo(l, "handle")
  /\ RemovePreKey(e) /\ wiped' = wiped \cup Wiped(e)
  /\ NotReceiving
  /\ UNCHANGED <<seen, tasks, pairs, decrypted, faults,
                 handled, gaveUp, mishap, redone, failed, owners, offered, doubt, raced>>

\* The envelope cannot be decrypted (or PutBufferedEvent, an INSERT, finds a row with
\* its hash, which does not happen), or a statement on the way fails: the
\* transaction is rolled back, but without one the session stays stored when the
\* prekey cannot be deleted.  decryptMessages asks for the message again and
\* acknowledges this envelope: in two goroutines, or one after the other.
Undecryptable(e) ==
  ~OldCounter(e) /\ (~Decryptable(e) \/ Hash(e) \in plain \cup cleared)
DecryptFails(l) ==
  LET e == job[l].e IN
  /\ \/ /\ job[l].pc = (IF mode.buffer THEN "txn" ELSE "decrypt")
        /\ Undecryptable(e) /\ NoFault
     \/ job[l].pc \in {"decrypt", "txn", "store", "remove"} /\ Fault
  /\ failed' = failed \cup {e.p}
  /\ tasks' = tasks \cup {RetryTask(e)} \cup (IF mode.sync THEN {} ELSE {AckTask(e)})
  /\ Done(l)
  /\ NotReceiving
  /\ UNCHANGED <<seen, stored, decrypted,
                 handled, gaveUp, mishap, redone, owners, offered, doubt, overlaps>>

\* The event handlers take the message, or one of them refuses it: then there is no
\* acknowledgement, and the server delivers it again on the next connection.
Handle(l) ==
  LET p == job[l].e.p IN
  /\ job[l].pc = "handle"
  /\ \/ /\ NoFault /\ handled' = [handled EXCEPT ![p] = @ + 1]
        /\ IF mode.buffer THEN JobTo(l, "clear") /\ UNCHANGED tasks
           ELSE Done(l) /\ tasks' = tasks \cup {AckTask(job[l].e)}
        /\ UNCHANGED mishap
     \/ /\ Fault /\ job' = [job EXCEPT ![l] = Idle]
        /\ mishap' = IF mode.buffer THEN mishap ELSE mishap \cup {p}
        /\ UNCHANGED <<handled, tasks>>
  /\ NotReceiving
  /\ UNCHANGED <<seen, stored, decrypted, gaveUp, redone, failed, owners, offered, doubt, overlaps>>

ClearBufferedEventPlaintext(l) ==
  LET h == Hash(job[l].e) IN
  /\ job[l].pc = "clear"
  /\ \/ NoFault /\ plain' = plain \ {h} /\ cleared' = cleared \cup {h}
     \/ Fault /\ UNCHANGED <<plain, cleared>>
  /\ tasks' = tasks \cup {AckTask(job[l].e)} /\ Done(l)
  /\ NotReceiving /\ UNCHANGED <<seen, stored, known, spent, view, story>>

Receiving ==
  \/ \E e \in inbox : Deliver(e)
  \/ LeaveBehind
  \/ \E l \in Slots : \/ AlreadyDone(l)
                      \/ GetBufferedEvent(l) \/ DoDecryptionTxn(l) \/ TxnTooLate(l)
                      \/ LoadSession(l) \/ PutSession(l) \/ DeletePreKey(l)
                      \/ DecryptFails(l) \/ Handle(l) \/ ClearBufferedEventPlaintext(l)

-----------------------------------------------------------------------------
(***************************************************************************)
(* Acknowledgements and retry receipts                                     *)
(***************************************************************************)

NotTask == UNCHANGED <<mode, recent, upload, pool, sent, session, recreated, conn, seen, decrypted>>
Ends(t) == tasks' = (tasks \ {t}) \cup (IF mode.sync THEN {AckTask(t.e)} ELSE {})
Becomes(t, v) == tasks' = (tasks \ {t}) \cup {v}

\* The server drops an acknowledged envelope.  A fault: there is no connection.
\* With SynchronousAck this is the handler's last step.
sendAck(t) ==
  /\ t.kind = "ack" /\ tasks' = tasks \ {t}
  /\ job' = [l \in Slots |-> IF job[l].pc = "wait" /\ job[l].e = t.e THEN Idle ELSE job[l]]
  /\ \/ NoFault /\ inbox' = inbox \ {t.e}
     \/ Fault /\ UNCHANGED inbox
  /\ NotTask /\ UNCHANGED <<receipts, asked, retries, stored, story>>

\* sendRetryReceipt counts under its lock; after a restart it goes on from the count
\* in the resent message.  It stops at the limit.
RetryCount(e) ==
  IF retries[e.p] = 0 /\ e.count > 0 THEN e.count + 1 ELSE retries[e.p] + 1
Counted(t) ==
  /\ t.kind = "count"
  /\ retries' = [retries EXCEPT ![t.e.p] = RetryCount(t.e)]
  /\ NotTask
  /\ UNCHANGED <<job, inbox, receipts, handled, mishap, redone, failed, owners, doubt, overlaps>>

NoMoreRetries(t) ==
  /\ Counted(t) /\ RetryCount(t.e) >= RetryLimit
  /\ Ends(t) /\ gaveUp' = gaveUp \cup {t.e.p}
  /\ UNCHANGED <<stored, asked, faults, offered>>

\* The first receipt has no keys.  With SynchronousAck the phone is asked as well,
\* whatever AutomaticMessageRerequestFromPhone says; else that option, which is off,
\* decides.
FirstReceipt(t) ==
  /\ Counted(t) /\ RetryCount(t.e) = 1 /\ RetryLimit > 1
  /\ Becomes(t, [t EXCEPT !.kind = "send", !.count = 1])
  /\ \/ NoFault /\ asked' = IF mode.sync THEN asked \cup {t.e.p} ELSE asked
     \/ Fault /\ mode.sync /\ UNCHANGED asked
  /\ UNCHANGED <<stored, gaveUp, offered>>

\* A mistake to check against: the receipt's key is left to be uploaded as well.
GenOnePreKey_Unmarked(t) ==
  /\ Counted(t) /\ RetryCount(t.e) \in 2..(RetryLimit - 1)
  /\ NoFault /\ Generate(1, FALSE) /\ offered' = offered \cup {pairs + 1}
  /\ \E r \in NewRows(1, FALSE) :
       Becomes(t, [t EXCEPT !.kind = "send", !.count = RetryCount(t.e), !.key = KeyOf(r)])
  /\ UNCHANGED <<asked, gaveUp>>

\* A later one has a new prekey that counts as uploaded, unless making it fails.  (To
\* marshal the account cannot: ADVSignedDeviceIdentity has optional bytes only.)
GenOnePreKey(t) ==
  /\ Counted(t) /\ RetryCount(t.e) \in 2..(RetryLimit - 1)
  /\ \/ /\ NoFault /\ Generate(1, TRUE) /\ offered' = offered \cup {pairs + 1}
        /\ \E r \in NewRows(1, TRUE) :
             Becomes(t, [t EXCEPT !.kind = "send", !.count = RetryCount(t.e), !.key = KeyOf(r)])
     \/ /\ Fault /\ UNCHANGED <<stored, offered>>
        /\ Becomes(t, [t EXCEPT !.kind = "send", !.count = RetryCount(t.e)])
  /\ UNCHANGED <<asked, gaveUp>>

SendRetryReceipt(t) ==
  /\ t.kind = "send" /\ Ends(t)
  /\ \/ NoFault /\ receipts' = receipts \cup {[p |-> t.e.p, count |-> t.count, key |-> t.key]}
        /\ UNCHANGED mishap
     \/ Fault /\ mishap' = mishap \cup {t.e.p} /\ UNCHANGED receipts
  /\ NotTask
  /\ UNCHANGED <<job, inbox, asked, retries, stored,
                 handled, gaveUp, redone, failed, owners, offered, doubt, overlaps>>

\* handlePlaceholderResendResponse: the phone's copy goes straight to the handlers.
handlePlaceholderResendResponse(p) ==
  /\ p \in asked /\ asked' = asked \ {p}
  /\ handled' = [handled EXCEPT ![p] = @ + 1]
  /\ NotTask
  /\ UNCHANGED <<job, tasks, inbox, receipts, retries, stored, faults,
                 gaveUp, mishap, redone, failed, owners, offered, doubt, overlaps>>

Sending ==
  \/ \E t \in tasks : \/ sendAck(t) \/ NoMoreRetries(t) \/ FirstReceipt(t) \/ GenOnePreKey(t)
                      \/ SendRetryReceipt(t)
  \/ \E p \in asked : handlePlaceholderResendResponse(p)

-----------------------------------------------------------------------------
(***************************************************************************)
(* Connections and crashes                                                 *)
(***************************************************************************)

Unacknowledged == {e.p : e \in seen \cap inbox}

\* handleConnectSuccess starts the goroutine that counts the keys.
Authenticated ==
  [upload EXCEPT !["connect"] = IF @.pc = "idle" THEN [NoUpload EXCEPT !.pc = "count"] ELSE @]

\* The connection is lost and made again.  The new one has a queue and a loop of its
\* own, a handler of the old one goes on.
Reconnect ==
  /\ Fault
  /\ \E l \in Slots : job[l] = Idle /\ conn' = l
  /\ seen' = {} /\ redone' = redone \cup Unacknowledged
  /\ upload' = Authenticated
  /\ UNCHANGED <<mode, stored, recent, wire, job, tasks, retries, decrypted,
                 handled, gaveUp, mishap, failed, owners, offered, doubt, overlaps>>

\* Messages the crash cuts off: decrypted with no plaintext kept, or waiting for a
\* retry receipt when the envelope is, or will be, acknowledged without one.
CutOff ==
  {job[l].e.p : l \in {k \in Slots : job[k].pc \in {"remove", "handle"} /\ ~mode.buffer}}
    \cup {t.e.p : t \in {s \in tasks : s.kind # "ack" /\ (~mode.sync \/ OldCounter(s.e))}}

Restart ==
  /\ Fault
  /\ recent' = FALSE /\ retries' = [p \in Peers |-> 0]
  /\ job' = [l \in Slots |-> Idle] /\ tasks' = {} /\ seen' = {} /\ conn' = Min(Slots)
  /\ upload' = Connecting
  /\ redone' = redone \cup Unacknowledged
  /\ mishap' = mishap \cup CutOff
  /\ doubt' = doubt \cup
       PairsOf(UNION {upload[u].keys : u \in {v \in Uploaders : UploadPc(v, "mark")}})
  /\ UNCHANGED <<mode, stored, wire, decrypted, handled, gaveUp, failed, owners, offered, overlaps>>

Next ==
  \/ Uploading \/ Receiving \/ Sending
  \/ \E p \in Peers : PeerSends(p)
  \/ \E r \in receipts : handleRetryReceipt(r)
  \/ Reconnect \/ Restart

Spec == Init /\ [][Next]_vars

-----------------------------------------------------------------------------
(***************************************************************************)
(* Properties                                                              *)
(***************************************************************************)

\* Every variable keeps its type, and the table has one row for an id.
TypeOK ==
  /\ mode \in Modes
  /\ rows \subseteq [id : 1..MaxKeys, pair : 1..MaxKeys, up : BOOLEAN]
  /\ \A q, r \in rows : q.id = r.id => q = r
  /\ pairs \in 0..MaxKeys /\ recent \in BOOLEAN
  /\ \A u \in Uploaders : upload[u].pc \in {"idle", "count", "lock", "send", "mark"}
                          /\ upload[u].keys \subseteq Keys
  /\ Cardinality({u \in Uploaders : upload[u].pc \in {"send", "mark"}}) <= 1
  /\ pool \subseteq Keys /\ session \in [Peers -> Sessions]
  /\ \A e \in inbox : e.p \in Peers /\ e.n \in 1..sent[e.p] /\ e.s \in Sessions
  /\ conn \in Slots
  /\ \A l \in Slots :
       job[l].pc \in {"idle", "decrypt", "txn", "store", "remove", "handle", "clear", "wait"}
  /\ \A t \in tasks : t.kind \in {"ack", "count", "send"}
  /\ plain \cap cleared = {}
  /\ faults \in Nat

\* The prekeys peers were given and this device has not seen used yet.
InHands ==
  {r.key : r \in receipts} \cup {t.key : t \in tasks}
    \cup {e.s : e \in {x \in inbox : ~InSession(x) /\ x.p \notin raced}}

\* A prekey that the server still has, or that a peer holds, is in the database with
\* its key pair, although ids are used again, rows are deleted on first use, and
\* uploads overlap with retry receipts: the message it will start can be decrypted.
\* The exceptions are a key the server took without the client learning of it, and
\* what two goroutines do that have one peer's session loaded at once: one stores
\* over the other's session, or deletes a prekey's id after it was given out again.
OfferedKeysWork ==
  \A k \in (pool \cup InHands) \ {Stale, Signed} : k \in Stored \/ k.pair \in doubt \cup wiped

\* A one-time prekey goes to one peer, from the server or in a retry receipt, unless
\* an upload was repeated because its answer was lost.
OneOwner ==
  \A o1, o2 \in owners : o1[2] = o2[2] => o1[1] = o2[1] \/ o1[2] \in doubt

\* A row is marked as uploaded only once the server has taken the key, or for a key
\* made for a retry receipt: an upload that fails, or that took only some of the
\* rows, leaves the others to be offered.
MarkedWasOffered == \A r \in rows : r.up => r.pair \in offered

\* Somebody will still try to deliver p's message.
Waiting(p) ==
  \/ \E e \in inbox : e.p = p /\ (Hash(e) \in plain \/ ~OldCounter(e))
  \/ \E l \in Slots : job[l].pc \in {"remove", "handle"} /\ job[l].e.p = p
  \/ \E t \in tasks : t.kind # "ack" /\ t.e.p = p
  \/ \E r \in receipts : r.p = p

\* No message is lost: it reached the event handlers, or somebody will still try,
\* unless RetryLimit attempts failed, a retry receipt could not be sent, a crash cut
\* the retry off, or, only without the event buffer, a crash or a refusing handler
\* came after the decryption.  With the buffer those two lose nothing, unless a
\* second goroutine had the envelope at once and acknowledged it as already done.
NotLost ==
  \A p \in Peers :
    sent[p] > 0 => \/ handled[p] > 0 \/ Waiting(p)
                   \/ p \in gaveUp \cup mishap \/ (mode.buffer /\ p \in raced)

\* The handlers get a message once, although it is sent again in other ciphertexts
\* and two goroutines may have it in hand, unless it was delivered again before its
\* acknowledgement and the event buffer still had it, or a retry was asked for, or
\* both goroutines had loaded the session before either stored it; or the phone was
\* asked for it too, as SynchronousAck does on every failure.
HandledOnce ==
  \A p \in Peers :
    \/ handled[p] <= 1
    \/ p \in redone /\ (mode.buffer \/ p \in failed \cup raced)
    \/ mode.sync /\ p \in failed

\* "If SynchronousAck is set, acks for messages will only be sent after all event
\* handlers return": the server has no acknowledgement of an envelope whose handlers
\* are still running.  The code breaks it: delivered again on a new connection, the
\* envelope has an old counter, and the second goroutine acknowledges it.
AckedAfterHandlers ==
  mode.sync => \A l \in Slots : job[l].pc = "handle" => job[l].e \in inbox

=============================================================================
