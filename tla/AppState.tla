------------------------------ MODULE AppState ------------------------------
(***************************************************************************)
(* Synchronising ONE app state collection (whatsmeow's appstate.go, the    *)
(* processor in appstate/ and the tables in store/sqlstore).  The server   *)
(* keeps a log of patches; the client keeps the version and the LTHash it  *)
(* reached and one row per index with the MAC of its latest value, and     *)
(* verifies each patch against them.  Fetches hold appStateSyncLock, the   *)
(* sender of a patch and the recovery from the phone do not.               *)
(*                                                                         *)
(* A value MAC is named by the place of its mutation, <<version, position  *)
(* in the patch>>: the encryption is randomised, so no two are equal.  The *)
(* LTHash is a commutative sum, kept here as how often each value MAC is   *)
(* in it; equal sums stand for equal hashes.                               *)
(***************************************************************************)
EXTENDS Integers, Sequences, FiniteSets, FiniteSetsExt

CONSTANTS
  Indexes,      \* index MACs
  Keys,         \* ids of sync keys, numbered by their timestamp
  FirstKeys,    \* the keys the phone shares when the device is linked
  Patches,      \* what the user's other devices push
  Own,          \* indexes this client sends a mutation of
  Fetchers,     \* goroutines that call FetchAppState
  Senders,      \* goroutines that call SendAppState (one per account in the server)
  None,
  MaxVersion,   \* bound: patches the server has
  MaxMutations, \* bound: mutations of a patch
  MaxCalls      \* bound: sends, full syncs, recoveries, keys shared unasked, and faults

ASSUME KeysAssumption ==
  /\ Keys \subseteq Nat \ {0} /\ IsFiniteSet(Keys)
  /\ FirstKeys \subseteq Keys
ASSUME ProcsAssumption == Fetchers \cap Senders = {} /\ None \notin Fetchers \cup Senders
ASSUME BoundsAssumption ==
  {MaxVersion, MaxMutations, MaxCalls} \subseteq Nat /\ MaxMutations > 0

Procs == Fetchers \cup Senders
Versions == 0 .. MaxVersion
ValueMACs == (1 .. MaxVersion) \X (1 .. MaxMutations)
Hash == [ValueMACs -> Int]
EmptyHash == [m \in ValueMACs |-> 0]
HashState == [version : Versions, hash : Hash]
EmptyState == [version |-> 0, hash |-> EmptyHash]

Mutation == [op : {"set", "remove"}, index : Indexes]
Shape == [muts : UNION {[1 .. n -> Mutation] : n \in 1 .. MaxMutations},
          key : Keys,      \* of the patch: its snapshot MAC and patch MAC
          rkey : Keys]     \* of its records: their content and index MACs
ASSUME PatchesAssumption == Patches \subseteq Shape /\ Own \subseteq Indexes

Patch == [muts : UNION {[1 .. n -> Mutation] : n \in 1 .. MaxMutations},
          key : Keys, rkey : Keys,
          hash : Hash]     \* the LTHash its snapshot MAC authenticates

MACRow == [version : Versions, index : Indexes, value : ValueMACs]

\* No row and no value are told apart from every row and every value.
ASSUME NoneAssumption == None \notin HashState /\ None \notin ValueMACs

\* What can go wrong beyond the next successful fetch, see the invariants.
Mishaps == {"fault", "torn", "lost", "unlisted", "crossed"}

Steps == {"idle", "lock", "read", "iq", "validate", "put", "del", "macs",
          "version", "encode", "send"}
Job == [pc : Steps,
        full : BOOLEAN, only : BOOLEAN,    \* fullSync, onlyIfNotSynced
        want : BOOLEAN,                    \* wantSnapshot
        retry : BOOLEAN,                   \* allowRetry
        idx : Indexes \cup {None},         \* the mutation a sender wants to make
        key : Keys \cup {0},               \* latestKeyID
        st : HashState,                    \* state, currentState
        new : HashState,                   \* newState
        snap : Versions,                   \* the list's snapshot, 0 if it has none or it is done
        last : Versions,                   \* the list's last patch
        more : BOOLEAN,                    \* HasMorePatches
        out : SUBSET ValueMACs,            \* newMutations of this list
        ev : SUBSET ValueMACs]             \* eventsToDispatch, of earlier lists
Idle == [pc |-> "idle", full |-> FALSE, only |-> FALSE, want |-> FALSE, retry |-> FALSE,
         idx |-> None, key |-> 0, st |-> EmptyState, new |-> EmptyState, snap |-> 0,
         last |-> 0, more |-> FALSE, out |-> {}, ev |-> {}]

VARIABLES
  log,        \* the server's patches
  notify,     \* a server_sync notification is on its way
  row,        \* whatsmeow_app_state_version, None or a HashState
  macs,       \* whatsmeow_app_state_mutation_macs
  keys,       \* whatsmeow_app_state_sync_keys
  requested,  \* appStateKeyRequests: the keys asked for in this process
  asking,     \* keys of lists that a requestMissingAppStateKeys goroutine got
  asked,      \* key requests on their way to the phone
  lock,       \* holder of appStateSyncLock
  job,        \* the goroutines
  rec,        \* the recovery handler: [pc, version]
  emitted,    \* history: mutations the event handlers were told of
  harm,       \* history: mishaps so far
  raced,      \* history: a store was changed under a goroutine that works on it
  calls       \* towards MaxCalls

vars == <<log, notify, row, macs, keys, requested, asking, asked, lock, job, rec,
          emitted, harm, raced, calls>>
server == <<log, notify>>
store == <<row, macs>>
keyring == <<keys, requested, asking, asked>>

Init ==
  /\ log = <<>> /\ notify = FALSE
  /\ row = None /\ macs = {}
  /\ keys = FirstKeys /\ requested = {} /\ asking = {} /\ asked = {}
  /\ lock = None
  /\ job = [p \in Procs |-> Idle]
  /\ rec = [pc |-> "idle", version |-> 0]
  /\ emitted = {} /\ harm = {} /\ raced = FALSE
  /\ calls = 0

(***************************************************************************)
(* What the server has                                                     *)
(***************************************************************************)

Places(l, v) == {m \in ValueMACs : m[1] <= v /\ m[2] \in DOMAIN l[m[1]].muts}
After(n, m) == n[1] > m[1] \/ (n[1] = m[1] /\ n[2] > m[2])

\* The records of a log at a version: sets with no later mutation of their index.
ContentOf(l, v) ==
  {m \in Places(l, v) :
     /\ l[m[1]].muts[m[2]].op = "set"
     /\ ~\E n \in Places(l, v) : /\ After(n, m)
                                 /\ l[n[1]].muts[n[2]].index = l[m[1]].muts[m[2]].index}
Content(v) == ContentOf(log, v)
MutationAt(m) == log[m[1]].muts[m[2]]
HashOf(ms) == [m \in ValueMACs |-> IF m \in ms THEN 1 ELSE 0]
SnapshotOf(v) == [version |-> v, hash |-> HashOf(Content(v))]

(***************************************************************************)
(* The processor: hash.go and decode.go                                    *)
(***************************************************************************)

\* updateHash: every SET adds its value MAC, every mutation takes away the MAC
\* that getPrevSetValueMAC names for its index.
UpdateHash_SetKeepsOld(hash, v, muts, prev) ==
  [m \in ValueMACs |->
     hash[m] + (IF m[1] = v /\ m[2] \in DOMAIN muts /\ muts[m[2]].op = "set" THEN 1 ELSE 0)
             - Cardinality({i \in DOMAIN muts : muts[i].op = "remove" /\ prev[i] = m})]
updateHash(hash, v, muts, prev) ==
  [m \in ValueMACs |->
     hash[m] + (IF m[1] = v /\ m[2] \in DOMAIN muts /\ muts[m[2]].op = "set" THEN 1 ELSE 0)
             - Cardinality({i \in DOMAIN muts : prev[i] = m})]

\* ORDER BY version DESC LIMIT 1
GetAppStateMutationMAC(i) ==
  LET rows == {r \in macs : r.index = i}
  IN  IF rows = {} THEN None ELSE (CHOOSE r \in rows : \A s \in rows : r.version >= s.version).value

\* The previous value of the i-th mutation: earlier in the patch, else in the table.
PrevSet(v, muts, i) ==
  LET earlier == {j \in 1 .. i - 1 : muts[j].index = muts[i].index}
  IN  IF earlier = {} THEN GetAppStateMutationMAC(muts[i].index)
      ELSE IF muts[Max(earlier)].op = "set" THEN <<v, Max(earlier)>>
      ELSE None

PatchState(st, v) ==
  [version |-> v,
   hash |-> updateHash(st.hash, v, log[v].muts, [i \in DOMAIN log[v].muts |-> PrevSet(v, log[v].muts, i)])]

Validates_Always(new) == TRUE
\* validateSnapshotMAC of a patch
Validates(new) == new.hash = log[new.version].hash

\* patchOutput: what a patch removes, and the sets it leaves.
RemovedMACs(v) == {log[v].muts[i].index : i \in {j \in DOMAIN log[v].muts : log[v].muts[j].op = "remove"}}
AddedMACs(v) ==
  {i \in DOMAIN log[v].muts :
     /\ log[v].muts[i].op = "set"
     /\ ~\E j \in DOMAIN log[v].muts : /\ j > i /\ log[v].muts[j].op = "remove"
                                       /\ log[v].muts[j].index = log[v].muts[i].index}
SetsOf(v) == {<<v, i>> : i \in {j \in DOMAIN log[v].muts : log[v].muts[j].op = "set"}}

\* What a job is applying now: the snapshot of its list, or the patch after st.
ListKeys(j) ==
  (IF j.snap = 0 THEN {} ELSE {log[j.snap].key} \cup {log[m[1]].rkey : m \in Content(j.snap)})
    \cup {log[v].key : v \in Max({j.snap, j.st.version}) + 1 .. j.last}
Rows(j) ==
  IF j.snap # 0
  THEN {[version |-> j.snap, index |-> MutationAt(m).index, value |-> m] : m \in Content(j.snap)}
  ELSE {[version |-> j.new.version, index |-> log[j.new.version].muts[i].index,
         value |-> <<j.new.version, i>>] : i \in AddedMACs(j.new.version)}
Gone(j) == IF j.snap # 0 THEN {} ELSE RemovedMACs(j.new.version)

(***************************************************************************)
(* The store                                                               *)
(***************************************************************************)

PutAppStateVersion(st) == row' = st /\ UNCHANGED macs
\* The MACs reference the version's row: ON DELETE CASCADE.
DeleteAppStateVersion == row' = None /\ macs' = {}

\* The primary key is (version, index) and the version's row must exist.
Insertable(rows) ==
  /\ row # None
  /\ \A r \in rows : ~\E s \in macs \cup (rows \ {r}) : s.version = r.version /\ s.index = r.index

GetAppStateVersion == IF row = None THEN EmptyState ELSE row

Call == calls < MaxCalls /\ calls' = calls + 1

(***************************************************************************)
(* How a goroutine goes on                                                 *)
(***************************************************************************)

Set(p, j) == job' = [job EXCEPT ![p] = j]

\* Somebody changed the version's row under p, or p verifies or encodes a patch while
\* the MACs of the version it read are not stored yet.  Watch ends every action.
MACsOpen == rec.pc = "macs" \/ \E q \in Procs : job[q].pc \in {"del", "macs"}
Undercut(p) ==
  LET j == job[p]
  IN  \/ j.pc = "read" /\ j.full /\ row # None
      \/ j.pc \in {"iq", "validate", "put"} /\ GetAppStateVersion # j.st
      \/ j.pc \in {"del", "macs"} /\ row # j.new
      \/ j.pc \in {"validate", "encode"} /\ MACsOpen
      \/ j.pc = "encode" /\ row = None /\ j.st # EmptyState
RecoveryUndercut ==
  \/ rec.pc = "del" /\ GetAppStateVersion.version >= rec.version
  \/ rec.pc = "put" /\ row # None
  \/ rec.pc = "macs" /\ row # SnapshotOf(rec.version)
Watch == raced' = (raced \/ RecoveryUndercut' \/ \E p \in Procs : Undercut(p)')

Locked_Not(p) == lock' = lock
Locked(p) == lock' = p
\* fetchAppState unlocks on every return.
Unlocked(p) == lock' = IF lock = p THEN None ELSE lock

\* Returns with an error.  The mutations collected so far are dropped, although
\* the versions that were stored before cover them.
Abort(p, why) ==
  /\ Set(p, Idle) /\ Unlocked(p)
  /\ harm' = harm \cup why \cup (IF job[p].out # {} \/ job[p].ev # {} THEN {"lost"} ELSE {})

Collected_LastList(j) == j.out
Collected(j) == j.ev \cup j.out

\* The patch or snapshot of a list that follows, or the list's end: DecodePatches
\* returns and collectEventsToDispatch goes through its mutations; then the fetch
\* asks for more or returns, and a sender tries once more.  The handlers get an event
\* for each mutation, and for those of a full sync one AppStateSyncComplete.
GoOn(p, j) ==
  IF j.snap # 0 \/ j.st.version < j.last
  THEN Set(p, [j EXCEPT !.pc = "validate"]) /\ UNCHANGED <<lock, emitted>>
  ELSE IF lock = p /\ j.more
  THEN Set(p, [j EXCEPT !.pc = "iq", !.out = {}, !.ev = Collected(j)]) /\ UNCHANGED <<lock, emitted>>
  ELSE /\ Set(p, IF lock = p THEN Idle ELSE [Idle EXCEPT !.pc = "version", !.idx = j.idx])
       /\ Unlocked(p)
       /\ emitted' = emitted \cup Collected(j)

\* The statements of storeMACs that a patch needs.
AfterPut(j) == IF Gone(j) # {} THEN "del" ELSE "macs"
Stored(p, j) == GoOn(p, [j EXCEPT !.st = j.new, !.new = EmptyState, !.snap = 0, !.out = @ \cup
                    (IF j.snap # 0 THEN Content(j.snap) ELSE SetsOf(j.new.version))])

(***************************************************************************)
(* fetchAppState                                                           *)
(***************************************************************************)

\* handleAppStateNotification
Notified(p) ==
  /\ p \in Fetchers /\ job[p].pc = "idle" /\ notify
  /\ notify' = FALSE
  /\ Set(p, [Idle EXCEPT !.pc = "lock"])
  /\ UNCHANGED <<log, store, keyring, lock, rec, emitted, harm, calls>>
  /\ Watch

\* FetchAppState with fullSync
FullSync(p) ==
  /\ p \in Fetchers /\ job[p].pc = "idle" /\ Call
  /\ Set(p, [Idle EXCEPT !.pc = "lock", !.full = TRUE])
  /\ UNCHANGED <<server, store, keyring, lock, rec, emitted, harm>>
  /\ Watch

OnlyIfNotSynced_Always(k) == TRUE
OnlyIfNotSynced(k) == k \notin requested

\* handleAppStateSyncKeyShare: a key this process asked for is worth a new fetch,
\* any other only when the collection was never synced.  A key that arrives while
\* a fetch that failed for want of it has not asked yet crosses that request.  The
\* fetch is made also when the key cannot be stored.
KeyShare(p, k) ==
  /\ p \in Fetchers /\ job[p].pc = "idle"
  /\ \/ /\ keys' = keys \cup {k} /\ (IF k \in asked THEN UNCHANGED calls ELSE Call)
        /\ harm' = harm \cup (IF k \in asking \ (keys \cup requested) THEN {"crossed"} ELSE {})
     \/ keys' = keys /\ Call /\ harm' = harm \cup {"fault"}
  /\ asked' = asked \ {k}
  /\ Set(p, [Idle EXCEPT !.pc = "lock", !.only = OnlyIfNotSynced(k)])
  /\ UNCHANGED <<server, store, requested, asking, lock, rec, emitted>>
  /\ Watch

\* The lock, and for a full sync the reset of the collection.
Begin(p) ==
  /\ job[p].pc = "lock" /\ lock = None
  /\ Locked(p)
  /\ IF job[p].full THEN DeleteAppStateVersion ELSE UNCHANGED store
  /\ Set(p, [job[p] EXCEPT !.pc = "read"])
  /\ UNCHANGED <<server, keyring, rec, emitted, harm, calls>>
  /\ Watch

Read(p) ==
  /\ job[p].pc = "read"
  /\ LET st == GetAppStateVersion
         full == job[p].full \/ st.version = 0
     IN  IF st.version # 0 /\ job[p].only
         THEN Set(p, Idle) /\ Unlocked(p)
         ELSE /\ Set(p, [job[p] EXCEPT !.pc = "iq", !.st = st, !.full = full, !.want = full])
              /\ UNCHANGED lock
  /\ UNCHANGED <<server, store, keyring, rec, emitted, harm, calls>>
  /\ Watch

\* fetchAppStatePatches: the server answers with a snapshot of its choice if it was
\* asked for one and has any, and with some or all of the patches that follow.  A
\* snapshot is refused unless the state is empty.
FetchIQ(p) ==
  /\ job[p].pc = "iq"
  /\ \E snap \in IF job[p].want /\ log # <<>>
                 THEN (IF job[p].st = EmptyState THEN 0 ELSE 1) .. Len(log) ELSE {0} :
     \E last \in Versions :
       LET j == job[p]
           first == IF snap # 0 THEN snap ELSE j.st.version
           got == [j EXCEPT !.want = FALSE, !.snap = snap, !.last = last,
                            !.more = last < Len(log), !.out = {}]
       IN  /\ last \in first .. Len(log)
           /\ snap # 0 \/ last > first \/ first = Len(log)
           /\ IF snap # 0 /\ j.st # EmptyState
              THEN Abort(p, {}) /\ UNCHANGED emitted
              ELSE GoOn(p, got) /\ UNCHANGED harm
  /\ UNCHANGED <<server, store, keyring, rec, calls>>
  /\ Watch

(***************************************************************************)
(* applyAppStatePatches: DecodePatches and storeMACs, step by step         *)
(***************************************************************************)

\* A key is missing: a goroutine will ask for the list's missing keys.  The key of
\* the records is not among a patch's keys, GetMissingKeyIDs looks at the patch.
KeyNotFound(p, need) ==
  /\ asking' = asking \cup ListKeys(job[p])
  /\ Abort(p, IF need \subseteq keys \cup ListKeys(job[p]) THEN {} ELSE {"unlisted"})
  /\ UNCHANGED <<keys, requested, asked>>

\* decodeSnapshot up to storeMACs.  The server's snapshots verify, into an empty state;
\* one that did not would be dropped with an error, as Fails does.
DecodeSnapshot(p) ==
  LET j == job[p]
      need == {log[j.snap].key} \cup {log[m[1]].rkey : m \in Content(j.snap)}
  IN  /\ j.pc = "validate" /\ j.snap # 0
      /\ IF need \subseteq keys
         THEN /\ Set(p, [j EXCEPT !.pc = "put", !.new = SnapshotOf(j.snap)])
              /\ UNCHANGED <<lock, keyring, harm>>
         ELSE KeyNotFound(p, need)
      /\ UNCHANGED <<server, store, rec, emitted, calls>>
      /\ Watch

\* validatePatch and decodeMutations; a hash that does not match is an AppStateSyncError.
DecodePatch(p) ==
  LET j == job[p]
      v == j.st.version + 1
      need == {log[v].key, log[v].rkey}
  IN  /\ j.pc = "validate" /\ j.snap = 0
      /\ IF log[v].key \in keys /\ ~Validates(PatchState(j.st, v))
         THEN Abort(p, {}) /\ UNCHANGED keyring
         ELSE IF need \subseteq keys
         THEN /\ Set(p, [j EXCEPT !.pc = "put", !.new = PatchState(j.st, v)])
              /\ UNCHANGED <<lock, keyring, harm>>
         ELSE KeyNotFound(p, need)
      /\ UNCHANGED <<server, store, rec, emitted, calls>>
      /\ Watch

\* The three statements of storeMACs.
PutVersion(p) ==
  LET j == job[p]
  IN  /\ j.pc = "put"
      /\ PutAppStateVersion(j.new)
      /\ IF Gone(j) \cup Rows(j) = {}
         THEN Stored(p, j)
         ELSE Set(p, [j EXCEPT !.pc = AfterPut(j)]) /\ UNCHANGED <<lock, emitted>>
      /\ UNCHANGED <<server, keyring, rec, harm, calls>>
      /\ Watch

DeleteMACs_None(p) == UNCHANGED macs
DeleteMACsOf(p) == macs' = {r \in macs : r.index \notin Gone(job[p])}

DeleteMACs(p) ==
  LET j == job[p]
  IN  /\ j.pc = "del"
      /\ DeleteMACsOf(p)
      /\ IF Rows(j) = {}
         THEN Stored(p, j)
         ELSE Set(p, [j EXCEPT !.pc = "macs"]) /\ UNCHANGED <<lock, emitted>>
      /\ UNCHANGED <<server, row, keyring, rec, harm, calls>>
      /\ Watch

PutMACs(p) ==
  LET j == job[p]
  IN  /\ j.pc = "macs"
      /\ IF Insertable(Rows(j))
         THEN macs' = macs \cup Rows(j) /\ Stored(p, j) /\ UNCHANGED harm
         ELSE Abort(p, {"torn"}) /\ UNCHANGED <<macs, emitted>>
      /\ UNCHANGED <<server, row, keyring, rec, calls>>
      /\ Watch

\* A query or a statement fails: between two statements of storeMACs that leaves
\* the version without its MACs.
Fails(p) ==
  /\ job[p].pc \in {"read", "iq", "validate", "put", "del", "macs", "version", "encode", "send"}
  /\ Call
  /\ Abort(p, IF job[p].pc \in {"del", "macs"} THEN {"fault", "torn"} ELSE {"fault"})
  /\ UNCHANGED <<server, store, keyring, rec, emitted>>
  /\ Watch

\* requestMissingAppStateKeys: what is still missing and was not asked for lately.
\* The request may fail to go out; the time it was made counts all the same.
RequestKeys ==
  /\ asking # {}
  /\ LET missing == (asking \ keys) \ requested
     IN  /\ requested' = requested \cup missing
         /\ \/ asked' = asked \cup missing /\ UNCHANGED <<harm, calls>>
            \/ missing # {} /\ Call /\ harm' = harm \cup {"fault"} /\ UNCHANGED asked
  /\ asking' = {}
  /\ UNCHANGED <<server, store, keys, lock, job, rec, emitted>>
  /\ Watch

(***************************************************************************)
(* sendAppState                                                            *)
(***************************************************************************)

SendAppState(p, i) ==
  /\ p \in Senders /\ job[p].pc = "idle" /\ Call
  /\ Set(p, [Idle EXCEPT !.pc = "version", !.idx = i, !.retry = TRUE])
  /\ UNCHANGED <<server, store, keyring, lock, rec, emitted, harm>>
  /\ Watch

\* Without a key there is nothing to send with.
SendRead(p) ==
  /\ job[p].pc = "version"
  /\ Set(p, IF keys = {} THEN Idle ELSE [job[p] EXCEPT !.pc = "encode", !.st = GetAppStateVersion,
                                                            !.key = Max(keys)])
  /\ UNCHANGED <<server, store, keyring, lock, rec, emitted, harm, calls>>
  /\ Watch

\* EncodePatch: the previous value comes from the table as it is now.
EncodePatch(p) ==
  LET j == job[p]
      v == j.st.version + 1
      muts == <<[op |-> "set", index |-> j.idx]>>
  IN  /\ j.pc = "encode"
      /\ Set(p, [j EXCEPT !.pc = "send",
                   !.new.hash = updateHash(j.st.hash, v, muts, <<GetAppStateMutationMAC(j.idx)>>)])
      /\ UNCHANGED <<server, store, keyring, lock, rec, emitted, harm, calls>>
      /\ Watch

\* The server takes a patch that follows its last one; it has no key to check the
\* MACs with.  The answer may be lost.
SendAccepted(p) ==
  LET j == job[p]
  IN  /\ j.pc = "send" /\ j.st.version = Len(log) /\ Len(log) < MaxVersion
      /\ log' = Append(log, [muts |-> <<[op |-> "set", index |-> j.idx]>>, key |-> j.key,
                             rkey |-> j.key, hash |-> j.new.hash])
      /\ \/ Set(p, [Idle EXCEPT !.pc = "lock"]) /\ UNCHANGED <<lock, harm, calls>>
         \/ Abort(p, {"fault"}) /\ Call
      /\ UNCHANGED <<notify, store, keyring, rec, emitted>>
      /\ Watch

\* 409: the answer has the patches the client has not seen, and they are applied
\* without appStateSyncLock to the state that was read before.
SendConflict(p) ==
  LET j == job[p]
  IN  /\ j.pc = "send" /\ j.st.version < Len(log)
      /\ IF j.retry
         THEN Set(p, [j EXCEPT !.pc = "validate", !.new = EmptyState, !.key = 0, !.last = Len(log)])
         ELSE Set(p, Idle)
      /\ UNCHANGED <<server, store, keyring, lock, rec, emitted, harm, calls>>
      /\ Watch

\* Any other error the server answers with.
SendRefused(p) ==
  /\ job[p].pc = "send"
  /\ Set(p, Idle)
  /\ UNCHANGED <<server, store, keyring, lock, rec, emitted, harm, calls>>
  /\ Watch

(***************************************************************************)
(* handleAppStateRecovery                                                  *)
(***************************************************************************)

\* The phone's copy is older or has a key this client lacks: ignored.
Recovery(v) ==
  /\ rec.pc = "idle" /\ v \in 1 .. Len(log) /\ Call
  /\ GetAppStateVersion.version < v
  /\ {log[m[1]].rkey : m \in Content(v)} \subseteq keys
  /\ rec' = [pc |-> "del", version |-> v]
  /\ UNCHANGED <<server, store, keyring, lock, job, emitted, harm>>
  /\ Watch

\* ProcessRecovery: the three statements, then the mutations.
RecoveryDelete ==
  /\ rec.pc = "del"
  /\ DeleteAppStateVersion
  /\ rec' = [rec EXCEPT !.pc = "put"]
  /\ UNCHANGED <<server, keyring, lock, job, emitted, harm, calls>>
  /\ Watch

RecoveryPut ==
  /\ rec.pc = "put"
  /\ PutAppStateVersion(SnapshotOf(rec.version))
  /\ rec' = [rec EXCEPT !.pc = "macs"]
  /\ UNCHANGED <<server, keyring, lock, job, emitted, harm, calls>>
  /\ Watch

RecoveryMACs ==
  LET rows == {[version |-> rec.version, index |-> MutationAt(m).index, value |-> m] :
                 m \in Content(rec.version)}
  IN  /\ rec.pc = "macs"
      /\ IF rows = {} \/ Insertable(rows)
         THEN /\ macs' = macs \cup rows
              /\ emitted' = emitted \cup Content(rec.version)
              /\ UNCHANGED harm
         ELSE harm' = harm \cup {"torn"} /\ UNCHANGED <<macs, emitted>>
      /\ rec' = [pc |-> "idle", version |-> 0]
      /\ UNCHANGED <<server, row, keyring, lock, job, calls>>
      /\ Watch

RecoveryFails ==
  /\ rec.pc # "idle" /\ Call
  /\ harm' = harm \cup (IF rec.pc = "macs" THEN {"fault", "torn"} ELSE {"fault"})
  /\ rec' = [pc |-> "idle", version |-> 0]
  /\ UNCHANGED <<server, store, keyring, lock, job, emitted>>
  /\ Watch

(***************************************************************************)
(* The environment                                                         *)
(***************************************************************************)

\* Another device pushes a patch; its hash is right.
Push(s) ==
  /\ Len(log) < MaxVersion
  /\ LET l == Append(log, [muts |-> s.muts, key |-> s.key, rkey |-> s.rkey, hash |-> EmptyHash])
     IN  log' = [l EXCEPT ![Len(l)].hash = HashOf(ContentOf(l, Len(l)))]
  /\ notify' = TRUE
  /\ UNCHANGED <<store, keyring, lock, job, rec, emitted, harm, calls>>
  /\ Watch

\* The process dies and starts again: the tables stay.
Crash ==
  /\ Call
  /\ rec.pc # "idle" \/ \E p \in Procs : job[p].pc # "idle"
  /\ harm' = harm \cup (IF MACsOpen THEN {"fault", "torn"} ELSE {"fault"})
  /\ job' = [p \in Procs |-> Idle] /\ lock' = None
  /\ rec' = [pc |-> "idle", version |-> 0]
  /\ requested' = {} /\ asking' = {}
  /\ UNCHANGED <<server, store, keys, asked, emitted>>
  /\ Watch

(***************************************************************************)

Step(p) ==
  \/ Begin(p) \/ Read(p) \/ FetchIQ(p)
  \/ DecodeSnapshot(p) \/ DecodePatch(p) \/ PutVersion(p) \/ DeleteMACs(p) \/ PutMACs(p)
  \/ SendRead(p) \/ EncodePatch(p) \/ SendAccepted(p) \/ SendConflict(p)
  \/ SendRefused(p)

Next ==
  \/ \E p \in Procs : Step(p) \/ Notified(p) \/ FullSync(p) \/ Fails(p)
  \/ \E p \in Procs, k \in Keys : KeyShare(p, k)
  \/ \E p \in Procs, i \in Own : SendAppState(p, i)
  \/ RequestKeys
  \/ \E v \in 1 .. MaxVersion : Recovery(v)
  \/ RecoveryDelete \/ RecoveryPut \/ RecoveryMACs \/ RecoveryFails
  \/ \E s \in Patches : Push(s)
  \/ Crash

Spec == Init /\ [][Next]_vars

(***************************************************************************)
(* Properties                                                              *)
(***************************************************************************)

\* Every variable keeps its type, and who reads or fetches for fetchAppState holds
\* appStateSyncLock, however many goroutines ask for the collection.
TypeOK ==
  /\ log \in Seq(Patch) /\ Len(log) <= MaxVersion /\ notify \in BOOLEAN
  /\ row \in HashState \cup {None} /\ macs \subseteq MACRow
  /\ keys \subseteq Keys /\ requested \subseteq Keys
  /\ asking \subseteq Keys /\ asked \subseteq Keys
  /\ lock \in Procs \cup {None}
  /\ \A p \in Procs : job[p] \in Job /\ (job[p].pc \in {"read", "iq"} => lock = p)
  /\ rec \in [pc : {"idle", "del", "put", "macs"}, version : Versions]
  /\ emitted \subseteq ValueMACs
  /\ harm \subseteq Mishaps /\ raced \in BOOLEAN
  /\ calls \in 0 .. MaxCalls

\* Nobody is at work on the store.
Quiet == rec.pc = "idle" /\ \A p \in Procs : job[p].pc \in {"idle", "lock"}

\* The version and hash that are stored are a pair the server's log vouches for,
\* whatever raced, failed or crashed: a fetch verifies a pair before it puts it, and a
\* recovery puts the pair of the phone's copy, which is taken to be right.
StoredPairIsServers ==
  row # None => row.hash \in {log[row.version].hash, HashOf(Content(row.version))}

\* The MACs: when nobody works on the store, the latest row of every index is the
\* record the server has at the stored version.  Else the next patch of that index
\* does not verify, and no later fetch succeeds.  Not so after torn statements, or
\* when a sender or a recovery changed the row under a fetch (raced).
MACsAgree ==
  (Quiet /\ "torn" \notin harm /\ ~raced) =>
    {GetAppStateMutationMAC(i) : i \in Indexes} \ {None}
      = Content(GetAppStateVersion.version)

\* A patch this client uploads carries the right hash: a wrong one would stop the
\* sync of every device of the user.  This goes through a conflict and the retry; not
\* so when the patch was encoded between the statements of a fetch (raced).
UploadsVerify ==
  ("torn" \notin harm /\ ~raced) =>
    \A v \in 1 .. Len(log) : log[v].hash = HashOf(Content(v))

\* The handlers were told of what the stored version covers, unless a list failed
\* after a part of it was stored.
ToldUpToVersion ==
  (Quiet /\ harm \cap {"fault", "torn", "lost"} = {} /\ ~raced) =>
     Content(GetAppStateVersion.version) \subseteq emitted

\* A client that has nothing left to do is at the server's version and holds no
\* lock, unless a mishap stopped it: a failed query is not repeated, a goroutine
\* changed the store under another, a patch was stored half, a record's key was
\* never asked for, or a key came between a failed fetch and its request.
CaughtUpWhenIdle ==
  (/\ rec.pc = "idle" /\ ~notify /\ asking = {} /\ asked = {}
   /\ \A p \in Procs : job[p].pc = "idle") =>
     /\ lock = None
     /\ \/ harm \cap {"fault", "torn", "unlisted", "crossed"} # {} \/ raced
        \/ GetAppStateVersion.version = Len(log)

\* A client that has caught up told its handlers of everything in the collection.
EventsDispatched ==
  (Quiet /\ GetAppStateVersion.version = Len(log)) => Content(Len(log)) \subseteq emitted

=============================================================================
