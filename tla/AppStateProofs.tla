--------------------------- MODULE AppStateProofs ---------------------------
(***************************************************************************)
(* Proofs about AppState, for any log, keys, goroutines and bounds: its    *)
(* types, that every pair of version and hash in the store is one the      *)
(* server's log vouches for, and, but for the mishaps that harm and raced  *)
(* name, that the handlers are told of what is stored, that uploads carry  *)
(* the right hash, that the MACs agree with the version and that an idle   *)
(* client has caught up.                                                   *)
(***************************************************************************)
EXTENDS AppState, FiniteMaxima

-----------------------------------------------------------------------------
(***************************************************************************)
(* The inductive invariant                                                 *)
(***************************************************************************)

\* A pair that the log l vouches for: with the hash a patch carries, or with the hash
\* of the records there are at its version.
Vouched(l, s) ==
  /\ s.version \in 1 .. Len(l)
  /\ s.hash \in {l[s.version].hash, HashOf(ContentOf(l, s.version))}

\* Where goroutine p may be, given the log and the holder of appStateSyncLock: what it
\* fetched is in the log, what is left of its list is not empty, only a sender works
\* without the lock, and what it is about to store was verified.
Fits(p, j, l, holder) ==
  /\ j.snap <= Len(l) /\ j.last <= Len(l)
  /\ j.pc \in {"read", "iq"} => holder = p
  /\ j.pc \in {"version", "encode", "send"} => j.idx \in Indexes
  /\ j.pc \in {"encode", "send"} => j.key \in Keys
  /\ j.pc \in {"validate", "put", "del", "macs"} => holder = p \/ j.idx \in Indexes
  /\ j.pc = "validate" => j.snap # 0 \/ j.st.version < j.last
  /\ j.pc \in {"put", "del", "macs"} => Vouched(l, j.new)

JobsOK == job \in [Procs -> Job] /\ \A p \in Procs : Fits(p, job[p], log, lock)

\* The rows of the store, and the recovery that is under way.
ServerOK == log \in Seq(Patch) /\ Len(log) <= MaxVersion /\ notify \in BOOLEAN
StoreOK ==
  /\ row \in HashState \cup {None} /\ macs \subseteq MACRow
  /\ row # None => Vouched(log, row)
RecoveryOK ==
  /\ rec \in [pc : {"idle", "del", "put", "macs"}, version : Versions]
  /\ rec.pc # "idle" => rec.version \in 1 .. Len(log)
KeysOK ==
  keys \subseteq Keys /\ requested \subseteq Keys /\ asking \subseteq Keys /\ asked \subseteq Keys
HistoryOK ==
  /\ emitted \subseteq ValueMACs /\ harm \subseteq Mishaps /\ raced \in BOOLEAN
  /\ calls \in 0 .. MaxCalls
LockOK == lock \in Procs \cup {None}

Sound == ServerOK /\ StoreOK /\ RecoveryOK /\ KeysOK /\ HistoryOK /\ LockOK /\ JobsOK

-----------------------------------------------------------------------------
(***************************************************************************)
(* What the operators return                                               *)
(***************************************************************************)

LEMMA Bounds ==
  MaxVersion \in Nat /\ MaxMutations \in Nat /\ MaxCalls \in Nat /\ MaxMutations > 0
BY BoundsAssumption

LEMMA Procs_None == None \notin Procs
BY ProcsAssumption DEF Procs

\* The mutations of a patch.
Muts == UNION {[1 .. n -> Mutation] : n \in 1 .. MaxMutations}

LEMMA MutsType ==
  ASSUME NEW muts \in Muts
  PROVE  /\ \A i \in DOMAIN muts : muts[i] \in Mutation
         /\ DOMAIN muts \subseteq 1 .. MaxMutations
         /\ IsFiniteSet(DOMAIN muts)
<1>1. PICK n \in 1 .. MaxMutations : muts \in [1 .. n -> Mutation]
  BY DEF Muts
<1>2. n \in Nat /\ DOMAIN muts = 1 .. n /\ n <= MaxMutations
  BY <1>1, Bounds
<1>3. IsFiniteSet(1 .. n)
  BY <1>2, FS_Interval
<1>4. QED
  BY <1>1, <1>2, <1>3, Bounds

LEMMA PatchType ==
  ASSUME NEW l \in Seq(Patch), NEW v \in 1 .. Len(l)
  PROVE  l[v] \in Patch /\ l[v].muts \in Muts /\ l[v].key \in Keys /\ l[v].rkey \in Keys /\ l[v].hash \in Hash
<1>1. l[v] \in Patch
  OBVIOUS
<1>2. QED
  BY <1>1 DEF Patch, Muts

LEMMA HashOfType == ASSUME NEW ms PROVE HashOf(ms) \in Hash
BY DEF HashOf, Hash

LEMMA EmptyStateType == EmptyState \in HashState /\ EmptyState.version = 0
<1>1. EmptyHash \in Hash /\ 0 \in Versions
  BY Bounds DEF EmptyHash, Hash, Versions
<1>2. QED
  BY <1>1 DEF EmptyState, HashState

LEMMA IdleType ==
  /\ Idle \in Job /\ Idle.pc = "idle" /\ Idle.snap = 0 /\ Idle.last = 0 /\ Idle.idx = None
<1>1. 0 \in Versions /\ EmptyState \in HashState
  BY Bounds, EmptyStateType DEF Versions
<1>2. QED
  BY <1>1 DEF Idle, Job, Steps

\* The records of a collection are records of the log.
LEMMA ContentType ==
  ASSUME NEW l \in Seq(Patch), NEW v \in 0 .. Len(l), Len(l) <= MaxVersion
  PROVE  /\ ContentOf(l, v) \subseteq ValueMACs
         /\ \A m \in ContentOf(l, v) : /\ m[1] \in 1 .. Len(l) /\ m[1] <= v
                                       /\ m[2] \in DOMAIN l[m[1]].muts
                                       /\ l[m[1]].muts[m[2]] \in Mutation
<1>1. ContentOf(l, v) \subseteq Places(l, v) /\ Places(l, v) \subseteq ValueMACs
  BY DEF ContentOf, Places
<1>2. ASSUME NEW m \in Places(l, v)
      PROVE  /\ m[1] \in 1 .. Len(l) /\ m[1] <= v
             /\ m[2] \in DOMAIN l[m[1]].muts
             /\ l[m[1]].muts[m[2]] \in Mutation
  <2>1. m[1] \in 1 .. Len(l) /\ m[1] <= v /\ m[2] \in DOMAIN l[m[1]].muts
    BY Bounds DEF Places, ValueMACs
  <2>2. QED
    BY <2>1, PatchType, MutsType
<1>3. QED
  BY <1>1, <1>2

\* Summing up an LTHash gives an LTHash.
LEMMA UpdateHashType ==
  ASSUME NEW h \in Hash, NEW v, NEW muts \in Muts, NEW prev
  PROVE  updateHash(h, v, muts, prev) \in Hash
<1>1. ASSUME NEW m \in ValueMACs
      PROVE  Cardinality({i \in DOMAIN muts : prev[i] = m}) \in Int
  <2>1. IsFiniteSet(DOMAIN muts) /\ {i \in DOMAIN muts : prev[i] = m} \in SUBSET (DOMAIN muts)
    BY MutsType
  <2>2. QED
    BY <2>1, FS_Subset, FS_CardinalityType
<1>2. ASSUME NEW m \in ValueMACs
      PROVE  h[m] + (IF m[1] = v /\ m[2] \in DOMAIN muts /\ muts[m[2]].op = "set" THEN 1 ELSE 0)
                - Cardinality({i \in DOMAIN muts : prev[i] = m}) \in Int
  BY <1>1 DEF Hash
<1>3. QED
  BY <1>2 DEF updateHash, Hash

-----------------------------------------------------------------------------
(***************************************************************************)
(* The log only grows                                                      *)
(***************************************************************************)

Extends(l, k) ==
  /\ l \in Seq(Patch) /\ k \in Seq(Patch) /\ Len(l) <= Len(k) /\ Len(k) <= MaxVersion
  /\ \A v \in 1 .. Len(l) : k[v] = l[v]

\* What a log says of a version it has does not change.
LEMMA ContentStays ==
  ASSUME NEW l, NEW k, Extends(l, k), NEW v \in 0 .. Len(l)
  PROVE  ContentOf(k, v) = ContentOf(l, v)
<1>1. \A m \in ValueMACs : m[1] <= v => k[m[1]] = l[m[1]]
  BY Bounds DEF Extends, ValueMACs
<1>2. Places(k, v) = Places(l, v)
  BY <1>1 DEF Places
<1>3. QED
  BY <1>1, <1>2 DEF ContentOf, Places

LEMMA VouchedStays ==
  ASSUME NEW l, NEW k, Extends(l, k), NEW s, Vouched(l, s)
  PROVE  Vouched(k, s)
<1>1. s.version \in 1 .. Len(l) /\ s.version \in 0 .. Len(l) /\ s.version \in 1 .. Len(k)
  BY DEF Vouched, Extends
<1>2. ContentOf(k, s.version) = ContentOf(l, s.version) /\ k[s.version] = l[s.version]
  BY <1>1, ContentStays DEF Extends
<1>3. QED
  BY <1>1, <1>2 DEF Vouched

LEMMA FitsStays ==
  ASSUME NEW l, NEW k, Extends(l, k), NEW p, NEW j \in Job, NEW h1, NEW h2, Fits(p, j, l, h1),
         h1 = p => h2 = p
  PROVE  Fits(p, j, k, h2)
<1>1. j.snap \in Int /\ j.last \in Int /\ Len(l) \in Nat /\ Len(k) \in Nat
  BY Bounds DEF Job, Versions, Extends
<1>2. QED
  BY <1>1, VouchedStays DEF Fits, Extends

LEMMA ExtendsSelf == ASSUME ServerOK PROVE Extends(log, log)
BY DEF ServerOK, Extends

LEMMA IdleFits == ASSUME NEW p, NEW l \in Seq(Patch), NEW h PROVE Fits(p, Idle, l, h)
BY IdleType DEF Fits

-----------------------------------------------------------------------------
(***************************************************************************)
(* How a goroutine goes on                                                 *)
(***************************************************************************)

\* Nobody but p loses appStateSyncLock.
OthersKeepLock(p) == \A q \in Procs : q # p => (lock = q => lock' = q)

LEMMA OneJob ==
  ASSUME Sound, NEW p \in Procs, NEW j \in Job, Set(p, j), Extends(log, log'),
         OthersKeepLock(p), Fits(p, j, log', lock')
  PROVE  JobsOK'
<1>1. job' \in [Procs -> Job] /\ \A q \in Procs : job'[q] = IF q = p THEN j ELSE job[q]
  BY DEF Set, Sound, JobsOK
<1>2. ASSUME NEW q \in Procs, q # p PROVE Fits(q, job[q], log', lock')
  <2>1. Fits(q, job[q], log, lock) /\ job[q] \in Job
    BY DEF Sound, JobsOK
  <2>2. lock = q => lock' = q
    BY <1>2 DEF OthersKeepLock
  <2>3. QED
    BY <2>1, <2>2, FitsStays
<1>3. QED
  BY <1>1, <1>2 DEF JobsOK

\* A step that leaves the goroutines and the lock alone.
LEMMA SameJobs ==
  ASSUME Sound, UNCHANGED <<job, lock>>, Extends(log, log')
  PROVE  JobsOK' /\ LockOK'
<1>1. ASSUME NEW q \in Procs PROVE Fits(q, job[q], log', lock)
  <2>1. Fits(q, job[q], log, lock) /\ job[q] \in Job
    BY DEF Sound, JobsOK
  <2>2. QED
    BY <2>1, FitsStays
<1>2. QED
  BY <1>1 DEF Sound, JobsOK, LockOK

LEMMA UnlockedType ==
  ASSUME Sound, NEW p \in Procs, Unlocked(p) \/ UNCHANGED lock
  PROVE  LockOK' /\ OthersKeepLock(p)
BY DEF Sound, LockOK, Unlocked, OthersKeepLock

\* The goroutine returns.
LEMMA GoesIdle ==
  ASSUME Sound, NEW p \in Procs, Set(p, Idle), Unlocked(p) \/ UNCHANGED lock, Extends(log, log')
  PROVE  JobsOK' /\ LockOK'
<1>1. LockOK' /\ OthersKeepLock(p)
  BY UnlockedType
<1>2. Idle \in Job /\ Fits(p, Idle, log', lock')
  BY IdleType, IdleFits DEF Extends
<1>3. QED
  BY <1>1, <1>2, OneJob

LEMMA AbortType ==
  ASSUME Sound, NEW p \in Procs, NEW why \in SUBSET Mishaps, Abort(p, why), Extends(log, log')
  PROVE  JobsOK' /\ LockOK' /\ harm' \subseteq Mishaps
<1>1. JobsOK' /\ LockOK'
  BY GoesIdle DEF Abort
<1>2. harm' \subseteq Mishaps
  BY DEF Abort, Mishaps, Sound, HistoryOK
<1>3. QED
  BY <1>1, <1>2

\* The next patch of the list, the next list, or the end.
LEMMA GoOnType ==
  ASSUME Sound, NEW p \in Procs, NEW j \in Job, GoOn(p, j), UNCHANGED log,
         j.snap <= Len(log), j.last <= Len(log), lock = p \/ j.idx \in Indexes
  PROVE  JobsOK' /\ LockOK' /\ emitted' \subseteq ValueMACs
<1>1. Extends(log, log')
  BY ExtendsSelf DEF Sound
<1>2. j.out \subseteq ValueMACs /\ j.ev \subseteq ValueMACs /\ j.idx \in Indexes \cup {None}
      /\ emitted \subseteq ValueMACs
  BY DEF Job, Sound, HistoryOK
<1>3. CASE j.snap # 0 \/ j.st.version < j.last
  <2> DEFINE k == [j EXCEPT !.pc = "validate"]
  <2>1. Set(p, k) /\ UNCHANGED <<lock, emitted>>
    BY <1>3 DEF GoOn
  <2>2. k \in Job
    BY DEF Job, Steps
  <2>3. /\ k.pc = "validate" /\ k.snap = j.snap /\ k.last = j.last /\ k.idx = j.idx /\ k.st = j.st
    BY DEF Job
  <2> HIDE DEF k
  <2>4. Fits(p, k, log', lock')
    BY <1>3, <2>1, <2>3 DEF Fits
  <2>5. OthersKeepLock(p) /\ LockOK'
    BY <2>1, UnlockedType
  <2>6. JobsOK'
    BY <1>1, <2>1, <2>2, <2>4, <2>5, OneJob
  <2>7. QED
    BY <1>2, <2>1, <2>5, <2>6
<1>4. CASE ~(j.snap # 0 \/ j.st.version < j.last) /\ lock = p /\ j.more
  <2> DEFINE k == [j EXCEPT !.pc = "iq", !.out = {}, !.ev = Collected(j)]
  <2>1. Set(p, k) /\ UNCHANGED <<lock, emitted>>
    BY <1>4 DEF GoOn
  <2>2. Collected(j) \in SUBSET ValueMACs
    BY <1>2 DEF Collected
  <2>3. k \in Job
    BY <2>2 DEF Job, Steps
  <2>4. k.pc = "iq" /\ k.snap = j.snap /\ k.last = j.last
    BY DEF Job
  <2> HIDE DEF k
  <2>5. Fits(p, k, log', lock')
    BY <1>4, <2>1, <2>4 DEF Fits
  <2>6. OthersKeepLock(p) /\ LockOK'
    BY <2>1, UnlockedType
  <2>7. JobsOK'
    BY <1>1, <2>1, <2>3, <2>5, <2>6, OneJob
  <2>8. QED
    BY <1>2, <2>1, <2>6, <2>7
<1>5. CASE ~(j.snap # 0 \/ j.st.version < j.last) /\ ~(lock = p /\ j.more)
  <2>1. /\ Set(p, IF lock = p THEN Idle ELSE [Idle EXCEPT !.pc = "version", !.idx = j.idx])
        /\ Unlocked(p) /\ emitted' = emitted \cup Collected(j)
    BY <1>5 DEF GoOn
  <2>2. emitted' \subseteq ValueMACs
    BY <1>2, <2>1 DEF Collected
  <2>3. CASE lock = p
    BY <1>1, <2>1, <2>2, <2>3, GoesIdle
  <2>4. CASE lock # p
    <3> DEFINE k == [Idle EXCEPT !.pc = "version", !.idx = j.idx]
    <3>1. k \in Job
      BY <1>2, IdleType DEF Job, Steps
    <3>2. k.pc = "version" /\ k.idx = j.idx /\ k.snap = 0 /\ k.last = 0
      BY IdleType DEF Idle
    <3>3. Set(p, k)
      BY <2>1, <2>4
    <3> HIDE DEF k
    <3>4. Fits(p, k, log', lock')
      BY <2>4, <3>2 DEF Fits, Sound, ServerOK
    <3>5. OthersKeepLock(p) /\ LockOK'
      BY <2>1, UnlockedType
    <3>6. QED
      BY <1>1, <2>2, <3>1, <3>3, <3>4, <3>5, OneJob
  <2>5. QED
    BY <2>3, <2>4
<1>6. QED
  BY <1>3, <1>4, <1>5

\* What is stored was verified and is in the log; its mutations are collected.
LEMMA SetsOfType ==
  ASSUME ServerOK, NEW v \in 1 .. Len(log)
  PROVE  SetsOf(v) \subseteq ValueMACs
<1>1. DOMAIN log[v].muts \subseteq 1 .. MaxMutations
  BY PatchType, MutsType DEF ServerOK
<1>2. v \in 1 .. MaxVersion
  BY Bounds DEF ServerOK
<1>3. QED
  BY <1>1, <1>2 DEF SetsOf, ValueMACs

LEMMA StoredType ==
  ASSUME Sound, NEW p \in Procs, job[p].pc \in {"put", "del", "macs"}, Stored(p, job[p]), UNCHANGED log
  PROVE  JobsOK' /\ LockOK' /\ emitted' \subseteq ValueMACs
<1> DEFINE j == job[p]
           more == IF j.snap # 0 THEN Content(j.snap) ELSE SetsOf(j.new.version)
           k == [j EXCEPT !.st = j.new, !.new = EmptyState, !.snap = 0, !.out = j.out \cup more]
<1>1. j \in Job /\ Fits(p, j, log, lock)
  BY DEF Sound, JobsOK
<1>2. /\ j.new.version \in 1 .. Len(log) /\ j.snap \in Nat /\ j.snap <= Len(log)
      /\ lock = p \/ j.idx \in Indexes
      /\ j.last <= Len(log)
  BY <1>1, Bounds DEF Fits, Vouched, Job, Versions
<1>3. more \subseteq ValueMACs
  <2>1. CASE j.snap # 0
    <3>1. j.snap \in 0 .. Len(log) /\ log \in Seq(Patch) /\ Len(log) <= MaxVersion
      BY <1>2 DEF Sound, ServerOK
    <3>2. Content(j.snap) \subseteq ValueMACs
      BY <3>1, ContentType DEF Content
    <3>3. QED
      BY <2>1, <3>2
  <2>2. CASE j.snap = 0
    BY <1>2, <2>2, SetsOfType DEF Sound
  <2>3. QED
    BY <2>1, <2>2
<1>4. GoOn(p, k)
  BY DEF Stored
<1> HIDE DEF more
<1>5. k \in Job
  <2>1. j.out \cup more \in SUBSET ValueMACs /\ j.new \in HashState
    BY <1>1, <1>3 DEF Job
  <2>2. 0 \in Versions /\ EmptyState \in HashState
    BY EmptyStateType, Bounds DEF Versions
  <2>3. QED
    BY <1>1, <2>1, <2>2 DEF Job
<1>6. k.snap = 0 /\ k.last = j.last /\ k.idx = j.idx
  BY <1>1 DEF Job
<1> HIDE DEF k, j
<1>7. QED
  BY <1>2, <1>4, <1>5, <1>6, GoOnType DEF Sound, ServerOK

-----------------------------------------------------------------------------
(***************************************************************************)
(* The steps                                                               *)
(***************************************************************************)

\* The parts of the invariant that the steps of a fetch leave alone together.
LEMMA SameServer ==
  ASSUME Sound, UNCHANGED log
  PROVE  Extends(log, log') /\ Extends(log, log) /\ log \in Seq(Patch) /\ Len(log) \in Nat
BY ExtendsSelf DEF Sound, ServerOK

LEMMA SameStore ==
  ASSUME Sound, UNCHANGED store, Extends(log, log')
  PROVE  StoreOK'
<1>1. UNCHANGED <<row, macs>>
  BY DEF store
<1>2. row # None => Vouched(log', row)
  BY VouchedStays DEF Sound, StoreOK
<1>3. QED
  BY <1>1, <1>2 DEF Sound, StoreOK

LEMMA SameRecovery ==
  ASSUME Sound, UNCHANGED rec, Extends(log, log')
  PROVE  RecoveryOK'
BY DEF Sound, RecoveryOK, Extends

LEMMA WatchType ==
  ASSUME Sound, Watch, emitted' \subseteq ValueMACs, harm' \subseteq Mishaps,
         Call \/ UNCHANGED calls
  PROVE  HistoryOK'
<1>1. raced' \in BOOLEAN
  BY DEF Watch
<1>2. calls' \in 0 .. MaxCalls
  BY Bounds DEF Call, Sound, HistoryOK
<1>3. QED
  BY <1>1, <1>2 DEF HistoryOK

\* A step of a goroutine that only works on its own state.
LEMMA Alone ==
  ASSUME Sound, JobsOK', LockOK', UNCHANGED <<server, store, keyring, rec>>, Watch,
         emitted' \subseteq ValueMACs, harm' \subseteq Mishaps, Call \/ UNCHANGED calls
  PROVE  Sound'
<1>1. UNCHANGED log /\ ServerOK' /\ KeysOK'
  BY DEF server, keyring, Sound, ServerOK, KeysOK
<1>2. Extends(log, log')
  BY <1>1, SameServer
<1>3. StoreOK' /\ RecoveryOK'
  BY <1>2, SameStore, SameRecovery
<1>4. HistoryOK'
  BY WatchType
<1>5. QED
  BY <1>1, <1>3, <1>4 DEF Sound

\* A goroutine that gets new locals and keeps the lock as it is.
LEMMA Moves ==
  ASSUME Sound, NEW p \in Procs, NEW j \in Job, Set(p, j), UNCHANGED lock, Extends(log, log'),
         Fits(p, j, log', lock)
  PROVE  JobsOK' /\ LockOK'
BY OneJob, UnlockedType

\* A goroutine that is about to ask for appStateSyncLock.
LEMMA StartFits ==
  ASSUME NEW p, NEW l \in Seq(Patch), NEW h, NEW k \in Job, k.pc = "lock", k.snap = 0, k.last = 0
  PROVE  Fits(p, k, l, h)
BY DEF Fits

LEMMA NotifiedStep == ASSUME Sound, NEW p \in Procs, Notified(p) PROVE Sound'
<1> DEFINE k == [Idle EXCEPT !.pc = "lock"]
<1>1. k \in Job /\ k.pc = "lock" /\ k.snap = 0 /\ k.last = 0
  BY IdleType DEF Job, Steps
<1>2. Set(p, k) /\ UNCHANGED <<log, store, keyring, lock, rec, emitted, harm, calls>> /\ notify' = FALSE /\ Watch
  BY DEF Notified
<1>3. Extends(log, log') /\ log \in Seq(Patch)
  BY <1>2, SameServer
<1> HIDE DEF k
<1>4. Fits(p, k, log', lock)
  BY <1>1, <1>2, <1>3, StartFits
<1>5. JobsOK' /\ LockOK'
  BY <1>1, <1>2, <1>3, <1>4, Moves
<1>6. StoreOK' /\ RecoveryOK'
  BY <1>2, <1>3, SameStore, SameRecovery
<1>7. HistoryOK'
  BY <1>2, WatchType DEF Sound, HistoryOK
<1>8. ServerOK' /\ KeysOK'
  BY <1>2 DEF Sound, ServerOK, KeysOK, keyring
<1>9. QED
  BY <1>5, <1>6, <1>7, <1>8 DEF Sound

LEMMA FullSyncStep == ASSUME Sound, NEW p \in Procs, FullSync(p) PROVE Sound'
<1> DEFINE k == [Idle EXCEPT !.pc = "lock", !.full = TRUE]
<1>1. k \in Job /\ k.pc = "lock" /\ k.snap = 0 /\ k.last = 0
  BY IdleType DEF Job, Steps
<1>2. Set(p, k) /\ UNCHANGED <<server, store, keyring, lock, rec, emitted, harm>> /\ Call /\ Watch
  BY DEF FullSync
<1>3. UNCHANGED log
  BY <1>2 DEF server
<1>4. Extends(log, log') /\ log \in Seq(Patch)
  BY <1>3, SameServer
<1> HIDE DEF k
<1>5. Fits(p, k, log', lock)
  BY <1>1, <1>3, <1>4, StartFits
<1>6. JobsOK' /\ LockOK'
  BY <1>1, <1>2, <1>4, <1>5, Moves
<1>7. QED
  BY <1>2, <1>6, Alone DEF Sound, HistoryOK

LEMMA KeyShareStep == ASSUME Sound, NEW p \in Procs, NEW k \in Keys, KeyShare(p, k) PROVE Sound'
<1> DEFINE o == OnlyIfNotSynced(k)
           j == [Idle EXCEPT !.pc = "lock", !.only = o]
<1>1. o \in BOOLEAN
  BY DEF OnlyIfNotSynced
<1>2. j \in Job /\ j.pc = "lock" /\ j.snap = 0 /\ j.last = 0
  BY <1>1, IdleType DEF Job, Steps
<1>3. /\ Set(p, j) /\ UNCHANGED <<server, store, requested, asking, lock, rec, emitted>> /\ Watch
      /\ Call \/ UNCHANGED calls
      /\ keys' \in {keys, keys \cup {k}} /\ asked' = asked \ {k}
      /\ harm \subseteq harm' /\ harm' \subseteq harm \cup {"crossed", "fault"}
  BY DEF KeyShare
<1>4. UNCHANGED log
  BY <1>3 DEF server
<1>5. Extends(log, log') /\ log \in Seq(Patch)
  BY <1>4, SameServer
<1> HIDE DEF j
<1>6. Fits(p, j, log', lock)
  BY <1>2, <1>4, <1>5, StartFits
<1>7. JobsOK' /\ LockOK'
  BY <1>2, <1>3, <1>5, <1>6, Moves
<1>8. StoreOK' /\ RecoveryOK'
  BY <1>3, <1>5, SameStore, SameRecovery
<1>9. HistoryOK'
  BY <1>3, WatchType DEF Sound, HistoryOK, Mishaps
<1>10. ServerOK' /\ KeysOK'
  BY <1>3 DEF Sound, ServerOK, KeysOK, server
<1>11. QED
  BY <1>7, <1>8, <1>9, <1>10 DEF Sound

LEMMA BeginStep == ASSUME Sound, NEW p \in Procs, Begin(p) PROVE Sound'
<1> DEFINE j == job[p]
           k == [j EXCEPT !.pc = "read"]
<1>1. /\ Set(p, k) /\ lock = None /\ lock' = p /\ Watch
      /\ UNCHANGED <<server, keyring, rec, emitted, harm, calls>>
      /\ (row' = None /\ macs' = {}) \/ UNCHANGED store
  BY DEF Begin, Locked, DeleteAppStateVersion
<1>2. UNCHANGED log
  BY <1>1 DEF server
<1>3. Extends(log, log')
  BY <1>2, SameServer
<1>4. j \in Job /\ Fits(p, j, log, lock)
  BY DEF Sound, JobsOK
<1>5. k \in Job /\ k.pc = "read" /\ k.snap = j.snap /\ k.last = j.last
  BY <1>4 DEF Job, Steps
<1> HIDE DEF k
<1>6. Fits(p, k, log', lock')
  BY <1>1, <1>2, <1>4, <1>5 DEF Fits
<1>7. OthersKeepLock(p) /\ LockOK'
  BY <1>1, Procs_None DEF OthersKeepLock, LockOK
<1>8. JobsOK'
  BY <1>1, <1>3, <1>5, <1>6, <1>7, OneJob
<1>9. StoreOK'
  <2>1. CASE row' = None /\ macs' = {}
    BY <2>1 DEF StoreOK
  <2>2. CASE UNCHANGED store
    BY <1>3, <2>2, SameStore
  <2>3. QED
    BY <1>1, <2>1, <2>2
<1>10. RecoveryOK' /\ HistoryOK'
  BY <1>1, <1>3, SameRecovery, WatchType DEF Sound, HistoryOK
<1>11. ServerOK' /\ KeysOK'
  BY <1>1 DEF Sound, ServerOK, KeysOK, server, keyring
<1>12. QED
  BY <1>7, <1>8, <1>9, <1>10, <1>11 DEF Sound

LEMMA StateType ==
  ASSUME Sound
  PROVE  GetAppStateVersion \in HashState
BY EmptyStateType DEF Sound, StoreOK, GetAppStateVersion

LEMMA ReadStep == ASSUME Sound, NEW p \in Procs, Read(p) PROVE Sound'
<1> DEFINE j == job[p]
           st == GetAppStateVersion
           full == j.full \/ st.version = 0
           k == [j EXCEPT !.pc = "iq", !.st = st, !.full = full, !.want = full]
<1>1. /\ j.pc = "read" /\ UNCHANGED <<server, store, keyring, rec, emitted, harm, calls>> /\ Watch
      /\ \/ Set(p, Idle) /\ Unlocked(p)
         \/ Set(p, k) /\ UNCHANGED lock
  BY DEF Read
<1>2. UNCHANGED log
  BY <1>1 DEF server
<1>3. Extends(log, log')
  BY <1>2, SameServer
<1>4. j \in Job /\ Fits(p, j, log, lock) /\ lock = p
  BY <1>1 DEF Sound, JobsOK, Fits
<1>5. st \in HashState /\ full \in BOOLEAN
  BY StateType
<1> HIDE DEF st, full
<1>6. k \in Job
  BY <1>4, <1>5 DEF Job, Steps
<1>7. k.pc = "iq" /\ k.snap = j.snap /\ k.last = j.last
  BY <1>4 DEF Job
<1> HIDE DEF k
<1>8. Fits(p, k, log', lock)
  BY <1>2, <1>4, <1>7 DEF Fits
<1>9. JobsOK' /\ LockOK'
  BY <1>1, <1>3, <1>6, <1>8, GoesIdle, Moves
<1>10. QED
  BY <1>1, <1>9, Alone DEF Sound, HistoryOK

LEMMA FetchIQStep == ASSUME Sound, NEW p \in Procs, FetchIQ(p) PROVE Sound'
<1> DEFINE j == job[p]
<1>1. j.pc = "iq" /\ UNCHANGED <<server, store, keyring, rec, calls>> /\ Watch
  BY DEF FetchIQ
<1>2. UNCHANGED log /\ Len(log) \in Nat /\ Len(log) <= MaxVersion
  BY <1>1 DEF server, Sound, ServerOK
<1>3. Extends(log, log')
  BY <1>2, SameServer
<1>4. j \in Job /\ lock = p
  BY <1>1 DEF Sound, JobsOK, Fits
<1>5. PICK snap \in IF j.want /\ log # <<>>
                    THEN (IF j.st = EmptyState THEN 0 ELSE 1) .. Len(log) ELSE {0} :
      \E last \in Versions :
       LET first == IF snap # 0 THEN snap ELSE j.st.version
           got == [j EXCEPT !.want = FALSE, !.snap = snap, !.last = last,
                            !.more = last < Len(log), !.out = {}]
       IN  /\ last \in first .. Len(log)
           /\ snap # 0 \/ last > first \/ first = Len(log)
           /\ IF snap # 0 /\ j.st # EmptyState
              THEN Abort(p, {}) /\ UNCHANGED emitted
              ELSE GoOn(p, got) /\ UNCHANGED harm
  BY DEF FetchIQ
<1>6. snap \in Nat /\ snap <= Len(log) /\ snap \in Versions
  <2>1. snap \in 0 .. Len(log)
    BY <1>2, <1>5
  <2>2. QED
    BY <1>2, <2>1, Bounds DEF Versions
<1>7. PICK last \in Versions :
       LET first == IF snap # 0 THEN snap ELSE j.st.version
           got == [j EXCEPT !.want = FALSE, !.snap = snap, !.last = last,
                            !.more = last < Len(log), !.out = {}]
       IN  /\ last \in first .. Len(log)
           /\ snap # 0 \/ last > first \/ first = Len(log)
           /\ IF snap # 0 /\ j.st # EmptyState
              THEN Abort(p, {}) /\ UNCHANGED emitted
              ELSE GoOn(p, got) /\ UNCHANGED harm
  BY <1>5
<1> DEFINE got == [j EXCEPT !.want = FALSE, !.snap = snap, !.last = last,
                            !.more = last < Len(log), !.out = {}]
<1>8. last <= Len(log)
  <2>1. j.st.version \in Int /\ last \in Int
    BY <1>4, Bounds DEF Job, HashState, Versions
  <2>2. QED
    BY <1>2, <1>6, <1>7, <2>1
<1>9. \/ Abort(p, {}) /\ UNCHANGED emitted
      \/ GoOn(p, got) /\ UNCHANGED harm
  BY <1>7
<1>10. got \in Job /\ got.snap = snap /\ got.last = last
  <2>1. (last < Len(log)) \in BOOLEAN
    OBVIOUS
  <2>2. QED
    BY <1>4, <1>6, <2>1 DEF Job
<1> HIDE DEF got
<1>11. JobsOK' /\ LockOK' /\ emitted' \subseteq ValueMACs /\ harm' \subseteq Mishaps
  <2>1. CASE Abort(p, {}) /\ UNCHANGED emitted
    BY <1>3, <2>1, AbortType DEF Sound, HistoryOK
  <2>2. CASE GoOn(p, got) /\ UNCHANGED harm
    BY <1>2, <1>4, <1>6, <1>8, <1>10, <2>2, GoOnType DEF Sound, HistoryOK
  <2>3. QED
    BY <1>9, <2>1, <2>2
<1>12. QED
  BY <1>1, <1>11, Alone

LEMMA ListKeysType ==
  ASSUME Sound, NEW p \in Procs
  PROVE  ListKeys(job[p]) \subseteq Keys
<1> DEFINE j == job[p]
           M == Max({j.snap, j.st.version})
<1>1. j \in Job /\ Fits(p, j, log, lock) /\ log \in Seq(Patch) /\ Len(log) <= MaxVersion
  BY DEF Sound, JobsOK, ServerOK
<1>2. /\ j.snap \in Nat /\ j.st.version \in Nat /\ j.last \in Nat
      /\ j.snap <= Len(log) /\ j.last <= Len(log)
  BY <1>1, Bounds DEF Job, HashState, Versions, Fits
<1>3. M \in Nat
  <2>1. {j.snap, j.st.version} \in SUBSET Int /\ {j.snap, j.st.version} # {}
    BY <1>2
  <2>2. IsFiniteSet({j.snap, j.st.version})
    <3>1. IsFiniteSet({j.snap} \cup {j.st.version})
      BY FS_Singleton, FS_AddElement
    <3>2. {j.snap, j.st.version} = {j.snap} \cup {j.st.version}
      OBVIOUS
    <3>3. QED
      BY <3>1, <3>2
  <2>3. M \in {j.snap, j.st.version}
    BY <2>1, <2>2, MaxIsLargest
  <2>4. QED
    BY <1>2, <2>3
<1> HIDE DEF M
<1>4. {log[v].key : v \in M + 1 .. j.last} \subseteq Keys
  BY <1>1, <1>2, <1>3, PatchType
<1>5. ASSUME j.snap # 0
      PROVE  log[j.snap].key \in Keys /\ {log[m[1]].rkey : m \in Content(j.snap)} \subseteq Keys
  <2>1. j.snap \in 1 .. Len(log) /\ j.snap \in 0 .. Len(log)
    BY <1>2, <1>5
  <2>2. \A m \in Content(j.snap) : m[1] \in 1 .. Len(log)
    BY <1>1, <2>1, ContentType DEF Content
  <2>3. QED
    BY <1>1, <2>1, <2>2, PatchType
<1>6. QED
  BY <1>4, <1>5 DEF ListKeys, M

LEMMA KeyNotFoundType ==
  ASSUME Sound, NEW p \in Procs, NEW need, KeyNotFound(p, need), UNCHANGED log
  PROVE  JobsOK' /\ LockOK' /\ harm' \subseteq Mishaps /\ KeysOK'
<1>1. Extends(log, log')
  BY SameServer
<1>2. KeysOK'
  BY ListKeysType DEF KeyNotFound, Sound, KeysOK
<1>3. (IF need \subseteq keys \cup ListKeys(job[p]) THEN {} ELSE {"unlisted"}) \in SUBSET Mishaps
  BY DEF Mishaps
<1>4. QED
  BY <1>1, <1>2, <1>3, AbortType DEF KeyNotFound

\* A step that decodes: it leaves the server, the store and the recovery alone.
LEMMA Decoded ==
  ASSUME Sound, JobsOK', LockOK', KeysOK', harm' \subseteq Mishaps,
         UNCHANGED <<server, store, rec, emitted, calls>>, Watch
  PROVE  Sound'
<1>1. UNCHANGED log /\ ServerOK'
  BY DEF server, Sound, ServerOK
<1>2. Extends(log, log')
  BY <1>1, SameServer
<1>3. StoreOK' /\ RecoveryOK'
  BY <1>2, SameStore, SameRecovery
<1>4. HistoryOK'
  BY WatchType DEF Sound, HistoryOK
<1>5. QED
  BY <1>1, <1>3, <1>4 DEF Sound

LEMMA DecodeSnapshotStep == ASSUME Sound, NEW p \in Procs, DecodeSnapshot(p) PROVE Sound'
<1> DEFINE j == job[p]
           need == {log[j.snap].key} \cup {log[m[1]].rkey : m \in Content(j.snap)}
           k == [j EXCEPT !.pc = "put", !.new = SnapshotOf(j.snap)]
<1>1. /\ j.pc = "validate" /\ j.snap # 0 /\ UNCHANGED <<server, store, rec, emitted, calls>> /\ Watch
      /\ \/ Set(p, k) /\ UNCHANGED <<lock, keyring, harm>>
         \/ KeyNotFound(p, need)
  BY DEF DecodeSnapshot
<1>2. UNCHANGED log
  BY <1>1 DEF server
<1>3. Extends(log, log')
  BY <1>2, SameServer
<1>4. j \in Job /\ Fits(p, j, log, lock)
  BY DEF Sound, JobsOK
<1>5. j.snap \in 1 .. Len(log) /\ j.snap \in Versions
  BY <1>1, <1>4, Bounds DEF Job, Versions, Fits, Sound, ServerOK
<1>6. SnapshotOf(j.snap) \in HashState /\ Vouched(log, SnapshotOf(j.snap))
  BY <1>5, HashOfType DEF SnapshotOf, HashState, Vouched, Content
<1>7. k \in Job
  BY <1>4, <1>6 DEF Job, Steps
<1>8. k.pc = "put" /\ k.new = SnapshotOf(j.snap) /\ k.snap = j.snap /\ k.last = j.last /\ k.idx = j.idx
  BY <1>4 DEF Job
<1> HIDE DEF k
<1>9. Fits(p, k, log', lock)
  BY <1>1, <1>2, <1>4, <1>6, <1>8 DEF Fits
<1>10. CASE Set(p, k) /\ UNCHANGED <<lock, keyring, harm>>
  <2>1. JobsOK' /\ LockOK'
    BY <1>3, <1>7, <1>9, <1>10, Moves
  <2>2. KeysOK' /\ harm' \subseteq Mishaps
    BY <1>10 DEF keyring, Sound, KeysOK, HistoryOK
  <2>3. QED
    BY <1>1, <2>1, <2>2, Decoded
<1>11. CASE KeyNotFound(p, need)
  BY <1>1, <1>2, <1>11, KeyNotFoundType, Decoded
<1>12. QED
  BY <1>1, <1>10, <1>11

LEMMA DecodePatchStep == ASSUME Sound, NEW p \in Procs, DecodePatch(p) PROVE Sound'
<1> DEFINE j == job[p]
           v == j.st.version + 1
           need == {log[v].key, log[v].rkey}
           new == PatchState(j.st, v)
           k == [j EXCEPT !.pc = "put", !.new = new]
<1>1. /\ j.pc = "validate" /\ j.snap = 0 /\ UNCHANGED <<server, store, rec, emitted, calls>> /\ Watch
      /\ \/ Abort(p, {}) /\ UNCHANGED keyring
         \/ Validates(new) /\ Set(p, k) /\ UNCHANGED <<lock, keyring, harm>>
         \/ KeyNotFound(p, need)
  BY DEF DecodePatch
<1>2. UNCHANGED log
  BY <1>1 DEF server
<1>3. Extends(log, log')
  BY <1>2, SameServer
<1>4. j \in Job /\ Fits(p, j, log, lock) /\ j.st \in HashState
  BY DEF Sound, JobsOK, Job
<1>5. v \in 1 .. Len(log) /\ v \in Versions
  <2>1. /\ j.st.version \in Nat /\ j.last \in Nat /\ j.st.version < j.last /\ j.last <= Len(log)
        /\ Len(log) <= MaxVersion /\ Len(log) \in Nat
    BY <1>1, <1>4, Bounds DEF Job, HashState, Versions, Fits, Sound, ServerOK
  <2>2. QED
    BY <2>1, Bounds DEF Versions
<1>6. new \in HashState /\ new.version = v
  <2>1. log[v].muts \in Muts /\ j.st.hash \in Hash
    BY <1>4, <1>5, PatchType DEF Sound, ServerOK, HashState
  <2>2. updateHash(j.st.hash, v, log[v].muts,
                   [i \in DOMAIN log[v].muts |-> PrevSet(v, log[v].muts, i)]) \in Hash
    BY <2>1, UpdateHashType
  <2>3. QED
    BY <1>5, <2>2 DEF PatchState, HashState
<1>7. Validates(new) => Vouched(log, new)
  BY <1>5, <1>6 DEF Validates, Vouched
<1> HIDE DEF new, v
<1>8. k \in Job
  BY <1>4, <1>6 DEF Job, Steps
<1>9. k.pc = "put" /\ k.new = new /\ k.snap = j.snap /\ k.last = j.last /\ k.idx = j.idx
  BY <1>4 DEF Job
<1> HIDE DEF k
<1>10. Validates(new) => Fits(p, k, log', lock)
  BY <1>1, <1>2, <1>4, <1>7, <1>9 DEF Fits
<1>11. CASE Abort(p, {}) /\ UNCHANGED keyring
  <2>1. KeysOK'
    BY <1>11 DEF keyring, Sound, KeysOK
  <2>2. QED
    BY <1>1, <1>3, <1>11, <2>1, AbortType, Decoded
<1>12. CASE Validates(new) /\ Set(p, k) /\ UNCHANGED <<lock, keyring, harm>>
  <2>1. JobsOK' /\ LockOK'
    BY <1>3, <1>8, <1>10, <1>12, Moves
  <2>2. KeysOK' /\ harm' \subseteq Mishaps
    BY <1>12 DEF keyring, Sound, KeysOK, HistoryOK
  <2>3. QED
    BY <1>1, <2>1, <2>2, Decoded
<1>13. CASE KeyNotFound(p, need)
  BY <1>1, <1>2, <1>13, KeyNotFoundType, Decoded
<1>14. QED
  BY <1>1, <1>11, <1>12, <1>13

\* The rows a goroutine is about to insert.
LEMMA RowsType ==
  ASSUME Sound, NEW p \in Procs, job[p].pc \in {"put", "del", "macs"}
  PROVE  Rows(job[p]) \subseteq MACRow
<1> DEFINE j == job[p]
<1>1. j \in Job /\ Fits(p, j, log, lock) /\ log \in Seq(Patch) /\ Len(log) <= MaxVersion
  BY DEF Sound, JobsOK, ServerOK
<1>2. j.new.version \in 1 .. Len(log) /\ j.snap \in Versions /\ j.snap \in 0 .. Len(log)
  BY <1>1, Bounds DEF Fits, Vouched, Job, Versions
<1>3. CASE j.snap # 0
  <2>1. ASSUME NEW m \in Content(j.snap) PROVE m \in ValueMACs /\ MutationAt(m).index \in Indexes
    BY <1>1, <1>2, <2>1, ContentType DEF Content, MutationAt, Mutation
  <2>2. QED
    BY <1>2, <1>3, <2>1 DEF Rows, MACRow
<1>4. CASE j.snap = 0
  <2>1. j.new.version \in 1 .. MaxVersion /\ j.new.version \in Versions
    BY <1>1, <1>2, Bounds DEF Versions
  <2>2. ASSUME NEW i \in AddedMACs(j.new.version)
        PROVE  log[j.new.version].muts[i].index \in Indexes /\ <<j.new.version, i>> \in ValueMACs
    <3>1. log[j.new.version].muts \in Muts /\ i \in DOMAIN log[j.new.version].muts
      BY <1>1, <1>2, PatchType DEF AddedMACs
    <3>2. log[j.new.version].muts[i] \in Mutation /\ i \in 1 .. MaxMutations
      BY <3>1, MutsType
    <3>3. QED
      BY <2>1, <3>2 DEF Mutation, ValueMACs
  <2>3. QED
    BY <1>4, <2>1, <2>2 DEF Rows, MACRow
<1>5. QED
  BY <1>3, <1>4

\* A goroutine that goes on to its next statement of storeMACs.
LEMMA NextStatement ==
  ASSUME Sound, NEW p \in Procs, job[p].pc \in {"put", "del"}, NEW where \in {"del", "macs"},
         Set(p, [job[p] EXCEPT !.pc = where]), UNCHANGED <<log, lock>>
  PROVE  JobsOK' /\ LockOK'
<1> DEFINE j == job[p]
           k == [j EXCEPT !.pc = where]
<1>1. j \in Job /\ Fits(p, j, log, lock)
  BY DEF Sound, JobsOK
<1>2. k \in Job
  BY <1>1 DEF Job, Steps
<1>3. k.pc = where /\ k.new = j.new /\ k.snap = j.snap /\ k.last = j.last /\ k.idx = j.idx
  BY <1>1 DEF Job
<1>4. Set(p, k)
  OBVIOUS
<1> HIDE DEF k
<1>5. Fits(p, k, log', lock)
  BY <1>1, <1>3 DEF Fits
<1>6. QED
  BY <1>2, <1>4, <1>5, SameServer, Moves

LEMMA PutVersionStep == ASSUME Sound, NEW p \in Procs, PutVersion(p) PROVE Sound'
<1> DEFINE j == job[p]
<1>1. /\ j.pc = "put" /\ row' = j.new /\ UNCHANGED macs /\ Watch
      /\ UNCHANGED <<server, keyring, rec, harm, calls>>
      /\ \/ Stored(p, j)
         \/ Set(p, [j EXCEPT !.pc = AfterPut(j)]) /\ UNCHANGED <<lock, emitted>>
  BY DEF PutVersion, PutAppStateVersion
<1>2. UNCHANGED log
  BY <1>1 DEF server
<1>3. Extends(log, log')
  BY <1>2, SameServer
<1>4. JobsOK' /\ LockOK' /\ emitted' \subseteq ValueMACs
  <2>1. CASE Stored(p, j)
    BY <1>1, <1>2, <2>1, StoredType
  <2>2. CASE Set(p, [j EXCEPT !.pc = AfterPut(j)]) /\ UNCHANGED <<lock, emitted>>
    <3>1. AfterPut(j) \in {"del", "macs"}
      BY DEF AfterPut
    <3>2. QED
      BY <1>1, <1>2, <2>2, <3>1, NextStatement DEF Sound, HistoryOK
  <2>3. QED
    BY <1>1, <2>1, <2>2
<1>5. StoreOK'
  <2>1. j \in Job /\ Fits(p, j, log, lock)
    BY DEF Sound, JobsOK
  <2>2. j.new \in HashState /\ Vouched(log', j.new)
    BY <1>1, <1>2, <2>1 DEF Job, Fits
  <2>3. QED
    BY <1>1, <2>2 DEF StoreOK, Sound
<1>6. RecoveryOK' /\ HistoryOK'
  BY <1>1, <1>3, <1>4, SameRecovery, WatchType DEF Sound, HistoryOK
<1>7. ServerOK' /\ KeysOK'
  BY <1>1 DEF Sound, ServerOK, KeysOK, server, keyring
<1>8. QED
  BY <1>4, <1>5, <1>6, <1>7 DEF Sound

\* A step that changes only the MACs of the store.
LEMMA MACsChange ==
  ASSUME Sound, JobsOK', LockOK', emitted' \subseteq ValueMACs, harm' \subseteq Mishaps,
         macs' \subseteq MACRow, UNCHANGED <<server, row, keyring, rec, calls>>, Watch
  PROVE  Sound'
<1>1. UNCHANGED log /\ ServerOK' /\ KeysOK'
  BY DEF server, keyring, Sound, ServerOK, KeysOK
<1>2. StoreOK'
  BY <1>1 DEF Sound, StoreOK
<1>3. RecoveryOK' /\ HistoryOK'
  BY <1>1, SameServer, SameRecovery, WatchType
<1>4. QED
  BY <1>1, <1>2, <1>3 DEF Sound

LEMMA DeleteMACsStep == ASSUME Sound, NEW p \in Procs, DeleteMACs(p) PROVE Sound'
<1> DEFINE j == job[p]
<1>1. /\ j.pc = "del" /\ macs' = {r \in macs : r.index \notin Gone(j)} /\ Watch
      /\ UNCHANGED <<server, row, keyring, rec, harm, calls>>
      /\ \/ Stored(p, j)
         \/ Set(p, [j EXCEPT !.pc = "macs"]) /\ UNCHANGED <<lock, emitted>>
  BY DEF DeleteMACs, DeleteMACsOf
<1>2. UNCHANGED log
  BY <1>1 DEF server
<1>3. JobsOK' /\ LockOK' /\ emitted' \subseteq ValueMACs
  BY <1>1, <1>2, StoredType, NextStatement DEF Sound, HistoryOK
<1>4. macs' \subseteq MACRow /\ harm' \subseteq Mishaps
  BY <1>1 DEF Sound, StoreOK, HistoryOK
<1>5. QED
  BY <1>1, <1>3, <1>4, MACsChange

LEMMA PutMACsStep == ASSUME Sound, NEW p \in Procs, PutMACs(p) PROVE Sound'
<1> DEFINE j == job[p]
<1>1. /\ j.pc = "macs" /\ Watch
      /\ UNCHANGED <<server, row, keyring, rec, calls>>
      /\ \/ macs' = macs \cup Rows(j) /\ Stored(p, j) /\ UNCHANGED harm
         \/ Abort(p, {"torn"}) /\ UNCHANGED <<macs, emitted>>
  BY DEF PutMACs
<1>2. UNCHANGED log
  BY <1>1 DEF server
<1>3. macs \subseteq MACRow /\ Rows(j) \subseteq MACRow /\ emitted \subseteq ValueMACs /\ harm \subseteq Mishaps
  BY <1>1, RowsType DEF Sound, StoreOK, HistoryOK
<1>4. CASE macs' = macs \cup Rows(j) /\ Stored(p, j) /\ UNCHANGED harm
  <2>1. JobsOK' /\ LockOK' /\ emitted' \subseteq ValueMACs
    BY <1>1, <1>2, <1>4, StoredType
  <2>2. QED
    BY <1>1, <1>3, <1>4, <2>1, MACsChange
<1>5. CASE Abort(p, {"torn"}) /\ UNCHANGED <<macs, emitted>>
  <2>1. {"torn"} \in SUBSET Mishaps
    BY DEF Mishaps
  <2>2. JobsOK' /\ LockOK' /\ harm' \subseteq Mishaps
    BY <1>2, <1>5, <2>1, AbortType, SameServer
  <2>3. QED
    BY <1>1, <1>3, <1>5, <2>2, MACsChange
<1>6. QED
  BY <1>1, <1>4, <1>5

LEMMA FailsStep == ASSUME Sound, NEW p \in Procs, Fails(p) PROVE Sound'
<1> DEFINE why == IF job[p].pc \in {"del", "macs"} THEN {"fault", "torn"} ELSE {"fault"}
<1>1. /\ Abort(p, why) /\ Call /\ Watch
      /\ UNCHANGED <<server, store, keyring, rec, emitted>>
  BY DEF Fails
<1>2. why \in SUBSET Mishaps /\ UNCHANGED log
  BY <1>1 DEF Mishaps, server
<1> HIDE DEF why
<1>3. JobsOK' /\ LockOK' /\ harm' \subseteq Mishaps
  BY <1>1, <1>2, SameServer, AbortType
<1>4. QED
  BY <1>1, <1>3, Alone DEF Sound, HistoryOK

LEMMA RequestKeysStep == ASSUME Sound, RequestKeys PROVE Sound'
<1>1. /\ UNCHANGED <<server, store, keys, lock, job, rec, emitted>> /\ Watch
      /\ Call \/ UNCHANGED calls
      /\ harm' \in {harm, harm \cup {"fault"}}
  BY DEF RequestKeys
<1>2. UNCHANGED log /\ ServerOK'
  BY <1>1 DEF server, Sound, ServerOK
<1>3. Extends(log, log')
  BY <1>2, SameServer
<1>4. KeysOK'
  BY DEF RequestKeys, Sound, KeysOK
<1>5. harm' \subseteq Mishaps /\ emitted' \subseteq ValueMACs
  BY <1>1 DEF Mishaps, Sound, HistoryOK
<1>6. QED
  BY <1>1, <1>2, <1>3, <1>4, <1>5, SameJobs, SameStore, SameRecovery, WatchType DEF Sound

\* A step of a sender between its statements.
LEMMA SenderMoves ==
  ASSUME Sound, NEW p \in Procs, NEW k \in Job, Set(p, k), Fits(p, k, log, lock),
         UNCHANGED <<server, store, keyring, lock, rec, emitted, harm>>,
         Call \/ UNCHANGED calls, Watch
  PROVE  Sound'
<1>1. UNCHANGED log
  BY DEF server
<1>2. JobsOK' /\ LockOK'
  BY <1>1, SameServer, Moves
<1>3. QED
  BY <1>2, Alone DEF Sound, HistoryOK

LEMMA SendAppStateStep == ASSUME Sound, NEW p \in Procs, NEW i \in Own, SendAppState(p, i) PROVE Sound'
<1> DEFINE k == [Idle EXCEPT !.pc = "version", !.idx = i, !.retry = TRUE]
<1>1. i \in Indexes
  BY PatchesAssumption
<1>2. k \in Job
  BY <1>1, IdleType DEF Job, Steps
<1>3. k.pc = "version" /\ k.idx = i /\ k.snap = 0 /\ k.last = 0
  BY IdleType DEF Idle
<1>4. Set(p, k) /\ UNCHANGED <<server, store, keyring, lock, rec, emitted, harm>> /\ Call /\ Watch
  BY DEF SendAppState
<1> HIDE DEF k
<1>5. Fits(p, k, log, lock)
  BY <1>1, <1>3 DEF Fits, Sound, ServerOK
<1>6. QED
  BY <1>2, <1>4, <1>5, SenderMoves

LEMMA SendReadStep == ASSUME Sound, NEW p \in Procs, SendRead(p) PROVE Sound'
<1> DEFINE j == job[p]
           k == [j EXCEPT !.pc = "encode", !.st = GetAppStateVersion, !.key = Max(keys)]
<1>1. /\ j.pc = "version" /\ UNCHANGED <<server, store, keyring, lock, rec, emitted, harm, calls>> /\ Watch
      /\ \/ Set(p, Idle)
         \/ keys # {} /\ Set(p, k)
  BY DEF SendRead
<1>2. j \in Job /\ Fits(p, j, log, lock)
  BY DEF Sound, JobsOK
<1>3. CASE Set(p, Idle)
  BY <1>1, <1>3, IdleType, IdleFits, SenderMoves DEF Sound, ServerOK
<1>4. CASE keys # {} /\ Set(p, k)
  <2>1. Max(keys) \in Keys
    <3>1. keys \in SUBSET Keys /\ keys \in SUBSET Int /\ IsFiniteSet(Keys)
      BY KeysAssumption DEF Sound, KeysOK
    <3>2. IsFiniteSet(keys)
      BY <3>1, FS_Subset
    <3>3. Max(keys) \in keys
      BY <1>4, <3>1, <3>2, MaxIsLargest
    <3>4. QED
      BY <3>1, <3>3
  <2>2. k \in Job
    BY <1>2, <2>1, StateType DEF Job, Steps
  <2>3. k.pc = "encode" /\ k.idx = j.idx /\ k.key = Max(keys) /\ k.snap = j.snap /\ k.last = j.last
    BY <1>2 DEF Job
  <2> HIDE DEF k
  <2>4. Fits(p, k, log, lock)
    BY <1>1, <1>2, <2>1, <2>3 DEF Fits
  <2>5. QED
    BY <1>1, <1>4, <2>2, <2>4, SenderMoves
<1>5. QED
  BY <1>1, <1>3, <1>4

\* A patch of one mutation.
LEMMA OwnMuts ==
  ASSUME NEW i \in Indexes
  PROVE  <<[op |-> "set", index |-> i]>> \in Muts
<1>1. [op |-> "set", index |-> i] \in Mutation
  BY DEF Mutation
<1>2. <<[op |-> "set", index |-> i]>> \in [1 .. 1 -> Mutation]
  BY <1>1
<1>3. 1 \in 1 .. MaxMutations
  BY Bounds
<1>4. QED
  BY <1>2, <1>3 DEF Muts

LEMMA EncodePatchStep == ASSUME Sound, NEW p \in Procs, EncodePatch(p) PROVE Sound'
<1> DEFINE j == job[p]
           v == j.st.version + 1
           muts == <<[op |-> "set", index |-> j.idx]>>
           h == updateHash(j.st.hash, v, muts, <<GetAppStateMutationMAC(j.idx)>>)
           n == [j.new EXCEPT !.hash = h]
           k == [j EXCEPT !.pc = "send", !.new = n]
<1>1. j \in Job /\ Fits(p, j, log, lock)
  BY DEF Sound, JobsOK
<1>2. j.pc = "encode" /\ j.idx \in Indexes /\ j.key \in Keys
  BY <1>1 DEF EncodePatch, Fits
<1>3. h \in Hash
  <2>1. muts \in Muts /\ j.st.hash \in Hash
    BY <1>1, <1>2, OwnMuts DEF Job, HashState
  <2>2. QED
    BY <2>1, UpdateHashType
<1>4. /\ Set(p, [j EXCEPT !.pc = "send", !.new.hash = h])
      /\ UNCHANGED <<server, store, keyring, lock, rec, emitted, harm, calls>> /\ Watch
  BY DEF EncodePatch
<1> HIDE DEF h
<1>5. [j EXCEPT !.pc = "send", !.new.hash = h] = k
  BY <1>1 DEF Job
<1>6. n \in HashState
  BY <1>1, <1>3 DEF Job, HashState
<1> HIDE DEF n
<1>7. k \in Job
  BY <1>1, <1>6 DEF Job, Steps
<1>8. k.pc = "send" /\ k.idx = j.idx /\ k.key = j.key /\ k.snap = j.snap /\ k.last = j.last
  BY <1>1 DEF Job
<1>9. Set(p, k)
  BY <1>4, <1>5
<1> HIDE DEF k
<1>10. Fits(p, k, log, lock)
  BY <1>1, <1>2, <1>8 DEF Fits
<1>11. QED
  BY <1>4, <1>7, <1>9, <1>10, SenderMoves

\* The log gets one patch more.
LEMMA LogGrows ==
  ASSUME ServerOK, NEW x \in Patch, Len(log) < MaxVersion
  PROVE  /\ Extends(log, Append(log, x)) /\ Append(log, x)[Len(log) + 1] = x
         /\ Len(Append(log, x)) = Len(log) + 1 /\ Append(log, x) \in Seq(Patch)
<1>1. log \in Seq(Patch) /\ Len(log) \in Nat
  BY DEF ServerOK
<1>2. /\ Append(log, x) \in Seq(Patch) /\ Len(Append(log, x)) = Len(log) + 1
      /\ \A v \in 1 .. Len(log) : Append(log, x)[v] = log[v]
      /\ Append(log, x)[Len(log) + 1] = x
  BY <1>1
<1>3. QED
  BY <1>1, <1>2, Bounds DEF Extends

LEMMA SendAcceptedStep == ASSUME Sound, NEW p \in Procs, SendAccepted(p) PROVE Sound'
<1> DEFINE j == job[p]
           x == [muts |-> <<[op |-> "set", index |-> j.idx]>>, key |-> j.key,
                 rkey |-> j.key, hash |-> j.new.hash]
           k == [Idle EXCEPT !.pc = "lock"]
<1>1. /\ j.pc = "send" /\ Len(log) < MaxVersion /\ log' = Append(log, x)
      /\ UNCHANGED <<notify, store, keyring, rec, emitted>> /\ Watch
      /\ \/ Set(p, k) /\ UNCHANGED <<lock, harm, calls>>
         \/ Abort(p, {"fault"}) /\ Call
  BY DEF SendAccepted
<1>2. j \in Job /\ j.idx \in Indexes /\ j.key \in Keys
  BY <1>1 DEF Sound, JobsOK, Fits
<1>3. x \in Patch
  <2>1. <<[op |-> "set", index |-> j.idx]>> \in Muts /\ j.new.hash \in Hash
    BY <1>2, OwnMuts DEF Job, HashState
  <2>2. QED
    BY <1>2, <2>1 DEF Patch, Muts
<1> HIDE DEF x
<1>4. Extends(log, log') /\ ServerOK'
  BY <1>1, <1>3, LogGrows DEF Sound, ServerOK, Extends
<1>5. JobsOK' /\ LockOK' /\ harm' \subseteq Mishaps /\ (Call \/ UNCHANGED calls)
  <2>1. CASE Set(p, k) /\ UNCHANGED <<lock, harm, calls>>
    <3>1. k \in Job /\ k.pc = "lock" /\ k.snap = 0 /\ k.last = 0
      BY IdleType DEF Job, Steps
    <3> HIDE DEF k
    <3>2. Fits(p, k, log', lock)
      BY <1>4, <3>1, StartFits DEF Extends
    <3>3. QED
      BY <1>4, <2>1, <3>1, <3>2, Moves DEF Sound, HistoryOK
  <2>2. CASE Abort(p, {"fault"}) /\ Call
    <3>1. {"fault"} \in SUBSET Mishaps
      BY DEF Mishaps
    <3>2. QED
      BY <1>4, <2>2, <3>1, AbortType
  <2>3. QED
    BY <1>1, <2>1, <2>2
<1>6. StoreOK' /\ RecoveryOK'
  BY <1>1, <1>4, SameStore, SameRecovery
<1>7. HistoryOK'
  BY <1>1, <1>5, WatchType DEF Sound, HistoryOK
<1>8. KeysOK'
  BY <1>1 DEF keyring, Sound, KeysOK
<1>9. QED
  BY <1>4, <1>5, <1>6, <1>7, <1>8 DEF Sound

LEMMA SendConflictStep == ASSUME Sound, NEW p \in Procs, SendConflict(p) PROVE Sound'
<1> DEFINE j == job[p]
           k == [j EXCEPT !.pc = "validate", !.new = EmptyState, !.key = 0, !.last = Len(log)]
<1>1. /\ j.pc = "send" /\ j.st.version < Len(log)
      /\ UNCHANGED <<server, store, keyring, lock, rec, emitted, harm, calls>> /\ Watch
      /\ Set(p, k) \/ Set(p, Idle)
  BY DEF SendConflict
<1>2. j \in Job /\ Fits(p, j, log, lock)
  BY DEF Sound, JobsOK
<1>3. Len(log) \in Versions /\ Len(log) \in Nat
  BY Bounds DEF Versions, Sound, ServerOK
<1>4. k \in Job
  BY <1>2, <1>3, EmptyStateType DEF Job, Steps
<1>5. k.pc = "validate" /\ k.idx = j.idx /\ k.st = j.st /\ k.snap = j.snap /\ k.last = Len(log)
  BY <1>2 DEF Job
<1> HIDE DEF k
<1>6. Fits(p, k, log, lock)
  BY <1>1, <1>2, <1>3, <1>5 DEF Fits
<1>7. Idle \in Job /\ Fits(p, Idle, log, lock)
  BY IdleType, IdleFits DEF Sound, ServerOK
<1>8. QED
  BY <1>1, <1>4, <1>6, <1>7, SenderMoves

LEMMA SendRefusedStep == ASSUME Sound, NEW p \in Procs, SendRefused(p) PROVE Sound'
<1>1. Idle \in Job /\ Fits(p, Idle, log, lock)
  BY IdleType, IdleFits DEF Sound, ServerOK
<1>2. QED
  BY <1>1, SenderMoves DEF SendRefused

\* The recovery from the phone.  It takes no lock.
LEMMA RecoveryMoves ==
  ASSUME Sound, UNCHANGED <<server, keyring, lock, job>>, StoreOK', RecoveryOK', HistoryOK'
  PROVE  Sound'
<1>1. UNCHANGED log /\ ServerOK' /\ KeysOK'
  BY DEF server, keyring, Sound, ServerOK, KeysOK
<1>2. JobsOK' /\ LockOK'
  BY <1>1, SameServer, SameJobs
<1>3. QED
  BY <1>1, <1>2 DEF Sound

LEMMA RecoveryStep ==
  ASSUME Sound,
         \/ \E v \in 1 .. MaxVersion : Recovery(v)
         \/ RecoveryDelete \/ RecoveryPut \/ RecoveryMACs \/ RecoveryFails
  PROVE  Sound'
<1> DEFINE Pcs == {"idle", "del", "put", "macs"}
<1>1. /\ rec \in [pc : Pcs, version : Versions]
      /\ rec.pc # "idle" => rec.version \in 1 .. Len(log)
      /\ log \in Seq(Patch) /\ Len(log) <= MaxVersion /\ Len(log) \in Nat
  BY DEF Sound, RecoveryOK, ServerOK
<1>2. UNCHANGED <<server, keyring, lock, job>> /\ UNCHANGED log /\ Watch
  BY DEF Recovery, RecoveryDelete, RecoveryPut, RecoveryMACs, RecoveryFails, server
<1>3. ASSUME NEW v \in 1 .. MaxVersion, Recovery(v) PROVE Sound'
  <2>1. RecoveryOK'
    BY <1>1, <1>2, <1>3, Bounds DEF Recovery, RecoveryOK, Versions
  <2>2. HistoryOK'
    BY <1>3, WatchType DEF Recovery, Sound, HistoryOK
  <2>3. StoreOK'
    BY <1>2, <1>3, SameServer, SameStore DEF Recovery
  <2>4. QED
    BY <1>2, <2>1, <2>2, <2>3, RecoveryMoves
<1>4. ASSUME RecoveryDelete PROVE Sound'
  <2>1. RecoveryOK'
    BY <1>1, <1>2, <1>4 DEF RecoveryDelete, RecoveryOK
  <2>2. HistoryOK'
    BY <1>4, WatchType DEF RecoveryDelete, Sound, HistoryOK
  <2>3. StoreOK'
    BY <1>4 DEF RecoveryDelete, DeleteAppStateVersion, StoreOK
  <2>4. QED
    BY <1>2, <2>1, <2>2, <2>3, RecoveryMoves
<1>5. ASSUME RecoveryPut PROVE Sound'
  <2>1. RecoveryOK'
    BY <1>1, <1>2, <1>5 DEF RecoveryPut, RecoveryOK
  <2>2. HistoryOK'
    BY <1>5, WatchType DEF RecoveryPut, Sound, HistoryOK
  <2>3. StoreOK'
    <3>1. rec.version \in 1 .. Len(log) /\ rec.version \in Versions
      BY <1>1, <1>5 DEF RecoveryPut
    <3>2. SnapshotOf(rec.version) \in HashState /\ Vouched(log, SnapshotOf(rec.version))
      BY <3>1, HashOfType DEF SnapshotOf, HashState, Vouched, Content
    <3>3. row' = SnapshotOf(rec.version) /\ UNCHANGED macs
      BY <1>5 DEF RecoveryPut, PutAppStateVersion
    <3>4. QED
      BY <1>2, <3>2, <3>3 DEF StoreOK, Sound
  <2>4. QED
    BY <1>2, <2>1, <2>2, <2>3, RecoveryMoves
<1>6. ASSUME RecoveryMACs PROVE Sound'
  <2> DEFINE rows == {[version |-> rec.version, index |-> MutationAt(m).index, value |-> m] :
                        m \in Content(rec.version)}
  <2>1. /\ rec.pc = "macs" /\ UNCHANGED <<row, calls>> /\ rec' = [pc |-> "idle", version |-> 0]
        /\ \/ macs' = macs \cup rows /\ emitted' = emitted \cup Content(rec.version) /\ UNCHANGED harm
           \/ harm' = harm \cup {"torn"} /\ UNCHANGED <<macs, emitted>>
    BY <1>6 DEF RecoveryMACs
  <2>2. rec.version \in 1 .. Len(log) /\ rec.version \in 0 .. Len(log) /\ rec.version \in Versions
    BY <1>1, <2>1
  <2>3. Content(rec.version) \subseteq ValueMACs
        /\ \A m \in Content(rec.version) : MutationAt(m).index \in Indexes
    BY <1>1, <2>2, ContentType DEF Content, MutationAt, Mutation
  <2>4. rows \subseteq MACRow
    BY <2>2, <2>3 DEF MACRow
  <2> HIDE DEF rows
  <2>5. macs' \subseteq MACRow /\ emitted' \subseteq ValueMACs /\ harm' \subseteq Mishaps
    BY <2>1, <2>3, <2>4 DEF Sound, StoreOK, HistoryOK, Mishaps
  <2>6. RecoveryOK'
    BY <2>1, Bounds DEF RecoveryOK, Versions
  <2>7. HistoryOK'
    BY <1>2, <2>1, <2>5, WatchType
  <2>8. StoreOK'
    BY <1>2, <2>1, <2>5 DEF StoreOK, Sound
  <2>9. QED
    BY <1>2, <2>6, <2>7, <2>8, RecoveryMoves
<1>7. ASSUME RecoveryFails PROVE Sound'
  <2>1. /\ Call /\ UNCHANGED <<store, emitted>> /\ rec' = [pc |-> "idle", version |-> 0]
        /\ harm' \subseteq Mishaps
    BY <1>7 DEF RecoveryFails, Mishaps, Sound, HistoryOK
  <2>2. RecoveryOK'
    BY <2>1, Bounds DEF RecoveryOK, Versions
  <2>3. HistoryOK'
    BY <1>2, <2>1, WatchType DEF Sound, HistoryOK
  <2>4. StoreOK'
    BY <1>2, <2>1, SameServer, SameStore
  <2>5. QED
    BY <1>2, <2>2, <2>3, <2>4, RecoveryMoves
<1>8. QED
  BY <1>3, <1>4, <1>5, <1>6, <1>7

\* Changing the patch that was appended last is appending the changed patch.
LEMMA AppendLast ==
  ASSUME NEW q \in Seq(Patch), NEW x \in Patch, NEW y \in Patch
  PROVE  [Append(q, x) EXCEPT ![Len(q) + 1] = y] = Append(q, y)
<1> DEFINE a == Append(q, x)
           b == Append(q, y)
           c == [a EXCEPT ![Len(q) + 1] = y]
<1>1. /\ a \in [1 .. Len(q) + 1 -> Patch] /\ b \in [1 .. Len(q) + 1 -> Patch]
      /\ \A i \in 1 .. Len(q) : a[i] = b[i]
      /\ b[Len(q) + 1] = y /\ Len(q) \in Nat
  <2>1. /\ a \in Seq(Patch) /\ Len(a) = Len(q) + 1 /\ b \in Seq(Patch) /\ Len(b) = Len(q) + 1
        /\ Len(q) \in Nat /\ b[Len(q) + 1] = y
    OBVIOUS
  <2>2. \A i \in 1 .. Len(q) : a[i] = q[i] /\ b[i] = q[i]
    OBVIOUS
  <2> HIDE DEF a, b
  <2>3. a \in [1 .. Len(a) -> Patch] /\ b \in [1 .. Len(b) -> Patch]
    BY <2>1
  <2>4. QED
    BY <2>1, <2>2, <2>3
<1> HIDE DEF a, b
<1>2. c \in [1 .. Len(q) + 1 -> Patch] /\ \A i \in 1 .. Len(q) + 1 : c[i] = b[i]
  BY <1>1
<1> HIDE DEF c
<1>3. c = b
  BY <1>1, <1>2
<1>4. QED
  BY <1>3 DEF a, b, c

\* The patch another device pushes carries the hash of the records it makes.
LEMMA PushLog ==
  ASSUME Sound, NEW s \in Patches, Push(s)
  PROVE  \E y \in Patch : /\ log' = Append(log, y) /\ y.muts = s.muts
                          /\ y.hash = HashOf(ContentOf(log', Len(log) + 1))
                          /\ Len(log) < MaxVersion
<1> DEFINE x == [muts |-> s.muts, key |-> s.key, rkey |-> s.rkey, hash |-> EmptyHash]
           l == Append(log, x)
           h == HashOf(ContentOf(l, Len(l)))
           y == [muts |-> s.muts, key |-> s.key, rkey |-> s.rkey, hash |-> h]
<1>1. Len(log) < MaxVersion /\ log' = [l EXCEPT ![Len(l)].hash = h]
  BY DEF Push
<1>2. s.muts \in Muts /\ s.key \in Keys /\ s.rkey \in Keys
  BY PatchesAssumption DEF Shape, Muts
<1>3. h \in Hash /\ EmptyHash \in Hash
  BY HashOfType DEF EmptyHash, Hash
<1> HIDE DEF h
<1>4. x \in Patch /\ y \in Patch
  BY <1>2, <1>3 DEF Patch, Muts
<1>5. log \in Seq(Patch) /\ Len(log) \in Nat
  BY DEF Sound, ServerOK
<1>6. l \in Seq(Patch) /\ Len(l) = Len(log) + 1 /\ l[Len(l)] = x
      /\ \A v \in 1 .. Len(log) : l[v] = log[v]
  BY <1>1, <1>4, LogGrows DEF Sound, Extends
<1>7. log' = Append(log, y)
  <2>1. [x EXCEPT !.hash = h] = y
    OBVIOUS
  <2>3. log' = [l EXCEPT ![Len(l)] = [x EXCEPT !.hash = h]]
    BY <1>1, <1>6
  <2>4. log' = [l EXCEPT ![Len(l)] = y]
    BY <2>1, <2>3
  <2> HIDE DEF x, y
  <2>5. QED
    <3>1. log' = [Append(log, x) EXCEPT ![Len(log) + 1] = y]
      BY <1>6, <2>4
    <3>2. QED
      BY <1>4, <1>5, <3>1, AppendLast
<1>8. ContentOf(l, Len(log) + 1) = ContentOf(log', Len(log) + 1)
  <2>1. /\ log'[Len(log) + 1] = y /\ \A v \in 1 .. Len(log) : log'[v] = log[v]
    BY <1>1, <1>4, <1>7, LogGrows DEF Sound, Extends
  <2>2. x.muts = y.muts
    OBVIOUS
  <2> HIDE DEF x, y, l
  <2>3. \A v \in 1 .. Len(log) + 1 : l[v].muts = log'[v].muts
    <3>1. ASSUME NEW v \in 1 .. Len(log) + 1 PROVE l[v].muts = log'[v].muts
      <4>1. v = Len(log) + 1 \/ v \in 1 .. Len(log)
        BY <1>5
      <4>2. QED
        BY <1>6, <2>1, <2>2, <4>1
    <3>2. QED
      BY <3>1
  <2>4. \A m \in ValueMACs : m[1] <= Len(log) + 1 => l[m[1]].muts = log'[m[1]].muts
    BY <1>5, <2>3, Bounds DEF ValueMACs
  <2>5. Places(l, Len(log) + 1) = Places(log', Len(log) + 1)
    BY <2>4 DEF Places
  <2>6. QED
    BY <2>4, <2>5 DEF ContentOf, Places
<1>9. y.muts = s.muts /\ y.hash = HashOf(ContentOf(log', Len(log) + 1))
  BY <1>6, <1>8 DEF h
<1> HIDE DEF y
<1>10. QED
  BY <1>1, <1>4, <1>7, <1>9

LEMMA PushStep == ASSUME Sound, NEW s \in Patches, Push(s) PROVE Sound'
<1>1. notify' = TRUE /\ UNCHANGED <<store, keyring, lock, job, rec, emitted, harm, calls>> /\ Watch
  BY DEF Push
<1>2. PICK y \in Patch : log' = Append(log, y) /\ Len(log) < MaxVersion
  BY PushLog
<1>7. Extends(log, log') /\ ServerOK'
  <2>1. Extends(log, log')
    BY <1>2, LogGrows DEF Sound
  <2>2. notify' \in BOOLEAN
    BY <1>1
  <2>3. QED
    BY <2>1, <2>2 DEF ServerOK, Extends
<1>8. JobsOK' /\ LockOK' /\ StoreOK' /\ RecoveryOK'
  BY <1>1, <1>7, SameJobs, SameStore, SameRecovery
<1>9. HistoryOK'
  BY <1>1, WatchType DEF Sound, HistoryOK
<1>10. KeysOK'
  BY <1>1 DEF keyring, Sound, KeysOK
<1>11. QED
  BY <1>7, <1>8, <1>9, <1>10 DEF Sound

LEMMA CrashStep == ASSUME Sound, Crash PROVE Sound'
<1>1. /\ job' = [p \in Procs |-> Idle] /\ lock' = None /\ rec' = [pc |-> "idle", version |-> 0]
      /\ requested' = {} /\ asking' = {} /\ UNCHANGED <<server, store, keys, asked, emitted>>
      /\ Call /\ Watch /\ harm' \subseteq Mishaps
  BY DEF Crash, Mishaps, Sound, HistoryOK
<1>2. UNCHANGED log /\ ServerOK' /\ KeysOK' /\ log \in Seq(Patch)
  BY <1>1 DEF server, Sound, ServerOK, KeysOK
<1>3. JobsOK' /\ LockOK'
  BY <1>1, <1>2, IdleType, IdleFits DEF JobsOK, LockOK
<1>4. StoreOK'
  BY <1>1, <1>2, SameServer, SameStore
<1>5. RecoveryOK'
  BY <1>1, Bounds DEF RecoveryOK, Versions
<1>6. HistoryOK'
  BY <1>1, WatchType DEF Sound, HistoryOK
<1>7. QED
  BY <1>2, <1>3, <1>4, <1>5, <1>6 DEF Sound

-----------------------------------------------------------------------------
(***************************************************************************)
(* The theorems                                                            *)
(***************************************************************************)

LEMMA SoundInit == Init => Sound
<1> SUFFICES ASSUME Init PROVE Sound
  OBVIOUS
<1>1. log = <<>> /\ Len(log) = 0 /\ log \in Seq(Patch) /\ notify = FALSE
  BY DEF Init
<1>2. ServerOK
  <2>1. 0 <= MaxVersion
    BY Bounds
  <2>2. QED
    BY <1>1, <2>1 DEF ServerOK
<1>3. StoreOK /\ KeysOK /\ LockOK
  BY KeysAssumption DEF Init, StoreOK, KeysOK, LockOK
<1>4. RecoveryOK /\ HistoryOK
  <2>1. 0 \in Versions /\ 0 \in 0 .. MaxCalls
    BY Bounds DEF Versions
  <2>2. RecoveryOK
    BY <2>1 DEF Init, RecoveryOK
  <2>3. HistoryOK
    BY <2>1 DEF Init, HistoryOK
  <2>4. QED
    BY <2>2, <2>3
<1>5. JobsOK
  BY <1>1, IdleType, IdleFits DEF Init, JobsOK
<1>6. QED
  BY <1>2, <1>3, <1>4, <1>5 DEF Sound

LEMMA SoundStutters == Sound /\ UNCHANGED vars => Sound'
<1> SUFFICES ASSUME Sound, UNCHANGED vars PROVE Sound'
  OBVIOUS
<1> USE DEF vars
<1>1. ServerOK' /\ StoreOK' /\ RecoveryOK' /\ KeysOK'
  BY DEF Sound, ServerOK, StoreOK, RecoveryOK, KeysOK
<1>2. HistoryOK' /\ LockOK' /\ JobsOK'
  BY DEF Sound, HistoryOK, LockOK, JobsOK
<1>3. QED
  BY <1>1, <1>2 DEF Sound

LEMMA SoundStep == Sound /\ [Next]_vars => Sound'
<1> SUFFICES ASSUME Sound, Next PROVE Sound'
  BY SoundStutters
<1>1. ASSUME NEW p \in Procs, Step(p) \/ Notified(p) \/ FullSync(p) \/ Fails(p) PROVE Sound'
  BY <1>1, BeginStep, ReadStep, FetchIQStep, DecodeSnapshotStep, DecodePatchStep, PutVersionStep,
     DeleteMACsStep, PutMACsStep, SendReadStep, EncodePatchStep, SendAcceptedStep,
     SendConflictStep, SendRefusedStep, NotifiedStep, FullSyncStep, FailsStep DEF Step
<1>2. ASSUME NEW p \in Procs, NEW k \in Keys, KeyShare(p, k) PROVE Sound'
  BY <1>2, KeyShareStep
<1>3. ASSUME NEW p \in Procs, NEW i \in Own, SendAppState(p, i) PROVE Sound'
  BY <1>3, SendAppStateStep
<1>4. ASSUME NEW s \in Patches, Push(s) PROVE Sound'
  BY <1>4, PushStep
<1>5. QED
  BY <1>1, <1>2, <1>3, <1>4, RequestKeysStep, RecoveryStep, CrashStep DEF Next

\* Every variable keeps its type, and a goroutine that reads or fetches for
\* fetchAppState holds appStateSyncLock, for any number of goroutines, keys and patches,
\* through every error path, recovery and crash.
THEOREM TypeCorrect == Spec => []TypeOK
<1>1. Sound => TypeOK
  BY DEF Sound, ServerOK, StoreOK, RecoveryOK, KeysOK, HistoryOK, LockOK, JobsOK, Fits, TypeOK
<1>2. QED
  BY SoundInit, SoundStep, <1>1, PTL DEF Spec

\* The version and hash in whatsmeow_app_state_version are a pair the server's log
\* vouches for, whoever else stores, fails or crashes meanwhile: what storeMACs puts was
\* validated by decodeSnapshot or validatePatch, and the log only grows.
THEOREM StoredPairVouched == Spec => []StoredPairIsServers
<1>1. Sound => StoredPairIsServers
  BY DEF Sound, StoreOK, Vouched, StoredPairIsServers, Content
<1>2. QED
  BY SoundInit, SoundStep, <1>1, PTL DEF Spec

-----------------------------------------------------------------------------
(***************************************************************************)
(* What the steps do                                                       *)
(***************************************************************************)

Applying == {"validate", "put", "del", "macs"}

\* The locals of a goroutine: a snapshot is applied to the empty state only, a patch is
\* the one after the state it is applied to, and there are mutations to dispatch only
\* while lists are applied.
Shaped(j, l) ==
  /\ j.pc \in Applying /\ j.snap # 0 => j.st = EmptyState
  /\ j.pc \in {"put", "del", "macs"} =>
       IF j.snap # 0 THEN j.new = [version |-> j.snap, hash |-> HashOf(ContentOf(l, j.snap))]
       ELSE j.new.version = j.st.version + 1
  /\ j.pc = "del" => j.snap = 0
  /\ j.pc \notin Applying => j.snap = 0 /\ j.out = {}
  /\ j.pc \notin Applying \cup {"iq"} => j.ev = {}
  /\ j.pc \in {"encode", "send"} => j.st.version <= Len(l)
Shapes == \A p \in Procs : Shaped(job[p], log)

\* The mutations of what a goroutine is storing, and of what it stored before.
SetsIn(l, v) == {<<v, i>> : i \in {j \in DOMAIN l[v].muts : l[v].muts[j].op = "set"}}
Pending(j, l) == IF j.snap # 0 THEN ContentOf(l, j.snap) ELSE SetsIn(l, j.new.version)
Carried(j) == j.out \cup j.ev

Open(p) == job[p].pc \in {"del", "macs"}

\* A step of goroutine p that leaves the log, the store and the recovery alone.
Local(p, k) ==
  /\ k \in Job /\ Set(p, k) /\ Shaped(k, log) /\ UNCHANGED <<log, row, macs, rec>>
  /\ Open(p) => "torn" \in harm'
  /\ k.pc \notin {"del", "macs"}
  /\ k.pc = "encode" => k.st = GetAppStateVersion
  /\ k.pc = "send" => EncodePatch(p)
  /\ emitted \subseteq emitted'
  /\ Carried(job[p]) \subseteq emitted' \cup Carried(k) \/ "lost" \in harm'

\* A statement of storeMACs: there is another one, or the patch or snapshot is stored.
Statement(p, k) ==
  /\ k \in Job /\ Set(p, k) /\ Shaped(k, log) /\ UNCHANGED <<log, rec, harm>> /\ emitted \subseteq emitted'
  /\ \/ /\ k.pc \in {"del", "macs"} /\ k.st = job[p].st /\ k.new = job[p].new /\ k.snap = job[p].snap
        /\ Carried(k) = Carried(job[p])
     \/ /\ k.pc \notin {"del", "macs", "encode", "send"}
        /\ Carried(job[p]) \cup Pending(job[p], log) \subseteq emitted' \cup Carried(k)

LEMMA IdleShaped == ASSUME NEW l PROVE Shaped(Idle, l) /\ Carried(Idle) = {}
BY DEF Shaped, Idle, Carried, Applying

LEMMA GoOnShape ==
  ASSUME Sound, NEW p \in Procs, NEW j \in Job, GoOn(p, j), j.snap # 0 => j.st = EmptyState
  PROVE  \E k \in Job : /\ Set(p, k) /\ Shaped(k, log) /\ k.pc \in {"validate", "iq", "idle", "version"}
                        /\ emitted \subseteq emitted' /\ Carried(j) \subseteq emitted' \cup Carried(k)
<1>1. j.out \subseteq ValueMACs /\ j.ev \subseteq ValueMACs /\ j.idx \in Indexes \cup {None}
  BY DEF Job
<1>2. CASE j.snap # 0 \/ j.st.version < j.last
  <2> DEFINE k == [j EXCEPT !.pc = "validate"]
  <2>1. Set(p, k) /\ UNCHANGED emitted
    BY <1>2 DEF GoOn
  <2>2. k \in Job
    BY DEF Job, Steps
  <2>3. k.pc = "validate" /\ k.snap = j.snap /\ k.st = j.st /\ k.out = j.out /\ k.ev = j.ev
    BY DEF Job
  <2> HIDE DEF k
  <2>4. Shaped(k, log) /\ Carried(k) = Carried(j)
    BY <2>3 DEF Shaped, Carried, Applying
  <2>5. QED
    BY <2>1, <2>2, <2>3, <2>4
<1>3. CASE ~(j.snap # 0 \/ j.st.version < j.last) /\ lock = p /\ j.more
  <2> DEFINE k == [j EXCEPT !.pc = "iq", !.out = {}, !.ev = Collected(j)]
  <2>1. Set(p, k) /\ UNCHANGED emitted
    BY <1>3 DEF GoOn
  <2>2. Collected(j) \in SUBSET ValueMACs /\ Collected(j) = Carried(j)
    BY <1>1 DEF Collected, Carried
  <2>3. k \in Job
    BY <2>2 DEF Job, Steps
  <2>4. k.pc = "iq" /\ k.snap = j.snap /\ k.out = {} /\ k.ev = Collected(j)
    BY DEF Job
  <2> HIDE DEF k
  <2>5. Shaped(k, log) /\ Carried(k) = Carried(j)
    BY <1>3, <2>2, <2>4 DEF Shaped, Carried, Applying
  <2>6. QED
    BY <2>1, <2>3, <2>4, <2>5
<1>4. CASE ~(j.snap # 0 \/ j.st.version < j.last) /\ ~(lock = p /\ j.more)
  <2> DEFINE k == [Idle EXCEPT !.pc = "version", !.idx = j.idx]
  <2>1. /\ Set(p, IF lock = p THEN Idle ELSE k) /\ emitted' = emitted \cup Carried(j)
    BY <1>4 DEF GoOn, Collected, Carried
  <2>2. k \in Job
    BY <1>1, IdleType DEF Job, Steps
  <2>3. k.pc = "version" /\ k.snap = 0 /\ k.out = {} /\ k.ev = {}
    BY DEF Idle
  <2> HIDE DEF k
  <2>4. Shaped(k, log)
    BY <2>3 DEF Shaped, Applying
  <2>5. QED
    BY <2>1, <2>2, <2>3, <2>4, IdleShaped, IdleType
<1>5. QED
  BY <1>2, <1>3, <1>4

LEMMA AbortShape ==
  ASSUME Sound, NEW p \in Procs, NEW why, Abort(p, why), UNCHANGED <<log, row, macs, rec, emitted>>,
         Open(p) => "torn" \in why
  PROVE  Local(p, Idle)
<1>1. Set(p, Idle) /\ (Open(p) => "torn" \in harm') /\ (Carried(job[p]) = {} \/ "lost" \in harm')
  BY DEF Abort, Carried
<1>2. QED
  BY <1>1, IdleType, IdleShaped DEF Local

\* A goroutine with nothing to dispatch moves on, and nothing else changes.
LEMMA EasyLocal ==
  ASSUME Sound, Shapes, NEW p \in Procs, NEW k \in Job, Set(p, k), UNCHANGED <<log, row, macs, rec, emitted>>,
         job[p].pc \in {"idle", "lock", "read", "version", "encode", "send"},
         k.pc \in {"idle", "lock", "read", "iq", "version"}, k.snap = 0, k.out = {},
         k.pc # "iq" => k.ev = {}
  PROVE  Local(p, k)
<1>1. Carried(job[p]) = {} /\ ~Open(p)
  BY DEF Shapes, Shaped, Applying, Carried, Open
<1>2. Shaped(k, log)
  BY DEF Shaped, Applying
<1>3. QED
  BY <1>1, <1>2 DEF Local

LEMMA StartsLocal ==
  ASSUME Sound, Shapes, NEW p \in Procs,
         Notified(p) \/ FullSync(p) \/ (\E k \in Keys : KeyShare(p, k)) \/ (\E i \in Own : SendAppState(p, i))
  PROVE  \E k \in Job : Local(p, k)
<1>1. CASE Notified(p)
  <2> DEFINE k == [Idle EXCEPT !.pc = "lock"]
  <2>1. job[p].pc = "idle" /\ Set(p, k) /\ UNCHANGED <<log, row, macs, rec, emitted>>
    BY <1>1 DEF Notified, store, server
  <2>2. k \in Job
    BY IdleType DEF Job, Steps
  <2>3. k.pc = "lock" /\ k.snap = 0 /\ k.out = {} /\ k.ev = {}
    BY DEF Idle
  <2> HIDE DEF k
  <2>4. QED
    BY <2>1, <2>2, <2>3, EasyLocal
<1>2. CASE FullSync(p)
  <2> DEFINE k == [Idle EXCEPT !.pc = "lock", !.full = TRUE]
  <2>1. job[p].pc = "idle" /\ Set(p, k) /\ UNCHANGED <<log, row, macs, rec, emitted>>
    BY <1>2 DEF FullSync, store, server
  <2>2. k \in Job
    BY IdleType DEF Job, Steps
  <2>3. k.pc = "lock" /\ k.snap = 0 /\ k.out = {} /\ k.ev = {}
    BY DEF Idle
  <2> HIDE DEF k
  <2>4. QED
    BY <2>1, <2>2, <2>3, EasyLocal
<1>3. ASSUME NEW x \in Keys, KeyShare(p, x) PROVE \E k \in Job : Local(p, k)
  <2> DEFINE k == [Idle EXCEPT !.pc = "lock", !.only = OnlyIfNotSynced(x)]
  <2>1. job[p].pc = "idle" /\ Set(p, k) /\ UNCHANGED <<log, row, macs, rec, emitted>>
    BY <1>3 DEF KeyShare, store, server
  <2>2. k \in Job
    BY IdleType DEF Job, Steps, OnlyIfNotSynced
  <2>3. k.pc = "lock" /\ k.snap = 0 /\ k.out = {} /\ k.ev = {}
    BY DEF Idle
  <2> HIDE DEF k
  <2>4. QED
    BY <2>1, <2>2, <2>3, EasyLocal
<1>4. ASSUME NEW i \in Own, SendAppState(p, i) PROVE \E k \in Job : Local(p, k)
  <2> DEFINE k == [Idle EXCEPT !.pc = "version", !.idx = i, !.retry = TRUE]
  <2>1. job[p].pc = "idle" /\ Set(p, k) /\ UNCHANGED <<log, row, macs, rec, emitted>>
    BY <1>4 DEF SendAppState, store, server
  <2>2. k \in Job
    BY IdleType, PatchesAssumption DEF Job, Steps
  <2>3. k.pc = "version" /\ k.snap = 0 /\ k.out = {} /\ k.ev = {}
    BY DEF Idle
  <2> HIDE DEF k
  <2>4. QED
    BY <2>1, <2>2, <2>3, EasyLocal
<1>5. QED
  BY <1>1, <1>2, <1>3, <1>4

LEMMA BeginKind ==
  ASSUME Sound, Shapes, NEW p \in Procs, Begin(p)
  PROVE  \E k \in Job : \/ Local(p, k)
                        \/ /\ Set(p, k) /\ Shaped(k, log) /\ k.pc = "read" /\ job[p].pc = "lock"
                           /\ Carried(job[p]) = {} /\ row' = None /\ macs' = {} /\ UNCHANGED <<log, rec, emitted>>
<1> DEFINE k == [job[p] EXCEPT !.pc = "read"]
<1>1. /\ job[p].pc = "lock" /\ Set(p, k) /\ UNCHANGED <<log, rec, emitted>>
      /\ (UNCHANGED <<row, macs>> \/ (row' = None /\ macs' = {}))
  BY DEF Begin, server, store, DeleteAppStateVersion
<1>2. job[p] \in Job
  BY DEF Sound, JobsOK
<1>3. k \in Job /\ k.pc = "read" /\ k.snap = job[p].snap /\ k.out = job[p].out /\ k.ev = job[p].ev
  BY <1>2 DEF Job, Steps
<1>4. job[p].snap = 0 /\ job[p].out = {} /\ job[p].ev = {}
  BY <1>1 DEF Shapes, Shaped, Applying
<1> HIDE DEF k
<1>5. CASE UNCHANGED <<row, macs>>
  BY <1>1, <1>3, <1>4, <1>5, EasyLocal
<1>6. CASE row' = None /\ macs' = {}
  <2>1. Shaped(k, log)
    BY <1>3, <1>4 DEF Shaped, Applying
  <2>2. QED
    BY <1>1, <1>3, <1>4, <1>6, <2>1 DEF Carried
<1>7. QED
  BY <1>1, <1>5, <1>6

LEMMA ReadLocal == ASSUME Sound, Shapes, NEW p \in Procs, Read(p) PROVE \E k \in Job : Local(p, k)
<1> DEFINE st == GetAppStateVersion
           full == job[p].full \/ st.version = 0
           k == [job[p] EXCEPT !.pc = "iq", !.st = st, !.full = full, !.want = full]
<1>1. job[p].pc = "read" /\ (Set(p, Idle) \/ Set(p, k)) /\ UNCHANGED <<log, row, macs, rec, emitted>>
  BY DEF Read, store, server
<1>2. job[p] \in Job /\ st \in HashState
  BY StateType DEF Sound, JobsOK
<1>3. full \in BOOLEAN
  BY <1>2 DEF Job
<1> HIDE DEF st, full
<1>4. k \in Job /\ k.pc = "iq" /\ k.snap = job[p].snap /\ k.out = job[p].out
  BY <1>2, <1>3 DEF Job, Steps
<1>5. job[p].snap = 0 /\ job[p].out = {}
  BY <1>1 DEF Shapes, Shaped, Applying
<1> HIDE DEF k
<1>6. Idle \in Job /\ Idle.pc = "idle" /\ Idle.snap = 0 /\ Idle.out = {} /\ Idle.ev = {}
  BY IdleType DEF Idle
<1>7. QED
  BY <1>1, <1>4, <1>5, <1>6, EasyLocal

LEMMA SendersLocal ==
  ASSUME Sound, Shapes, NEW p \in Procs, SendRead(p) \/ SendConflict(p) \/ SendRefused(p) \/ EncodePatch(p)
  PROVE  \E k \in Job : Local(p, k)
<1>0. job[p] \in Job /\ GetAppStateVersion \in HashState
  BY StateType DEF Sound, JobsOK
<1>1. Idle \in Job /\ Idle.pc = "idle" /\ Idle.snap = 0 /\ Idle.out = {} /\ Idle.ev = {}
  BY IdleType DEF Idle
<1>2. UNCHANGED <<log, row, macs, rec, emitted>> /\ job[p].pc \in {"version", "encode", "send"}
  <2>1. CASE SendRead(p)
    BY <2>1 DEF SendRead, store, server
  <2>2. CASE SendConflict(p)
    BY <2>2 DEF SendConflict, store, server
  <2>3. CASE SendRefused(p)
    BY <2>3 DEF SendRefused, store, server
  <2>4. CASE EncodePatch(p)
    BY <2>4 DEF EncodePatch, store, server
  <2>5. QED
    BY <2>1, <2>2, <2>3, <2>4
<1>3. /\ job[p].snap = 0 /\ job[p].out = {} /\ job[p].ev = {} /\ Carried(job[p]) = {} /\ ~Open(p)
      /\ job[p].pc \in {"encode", "send"} => job[p].st.version <= Len(log)
  BY <1>2 DEF Shapes, Shaped, Applying, Carried, Open
<1>4. CASE Set(p, Idle)
  BY <1>1, <1>2, <1>4, EasyLocal
<1>5. CASE SendRead(p) /\ ~Set(p, Idle)
  <2> DEFINE k == [job[p] EXCEPT !.pc = "encode", !.st = GetAppStateVersion, !.key = Max(keys)]
  <2>1. Set(p, k) /\ keys # {}
    BY <1>5 DEF SendRead
  <2>2. Max(keys) \in Keys
    <3>1. keys \subseteq Keys /\ IsFiniteSet(keys) /\ Keys \subseteq Int
      <4>1. keys \in SUBSET Keys /\ IsFiniteSet(Keys)
        BY KeysAssumption DEF Sound, KeysOK
      <4>2. IsFiniteSet(keys)
        BY <4>1, FS_Subset
      <4>3. Keys \subseteq Int
        BY KeysAssumption
      <4>4. QED
        BY <4>1, <4>2, <4>3
    <3>2. QED
      BY <2>1, <3>1, MaxIsLargest
  <2>3. /\ k \in Job /\ k.pc = "encode" /\ k.snap = 0 /\ k.out = {} /\ k.ev = {}
        /\ k.st = GetAppStateVersion
    BY <1>0, <1>3, <2>2 DEF Job, Steps
  <2> HIDE DEF k
  <2>4. GetAppStateVersion.version <= Len(log)
    BY EmptyStateType DEF Sound, StoreOK, ServerOK, Vouched, GetAppStateVersion
  <2>5. Shaped(k, log)
    BY <2>3, <2>4 DEF Shaped, Applying
  <2>6. QED
    BY <1>2, <1>3, <2>1, <2>3, <2>5 DEF Local
<1>6. CASE SendConflict(p) /\ ~Set(p, Idle)
  <2> DEFINE k == [job[p] EXCEPT !.pc = "validate", !.new = EmptyState, !.key = 0, !.last = Len(log)]
  <2>1. Set(p, k)
    BY <1>6 DEF SendConflict
  <2>2. Len(log) \in Versions /\ EmptyState \in HashState
    BY Bounds, EmptyStateType DEF Sound, ServerOK, Versions
  <2>3. k \in Job /\ k.pc = "validate" /\ k.snap = 0 /\ k.out = {} /\ k.ev = {}
    BY <1>0, <1>3, <2>2 DEF Job, Steps
  <2> HIDE DEF k
  <2>5. Shaped(k, log)
    BY <2>3 DEF Shaped, Applying
  <2>6. QED
    BY <1>2, <1>3, <2>1, <2>3, <2>5 DEF Local
<1>7. CASE SendRefused(p)
  BY <1>4, <1>7 DEF SendRefused
<1>8. CASE EncodePatch(p)
  <2> DEFINE h == updateHash(job[p].st.hash, job[p].st.version + 1, <<[op |-> "set", index |-> job[p].idx]>>,
                             <<GetAppStateMutationMAC(job[p].idx)>>)
             k == [job[p] EXCEPT !.pc = "send", !.new.hash = h]
  <2>1. Set(p, k) /\ job[p].pc = "encode"
    BY <1>8 DEF EncodePatch
  <2>2. h \in Hash
    <3>1. job[p].idx \in Indexes /\ job[p].st.hash \in Hash
      BY <1>0, <2>1 DEF Sound, JobsOK, Fits, Job, HashState
    <3>2. QED
      BY <3>1, OwnMuts, UpdateHashType
  <2> HIDE DEF h
  <2>3. k \in Job /\ k.pc = "send" /\ k.snap = 0 /\ k.out = {} /\ k.ev = {} /\ k.st = job[p].st
    BY <1>0, <1>3, <2>2 DEF Job, Steps, HashState
  <2> HIDE DEF k
  <2>5. Shaped(k, log)
    BY <1>3, <2>1, <2>3 DEF Shaped, Applying
  <2>6. QED
    BY <1>2, <1>3, <1>8, <2>1, <2>3, <2>5 DEF Local
<1>9. QED
  BY <1>4, <1>5, <1>6, <1>7, <1>8

\* What the server answers to a query of patches.
LEMMA Answer ==
  ASSUME Sound, NEW p \in Procs, FetchIQ(p)
  PROVE  \/ Abort(p, {}) /\ UNCHANGED emitted /\ job[p].want /\ job[p].st # EmptyState
         \/ \E got \in Job :
              /\ GoOn(p, got) /\ UNCHANGED harm
              /\ got.st = job[p].st /\ got.ev = job[p].ev /\ got.out = {} /\ got.idx = job[p].idx
              /\ got.only = job[p].only /\ got.want = FALSE
              /\ got.snap # 0 => got.st = EmptyState
              /\ got.snap <= got.last /\ got.last <= Len(log)
              /\ got.st.version <= got.last
              /\ got.more = (got.last < Len(log))
<1> DEFINE j == job[p]
<1>2. Len(log) \in Nat /\ Len(log) <= MaxVersion
  BY DEF Sound, ServerOK
<1>4. j \in Job
  BY DEF Sound, JobsOK
<1>5. PICK snap \in IF j.want /\ log # <<>>
                    THEN (IF j.st = EmptyState THEN 0 ELSE 1) .. Len(log) ELSE {0} :
      \E last \in Versions :
       LET first == IF snap # 0 THEN snap ELSE j.st.version
           got == [j EXCEPT !.want = FALSE, !.snap = snap, !.last = last,
                            !.more = last < Len(log), !.out = {}]
       IN  /\ last \in first .. Len(log)
           /\ snap # 0 \/ last > first \/ first = Len(log)
           /\ IF snap # 0 /\ j.st # EmptyState
              THEN Abort(p, {}) /\ UNCHANGED emitted
              ELSE GoOn(p, got) /\ UNCHANGED harm
  BY DEF FetchIQ
<1>6. snap \in Nat /\ snap <= Len(log) /\ snap \in Versions /\ (snap # 0 => j.want)
  <2>1. snap \in 0 .. Len(log) /\ (snap # 0 => j.want)
    BY <1>2, <1>5
  <2>2. QED
    BY <1>2, <2>1, Bounds DEF Versions
<1>7. PICK last \in Versions :
       LET first == IF snap # 0 THEN snap ELSE j.st.version
           got == [j EXCEPT !.want = FALSE, !.snap = snap, !.last = last,
                            !.more = last < Len(log), !.out = {}]
       IN  /\ last \in first .. Len(log)
           /\ snap # 0 \/ last > first \/ first = Len(log)
           /\ IF snap # 0 /\ j.st # EmptyState
              THEN Abort(p, {}) /\ UNCHANGED emitted
              ELSE GoOn(p, got) /\ UNCHANGED harm
  BY <1>5
<1> DEFINE got == [j EXCEPT !.want = FALSE, !.snap = snap, !.last = last,
                            !.more = last < Len(log), !.out = {}]
<1>8. last <= Len(log) /\ last \in Int /\ (snap # 0 => snap <= last) /\ (snap = 0 => j.st.version <= last)
  <2>1. j.st.version \in Int /\ last \in Int
    BY <1>4, Bounds DEF Job, HashState, Versions
  <2>2. QED
    BY <1>2, <1>6, <1>7, <2>1
<1>9. IF snap # 0 /\ j.st # EmptyState THEN Abort(p, {}) /\ UNCHANGED emitted
                                       ELSE GoOn(p, got) /\ UNCHANGED harm
  BY <1>7
<1>10. /\ got \in Job /\ got.snap = snap /\ got.last = last /\ got.more = (last < Len(log))
       /\ got.st = j.st /\ got.ev = j.ev /\ got.out = {} /\ got.idx = j.idx /\ got.only = j.only
       /\ got.want = FALSE
  <2>1. (last < Len(log)) \in BOOLEAN
    OBVIOUS
  <2>2. QED
    BY <1>4, <1>6, <2>1 DEF Job
<1> HIDE DEF got, j
<1>11. CASE snap # 0 /\ j.st # EmptyState
  BY <1>6, <1>9, <1>11 DEF j
<1>12. CASE ~(snap # 0 /\ j.st # EmptyState)
  <2>1. GoOn(p, got) /\ UNCHANGED harm
    BY <1>9, <1>12
  <2>2. got.snap # 0 => got.st = EmptyState
    BY <1>10, <1>12
  <2>3. got.snap <= got.last /\ got.st.version <= got.last /\ got.last <= Len(log)
    <3>1. CASE snap # 0
      BY <1>6, <1>8, <1>10, <1>12, <3>1, EmptyStateType
    <3>2. CASE snap = 0
      <4>1. j.st.version \in Nat
        BY <1>4, Bounds DEF j, Job, HashState, Versions
      <4>2. QED
        BY <1>6, <1>8, <1>10, <3>2, <4>1
    <3>3. QED
      BY <3>1, <3>2
  <2>4. QED
    BY <1>10, <2>1, <2>2, <2>3 DEF j
<1>13. QED
  BY <1>11, <1>12

LEMMA FetchIQLocal == ASSUME Sound, Shapes, NEW p \in Procs, FetchIQ(p) PROVE \E k \in Job : Local(p, k)
<1>1. job[p].pc = "iq" /\ UNCHANGED <<log, row, macs, rec>>
  BY DEF FetchIQ, server, store
<1>2. ~Open(p) /\ job[p].out = {}
  BY <1>1 DEF Open, Shapes, Shaped, Applying
<1>3. CASE Abort(p, {}) /\ UNCHANGED emitted
  BY <1>1, <1>2, <1>3, AbortShape, IdleType
<1>4. ASSUME NEW got \in Job, GoOn(p, got), got.ev = job[p].ev, got.out = {},
             got.snap # 0 => got.st = EmptyState
      PROVE  \E k \in Job : Local(p, k)
  <2>1. PICK k \in Job : /\ Set(p, k) /\ Shaped(k, log) /\ k.pc \in {"validate", "iq", "idle", "version"}
                         /\ emitted \subseteq emitted' /\ Carried(got) \subseteq emitted' \cup Carried(k)
    BY <1>4, GoOnShape
  <2>2. Carried(job[p]) = Carried(got)
    BY <1>2, <1>4 DEF Carried
  <2>3. QED
    BY <1>1, <1>2, <2>1, <2>2 DEF Local
<1>5. QED
  BY <1>3, <1>4, Answer

LEMMA DecodeLocal ==
  ASSUME Sound, Shapes, NEW p \in Procs, DecodeSnapshot(p) \/ DecodePatch(p)
  PROVE  \E k \in Job : Local(p, k)
<1>0. job[p] \in Job /\ Fits(p, job[p], log, lock) /\ log \in Seq(Patch) /\ Len(log) \in Nat /\ Len(log) <= MaxVersion
  BY DEF Sound, JobsOK, ServerOK
<1>1. job[p].pc = "validate" /\ UNCHANGED <<log, row, macs, rec, emitted>>
  <2>1. CASE DecodeSnapshot(p)
    BY <2>1 DEF DecodeSnapshot, server, store
  <2>2. CASE DecodePatch(p)
    BY <2>2 DEF DecodePatch, server, store
  <2>3. QED
    BY <2>1, <2>2
<1>2. ~Open(p) /\ (job[p].snap # 0 => job[p].st = EmptyState)
  BY <1>1 DEF Open, Shapes, Shaped, Applying
<1>3. ASSUME NEW why, Abort(p, why) PROVE \E k \in Job : Local(p, k)
  BY <1>1, <1>2, <1>3, AbortShape, IdleType
<1>4. ASSUME NEW s \in HashState, Set(p, [job[p] EXCEPT !.pc = "put", !.new = s]),
             IF job[p].snap # 0 THEN s = [version |-> job[p].snap, hash |-> HashOf(ContentOf(log, job[p].snap))]
                                ELSE s.version = job[p].st.version + 1
      PROVE  \E k \in Job : Local(p, k)
  <2> DEFINE k == [job[p] EXCEPT !.pc = "put", !.new = s]
  <2>1. /\ k \in Job /\ k.pc = "put" /\ k.new = s /\ k.snap = job[p].snap /\ k.st = job[p].st
        /\ k.out = job[p].out /\ k.ev = job[p].ev
    BY <1>0, <1>4 DEF Job, Steps
  <2>2. Set(p, k)
    BY <1>4
  <2> HIDE DEF k
  <2>3. Shaped(k, log)
    BY <1>2, <1>4, <2>1 DEF Shaped, Applying
  <2>4. Carried(k) = Carried(job[p])
    BY <2>1 DEF Carried
  <2>5. QED
    BY <1>1, <1>2, <2>1, <2>2, <2>3, <2>4 DEF Local
<1>5. CASE DecodeSnapshot(p)
  <2>1. job[p].snap # 0 /\ (Set(p, [job[p] EXCEPT !.pc = "put", !.new = SnapshotOf(job[p].snap)])
                            \/ \E why : Abort(p, why))
    BY <1>5 DEF DecodeSnapshot, KeyNotFound
  <2>2. SnapshotOf(job[p].snap) \in HashState
    <3>1. job[p].snap \in Versions
      BY <1>0 DEF Job
    <3>2. QED
      BY <3>1, HashOfType DEF SnapshotOf, HashState
  <2>3. QED
    BY <1>3, <1>4, <2>1, <2>2 DEF SnapshotOf, Content
<1>6. CASE DecodePatch(p)
  <2>1. job[p].snap = 0 /\ (Set(p, [job[p] EXCEPT !.pc = "put", !.new = PatchState(job[p].st, job[p].st.version + 1)])
                            \/ \E why : Abort(p, why))
    BY <1>6 DEF DecodePatch, KeyNotFound
  <2>2. job[p].st.version + 1 \in 1 .. Len(log) /\ job[p].st.hash \in Hash
    <3>1. job[p].st.version \in Nat /\ job[p].last \in Nat /\ job[p].st.hash \in Hash
      BY <1>0, Bounds DEF Job, HashState, Versions
    <3>2. job[p].st.version < job[p].last /\ job[p].last <= Len(log)
      BY <1>0, <1>1, <2>1 DEF Fits
    <3>3. QED
      BY <1>0, <3>1, <3>2
  <2>3. /\ PatchState(job[p].st, job[p].st.version + 1) \in HashState
        /\ PatchState(job[p].st, job[p].st.version + 1).version = job[p].st.version + 1
    <3>1. log[job[p].st.version + 1].muts \in Muts /\ job[p].st.version + 1 \in Versions
      BY <1>0, <2>2, PatchType, Bounds DEF Versions
    <3>2. QED
      BY <2>2, <3>1, UpdateHashType DEF PatchState, HashState
  <2>4. QED
    BY <1>3, <1>4, <2>1, <2>3
<1>7. QED
  BY <1>5, <1>6

LEMMA FailsLocal == ASSUME Sound, Shapes, NEW p \in Procs, Fails(p) PROVE \E k \in Job : Local(p, k)
<1>1. PICK why : Abort(p, why) /\ (Open(p) => "torn" \in why)
  BY DEF Fails, Open
<1>2. UNCHANGED <<log, row, macs, rec, emitted>>
  BY DEF Fails, server, store
<1>3. QED
  BY <1>1, <1>2, AbortShape, IdleType

\* The patch or snapshot is stored with all its MACs.
LEMMA StoredShape ==
  ASSUME Sound, NEW p \in Procs, job[p].pc \in {"put", "del", "macs"}, Stored(p, job[p]), UNCHANGED <<log, rec, harm>>
  PROVE  \E k \in Job : Statement(p, k) /\ k.pc \notin {"del", "macs"}
<1> DEFINE j == job[p]
           more == IF j.snap # 0 THEN Content(j.snap) ELSE SetsOf(j.new.version)
           g == [j EXCEPT !.st = j.new, !.new = EmptyState, !.snap = 0, !.out = j.out \cup more]
<1>1. j \in Job /\ Fits(p, j, log, lock)
  BY DEF Sound, JobsOK
<1>2. j.new.version \in 1 .. Len(log) /\ j.snap \in Nat /\ j.snap <= Len(log)
  BY <1>1, Bounds DEF Fits, Vouched, Job, Versions
<1>3. more \subseteq ValueMACs
  <2>1. CASE j.snap # 0
    <3>1. j.snap \in 0 .. Len(log) /\ log \in Seq(Patch) /\ Len(log) <= MaxVersion
      BY <1>2 DEF Sound, ServerOK
    <3>2. Content(j.snap) \subseteq ValueMACs
      BY <3>1, ContentType DEF Content
    <3>3. QED
      BY <2>1, <3>2
  <2>2. CASE j.snap = 0
    BY <1>2, <2>2, SetsOfType DEF Sound
  <2>3. QED
    BY <2>1, <2>2
<1>4. GoOn(p, g)
  BY DEF Stored
<1>5. more = Pending(j, log)
  BY DEF Pending, Content, SetsOf, SetsIn
<1> HIDE DEF more
<1>6. g \in Job /\ g.snap = 0 /\ g.out = j.out \cup more /\ g.ev = j.ev
  <2>1. j.out \cup more \in SUBSET ValueMACs /\ j.new \in HashState
    BY <1>1, <1>3 DEF Job
  <2>2. 0 \in Versions /\ EmptyState \in HashState
    BY EmptyStateType, Bounds DEF Versions
  <2>3. QED
    BY <1>1, <2>1, <2>2 DEF Job
<1> HIDE DEF g, j
<1>7. Carried(g) = Carried(j) \cup Pending(j, log)
  BY <1>5, <1>6 DEF Carried
<1>8. PICK k \in Job : /\ Set(p, k) /\ Shaped(k, log) /\ k.pc \in {"validate", "iq", "idle", "version"}
                       /\ emitted \subseteq emitted' /\ Carried(g) \subseteq emitted' \cup Carried(k)
  BY <1>4, <1>6, GoOnShape
<1>9. Statement(p, k)
  BY <1>7, <1>8 DEF Statement, j
<1>10. QED
  BY <1>8, <1>9

\* Another statement follows.
LEMMA NextShape ==
  ASSUME Sound, Shapes, NEW p \in Procs, job[p].pc \in {"put", "del", "macs"}, NEW where \in {"del", "macs"},
         Set(p, [job[p] EXCEPT !.pc = where]), UNCHANGED <<log, rec, harm, emitted>>,
         where = "del" => job[p].snap = 0
  PROVE  \E k \in Job : Statement(p, k) /\ k.pc = where
<1> DEFINE k == [job[p] EXCEPT !.pc = where]
<1>1. job[p] \in Job /\ Shaped(job[p], log)
  BY DEF Sound, JobsOK, Shapes
<1>2. /\ k \in Job /\ k.pc = where /\ k.new = job[p].new /\ k.snap = job[p].snap /\ k.st = job[p].st
      /\ k.out = job[p].out /\ k.ev = job[p].ev
  BY <1>1 DEF Job, Steps
<1>3. Set(p, k)
  OBVIOUS
<1> HIDE DEF k
<1>4. Shaped(k, log)
  BY <1>1, <1>2 DEF Shaped, Applying
<1>5. Carried(k) = Carried(job[p])
  BY <1>2 DEF Carried
<1>6. QED
  BY <1>2, <1>3, <1>4, <1>5 DEF Statement

\* The three statements of storeMACs, when they succeed.
Puts(p, k) ==
  /\ job[p].pc = "put" /\ Statement(p, k) /\ row' = job[p].new /\ UNCHANGED macs
  /\ \/ k.pc \in {"del", "macs"} /\ (k.pc = "macs" => Gone(job[p]) = {})
     \/ k.pc \notin {"del", "macs"} /\ Gone(job[p]) \cup Rows(job[p]) = {}
Deletes(p, k) ==
  /\ job[p].pc = "del" /\ Statement(p, k) /\ macs' = {r \in macs : r.index \notin Gone(job[p])} /\ UNCHANGED row
  /\ k.pc = "macs" \/ (k.pc \notin {"del", "macs"} /\ Rows(job[p]) = {})
Inserts(p, k) ==
  /\ job[p].pc = "macs" /\ Statement(p, k) /\ macs' = macs \cup Rows(job[p]) /\ UNCHANGED row
  /\ Insertable(Rows(job[p])) /\ k.pc \notin {"del", "macs"}

LEMMA PutVersionKind ==
  ASSUME Sound, Shapes, NEW p \in Procs, PutVersion(p)
  PROVE  \E k \in Job : Puts(p, k)
<1>1. /\ job[p].pc = "put" /\ row' = job[p].new /\ UNCHANGED <<macs, log, rec, harm>>
      /\ \/ Stored(p, job[p]) /\ Gone(job[p]) \cup Rows(job[p]) = {}
         \/ Set(p, [job[p] EXCEPT !.pc = AfterPut(job[p])]) /\ UNCHANGED emitted
  BY DEF PutVersion, PutAppStateVersion, server
<1>2. CASE Stored(p, job[p]) /\ Gone(job[p]) \cup Rows(job[p]) = {}
  BY <1>1, <1>2, StoredShape DEF Puts
<1>3. CASE Set(p, [job[p] EXCEPT !.pc = AfterPut(job[p])]) /\ UNCHANGED emitted
  <2>1. /\ AfterPut(job[p]) \in {"del", "macs"} /\ (AfterPut(job[p]) = "macs" => Gone(job[p]) = {})
        /\ (AfterPut(job[p]) = "del" => job[p].snap = 0)
    BY DEF AfterPut, Gone
  <2>2. QED
    BY <1>1, <1>3, <2>1, NextShape DEF Puts
<1>4. QED
  BY <1>1, <1>2, <1>3

LEMMA DeleteMACsKind ==
  ASSUME Sound, Shapes, NEW p \in Procs, DeleteMACs(p)
  PROVE  \E k \in Job : Deletes(p, k)
<1>1. /\ job[p].pc = "del" /\ macs' = {r \in macs : r.index \notin Gone(job[p])}
      /\ UNCHANGED <<row, log, rec, harm>>
      /\ \/ Stored(p, job[p]) /\ Rows(job[p]) = {}
         \/ Set(p, [job[p] EXCEPT !.pc = "macs"]) /\ UNCHANGED emitted
  BY DEF DeleteMACs, DeleteMACsOf, server
<1>2. CASE Stored(p, job[p]) /\ Rows(job[p]) = {}
  BY <1>1, <1>2, StoredShape DEF Deletes
<1>3. CASE Set(p, [job[p] EXCEPT !.pc = "macs"]) /\ UNCHANGED emitted
  BY <1>1, <1>3, NextShape DEF Deletes
<1>4. QED
  BY <1>1, <1>2, <1>3

LEMMA PutMACsKind ==
  ASSUME Sound, Shapes, NEW p \in Procs, PutMACs(p)
  PROVE  \E k \in Job : Inserts(p, k) \/ Local(p, k)
<1>1. /\ job[p].pc = "macs" /\ UNCHANGED <<row, log, rec>>
      /\ \/ Insertable(Rows(job[p])) /\ macs' = macs \cup Rows(job[p]) /\ Stored(p, job[p]) /\ UNCHANGED harm
         \/ Abort(p, {"torn"}) /\ UNCHANGED <<macs, emitted>>
  BY DEF PutMACs, server
<1>2. CASE Insertable(Rows(job[p])) /\ macs' = macs \cup Rows(job[p]) /\ Stored(p, job[p]) /\ UNCHANGED harm
  BY <1>1, <1>2, StoredShape DEF Inserts
<1>3. CASE Abort(p, {"torn"}) /\ UNCHANGED <<macs, emitted>>
  BY <1>1, <1>3, AbortShape, IdleType
<1>4. QED
  BY <1>1, <1>2, <1>3

\* A full sync forgets the collection.
Resets(p, k) ==
  /\ Set(p, k) /\ Shaped(k, log) /\ k.pc = "read" /\ job[p].pc = "lock" /\ Carried(job[p]) = {}
  /\ row' = None /\ macs' = {} /\ UNCHANGED <<log, rec, emitted>>

\* The log gets a patch, of a sender or of another device.
Grows(x) ==
  /\ Len(log) < MaxVersion /\ log' = Append(log, x) /\ UNCHANGED <<row, macs, rec, emitted>>
  /\ \/ /\ UNCHANGED job /\ x.hash = HashOf(ContentOf(log', Len(log) + 1))
     \/ \E p \in Procs, k \in Job :
          /\ job[p].pc = "send" /\ job[p].st.version = Len(log) /\ Set(p, k) /\ k.pc \in {"lock", "idle"}
          /\ Shaped(k, log') /\ Carried(job[p]) = {}
          /\ x.muts = <<[op |-> "set", index |-> job[p].idx]>> /\ x.hash = job[p].new.hash

LEMMA SendAcceptedKind ==
  ASSUME Sound, Shapes, NEW p \in Procs, SendAccepted(p)
  PROVE  \E x \in Patch : Grows(x)
<1> DEFINE j == job[p]
           x == [muts |-> <<[op |-> "set", index |-> j.idx]>>, key |-> j.key,
                 rkey |-> j.key, hash |-> j.new.hash]
           k == [Idle EXCEPT !.pc = "lock"]
<1>1. /\ j.pc = "send" /\ j.st.version = Len(log) /\ Len(log) < MaxVersion /\ log' = Append(log, x)
      /\ Set(p, k) \/ Set(p, Idle)
      /\ UNCHANGED <<row, macs, rec, emitted>>
  BY DEF SendAccepted, Abort, store
<1>2. j \in Job /\ j.idx \in Indexes /\ j.key \in Keys
  BY <1>1 DEF Sound, JobsOK, Fits
<1>3. x \in Patch
  <2>1. x.muts \in Muts
    BY <1>2, OwnMuts
  <2>2. j.new.hash \in Hash
    BY <1>2 DEF Job, HashState
  <2>3. QED
    BY <1>2, <2>1, <2>2 DEF Patch, Muts
<1>4. k \in Job
  BY IdleType DEF Job, Steps
<1>5. k.pc = "lock" /\ k.snap = 0 /\ k.out = {} /\ k.ev = {}
  BY DEF Idle
<1>6. x.muts = <<[op |-> "set", index |-> j.idx]>> /\ x.hash = j.new.hash
  OBVIOUS
<1>7. Carried(j) = {}
  BY <1>1 DEF Shapes, Shaped, Applying, Carried
<1> HIDE DEF k, x, j
<1>8. Shaped(k, log') /\ Shaped(Idle, log')
  BY <1>5, IdleShaped DEF Shaped, Applying
<1>9. CASE Set(p, k)
  BY <1>1, <1>3, <1>4, <1>5, <1>6, <1>7, <1>8, <1>9 DEF Grows, j
<1>10. CASE Set(p, Idle)
  BY <1>1, <1>3, <1>6, <1>7, <1>8, <1>10, IdleType DEF Grows, j
<1>11. QED
  BY <1>1, <1>9, <1>10

LEMMA PushKind == ASSUME Sound, NEW s \in Patches, Push(s) PROVE \E x \in Patch : Grows(x)
<1>1. UNCHANGED <<row, macs, rec, emitted, job>>
  BY DEF Push, store
<1>2. PICK x \in Patch : log' = Append(log, x) /\ x.hash = HashOf(ContentOf(log', Len(log) + 1)) /\ Len(log) < MaxVersion
  BY PushLog
<1>3. QED
  BY <1>1, <1>2 DEF Grows

\* Everything a step may do to the log, the store, the goroutines and the recovery.
Recovers == RecoveryDelete \/ RecoveryPut \/ RecoveryMACs \/ RecoveryFails \/ \E v \in 1 .. MaxVersion : Recovery(v)
Still == UNCHANGED <<log, row, macs, rec, job, emitted>>
Kinds ==
  \/ Still
  \/ \E p \in Procs, k \in Job : Local(p, k) \/ Resets(p, k) \/ Puts(p, k) \/ Deletes(p, k) \/ Inserts(p, k)
  \/ \E x \in Patch : Grows(x)
  \/ Recovers
  \/ Crash

LEMMA StepKinds == ASSUME Sound, Shapes, [Next]_vars PROVE Kinds
<1>1. ASSUME NEW p \in Procs, Step(p) \/ Notified(p) \/ FullSync(p) \/ Fails(p) PROVE Kinds
  <2>1. CASE Begin(p)
    BY <2>1, BeginKind DEF Kinds, Resets
  <2>2. CASE PutVersion(p)
    BY <2>2, PutVersionKind DEF Kinds
  <2>3. CASE DeleteMACs(p)
    BY <2>3, DeleteMACsKind DEF Kinds
  <2>4. CASE PutMACs(p)
    BY <2>4, PutMACsKind DEF Kinds
  <2>5. CASE SendAccepted(p)
    BY <2>5, SendAcceptedKind DEF Kinds
  <2>6. CASE Read(p)
    BY <2>6, ReadLocal DEF Kinds
  <2>7. CASE FetchIQ(p)
    BY <2>7, FetchIQLocal DEF Kinds
  <2>8. CASE DecodeSnapshot(p) \/ DecodePatch(p)
    BY <2>8, DecodeLocal DEF Kinds
  <2>9. CASE SendRead(p) \/ EncodePatch(p) \/ SendConflict(p) \/ SendRefused(p)
    BY <2>9, SendersLocal DEF Kinds
  <2>10. CASE Fails(p)
    BY <2>10, FailsLocal DEF Kinds
  <2>11. CASE Notified(p) \/ FullSync(p)
    BY <2>11, StartsLocal DEF Kinds
  <2>12. QED
    BY <1>1, <2>1, <2>2, <2>3, <2>4, <2>5, <2>6, <2>7, <2>8, <2>9, <2>10, <2>11 DEF Step
<1>2. ASSUME NEW p \in Procs, (\E k \in Keys : KeyShare(p, k)) \/ (\E i \in Own : SendAppState(p, i)) PROVE Kinds
  BY <1>2, StartsLocal DEF Kinds
<1>3. ASSUME NEW s \in Patches, Push(s) PROVE Kinds
  BY <1>3, PushKind DEF Kinds
<1>4. CASE RequestKeys \/ UNCHANGED vars
  <2>1. CASE RequestKeys
    BY <2>1 DEF Kinds, Still, RequestKeys, server, store
  <2>2. CASE UNCHANGED vars
    BY <2>2 DEF Kinds, Still, vars
  <2>3. QED
    BY <1>4, <2>1, <2>2
<1>5. CASE Recovers \/ Crash
  BY <1>5 DEF Kinds
<1>6. QED
  BY <1>1, <1>2, <1>3, <1>4, <1>5 DEF Next, Recovers

\* A step forgets no mishap, and ends by watching for goroutines that cross.
LEMMA NextWatches == ASSUME Next PROVE harm \subseteq harm' /\ Watch
<1>1. ASSUME NEW p \in Procs, Step(p) \/ Notified(p) \/ FullSync(p) \/ Fails(p) PROVE harm \subseteq harm' /\ Watch
  <2>1. CASE Begin(p) \/ Read(p) \/ PutVersion(p) \/ DeleteMACs(p)
    BY <2>1 DEF Begin, Read, PutVersion, DeleteMACs
  <2>2. CASE FetchIQ(p)
    BY <2>2 DEF FetchIQ, Abort
  <2>3. CASE DecodeSnapshot(p)
    BY <2>3 DEF DecodeSnapshot, KeyNotFound, Abort
  <2>4. CASE DecodePatch(p)
    BY <2>4 DEF DecodePatch, KeyNotFound, Abort
  <2>5. CASE PutMACs(p) \/ Fails(p)
    BY <2>5 DEF PutMACs, Fails, Abort
  <2>6. CASE SendRead(p) \/ EncodePatch(p) \/ SendConflict(p) \/ SendRefused(p)
    BY <2>6 DEF SendRead, EncodePatch, SendConflict, SendRefused
  <2>7. CASE SendAccepted(p)
    BY <2>7 DEF SendAccepted, Abort
  <2>8. CASE Notified(p) \/ FullSync(p)
    BY <2>8 DEF Notified, FullSync
  <2>9. QED
    BY <1>1, <2>1, <2>2, <2>3, <2>4, <2>5, <2>6, <2>7, <2>8 DEF Step
<1>2. ASSUME NEW p \in Procs, NEW k \in Keys, KeyShare(p, k) PROVE harm \subseteq harm' /\ Watch
  BY <1>2 DEF KeyShare
<1>3. ASSUME NEW p \in Procs, NEW i \in Own, SendAppState(p, i) PROVE harm \subseteq harm' /\ Watch
  BY <1>3 DEF SendAppState
<1>4. CASE RequestKeys \/ Crash
  BY <1>4 DEF RequestKeys, Crash
<1>5. CASE RecoveryDelete \/ RecoveryPut \/ RecoveryMACs \/ RecoveryFails
  BY <1>5 DEF RecoveryDelete, RecoveryPut, RecoveryMACs, RecoveryFails
<1>6. ASSUME NEW v \in 1 .. MaxVersion, Recovery(v) PROVE harm \subseteq harm' /\ Watch
  BY <1>6 DEF Recovery
<1>7. ASSUME NEW s \in Patches, Push(s) PROVE harm \subseteq harm' /\ Watch
  BY <1>7 DEF Push
<1>8. QED
  BY <1>1, <1>2, <1>3, <1>4, <1>5, <1>6, <1>7 DEF Next

\* Until goroutines crossed, each finds the store as it left it.
Calm ==
  ~raced =>
    /\ rec.pc = "del" => ~(GetAppStateVersion.version >= rec.version)
    /\ rec.pc = "put" => row = None
    /\ rec.pc = "macs" => row = SnapshotOf(rec.version)
    /\ \A p \in Procs :
         /\ job[p].pc = "read" /\ job[p].full => row = None
         /\ job[p].pc \in {"iq", "validate", "put"} => GetAppStateVersion = job[p].st
         /\ job[p].pc \in {"del", "macs"} => row = job[p].new
         /\ job[p].pc \in {"validate", "encode"} => ~MACsOpen
         /\ job[p].pc = "encode" /\ row = None => job[p].st = EmptyState

LEMMA CalmStep == ASSUME Sound, Calm, [Next]_vars PROVE Calm' /\ harm \subseteq harm' /\ (~raced' => ~raced)
<1>1. CASE Next
  <2>1. harm \subseteq harm' /\ Watch
    BY <1>1, NextWatches
  <2>2. ~raced' => /\ ~raced /\ ~RecoveryUndercut'
                   /\ \A p \in Procs : ~Undercut(p)'
    BY <2>1, Zenon DEF Watch
  <2>3. ~raced' => ~raced /\ (rec.pc = "del" => ~(GetAppStateVersion.version >= rec.version))'
                   /\ (rec.pc = "put" => row = None)' /\ (rec.pc = "macs" => row = SnapshotOf(rec.version))'
    BY <2>2, Zenon DEF RecoveryUndercut
  <2>4. ASSUME ~raced', NEW p \in Procs
        PROVE  /\ (job[p].pc = "read" /\ job[p].full => row = None)'
               /\ (job[p].pc \in {"iq", "validate", "put"} => GetAppStateVersion = job[p].st)'
               /\ (job[p].pc \in {"del", "macs"} => row = job[p].new)'
               /\ (job[p].pc \in {"validate", "encode"} => ~MACsOpen)'
               /\ (job[p].pc = "encode" /\ row = None => job[p].st = EmptyState)'
    BY <2>2, <2>4, Zenon DEF Undercut
  <2>5. QED
    BY <2>1, <2>3, <2>4, Zenon DEF Calm
<1>2. CASE UNCHANGED vars
  BY <1>2 DEF vars, Calm, GetAppStateVersion, MACsOpen, SnapshotOf, Content
<1>3. QED
  BY <1>1, <1>2

-----------------------------------------------------------------------------
(***************************************************************************)
(* The goroutines and the log                                              *)
(***************************************************************************)

\* The log is as it was or has a patch more.
LEMMA LogExtends == ASSUME Sound, Kinds PROVE Extends(log, log')
<1>1. CASE UNCHANGED log
  BY <1>1, ExtendsSelf DEF Sound
<1>2. ASSUME NEW x \in Patch, Grows(x) PROVE Extends(log, log')
  BY <1>2, LogGrows DEF Sound, Grows
<1>3. CASE Recovers
  BY <1>1, <1>3 DEF Recovers, RecoveryDelete, RecoveryPut, RecoveryMACs, RecoveryFails, Recovery, server
<1>4. CASE Crash
  BY <1>1, <1>4 DEF Crash, server
<1>5. QED
  BY <1>1, <1>2, <1>3, <1>4 DEF Kinds, Still, Local, Resets, Puts, Deletes, Inserts, Statement

LEMMA ShapedStays ==
  ASSUME NEW l, NEW k, Extends(l, k), NEW j \in Job, NEW p, NEW h, Fits(p, j, l, h), Shaped(j, l)
  PROVE  Shaped(j, k)
<1>1. j.snap \in Nat /\ j.snap <= Len(l) /\ Len(l) \in Nat /\ Len(k) \in Nat /\ Len(l) <= Len(k)
      /\ j.st.version \in Nat
  BY Bounds DEF Fits, Job, Versions, HashState, Extends
<1>2. ContentOf(k, j.snap) = ContentOf(l, j.snap)
  <2>1. j.snap \in 0 .. Len(l)
    BY <1>1
  <2>2. QED
    BY <2>1, ContentStays
<1>3. QED
  BY <1>1, <1>2 DEF Shaped

\* Which goroutines a step moves.
LEMMA WhoMoves ==
  ASSUME Sound, Shapes, Kinds
  PROVE  \/ UNCHANGED job
         \/ \E p \in Procs, k \in Job : Set(p, k) /\ Shaped(k, log')
         \/ job' = [p \in Procs |-> Idle]
<1>1. CASE Recovers
  BY <1>1 DEF Recovers, RecoveryDelete, RecoveryPut, RecoveryMACs, RecoveryFails, Recovery
<1>2. CASE Crash
  BY <1>2 DEF Crash
<1>3. ASSUME NEW p \in Procs, NEW k \in Job,
             Local(p, k) \/ Resets(p, k) \/ Puts(p, k) \/ Deletes(p, k) \/ Inserts(p, k)
      PROVE  Set(p, k) /\ Shaped(k, log')
  <2>1. Set(p, k) /\ Shaped(k, log) /\ UNCHANGED log
    BY <1>3 DEF Local, Resets, Puts, Deletes, Inserts, Statement
  <2>2. QED
    BY <2>1
<1>4. ASSUME NEW x \in Patch, Grows(x)
      PROVE  UNCHANGED job \/ \E p \in Procs, k \in Job : Set(p, k) /\ Shaped(k, log')
  BY <1>4 DEF Grows
<1>5. QED
  BY <1>1, <1>2, <1>3, <1>4 DEF Kinds, Still

LEMMA ShapesStep == ASSUME Sound, Shapes, [Next]_vars PROVE Shapes'
<1>1. Kinds /\ Extends(log, log')
  BY StepKinds, LogExtends
<1>2. ASSUME NEW q \in Procs PROVE Shaped(job[q], log')
  <2>1. job[q] \in Job /\ Fits(q, job[q], log, lock) /\ Shaped(job[q], log)
    BY DEF Sound, JobsOK, Shapes
  <2>2. QED
    BY <1>1, <2>1, ShapedStays
<1>3. CASE UNCHANGED job
  BY <1>2, <1>3 DEF Shapes
<1>4. ASSUME NEW p \in Procs, NEW k \in Job, Set(p, k), Shaped(k, log') PROVE Shapes'
  <2>1. \A q \in Procs : job'[q] = IF q = p THEN k ELSE job[q]
    BY <1>4 DEF Set, Sound, JobsOK
  <2>2. QED
    BY <1>2, <1>4, <2>1 DEF Shapes
<1>5. CASE job' = [p \in Procs |-> Idle]
  BY <1>5, IdleShaped DEF Shapes
<1>6. QED
  BY <1>1, <1>3, <1>4, <1>5, WhoMoves

LEMMA CalmInit == Init => Shapes /\ Calm
<1> SUFFICES ASSUME Init PROVE Shapes /\ Calm
  OBVIOUS
<1>1. \A p \in Procs : job[p] = Idle
  BY DEF Init
<1>2. Shapes
  BY <1>1, IdleShaped DEF Shapes
<1>3. rec.pc = "idle"
  BY DEF Init
<1>4. Calm
  BY <1>1, <1>3, IdleType DEF Calm
<1>5. QED
  BY <1>2, <1>4

-----------------------------------------------------------------------------
(***************************************************************************)
(* One goroutine at a time is between two statements of storeMACs          *)
(***************************************************************************)

\* There are MACs only with a version, and until goroutines crossed only one of them,
\* the recovery included, stored a version whose MACs are still to come.
OneOpen ==
  /\ row = None => macs = {}
  /\ ~raced => /\ \A p, q \in Procs : Open(p) /\ Open(q) => p = q
               /\ \A p \in Procs : Open(p) => rec.pc # "macs"

LEMMA JobAfter ==
  ASSUME Sound, NEW p \in Procs, NEW k, Set(p, k)
  PROVE  job'[p] = k /\ \A q \in Procs : q # p => job'[q] = job[q]
BY DEF Set, Sound, JobsOK

LEMMA States ==
  ASSUME Sound, NEW p \in Procs
  PROVE  job[p].new \in HashState /\ job[p].st \in HashState /\ job[p].new # None /\ job[p].st # None
<1>1. job[p] \in Job
  BY DEF Sound, JobsOK
<1>2. job[p].new \in HashState /\ job[p].st \in HashState
  BY <1>1 DEF Job
<1>3. QED
  BY <1>2, NoneAssumption

\* Nobody who stays between two statements sees the row change.
LEMMA RowChanges ==
  ASSUME Sound, Calm, Calm', ~raced, ~raced', row' # row
  PROVE  /\ \A q \in Procs : Open(q) => job'[q] # job[q]
         /\ rec.pc = "macs" => rec' # rec \/ log' # log
<1>1. ASSUME NEW q \in Procs, Open(q), job'[q] = job[q] PROVE FALSE
  <2>1. row = job[q].new /\ row' = job'[q].new
    BY <1>1 DEF Calm, Open
  <2>2. QED
    BY <1>1, <2>1
<1>2. ASSUME rec.pc = "macs", rec' = rec, log' = log PROVE FALSE
  <2>1. row = SnapshotOf(rec.version) /\ row' = SnapshotOf(rec.version)'
    BY <1>2 DEF Calm
  <2>2. QED
    BY <1>2, <2>1 DEF SnapshotOf, Content
<1>3. QED
  BY <1>1, <1>2

\* What storeMACs puts is newer than what it found.
LEMMA NewerState ==
  ASSUME Sound, Shapes, NEW p \in Procs, job[p].pc \in {"put", "del", "macs"}
  PROVE  /\ job[p].new.version \in 1 .. Len(log) /\ job[p].st.version \in Nat
         /\ job[p].new.version > job[p].st.version
         /\ job[p].snap = 0 => job[p].new.version = job[p].st.version + 1
         /\ job[p].snap # 0 => /\ job[p].st = EmptyState /\ job[p].new.version = job[p].snap
                               /\ job[p].snap \in 1 .. Len(log)
                               /\ job[p].new.hash = HashOf(Content(job[p].snap))
<1>1. job[p] \in Job /\ Fits(p, job[p], log, lock) /\ Shaped(job[p], log)
  BY DEF Sound, JobsOK, Shapes
<1>2. job[p].new.version \in 1 .. Len(log) /\ job[p].st.version \in Nat /\ job[p].snap \in Nat
      /\ job[p].snap <= Len(log) /\ Len(log) \in Nat
  BY <1>1, Bounds DEF Fits, Vouched, Job, HashState, Versions, Sound, ServerOK
<1>3. CASE job[p].snap = 0
  BY <1>1, <1>2, <1>3 DEF Shaped
<1>4. CASE job[p].snap # 0
  <2>1. /\ job[p].st = EmptyState
        /\ job[p].new = [version |-> job[p].snap, hash |-> HashOf(ContentOf(log, job[p].snap))]
    BY <1>1, <1>4 DEF Shaped, Applying
  <2>2. QED
    BY <1>2, <1>4, <2>1, EmptyStateType DEF Content
<1>5. QED
  BY <1>3, <1>4

\* The row that is there: its version is in the log, and with no row it is 0.
LEMMA RowVersion ==
  ASSUME Sound
  PROVE  /\ GetAppStateVersion \in HashState /\ GetAppStateVersion # None
         /\ GetAppStateVersion.version \in 0 .. Len(log)
         /\ row = None => GetAppStateVersion = EmptyState /\ GetAppStateVersion.version = 0
         /\ row # None => GetAppStateVersion = row /\ row.version \in 1 .. Len(log)
<1>1. GetAppStateVersion \in HashState /\ GetAppStateVersion # None
  BY StateType, NoneAssumption
<1>2. Len(log) \in Nat
  BY DEF Sound, ServerOK
<1>3. row # None => row.version \in 1 .. Len(log) /\ GetAppStateVersion = row
  BY DEF Sound, StoreOK, Vouched, GetAppStateVersion
<1>4. row = None => GetAppStateVersion = EmptyState /\ GetAppStateVersion.version = 0
  BY EmptyStateType DEF GetAppStateVersion
<1>5. QED
  BY <1>1, <1>2, <1>3, <1>4

\* Who puts a version puts another one than there was, and nobody is between statements.
LEMMA PutsAlone ==
  ASSUME Sound, Shapes, Calm, Calm', ~raced, ~raced', NEW p \in Procs, NEW k \in Job, Puts(p, k)
  PROVE  /\ \A q \in Procs : ~Open(q)
         /\ rec.pc # "macs" /\ ~MACsOpen
         /\ GetAppStateVersion = job[p].st /\ row' = job[p].new
         /\ job'[p] = k /\ \A q \in Procs : q # p => job'[q] = job[q]
<1>1. job[p].pc = "put" /\ row' = job[p].new /\ Set(p, k) /\ UNCHANGED <<log, rec>>
  BY DEF Puts, Statement
<1>2. GetAppStateVersion = job[p].st
  BY <1>1 DEF Calm
<1>3. row' # row
  <2>1. row # None => row = job[p].st
    BY <1>2, RowVersion
  <2>2. QED
    BY <1>1, <2>1, NewerState, States
<1>4. job'[p] = k /\ \A q \in Procs : q # p => job'[q] = job[q]
  BY <1>1, JobAfter
<1>5. \A q \in Procs : ~Open(q)
  <2>1. ASSUME NEW q \in Procs, Open(q) PROVE FALSE
    <3>1. q # p
      BY <1>1, <2>1 DEF Open
    <3>2. QED
      BY <1>3, <1>4, <2>1, <3>1, RowChanges
  <2>2. QED
    BY <2>1
<1>6. rec.pc # "macs"
  BY <1>1, <1>3, RowChanges
<1>7. QED
  BY <1>1, <1>2, <1>4, <1>5, <1>6 DEF MACsOpen, Open

LEMMA RecoveryPutAlone ==
  ASSUME Sound, Calm, Calm', ~raced, ~raced', RecoveryPut
  PROVE  /\ \A q \in Procs : ~Open(q)
         /\ row = None /\ rec.pc = "put" /\ rec.version \in 1 .. Len(log) /\ UNCHANGED <<log, job, macs, emitted>>
         /\ row' = SnapshotOf(rec.version) /\ row' # None
         /\ rec'.pc = "macs" /\ rec'.version = rec.version
<1>1. /\ rec.pc = "put" /\ row' = SnapshotOf(rec.version) /\ rec' = [rec EXCEPT !.pc = "macs"]
      /\ UNCHANGED <<log, job, macs, emitted>>
  BY DEF RecoveryPut, PutAppStateVersion, server
<1>2. row = None /\ rec \in [pc : {"idle", "del", "put", "macs"}, version : Versions]
      /\ rec.version \in 1 .. Len(log)
  BY <1>1 DEF Calm, Sound, RecoveryOK
<1>3. row' # None
  <2>1. SnapshotOf(rec.version) \in HashState
    BY <1>2, HashOfType DEF SnapshotOf, HashState
  <2>2. QED
    BY <1>1, <2>1, NoneAssumption
<1>4. \A q \in Procs : ~Open(q)
  BY <1>1, <1>2, <1>3, RowChanges
<1>5. QED
  BY <1>1, <1>2, <1>3, <1>4

LEMMA OneOpenStep == ASSUME Sound, Shapes, Calm, Calm', OneOpen, [Next]_vars PROVE OneOpen'
<1>0. Kinds /\ (~raced' => ~raced)
  BY StepKinds, CalmStep
<1>1. ASSUME \A q \in Procs : Open(q)' => Open(q), UNCHANGED <<row, macs>>, rec'.pc = "macs" => rec.pc = "macs"
      PROVE  OneOpen'
  BY <1>0, <1>1 DEF OneOpen
<1>2. ASSUME \A q \in Procs : Open(q)' => Open(q), (row' = None /\ macs' = {}) \/ (row # None /\ UNCHANGED row),
             rec'.pc = "macs" => rec.pc = "macs"
      PROVE  OneOpen'
  BY <1>0, <1>2 DEF OneOpen
<1>3. CASE Still
  BY <1>1, <1>3 DEF Still, Open
<1>4. ASSUME NEW p \in Procs, NEW k \in Job, Set(p, k), Open(p) \/ k.pc \notin {"del", "macs"}, NEW q \in Procs, Open(q)'
      PROVE  Open(q)
  BY <1>4, JobAfter DEF Open
<1>5. ASSUME NEW p \in Procs, NEW k \in Job, Local(p, k) PROVE OneOpen'
  <2>1. Set(p, k) /\ k.pc \notin {"del", "macs"} /\ UNCHANGED <<row, macs, rec>>
    BY <1>5 DEF Local
  <2>2. QED
    BY <1>1, <1>4, <2>1
<1>6. ASSUME NEW p \in Procs, NEW k \in Job, Resets(p, k) PROVE OneOpen'
  <2>1. Set(p, k) /\ k.pc \notin {"del", "macs"} /\ UNCHANGED rec /\ row' = None /\ macs' = {}
    BY <1>6 DEF Resets
  <2>2. \A q \in Procs : Open(q)' => Open(q)
    BY <1>4, <2>1
  <2>3. QED
    BY <1>2, <2>1, <2>2
<1>7. ASSUME NEW p \in Procs, NEW k \in Job, Puts(p, k) PROVE OneOpen'
  <2>1. row' # None /\ UNCHANGED rec
    BY <1>7, States DEF Puts, Statement
  <2>2. CASE ~raced'
    <3>1. /\ \A q \in Procs : ~Open(q) /\ rec.pc # "macs"
          /\ \A q \in Procs : q # p => job'[q] = job[q]
      BY <1>0, <1>7, <2>2, PutsAlone
    <3>2. \A q \in Procs : Open(q)' => q = p
      BY <3>1 DEF Open
    <3>3. rec'.pc # "macs"
      BY <1>7, <2>1, <2>2, <1>0, PutsAlone
    <3>4. QED
      BY <2>1, <3>2, <3>3 DEF OneOpen
  <2>3. CASE raced'
    BY <2>1, <2>3 DEF OneOpen
  <2>4. QED
    BY <2>2, <2>3
<1>8. ASSUME NEW p \in Procs, NEW k \in Job, Deletes(p, k) PROVE OneOpen'
  <2>1. /\ Set(p, k) /\ Open(p) /\ UNCHANGED <<rec, row>> /\ macs' \subseteq macs
    BY <1>8 DEF Deletes, Statement, Open
  <2>2. \A q \in Procs : Open(q)' => Open(q)
    BY <1>4, <2>1
  <2>3. row' = None => macs' = {}
    BY <2>1 DEF OneOpen
  <2>4. QED
    BY <1>0, <2>1, <2>2, <2>3 DEF OneOpen
<1>9. ASSUME NEW p \in Procs, NEW k \in Job, Inserts(p, k) PROVE OneOpen'
  <2>1. /\ Set(p, k) /\ Open(p) /\ UNCHANGED <<rec, row>> /\ row # None
    BY <1>9 DEF Inserts, Statement, Open, Insertable
  <2>2. \A q \in Procs : Open(q)' => Open(q)
    BY <1>4, <2>1
  <2>3. QED
    BY <1>2, <2>1, <2>2
<1>10. ASSUME NEW x \in Patch, Grows(x) PROVE OneOpen'
  <2>1. UNCHANGED <<row, macs, rec>>
    BY <1>10 DEF Grows
  <2>2. CASE UNCHANGED job
    BY <1>1, <2>1, <2>2 DEF Open
  <2>3. ASSUME NEW p \in Procs, NEW k \in Job, Set(p, k), k.pc \in {"lock", "idle"} PROVE OneOpen'
    BY <1>1, <1>4, <2>1, <2>3
  <2>4. QED
    BY <1>10, <2>2, <2>3 DEF Grows
<1>11. CASE RecoveryPut
  <2>1. CASE ~raced'
    <3>1. row' # None /\ \A q \in Procs : ~Open(q) /\ job'[q] = job[q]
      BY <1>0, <1>11, <2>1, RecoveryPutAlone
    <3>2. QED
      BY <3>1 DEF OneOpen, Open
  <2>2. CASE raced'
    <3>1. row' # None
      <4>1. rec.version \in Versions /\ row' = SnapshotOf(rec.version)
        BY <1>11 DEF RecoveryPut, PutAppStateVersion, Sound, RecoveryOK
      <4>2. SnapshotOf(rec.version) \in HashState
        BY <4>1, HashOfType DEF SnapshotOf, HashState
      <4>3. QED
        BY <4>1, <4>2, NoneAssumption
    <3>2. QED
      BY <2>2, <3>1 DEF OneOpen
  <2>3. QED
    BY <2>1, <2>2
<1>12. CASE RecoveryMACs
  <2>1. UNCHANGED <<row, job>> /\ rec'.pc = "idle" /\ (UNCHANGED macs \/ row # None)
    BY <1>12 DEF RecoveryMACs, Insertable
  <2>2. QED
    BY <1>1, <1>2, <2>1 DEF Open
<1>13. CASE RecoveryDelete
  <2>1. row' = None /\ macs' = {} /\ UNCHANGED job /\ rec' = [rec EXCEPT !.pc = "put"] /\ rec'.pc = "put"
    BY <1>13 DEF RecoveryDelete, DeleteAppStateVersion, Sound, RecoveryOK
  <2>2. \A q \in Procs : Open(q)' => Open(q)
    BY <2>1 DEF Open
  <2>3. QED
    BY <1>2, <2>1, <2>2
<1>14. CASE RecoveryFails
  BY <1>1, <1>14 DEF RecoveryFails, store, Open
<1>15. ASSUME NEW v \in 1 .. MaxVersion, Recovery(v) PROVE OneOpen'
  BY <1>1, <1>15 DEF Recovery, store, Open
<1>16. CASE Crash
  <2>1. UNCHANGED <<row, macs>> /\ rec'.pc = "idle" /\ \A q \in Procs : job'[q].pc = "idle"
    BY <1>16, IdleType DEF Crash, store
  <2>2. QED
    BY <1>1, <2>1 DEF Open
<1>17. QED
  BY <1>0, <1>3, <1>5, <1>6, <1>7, <1>8, <1>9, <1>10, <1>11, <1>12, <1>13, <1>14, <1>15, <1>16 DEF Kinds, Recovers

-----------------------------------------------------------------------------
(***************************************************************************)
(* The records at a version                                                *)
(***************************************************************************)

IndexAt(l, m) == l[m[1]].muts[m[2]].index

LEMMA PlaceType ==
  ASSUME NEW l \in Seq(Patch), Len(l) <= MaxVersion, NEW v \in 0 .. Len(l), NEW m \in Places(l, v)
  PROVE  /\ m \in ValueMACs /\ m[1] \in Nat /\ m[2] \in Nat /\ m[1] >= 1 /\ m[1] <= v /\ m = <<m[1], m[2]>>
         /\ m[2] \in DOMAIN l[m[1]].muts
BY Bounds DEF Places, ValueMACs

LEMMA NoContent == ASSUME NEW l PROVE ContentOf(l, 0) = {}
BY Bounds DEF ContentOf, Places, ValueMACs

\* The places of a version are those before it and those of its patch.
LEMMA PlacesNext ==
  ASSUME NEW l \in Seq(Patch), Len(l) <= MaxVersion, NEW v \in Nat, v + 1 \in 1 .. Len(l)
  PROVE  /\ \A m \in Places(l, v + 1) : m \in Places(l, v) \/ (m[1] = v + 1 /\ m[2] \in DOMAIN l[v + 1].muts)
         /\ Places(l, v) \subseteq Places(l, v + 1)
         /\ \A i \in DOMAIN l[v + 1].muts : <<v + 1, i>> \in Places(l, v + 1)
<1>1. DOMAIN l[v + 1].muts \subseteq 1 .. MaxMutations
  BY PatchType, MutsType
<1>2. v + 1 \in 1 .. MaxVersion /\ Len(l) \in Nat
  BY Bounds
<1>3. \A m \in Places(l, v + 1) : m \in Places(l, v) \/ (m[1] = v + 1 /\ m[2] \in DOMAIN l[v + 1].muts)
  BY <1>2, Bounds DEF Places, ValueMACs
<1>4. Places(l, v) \subseteq Places(l, v + 1)
  BY <1>2, Bounds DEF Places, ValueMACs
<1>5. \A i \in DOMAIN l[v + 1].muts : <<v + 1, i>> \in Places(l, v + 1)
  BY <1>1, <1>2 DEF Places, ValueMACs
<1>6. QED
  BY <1>3, <1>4, <1>5

\* An index has one record at most.
LEMMA OneRecord ==
  ASSUME NEW l \in Seq(Patch), Len(l) <= MaxVersion, NEW v \in 0 .. Len(l),
         NEW m \in ContentOf(l, v), NEW n \in ContentOf(l, v), IndexAt(l, m) = IndexAt(l, n)
  PROVE  m = n
<1>1. m \in Places(l, v) /\ n \in Places(l, v) /\ ~After(n, m) /\ ~After(m, n)
  BY DEF ContentOf, IndexAt
<1>2. /\ m[1] \in Nat /\ m[2] \in Nat /\ m = <<m[1], m[2]>>
      /\ n[1] \in Nat /\ n[2] \in Nat /\ n = <<n[1], n[2]>>
  BY <1>1, PlaceType
<1>3. m[1] = n[1] /\ m[2] = n[2]
  BY <1>1, <1>2 DEF After
<1>4. QED
  BY <1>2, <1>3

\* Patch v of a log does not mutate the index of m; m is its last set of an index.
Untouched(l, v, m) == \A i \in DOMAIN l[v].muts : l[v].muts[i].index # IndexAt(l, m)
LastSet(l, v, m) ==
  \E i \in DOMAIN l[v].muts :
    /\ m = <<v, i>> /\ l[v].muts[i].op = "set"
    /\ \A j \in DOMAIN l[v].muts : j > i => l[v].muts[j].index # l[v].muts[i].index

\* The records after a patch: those whose index it does not mutate, and its last sets.
LEMMA NextContent ==
  ASSUME NEW l \in Seq(Patch), Len(l) <= MaxVersion, NEW v \in Nat, v + 1 \in 1 .. Len(l), NEW m
  PROVE  m \in ContentOf(l, v + 1) <=>
           (m \in ContentOf(l, v) /\ Untouched(l, v + 1, m)) \/ LastSet(l, v + 1, m)
<1> DEFINE muts == l[v + 1].muts
<1>0. v \in 0 .. Len(l) /\ v + 1 \in 0 .. Len(l) /\ Len(l) \in Nat
  OBVIOUS
<1>1. DOMAIN muts \subseteq 1 .. MaxMutations
  BY PatchType, MutsType
<1>2. ASSUME m \in ContentOf(l, v + 1), m \in Places(l, v)
      PROVE  m \in ContentOf(l, v) /\ \A i \in DOMAIN muts : muts[i].index # IndexAt(l, m)
  <2>1. m \in ContentOf(l, v)
    BY <1>2, PlacesNext DEF ContentOf
  <2>2. ASSUME NEW i \in DOMAIN muts, muts[i].index = IndexAt(l, m) PROVE FALSE
    <3>1. <<v + 1, i>> \in Places(l, v + 1)
      BY PlacesNext
    <3>2. After(<<v + 1, i>>, m)
      BY <1>0, <1>2, PlaceType DEF After
    <3>3. QED
      BY <1>2, <2>2, <3>1, <3>2 DEF ContentOf, IndexAt
  <2>3. QED
    BY <2>1, <2>2
<1>3. ASSUME m \in ContentOf(l, v + 1), m \notin Places(l, v)
      PROVE  \E i \in DOMAIN muts : /\ m = <<v + 1, i>> /\ muts[i].op = "set"
                                    /\ \A j \in DOMAIN muts : j > i => muts[j].index # muts[i].index
  <2>1. m \in Places(l, v + 1)
    BY <1>3 DEF ContentOf
  <2>2. m[1] = v + 1 /\ m[2] \in DOMAIN muts /\ m = <<m[1], m[2]>>
    BY <1>0, <1>3, <2>1, PlacesNext, PlaceType
  <2>3. muts[m[2]].op = "set"
    BY <1>3, <2>2 DEF ContentOf
  <2>4. ASSUME NEW j \in DOMAIN muts, j > m[2] PROVE muts[j].index # muts[m[2]].index
    <3>1. <<v + 1, j>> \in Places(l, v + 1)
      BY PlacesNext
    <3>2. After(<<v + 1, j>>, m)
      BY <2>2, <2>4 DEF After
    <3>3. QED
      BY <1>3, <2>2, <3>1, <3>2 DEF ContentOf
  <2>5. QED
    BY <2>2, <2>3, <2>4
<1>4. ASSUME m \in ContentOf(l, v), \A i \in DOMAIN muts : muts[i].index # IndexAt(l, m)
      PROVE  m \in ContentOf(l, v + 1)
  <2>1. m \in Places(l, v + 1) /\ l[m[1]].muts[m[2]].op = "set"
    BY <1>4, PlacesNext DEF ContentOf
  <2>2. ASSUME NEW n \in Places(l, v + 1), After(n, m), IndexAt(l, n) = IndexAt(l, m) PROVE FALSE
    <3>1. CASE n \in Places(l, v)
      BY <1>4, <2>2, <3>1 DEF ContentOf, IndexAt
    <3>2. CASE n[1] = v + 1 /\ n[2] \in DOMAIN muts
      BY <1>4, <2>2, <3>2 DEF IndexAt
    <3>3. QED
      BY <3>1, <3>2, PlacesNext
  <2>3. QED
    BY <2>1, <2>2 DEF ContentOf, IndexAt
<1>5. ASSUME NEW i \in DOMAIN muts, m = <<v + 1, i>>, muts[i].op = "set",
             \A j \in DOMAIN muts : j > i => muts[j].index # muts[i].index
      PROVE  m \in ContentOf(l, v + 1)
  <2>1. m \in Places(l, v + 1) /\ m[1] = v + 1 /\ m[2] = i
    BY <1>5, PlacesNext
  <2>2. ASSUME NEW n \in Places(l, v + 1), After(n, m), IndexAt(l, n) = IndexAt(l, m) PROVE FALSE
    <3>1. n[1] = v + 1 /\ n[2] > i
      BY <1>0, <2>1, <2>2, PlaceType DEF After
    <3>2. n[2] \in DOMAIN muts
      BY <1>0, <3>1, PlaceType
    <3>3. QED
      BY <1>5, <2>1, <2>2, <3>1, <3>2 DEF IndexAt
  <2>3. QED
    BY <1>5, <2>1, <2>2 DEF ContentOf, IndexAt
<1>6. m \in ContentOf(l, v + 1) =>
        (m \in ContentOf(l, v) /\ Untouched(l, v + 1, m)) \/ LastSet(l, v + 1, m)
  BY <1>2, <1>3 DEF Untouched, LastSet
<1>7. m \in ContentOf(l, v) /\ Untouched(l, v + 1, m) => m \in ContentOf(l, v + 1)
  BY <1>4 DEF Untouched
<1>8. LastSet(l, v + 1, m) => m \in ContentOf(l, v + 1)
  BY <1>5 DEF LastSet
<1>9. QED
  BY <1>6, <1>7, <1>8

-----------------------------------------------------------------------------
(***************************************************************************)
(* The handlers are told                                                   *)
(***************************************************************************)

\* The handlers were told of m, or somebody will tell them.
Accounted(m) ==
  \/ m \in emitted
  \/ \E p \in Procs : m \in Carried(job[p])
  \/ \E p \in Procs : Open(p) /\ m \in Pending(job[p], log)
  \/ rec.pc = "macs" /\ m \in ContentOf(log, rec.version)
Unhurt == harm \cap {"fault", "torn", "lost"} = {} /\ ~raced
Told == Unhurt => \A m \in ContentOf(log, GetAppStateVersion.version) : Accounted(m)

LEMMA PendingStays ==
  ASSUME Sound, Shapes, NEW l, Extends(log, l), NEW p \in Procs, Open(p)
  PROVE  Pending(job[p], l) = Pending(job[p], log)
<1>1. job[p].new.version \in 1 .. Len(log) /\ (job[p].snap # 0 => job[p].snap \in 0 .. Len(log))
  BY NewerState DEF Open
<1>2. l[job[p].new.version] = log[job[p].new.version]
  BY <1>1 DEF Extends
<1>3. job[p].snap # 0 => ContentOf(l, job[p].snap) = ContentOf(log, job[p].snap)
  BY <1>1, ContentStays
<1>4. QED
  BY <1>2, <1>3 DEF Pending, SetsIn

\* What a patch adds to the records is in its sets.
LEMMA NewRecords ==
  ASSUME NEW l \in Seq(Patch), Len(l) <= MaxVersion, NEW v \in Nat, v + 1 \in 1 .. Len(l)
  PROVE  ContentOf(l, v + 1) \subseteq ContentOf(l, v) \cup SetsIn(l, v + 1)
<1>1. ASSUME NEW m \in ContentOf(l, v + 1), m \notin ContentOf(l, v) PROVE m \in SetsIn(l, v + 1)
  <2>1. PICK i \in DOMAIN l[v + 1].muts : m = <<v + 1, i>> /\ l[v + 1].muts[i].op = "set"
    BY <1>1, NextContent DEF LastSet
  <2>2. QED
    BY <2>1 DEF SetsIn
<1>2. QED
  BY <1>1

\* A step of a goroutine that leaves the row, and passes on what it had to tell.
LEMMA PassesOn ==
  ASSUME Sound, NEW p \in Procs, NEW k, Set(p, k), UNCHANGED <<log, rec>>, emitted \subseteq emitted',
         Carried(job[p]) \subseteq emitted' \cup Carried(k),
         Open(p) => \/ Pending(job[p], log) \subseteq emitted' \cup Carried(k)
                    \/ k.pc \in {"del", "macs"} /\ Pending(k, log) = Pending(job[p], log),
         NEW m, Accounted(m)
  PROVE  Accounted(m)'
<1>1. job'[p] = k /\ \A q \in Procs : q # p => job'[q] = job[q]
  BY JobAfter
<1>2. ASSUME m \in emitted' \cup Carried(k) PROVE Accounted(m)'
  BY <1>1, <1>2 DEF Accounted
<1>3. CASE m \in emitted
  BY <1>3 DEF Accounted
<1>4. ASSUME NEW q \in Procs, m \in Carried(job[q]) PROVE Accounted(m)'
  <2>1. CASE q = p
    BY <1>2, <1>4, <2>1
  <2>2. CASE q # p
    BY <1>1, <1>4, <2>2 DEF Accounted
  <2>3. QED
    BY <2>1, <2>2
<1>5. ASSUME NEW q \in Procs, Open(q), m \in Pending(job[q], log) PROVE Accounted(m)'
  <2>1. CASE q = p
    BY <1>1, <1>2, <1>5, <2>1 DEF Accounted, Open
  <2>2. CASE q # p
    <3>1. job'[q] = job[q]
      BY <1>1, <2>2
    <3>2. QED
      BY <1>5, <3>1 DEF Accounted, Open
  <2>3. QED
    BY <2>1, <2>2
<1>6. CASE rec.pc = "macs" /\ m \in ContentOf(log, rec.version)
  BY <1>6 DEF Accounted
<1>7. QED
  BY <1>3, <1>4, <1>5, <1>6 DEF Accounted

LEMMA StatementPasses ==
  ASSUME Sound, NEW p \in Procs, NEW k \in Job, Statement(p, k)
  PROVE  /\ \A m : Accounted(m) => Accounted(m)'
         /\ \A m \in Pending(job[p], log) : Accounted(m)'
<1>1. /\ Set(p, k) /\ UNCHANGED <<log, rec>> /\ emitted \subseteq emitted'
      /\ \/ k.pc \in {"del", "macs"} /\ k.new = job[p].new /\ k.snap = job[p].snap /\ Carried(k) = Carried(job[p])
         \/ Carried(job[p]) \cup Pending(job[p], log) \subseteq emitted' \cup Carried(k)
  BY DEF Statement
<1>2. job'[p] = k
  BY <1>1, JobAfter
<1>3. CASE k.pc \in {"del", "macs"} /\ k.new = job[p].new /\ k.snap = job[p].snap /\ Carried(k) = Carried(job[p])
  <2>1. Pending(k, log) = Pending(job[p], log)
    BY <1>3 DEF Pending
  <2>2. \A m : Accounted(m) => Accounted(m)'
    BY <1>1, <1>3, <2>1, PassesOn
  <2>3. ASSUME NEW m \in Pending(job[p], log) PROVE Accounted(m)'
    BY <1>1, <1>2, <1>3, <2>1 DEF Accounted, Open
  <2>4. QED
    BY <2>2, <2>3
<1>4. CASE Carried(job[p]) \cup Pending(job[p], log) \subseteq emitted' \cup Carried(k)
  <2>1. \A m : Accounted(m) => Accounted(m)'
    BY <1>1, <1>4, PassesOn
  <2>2. ASSUME NEW m \in Pending(job[p], log) PROVE Accounted(m)'
    BY <1>2, <1>4 DEF Accounted
  <2>3. QED
    BY <2>1, <2>2
<1>5. QED
  BY <1>1, <1>3, <1>4

LEMMA ToldStep == ASSUME Sound, Shapes, Calm, Calm', OneOpen, Told, [Next]_vars PROVE Told'
<1> SUFFICES ASSUME Unhurt', NEW m \in ContentOf(log', GetAppStateVersion'.version) PROVE Accounted(m)'
  BY DEF Told
<1>0. /\ Kinds /\ ~raced /\ ~raced' /\ harm \subseteq harm' /\ Extends(log, log') /\ Unhurt
      /\ harm' \cap {"fault", "torn", "lost"} = {}
  <2>1. Kinds /\ (~raced' => ~raced) /\ harm \subseteq harm'
    BY StepKinds, CalmStep
  <2>2. QED
    BY <2>1, LogExtends DEF Unhurt
<1>1. /\ log \in Seq(Patch) /\ Len(log) <= MaxVersion /\ GetAppStateVersion.version \in 0 .. Len(log)
      /\ \A n \in ContentOf(log, GetAppStateVersion.version) : Accounted(n)
  BY <1>0, RowVersion DEF Sound, ServerOK, Told
<1>2. ASSUME UNCHANGED row PROVE Accounted(m)
  <2>1. ContentOf(log', GetAppStateVersion.version) = ContentOf(log, GetAppStateVersion.version)
    BY <1>0, <1>1, ContentStays
  <2>2. GetAppStateVersion' = GetAppStateVersion
    BY <1>2 DEF GetAppStateVersion
  <2>3. QED
    BY <1>1, <2>1, <2>2
<1>3. ASSUME row' = None PROVE FALSE
  <2>1. GetAppStateVersion'.version = 0
    BY <1>3, EmptyStateType DEF GetAppStateVersion
  <2>2. QED
    BY <2>1, NoContent
<1>4. CASE Still
  BY <1>2, <1>4 DEF Still, Accounted, Open
<1>5. ASSUME NEW p \in Procs, NEW k \in Job, Local(p, k) PROVE Accounted(m)'
  <2>1. /\ Set(p, k) /\ UNCHANGED <<log, row, rec>> /\ emitted \subseteq emitted'
        /\ Carried(job[p]) \subseteq emitted' \cup Carried(k) /\ ~Open(p)
    BY <1>0, <1>5 DEF Local
  <2>2. QED
    BY <1>2, <2>1, PassesOn
<1>6. ASSUME NEW p \in Procs, NEW k \in Job, Resets(p, k) PROVE Accounted(m)'
  BY <1>3, <1>6 DEF Resets
<1>7. ASSUME NEW p \in Procs, NEW k \in Job, Puts(p, k) PROVE Accounted(m)'
  <2>1. /\ Statement(p, k) /\ UNCHANGED log /\ job[p].pc = "put"
        /\ GetAppStateVersion = job[p].st /\ row' = job[p].new
    BY <1>0, <1>7, PutsAlone DEF Puts, Statement
  <2>2. GetAppStateVersion' = job[p].new
    BY <2>1, States DEF GetAppStateVersion
  <2>3. m \in ContentOf(log, job[p].st.version) \/ m \in Pending(job[p], log)
    <3>1. CASE job[p].snap # 0
      BY <2>1, <2>2, <3>1, NewerState DEF Pending
    <3>2. CASE job[p].snap = 0
      <4>1. /\ job[p].st.version \in Nat /\ job[p].st.version + 1 \in 1 .. Len(log)
            /\ job[p].new.version = job[p].st.version + 1
        BY <2>1, <3>2, NewerState
      <4>2. m \in ContentOf(log, job[p].st.version + 1)
        BY <2>1, <2>2, <4>1
      <4>3. QED
        BY <1>1, <3>2, <4>1, <4>2, NewRecords DEF Pending
    <3>3. QED
      BY <3>1, <3>2
  <2>4. QED
    BY <1>1, <2>1, <2>3, StatementPasses
<1>8. ASSUME NEW p \in Procs, NEW k \in Job, Deletes(p, k) \/ Inserts(p, k) PROVE Accounted(m)'
  <2>1. Statement(p, k) /\ UNCHANGED row
    BY <1>8 DEF Deletes, Inserts
  <2>2. QED
    BY <1>2, <2>1, StatementPasses
<1>9. ASSUME NEW x \in Patch, Grows(x) PROVE Accounted(m)'
  <2>1. UNCHANGED <<row, rec, emitted>> /\ Accounted(m)
    BY <1>2, <1>9 DEF Grows
  <2>2. \A q \in Procs : \/ job'[q] = job[q]
                         \/ Carried(job[q]) = {} /\ ~Open(q)
    <3>1. ASSUME NEW p \in Procs, NEW k \in Job, Set(p, k), job[p].pc = "send", Carried(job[p]) = {}, NEW q \in Procs
          PROVE  job'[q] = job[q] \/ (Carried(job[q]) = {} /\ ~Open(q))
      BY <3>1, JobAfter DEF Open
    <3>2. QED
      BY <1>9, <3>1 DEF Grows
  <2>3. CASE m \in emitted
    BY <2>1, <2>3 DEF Accounted
  <2>4. ASSUME NEW q \in Procs, m \in Carried(job[q]) PROVE Accounted(m)'
    <3>1. job'[q] = job[q]
      BY <2>2, <2>4
    <3>2. QED
      BY <2>4, <3>1 DEF Accounted
  <2>5. ASSUME NEW q \in Procs, Open(q), m \in Pending(job[q], log) PROVE Accounted(m)'
    <3>1. job'[q] = job[q]
      BY <2>2, <2>5
    <3>2. m \in Pending(job[q], log')
      BY <1>0, <2>5, PendingStays
    <3>3. QED
      BY <2>5, <3>1, <3>2 DEF Accounted, Open
  <2>6. CASE rec.pc = "macs" /\ m \in ContentOf(log, rec.version)
    <3>1. rec.version \in 0 .. Len(log)
      BY <2>6 DEF Sound, RecoveryOK
    <3>2. ContentOf(log', rec.version) = ContentOf(log, rec.version)
      BY <1>0, <3>1, ContentStays
    <3>3. QED
      BY <2>1, <2>6, <3>2 DEF Accounted
  <2>7. QED
    BY <2>1, <2>3, <2>4, <2>5, <2>6 DEF Accounted
<1>10. CASE RecoveryPut
  <2>1. UNCHANGED log /\ row' = SnapshotOf(rec.version) /\ row' # None /\ rec'.pc = "macs" /\ rec'.version = rec.version
    BY <1>0, <1>10, RecoveryPutAlone
  <2>2. GetAppStateVersion'.version = rec.version
    BY <2>1 DEF GetAppStateVersion, SnapshotOf
  <2>3. QED
    BY <2>1, <2>2 DEF Accounted
<1>11. CASE RecoveryMACs
  <2>1. /\ UNCHANGED <<log, row, job>> /\ emitted' = emitted \cup ContentOf(log, rec.version)
    BY <1>0, <1>11 DEF RecoveryMACs, server, Content
  <2>2. QED
    BY <1>2, <2>1 DEF Accounted, Open
<1>12. CASE RecoveryDelete
  BY <1>3, <1>12 DEF RecoveryDelete, DeleteAppStateVersion
<1>13. CASE RecoveryFails \/ Crash
  BY <1>0, <1>13 DEF RecoveryFails, Crash
<1>14. ASSUME NEW v \in 1 .. MaxVersion, Recovery(v) PROVE Accounted(m)'
  <2>1. UNCHANGED <<log, row, job, emitted>> /\ rec.pc = "idle"
    BY <1>14 DEF Recovery, server, store
  <2>2. QED
    BY <1>2, <2>1 DEF Accounted, Open
<1>15. QED
  BY <1>0, <1>4, <1>5, <1>6, <1>7, <1>8, <1>9, <1>10, <1>11, <1>12, <1>13, <1>14 DEF Kinds, Recovers

LEMMA ToldInit == Init => OneOpen /\ Told
<1> SUFFICES ASSUME Init PROVE OneOpen /\ Told
  OBVIOUS
<1>1. /\ \A p \in Procs : ~Open(p)
      /\ row = None /\ macs = {} /\ rec.pc = "idle"
  BY IdleType DEF Init, Open
<1>2. ContentOf(log, GetAppStateVersion.version) = {}
  BY <1>1, NoContent, EmptyStateType DEF GetAppStateVersion
<1>3. QED
  BY <1>1, <1>2 DEF OneOpen, Told

\* Unless a fetch failed, lost what it had collected or crossed another, whenever
\* nobody works on the store the event handlers were told of every record there is at
\* the stored version, over snapshots, patches, conflicts and recoveries.
THEOREM HandlersTold == Spec => []ToldUpToVersion
<1> DEFINE I == Sound /\ Shapes /\ Calm /\ OneOpen /\ Told
<1>1. Init => I
  BY SoundInit, CalmInit, ToldInit
<1>2. I /\ [Next]_vars => I'
  <2>1. ASSUME I, [Next]_vars PROVE I'
    <3>1. Sound' /\ Shapes' /\ Calm'
      BY <2>1, SoundStep, ShapesStep, CalmStep
    <3>2. OneOpen' /\ Told'
      BY <2>1, <3>1, OneOpenStep, ToldStep
    <3>3. QED
      BY <3>1, <3>2
  <2>2. QED
    BY <2>1
<1>3. I => ToldUpToVersion
  <2>1. ASSUME I, Quiet, Unhurt PROVE Content(GetAppStateVersion.version) \subseteq emitted
    <3>1. ASSUME NEW p \in Procs PROVE Carried(job[p]) = {} /\ ~Open(p)
      BY <2>1, <3>1 DEF Quiet, Shapes, Shaped, Applying, Carried, Open
    <3>2. rec.pc # "macs"
      BY <2>1 DEF Quiet
    <3>3. QED
      BY <2>1, <3>1, <3>2 DEF Told, Accounted, Content
  <2>2. QED
    BY <2>1 DEF ToldUpToVersion, Unhurt
<1>4. QED
  BY <1>1, <1>2, <1>3, PTL DEF Spec

-----------------------------------------------------------------------------
(***************************************************************************)
(* The table of MACs                                                       *)
(***************************************************************************)

\* The latest rows of table t are the records of log l at version v, but for the
\* indexes in gone, of which t has no row.
Latest(t, r) == \A s \in t : s.index = r.index => s.version <= r.version
Agree(t, l, v, gone) ==
  /\ \A r \in t : r.version <= v /\ r.index \notin gone
  /\ \A r \in t : Latest(t, r) => r.value \in ContentOf(l, v) /\ IndexAt(l, r.value) = r.index
  /\ \A m \in ContentOf(l, v) : IndexAt(l, m) \notin gone =>
       \E r \in t : Latest(t, r) /\ r.value = m /\ r.index = IndexAt(l, m)

LEMMA AgreeStays ==
  ASSUME NEW l, NEW k, Extends(l, k), NEW v \in 0 .. Len(l), NEW t, NEW gone, Agree(t, l, v, gone)
  PROVE  Agree(t, k, v, gone)
<1>1. ContentOf(k, v) = ContentOf(l, v)
  BY ContentStays
<1>2. \A m \in ContentOf(l, v) : IndexAt(k, m) = IndexAt(l, m)
  <2>1. ASSUME NEW m \in ContentOf(l, v) PROVE k[m[1]] = l[m[1]]
    <3>1. l \in Seq(Patch) /\ Len(l) <= MaxVersion
      BY Bounds DEF Extends
    <3>2. m[1] \in 1 .. Len(l)
      BY <3>1, ContentType
    <3>3. QED
      BY <3>2 DEF Extends
  <2>2. QED
    BY <2>1 DEF IndexAt
<1>3. QED
  BY <1>1, <1>2 DEF Agree

LEMMA AgreeEmpty == ASSUME NEW l, NEW v, ContentOf(l, v) = {} PROVE Agree({}, l, v, {})
BY DEF Agree

LEMMA AgreeDelete ==
  ASSUME NEW t, NEW l, NEW v, NEW gone, Agree(t, l, v, {})
  PROVE  Agree({r \in t : r.index \notin gone}, l, v, gone)
<1> DEFINE u == {r \in t : r.index \notin gone}
<1>1. \A r \in u : Latest(u, r) => Latest(t, r)
  BY DEF Latest
<1>2. \A r \in t : r.index \notin gone /\ Latest(t, r) => r \in u /\ Latest(u, r)
  BY DEF Latest
<1>3. u \subseteq t /\ \A r \in u : r.index \notin gone
  OBVIOUS
<1> HIDE DEF u
<1>4. Agree(u, l, v, gone)
  BY <1>1, <1>2, <1>3 DEF Agree
<1>5. QED
  BY <1>4 DEF u

\* The rows of a snapshot.
SnapshotRows(l, v) == {[version |-> v, index |-> IndexAt(l, m), value |-> m] : m \in ContentOf(l, v)}

LEMMA AgreeSnapshot ==
  ASSUME NEW l, NEW v \in Nat
  PROVE  Agree(SnapshotRows(l, v), l, v, {})
<1> DEFINE t == SnapshotRows(l, v)
<1>1. \A r \in t : r.version = v /\ r.value \in ContentOf(l, v) /\ r.index = IndexAt(l, r.value)
  BY DEF SnapshotRows
<1>2. \A m \in ContentOf(l, v) : \E r \in t : r.value = m /\ r.index = IndexAt(l, m)
  <2>1. ASSUME NEW m \in ContentOf(l, v) PROVE \E r \in t : r.value = m /\ r.index = IndexAt(l, m)
    <3>1. [version |-> v, index |-> IndexAt(l, m), value |-> m] \in t
      BY DEF SnapshotRows
    <3>2. QED
      BY <3>1
  <2>2. QED
    BY <2>1
<1> HIDE DEF t
<1>3. \A r \in t : Latest(t, r)
  BY <1>1 DEF Latest
<1>4. Agree(t, l, v, {})
  BY <1>1, <1>2, <1>3 DEF Agree
<1>5. QED
  BY <1>4 DEF t

\* The rows of a patch.
PatchRows(v) ==
  {[version |-> v, index |-> log[v].muts[i].index, value |-> <<v, i>>] : i \in AddedMACs(v)}

\* With its rows inserted the table has the records of the next version.  The primary
\* key lets them in only if the patch sets no index twice.
LEMMA AgreePatch ==
  ASSUME ServerOK, NEW v \in Nat, v + 1 \in 1 .. Len(log), NEW t, \A r \in t : r.version \in Nat,
         Agree(t, log, v, RemovedMACs(v + 1)),
         \A r, s \in PatchRows(v + 1) : r.index = s.index => r = s
  PROVE  Agree(t \cup PatchRows(v + 1), log, v + 1, {})
<1> DEFINE muts == log[v + 1].muts
           rows == PatchRows(v + 1)
           u == t \cup rows
<1>0. log \in Seq(Patch) /\ Len(log) <= MaxVersion /\ DOMAIN muts \subseteq Nat
  <2>1. log \in Seq(Patch) /\ Len(log) <= MaxVersion
    BY DEF ServerOK
  <2>2. DOMAIN muts \subseteq 1 .. MaxMutations
    BY <2>1, PatchType, MutsType
  <2>3. QED
    BY <2>1, <2>2
<1>01. \A i \in DOMAIN muts : muts[i].op \in {"set", "remove"}
  <2>1. \A i \in DOMAIN muts : muts[i] \in Mutation
    BY <1>0, PatchType, MutsType
  <2>2. QED
    BY <2>1 DEF Mutation
<1>1. ASSUME NEW i \in AddedMACs(v + 1)
      PROVE  /\ [version |-> v + 1, index |-> muts[i].index, value |-> <<v + 1, i>>] \in rows
             /\ i \in DOMAIN muts /\ muts[i].op = "set"
  BY DEF PatchRows, AddedMACs
<1>2. ASSUME NEW r \in rows
      PROVE  \E i \in AddedMACs(v + 1) : r.version = v + 1 /\ r.index = muts[i].index /\ r.value = <<v + 1, i>>
  BY DEF PatchRows
<1>3. ASSUME NEW i \in DOMAIN muts, muts[i].index \notin RemovedMACs(v + 1) PROVE i \in AddedMACs(v + 1)
  <2>1. \A j \in DOMAIN muts : muts[j].op = "remove" => muts[j].index \in RemovedMACs(v + 1)
    BY DEF RemovedMACs
  <2>2. \A j \in DOMAIN muts : muts[j].index = muts[i].index => muts[j].op # "remove"
    BY <1>3, <2>1
  <2>3. muts[i].op = "set"
    BY <1>01, <2>2
  <2>4. QED
    BY <2>2, <2>3 DEF AddedMACs
<1>4. ASSUME NEW i \in AddedMACs(v + 1), NEW j \in DOMAIN muts, j > i, muts[j].index = muts[i].index PROVE FALSE
  <2>1. muts[j].op = "set" /\ i \in DOMAIN muts
    BY <1>01, <1>4 DEF AddedMACs
  <2>2. j \in AddedMACs(v + 1)
    <3>1. ASSUME NEW n \in DOMAIN muts, n > j, muts[n].op = "remove", muts[n].index = muts[j].index PROVE FALSE
      <4>1. n > i
        BY <1>0, <1>4, <2>1, <3>1
      <4>2. QED
        BY <1>4, <3>1, <4>1 DEF AddedMACs
    <3>2. QED
      BY <2>1, <3>1 DEF AddedMACs
  <2>3. [version |-> v + 1, index |-> muts[i].index, value |-> <<v + 1, i>>]
          = [version |-> v + 1, index |-> muts[j].index, value |-> <<v + 1, j>>]
    <3> DEFINE a == [version |-> v + 1, index |-> muts[i].index, value |-> <<v + 1, i>>]
               b == [version |-> v + 1, index |-> muts[j].index, value |-> <<v + 1, j>>]
    <3>1. a \in rows /\ b \in rows
      BY <1>1, <2>2
    <3>2. a.index = b.index
      BY <1>4
    <3> HIDE DEF a, b
    <3>3. a = b
      BY <3>1, <3>2
    <3>4. QED
      BY <3>3 DEF a, b
  <2>4. <<v + 1, i>> = <<v + 1, j>>
    BY <2>3
  <2>5. QED
    BY <1>0, <1>4, <2>1, <2>4
<1>5. \A i \in AddedMACs(v + 1) : <<v + 1, i>> \in ContentOf(log, v + 1) /\ IndexAt(log, <<v + 1, i>>) = muts[i].index
  <2>1. ASSUME NEW i \in AddedMACs(v + 1) PROVE <<v + 1, i>> \in ContentOf(log, v + 1)
    <3>1. LastSet(log, v + 1, <<v + 1, i>>)
      BY <1>1, <1>4 DEF LastSet
    <3>2. QED
      BY <1>0, <3>1, NextContent
  <2>2. QED
    BY <2>1 DEF IndexAt
<1> HIDE DEF rows
<1>6. \A r \in u : r.version <= v + 1 /\ (r \in t => r.version <= v)
  <2>1. \A r \in t : r.version <= v
    BY DEF Agree
  <2>2. \A r \in rows : r.version = v + 1
    BY <1>2
  <2>3. QED
    BY <2>1, <2>2
<1>7. ASSUME NEW r \in u, Latest(u, r) PROVE r.value \in ContentOf(log, v + 1) /\ IndexAt(log, r.value) = r.index
  <2>1. CASE r \in rows
    BY <1>2, <1>5, <2>1
  <2>2. CASE r \in t
    <3>1. Latest(t, r) /\ \A s \in rows : s.index # r.index
      <4>1. \A s \in rows : s.version = v + 1
        BY <1>2
      <4>2. QED
        BY <1>6, <1>7, <2>2, <4>1 DEF Latest
    <3>2. /\ r.value \in ContentOf(log, v) /\ IndexAt(log, r.value) = r.index /\ r.index \notin RemovedMACs(v + 1)
      BY <2>2, <3>1 DEF Agree
    <3>3. ASSUME NEW i \in DOMAIN muts, muts[i].index = r.index PROVE FALSE
      <4> DEFINE a == [version |-> v + 1, index |-> muts[i].index, value |-> <<v + 1, i>>]
      <4>1. a \in rows /\ a.index = r.index
        BY <1>1, <1>3, <3>2, <3>3
      <4> HIDE DEF a
      <4>2. QED
        BY <3>1, <4>1
    <3>4. Untouched(log, v + 1, r.value)
      BY <3>2, <3>3 DEF Untouched
    <3>5. QED
      BY <1>0, <3>2, <3>4, NextContent
  <2>3. QED
    BY <2>1, <2>2
<1>8. ASSUME NEW m \in ContentOf(log, v + 1)
      PROVE  \E r \in u : Latest(u, r) /\ r.value = m /\ r.index = IndexAt(log, m)
  <2>1. CASE m \in ContentOf(log, v) /\ \A i \in DOMAIN muts : muts[i].index # IndexAt(log, m)
    <3>1. IndexAt(log, m) \notin RemovedMACs(v + 1)
      BY <2>1 DEF RemovedMACs
    <3>2. PICK r \in t : Latest(t, r) /\ r.value = m /\ r.index = IndexAt(log, m)
      BY <2>1, <3>1 DEF Agree
    <3>3. ASSUME NEW s \in rows PROVE s.index # r.index
      <4>1. PICK i \in AddedMACs(v + 1) : s.index = muts[i].index
        BY <1>2
      <4>2. i \in DOMAIN muts
        BY <1>1
      <4>3. QED
        BY <2>1, <3>2, <4>1, <4>2
    <3>4. Latest(u, r)
      BY <3>2, <3>3 DEF Latest
    <3>5. QED
      BY <3>2, <3>4
  <2>2. ASSUME NEW i \in DOMAIN muts, m = <<v + 1, i>>, muts[i].op = "set",
               \A j \in DOMAIN muts : j > i => muts[j].index # muts[i].index
        PROVE  \E r \in u : Latest(u, r) /\ r.value = m /\ r.index = IndexAt(log, m)
    <3> DEFINE r == [version |-> v + 1, index |-> muts[i].index, value |-> <<v + 1, i>>]
    <3>1. i \in AddedMACs(v + 1)
      BY <2>2 DEF AddedMACs
    <3>2. r \in rows /\ r.version = v + 1 /\ r.value = m /\ r.index = IndexAt(log, m)
      BY <1>1, <1>5, <2>2, <3>1
    <3> HIDE DEF r
    <3>3. Latest(u, r)
      BY <1>6, <3>2 DEF Latest
    <3>4. QED
      BY <3>2, <3>3
  <2>3. \/ m \in ContentOf(log, v) /\ \A i \in DOMAIN muts : muts[i].index # IndexAt(log, m)
        \/ \E i \in DOMAIN muts : /\ m = <<v + 1, i>> /\ muts[i].op = "set"
                                  /\ \A j \in DOMAIN muts : j > i => muts[j].index # muts[i].index
    BY <1>0, <1>8, NextContent DEF Untouched, LastSet
  <2>4. QED
    BY <2>1, <2>2, <2>3
<1> HIDE DEF u
<1>9. Agree(u, log, v + 1, {})
  BY <1>6, <1>7, <1>8 DEF Agree
<1>10. QED
  BY <1>9 DEF u, rows

\* What the table says of an index it agrees on.
LEMMA Lookup ==
  ASSUME Sound, NEW v \in 0 .. Len(log), Agree(macs, log, v, {}), NEW i \in Indexes
  PROVE  LET m == GetAppStateMutationMAC(i)
         IN  \/ m = None /\ \A n \in Content(v) : IndexAt(log, n) # i
             \/ m # None /\ m \in Content(v) /\ IndexAt(log, m) = i
<1> DEFINE rows == {r \in macs : r.index = i}
           c == CHOOSE r \in rows : \A s \in rows : r.version >= s.version
<1>1. CASE rows = {}
  <2>1. GetAppStateMutationMAC(i) = None
    BY <1>1 DEF GetAppStateMutationMAC
  <2>2. \A n \in Content(v) : IndexAt(log, n) # i
    BY <1>1 DEF Agree, Content
  <2>3. QED
    BY <2>1, <2>2
<1>2. CASE rows # {}
  <2>1. \A r \in rows : r \in macs /\ r.version \in Versions /\ r.index = i
    BY DEF Sound, StoreOK, MACRow
  <2>2. \E r \in rows : \A s \in rows : r.version >= s.version
    <3> DEFINE S == {r.version : r \in rows}
    <3>1. S \in SUBSET Versions /\ S # {}
      BY <1>2, <2>1
    <3>2. IsFiniteSet(Versions) /\ Versions \subseteq Int
      BY Bounds, FS_Interval DEF Versions
    <3>3. IsFiniteSet(S) /\ S \in SUBSET Int
      BY <3>1, <3>2, FS_Subset
    <3>4. \E x \in S : \A y \in S : x >= y
      <4> HIDE DEF S
      <4>1. QED
        BY <3>1, <3>3, MaxIsLargest
    <3>5. QED
      BY <3>4
  <2>3. c \in rows /\ \A s \in rows : c.version >= s.version
    <3> HIDE DEF rows
    <3>1. QED
      BY <2>2
  <2>4. GetAppStateMutationMAC(i) = c.value
    BY <1>2 DEF GetAppStateMutationMAC
  <2> HIDE DEF c
  <2>5. Latest(macs, c)
    <3>1. ASSUME NEW s \in macs, s.index = c.index PROVE s.version <= c.version
      <4>1. s \in rows
        BY <2>1, <2>3, <3>1
      <4>2. c.version >= s.version /\ c.version \in Int /\ s.version \in Int
        BY <2>1, <2>3, <4>1, Bounds DEF Versions
      <4>3. QED
        BY <4>2
    <3>2. QED
      BY <3>1 DEF Latest
  <2>6. c.value \in ContentOf(log, v) /\ IndexAt(log, c.value) = i
    BY <2>1, <2>3, <2>5 DEF Agree
  <2>7. c.value # None
    <3>1. c.value \in ValueMACs
      BY <2>1, <2>3 DEF Sound, StoreOK, MACRow
    <3>2. QED
      BY <3>1, NoneAssumption
  <2>8. QED
    BY <2>4, <2>6, <2>7 DEF Content
<1>3. QED
  BY <1>1, <1>2

-----------------------------------------------------------------------------
(***************************************************************************)
(* The hash a sender uploads                                               *)
(***************************************************************************)

\* The records at v once index i was set by the next patch.
Replaced(l, v, i) == {m \in ContentOf(l, v) : IndexAt(l, m) # i} \cup {<<v + 1, 1>>}

\* EncodePatch sums up the hash of the records its patch makes, if the table is right.
LEMMA EncodedHash ==
  ASSUME Sound, NEW v \in 0 .. Len(log), Agree(macs, log, v, {}), NEW i \in Indexes
  PROVE  updateHash(HashOf(Content(v)), v + 1, <<[op |-> "set", index |-> i]>>, <<GetAppStateMutationMAC(i)>>)
           = HashOf(Replaced(log, v, i))
<1> DEFINE c == GetAppStateMutationMAC(i)
           muts == <<[op |-> "set", index |-> i]>>
           prev == <<c>>
           R == Replaced(log, v, i)
           h == HashOf(Content(v))
<1>0. log \in Seq(Patch) /\ Len(log) <= MaxVersion
  BY DEF Sound, ServerOK
<1>1. \/ c = None /\ \A n \in Content(v) : IndexAt(log, n) # i
      \/ c # None /\ c \in Content(v) /\ IndexAt(log, c) = i
  BY Lookup
<1>2. DOMAIN muts = {1} /\ muts[1].op = "set" /\ prev[1] = c
  OBVIOUS
<1>3. ASSUME NEW m \in ValueMACs
      PROVE  h[m] + (IF m[1] = v + 1 /\ m[2] \in DOMAIN muts /\ muts[m[2]].op = "set" THEN 1 ELSE 0)
                  - Cardinality({x \in DOMAIN muts : prev[x] = m})
               = IF m \in R THEN 1 ELSE 0
  <2>1. Cardinality({x \in DOMAIN muts : prev[x] = m}) = IF c = m THEN 1 ELSE 0
    <3>1. CASE c = m
      <4>1. {x \in DOMAIN muts : prev[x] = m} = {1}
        BY <1>2, <3>1
      <4>2. QED
        BY <3>1, <4>1, FS_Singleton
    <3>2. CASE c # m
      <4>1. {x \in DOMAIN muts : prev[x] = m} = {}
        BY <1>2, <3>2
      <4>2. QED
        BY <3>2, <4>1, FS_EmptySet
    <3>3. QED
      BY <3>1, <3>2
  <2>2. (m[1] = v + 1 /\ m[2] \in DOMAIN muts /\ muts[m[2]].op = "set") <=> m = <<v + 1, 1>>
    BY <1>2 DEF ValueMACs
  <2>3. h[m] = IF m \in Content(v) THEN 1 ELSE 0
    BY DEF HashOf
  <2>4. m \in Content(v) => m # <<v + 1, 1>>
    BY <1>0, ContentType DEF Content
  <2>5. m \in R <=> (m \in Content(v) /\ IndexAt(log, m) # i) \/ m = <<v + 1, 1>>
    BY DEF Replaced, Content
  <2>6. m \in Content(v) => (IndexAt(log, m) = i <=> m = c)
    <3>1. CASE c = None /\ \A n \in Content(v) : IndexAt(log, n) # i
      BY <3>1, NoneAssumption
    <3>2. CASE c # None /\ c \in Content(v) /\ IndexAt(log, c) = i
      <4>1. ASSUME m \in Content(v), IndexAt(log, m) = i PROVE m = c
        <5>1. m \in ContentOf(log, v) /\ c \in ContentOf(log, v) /\ IndexAt(log, m) = IndexAt(log, c)
          BY <3>2, <4>1 DEF Content
        <5> HIDE DEF c
        <5>2. QED
          BY <1>0, <5>1, OneRecord
      <4>2. QED
        BY <3>2, <4>1
    <3>3. QED
      BY <1>1, <3>1, <3>2
  <2>7. m = c => m \in Content(v)
    BY <1>1, NoneAssumption
  <2> HIDE DEF R, h, c, prev, muts
  <2>8. QED
    BY <2>1, <2>2, <2>3, <2>4, <2>5, <2>6, <2>7
<1> HIDE DEF R, h, c, prev, muts
<1>4. updateHash(h, v + 1, muts, prev) = HashOf(R)
  BY <1>3 DEF updateHash, HashOf
<1>5. QED
  BY <1>4 DEF R, h, c, prev, muts

\* The records once the server took the patch.
LEMMA AcceptedContent ==
  ASSUME Sound, NEW x \in Patch, Len(log) < MaxVersion, NEW ind, x.muts = <<[op |-> "set", index |-> ind]>>
  PROVE  ContentOf(Append(log, x), Len(log) + 1) = Replaced(log, Len(log), ind)
<1> DEFINE l == Append(log, x)
           v == Len(log)
<1>1. Extends(log, l) /\ l[v + 1] = x /\ l \in Seq(Patch) /\ Len(l) = v + 1 /\ v \in Nat
  BY LogGrows DEF Sound, ServerOK
<1> HIDE DEF l
<1>2. Len(l) <= MaxVersion /\ v + 1 \in 1 .. Len(l) /\ v \in 0 .. Len(log)
  BY <1>1, Bounds
<1>3. ContentOf(l, v) = ContentOf(log, v)
  BY <1>1, <1>2, ContentStays
<1>4. DOMAIN l[v + 1].muts = {1} /\ l[v + 1].muts[1].op = "set" /\ l[v + 1].muts[1].index = ind
  BY <1>1
<1>5. ASSUME NEW m \in ContentOf(log, v) PROVE IndexAt(l, m) = IndexAt(log, m)
  <2>1. m[1] \in 1 .. Len(log)
    BY <1>2, ContentType DEF Sound, ServerOK
  <2>2. QED
    BY <1>1, <2>1 DEF IndexAt, Extends
<1> HIDE DEF v
<1>6. ASSUME NEW m PROVE m \in ContentOf(l, v + 1) <=> m \in Replaced(log, v, ind)
  <2>1. m \in ContentOf(l, v + 1) <=>
          (m \in ContentOf(l, v) /\ Untouched(l, v + 1, m)) \/ LastSet(l, v + 1, m)
    BY <1>1, <1>2, NextContent
  <2>2. LastSet(l, v + 1, m) <=> m = <<v + 1, 1>>
    BY <1>4 DEF LastSet
  <2>3. Untouched(l, v + 1, m) <=> IndexAt(l, m) # ind
    BY <1>4 DEF Untouched
  <2>4. QED
    BY <1>3, <1>5, <2>1, <2>2, <2>3 DEF Replaced
<1>7. QED
  BY <1>6 DEF l, v

-----------------------------------------------------------------------------
(***************************************************************************)
(* The hashes of the log and the table are right                           *)
(***************************************************************************)

\* Until a patch is stored half or goroutines cross:
Good == "torn" \notin harm /\ ~raced

\* every patch carries the hash of the records it makes,
Honest == \A v \in 1 .. Len(log) : log[v].hash = HashOf(ContentOf(log, v))

\* the table agrees with the stored version, and between two statements of storeMACs
\* with the version before it,
GoneIn(l, v) == {l[v].muts[i].index : i \in {j \in DOMAIN l[v].muts : l[v].muts[j].op = "remove"}}
JobTable(j, l, t) ==
  /\ j.pc = "del" => Agree(t, l, j.new.version - 1, {})
  /\ j.pc = "macs" /\ j.snap = 0 => Agree(t, l, j.new.version - 1, GoneIn(l, j.new.version))
  /\ j.pc = "macs" /\ j.snap # 0 => t = {}
TableRight ==
  /\ ~MACsOpen => Agree(macs, log, GetAppStateVersion.version, {})
  /\ rec.pc = "macs" => macs = {}
  /\ \A p \in Procs : JobTable(job[p], log, macs)

\* and what a sender is about to upload is right or will be refused.
Sends(j, l, s) ==
  /\ j.pc = "encode" => s = j.st \/ j.st.version < s.version
  /\ j.pc = "send" => j.st.version < Len(l) \/ j.new.hash = HashOf(Replaced(l, j.st.version, j.idx))
SendsRight == \A p \in Procs : Sends(job[p], log, GetAppStateVersion)

Truth == Good => Honest /\ TableRight /\ SendsRight

LEMMA HonestStep ==
  ASSUME Sound, Honest, SendsRight, Kinds
  PROVE  Honest'
<1>0. log \in Seq(Patch) /\ Len(log) \in Nat /\ Len(log) <= MaxVersion /\ Extends(log, log')
  BY LogExtends DEF Sound, ServerOK
<1>1. CASE UNCHANGED log
  BY <1>1 DEF Honest
<1>2. ASSUME NEW x \in Patch, Grows(x) PROVE Honest'
  <2>1. /\ Len(log) < MaxVersion /\ log' = Append(log, x) /\ Len(log') = Len(log) + 1
        /\ log'[Len(log) + 1] = x
    BY <1>2, LogGrows DEF Grows, Sound
  <2>2. x.hash = HashOf(ContentOf(log', Len(log) + 1))
    <3>1. ASSUME NEW p \in Procs, job[p].pc = "send", job[p].st.version = Len(log),
                 x.muts = <<[op |-> "set", index |-> job[p].idx]>>, x.hash = job[p].new.hash
          PROVE  x.hash = HashOf(ContentOf(log', Len(log) + 1))
      <4>1. job[p].new.hash = HashOf(Replaced(log, Len(log), job[p].idx))
        BY <1>0, <3>1 DEF SendsRight, Sends
      <4>2. QED
        BY <2>1, <3>1, <4>1, AcceptedContent
    <3>2. QED
      BY <1>2, <3>1 DEF Grows
  <2>3. ASSUME NEW v \in 1 .. Len(log') PROVE log'[v].hash = HashOf(ContentOf(log', v))
    <3>1. CASE v = Len(log) + 1
      BY <2>1, <2>2, <3>1
    <3>2. CASE v \in 1 .. Len(log)
      <4>1. ContentOf(log', v) = ContentOf(log, v) /\ log'[v] = log[v]
        BY <1>0, <3>2, ContentStays DEF Extends
      <4>2. QED
        BY <3>2, <4>1 DEF Honest
    <3>3. QED
      BY <1>0, <2>1, <3>1, <3>2
  <2>4. QED
    BY <2>3 DEF Honest
<1>3. CASE Recovers
  BY <1>1, <1>3 DEF Recovers, RecoveryDelete, RecoveryPut, RecoveryMACs, RecoveryFails, Recovery, server
<1>4. CASE Crash
  BY <1>1, <1>4 DEF Crash, server
<1>5. QED
  BY <1>1, <1>2, <1>3, <1>4 DEF Kinds, Still, Local, Resets, Puts, Deletes, Inserts, Statement


LEMMA EncodeSends ==
  ASSUME Sound, Calm, ~raced, Honest, TableRight, SendsRight, NEW p \in Procs, NEW k, Set(p, k), EncodePatch(p)
  PROVE  /\ k.pc = "send"
         /\ k.st.version < Len(log) \/ k.new.hash = HashOf(Replaced(log, k.st.version, k.idx))
<1> DEFINE j == job[p]
           h == updateHash(j.st.hash, j.st.version + 1, <<[op |-> "set", index |-> j.idx]>>,
                           <<GetAppStateMutationMAC(j.idx)>>)
           g == [j EXCEPT !.pc = "send", !.new.hash = h]
<1>1. j.pc = "encode" /\ Set(p, g)
  BY DEF EncodePatch
<1>2. j \in Job /\ j.idx \in Indexes
  BY <1>1 DEF Sound, JobsOK, Fits
<1>3. k = g
  BY <1>1, JobAfter
<1> HIDE DEF h
<1>4. k.pc = "send" /\ k.st = j.st /\ k.idx = j.idx /\ k.new.hash = h
  BY <1>2, <1>3 DEF Job, HashState
<1> HIDE DEF g
<1>5. Agree(macs, log, GetAppStateVersion.version, {}) /\ GetAppStateVersion.version \in 0 .. Len(log)
  BY <1>1, RowVersion DEF Calm, TableRight
<1>6. CASE j.st.version < GetAppStateVersion.version
  <2>1. j.st.version \in Nat /\ Len(log) \in Nat
    BY <1>2, Bounds DEF Job, HashState, Versions, Sound, ServerOK
  <2>2. QED
    BY <1>4, <1>5, <1>6, <2>1
<1>7. CASE GetAppStateVersion = j.st
  <2>1. j.st.hash = HashOf(Content(j.st.version))
    <3>1. CASE row = None
      <4>1. j.st = EmptyState /\ Content(j.st.version) = {}
        BY <1>7, <3>1, RowVersion, NoContent DEF Content
      <4>2. QED
        BY <4>1 DEF EmptyState, EmptyHash, HashOf
    <3>2. CASE row # None
      <4>1. row = j.st /\ row.version \in 1 .. Len(log) /\ Vouched(log, row)
        BY <1>7, <3>2, RowVersion DEF Sound, StoreOK
      <4>2. QED
        BY <4>1 DEF Vouched, Honest, Content
    <3>3. QED
      BY <3>1, <3>2
  <2>2. h = HashOf(Replaced(log, j.st.version, j.idx))
    BY <1>2, <1>5, <1>7, <2>1, EncodedHash DEF h
  <2>3. QED
    BY <1>4, <2>2
<1>8. QED
  BY <1>1, <1>6, <1>7 DEF SendsRight, Sends

\* A goroutine that stays where it is, while the row gets newer or is reset.
LEMMA SendsStays ==
  ASSUME Sound, Shapes, Extends(log, log'), NEW q \in Procs, Sends(job[q], log, GetAppStateVersion),
         UNCHANGED log \/ Len(log') > Len(log), NEW s,
         \/ s = GetAppStateVersion
         \/ s.version \in Nat /\ GetAppStateVersion.version < s.version
         \/ job[q].pc = "encode" => s = job[q].st
  PROVE  Sends(job[q], log', s)
<1>1. job[q].st.version \in Nat /\ GetAppStateVersion.version \in Nat /\ Len(log) \in Nat /\ Len(log') \in Nat
  <2>1. job[q].st \in HashState
    BY States
  <2>2. QED
    BY <2>1, RowVersion, Bounds DEF HashState, Versions, Extends
<1>2. job[q].pc = "encode" => s = job[q].st \/ job[q].st.version < s.version
  BY <1>1 DEF Sends
<1>3. job[q].pc = "send" =>
        job[q].st.version < Len(log') \/ job[q].new.hash = HashOf(Replaced(log', job[q].st.version, job[q].idx))
  <2>1. job[q].pc = "send" => job[q].st.version <= Len(log)
    BY DEF Shapes, Shaped
  <2>2. CASE UNCHANGED log
    BY <2>2 DEF Sends
  <2>3. CASE Len(log') > Len(log)
    BY <1>1, <2>1, <2>3
  <2>4. QED
    BY <2>2, <2>3
<1>4. QED
  BY <1>2, <1>3 DEF Sends

LEMMA SendsStep ==
  ASSUME Sound, Shapes, Calm, Calm', ~raced, ~raced', Honest, TableRight, SendsRight, Kinds
  PROVE  SendsRight'
<1>0. Extends(log, log')
  BY LogExtends
<1>1. ASSUME NEW q \in Procs, job'[q] = job[q], UNCHANGED row, UNCHANGED log \/ Len(log') > Len(log)
      PROVE  Sends(job[q], log, GetAppStateVersion)'
  <2>1. GetAppStateVersion' = GetAppStateVersion
    BY <1>1 DEF GetAppStateVersion
  <2>2. Sends(job[q], log', GetAppStateVersion)
    BY <1>0, <1>1, SendsStays DEF SendsRight
  <2>3. QED
    BY <1>1, <2>1, <2>2
<1>2. ASSUME NEW q \in Procs, job'[q] = job[q], UNCHANGED log, row' = None
      PROVE  Sends(job[q], log, GetAppStateVersion)'
  <2>1. GetAppStateVersion' = EmptyState
    BY <1>2 DEF GetAppStateVersion
  <2>2. job[q].pc = "encode" => EmptyState = job[q].st
    BY <1>2 DEF Calm
  <2>3. Sends(job[q], log', EmptyState)
    BY <1>0, <1>2, <2>2, SendsStays DEF SendsRight
  <2>4. QED
    BY <1>2, <2>1, <2>3
<1>3. ASSUME NEW q \in Procs, job'[q] = job[q], UNCHANGED log, row' # None, row'.version \in Nat,
             GetAppStateVersion.version < row'.version
      PROVE  Sends(job[q], log, GetAppStateVersion)'
  <2>1. GetAppStateVersion' = row'
    BY <1>3 DEF GetAppStateVersion
  <2>2. Sends(job[q], log', row')
    BY <1>0, <1>3, SendsStays DEF SendsRight
  <2>3. QED
    BY <1>3, <2>1, <2>2
<1>4. ASSUME NEW q \in Procs, job'[q].pc \notin {"encode", "send"} PROVE Sends(job[q], log, GetAppStateVersion)'
  BY <1>4 DEF Sends
<1>5. CASE Still
  BY <1>1, <1>5 DEF Still, SendsRight
<1>6. ASSUME NEW p \in Procs, NEW k \in Job, Local(p, k) PROVE SendsRight'
  <2>1. Set(p, k) /\ UNCHANGED <<log, row>>
    BY <1>6 DEF Local
  <2>2. job'[p] = k /\ \A q \in Procs : q # p => job'[q] = job[q]
    BY <2>1, JobAfter
  <2>3. Sends(k, log, GetAppStateVersion)
    BY <1>6, <2>1, EncodeSends DEF Local, Sends
  <2>4. Sends(job[p], log, GetAppStateVersion)'
    BY <2>1, <2>2, <2>3 DEF GetAppStateVersion
  <2>5. ASSUME NEW q \in Procs, q # p PROVE Sends(job[q], log, GetAppStateVersion)'
    BY <1>1, <2>1, <2>2, <2>5
  <2>6. QED
    BY <2>4, <2>5 DEF SendsRight
<1>7. ASSUME NEW p \in Procs, NEW k \in Job, Resets(p, k) PROVE SendsRight'
  <2>1. Set(p, k) /\ k.pc = "read" /\ UNCHANGED log /\ row' = None
    BY <1>7 DEF Resets
  <2>2. job'[p] = k /\ \A q \in Procs : q # p => job'[q] = job[q]
    BY <2>1, JobAfter
  <2>3. ASSUME NEW q \in Procs PROVE Sends(job[q], log, GetAppStateVersion)'
    BY <1>2, <1>4, <2>1, <2>2
  <2>4. QED
    BY <2>3 DEF SendsRight
<1>8. ASSUME NEW p \in Procs, NEW k \in Job, Puts(p, k) PROVE SendsRight'
  <2>1. /\ job[p].pc = "put" /\ k.pc \notin {"encode", "send"} /\ UNCHANGED log
    BY <1>8 DEF Puts, Statement
  <2>2. /\ GetAppStateVersion = job[p].st /\ row' = job[p].new
        /\ job'[p] = k /\ \A q \in Procs : q # p => job'[q] = job[q]
    BY <1>8, PutsAlone
  <2>3. row' # None /\ row'.version \in Nat /\ GetAppStateVersion.version < row'.version
    BY <2>1, <2>2, NewerState, States
  <2>4. ASSUME NEW q \in Procs PROVE Sends(job[q], log, GetAppStateVersion)'
    BY <1>3, <1>4, <2>1, <2>2, <2>3
  <2>5. QED
    BY <2>4 DEF SendsRight
<1>9. ASSUME NEW p \in Procs, NEW k \in Job, Deletes(p, k) \/ Inserts(p, k) PROVE SendsRight'
  <2>1. Set(p, k) /\ UNCHANGED <<log, row>> /\ k.pc \notin {"encode", "send"}
    BY <1>9 DEF Deletes, Inserts, Statement
  <2>2. job'[p] = k /\ \A q \in Procs : q # p => job'[q] = job[q]
    BY <2>1, JobAfter
  <2>3. ASSUME NEW q \in Procs PROVE Sends(job[q], log, GetAppStateVersion)'
    BY <1>1, <1>4, <2>1, <2>2
  <2>4. QED
    BY <2>3 DEF SendsRight
<1>10. ASSUME NEW x \in Patch, Grows(x) PROVE SendsRight'
  <2>1. UNCHANGED row /\ Len(log') > Len(log)
    <3>1. UNCHANGED row /\ Len(log') = Len(log) + 1 /\ Len(log) \in Nat
      BY <1>10, LogGrows DEF Grows, Sound, ServerOK
    <3>2. QED
      BY <3>1
  <2>2. \A q \in Procs : job'[q] = job[q] \/ job'[q].pc \notin {"encode", "send"}
    <3>1. ASSUME NEW p \in Procs, NEW k \in Job, Set(p, k), k.pc \in {"lock", "idle"}, NEW q \in Procs
          PROVE  job'[q] = job[q] \/ job'[q].pc \notin {"encode", "send"}
      BY <3>1, JobAfter
    <3>2. QED
      BY <1>10, <3>1 DEF Grows
  <2>3. ASSUME NEW q \in Procs PROVE Sends(job[q], log, GetAppStateVersion)'
    BY <1>1, <1>4, <2>1, <2>2
  <2>4. QED
    BY <2>3 DEF SendsRight
<1>11. CASE RecoveryPut
  <2>1. /\ row = None /\ rec.version \in 1 .. Len(log) /\ UNCHANGED <<log, job>>
        /\ row' = SnapshotOf(rec.version) /\ row' # None
    BY <1>11, RecoveryPutAlone
  <2>2. row'.version \in Nat /\ GetAppStateVersion.version < row'.version
    BY <2>1, RowVersion DEF SnapshotOf
  <2>3. ASSUME NEW q \in Procs PROVE Sends(job[q], log, GetAppStateVersion)'
    BY <1>3, <2>1, <2>2
  <2>4. QED
    BY <2>3 DEF SendsRight
<1>12. CASE RecoveryDelete
  BY <1>2, <1>12 DEF RecoveryDelete, DeleteAppStateVersion, server, SendsRight
<1>13. ASSUME RecoveryMACs \/ RecoveryFails \/ \E v \in 1 .. MaxVersion : Recovery(v) PROVE SendsRight'
  <2>1. UNCHANGED <<log, row, job>>
    BY <1>13 DEF RecoveryMACs, RecoveryFails, Recovery, server, store
  <2>2. QED
    BY <1>1, <2>1 DEF SendsRight
<1>14. CASE Crash
  <2>1. \A q \in Procs : job'[q].pc = "idle"
    BY <1>14, IdleType DEF Crash
  <2>2. QED
    BY <1>4, <2>1 DEF SendsRight
<1>15. QED
  BY <1>5, <1>6, <1>7, <1>8, <1>9, <1>10, <1>11, <1>12, <1>13, <1>14 DEF Kinds, Recovers


\* The log a goroutine works on grows.
LEMMA JobTableStays ==
  ASSUME Sound, Shapes, NEW l, Extends(log, l), NEW q \in Procs, JobTable(job[q], log, macs)
  PROVE  JobTable(job[q], l, macs)
<1>1. CASE ~Open(q)
  BY <1>1 DEF Open, JobTable
<1>2. CASE Open(q)
  <2>1. job[q].new.version \in 1 .. Len(log) /\ job[q].new.version - 1 \in 0 .. Len(log)
    <3>1. job[q].new.version \in 1 .. Len(log) /\ Len(log) \in Nat
      BY <1>2, NewerState DEF Open, Sound, ServerOK
    <3>2. QED
      BY <3>1
  <2>2. GoneIn(l, job[q].new.version) = GoneIn(log, job[q].new.version)
    <3>1. l[job[q].new.version] = log[job[q].new.version]
      BY <2>1 DEF Extends
    <3>2. QED
      BY <3>1 DEF GoneIn
  <2>3. \A gone : Agree(macs, log, job[q].new.version - 1, gone) => Agree(macs, l, job[q].new.version - 1, gone)
    BY <2>1, AgreeStays
  <2>4. QED
    BY <2>2, <2>3 DEF JobTable
<1>3. QED
  BY <1>1, <1>2

\* A step that leaves the store and closes or opens nothing.
LEMMA SameTable ==
  ASSUME Sound, Shapes, TableRight, Extends(log, log'), UNCHANGED <<row, macs>>,
         ~MACsOpen' => ~MACsOpen, rec'.pc = "macs" => rec.pc = "macs",
         \A q \in Procs : job'[q] = job[q] \/ job'[q].pc \notin {"del", "macs"}
  PROVE  TableRight'
<1>1. ~MACsOpen' => Agree(macs', log', GetAppStateVersion'.version, {})
  <2>1. GetAppStateVersion.version \in 0 .. Len(log)
    BY RowVersion
  <2>2. ~MACsOpen => Agree(macs, log', GetAppStateVersion.version, {})
    BY <2>1, AgreeStays DEF TableRight
  <2>3. GetAppStateVersion' = GetAppStateVersion
    BY DEF GetAppStateVersion
  <2>4. QED
    BY <2>2, <2>3
<1>2. ASSUME NEW q \in Procs PROVE JobTable(job'[q], log', macs')
  <2>1. CASE job'[q] = job[q]
    <3>1. JobTable(job[q], log', macs)
      BY JobTableStays DEF TableRight
    <3>2. QED
      BY <2>1, <3>1
  <2>2. CASE job'[q].pc \notin {"del", "macs"}
    BY <2>2 DEF JobTable
  <2>3. QED
    BY <2>1, <2>2
<1>3. rec'.pc = "macs" => macs' = {}
  BY DEF TableRight
<1>4. QED
  BY <1>1, <1>2, <1>3 DEF TableRight

\* After a statement of p nobody else is between two of them.
LEMMA TableOfOne ==
  ASSUME NEW p \in Procs, rec'.pc # "macs", \A q \in Procs : q # p => ~Open(q)',
         JobTable(job'[p], log', macs'),
         ~Open(p)' => Agree(macs', log', GetAppStateVersion'.version, {})
  PROVE  TableRight'
<1>1. ASSUME NEW q \in Procs PROVE JobTable(job'[q], log', macs')
  <2>1. CASE q # p
    <3>1. job'[q].pc \notin {"del", "macs"}
      BY <2>1 DEF Open
    <3>2. QED
      BY <3>1 DEF JobTable
  <2>2. QED
    BY <2>1
<1>2. ~MACsOpen' => ~Open(p)'
  BY DEF MACsOpen, Open
<1>3. QED
  BY <1>1, <1>2 DEF TableRight

LEMMA ResetTable ==
  ASSUME Sound', Calm', ~raced', row' = None, macs' = {}
  PROVE  TableRight'
<1>1. ASSUME NEW q \in Procs PROVE JobTable(job'[q], log', macs')
  <2>1. job'[q].new # None
    <3>1. job'[q] \in Job
      BY DEF Sound, JobsOK
    <3>2. QED
      BY <3>1, NoneAssumption DEF Job
  <2>2. job'[q].pc \notin {"del", "macs"}
    BY <2>1 DEF Calm
  <2>3. QED
    BY <2>2 DEF JobTable
<1>2. GetAppStateVersion'.version = 0
  BY EmptyStateType DEF GetAppStateVersion
<1>3. Agree(macs', log', GetAppStateVersion'.version, {})
  BY <1>2, NoContent, AgreeEmpty
<1>4. QED
  BY <1>1, <1>3 DEF TableRight

\* The rows and the indexes of what is stored.
LEMMA StoredRows ==
  ASSUME NEW j
  PROVE  /\ j.snap # 0 => Rows(j) = SnapshotRows(log, j.snap)
         /\ j.snap = 0 => /\ Rows(j) = PatchRows(j.new.version)
                          /\ Gone(j) = GoneIn(log, j.new.version)
                          /\ Gone(j) = RemovedMACs(j.new.version)
<1>1. j.snap # 0 => Rows(j) = SnapshotRows(log, j.snap)
  BY DEF Rows, SnapshotRows, MutationAt, IndexAt, Content
<1>2. j.snap = 0 => Rows(j) = PatchRows(j.new.version)
  BY DEF Rows, PatchRows
<1>3. j.snap = 0 => Gone(j) = GoneIn(log, j.new.version) /\ Gone(j) = RemovedMACs(j.new.version)
  BY DEF Gone, GoneIn, RemovedMACs
<1>4. QED
  BY <1>1, <1>2, <1>3

LEMMA MACVersions == ASSUME Sound PROVE \A r \in macs : r.version \in Nat
BY Bounds DEF Sound, StoreOK, MACRow, Versions

LEMMA PutsTable ==
  ASSUME Sound, Shapes, Calm, Calm', OneOpen, ~raced, ~raced', TableRight,
         NEW p \in Procs, NEW k \in Job, Puts(p, k)
  PROVE  TableRight'
<1> DEFINE j == job[p]
<1>1. /\ \A q \in Procs : ~Open(q)
      /\ rec.pc # "macs" /\ ~MACsOpen /\ GetAppStateVersion = j.st /\ row' = j.new
      /\ job'[p] = k /\ \A q \in Procs : q # p => job'[q] = job[q]
  BY PutsAlone
<1>2. j.pc = "put" /\ Statement(p, k) /\ UNCHANGED <<log, macs, rec>> /\ Shaped(k, log)
  BY DEF Puts, Statement
<1>3. /\ j.new.version \in 1 .. Len(log) /\ j.st.version \in Nat
      /\ j.snap = 0 => j.new.version = j.st.version + 1
      /\ j.snap # 0 => j.st = EmptyState /\ j.new.version = j.snap
  BY <1>2, NewerState
<1>4. Agree(macs, log, j.st.version, {})
  BY <1>1 DEF TableRight
<1>5. GetAppStateVersion' = j.new
  BY <1>1, States DEF GetAppStateVersion
<1>6. j.snap # 0 => macs = {}
  <2>1. j.snap # 0 => row = None
    BY <1>1, <1>3, RowVersion, EmptyStateType
  <2>2. QED
    BY <2>1 DEF OneOpen
<1>7. CASE k.pc \in {"del", "macs"} /\ (k.pc = "macs" => Gone(j) = {})
  <2>1. k.new = j.new /\ k.snap = j.snap
    BY <1>2, <1>7 DEF Statement
  <2>2. k.pc = "del" => k.snap = 0
    BY <1>2 DEF Shaped
  <2>3. j.snap = 0 => Agree(macs, log, k.new.version - 1, {})
    BY <1>3, <1>4, <2>1
  <2>4. k.pc = "macs" /\ k.snap = 0 => GoneIn(log, k.new.version) = {}
    BY <1>7, <2>1, StoredRows
  <2>5. JobTable(k, log, macs)
    BY <1>6, <2>1, <2>2, <2>3, <2>4 DEF JobTable
  <2>6. JobTable(job'[p], log', macs')
    BY <1>1, <1>2, <2>5
  <2>7. Open(p)'
    BY <1>1, <1>7 DEF Open
  <2>8. \A q \in Procs : q # p => ~Open(q)'
    BY <1>1 DEF Open
  <2>9. rec'.pc # "macs"
    BY <1>1, <1>2
  <2>10. QED
    BY <2>6, <2>7, <2>8, <2>9, TableOfOne
<1>8. CASE k.pc \notin {"del", "macs"} /\ Gone(j) \cup Rows(j) = {}
  <2>1. Agree(macs, log, j.new.version, {})
    <3>1. CASE j.snap # 0
      <4>1. SnapshotRows(log, j.snap) = {}
        BY <1>8, <3>1, StoredRows
      <4>2. ContentOf(log, j.snap) = {}
        BY <4>1 DEF SnapshotRows
      <4>3. QED
        BY <1>3, <1>6, <3>1, <4>2, AgreeEmpty
    <3>2. CASE j.snap = 0
      <4>1. PatchRows(j.st.version + 1) = {} /\ RemovedMACs(j.st.version + 1) = {}
        BY <1>3, <1>8, <3>2, StoredRows
      <4>2. Agree(macs \cup PatchRows(j.st.version + 1), log, j.st.version + 1, {})
        BY <1>3, <1>4, <3>2, <4>1, AgreePatch, MACVersions DEF Sound
      <4>3. QED
        BY <1>3, <3>2, <4>1, <4>2
    <3>3. QED
      BY <3>1, <3>2
  <2>2. \A q \in Procs : ~Open(q)'
    BY <1>1, <1>8 DEF Open
  <2>3. JobTable(job'[p], log', macs')
    BY <1>1, <1>8 DEF JobTable
  <2>4. Agree(macs', log', GetAppStateVersion'.version, {})
    BY <1>2, <1>5, <2>1
  <2>5. rec'.pc # "macs"
    BY <1>1, <1>2
  <2>6. QED
    BY <2>2, <2>3, <2>4, <2>5, TableOfOne
<1>9. QED
  BY <1>7, <1>8 DEF Puts

\* The other statements: the row is the one p put, and p is alone.
LEMMA StatementAlone ==
  ASSUME Sound, Shapes, Calm, OneOpen, ~raced, NEW p \in Procs, NEW k \in Job, Deletes(p, k) \/ Inserts(p, k)
  PROVE  /\ rec'.pc # "macs" /\ job'[p] = k /\ UNCHANGED log
         /\ \A q \in Procs : q # p => ~Open(q)'
         /\ GetAppStateVersion' = job[p].new
<1>1. Open(p) /\ Statement(p, k) /\ Set(p, k) /\ UNCHANGED <<log, rec, row>>
  BY DEF Deletes, Inserts, Statement, Open
<1>2. job'[p] = k /\ \A q \in Procs : q # p => job'[q] = job[q]
  BY <1>1, JobAfter
<1>3. rec.pc # "macs" /\ \A q \in Procs : q # p => ~Open(q)
  BY <1>1 DEF OneOpen
<1>4. row = job[p].new /\ row # None
  BY <1>1, States DEF Calm, Open
<1>5. QED
  BY <1>1, <1>2, <1>3, <1>4 DEF Open, GetAppStateVersion

LEMMA DeletesTable ==
  ASSUME Sound, Shapes, Calm, OneOpen, ~raced, TableRight, NEW p \in Procs, NEW k \in Job, Deletes(p, k)
  PROVE  TableRight'
<1> DEFINE j == job[p]
<1>1. /\ rec'.pc # "macs" /\ job'[p] = k /\ UNCHANGED log
      /\ \A q \in Procs : q # p => ~Open(q)'
      /\ GetAppStateVersion' = j.new
  BY StatementAlone
<1>2. j.pc = "del" /\ Statement(p, k) /\ macs' = {r \in macs : r.index \notin Gone(j)}
  BY DEF Deletes
<1>3. j.snap = 0 /\ j.new.version \in 1 .. Len(log) /\ j.st.version \in Nat /\ j.new.version = j.st.version + 1
  <2>1. j.snap = 0
    BY <1>2 DEF Shapes, Shaped
  <2>2. QED
    BY <1>2, <2>1, NewerState
<1>4. Gone(j) = GoneIn(log, j.new.version) /\ Gone(j) = RemovedMACs(j.new.version)
      /\ Rows(j) = PatchRows(j.new.version)
  BY <1>3, StoredRows
<1>5. Agree(macs, log, j.st.version, {})
  <2>1. Agree(macs, log, j.new.version - 1, {})
    BY <1>2 DEF TableRight, JobTable
  <2>2. QED
    BY <1>3, <2>1
<1>6. Agree(macs', log, j.st.version, Gone(j))
  BY <1>2, <1>5, AgreeDelete
<1>7. CASE k.pc = "macs"
  <2>1. k.new = j.new /\ k.snap = 0
    BY <1>2, <1>3, <1>7 DEF Statement
  <2>2. Agree(macs', log, k.new.version - 1, GoneIn(log, k.new.version))
    BY <1>3, <1>4, <1>6, <2>1
  <2>3. JobTable(k, log, macs')
    BY <1>7, <2>1, <2>2 DEF JobTable
  <2>4. JobTable(job'[p], log', macs') /\ Open(p)'
    BY <1>1, <1>7, <2>3 DEF Open
  <2>5. QED
    BY <1>1, <2>4, TableOfOne
<1>8. CASE k.pc \notin {"del", "macs"} /\ Rows(j) = {}
  <2>1. \A r \in macs' : r.version \in Nat
    BY <1>2, MACVersions
  <2>2. Agree(macs' \cup PatchRows(j.st.version + 1), log, j.st.version + 1, {})
    BY <1>3, <1>4, <1>6, <1>8, <2>1, AgreePatch DEF Sound
  <2>3. Agree(macs', log, j.new.version, {})
    BY <1>3, <1>4, <1>8, <2>2
  <2>4. JobTable(job'[p], log', macs')
    BY <1>1, <1>8 DEF JobTable
  <2>5. Agree(macs', log', GetAppStateVersion'.version, {})
    BY <1>1, <2>3
  <2>6. QED
    BY <1>1, <2>4, <2>5, TableOfOne
<1>9. QED
  BY <1>7, <1>8 DEF Deletes

LEMMA InsertsTable ==
  ASSUME Sound, Shapes, Calm, OneOpen, ~raced, TableRight, NEW p \in Procs, NEW k \in Job, Inserts(p, k)
  PROVE  TableRight'
<1> DEFINE j == job[p]
<1>1. /\ rec'.pc # "macs" /\ job'[p] = k /\ UNCHANGED log
      /\ \A q \in Procs : q # p => ~Open(q)'
      /\ GetAppStateVersion' = j.new
  BY StatementAlone
<1>2. /\ j.pc = "macs" /\ macs' = macs \cup Rows(j) /\ k.pc \notin {"del", "macs"} /\ Insertable(Rows(j))
      /\ JobTable(j, log, macs)
  BY DEF Inserts, TableRight
<1>3. /\ j.new.version \in 1 .. Len(log) /\ j.st.version \in Nat
      /\ j.snap = 0 => j.new.version = j.st.version + 1
      /\ j.snap # 0 => j.new.version = j.snap
  BY <1>2, NewerState
<1>4. Agree(macs', log, j.new.version, {})
  <2>1. CASE j.snap # 0
    <3>1. macs' = SnapshotRows(log, j.snap)
      BY <1>2, <2>1, StoredRows DEF JobTable
    <3>2. QED
      BY <1>3, <2>1, <3>1, AgreeSnapshot
  <2>2. CASE j.snap = 0
    <3>1. /\ Rows(j) = PatchRows(j.st.version + 1)
          /\ GoneIn(log, j.new.version) = RemovedMACs(j.st.version + 1)
      BY <1>3, <2>2, StoredRows
    <3>2. Agree(macs, log, j.st.version, RemovedMACs(j.st.version + 1))
      <4>1. Agree(macs, log, j.new.version - 1, GoneIn(log, j.new.version))
        BY <1>2, <2>2 DEF JobTable
      <4>2. QED
        BY <1>3, <2>2, <3>1, <4>1
    <3>3. \A r, s \in PatchRows(j.st.version + 1) : r.index = s.index => r = s
      <4>1. \A r \in PatchRows(j.st.version + 1) : r.version = j.st.version + 1
        BY DEF PatchRows
      <4>2. QED
        BY <1>2, <3>1, <4>1 DEF Insertable
    <3>4. Agree(macs \cup PatchRows(j.st.version + 1), log, j.st.version + 1, {})
      BY <1>3, <2>2, <3>2, <3>3, AgreePatch, MACVersions DEF Sound
    <3>5. QED
      BY <1>2, <1>3, <2>2, <3>1, <3>4
  <2>3. QED
    BY <2>1, <2>2
<1>5. JobTable(job'[p], log', macs')
  BY <1>1, <1>2 DEF JobTable
<1>6. Agree(macs', log', GetAppStateVersion'.version, {})
  BY <1>1, <1>4
<1>7. QED
  BY <1>1, <1>5, <1>6, TableOfOne


LEMMA RecoveryTable ==
  ASSUME Sound, Sound', Shapes, Calm, Calm', OneOpen, ~raced, ~raced', TableRight, "torn" \notin harm', Recovers
  PROVE  TableRight'
<1>1. CASE RecoveryDelete
  BY <1>1, ResetTable DEF RecoveryDelete, DeleteAppStateVersion
<1>2. CASE RecoveryPut
  <2>1. /\ \A q \in Procs : ~Open(q) /\ job'[q] = job[q]
        /\ row = None /\ UNCHANGED macs /\ rec'.pc = "macs"
    BY <1>2, RecoveryPutAlone
  <2>2. macs' = {} /\ MACsOpen'
    BY <2>1 DEF OneOpen, MACsOpen
  <2>3. ASSUME NEW q \in Procs PROVE JobTable(job'[q], log', macs')
    BY <2>1 DEF Open, JobTable
  <2>4. QED
    BY <2>2, <2>3 DEF TableRight
<1>3. CASE RecoveryMACs
  <2>1. /\ rec.pc = "macs" /\ rec'.pc = "idle" /\ UNCHANGED <<log, row, job>>
        /\ macs' = macs \cup {[version |-> rec.version, index |-> MutationAt(m).index, value |-> m] :
                                m \in Content(rec.version)}
    BY <1>3 DEF RecoveryMACs, server
  <2>2. macs' = SnapshotRows(log, rec.version)
    <3>1. macs = {}
      BY <2>1 DEF TableRight
    <3>2. QED
      BY <2>1, <3>1 DEF SnapshotRows, MutationAt, IndexAt, Content
  <2>3. GetAppStateVersion'.version = rec.version /\ rec.version \in Nat
    <3>1. row = SnapshotOf(rec.version) /\ rec.version \in Versions
      BY <2>1 DEF Calm, Sound, RecoveryOK
    <3>2. row # None /\ row.version = rec.version
      <4>1. SnapshotOf(rec.version) \in HashState /\ SnapshotOf(rec.version).version = rec.version
        BY <3>1, HashOfType DEF SnapshotOf, HashState
      <4>2. QED
        BY <3>1, <4>1, NoneAssumption
    <3>3. QED
      BY <2>1, <3>1, <3>2, Bounds DEF GetAppStateVersion, Versions
  <2>4. Agree(macs', log', GetAppStateVersion'.version, {})
    BY <2>1, <2>2, <2>3, AgreeSnapshot
  <2>5. ASSUME NEW q \in Procs PROVE JobTable(job'[q], log', macs')
    <3>1. ~Open(q)
      BY <2>1 DEF OneOpen
    <3>2. QED
      BY <2>1, <3>1 DEF Open, JobTable
  <2>6. QED
    BY <2>1, <2>4, <2>5 DEF TableRight
<1>4. CASE RecoveryFails
  <2>1. UNCHANGED <<log, row, macs, job>> /\ rec.pc # "macs" /\ rec'.pc = "idle"
    BY <1>4 DEF RecoveryFails, server, store
  <2>2. ~MACsOpen' => ~MACsOpen
    BY <2>1 DEF MACsOpen
  <2>3. Extends(log, log')
    BY <2>1, ExtendsSelf DEF Sound
  <2>4. QED
    BY <2>1, <2>2, <2>3, SameTable
<1>5. ASSUME NEW v \in 1 .. MaxVersion, Recovery(v) PROVE TableRight'
  <2>1. UNCHANGED <<log, row, macs, job>> /\ rec.pc = "idle" /\ rec'.pc = "del"
    BY <1>5 DEF Recovery, server, store
  <2>2. ~MACsOpen' => ~MACsOpen
    BY <2>1 DEF MACsOpen
  <2>3. Extends(log, log')
    BY <2>1, ExtendsSelf DEF Sound
  <2>4. QED
    BY <2>1, <2>2, <2>3, SameTable
<1>6. QED
  BY <1>1, <1>2, <1>3, <1>4, <1>5 DEF Recovers

LEMMA TableStep ==
  ASSUME Sound, Sound', Shapes, Calm, Calm', OneOpen, ~raced, ~raced', TableRight, "torn" \notin harm', Kinds
  PROVE  TableRight'
<1>0. Extends(log, log')
  BY LogExtends
<1>1. CASE Still
  <2>1. UNCHANGED <<log, row, macs, rec, job>>
    BY <1>1 DEF Still
  <2>2. ~MACsOpen' => ~MACsOpen
    BY <2>1 DEF MACsOpen
  <2>3. QED
    BY <1>0, <2>1, <2>2, SameTable
<1>2. ASSUME NEW p \in Procs, NEW k \in Job, Set(p, k), ~Open(p), k.pc \notin {"del", "macs"},
             UNCHANGED <<row, macs, rec>>
      PROVE  TableRight'
  <2>1. job'[p] = k /\ \A q \in Procs : q # p => job'[q] = job[q]
    BY <1>2, JobAfter
  <2>2. \A q \in Procs : Open(q) => job'[q] = job[q]
    BY <1>2, <2>1
  <2>3. ~MACsOpen' => ~MACsOpen
    BY <1>2, <2>2 DEF MACsOpen, Open
  <2>4. QED
    BY <1>0, <1>2, <2>1, <2>3, SameTable
<1>3. ASSUME NEW p \in Procs, NEW k \in Job, Local(p, k) PROVE TableRight'
  BY <1>2, <1>3 DEF Local
<1>4. ASSUME NEW p \in Procs, NEW k \in Job, Resets(p, k) PROVE TableRight'
  BY <1>4, ResetTable DEF Resets
<1>5. ASSUME NEW p \in Procs, NEW k \in Job, Puts(p, k) \/ Deletes(p, k) \/ Inserts(p, k) PROVE TableRight'
  BY <1>5, PutsTable, DeletesTable, InsertsTable
<1>6. ASSUME NEW x \in Patch, Grows(x) PROVE TableRight'
  <2>1. UNCHANGED <<row, macs, rec>>
    BY <1>6 DEF Grows
  <2>2. CASE UNCHANGED job
    <3>1. ~MACsOpen' => ~MACsOpen
      BY <2>1, <2>2 DEF MACsOpen
    <3>2. QED
      BY <1>0, <2>1, <2>2, <3>1, SameTable
  <2>3. ASSUME NEW p \in Procs, NEW k \in Job, Set(p, k), job[p].pc = "send", k.pc \in {"lock", "idle"}
        PROVE  TableRight'
    <3>1. ~Open(p) /\ k.pc \notin {"del", "macs"}
      BY <2>3 DEF Open
    <3>2. QED
      BY <1>2, <2>1, <2>3, <3>1
  <2>4. QED
    BY <1>6, <2>2, <2>3 DEF Grows
<1>7. CASE Recovers
  BY <1>7, RecoveryTable
<1>8. CASE Crash
  <2>1. UNCHANGED <<row, macs>> /\ rec'.pc = "idle" /\ ~MACsOpen /\ \A q \in Procs : job'[q].pc = "idle"
    BY <1>8, IdleType DEF Crash, store
  <2>2. QED
    BY <1>0, <2>1, SameTable
<1>9. QED
  BY <1>1, <1>3, <1>4, <1>5, <1>6, <1>7, <1>8 DEF Kinds

LEMMA TruthStep == ASSUME Sound, Sound', Shapes, Calm, Calm', OneOpen, Truth, [Next]_vars PROVE Truth'
<1> SUFFICES ASSUME Good' PROVE Honest' /\ TableRight' /\ SendsRight'
  BY DEF Truth
<1>1. Kinds /\ ~raced /\ ~raced' /\ "torn" \notin harm' /\ Good
  <2>1. Kinds /\ (~raced' => ~raced) /\ harm \subseteq harm'
    BY StepKinds, CalmStep
  <2>2. QED
    BY <2>1 DEF Good
<1>2. Honest /\ TableRight /\ SendsRight
  BY <1>1 DEF Truth
<1>3. QED
  BY <1>1, <1>2, HonestStep, TableStep, SendsStep

LEMMA TruthInit == Init => Truth
<1> SUFFICES ASSUME Init PROVE Honest /\ TableRight /\ SendsRight
  BY DEF Truth
<1>1. /\ log = <<>> /\ row = None /\ macs = {} /\ rec.pc = "idle"
      /\ \A p \in Procs : job[p].pc = "idle"
  BY IdleType DEF Init
<1>2. Honest
  BY <1>1 DEF Honest
<1>3. Agree(macs, log, GetAppStateVersion.version, {})
  BY <1>1, NoContent, AgreeEmpty, EmptyStateType DEF GetAppStateVersion
<1>4. TableRight
  BY <1>1, <1>3 DEF TableRight, JobTable
<1>5. SendsRight
  BY <1>1 DEF SendsRight, Sends
<1>6. QED
  BY <1>2, <1>4, <1>5

\* The invariant of the store, from which the two theorems below follow.
Faithful == Sound /\ Shapes /\ Calm /\ OneOpen /\ Truth

LEMMA FaithfulAlways == Spec => []Faithful
<1>1. Init => Faithful
  BY SoundInit, CalmInit, ToldInit, TruthInit DEF Faithful
<1>2. Faithful /\ [Next]_vars => Faithful'
  <2>1. ASSUME Faithful, [Next]_vars PROVE Faithful'
    <3>1. Sound /\ Shapes /\ Calm /\ OneOpen /\ Truth
      BY <2>1 DEF Faithful
    <3>2. Sound' /\ Shapes' /\ Calm'
      BY <2>1, <3>1, SoundStep, ShapesStep, CalmStep
    <3>3. OneOpen' /\ Truth'
      BY <2>1, <3>1, <3>2, OneOpenStep, TruthStep
    <3>4. QED
      BY <3>2, <3>3 DEF Faithful
  <2>2. QED
    BY <2>1
<1>3. QED
  BY <1>1, <1>2, PTL DEF Spec

\* Unless a patch was stored half or a goroutine changed the store under another, every
\* patch in the server's log, those this client uploaded included, carries the LTHash of
\* the records it makes: EncodePatch sums it up from a version and a table that agree,
\* or from a version the server no longer accepts a patch on.
THEOREM UploadsCarryTheHash == Spec => []UploadsVerify
<1>1. Faithful => UploadsVerify
  BY DEF Faithful, Truth, Good, Honest, UploadsVerify, Content
<1>2. QED
  BY <1>1, FaithfulAlways, PTL

\* And whenever nobody works on the store, the latest row of every index is the record
\* the server has at the stored version, over patches that set, remove and set again.
THEOREM MACsFollowVersion == Spec => []MACsAgree
<1>1. Faithful => MACsAgree
  <2> SUFFICES ASSUME Faithful, Quiet, "torn" \notin harm, ~raced
               PROVE  {GetAppStateMutationMAC(i) : i \in Indexes} \ {None} = Content(GetAppStateVersion.version)
    BY DEF MACsAgree
  <2> DEFINE v == GetAppStateVersion.version
  <2>1. Sound /\ TableRight
    BY DEF Faithful, Truth, Good
  <2>2. ~MACsOpen
    BY DEF Quiet, MACsOpen
  <2>3. Agree(macs, log, v, {}) /\ v \in 0 .. Len(log)
    BY <2>1, <2>2, RowVersion DEF TableRight
  <2>4. ASSUME NEW i \in Indexes
        PROVE  \/ GetAppStateMutationMAC(i) = None /\ \A n \in Content(v) : IndexAt(log, n) # i
               \/ GetAppStateMutationMAC(i) # None /\ GetAppStateMutationMAC(i) \in Content(v)
                  /\ IndexAt(log, GetAppStateMutationMAC(i)) = i
    BY <2>1, <2>3, Lookup
  <2>5. log \in Seq(Patch) /\ Len(log) <= MaxVersion
    BY <2>1 DEF Sound, ServerOK
  <2>6. ASSUME NEW m \in Content(v) PROVE \E i \in Indexes : m = GetAppStateMutationMAC(i) /\ m # None
    <3>1. m \in ContentOf(log, v) /\ IndexAt(log, m) \in Indexes
      <4>1. m \in ContentOf(log, v)
        BY <2>6 DEF Content
      <4>2. log[m[1]].muts[m[2]] \in Mutation
        BY <2>3, <2>5, <4>1, ContentType
      <4>3. QED
        BY <4>1, <4>2 DEF Mutation, IndexAt
    <3> DEFINE i == IndexAt(log, m)
               c == GetAppStateMutationMAC(i)
    <3>2. c # None /\ c \in Content(v) /\ IndexAt(log, c) = i
      BY <2>4, <2>6, <3>1
    <3> HIDE DEF c
    <3>3. c = m
      BY <2>3, <2>5, <3>1, <3>2, OneRecord DEF Content
    <3>4. QED
      BY <3>1, <3>2, <3>3 DEF c
  <2> HIDE DEF v
  <2>7. {GetAppStateMutationMAC(i) : i \in Indexes} \ {None} = Content(v)
    BY <2>4, <2>6
  <2>8. QED
    BY <2>7 DEF v
<1>2. QED
  BY <1>1, FaithfulAlways, PTL


-----------------------------------------------------------------------------
(***************************************************************************)
(* A patch verifies                                                        *)
(***************************************************************************)

\* Mutation i of patch w takes the place of m: m is the record its index had before the
\* patch and i the first mutation of it, or m is set by the patch and i comes next.
Follows(w, i, m) ==
  LET muts == log[w].muts
  IN  \/ /\ m \in Content(w - 1) /\ IndexAt(log, m) = muts[i].index
         /\ ~\E j \in DOMAIN muts : j < i /\ muts[j].index = muts[i].index
      \/ /\ m[1] = w /\ m[2] \in DOMAIN muts /\ m[2] < i
         /\ muts[m[2]].op = "set" /\ muts[m[2]].index = muts[i].index
         /\ ~\E j \in DOMAIN muts : m[2] < j /\ j < i /\ muts[j].index = muts[i].index

LEMMA MutsDomain ==
  ASSUME ServerOK, NEW w \in 1 .. Len(log)
  PROVE  \E n \in Nat : DOMAIN log[w].muts = 1 .. n
<1>1. log[w].muts \in Muts
  BY PatchType DEF ServerOK
<1>2. QED
  BY <1>1, Bounds DEF Muts

\* getPrevSetValueMAC names what a mutation takes the place of, if the table is right.
LEMMA PrevFollows ==
  ASSUME Sound, NEW v \in Nat, v + 1 \in 1 .. Len(log), Agree(macs, log, v, {}),
         NEW i \in DOMAIN log[v + 1].muts, NEW m \in ValueMACs
  PROVE  PrevSet(v + 1, log[v + 1].muts, i) = m <=> Follows(v + 1, i, m)
<1> DEFINE w == v + 1
           muts == log[w].muts
           earlier == {j \in 1 .. i - 1 : muts[j].index = muts[i].index}
<1>0. log \in Seq(Patch) /\ Len(log) <= MaxVersion /\ v \in 0 .. Len(log) /\ w - 1 = v /\ w \in 1 .. Len(log)
  BY DEF Sound, ServerOK
<1>1. PICK n \in Nat : DOMAIN muts = 1 .. n
  BY <1>0, MutsDomain DEF Sound
<1>2. /\ i \in Nat /\ i >= 1 /\ 1 .. i - 1 \subseteq DOMAIN muts
      /\ \A j \in DOMAIN muts : j < i => j \in 1 .. i - 1
  BY <1>1
<1>3. muts[i].index \in Indexes
  <2>1. muts[i] \in Mutation
    BY <1>0, PatchType, MutsType
  <2>2. QED
    BY <2>1 DEF Mutation
<1>4. m # None
  BY NoneAssumption
<1>5. m = <<m[1], m[2]>> /\ m[1] \in Nat /\ m[2] \in Nat
  BY DEF ValueMACs
<1> HIDE DEF muts, w
<1>6. CASE earlier = {}
  <2>1. PrevSet(w, muts, i) = GetAppStateMutationMAC(muts[i].index)
    BY <1>6 DEF PrevSet
  <2>2. ~\E j \in DOMAIN muts : j < i /\ muts[j].index = muts[i].index
    BY <1>2, <1>6
  <2>3. Follows(w, i, m) <=> (m \in Content(v) /\ IndexAt(log, m) = muts[i].index)
    BY <1>0, <2>2 DEF Follows, muts
  <2>4. LET c == GetAppStateMutationMAC(muts[i].index)
        IN  \/ c = None /\ \A q \in Content(v) : IndexAt(log, q) # muts[i].index
            \/ c # None /\ c \in Content(v) /\ IndexAt(log, c) = muts[i].index
    BY <1>0, <1>3, Lookup
  <2> DEFINE c == GetAppStateMutationMAC(muts[i].index)
  <2>5. c = m <=> (m \in Content(v) /\ IndexAt(log, m) = muts[i].index)
    <3>1. ASSUME m \in Content(v), IndexAt(log, m) = muts[i].index PROVE c = m
      <4>1. c \in ContentOf(log, v) /\ m \in ContentOf(log, v) /\ IndexAt(log, c) = IndexAt(log, m)
        BY <2>4, <3>1 DEF Content
      <4> HIDE DEF c
      <4>2. QED
        BY <1>0, <4>1, OneRecord
    <3>2. QED
      BY <1>4, <2>4, <3>1
  <2>6. QED
    BY <2>1, <2>3, <2>5 DEF muts, w
<1>7. CASE earlier # {}
  <2>1. earlier \in SUBSET Int /\ IsFiniteSet(earlier)
    <3>1. earlier \in SUBSET (1 .. i - 1)
      OBVIOUS
    <3>2. IsFiniteSet(earlier)
      <4>1. i - 1 \in Int
        BY <1>2
      <4>2. IsFiniteSet(1 .. i - 1)
        BY <4>1, FS_Interval
      <4> HIDE DEF earlier
      <4>3. QED
        BY <3>1, <4>2, FS_Subset
    <3>3. QED
      BY <3>1, <3>2
  <2> DEFINE x == Max(earlier)
  <2>2. x \in earlier /\ \A y \in earlier : x >= y
    <3> HIDE DEF earlier
    <3>1. QED
      BY <1>7, <2>1, MaxIsLargest
  <2>3. PrevSet(w, muts, i) = IF muts[x].op = "set" THEN <<w, x>> ELSE None
    BY <1>7 DEF PrevSet
  <2> HIDE DEF x
  <2>4. x \in DOMAIN muts /\ x < i /\ muts[x].index = muts[i].index /\ x \in Nat
        /\ \A j \in DOMAIN muts : j < i /\ muts[j].index = muts[i].index => j <= x /\ j \in Nat
    BY <1>2, <2>2
  <2>5. Follows(w, i, m) <=> /\ m[1] = w /\ m[2] \in DOMAIN muts /\ m[2] < i
                             /\ muts[m[2]].op = "set" /\ muts[m[2]].index = muts[i].index
                             /\ ~\E j \in DOMAIN muts : m[2] < j /\ j < i /\ muts[j].index = muts[i].index
    BY <2>4 DEF Follows, muts
  <2>6. ASSUME m = <<w, x>>, muts[x].op = "set" PROVE Follows(w, i, m)
    BY <2>4, <2>5, <2>6
  <2>7. ASSUME Follows(w, i, m) PROVE m = <<w, x>> /\ muts[x].op = "set"
    <3>1. m[2] = x
      <4>1. m[2] <= x /\ ~(m[2] < x)
        BY <2>4, <2>5, <2>7
      <4>2. QED
        BY <1>5, <2>4, <4>1
    <3>2. QED
      BY <1>5, <2>5, <2>7, <3>1
  <2>8. QED
    BY <1>4, <2>3, <2>6, <2>7 DEF muts, w
<1>8. QED
  BY <1>6, <1>7

\* At most one mutation takes the place of m.
LEMMA OneFollows ==
  ASSUME Sound, NEW v \in Nat, v + 1 \in 1 .. Len(log), NEW m \in ValueMACs,
         NEW i \in DOMAIN log[v + 1].muts, NEW k \in DOMAIN log[v + 1].muts,
         Follows(v + 1, i, m), Follows(v + 1, k, m)
  PROVE  i = k
<1> DEFINE w == v + 1
           muts == log[w].muts
<1>0. log \in Seq(Patch) /\ Len(log) <= MaxVersion /\ v \in 0 .. Len(log) /\ w - 1 = v /\ w \in 1 .. Len(log)
  BY DEF Sound, ServerOK
<1>1. PICK n \in Nat : DOMAIN muts = 1 .. n
  BY <1>0, MutsDomain DEF Sound
<1>2. i \in Nat /\ k \in Nat
  BY <1>1
<1>3. m \in Content(v) => m[1] # w
  BY <1>0, ContentType DEF Content
<1> HIDE DEF w
<1>4. muts[i].index = muts[k].index
  BY <1>0, <1>3 DEF Follows, w
<1>5. ~(i < k)
  BY <1>0, <1>3, <1>4 DEF Follows, w
<1>6. ~(k < i)
  BY <1>0, <1>3, <1>4 DEF Follows, w
<1>7. QED
  BY <1>2, <1>5, <1>6

\* The first of some mutations.
LEMMA FirstMutation ==
  ASSUME ServerOK, NEW w \in 1 .. Len(log), NEW S \in SUBSET (DOMAIN log[w].muts), S # {}
  PROVE  \E i \in S : \A j \in S : ~(j < i)
<1>1. PICK n \in Nat : DOMAIN log[w].muts = 1 .. n
  BY MutsDomain
<1>2. S \in SUBSET (1 .. n)
  BY <1>1
<1>3. S \in SUBSET Int
  BY <1>2
<1>4. IsFiniteSet(S)
  <2>1. IsFiniteSet(1 .. n)
    BY FS_Interval
  <2>2. QED
    BY <1>2, <2>1, FS_Subset
<1>5. Min(S) \in S /\ \A x \in S : Min(S) <= x
  BY <1>3, <1>4, MinIsSmallest
<1> DEFINE i == Min(S)
<1>6. i \in S /\ i \in Int /\ \A j \in S : j \in Int /\ i <= j
  BY <1>3, <1>5
<1> HIDE DEF i
<1>7. \A j \in S : ~(j < i)
  BY <1>6
<1>8. QED
  BY <1>6, <1>7

\* Somebody takes the place of m just if m is no record any more.
LEMMA FollowedGone ==
  ASSUME Sound, NEW v \in Nat, v + 1 \in 1 .. Len(log), NEW m \in ValueMACs
  PROVE  /\ m \in Content(v) => ((\E i \in DOMAIN log[v + 1].muts : Follows(v + 1, i, m)) <=> m \notin Content(v + 1))
         /\ (m[1] = v + 1 /\ m[2] \in DOMAIN log[v + 1].muts /\ log[v + 1].muts[m[2]].op = "set") =>
              ((\E i \in DOMAIN log[v + 1].muts : Follows(v + 1, i, m)) <=> m \notin Content(v + 1))
         /\ m \in Content(v) => m[1] # v + 1
         /\ m \in Content(v + 1) => m \in Content(v) \/ (m[1] = v + 1 /\ m[2] \in DOMAIN log[v + 1].muts
                                                        /\ log[v + 1].muts[m[2]].op = "set")
<1> DEFINE w == v + 1
           muts == log[w].muts
<1>0. log \in Seq(Patch) /\ Len(log) <= MaxVersion /\ v \in 0 .. Len(log) /\ w - 1 = v /\ w \in 1 .. Len(log)
  BY DEF Sound, ServerOK
<1>1. PICK n \in Nat : DOMAIN muts = 1 .. n
  BY <1>0, MutsDomain DEF Sound
<1>2. m \in Content(v) => m[1] # w
  BY <1>0, ContentType DEF Content
<1>3. m = <<m[1], m[2]>> /\ m[1] \in Nat /\ m[2] \in Nat
  BY DEF ValueMACs
<1>4. m \in Content(w) <=> (m \in Content(v) /\ Untouched(log, w, m)) \/ LastSet(log, w, m)
  BY <1>0, NextContent DEF Content
<1> HIDE DEF w
<1>5. LastSet(log, w, m) <=> /\ m[1] = w /\ m[2] \in DOMAIN muts /\ muts[m[2]].op = "set"
                             /\ \A j \in DOMAIN muts : j > m[2] => muts[j].index # muts[m[2]].index
  <2>1. ASSUME LastSet(log, w, m)
        PROVE  /\ m[1] = w /\ m[2] \in DOMAIN muts /\ muts[m[2]].op = "set"
               /\ \A j \in DOMAIN muts : j > m[2] => muts[j].index # muts[m[2]].index
    <3>1. PICK i \in DOMAIN muts : /\ m = <<w, i>> /\ muts[i].op = "set"
                                   /\ \A j \in DOMAIN muts : j > i => muts[j].index # muts[i].index
      BY <2>1 DEF LastSet
    <3>2. m[1] = w /\ m[2] = i
      BY <3>1
    <3>3. QED
      BY <3>1, <3>2
  <2>2. ASSUME m[1] = w, m[2] \in DOMAIN muts, muts[m[2]].op = "set",
               \A j \in DOMAIN muts : j > m[2] => muts[j].index # muts[m[2]].index
        PROVE  LastSet(log, w, m)
    <3>1. m = <<w, m[2]>>
      BY <1>3, <2>2
    <3>2. QED
      BY <2>2, <3>1 DEF LastSet
  <2>3. QED
    BY <2>1, <2>2
<1>6. ASSUME m \in Content(v) PROVE (\E i \in DOMAIN muts : Follows(w, i, m)) <=> m \notin Content(w)
  <2>1. ASSUME NEW i \in DOMAIN muts, Follows(w, i, m) PROVE m \notin Content(w)
    <3>1. IndexAt(log, m) = muts[i].index
      BY <1>2, <1>6, <2>1 DEF Follows
    <3>2. QED
      BY <1>2, <1>4, <1>5, <1>6, <3>1 DEF Untouched
  <2>2. ASSUME m \notin Content(w) PROVE \E i \in DOMAIN muts : Follows(w, i, m)
    <3> DEFINE S == {i \in DOMAIN muts : muts[i].index = IndexAt(log, m)}
    <3>1. S # {} /\ S \in SUBSET (DOMAIN muts)
      BY <1>4, <1>6, <2>2 DEF Untouched
    <3>2. PICK i \in S : \A j \in S : ~(j < i)
      <4> HIDE DEF S
      <4>1. QED
        BY <1>0, <3>1, FirstMutation DEF Sound
    <3>3. Follows(w, i, m)
      BY <1>0, <1>6, <3>2 DEF Follows
    <3>4. QED
      BY <3>2, <3>3
  <2>3. QED
    BY <2>1, <2>2
<1>7. ASSUME m[1] = w, m[2] \in DOMAIN muts, muts[m[2]].op = "set"
      PROVE  (\E i \in DOMAIN muts : Follows(w, i, m)) <=> m \notin Content(w)
  <2>0. m \notin Content(v)
    BY <1>2, <1>7
  <2>1. ASSUME NEW i \in DOMAIN muts, Follows(w, i, m) PROVE m \notin Content(w)
    <3>1. m[2] < i /\ muts[m[2]].index = muts[i].index
      BY <1>0, <2>0, <2>1 DEF Follows
    <3>2. i > m[2]
      BY <1>1, <1>3, <3>1
    <3>3. QED
      BY <1>4, <1>5, <2>0, <3>1, <3>2
  <2>2. ASSUME m \notin Content(w) PROVE \E i \in DOMAIN muts : Follows(w, i, m)
    <3> DEFINE S == {i \in DOMAIN muts : i > m[2] /\ muts[i].index = muts[m[2]].index}
    <3>1. S # {} /\ S \in SUBSET (DOMAIN muts)
      BY <1>4, <1>5, <1>7, <2>2
    <3>2. PICK i \in S : \A j \in S : ~(j < i)
      <4> HIDE DEF S
      <4>1. QED
        BY <1>0, <3>1, FirstMutation DEF Sound
    <3>3. Follows(w, i, m)
      <4>1. m[2] < i
        BY <1>1, <1>3, <3>2
      <4>2. ASSUME NEW j \in DOMAIN muts, m[2] < j, j < i, muts[j].index = muts[i].index PROVE FALSE
        <5>1. j > m[2]
          BY <1>1, <1>3, <4>2
        <5>2. QED
          BY <3>2, <4>2, <5>1
      <4>3. QED
        BY <1>7, <3>2, <4>1, <4>2 DEF Follows
    <3>4. QED
      BY <3>2, <3>3
  <2>3. QED
    BY <2>1, <2>2
<1>8. m \in Content(w) => m \in Content(v) \/ (m[1] = w /\ m[2] \in DOMAIN muts /\ muts[m[2]].op = "set")
  BY <1>4, <1>5
<1>9. QED
  BY <1>2, <1>6, <1>7, <1>8 DEF w

\* validatePatch finds the hash of the records the patch makes, if the table is right.
LEMMA PatchHash ==
  ASSUME Sound, NEW v \in Nat, v + 1 \in 1 .. Len(log), Agree(macs, log, v, {}),
         NEW st, st.hash = HashOf(Content(v))
  PROVE  PatchState(st, v + 1).hash = HashOf(Content(v + 1))
<1> DEFINE w == v + 1
           muts == log[w].muts
           prev == [i \in DOMAIN muts |-> PrevSet(w, muts, i)]
           h == HashOf(Content(v))
<1>1. ASSUME NEW m \in ValueMACs
      PROVE  h[m] + (IF m[1] = w /\ m[2] \in DOMAIN muts /\ muts[m[2]].op = "set" THEN 1 ELSE 0)
                  - Cardinality({x \in DOMAIN muts : prev[x] = m})
               = IF m \in Content(w) THEN 1 ELSE 0
  <2> DEFINE S == {x \in DOMAIN muts : prev[x] = m}
             isSet == m[1] = w /\ m[2] \in DOMAIN muts /\ muts[m[2]].op = "set"
  <2>1. \A x \in DOMAIN muts : prev[x] = m <=> Follows(w, x, m)
    BY PrevFollows
  <2>2. \A x, y \in S : x = y
    BY <2>1, OneFollows
  <2>3. S # {} <=> \E i \in DOMAIN muts : Follows(w, i, m)
    BY <2>1
  <2>4. Cardinality(S) = IF S = {} THEN 0 ELSE 1
    <3>1. CASE S = {}
      BY <3>1, FS_EmptySet
    <3>2. CASE S # {}
      <4> HIDE DEF S
      <4>1. PICK x : S = {x}
        BY <2>2, <3>2
      <4>2. QED
        BY <3>2, <4>1, FS_Singleton
    <3>3. QED
      BY <3>1, <3>2
  <2>5. h[m] = IF m \in Content(v) THEN 1 ELSE 0
    BY DEF HashOf
  <2>6. /\ m \in Content(v) => (S # {} <=> m \notin Content(w))
        /\ isSet => (S # {} <=> m \notin Content(w))
        /\ m \in Content(v) => ~isSet
        /\ m \in Content(w) => m \in Content(v) \/ isSet
    <3> HIDE DEF S
    <3>1. QED
      BY <2>3, FollowedGone
  <2>7. m \notin Content(v) /\ ~isSet => S = {}
    <3>1. ASSUME NEW i \in DOMAIN muts, Follows(w, i, m), m \notin Content(v) PROVE isSet
      <4>1. w - 1 = v
        OBVIOUS
      <4>2. QED
        BY <3>1, <4>1 DEF Follows
    <3> HIDE DEF S, isSet
    <3>2. QED
      BY <2>3, <3>1
  <2> HIDE DEF S, h
  <2>8. h[m] + (IF isSet THEN 1 ELSE 0) - Cardinality(S) = IF m \in Content(w) THEN 1 ELSE 0
    <3> HIDE DEF isSet, w
    <3>1. CASE m \in Content(v)
      BY <2>4, <2>5, <2>6, <3>1
    <3>2. CASE m \notin Content(v) /\ isSet
      BY <2>4, <2>5, <2>6, <3>2
    <3>3. CASE m \notin Content(v) /\ ~isSet
      BY <2>4, <2>5, <2>6, <2>7, <3>3
    <3>4. QED
      BY <3>1, <3>2, <3>3
  <2>9. QED
    BY <2>8 DEF S, isSet
<1>2. PatchState(st, w).hash = updateHash(h, w, muts, prev)
  BY DEF PatchState
<1> HIDE DEF h, prev, muts, w
<1>3. updateHash(h, w, muts, prev) = HashOf(Content(w))
  BY <1>1 DEF updateHash, HashOf
<1>4. QED
  BY <1>2, <1>3 DEF w

-----------------------------------------------------------------------------
(***************************************************************************)
(* Somebody will fetch what is missing                                     *)
(***************************************************************************)

\* Until one of the mishaps that CaughtUpWhenIdle names:
Fine == harm \cap {"fault", "torn", "unlisted", "crossed"} = {} /\ ~raced

\* Where goroutine p may be: who holds appStateSyncLock is at work, who asks for a
\* snapshot has the empty state, and no fetch is both a full one and only a first one.
Placed(p, j, holder, crossing) ==
  /\ holder = p => j.pc \in {"read", "iq"} \cup Applying
  /\ j.want => j.pc = "iq" /\ (crossing \/ j.st = EmptyState)
  /\ j.pc \in {"lock", "read"} => ~(j.full /\ j.only)
AllPlaced == \A p \in Procs : Placed(p, job[p], lock, raced)

\* A key that was asked for is on its way or there, and only those that were asked for
\* are on their way.
KeysAsked == Fine => asked \subseteq requested /\ requested \ keys \subseteq asked

\* Goroutine p will come to version n of the log or ask for more: it is going to ask, or
\* it applies a list that ends there or that more follow.
Fetching(p, j, holder, n) ==
  \/ j.pc \in {"lock", "read"} /\ ~j.only
  \/ j.pc = "iq"
  \/ j.pc \in Applying /\ holder = p /\ (j.more \/ j.last = n)

\* The client is at the server's version, a notification will make it fetch, or a key
\* that it lacked will.
Reached ==
  \/ GetAppStateVersion.version = Len(log) \/ notify
  \/ asking \ keys # {} \/ asked # {}
Covered == Reached \/ \E p \in Procs : Fetching(p, job[p], lock, Len(log))
Coverage == Fine => Covered

\* The lock stays, or p gets it or gives it back.
LockMoves(p) == UNCHANGED lock \/ (lock = None /\ lock' = p) \/ (lock = p /\ lock' = None)

\* Goroutine p moves to a place where it may be, and if it was to fetch, it still is
\* or need not any more.
Moved(p, k) ==
  /\ Set(p, k) /\ LockMoves(p) /\ Placed(p, k, lock', raced')
  /\ Fine' /\ Fetching(p, job[p], lock, Len(log)) => Fetching(p, k, lock', Len(log)) \/ Reached'

LEMMA OthersPlaced ==
  ASSUME Sound, AllPlaced, NEW p \in Procs, NEW k, Set(p, k), LockMoves(p), raced => raced',
         Placed(p, k, lock', raced')
  PROVE  AllPlaced'
<1>1. job'[p] = k /\ \A q \in Procs : q # p => job'[q] = job[q]
  BY JobAfter
<1>2. ASSUME NEW q \in Procs, q # p PROVE Placed(q, job'[q], lock', raced')
  <2>1. lock' = q => lock = q
    BY <1>2, Procs_None DEF LockMoves
  <2>2. Placed(q, job[q], lock, raced)
    BY DEF AllPlaced
  <2>3. QED
    BY <1>1, <1>2, <2>1, <2>2 DEF Placed
<1>3. QED
  BY <1>1, <1>2 DEF AllPlaced

LEMMA OthersFetch ==
  ASSUME Sound, NEW p \in Procs, NEW k, Set(p, k), LockMoves(p), UNCHANGED log,
         NEW q \in Procs, q # p, Fetching(q, job[q], lock, Len(log))
  PROVE  Covered'
<1>1. job'[q] = job[q]
  BY JobAfter
<1>2. lock = q => lock' = q
  BY Procs_None DEF LockMoves
<1>3. Fetching(q, job'[q], lock', Len(log'))
  BY <1>1, <1>2 DEF Fetching
<1>4. QED
  BY <1>3 DEF Covered

LEMMA Passed ==
  ASSUME Sound, AllPlaced, Coverage, NEW p \in Procs, NEW k, Moved(p, k), UNCHANGED log,
         Fine' => Fine, raced => raced',
         Fine' /\ Reached => Covered'
  PROVE  AllPlaced' /\ Coverage'
<1>1. AllPlaced'
  BY OthersPlaced DEF Moved
<1>2. ASSUME Fine', Fetching(p, job[p], lock, Len(log)) PROVE Covered'
  <2>1. job'[p] = k
    BY JobAfter DEF Moved
  <2>2. Fetching(p, k, lock', Len(log')) \/ Reached'
    BY <1>2 DEF Moved
  <2>3. QED
    BY <2>1, <2>2 DEF Covered
<1>3. ASSUME Fine', NEW q \in Procs, q # p, Fetching(q, job[q], lock, Len(log)) PROVE Covered'
  BY <1>3, OthersFetch DEF Moved
<1>4. QED
  BY <1>1, <1>2, <1>3 DEF Coverage, Covered

\* What a fetch waits for stays.
LEMMA ReachedStays ==
  ASSUME UNCHANGED <<log, row, notify, keys, asked>>, asking \subseteq asking', Reached
  PROVE  Covered'
BY DEF Reached, Covered, GetAppStateVersion

LEMMA IdlePlaced ==
  ASSUME Sound, NEW p \in Procs, NEW r, Unlocked(p) \/ (UNCHANGED lock /\ lock # p)
  PROVE  LockMoves(p) /\ Placed(p, Idle, lock', r)
<1>1. LockMoves(p) /\ lock' # p
  BY Procs_None DEF LockMoves, Unlocked
<1>2. Idle.pc = "idle" /\ Idle.want = FALSE
  BY DEF Idle
<1>3. QED
  BY <1>1, <1>2 DEF Placed

\* How a goroutine goes on: with its list, with another one, or it is done.
LEMMA GoesOn ==
  ASSUME Sound, NEW p \in Procs, NEW j \in Job, GoOn(p, j), j.want = FALSE
  PROVE  \E k \in Job :
           /\ Set(p, k) /\ LockMoves(p) /\ Placed(p, k, lock', raced')
           /\ \/ k.pc = "validate" /\ k.more = j.more /\ k.last = j.last /\ UNCHANGED lock
              \/ k.pc = "iq"
              \/ (lock = p => ~j.more) /\ ~(j.st.version < j.last)
<1>1. j.out \subseteq ValueMACs /\ j.ev \subseteq ValueMACs /\ j.idx \in Indexes \cup {None}
  BY DEF Job
<1>2. CASE j.snap # 0 \/ j.st.version < j.last
  <2> DEFINE k == [j EXCEPT !.pc = "validate"]
  <2>1. Set(p, k) /\ UNCHANGED lock
    BY <1>2 DEF GoOn
  <2>2. k \in Job
    BY DEF Job, Steps
  <2>3. k.pc = "validate" /\ k.more = j.more /\ k.last = j.last /\ k.want = FALSE
    BY DEF Job
  <2> HIDE DEF k
  <2>4. Placed(p, k, lock', raced') /\ LockMoves(p)
    BY <2>1, <2>3 DEF Placed, LockMoves, Applying
  <2>5. QED
    BY <2>1, <2>2, <2>3, <2>4
<1>3. CASE ~(j.snap # 0 \/ j.st.version < j.last) /\ lock = p /\ j.more
  <2> DEFINE k == [j EXCEPT !.pc = "iq", !.out = {}, !.ev = Collected(j)]
  <2>1. Set(p, k) /\ UNCHANGED lock
    BY <1>3 DEF GoOn
  <2>2. Collected(j) \in SUBSET ValueMACs
    BY <1>1 DEF Collected
  <2>3. k \in Job
    BY <2>2 DEF Job, Steps
  <2>4. k.pc = "iq" /\ k.want = FALSE
    BY DEF Job
  <2> HIDE DEF k
  <2>5. Placed(p, k, lock', raced') /\ LockMoves(p)
    BY <2>1, <2>4 DEF Placed, LockMoves
  <2>6. QED
    BY <2>1, <2>3, <2>4, <2>5
<1>4. CASE ~(j.snap # 0 \/ j.st.version < j.last) /\ ~(lock = p /\ j.more)
  <2> DEFINE k == [Idle EXCEPT !.pc = "version", !.idx = j.idx]
  <2>1. Set(p, IF lock = p THEN Idle ELSE k) /\ Unlocked(p)
    BY <1>4 DEF GoOn
  <2>2. k \in Job
    BY <1>1, IdleType DEF Job, Steps
  <2>3. k.pc = "version" /\ k.want = FALSE
    BY DEF Idle
  <2> HIDE DEF k
  <2>4. LockMoves(p) /\ Placed(p, Idle, lock', raced') /\ lock' # p
    BY <2>1, IdlePlaced, Procs_None DEF Unlocked
  <2>5. Placed(p, k, lock', raced')
    BY <2>3, <2>4 DEF Placed
  <2>6. QED
    BY <1>4, <2>1, <2>2, <2>4, <2>5, IdleType
<1>5. QED
  BY <1>2, <1>3, <1>4

\* A goroutine that is not to fetch, and that nobody waits for.
LEMMA MovesAway ==
  ASSUME Sound, AllPlaced, Coverage, NEW p \in Procs, NEW k, Set(p, k), LockMoves(p),
         Placed(p, k, lock', raced'), ~Fetching(p, job[p], lock, Len(log)), UNCHANGED log,
         Fine' => Fine, raced => raced', Fine' /\ Reached => Covered'
  PROVE  AllPlaced' /\ Coverage'
<1>1. Moved(p, k)
  BY DEF Moved
<1>2. QED
  BY <1>1, Passed

\* A goroutine fails; what it leaves undone is a mishap, or a key will bring it back.
LEMMA Fell ==
  ASSUME Sound, AllPlaced, Coverage, NEW p \in Procs, NEW why, Abort(p, why), UNCHANGED log,
         Fine' => Fine, raced => raced', Fine' /\ Reached => Covered',
         Fine' /\ Fetching(p, job[p], lock, Len(log)) => Reached'
  PROVE  AllPlaced' /\ Coverage'
<1>1. Set(p, Idle) /\ Unlocked(p)
  BY DEF Abort
<1>2. Moved(p, Idle)
  BY <1>1, IdleType, IdlePlaced DEF Moved
<1>3. QED
  BY <1>2, Passed

-----------------------------------------------------------------------------
(***************************************************************************)
(* Each action leaves somebody to fetch                                    *)
(***************************************************************************)

LEMMA StartsCover ==
  ASSUME Sound, AllPlaced, Coverage, KeysAsked, Fine' => Fine, raced => raced', NEW p \in Procs,
         \/ Notified(p) \/ FullSync(p) \/ (\E k \in Keys : KeyShare(p, k)) \/ (\E i \in Own : SendAppState(p, i))
  PROVE  AllPlaced' /\ Coverage'
<1>1. job[p].pc = "idle" /\ UNCHANGED <<log, row, lock>>
  BY DEF Notified, FullSync, KeyShare, SendAppState, server, store
<1>2. ~Fetching(p, job[p], lock, Len(log)) /\ lock # p
  BY <1>1 DEF Fetching, AllPlaced, Placed, Applying
<1>3. LockMoves(p)
  BY <1>1 DEF LockMoves
<1>4. ASSUME NEW k \in Job, Set(p, k), k.pc \in {"lock", "version"}, k.want = FALSE, ~(k.full /\ k.only),
             Fine' /\ Reached => Covered'
      PROVE  AllPlaced' /\ Coverage'
  <2>1. Placed(p, k, lock', raced')
    BY <1>1, <1>2, <1>4 DEF Placed
  <2>2. QED
    BY <1>1, <1>2, <1>3, <1>4, <2>1, MovesAway
<1>5. ASSUME NEW k \in Job, Set(p, k), k.pc = "lock", ~k.only PROVE Covered'
  <2>1. job'[p] = k
    BY <1>5, JobAfter
  <2>2. QED
    BY <1>5, <2>1 DEF Covered, Fetching
<1>6. CASE Notified(p)
  <2> DEFINE k == [Idle EXCEPT !.pc = "lock"]
  <2>1. Set(p, k)
    BY <1>6 DEF Notified
  <2>2. k \in Job /\ k.pc = "lock" /\ k.want = FALSE /\ k.only = FALSE
    BY IdleType DEF Job, Steps, Idle
  <2> HIDE DEF k
  <2>3. QED
    BY <1>4, <1>5, <2>1, <2>2
<1>7. CASE FullSync(p)
  <2> DEFINE k == [Idle EXCEPT !.pc = "lock", !.full = TRUE]
  <2>1. Set(p, k)
    BY <1>7 DEF FullSync
  <2>2. k \in Job /\ k.pc = "lock" /\ k.want = FALSE /\ k.only = FALSE
    BY IdleType DEF Job, Steps, Idle
  <2> HIDE DEF k
  <2>3. QED
    BY <1>4, <1>5, <2>1, <2>2
<1>8. ASSUME NEW i \in Own, SendAppState(p, i) PROVE AllPlaced' /\ Coverage'
  <2> DEFINE k == [Idle EXCEPT !.pc = "version", !.idx = i, !.retry = TRUE]
  <2>1. Set(p, k) /\ UNCHANGED <<log, row, notify, keys, asked, asking>>
    BY <1>8 DEF SendAppState, server, store, keyring
  <2>2. k \in Job /\ k.pc = "version" /\ k.want = FALSE /\ k.only = FALSE
    BY IdleType, PatchesAssumption DEF Job, Steps, Idle
  <2> HIDE DEF k
  <2>3. Reached => Covered'
    BY <2>1, ReachedStays
  <2>4. QED
    BY <1>4, <2>1, <2>2, <2>3
<1>9. ASSUME NEW x \in Keys, KeyShare(p, x) PROVE AllPlaced' /\ Coverage'
  <2> DEFINE k == [Idle EXCEPT !.pc = "lock", !.only = OnlyIfNotSynced(x)]
  <2>1. /\ Set(p, k) /\ UNCHANGED <<log, row, notify, asking, requested>>
        /\ asked' = asked \ {x}
        /\ Fine' => /\ keys' = keys \cup {x}
                    /\ harm' = harm \cup (IF x \in asking \ (keys \cup requested) THEN {"crossed"} ELSE {})
    BY <1>9 DEF KeyShare, Fine, server, store
  <2>2. OnlyIfNotSynced(x) = (x \notin requested) /\ (x \notin requested) \in BOOLEAN
    BY DEF OnlyIfNotSynced
  <2>3. k \in Job /\ k.pc = "lock" /\ k.want = FALSE /\ k.full = FALSE /\ (k.only <=> x \notin requested)
    BY <2>2, IdleType DEF Job, Steps, Idle
  <2> HIDE DEF k
  <2>4. ASSUME Fine', Reached PROVE Covered'
    <3>1. CASE x \in requested
      BY <1>5, <2>1, <2>3, <3>1
    <3>2. CASE x \notin requested
      <4>1. x \notin asked
        BY <2>4, <3>2 DEF KeysAsked
      <4>2. x \notin asking \ keys
        BY <2>1, <2>4, <3>2 DEF Fine
      <4>3. asked' = asked /\ asking' \ keys' = asking \ keys
        BY <2>1, <2>4, <4>1, <4>2
      <4>4. GetAppStateVersion' = GetAppStateVersion
        BY <2>1 DEF GetAppStateVersion
      <4>5. Reached'
        BY <2>1, <2>4, <4>3, <4>4 DEF Reached
      <4>6. QED
        BY <4>5 DEF Covered
    <3>3. QED
      BY <3>1, <3>2
  <2>5. QED
    BY <1>4, <2>1, <2>3, <2>4
<1>10. QED
  BY <1>6, <1>7, <1>8, <1>9

LEMMA BeginCovers ==
  ASSUME Sound, AllPlaced, Coverage, Fine' => Fine, raced => raced', NEW p \in Procs, Begin(p)
  PROVE  AllPlaced' /\ Coverage'
<1> DEFINE k == [job[p] EXCEPT !.pc = "read"]
<1>1. /\ job[p].pc = "lock" /\ lock = None /\ lock' = p /\ Set(p, k)
      /\ UNCHANGED <<log, notify, keys, asked, asking>>
      /\ job[p].full \/ UNCHANGED row
  BY DEF Begin, Locked, server, keyring, store
<1>2. job[p] \in Job /\ Placed(p, job[p], lock, raced)
  BY DEF Sound, JobsOK, AllPlaced
<1>3. k \in Job /\ k.pc = "read" /\ k.full = job[p].full /\ k.only = job[p].only /\ k.want = job[p].want
  BY <1>2 DEF Job, Steps
<1> HIDE DEF k
<1>4. LockMoves(p)
  BY <1>1 DEF LockMoves
<1>5. Placed(p, k, lock', raced')
  BY <1>1, <1>2, <1>3 DEF Placed
<1>6. Moved(p, k)
  BY <1>1, <1>3, <1>4, <1>5 DEF Moved, Fetching, Applying
<1>7. ASSUME Reached PROVE Covered'
  <2>1. CASE job[p].full
    <3>1. job'[p] = k /\ ~k.only
      BY <1>1, <1>2, <1>3, <2>1, JobAfter DEF Placed
    <3>2. QED
      BY <1>3, <3>1 DEF Covered, Fetching
  <2>2. CASE UNCHANGED row
    BY <1>1, <1>7, <2>2, ReachedStays
  <2>3. QED
    BY <1>1, <2>1, <2>2
<1>8. QED
  BY <1>1, <1>6, <1>7, Passed

LEMMA ReadCovers ==
  ASSUME Sound, Calm, AllPlaced, Coverage, Fine' => Fine, raced => raced', NEW p \in Procs, Read(p)
  PROVE  AllPlaced' /\ Coverage'
<1> DEFINE st == GetAppStateVersion
           full == job[p].full \/ st.version = 0
           k == [job[p] EXCEPT !.pc = "iq", !.st = st, !.full = full, !.want = full]
<1>1. /\ job[p].pc = "read" /\ UNCHANGED <<log, row, notify, keys, asked, asking>>
      /\ \/ st.version # 0 /\ job[p].only /\ Set(p, Idle) /\ Unlocked(p)
         \/ Set(p, k) /\ UNCHANGED lock
  BY DEF Read, server, store, keyring
<1>2. job[p] \in Job /\ lock = p
  BY <1>1 DEF Sound, JobsOK, Fits
<1>3. Reached => Covered'
  BY <1>1, ReachedStays
<1>4. CASE job[p].only /\ Set(p, Idle) /\ Unlocked(p)
  <2>1. ~Fetching(p, job[p], lock, Len(log))
    BY <1>1, <1>4 DEF Fetching, Applying
  <2>2. LockMoves(p) /\ Placed(p, Idle, lock', raced')
    BY <1>4, IdlePlaced
  <2>3. QED
    BY <1>1, <1>3, <1>4, <2>1, <2>2, IdleType, MovesAway
<1>5. CASE Set(p, k) /\ UNCHANGED lock
  <2>1. full \in BOOLEAN /\ st \in HashState
    BY <1>2, RowVersion DEF Job
  <2>2. full => raced \/ st = EmptyState
    <3>1. ~raced /\ job[p].full => row = None
      BY <1>1 DEF Calm
    <3>2. st.version = 0 => row = None
      BY RowVersion
    <3>3. QED
      BY <3>1, <3>2, RowVersion
  <2> HIDE DEF full, st
  <2>3. k \in Job /\ k.pc = "iq" /\ k.st = st /\ k.want = full
    BY <1>2, <2>1 DEF Job, Steps
  <2>4. Set(p, k)
    BY <1>5
  <2> HIDE DEF k
  <2>5. Placed(p, k, lock', raced') /\ LockMoves(p)
    BY <1>2, <1>5, <2>2, <2>3 DEF Placed, LockMoves
  <2>6. Moved(p, k)
    BY <2>3, <2>4, <2>5 DEF Moved, Fetching
  <2>7. QED
    BY <1>1, <1>3, <2>6, Passed
<1>6. QED
  BY <1>1, <1>4, <1>5

LEMMA FetchIQCovers ==
  ASSUME Sound, Calm, AllPlaced, Coverage, Fine' => Fine, raced => raced', NEW p \in Procs, FetchIQ(p)
  PROVE  AllPlaced' /\ Coverage'
<1>1. job[p].pc = "iq" /\ UNCHANGED <<log, row, notify, keys, asked, asking>>
  BY DEF FetchIQ, server, store, keyring
<1>2. lock = p /\ Placed(p, job[p], lock, raced) /\ Len(log) \in Nat
  BY <1>1 DEF Sound, JobsOK, Fits, AllPlaced, ServerOK
<1>3. Reached => Covered'
  BY <1>1, ReachedStays
<1>4. CASE Abort(p, {}) /\ job[p].want /\ job[p].st # EmptyState
  <2>1. ~Fine'
    BY <1>2, <1>4 DEF Placed, Fine
  <2>2. QED
    BY <1>1, <1>3, <1>4, <2>1, Fell
<1>5. ASSUME NEW got \in Job, GoOn(p, got), got.st = job[p].st, got.want = FALSE,
             got.last <= Len(log), got.st.version <= got.last, got.more = (got.last < Len(log))
      PROVE  AllPlaced' /\ Coverage'
  <2>1. PICK k \in Job :
           /\ Set(p, k) /\ LockMoves(p) /\ Placed(p, k, lock', raced')
           /\ \/ k.pc = "validate" /\ k.more = got.more /\ k.last = got.last /\ UNCHANGED lock
              \/ k.pc = "iq"
              \/ (lock = p => ~got.more) /\ ~(got.st.version < got.last)
    BY <1>5, GoesOn
  <2>2. got.last \in Nat /\ got.st.version \in Nat
    BY Bounds DEF Job, HashState, Versions
  <2>3. ASSUME Fine' PROVE Fetching(p, k, lock', Len(log)) \/ Reached'
    <3>1. CASE k.pc = "validate" /\ k.more = got.more /\ k.last = got.last /\ UNCHANGED lock
      <4>1. got.last < Len(log) \/ got.last = Len(log)
        BY <1>2, <1>5, <2>2
      <4>2. k.more \/ k.last = Len(log)
        BY <1>5, <3>1, <4>1, Zenon
      <4>3. lock' = p
        BY <1>2, <3>1
      <4>4. QED
        BY <3>1, <4>2, <4>3 DEF Fetching, Applying
    <3>2. CASE k.pc = "iq"
      BY <3>2 DEF Fetching
    <3>3. CASE (lock = p => ~got.more) /\ ~(got.st.version < got.last)
      <4>1. got.st.version = Len(log)
        <5>1. ~(got.last < Len(log))
          BY <1>2, <1>5, <3>3, Zenon
        <5>2. QED
          BY <1>2, <1>5, <2>2, <3>3, <5>1
      <4>2. GetAppStateVersion = job[p].st
        BY <1>1, <2>3 DEF Calm, Fine
      <4>3. GetAppStateVersion' = GetAppStateVersion
        BY <1>1 DEF GetAppStateVersion
      <4>4. QED
        BY <1>1, <1>5, <4>1, <4>2, <4>3 DEF Reached
    <3>4. QED
      BY <2>1, <3>1, <3>2, <3>3
  <2>4. Moved(p, k)
    BY <2>1, <2>3 DEF Moved
  <2>5. QED
    BY <1>1, <1>3, <2>4, Passed
<1>6. QED
  BY <1>4, <1>5, Answer

\* A patch that is the next one verifies.
LEMMA Verified ==
  ASSUME Sound, Calm, Truth, ~raced, "torn" \notin harm, NEW p \in Procs, job[p].pc = "validate", job[p].snap = 0
  PROVE  Validates(PatchState(job[p].st, job[p].st.version + 1))
<1> DEFINE st == job[p].st
           v == st.version
<1>1. Honest /\ TableRight
  BY DEF Truth, Good
<1>2. GetAppStateVersion = st /\ ~MACsOpen
  BY DEF Calm
<1>3. Agree(macs, log, v, {})
  BY <1>1, <1>2 DEF TableRight
<1>4. v \in Nat /\ v + 1 \in 1 .. Len(log)
  <2>1. job[p] \in Job /\ Fits(p, job[p], log, lock) /\ Len(log) \in Nat
    BY DEF Sound, JobsOK, ServerOK
  <2>2. v \in Nat /\ job[p].last \in Nat
    BY <2>1, Bounds DEF Job, HashState, Versions
  <2>3. v < job[p].last /\ job[p].last <= Len(log)
    BY <2>1 DEF Fits
  <2>4. QED
    BY <2>1, <2>2, <2>3
<1>5. st.hash = HashOf(Content(v))
  <2>1. CASE row = None
    <3>1. st = EmptyState /\ Content(v) = {}
      BY <1>2, <2>1, RowVersion, NoContent DEF Content
    <3>2. QED
      BY <3>1 DEF EmptyState, EmptyHash, HashOf
  <2>2. CASE row # None
    <3>1. row = st /\ row.version \in 1 .. Len(log) /\ Vouched(log, row)
      BY <1>2, <2>2, RowVersion DEF Sound, StoreOK
    <3>2. QED
      BY <1>1, <3>1 DEF Vouched, Honest, Content
  <2>3. QED
    BY <2>1, <2>2
<1>6. PatchState(st, v + 1).hash = HashOf(Content(v + 1))
  <2> HIDE DEF st, v
  <2>1. QED
    BY <1>3, <1>4, <1>5, PatchHash
<1>7. PatchState(st, v + 1).version = v + 1
  BY DEF PatchState
<1>8. log[v + 1].hash = HashOf(Content(v + 1))
  BY <1>1, <1>4 DEF Honest, Content
<1> HIDE DEF st, v
<1>9. Validates(PatchState(st, v + 1))
  BY <1>6, <1>7, <1>8 DEF Validates
<1>10. QED
  BY <1>9 DEF st, v

LEMMA DecodeCovers ==
  ASSUME Sound, Calm, Truth, AllPlaced, Coverage, Fine' => Fine, raced => raced', NEW p \in Procs,
         DecodeSnapshot(p) \/ DecodePatch(p)
  PROVE  AllPlaced' /\ Coverage'
<1>1. job[p].pc = "validate" /\ UNCHANGED <<log, row, notify>>
  <2>1. CASE DecodeSnapshot(p)
    BY <2>1 DEF DecodeSnapshot, server, store
  <2>2. CASE DecodePatch(p)
    BY <2>2 DEF DecodePatch, server, store
  <2>3. QED
    BY <2>1, <2>2
<1>2. job[p] \in Job /\ Placed(p, job[p], lock, raced)
  BY DEF Sound, JobsOK, AllPlaced
<1>3. ASSUME NEW need, ~(need \subseteq keys), KeyNotFound(p, need) PROVE AllPlaced' /\ Coverage'
  <2> DEFINE ks == ListKeys(job[p])
  <2>1. /\ asking' = asking \cup ks /\ UNCHANGED <<keys, asked>>
        /\ Abort(p, IF need \subseteq keys \cup ks THEN {} ELSE {"unlisted"})
    BY <1>3 DEF KeyNotFound
  <2> HIDE DEF ks
  <2>2. Reached => Covered'
    BY <1>1, <2>1, ReachedStays
  <2>3. Fine' => Reached'
    <3>1. Fine' => need \subseteq keys \cup ks
      BY <2>1 DEF Fine, Abort
    <3>2. need \subseteq keys \cup ks => asking' \ keys' # {}
      BY <1>3, <2>1
    <3>3. QED
      BY <3>1, <3>2 DEF Reached
  <2>4. QED
    BY <1>1, <2>1, <2>2, <2>3, Fell
<1>4. ASSUME NEW s \in HashState, Set(p, [job[p] EXCEPT !.pc = "put", !.new = s]), UNCHANGED <<lock, keyring>>
      PROVE  AllPlaced' /\ Coverage'
  <2> DEFINE k == [job[p] EXCEPT !.pc = "put", !.new = s]
  <2>1. /\ k \in Job /\ k.pc = "put" /\ k.more = job[p].more /\ k.last = job[p].last /\ k.want = job[p].want
    BY <1>2, <1>4 DEF Job, Steps
  <2>2. Set(p, k) /\ UNCHANGED <<keys, asked, asking>>
    BY <1>4 DEF keyring
  <2> HIDE DEF k
  <2>3. Placed(p, k, lock', raced') /\ LockMoves(p)
    BY <1>1, <1>2, <1>4, <2>1 DEF Placed, LockMoves, Applying
  <2>4. Moved(p, k)
    BY <1>1, <1>4, <2>1, <2>2, <2>3 DEF Moved, Fetching, Applying
  <2>5. Reached => Covered'
    BY <1>1, <2>2, ReachedStays
  <2>6. QED
    BY <1>1, <2>4, <2>5, Passed
<1>5. CASE DecodeSnapshot(p)
  <2> DEFINE need == {log[job[p].snap].key} \cup {log[m[1]].rkey : m \in Content(job[p].snap)}
  <2>1. \/ ~(need \subseteq keys) /\ KeyNotFound(p, need)
        \/ Set(p, [job[p] EXCEPT !.pc = "put", !.new = SnapshotOf(job[p].snap)]) /\ UNCHANGED <<lock, keyring>>
    BY <1>5 DEF DecodeSnapshot
  <2>2. SnapshotOf(job[p].snap) \in HashState
    <3>1. job[p].snap \in Versions
      BY <1>2 DEF Job
    <3>2. QED
      BY <3>1, HashOfType DEF SnapshotOf, HashState
  <2> HIDE DEF need
  <2>3. QED
    BY <1>3, <1>4, <2>1, <2>2
<1>6. CASE DecodePatch(p)
  <2> DEFINE v == job[p].st.version + 1
             need == {log[v].key, log[v].rkey}
  <2>1. \/ job[p].snap = 0 /\ ~Validates(PatchState(job[p].st, v)) /\ Abort(p, {}) /\ UNCHANGED keyring
        \/ ~(need \subseteq keys) /\ KeyNotFound(p, need)
        \/ Set(p, [job[p] EXCEPT !.pc = "put", !.new = PatchState(job[p].st, v)]) /\ UNCHANGED <<lock, keyring>>
    BY <1>6 DEF DecodePatch
  <2>2. PatchState(job[p].st, v) \in HashState
    <3>1. job[p].snap = 0 /\ Fits(p, job[p], log, lock) /\ log \in Seq(Patch) /\ Len(log) \in Nat /\ Len(log) <= MaxVersion
      BY <1>6 DEF DecodePatch, Sound, JobsOK, ServerOK
    <3>2. job[p].st.version \in Nat /\ job[p].last \in Nat /\ job[p].st.hash \in Hash
      BY <1>2, Bounds DEF Job, HashState, Versions
    <3>3. job[p].st.version < job[p].last /\ job[p].last <= Len(log)
      BY <1>1, <3>1 DEF Fits
    <3>4. v \in 1 .. Len(log)
      BY <3>1, <3>2, <3>3
    <3>5. log[v].muts \in Muts /\ v \in Versions
      BY <3>1, <3>4, PatchType, Bounds DEF Versions
    <3>6. QED
      BY <3>2, <3>5, UpdateHashType DEF PatchState, HashState
  <2> HIDE DEF need
  <2>3. CASE job[p].snap = 0 /\ ~Validates(PatchState(job[p].st, v)) /\ Abort(p, {}) /\ UNCHANGED keyring
    <3>1. ~Fine'
      BY <1>1, <2>3, Verified DEF Fine
    <3>2. UNCHANGED <<keys, asked, asking>>
      BY <2>3 DEF keyring
    <3>3. Reached => Covered'
      BY <1>1, <3>2, ReachedStays
    <3>4. QED
      BY <1>1, <2>3, <3>1, <3>3, Fell
  <2> HIDE DEF v
  <2>4. QED
    BY <1>3, <1>4, <2>1, <2>2, <2>3
<1>7. QED
  BY <1>5, <1>6

\* A statement of storeMACs succeeds.  The last one of a list leaves the client at the
\* version the list ends with.
LEMMA StatementCovers ==
  ASSUME Sound, Shapes, Calm, AllPlaced, Coverage, Fine' => Fine, raced => raced', NEW p \in Procs,
         job[p].pc \in {"put", "del", "macs"}, ~raced => row' = job[p].new,
         UNCHANGED <<log, notify, keys, asked, asking>>,
         \/ Stored(p, job[p])
         \/ \E where \in {"del", "macs"} : Set(p, [job[p] EXCEPT !.pc = where]) /\ UNCHANGED lock
  PROVE  AllPlaced' /\ Coverage'
<1> DEFINE j == job[p]
<1>1. j \in Job /\ Placed(p, j, lock, raced) /\ Fits(p, j, log, lock)
  BY DEF Sound, JobsOK, AllPlaced
<1>2. j.new.version \in 1 .. Len(log) /\ j.st.version \in Nat /\ j.new.version > j.st.version /\ j.new # None
      /\ Len(log) \in Nat
  BY NewerState, States DEF Sound, ServerOK
<1>3. ASSUME Fine' PROVE GetAppStateVersion' = j.new
  <2>1. row' = j.new
    BY <1>3 DEF Fine
  <2>2. QED
    BY <1>2, <2>1 DEF GetAppStateVersion
<1>4. Fine' /\ Reached => Covered'
  <2>1. ASSUME Fine', GetAppStateVersion.version = Len(log) PROVE GetAppStateVersion'.version = Len(log)
    <3>1. CASE j.pc = "put"
      <4>1. GetAppStateVersion = j.st
        BY <2>1, <3>1 DEF Calm, Fine
      <4>2. QED
        BY <1>2, <2>1, <4>1
    <3>2. CASE j.pc \in {"del", "macs"}
      <4>1. row = j.new
        BY <2>1, <3>2 DEF Calm, Fine
      <4>2. GetAppStateVersion = j.new
        BY <1>2, <4>1 DEF GetAppStateVersion
      <4>3. QED
        BY <1>3, <2>1, <4>2
    <3>3. QED
      BY <3>1, <3>2
  <2>2. QED
    BY <2>1 DEF Reached, Covered
<1>5. ASSUME NEW where \in {"del", "macs"}, Set(p, [job[p] EXCEPT !.pc = where]), UNCHANGED lock
      PROVE  AllPlaced' /\ Coverage'
  <2> DEFINE k == [job[p] EXCEPT !.pc = where]
  <2>1. k \in Job /\ k.pc = where /\ k.more = j.more /\ k.last = j.last /\ k.want = j.want
    BY <1>1, <1>5 DEF Job, Steps
  <2>2. Set(p, k)
    BY <1>5
  <2> HIDE DEF k
  <2>3. Placed(p, k, lock', raced') /\ LockMoves(p)
    BY <1>1, <1>5, <2>1 DEF Placed, LockMoves, Applying
  <2>4. Moved(p, k)
    BY <1>5, <2>1, <2>2, <2>3 DEF Moved, Fetching, Applying
  <2>5. QED
    BY <1>4, <2>4, Passed
<1>6. CASE Stored(p, j)
  <2> DEFINE more == IF j.snap # 0 THEN Content(j.snap) ELSE SetsOf(j.new.version)
             g == [j EXCEPT !.st = j.new, !.new = EmptyState, !.snap = 0, !.out = j.out \cup more]
  <2>1. GoOn(p, g)
    BY <1>6 DEF Stored
  <2>2. more \subseteq ValueMACs
    <3>1. CASE j.snap # 0
      <4>1. j.snap \in 0 .. Len(log) /\ log \in Seq(Patch) /\ Len(log) <= MaxVersion
        BY <3>1, NewerState DEF Sound, ServerOK
      <4>2. Content(j.snap) \subseteq ValueMACs
        BY <4>1, ContentType DEF Content
      <4>3. QED
        BY <3>1, <4>2
    <3>2. CASE j.snap = 0
      BY <1>2, <3>2, SetsOfType DEF Sound
    <3>3. QED
      BY <3>1, <3>2
  <2> HIDE DEF more
  <2>3. g \in Job /\ g.st = j.new /\ g.more = j.more /\ g.last = j.last /\ g.want = j.want
    <3>1. j.out \cup more \in SUBSET ValueMACs /\ j.new \in HashState
      BY <1>1, <2>2 DEF Job
    <3>2. 0 \in Versions /\ EmptyState \in HashState
      BY EmptyStateType, Bounds DEF Versions
    <3>3. QED
      BY <1>1, <3>1, <3>2 DEF Job
  <2>4. g.want = FALSE
    <3>1. j.want \in BOOLEAN /\ ~j.want
      BY <1>1 DEF Placed, Job
    <3>2. QED
      BY <2>3, <3>1
  <2> HIDE DEF g
  <2>5. PICK k \in Job :
           /\ Set(p, k) /\ LockMoves(p) /\ Placed(p, k, lock', raced')
           /\ \/ k.pc = "validate" /\ k.more = g.more /\ k.last = g.last /\ UNCHANGED lock
              \/ k.pc = "iq"
              \/ (lock = p => ~g.more) /\ ~(g.st.version < g.last)
    BY <2>1, <2>3, <2>4, GoesOn
  <2>6. ASSUME Fine', Fetching(p, j, lock, Len(log)) PROVE Fetching(p, k, lock', Len(log)) \/ Reached'
    <3>1. lock = p /\ (j.more \/ j.last = Len(log))
      BY <2>6 DEF Fetching
    <3>2. CASE k.pc = "validate" /\ k.more = g.more /\ k.last = g.last /\ UNCHANGED lock
      BY <2>3, <3>1, <3>2 DEF Fetching, Applying
    <3>3. CASE k.pc = "iq"
      BY <3>3 DEF Fetching
    <3>4. CASE (lock = p => ~g.more) /\ ~(g.st.version < g.last)
      <4>1. j.last = Len(log) /\ ~(j.new.version < Len(log))
        BY <2>3, <3>1, <3>4
      <4>2. j.new.version = Len(log)
        BY <1>2, <4>1
      <4>3. QED
        BY <1>3, <2>6, <4>2 DEF Reached
    <3>5. QED
      BY <2>5, <3>2, <3>3, <3>4
  <2>7. Moved(p, k)
    BY <2>5, <2>6 DEF Moved
  <2>8. QED
    BY <1>4, <2>7, Passed
<1>7. QED
  BY <1>5, <1>6

LEMMA StatementsCover ==
  ASSUME Sound, Shapes, Calm, AllPlaced, Coverage, Fine' => Fine, raced => raced', NEW p \in Procs,
         PutVersion(p) \/ DeleteMACs(p) \/ PutMACs(p)
  PROVE  AllPlaced' /\ Coverage'
<1>1. CASE PutVersion(p)
  <2>1. /\ job[p].pc = "put" /\ row' = job[p].new /\ UNCHANGED <<log, notify, keys, asked, asking>>
        /\ \/ Stored(p, job[p])
           \/ Set(p, [job[p] EXCEPT !.pc = AfterPut(job[p])]) /\ UNCHANGED lock
    BY <1>1 DEF PutVersion, PutAppStateVersion, server, keyring
  <2>2. AfterPut(job[p]) \in {"del", "macs"}
    BY DEF AfterPut
  <2>3. QED
    BY <2>1, <2>2, StatementCovers
<1>2. CASE DeleteMACs(p)
  <2>1. /\ job[p].pc = "del" /\ UNCHANGED <<row, log, notify, keys, asked, asking>>
        /\ \/ Stored(p, job[p])
           \/ Set(p, [job[p] EXCEPT !.pc = "macs"]) /\ UNCHANGED lock
    BY <1>2 DEF DeleteMACs, server, keyring
  <2>2. ~raced => row' = job[p].new
    BY <2>1 DEF Calm
  <2>3. QED
    BY <2>1, <2>2, StatementCovers
<1>3. CASE PutMACs(p)
  <2>1. /\ job[p].pc = "macs" /\ UNCHANGED <<row, log, notify, keys, asked, asking>>
        /\ Stored(p, job[p]) \/ Abort(p, {"torn"})
    BY <1>3 DEF PutMACs, server, keyring
  <2>2. ~raced => row' = job[p].new
    BY <2>1 DEF Calm
  <2>3. CASE Stored(p, job[p])
    BY <2>1, <2>2, <2>3, StatementCovers
  <2>4. CASE Abort(p, {"torn"})
    <3>1. ~Fine'
      BY <2>4 DEF Abort, Fine
    <3>2. QED
      BY <2>1, <2>4, <3>1, Fell
  <2>5. QED
    BY <2>1, <2>3, <2>4
<1>4. QED
  BY <1>1, <1>2, <1>3

LEMMA FailsCovers ==
  ASSUME Sound, AllPlaced, Coverage, Fine' => Fine, raced => raced', NEW p \in Procs, Fails(p)
  PROVE  AllPlaced' /\ Coverage'
<1>1. UNCHANGED log
  BY DEF Fails, server
<1>2. PICK why : Abort(p, why) /\ "fault" \in why
  BY DEF Fails
<1>3. ~Fine'
  BY <1>2 DEF Abort, Fine
<1>4. QED
  BY <1>1, <1>2, <1>3, Fell

LEMMA SendersCover ==
  ASSUME Sound, AllPlaced, Coverage, Fine' => Fine, raced => raced', NEW p \in Procs,
         SendRead(p) \/ EncodePatch(p) \/ SendConflict(p) \/ SendRefused(p)
  PROVE  AllPlaced' /\ Coverage'
<1>1. /\ job[p].pc \in {"version", "encode", "send"}
      /\ UNCHANGED <<log, row, notify, lock, keys, asked, asking>>
  <2>1. CASE SendRead(p) \/ EncodePatch(p)
    BY <2>1 DEF SendRead, EncodePatch, server, store, keyring
  <2>2. CASE SendConflict(p) \/ SendRefused(p)
    BY <2>2 DEF SendConflict, SendRefused, server, store, keyring
  <2>3. QED
    BY <2>1, <2>2
<1>2. job[p] \in Job /\ Placed(p, job[p], lock, raced)
  BY DEF Sound, JobsOK, AllPlaced
<1>3. ~Fetching(p, job[p], lock, Len(log)) /\ lock' # p /\ LockMoves(p) /\ ~job[p].want
  BY <1>1, <1>2 DEF Fetching, Placed, Applying, LockMoves
<1>4. Reached => Covered'
  BY <1>1, ReachedStays
<1>5. ASSUME NEW k, Set(p, k), k.want = job[p].want \/ k.want = FALSE, k.pc \notin {"lock", "read"}
      PROVE  AllPlaced' /\ Coverage'
  <2>1. Placed(p, k, lock', raced')
    BY <1>3, <1>5 DEF Placed
  <2>2. QED
    BY <1>1, <1>3, <1>4, <1>5, <2>1, MovesAway
<1>6. Idle.want = FALSE /\ Idle.pc = "idle"
  BY DEF Idle
<1>7. CASE Set(p, Idle)
  BY <1>5, <1>6, <1>7
<1>8. CASE SendRead(p)
  <2> DEFINE k == [job[p] EXCEPT !.pc = "encode", !.st = GetAppStateVersion, !.key = Max(keys)]
  <2>1. Set(p, Idle) \/ Set(p, k)
    BY <1>8 DEF SendRead
  <2>2. k.want = job[p].want /\ k.pc = "encode"
    BY <1>2 DEF Job
  <2> HIDE DEF k
  <2>3. QED
    BY <1>5, <1>7, <2>1, <2>2
<1>9. CASE EncodePatch(p)
  <2> DEFINE h == updateHash(job[p].st.hash, job[p].st.version + 1, <<[op |-> "set", index |-> job[p].idx]>>,
                             <<GetAppStateMutationMAC(job[p].idx)>>)
             k == [job[p] EXCEPT !.pc = "send", !.new.hash = h]
  <2>1. Set(p, k)
    BY <1>9 DEF EncodePatch
  <2> HIDE DEF h
  <2>2. k.want = job[p].want /\ k.pc = "send"
    BY <1>2 DEF Job
  <2> HIDE DEF k
  <2>3. QED
    BY <1>5, <2>1, <2>2
<1>10. CASE SendConflict(p)
  <2> DEFINE k == [job[p] EXCEPT !.pc = "validate", !.new = EmptyState, !.key = 0, !.last = Len(log)]
  <2>1. Set(p, Idle) \/ Set(p, k)
    BY <1>10 DEF SendConflict
  <2>2. k.want = job[p].want /\ k.pc = "validate"
    BY <1>2 DEF Job
  <2> HIDE DEF k
  <2>3. QED
    BY <1>5, <1>7, <2>1, <2>2
<1>11. CASE SendRefused(p)
  BY <1>7, <1>11 DEF SendRefused
<1>12. QED
  BY <1>8, <1>9, <1>10, <1>11

\* A patch of this client: its sender fetches it back, unless the answer is lost.
LEMMA AcceptedCovers ==
  ASSUME Sound, AllPlaced, raced => raced', NEW p \in Procs, SendAccepted(p)
  PROVE  AllPlaced' /\ Coverage'
<1> DEFINE k == [Idle EXCEPT !.pc = "lock"]
<1>1. /\ job[p].pc = "send"
      /\ (Set(p, k) /\ UNCHANGED lock) \/ Abort(p, {"fault"})
  BY DEF SendAccepted
<1>2. lock # p
  BY <1>1 DEF AllPlaced, Placed, Applying
<1>3. k.pc = "lock" /\ k.want = FALSE /\ k.only = FALSE
  BY DEF Idle
<1> HIDE DEF k
<1>4. CASE Set(p, k) /\ UNCHANGED lock
  <2>1. Placed(p, k, lock', raced') /\ LockMoves(p)
    BY <1>2, <1>3, <1>4 DEF Placed, LockMoves
  <2>2. AllPlaced'
    BY <1>4, <2>1, OthersPlaced
  <2>3. Covered'
    <3>1. job'[p] = k
      BY <1>4, JobAfter
    <3>2. QED
      BY <1>3, <3>1 DEF Covered, Fetching
  <2>4. QED
    BY <2>2, <2>3 DEF Coverage
<1>5. CASE Abort(p, {"fault"})
  <2>1. Set(p, Idle) /\ Unlocked(p) /\ ~Fine'
    BY <1>5 DEF Abort, Fine
  <2>2. AllPlaced'
    BY <2>1, IdlePlaced, OthersPlaced
  <2>3. QED
    BY <2>1, <2>2 DEF Coverage
<1>6. QED
  BY <1>1, <1>4, <1>5

\* Steps that move no goroutine.
LEMMA StayPlaced == ASSUME AllPlaced, UNCHANGED <<job, lock>>, raced => raced' PROVE AllPlaced'
BY DEF AllPlaced, Placed

LEMMA StayCovered ==
  ASSUME Coverage, UNCHANGED <<job, lock, log>>, Fine' => Fine, Fine' /\ Reached => Covered'
  PROVE  Coverage'
BY DEF Coverage, Covered

LEMMA PushCovers ==
  ASSUME AllPlaced, raced => raced', NEW s \in Patches, Push(s)
  PROVE  AllPlaced' /\ Coverage'
<1>1. UNCHANGED <<job, lock>> /\ notify' = TRUE
  BY DEF Push
<1>2. QED
  BY <1>1, StayPlaced DEF Coverage, Covered, Reached

LEMMA CrashCovers ==
  ASSUME Crash
  PROVE  AllPlaced' /\ Coverage'
<1>1. job' = [p \in Procs |-> Idle] /\ lock' = None /\ "fault" \in harm'
  BY DEF Crash
<1>2. Idle.pc = "idle" /\ Idle.want = FALSE
  BY DEF Idle
<1>3. ASSUME NEW p \in Procs PROVE Placed(p, job'[p], lock', raced')
  <2>1. job'[p] = Idle /\ lock' # p
    BY <1>1, Procs_None
  <2>2. QED
    BY <1>2, <2>1 DEF Placed
<1>4. QED
  BY <1>1, <1>3 DEF AllPlaced, Coverage, Fine

\* Keys that lists lacked are asked for, or were before.
LEMMA RequestCovers ==
  ASSUME AllPlaced, Coverage, KeysAsked, Fine' => Fine, raced => raced', RequestKeys
  PROVE  AllPlaced' /\ Coverage'
<1> DEFINE missing == (asking \ keys) \ requested
<1>1. /\ UNCHANGED <<log, row, notify, keys, job, lock>>
      /\ asked' = asked \cup missing \/ "fault" \in harm'
  BY DEF RequestKeys, server, store
<1>2. ASSUME Fine', Reached PROVE Covered'
  <2>1. asked' = asked \cup missing /\ requested \ keys \subseteq asked
    BY <1>1, <1>2 DEF Fine, KeysAsked
  <2>2. asking \ keys # {} => asked' # {}
    BY <2>1
  <2>3. GetAppStateVersion' = GetAppStateVersion
    BY <1>1 DEF GetAppStateVersion
  <2>4. Reached'
    BY <1>1, <1>2, <2>1, <2>2, <2>3 DEF Reached
  <2>5. QED
    BY <2>4 DEF Covered
<1>3. QED
  BY <1>1, <1>2, StayPlaced, StayCovered

\* The phone's copy replaces the collection only while the client is behind.
LEMMA RecoveryCovers ==
  ASSUME Sound, Calm, AllPlaced, Coverage, Fine' => Fine, raced => raced', Recovers
  PROVE  AllPlaced' /\ Coverage'
<1>1. UNCHANGED <<log, notify, keys, asked, asking, job, lock>>
  BY DEF Recovers, RecoveryDelete, RecoveryPut, RecoveryMACs, RecoveryFails, Recovery, server, keyring
<1>2. UNCHANGED row \/ rec.pc \in {"del", "put"}
  BY DEF Recovers, RecoveryDelete, RecoveryPut, RecoveryMACs, RecoveryFails, Recovery, store
<1>3. ASSUME Fine', Reached PROVE Covered'
  <2>1. CASE UNCHANGED row
    BY <1>1, <1>3, <2>1, ReachedStays
  <2>2. CASE rec.pc \in {"del", "put"}
    <3>1. rec.version \in 1 .. Len(log) /\ Len(log) \in Nat
      BY <2>2 DEF Sound, RecoveryOK, ServerOK
    <3>2. rec.pc = "del" => ~(GetAppStateVersion.version >= rec.version)
      BY <1>3 DEF Calm, Fine
    <3>3. rec.pc = "put" => GetAppStateVersion.version = 0
      BY <1>3, RowVersion DEF Calm, Fine
    <3>4. GetAppStateVersion.version # Len(log)
      BY <2>2, <3>1, <3>2, <3>3
    <3>5. Reached'
      BY <1>1, <1>3, <3>4 DEF Reached
    <3>6. QED
      BY <3>5 DEF Covered
  <2>3. QED
    BY <1>2, <2>1, <2>2
<1>4. QED
  BY <1>1, <1>3, StayPlaced, StayCovered

LEMMA KeysAskedStep ==
  ASSUME KeysAsked, Fine' => Fine, [Next]_vars
  PROVE  KeysAsked'
<1> SUFFICES ASSUME Fine' PROVE asked' \subseteq requested' /\ requested' \ keys' \subseteq asked'
  BY DEF KeysAsked
<1>0. asked \subseteq requested /\ requested \ keys \subseteq asked
  BY DEF KeysAsked
<1>1. ASSUME UNCHANGED <<keys, requested, asked>>
      PROVE  asked' \subseteq requested' /\ requested' \ keys' \subseteq asked'
  BY <1>0, <1>1
<1>2. ASSUME NEW p \in Procs, Step(p) \/ Notified(p) \/ FullSync(p) \/ Fails(p)
      PROVE  UNCHANGED <<keys, requested, asked>>
  <2>1. CASE Begin(p) \/ Read(p) \/ PutVersion(p) \/ DeleteMACs(p)
    BY <2>1 DEF Begin, Read, PutVersion, DeleteMACs, keyring
  <2>2. CASE FetchIQ(p)
    BY <2>2 DEF FetchIQ, keyring
  <2>3. CASE DecodeSnapshot(p)
    BY <2>3 DEF DecodeSnapshot, KeyNotFound, keyring
  <2>4. CASE DecodePatch(p)
    BY <2>4 DEF DecodePatch, KeyNotFound, keyring
  <2>5. CASE PutMACs(p) \/ Fails(p)
    BY <2>5 DEF PutMACs, Fails, keyring
  <2>6. CASE SendRead(p) \/ EncodePatch(p) \/ SendConflict(p) \/ SendRefused(p)
    BY <2>6 DEF SendRead, EncodePatch, SendConflict, SendRefused, keyring
  <2>7. CASE SendAccepted(p)
    BY <2>7 DEF SendAccepted, keyring
  <2>8. CASE Notified(p) \/ FullSync(p)
    BY <2>8 DEF Notified, FullSync, keyring
  <2>9. QED
    BY <1>2, <2>1, <2>2, <2>3, <2>4, <2>5, <2>6, <2>7, <2>8 DEF Step
<1>3. ASSUME NEW p \in Procs, NEW k \in Keys, KeyShare(p, k)
      PROVE  asked' \subseteq requested' /\ requested' \ keys' \subseteq asked'
  <2>1. keys' = keys \cup {k} /\ asked' = asked \ {k} /\ UNCHANGED requested
    BY <1>3 DEF KeyShare, Fine
  <2>2. QED
    BY <1>0, <2>1
<1>4. CASE RequestKeys
  <2> DEFINE missing == (asking \ keys) \ requested
  <2>1. requested' = requested \cup missing /\ asked' = asked \cup missing /\ UNCHANGED keys
    BY <1>4 DEF RequestKeys, Fine
  <2> HIDE DEF missing
  <2>2. QED
    BY <1>0, <2>1
<1>5. CASE Recovers \/ UNCHANGED vars
  <2>1. CASE Recovers
    BY <1>1, <2>1 DEF Recovers, RecoveryDelete, RecoveryPut, RecoveryMACs, RecoveryFails, Recovery, keyring
  <2>2. CASE UNCHANGED vars
    BY <1>1, <2>2 DEF vars
  <2>3. QED
    BY <1>5, <2>1, <2>2
<1>6. CASE Crash
  BY <1>6 DEF Crash, Fine
<1>7. ASSUME NEW p \in Procs, NEW i \in Own, SendAppState(p, i) PROVE UNCHANGED <<keys, requested, asked>>
  BY <1>7 DEF SendAppState, keyring
<1>8. ASSUME NEW s \in Patches, Push(s) PROVE UNCHANGED <<keys, requested, asked>>
  BY <1>8 DEF Push, keyring
<1>9. QED
  BY <1>1, <1>2, <1>3, <1>4, <1>5, <1>6, <1>7, <1>8 DEF Next, Recovers

LEMMA CoverageStep ==
  ASSUME Sound, Shapes, Calm, Truth, AllPlaced, Coverage, KeysAsked, Fine' => Fine, raced => raced', [Next]_vars
  PROVE  AllPlaced' /\ Coverage'
<1>1. ASSUME NEW p \in Procs, Step(p) \/ Notified(p) \/ FullSync(p) \/ Fails(p) PROVE AllPlaced' /\ Coverage'
  <2>1. CASE Begin(p)
    BY <2>1, BeginCovers
  <2>2. CASE Read(p)
    BY <2>2, ReadCovers
  <2>3. CASE FetchIQ(p)
    BY <2>3, FetchIQCovers
  <2>4. CASE DecodeSnapshot(p) \/ DecodePatch(p)
    BY <2>4, DecodeCovers
  <2>5. CASE PutVersion(p) \/ DeleteMACs(p) \/ PutMACs(p)
    BY <2>5, StatementsCover
  <2>6. CASE SendRead(p) \/ EncodePatch(p) \/ SendConflict(p) \/ SendRefused(p)
    BY <2>6, SendersCover
  <2>7. CASE SendAccepted(p)
    BY <2>7, AcceptedCovers
  <2>8. CASE Fails(p)
    BY <2>8, FailsCovers
  <2>9. CASE Notified(p) \/ FullSync(p)
    BY <2>9, StartsCover
  <2>10. QED
    BY <1>1, <2>1, <2>2, <2>3, <2>4, <2>5, <2>6, <2>7, <2>8, <2>9 DEF Step
<1>2. ASSUME NEW p \in Procs, (\E k \in Keys : KeyShare(p, k)) \/ (\E i \in Own : SendAppState(p, i))
      PROVE  AllPlaced' /\ Coverage'
  BY <1>2, StartsCover
<1>3. ASSUME NEW s \in Patches, Push(s) PROVE AllPlaced' /\ Coverage'
  BY <1>3, PushCovers
<1>4. CASE RequestKeys
  BY <1>4, RequestCovers
<1>5. CASE Recovers
  BY <1>5, RecoveryCovers
<1>6. CASE Crash
  BY <1>6, CrashCovers
<1>7. CASE UNCHANGED vars
  <2>1. UNCHANGED <<log, row, notify, keys, asked, asking, job, lock>>
    BY <1>7 DEF vars
  <2>2. Reached => Covered'
    BY <2>1, ReachedStays
  <2>3. QED
    BY <2>1, <2>2, StayPlaced, StayCovered
<1>8. QED
  BY <1>1, <1>2, <1>3, <1>4, <1>5, <1>6, <1>7 DEF Next, Recovers

\* The invariant of the fetches.
Attentive == AllPlaced /\ KeysAsked /\ Coverage

LEMMA AttentiveInit == Init => Attentive
<1> SUFFICES ASSUME Init PROVE Attentive
  OBVIOUS
<1>1. /\ log = <<>> /\ row = None /\ lock = None /\ requested = {} /\ asked = {}
      /\ \A p \in Procs : job[p].pc = "idle" /\ job[p].want = FALSE
  BY DEF Init, Idle
<1>2. AllPlaced
  BY <1>1, Procs_None DEF AllPlaced, Placed
<1>3. KeysAsked
  BY <1>1 DEF KeysAsked
<1>4. Coverage
  BY <1>1, EmptyStateType DEF Coverage, Covered, Reached, GetAppStateVersion
<1>5. QED
  BY <1>2, <1>3, <1>4 DEF Attentive

LEMMA AttentiveAlways == Spec => [](Faithful /\ Attentive)
<1>1. ASSUME Faithful, Attentive, [Next]_vars PROVE Attentive'
  <2>1. Sound /\ Shapes /\ Calm /\ Truth
    BY <1>1 DEF Faithful
  <2>2. (Fine' => Fine) /\ (raced => raced')
    <3>1. harm \subseteq harm' /\ (~raced' => ~raced)
      BY <1>1, <2>1, CalmStep
    <3>2. QED
      BY <3>1 DEF Fine
  <2>3. AllPlaced /\ KeysAsked /\ Coverage
    BY <1>1 DEF Attentive
  <2>4. KeysAsked'
    BY <1>1, <2>2, <2>3, KeysAskedStep
  <2>5. AllPlaced' /\ Coverage'
    BY <1>1, <2>1, <2>2, <2>3, CoverageStep
  <2>6. QED
    BY <2>4, <2>5 DEF Attentive
<1>2. QED
  BY <1>1, AttentiveInit, FaithfulAlways, PTL DEF Spec

\* A client that has nothing left to do holds no lock and, unless one of the mishaps that
\* CaughtUpWhenIdle names stopped it, is at the server's version, whatever fetches, sends,
\* key shares and recoveries came in between: as long as it is behind, a notification is
\* on its way, a goroutine is fetching up to the last patch, or a key that a fetch lacked
\* is to be asked for or on its way.  The patches it is given verify, so no fetch ends early.
THEOREM ClientCatchesUp == Spec => []CaughtUpWhenIdle
<1>1. Faithful /\ Attentive => CaughtUpWhenIdle
  <2> SUFFICES ASSUME Faithful, Attentive, ~notify, asking = {}, asked = {}, \A p \in Procs : job[p].pc = "idle"
               PROVE  lock = None /\ (~Fine \/ GetAppStateVersion.version = Len(log))
    BY DEF CaughtUpWhenIdle, Fine
  <2>1. lock = None
    <3>1. lock \in Procs \cup {None}
      BY DEF Faithful, Sound, LockOK
    <3>2. ASSUME NEW p \in Procs, lock = p PROVE FALSE
      BY <3>2 DEF Attentive, AllPlaced, Placed, Applying
    <3>3. QED
      BY <3>1, <3>2
  <2>2. ASSUME Fine PROVE GetAppStateVersion.version = Len(log)
    <3>1. Covered
      BY <2>2 DEF Attentive, Coverage
    <3>2. \A p \in Procs : ~Fetching(p, job[p], lock, Len(log))
      BY DEF Fetching, Applying
    <3>3. QED
      BY <3>1, <3>2 DEF Covered, Reached
  <2>3. QED
    BY <2>1, <2>2
<1>2. QED
  BY <1>1, AttentiveAlways, PTL

=============================================================================
