---------------------------- MODULE SignalProofs ----------------------------
(***************************************************************************)
(* Proofs about Signal: its types, that a row is marked only for a key the *)
(* server took, that a prekey has one owner, that the prekeys in other     *)
(* hands can still be used, that no message is lost and that the handlers  *)
(* get it once, but for what mishap, redone, failed, raced and wiped name. *)
(***************************************************************************)
EXTENDS Signal, FiniteMaxima

-----------------------------------------------------------------------------
(***************************************************************************)
(* Types                                                                   *)
(***************************************************************************)

Rows == [id : 1..MaxKeys, pair : 1..MaxKeys, up : BOOLEAN]
Uploads == [pc : {"idle", "count", "lock", "send", "mark"}, first : BOOLEAN, keys : SUBSET Keys]
Envelopes == [p : Peers, n : Nat, s : Sessions, count : Nat]
Later == {"txn", "store", "remove", "handle", "clear", "wait"}
Jobs == [pc : {"idle", "decrypt"} \cup Later, e : Envelopes \cup {NoEnvelope}]
Tasks == [kind : {"ack", "count", "send"}, e : Envelopes, count : Nat, key : Keys \cup {NoKey}]
Receipts == [p : Peers, count : Nat, key : Keys \cup {NoKey}]

\* A goroutine has the upload lock.
Doing(u) == upload[u].pc \in {"send", "mark"}

\* Ids and key pairs are unique in the table, and ids run behind the key pairs.
TableOK ==
  /\ rows \subseteq Rows /\ pairs \in 0..MaxKeys
  /\ \A q, r \in rows : q.id = r.id \/ q.pair = r.pair => q = r
  /\ \A r \in rows : r.id <= r.pair /\ r.pair <= pairs

\* One upload at a time, and only that one has keys.
UploadsOK ==
  /\ upload \in [Uploaders -> Uploads]
  /\ \A u \in Uploaders : IF Doing(u) THEN upload[u].keys # {} ELSE upload[u].keys = {}
  /\ \A u \in Uploaders : \A k \in upload[u].keys : k.pair <= pairs
  /\ \A u, v \in Uploaders : Doing(u) /\ Doing(v) => u = v

WireOK ==
  /\ pool \subseteq Keys /\ sent \in [Peers -> Nat] /\ session \in [Peers -> Sessions]
  /\ inbox \subseteq Envelopes /\ receipts \subseteq Receipts /\ asked \subseteq Peers
  /\ \A e \in inbox : e.n \in 1..sent[e.p]

WorkOK ==
  /\ conn \in Slots /\ job \in [Slots -> Jobs]
  /\ \A l \in Slots : job[l].pc # "idle" => job[l].e \in Envelopes
  /\ tasks \subseteq Tasks /\ retries \in [Peers -> Nat]

RestOK ==
  /\ mode \in Modes /\ recent \in BOOLEAN /\ handled \in [Peers -> Nat]
  /\ plain \cap cleared = {} /\ faults \in Nat

Typed == TableOK /\ UploadsOK /\ WireOK /\ WorkOK /\ RestOK

-----------------------------------------------------------------------------
(***************************************************************************)
(* The prekey table                                                        *)
(***************************************************************************)

\* The next id is larger than every stored one, and not larger than the next key pair.
LEMMA NextID ==
  ASSUME TableOK
  PROVE  /\ getNextPreKeyID \in 1..(pairs + 1)
         /\ \A r \in rows : r.id < getNextPreKeyID
<1> DEFINE ids == {r.id : r \in rows}
<1>1. \A r \in rows : r.id \in 1..MaxKeys /\ r.pair \in 1..MaxKeys /\ r.id <= pairs /\ pairs \in Nat
  BY SignalAssumption DEF TableOK, Rows
<1>2. CASE rows = {}
  BY <1>2 DEF getNextPreKeyID, TableOK
<1>3. CASE rows # {}
  <2>1. ids \in SUBSET Int /\ ids # {} /\ ids \subseteq 1..MaxKeys /\ 1 \in Int /\ MaxKeys \in Int
    BY <1>1, <1>3, SignalAssumption
  <2>2. IsFiniteSet(1..MaxKeys)
    BY <2>1, FS_Interval
  <2>3. IsFiniteSet(ids)
    BY <2>1, <2>2, FS_Subset
  <2>4. Max(ids) \in ids /\ \A x \in ids : Max(ids) >= x
    <3> HIDE DEF ids
    <3> QED
      BY <2>1, <2>3, MaxIsLargest
  <2>5. getNextPreKeyID = Max(ids) + 1
    BY <1>3 DEF getNextPreKeyID
  <2>6. PICK q \in rows : Max(ids) = q.id
    BY <2>4
  <2>7. \A r \in rows : Max(ids) >= r.id
    BY <2>4
  <2>8. QED
    <3> HIDE DEF ids
    <3> QED
      BY <1>1, <2>5, <2>6, <2>7
<1>4. QED
  BY <1>2, <1>3

\* What Generate adds: rows with new ids and new key pairs.
LEMMA NewRowsOK ==
  ASSUME TableOK, NEW n \in Nat, NEW up \in BOOLEAN, pairs + n <= MaxKeys
  PROVE  /\ NewRows(n, up) \subseteq Rows
         /\ \A q \in NewRows(n, up) : /\ q.id <= q.pair /\ q.pair > pairs /\ q.pair <= pairs + n
                                      /\ q.up = up
                                      /\ \A r \in rows : r.id < q.id /\ r.pair < q.pair
         /\ \A q, r \in NewRows(n, up) : q.id = r.id \/ q.pair = r.pair => q = r
<1> DEFINE next == getNextPreKeyID
           new(i) == [id |-> next + i, pair |-> pairs + 1 + i, up |-> up]
<1>1. pairs \in Nat /\ MaxKeys \in Nat /\ next \in 1..(pairs + 1) /\ \A r \in rows : r.id < next
  BY NextID, SignalAssumption DEF TableOK
<1>2. \A r \in rows : r.id \in Nat /\ r.pair \in Nat /\ r.pair <= pairs
  BY DEF TableOK, Rows
<1> HIDE DEF next
<1>3. ASSUME NEW i \in 0..(n - 1)
      PROVE  /\ new(i) \in Rows /\ new(i).id = next + i /\ new(i).pair = pairs + 1 + i
             /\ new(i).up = up
             /\ next + i <= pairs + 1 + i /\ pairs + 1 + i > pairs /\ pairs + 1 + i <= pairs + n
             /\ \A r \in rows : r.id < next + i /\ r.pair < pairs + 1 + i
  <2>1. i \in Nat /\ i <= n - 1
    OBVIOUS
  <2>2. next + i \in 1..MaxKeys /\ pairs + 1 + i \in 1..MaxKeys
    BY <1>1, <2>1
  <2>3. new(i) \in Rows
    BY <2>2 DEF Rows
  <2>4. \A r \in rows : r.id < next + i /\ r.pair < pairs + 1 + i
    BY <1>1, <1>2, <2>1
  <2>5. QED
    BY <1>1, <2>1, <2>3, <2>4
<1>4. NewRows(n, up) = {new(i) : i \in 0..(n - 1)}
  BY DEF NewRows, next
<1>5. ASSUME NEW q \in NewRows(n, up), NEW r \in NewRows(n, up), q.id = r.id \/ q.pair = r.pair
      PROVE  q = r
  <2>1. PICK i \in 0..(n - 1) : q = new(i)
    BY <1>4
  <2>2. PICK j \in 0..(n - 1) : r = new(j)
    BY <1>4
  <2>3. i \in Int /\ j \in Int /\ (next + i = next + j \/ pairs + 1 + i = pairs + 1 + j)
    BY <1>3, <1>5, <2>1, <2>2
  <2>4. i = j
    BY <1>1, <2>3
  <2>5. QED
    BY <2>1, <2>2, <2>4
<1>6. QED
  <2> HIDE DEF new
  <2> QED
    BY <1>3, <1>4, <1>5

\* Generate keeps the table in order.
LEMMA Generated ==
  ASSUME TableOK, NEW n \in Nat, NEW up \in BOOLEAN, Generate(n, up)
  PROVE  TableOK'
<1>1. pairs + n <= MaxKeys /\ rows' = rows \cup NewRows(n, up) /\ pairs' = pairs + n
  BY DEF Generate
<1>2. pairs \in Nat /\ pairs' \in 0..MaxKeys /\ pairs <= pairs'
  BY <1>1, SignalAssumption DEF TableOK
<1>3. rows' \subseteq Rows
  BY <1>1, NewRowsOK DEF TableOK
<1>4. ASSUME NEW q \in rows', NEW r \in rows', q.id = r.id \/ q.pair = r.pair PROVE q = r
  <2>1. \A x \in rows' : x.id \in Int /\ x.pair \in Int
    BY <1>3 DEF Rows
  <2>2. \A x \in rows, y \in NewRows(n, up) : x.id # y.id /\ x.pair # y.pair
    BY <1>1, <2>1, NewRowsOK
  <2>3. QED
    BY <1>1, <1>4, <2>2, NewRowsOK DEF TableOK
<1>5. ASSUME NEW r \in rows' PROVE r.id <= r.pair /\ r.pair <= pairs'
  <2>1. r.id \in Int /\ r.pair \in Int
    BY <1>3 DEF Rows
  <2>2. CASE r \in rows
    BY <1>2, <2>1, <2>2 DEF TableOK
  <2>3. CASE r \in NewRows(n, up)
    BY <1>1, <2>1, <2>3, NewRowsOK
  <2>4. QED
    BY <1>1, <2>2, <2>3
<1>6. QED
  BY <1>2, <1>3, <1>4, <1>5 DEF TableOK

\* FirstUnuploaded(count) has at most count rows, with a row it has every unmarked one
\* with a smaller id, and it has all of them when they are fewer.
LEMMA FirstRows ==
  ASSUME TableOK, NEW count \in Nat
  PROVE  /\ FirstUnuploaded(count) \subseteq Unuploaded
         /\ Cardinality(FirstUnuploaded(count)) \in Nat
         /\ Cardinality(FirstUnuploaded(count)) <= count
         /\ Cardinality(FirstUnuploaded(count)) < count => FirstUnuploaded(count) = Unuploaded
         /\ FirstUnuploaded(count) = {} => Cardinality(FirstUnuploaded(count)) = 0
         /\ \A r \in FirstUnuploaded(count) : \A q \in Unuploaded :
              q.id <= r.id => q \in FirstUnuploaded(count)
<1> DEFINE S == Unuploaded
           key == [r \in S |-> r.id]
           F == FirstUnuploaded(count)
<1>1. \A r \in S : r \in rows /\ r.id \in 1..MaxKeys
  BY DEF Unuploaded, TableOK, Rows
<1>2. \A a, b \in S : a.id = b.id => a = b
  BY DEF Unuploaded, TableOK
<1> HIDE DEF S
<1>3. key \in [S -> Int] /\ key \in [S -> 1..MaxKeys] /\ \A a, b \in S : key[a] = key[b] => a = b
  BY <1>1, <1>2
<1>4. IsFiniteSet(S)
  <2>1. key \in Injection(S, 1..MaxKeys)
    BY <1>3 DEF Injection, IsInjective
  <2>2. 1 \in Int /\ MaxKeys \in Int
    BY SignalAssumption
  <2>3. IsFiniteSet(1..MaxKeys)
    BY <2>2, FS_Interval
  <2>4. QED
    BY <2>1, <2>3, FS_Injection
<1>5. F = First(S, key, count)
  <2>1. \A a \in S : Before(S, key, a) = {q \in S : q.id < a.id}
    BY DEF Before
  <2>2. F = {a \in S : Cardinality({q \in S : q.id < a.id}) < count}
    BY DEF FirstUnuploaded, S
  <2>3. QED
    BY <2>1, <2>2 DEF First
<1>6. \A a \in S : key[a] = a.id
  OBVIOUS
<1> HIDE DEF F, key
<1>7. /\ IsFiniteSet(F) /\ Cardinality(F) \in Nat /\ Cardinality(F) <= count
      /\ Cardinality(F) < count => F = S
      /\ \A a \in F : \A b \in S : key[b] <= key[a] => b \in F
  BY <1>3, <1>4, <1>5, FirstN
<1>8. F \subseteq S
  BY <1>5 DEF First
<1>9. /\ F \subseteq S /\ Cardinality(F) \in Nat /\ Cardinality(F) <= count
      /\ Cardinality(F) < count => F = S
      /\ F = {} => Cardinality(F) = 0
      /\ \A r \in F : \A q \in S : q.id <= r.id => q \in F
  BY <1>6, <1>7, <1>8, FS_EmptySet
<1>10. QED
  BY <1>9 DEF F, S

-----------------------------------------------------------------------------
(***************************************************************************)
(* Every step keeps the types                                              *)
(***************************************************************************)

LEMMA UploadRecords ==
  ASSUME NEW f \in BOOLEAN
  PROVE  /\ NoUpload \in Uploads /\ NoUpload.pc = "idle" /\ NoUpload.keys = {}
         /\ [NoUpload EXCEPT !.pc = "count"] \in Uploads
         /\ [NoUpload EXCEPT !.pc = "count"].pc = "count"
         /\ [NoUpload EXCEPT !.pc = "count"].keys = {}
         /\ [NoUpload EXCEPT !.pc = "lock"] \in Uploads
         /\ [NoUpload EXCEPT !.pc = "lock"].pc = "lock"
         /\ [NoUpload EXCEPT !.pc = "lock"].keys = {}
         /\ [NoUpload EXCEPT !.pc = "lock", !.first = f] \in Uploads
         /\ [NoUpload EXCEPT !.pc = "lock", !.first = f].pc = "lock"
         /\ [NoUpload EXCEPT !.pc = "lock", !.first = f].keys = {}
BY DEF NoUpload, Uploads

\* An uploader that has no keys after the step.
LEMMA Quiet ==
  ASSUME UploadsOK, TableOK, NEW u \in Uploaders, NEW v \in Uploads,
         v.pc \notin {"send", "mark"}, v.keys = {},
         upload' = [upload EXCEPT ![u] = v], TableOK', pairs <= pairs'
  PROVE  UploadsOK'
<1>1. upload' \in [Uploaders -> Uploads] /\ upload'[u] = v
      /\ \A w \in Uploaders : w # u => upload'[w] = upload[w]
  BY DEF UploadsOK
<1>2. \A w \in Uploaders : Doing(w)' => w # u /\ Doing(w)
  BY <1>1 DEF Doing
<1>3. \A w \in Uploaders : IF Doing(w)' THEN upload'[w].keys # {} ELSE upload'[w].keys = {}
  BY <1>1, <1>2 DEF UploadsOK, Doing
<1>4. \A w \in Uploaders : \A k \in upload'[w].keys : k.pair <= pairs'
  <2> TAKE w \in Uploaders
  <2> TAKE k \in upload'[w].keys
  <2>1. w # u /\ k \in upload[w].keys /\ k \in Keys
    BY <1>1 DEF UploadsOK, Uploads
  <2>2. k.pair \in Nat /\ pairs \in Nat /\ pairs' \in Nat /\ k.pair <= pairs
    BY <2>1 DEF UploadsOK, Keys, TableOK
  <2>3. QED
    BY <2>2
<1>5. \A w, x \in Uploaders : Doing(w)' /\ Doing(x)' => w = x
  BY <1>2 DEF UploadsOK
<1>6. QED
  BY <1>1, <1>3, <1>4, <1>5 DEF UploadsOK

\* What a handler does next.
LEMMA NextJob ==
  ASSUME WorkOK, NEW l \in Slots, job[l].pc # "idle",
         NEW pc \in Later,
         JobTo(l, pc) \/ job' = [job EXCEPT ![l] = Idle]
  PROVE  /\ job' \in [Slots -> Jobs]
         /\ \A k \in Slots : job'[k].pc # "idle" => job'[k].e \in Envelopes
         /\ \A k \in Slots : k # l => job'[k] = job[k]
         /\ job'[l].pc # "idle" => job'[l].pc = pc /\ job'[l].e = job[l].e
<1>1. job[l] \in Jobs /\ job[l].e \in Envelopes /\ job \in [Slots -> Jobs]
  BY DEF WorkOK
<1>2. Idle \in Jobs /\ Idle.pc = "idle"
  BY DEF Idle, Jobs
<1>3. [job[l] EXCEPT !.pc = pc] \in Jobs /\ [job[l] EXCEPT !.pc = pc].pc = pc
      /\ [job[l] EXCEPT !.pc = pc].e = job[l].e
  BY <1>1 DEF Jobs, Later
<1>4. PICK j \in Jobs : /\ job' = [job EXCEPT ![l] = j]
                        /\ j.pc # "idle" => j.pc = pc /\ j.e = job[l].e
  <2>1. CASE job' = [job EXCEPT ![l] = Idle]
    BY <1>2, <2>1
  <2>2. CASE JobTo(l, pc)
    <3>1. job' = [job EXCEPT ![l] = [job[l] EXCEPT !.pc = pc]]
      BY <2>2 DEF JobTo
    <3>2. QED
      BY <1>3, <3>1
  <2>3. QED
    BY <2>1, <2>2
<1>5. job' \in [Slots -> Jobs] /\ job'[l] = j /\ \A k \in Slots : k # l => job'[k] = job[k]
  BY <1>1, <1>4
<1>6. QED
  BY <1>1, <1>4, <1>5 DEF WorkOK

LEMMA Acks ==
  ASSUME NEW e \in Envelopes
  PROVE  /\ AckTask(e) \in Tasks /\ AckTask(e).e = e /\ AckTask(e).key = NoKey
         /\ RetryTask(e) \in Tasks /\ RetryTask(e).e = e /\ RetryTask(e).key = NoKey
BY DEF AckTask, RetryTask, Tasks

LEMMA FaultTypes ==
  ASSUME faults \in Nat, Fault \/ NoFault
  PROVE  faults' \in Nat
BY DEF Fault, NoFault

LEMMA StartTyped == Init => Typed
<1> SUFFICES ASSUME Init PROVE Typed
  OBVIOUS
<1>1. TableOK
  BY SignalAssumption DEF Init, TableOK
<1>2. UploadsOK
  <2>1. upload \in [Uploaders -> Uploads] /\ \A u \in Uploaders : upload[u].keys = {} /\ upload[u].pc \in {"idle", "count"}
    BY UploadRecords DEF Init, Connecting
  <2>2. QED
    BY <2>1 DEF UploadsOK, Doing
<1>3. WireOK
  <2>1. PICK start \in Starts : session = start.session
    BY DEF Init
  <2>2. session \in [Peers -> Sessions]
    BY <2>1, StartsAssumption DEF Sessions
  <2>3. sent \in [Peers -> Nat]
    BY DEF Init
  <2>4. QED
    BY <2>2, <2>3 DEF Init, WireOK
<1>4. WorkOK
  <2>1. Min(Slots) \in Slots
    BY MinIsSmallest, SignalAssumption
  <2>2. Idle \in Jobs /\ Idle.pc = "idle"
    BY DEF Idle, Jobs
  <2>3. job \in [Slots -> Jobs] /\ \A l \in Slots : job[l].pc = "idle"
    BY <2>2 DEF Init
  <2>4. QED
    BY <2>1, <2>3 DEF Init, WorkOK
<1>5. RestOK
  BY SignalAssumption DEF Init, RestOK
<1>6. QED
  BY <1>1, <1>2, <1>3, <1>4, <1>5 DEF Typed

\* GetOrGenPreKeys: what it takes from the table and what it generates.
CountFor(u) == IF upload[u].first THEN Initial ELSE Wanted
Old(u) == FirstUnuploaded(CountFor(u))
Missing(u) == CountFor(u) - Cardinality(Old(u))
BatchOf(u) == {KeyOf(r) : r \in Old(u) \cup NewRows(Missing(u), FALSE)}

LEMMA KeysOfRows ==
  ASSUME NEW r \in Rows
  PROVE  KeyOf(r) \in Keys /\ KeyOf(r).id = r.id /\ KeyOf(r).pair = r.pair
BY DEF KeyOf, Keys, Rows

LEMMA Generation ==
  ASSUME Typed, NEW u \in Uploaders, GetOrGenPreKeys(u)
  PROVE  /\ upload[u].pc = "lock" /\ ~Locked
         /\ Missing(u) \in Nat
         /\ \/ /\ Generate(Missing(u), FALSE)
               /\ upload' = [upload EXCEPT ![u] = [upload[u] EXCEPT !.pc = "send", !.keys = BatchOf(u)]]
            \/ /\ upload' = [upload EXCEPT ![u] = NoUpload]
               /\ \E n \in Nat : Generate(n, FALSE)
         /\ faults' \in Nat
         /\ NotUpload /\ UNCHANGED story
<1>1. CountFor(u) \in Nat
  BY SignalAssumption DEF CountFor
<1>2. Missing(u) \in Nat
  BY <1>1, FirstRows DEF Missing, Old, Typed
<1>3. faults' \in Nat
  BY FaultTypes DEF GetOrGenPreKeys, Typed, RestOK
<1>4. 0..(Missing(u) - 1) \subseteq Nat
  BY <1>2
<1>5. QED
  BY <1>2, <1>3, <1>4 DEF GetOrGenPreKeys, UploadPc, UploadTo, CountFor, Old, Missing, BatchOf

\* Its batch has keys, of the table and new ones.
LEMMA Batches ==
  ASSUME Typed, NEW u \in Uploaders, Missing(u) \in Nat, Generate(Missing(u), FALSE)
  PROVE  /\ BatchOf(u) # {} /\ BatchOf(u) \subseteq Keys
         /\ \A k \in BatchOf(u) : k.pair <= pairs'
         /\ Old(u) \subseteq Unuploaded
         /\ TableOK' /\ pairs <= pairs' /\ pairs \in Nat /\ pairs' = pairs + Missing(u)
         /\ rows' = rows \cup NewRows(Missing(u), FALSE)
<1>1. CountFor(u) \in Nat /\ CountFor(u) > 0
  BY SignalAssumption DEF CountFor
<1>2. TableOK /\ pairs + Missing(u) <= MaxKeys /\ rows' = rows \cup NewRows(Missing(u), FALSE)
      /\ pairs' = pairs + Missing(u) /\ pairs \in Nat /\ pairs <= pairs'
  BY DEF Generate, Typed, TableOK
<1>3. TableOK'
  BY <1>2, Generated
<1>4. Old(u) \subseteq Unuploaded /\ Cardinality(Old(u)) \in Nat
      /\ (Old(u) = {} => Cardinality(Old(u)) = 0)
  BY <1>1, <1>2, FirstRows DEF Old
<1>5. Old(u) \cup NewRows(Missing(u), FALSE) \subseteq rows'
  BY <1>2, <1>4 DEF Unuploaded
<1>6. \A r \in rows' : r \in Rows /\ r.pair <= pairs'
  BY <1>3 DEF TableOK
<1>7. BatchOf(u) \subseteq Keys /\ \A k \in BatchOf(u) : k.pair <= pairs'
  BY <1>5, <1>6, KeysOfRows DEF BatchOf
<1>8. BatchOf(u) # {}
  <2>1. CASE Old(u) # {}
    BY <2>1 DEF BatchOf
  <2>2. CASE Old(u) = {}
    <3>1. Missing(u) = CountFor(u) /\ 0 \in 0..(Missing(u) - 1)
      BY <1>1, <1>4, <2>2 DEF Missing
    <3>2. NewRows(Missing(u), FALSE) # {}
      BY <3>1 DEF NewRows
    <3>3. QED
      BY <3>2 DEF BatchOf
  <2>3. QED
    BY <2>1, <2>2
<1>9. QED
  BY <1>2, <1>3, <1>4, <1>7, <1>8

LEMMA TypedGetOrGen ==
  ASSUME Typed, NEW u \in Uploaders, GetOrGenPreKeys(u)
  PROVE  Typed'
<1>1. UNCHANGED <<mode, recent, wire, work, decrypted, story>> /\ faults' \in Nat
  BY Generation DEF NotUpload
<1>2. WireOK' /\ WorkOK' /\ RestOK'
  BY <1>1 DEF Typed, WireOK, WorkOK, RestOK, wire, work, decrypted, story
<1>3. CASE /\ Generate(Missing(u), FALSE)
           /\ upload' = [upload EXCEPT ![u] = [upload[u] EXCEPT !.pc = "send", !.keys = BatchOf(u)]]
  <2> DEFINE v == [upload[u] EXCEPT !.pc = "send", !.keys = BatchOf(u)]
  <2>1. /\ BatchOf(u) # {} /\ BatchOf(u) \subseteq Keys
        /\ \A k \in BatchOf(u) : k.pair <= pairs'
        /\ TableOK' /\ pairs <= pairs' /\ pairs \in Nat
    BY <1>3, Generation, Batches
  <2>2. upload[u] \in Uploads /\ upload \in [Uploaders -> Uploads]
    BY DEF Typed, UploadsOK
  <2>3. v \in Uploads /\ v.pc = "send" /\ v.keys = BatchOf(u)
    BY <2>1, <2>2 DEF Uploads
  <2>4. upload' = [upload EXCEPT ![u] = v]
    BY <1>3
  <2> HIDE DEF v
  <2>5. upload' \in [Uploaders -> Uploads] /\ upload'[u] = v
        /\ \A w \in Uploaders : w # u => upload'[w] = upload[w]
    BY <2>2, <2>3, <2>4
  <2>6. \A w \in Uploaders : ~Doing(w) /\ upload[w].keys = {}
    BY Generation DEF Locked, Doing, Typed, UploadsOK
  <2>7. \A w \in Uploaders : w # u => ~Doing(w)' /\ upload'[w].keys = {}
    BY <2>5, <2>6 DEF Doing
  <2>8. Doing(u)'
    BY <2>3, <2>5 DEF Doing
  <2>9. UploadsOK'
    BY <2>1, <2>3, <2>5, <2>7, <2>8 DEF UploadsOK
  <2>10. QED
    BY <1>2, <2>1, <2>9 DEF Typed
<1>4. CASE /\ upload' = [upload EXCEPT ![u] = NoUpload]
           /\ \E n \in Nat : Generate(n, FALSE)
  <2>1. PICK n \in Nat : Generate(n, FALSE)
    BY <1>4
  <2>2. TableOK' /\ pairs <= pairs'
    <3>1. TableOK'
      BY <2>1, Generated DEF Typed
    <3>2. pairs \in Nat /\ pairs' = pairs + n
      BY <2>1 DEF Generate, Typed, TableOK
    <3>3. QED
      BY <3>1, <3>2
  <2>3. UploadsOK'
    BY <1>4, <2>2, UploadRecords, Quiet DEF Typed
  <2>4. QED
    BY <1>2, <2>2, <2>3 DEF Typed
<1>5. QED
  BY <1>3, <1>4, Generation

\* The uploader stops, or goes on to wait for the lock.
LEMMA TypedQuiet ==
  ASSUME Typed, NEW u \in Uploaders, NEW v \in Uploads,
         v.pc \notin {"send", "mark"}, v.keys = {}, UploadTo(u, v),
         UNCHANGED <<mode, pairs, recent, work, decrypted, handled, sent, session, recreated,
                     inbox, receipts, asked>>,
         TableOK', pool' \subseteq Keys, faults' \in Nat
  PROVE  Typed'
<1>1. UploadsOK'
  <2>1. pairs <= pairs'
    BY DEF Typed, TableOK
  <2>2. QED
    BY <2>1, Quiet DEF Typed, UploadTo
<1>2. WireOK' /\ WorkOK' /\ RestOK'
  BY DEF Typed, WireOK, WorkOK, RestOK, work, decrypted
<1>3. QED
  BY <1>1, <1>2 DEF Typed

LEMMA TypedLocking ==
  ASSUME Typed, CountKeys \/ handleEncryptNotification \/ \E u \in Uploaders : GiveUpUpload(u)
  PROVE  Typed'
<1> DEFINE f == UploadedPreKeyCount = 0 /\ Cardinality(pool) = 0
<1>1. PICK u \in Uploaders, v \in Uploads :
         v.pc \notin {"send", "mark"} /\ v.keys = {} /\ UploadTo(u, v)
  <2>1. f \in BOOLEAN /\ "connect" \in Uploaders /\ "notification" \in Uploaders
    BY DEF Uploaders
  <2>2. CASE CountKeys
    <3>1. UploadTo("connect", [NoUpload EXCEPT !.pc = "lock", !.first = f]) \/ UploadTo("connect", NoUpload)
      BY <2>2 DEF CountKeys
    <3> HIDE DEF f
    <3>2. QED
      BY <2>1, <3>1, UploadRecords
  <2>3. CASE handleEncryptNotification
    BY <2>1, <2>3, UploadRecords DEF handleEncryptNotification
  <2>4. CASE \E w \in Uploaders : GiveUpUpload(w)
    BY <2>4, UploadRecords DEF GiveUpUpload
  <2>5. QED
    BY <2>2, <2>3, <2>4
<1>2. UNCHANGED <<mode, stored, recent, wire, work, decrypted, story>>
  BY DEF CountKeys, handleEncryptNotification, GiveUpUpload, NotUpload
<1>3. faults' \in Nat
  BY FaultTypes DEF CountKeys, handleEncryptNotification, GiveUpUpload, NoFault, Typed, RestOK
<1>4. TableOK' /\ pool' \subseteq Keys
  BY <1>2 DEF Typed, TableOK, WireOK, stored, wire
<1>5. QED
  BY <1>1, <1>2, <1>3, <1>4, TypedQuiet DEF stored, wire, story

LEMMA TypedSendUpload ==
  ASSUME Typed, NEW u \in Uploaders, SendUpload(u)
  PROVE  Typed'
<1>1. upload[u] \in Uploads /\ upload[u].keys \subseteq Keys /\ upload[u].pc = "send"
  BY DEF SendUpload, UploadPc, Typed, UploadsOK, Uploads
<1>2. faults' \in Nat
  BY FaultTypes DEF SendUpload, Typed, RestOK
<1>3. pool' \subseteq Keys
  BY <1>1 DEF SendUpload, Accept, Typed, WireOK
<1>4. UNCHANGED <<mode, stored, recent, sent, session, recreated, inbox, receipts, asked, work, decrypted, handled>>
  BY DEF SendUpload
<1>5. TableOK'
  BY <1>4 DEF Typed, TableOK, stored
<1>6. CASE UploadTo(u, NoUpload)
  BY <1>2, <1>3, <1>4, <1>5, <1>6, UploadRecords, TypedQuiet DEF stored
<1>7. CASE UploadTo(u, [upload[u] EXCEPT !.pc = "mark"])
  <2> DEFINE v == [upload[u] EXCEPT !.pc = "mark"]
  <2>1. v \in Uploads /\ v.pc = "mark" /\ v.keys = upload[u].keys
    BY <1>1 DEF Uploads
  <2>2. upload' = [upload EXCEPT ![u] = v]
    BY <1>7 DEF UploadTo
  <2> HIDE DEF v
  <2>3. upload' \in [Uploaders -> Uploads] /\ upload'[u] = v
        /\ \A w \in Uploaders : w # u => upload'[w] = upload[w]
    BY <2>1, <2>2 DEF Typed, UploadsOK
  <2>4. \A w \in Uploaders : upload'[w].keys = upload[w].keys /\ Doing(w)' = Doing(w)
    BY <1>1, <2>1, <2>3 DEF Doing
  <2>5. UploadsOK'
    BY <1>4, <2>3, <2>4 DEF Typed, UploadsOK, stored
  <2>6. WireOK' /\ WorkOK' /\ RestOK'
    BY <1>2, <1>3, <1>4 DEF Typed, WireOK, WorkOK, RestOK, work, decrypted
  <2>7. QED
    BY <1>5, <2>5, <2>6 DEF Typed
<1>8. QED
  BY <1>6, <1>7 DEF SendUpload

\* What MarkUploaded does to a row.
Marked(r, last) == IF r.id <= last THEN [r EXCEPT !.up = TRUE] ELSE r

LEMMA Marks ==
  ASSUME NEW last, NEW r \in Rows
  PROVE  /\ Marked(r, last) \in Rows
         /\ Marked(r, last).id = r.id /\ Marked(r, last).pair = r.pair
         /\ KeyOf(Marked(r, last)) = KeyOf(r)
         /\ r.up => Marked(r, last).up
         /\ Marked(r, last).up => r.up \/ r.id <= last
         /\ ~Marked(r, last).up => Marked(r, last) = r /\ ~(r.id <= last)
<1>1. CASE r.id <= last
  BY <1>1 DEF Marked, Rows, KeyOf
<1>2. CASE ~(r.id <= last)
  BY <1>2 DEF Marked, Rows, KeyOf
<1>3. QED
  BY <1>1, <1>2

LEMMA TypedMarkUploaded ==
  ASSUME Typed, NEW u \in Uploaders, MarkUploaded(u)
  PROVE  Typed'
<1> DEFINE last == Max({k.id : k \in upload[u].keys})
<1>1. faults' \in Nat
  BY FaultTypes DEF MarkUploaded, Typed, RestOK
<1>2. UNCHANGED <<mode, pairs, wire, work, decrypted, handled>> /\ recent' \in BOOLEAN /\ UploadTo(u, NoUpload)
  BY DEF MarkUploaded, Typed, RestOK
<1>3. rows' = rows \/ rows' = {Marked(r, last) : r \in rows}
  BY DEF MarkUploaded, MarkPreKeysAsUploaded, Marked
<1> HIDE DEF last
<1>4. TableOK'
  <2>1. CASE rows' = rows
    BY <1>2, <2>1 DEF Typed, TableOK
  <2>2. CASE rows' = {Marked(r, last) : r \in rows}
    <3>1. \A r \in rows : r \in Rows /\ Marked(r, last) \in Rows /\ Marked(r, last).id = r.id
                          /\ Marked(r, last).pair = r.pair
      BY Marks DEF Typed, TableOK
    <3>2. \A x \in rows' : \E r \in rows : x = Marked(r, last) /\ x.id = r.id /\ x.pair = r.pair /\ x \in Rows
      BY <2>2, <3>1
    <3>3. rows' \subseteq Rows /\ \A x \in rows' : x.id <= x.pair /\ x.pair <= pairs'
      BY <1>2, <3>2 DEF Typed, TableOK
    <3>4. \A x, y \in rows' : x.id = y.id \/ x.pair = y.pair => x = y
      BY <3>2 DEF Typed, TableOK
    <3>5. QED
      BY <1>2, <3>3, <3>4 DEF Typed, TableOK
  <2>3. QED
    BY <1>3, <2>1, <2>2
<1>5. UploadsOK'
  <2>1. pairs <= pairs'
    BY <1>2 DEF Typed, TableOK
  <2>2. QED
    BY <1>2, <1>4, <2>1, UploadRecords, Quiet DEF Typed, UploadTo
<1>6. WireOK' /\ WorkOK' /\ RestOK'
  BY <1>1, <1>2 DEF Typed, WireOK, WorkOK, RestOK, work, wire, decrypted
<1>7. QED
  BY <1>4, <1>5, <1>6 DEF Typed

\* What the handlers and their goroutines leave alone.
LEMMA TypedWork ==
  ASSUME Typed, WorkOK', faults' \in Nat,
         UNCHANGED <<mode, recent, upload, pool, sent, session, stored>>,
         inbox' \subseteq inbox, receipts' \subseteq Receipts, asked' \subseteq Peers,
         handled' \in [Peers -> Nat], plain' \cap cleared' = {}
  PROVE  Typed'
<1>1. TableOK' /\ UploadsOK' /\ RestOK'
  BY DEF Typed, TableOK, UploadsOK, Doing, RestOK, stored
<1>2. WireOK'
  BY DEF Typed, WireOK
<1>3. QED
  BY <1>1, <1>2 DEF Typed

LEMMA TypedDeliver ==
  ASSUME Typed, NEW e \in inbox, Deliver(e)
  PROVE  Typed'
<1>1. e \in Envelopes /\ conn \in Slots
  BY DEF Typed, WireOK, WorkOK
<1> DEFINE j == [pc |-> "decrypt", e |-> e]
<1>2. j \in Jobs /\ j.e = e
  BY <1>1 DEF Jobs
<1>3. job' = [job EXCEPT ![conn] = j]
  BY DEF Deliver
<1> HIDE DEF j
<1>4. job' \in [Slots -> Jobs] /\ \A l \in Slots : job'[l].pc # "idle" => job'[l].e \in Envelopes
  BY <1>1, <1>2, <1>3 DEF Typed, WorkOK
<1>5. UNCHANGED <<mode, recent, upload, conn, retries, wire, stored, tasks, decrypted, faults, story>>
  BY DEF Deliver, NotReceiving
<1>6. WorkOK'
  BY <1>4, <1>5 DEF Typed, WorkOK
<1>7. QED
  BY <1>5, <1>6, TypedWork DEF Typed, WireOK, RestOK, wire, decrypted, story

LEMMA TypedLeaveBehind ==
  ASSUME Typed, LeaveBehind
  PROVE  Typed'
<1>1. UNCHANGED <<mode, recent, upload, retries, wire, job, tasks, stored, decrypted, story>> /\ conn' \in Slots
  BY DEF LeaveBehind
<1>2. WorkOK'
  BY <1>1 DEF Typed, WorkOK
<1>3. faults' \in Nat
  BY FaultTypes DEF LeaveBehind, Typed, RestOK
<1>4. QED
  BY <1>1, <1>2, <1>3, TypedWork DEF Typed, WireOK, RestOK, wire, decrypted, story

\* A handler's step, when the tasks it adds are for its envelope.
LEMMA WorkOfHandler ==
  ASSUME Typed, NEW l \in Slots, job[l].pc # "idle", NEW pc \in Later,
         JobTo(l, pc) \/ job' = [job EXCEPT ![l] = Idle],
         tasks' \subseteq tasks \cup {AckTask(job[l].e), RetryTask(job[l].e)},
         UNCHANGED <<conn, retries>>
  PROVE  WorkOK'
<1>1. job' \in [Slots -> Jobs] /\ \A k \in Slots : job'[k].pc # "idle" => job'[k].e \in Envelopes
  BY NextJob DEF Typed
<1>2. job[l].e \in Envelopes
  BY DEF Typed, WorkOK
<1>3. tasks' \subseteq Tasks
  BY <1>2, Acks DEF Typed, WorkOK
<1>4. QED
  BY <1>1, <1>3 DEF Typed, WorkOK

LEMMA TypedAlreadyDone ==
  ASSUME Typed, NEW l \in Slots, AlreadyDone(l)
  PROVE  Typed'
<1>1. WorkOK'
  BY WorkOfHandler DEF AlreadyDone, Done, NotReceiving, Later
<1>2. QED
  BY <1>1, TypedWork DEF AlreadyDone, NotReceiving, Typed, WireOK, RestOK, wire, decrypted, story

\* The steps that look, load and store, and that leave the table and the buffer alone.
LEMMA Lookings ==
  ASSUME NEW l \in Slots, GetBufferedEvent(l) \/ LoadSession(l) \/ PutSession(l)
  PROVE  /\ job[l].pc # "idle" /\ \E pc \in Later : JobTo(l, pc)
         /\ NotReceiving
         /\ UNCHANGED <<seen, tasks, stored, plain, cleared, faults, handled, gaveUp, mishap, redone,
                       failed, owners, offered, doubt, wiped>>
<1>1. CASE GetBufferedEvent(l)
  BY <1>1 DEF GetBufferedEvent, decrypted, story, overlaps, Later
<1>2. CASE LoadSession(l)
  BY <1>2 DEF LoadSession, story, overlaps, Later
<1>3. CASE PutSession(l)
  BY <1>3 DEF PutSession, Later
<1>4. QED
  BY <1>1, <1>2, <1>3

LEMMA TypedLooking ==
  ASSUME Typed, NEW l \in Slots, GetBufferedEvent(l) \/ LoadSession(l) \/ PutSession(l)
  PROVE  Typed'
<1>1. PICK pc \in Later : JobTo(l, pc)
  BY Lookings
<1>2. WorkOK'
  BY <1>1, Lookings, WorkOfHandler DEF NotReceiving
<1>3. QED
  BY <1>2, Lookings, TypedWork DEF NotReceiving, Typed, WireOK, RestOK, wire

LEMMA TypedTxnTooLate ==
  ASSUME Typed, NEW l \in Slots, TxnTooLate(l)
  PROVE  Typed'
<1>1. WorkOK'
  BY WorkOfHandler DEF TxnTooLate, Done, NotReceiving, Later
<1>2. QED
  BY <1>1, TypedWork DEF TxnTooLate, NotReceiving, Typed, WireOK, RestOK, wire, decrypted

\* The steps that delete a prekey.
LEMMA Removals ==
  ASSUME NEW l \in Slots, DoDecryptionTxn(l) \/ DeletePreKey(l)
  PROVE  /\ job[l].pc \in {"txn", "remove"} /\ JobTo(l, "handle") /\ NotReceiving
         /\ rows' \subseteq rows
         /\ UNCHANGED <<seen, tasks, pairs, cleared, faults, handled, gaveUp, mishap, redone,
                       failed, owners, offered, doubt, raced>>
         /\ plain' = plain \/ (plain' = plain \cup {Hash(job[l].e)} /\ Hash(job[l].e) \notin cleared)
<1>1. CASE DoDecryptionTxn(l)
  BY <1>1 DEF DoDecryptionTxn, RemovePreKey, story, overlaps
<1>2. CASE DeletePreKey(l)
  BY <1>2 DEF DeletePreKey, RemovePreKey, decrypted
<1>3. QED
  BY <1>1, <1>2

LEMMA TypedRemoval ==
  ASSUME Typed, NEW l \in Slots, DoDecryptionTxn(l) \/ DeletePreKey(l)
  PROVE  Typed'
<1>1. JobTo(l, "handle") /\ NotReceiving /\ rows' \subseteq rows
      /\ UNCHANGED <<seen, tasks, pairs, faults, handled, cleared>>
  BY Removals
<1>2. WorkOK'
  BY <1>1, Removals, WorkOfHandler DEF NotReceiving, Later
<1>3. TableOK'
  BY <1>1 DEF Typed, TableOK
<1>4. UploadsOK' /\ WireOK'
  BY <1>1 DEF NotReceiving, Typed, UploadsOK, WireOK, Doing, wire
<1>5. plain' \cap cleared' = {}
  BY <1>1, Removals DEF Typed, RestOK
<1>6. RestOK'
  BY <1>1, <1>5 DEF NotReceiving, Typed, RestOK
<1>7. QED
  BY <1>2, <1>3, <1>4, <1>6 DEF Typed

LEMMA TypedDecryptFails ==
  ASSUME Typed, NEW l \in Slots, DecryptFails(l)
  PROVE  Typed'
<1>1. job[l].pc # "idle" /\ Done(l) /\ NotReceiving /\ UNCHANGED <<stored, decrypted, handled>>
  BY DEF DecryptFails
<1>2. tasks' \subseteq tasks \cup {AckTask(job[l].e), RetryTask(job[l].e)}
  BY DEF DecryptFails
<1>3. WorkOK'
  BY <1>1, <1>2, WorkOfHandler DEF Done, NotReceiving, Later
<1>4. faults' \in Nat
  BY FaultTypes DEF DecryptFails, Typed, RestOK
<1>5. QED
  BY <1>1, <1>3, <1>4, TypedWork DEF NotReceiving, Typed, WireOK, RestOK, wire, decrypted

LEMMA TypedHandle ==
  ASSUME Typed, NEW l \in Slots, Handle(l)
  PROVE  Typed'
<1>1. job[l].pc = "handle" /\ NotReceiving /\ UNCHANGED <<stored, decrypted>>
  BY DEF Handle
<1>2. JobTo(l, "clear") \/ JobTo(l, "wait") \/ job' = [job EXCEPT ![l] = Idle]
  BY DEF Handle, Done
<1>3. tasks' \subseteq tasks \cup {AckTask(job[l].e), RetryTask(job[l].e)}
  BY DEF Handle
<1>4. WorkOK'
  <2>1. CASE JobTo(l, "clear")
    BY <1>1, <1>3, <2>1, WorkOfHandler DEF NotReceiving, Later
  <2>2. CASE JobTo(l, "wait") \/ job' = [job EXCEPT ![l] = Idle]
    BY <1>1, <1>3, <2>2, WorkOfHandler DEF NotReceiving, Later
  <2>3. QED
    BY <1>2, <2>1, <2>2
<1>5. faults' \in Nat
  BY FaultTypes DEF Handle, Typed, RestOK
<1>6. handled' \in [Peers -> Nat]
  BY DEF Handle, Typed, RestOK
<1>7. QED
  BY <1>1, <1>4, <1>5, <1>6, TypedWork DEF NotReceiving, Typed, WireOK, RestOK, wire, decrypted

LEMMA TypedClear ==
  ASSUME Typed, NEW l \in Slots, ClearBufferedEventPlaintext(l)
  PROVE  Typed'
<1>1. job[l].pc = "clear" /\ NotReceiving /\ UNCHANGED <<stored, story>> /\ Done(l)
      /\ tasks' = tasks \cup {AckTask(job[l].e)}
  BY DEF ClearBufferedEventPlaintext
<1>2. WorkOK'
  BY <1>1, WorkOfHandler DEF Done, NotReceiving, Later
<1>3. faults' \in Nat
  BY FaultTypes DEF ClearBufferedEventPlaintext, Typed, RestOK
<1>4. plain' \cap cleared' = {}
  BY DEF ClearBufferedEventPlaintext, Typed, RestOK
<1>5. QED
  BY <1>1, <1>2, <1>3, <1>4, TypedWork DEF NotReceiving, Typed, WireOK, RestOK, wire, story

-----------------------------------------------------------------------------

LEMMA TypedAck ==
  ASSUME Typed, NEW t \in tasks, sendAck(t)
  PROVE  Typed'
<1>1. NotTask /\ UNCHANGED <<receipts, asked, retries, stored, story>> /\ tasks' \subseteq tasks
      /\ inbox' \subseteq inbox
  BY DEF sendAck
<1>2. job' = [l \in Slots |-> IF job[l].pc = "wait" /\ job[l].e = t.e THEN Idle ELSE job[l]]
  BY DEF sendAck
<1>3. Idle \in Jobs /\ Idle.pc = "idle"
  BY DEF Idle, Jobs
<1>4. job' \in [Slots -> Jobs] /\ \A l \in Slots : job'[l].pc # "idle" => job'[l].e \in Envelopes
  BY <1>2, <1>3 DEF Typed, WorkOK
<1>5. WorkOK'
  BY <1>1, <1>4 DEF NotTask, Typed, WorkOK
<1>6. faults' \in Nat
  BY FaultTypes DEF sendAck, Typed, RestOK
<1>7. QED
  BY <1>1, <1>5, <1>6, TypedWork DEF NotTask, Typed, WireOK, RestOK, decrypted, story

LEMMA Counts ==
  ASSUME Typed, NEW t \in tasks, Counted(t)
  PROVE  /\ t \in Tasks /\ t.e \in Envelopes /\ t.e.p \in Peers
         /\ RetryCount(t.e) \in Nat
         /\ retries' \in [Peers -> Nat]
<1>1. t \in Tasks /\ retries \in [Peers -> Nat]
  BY DEF Typed, WorkOK
<1>2. t.e \in Envelopes
  BY <1>1 DEF Tasks
<1>3. t.e.p \in Peers /\ t.e.count \in Nat
  BY <1>2 DEF Envelopes
<1>4. RetryCount(t.e) \in Nat
  BY <1>1, <1>3 DEF RetryCount
<1>5. retries' = [retries EXCEPT ![t.e.p] = RetryCount(t.e)]
  BY DEF Counted
<1>6. QED
  BY <1>1, <1>2, <1>3, <1>4, <1>5

\* The tasks when t ends, or goes on with another count and key.
LEMMA Endings ==
  ASSUME Typed, NEW t \in tasks, Ends(t)
  PROVE  /\ t.e \in Envelopes /\ tasks' \subseteq Tasks
         /\ tasks' \subseteq (tasks \ {t}) \cup {AckTask(t.e)}
<1>1. t \in Tasks /\ t.e \in Envelopes
  BY DEF Typed, WorkOK, Tasks
<1>2. QED
  BY <1>1, Acks DEF Ends, Typed, WorkOK

LEMMA Retasked ==
  ASSUME NEW t \in Tasks, NEW c \in Nat, NEW k \in Keys
  PROVE  /\ [t EXCEPT !.kind = "send", !.count = c] \in Tasks
         /\ [t EXCEPT !.kind = "send", !.count = c].e = t.e
         /\ [t EXCEPT !.kind = "send", !.count = c].key = t.key
         /\ [t EXCEPT !.kind = "send", !.count = c, !.key = k] \in Tasks
         /\ [t EXCEPT !.kind = "send", !.count = c, !.key = k].e = t.e
         /\ [t EXCEPT !.kind = "send", !.count = c, !.key = k].key = k
BY DEF Tasks

LEMMA TypedNoMoreRetries ==
  ASSUME Typed, NEW t \in tasks, NoMoreRetries(t)
  PROVE  Typed'
<1>1. Counted(t) /\ Ends(t) /\ UNCHANGED <<stored, asked, faults, offered>>
  BY DEF NoMoreRetries
<1>2. retries' \in [Peers -> Nat] /\ tasks' \subseteq Tasks
  BY <1>1, Counts, Endings
<1>3. WorkOK'
  BY <1>1, <1>2 DEF Counted, NotTask, Typed, WorkOK
<1>4. QED
  BY <1>1, <1>3, TypedWork DEF Counted, NotTask, Typed, WireOK, RestOK, decrypted

LEMMA TypedFirstReceipt ==
  ASSUME Typed, NEW t \in tasks, FirstReceipt(t)
  PROVE  Typed'
<1>1. Counted(t) /\ UNCHANGED stored /\ asked' \subseteq asked \cup {t.e.p}
      /\ tasks' = (tasks \ {t}) \cup {[t EXCEPT !.kind = "send", !.count = 1]}
  BY DEF FirstReceipt, Becomes
<1>2. retries' \in [Peers -> Nat] /\ t \in Tasks /\ t.e.p \in Peers
  BY <1>1, Counts
<1>3. tasks' \subseteq Tasks
  <2>1. [t EXCEPT !.kind = "send", !.count = 1] \in Tasks
    BY <1>2 DEF Tasks
  <2>2. QED
    BY <1>1, <2>1 DEF Typed, WorkOK
<1>4. WorkOK'
  BY <1>1, <1>2, <1>3 DEF Counted, NotTask, Typed, WorkOK
<1>5. faults' \in Nat
  BY FaultTypes DEF FirstReceipt, Typed, RestOK
<1>6. asked' \subseteq Peers
  BY <1>1, <1>2 DEF Typed, WireOK
<1>7. QED
  BY <1>1, <1>4, <1>5, <1>6, TypedWork DEF Counted, NotTask, Typed, WireOK, RestOK, decrypted

\* GenOnePreKey: a new row and the task that has its key, or the task without a key.
LEMMA OneKey ==
  ASSUME Typed, NEW t \in tasks, GenOnePreKey(t)
  PROVE  /\ Counted(t) /\ UNCHANGED asked
         /\ \/ \E r \in Rows :
                 /\ NewRows(1, TRUE) = {r} /\ r.up /\ r.pair = pairs + 1
                 /\ \A q \in rows : q.id # r.id
                 /\ Generate(1, TRUE) /\ offered' = offered \cup {pairs + 1}
                 /\ tasks' = (tasks \ {t}) \cup {[t EXCEPT !.kind = "send", !.count = RetryCount(t.e), !.key = KeyOf(r)]}
            \/ /\ UNCHANGED <<stored, offered>>
               /\ tasks' = (tasks \ {t}) \cup {[t EXCEPT !.kind = "send", !.count = RetryCount(t.e)]}
<1>1. Counted(t) /\ UNCHANGED asked
  BY DEF GenOnePreKey
<1>2. CASE /\ Generate(1, TRUE) /\ offered' = offered \cup {pairs + 1}
           /\ \E r \in NewRows(1, TRUE) :
                Becomes(t, [t EXCEPT !.kind = "send", !.count = RetryCount(t.e), !.key = KeyOf(r)])
  <2>1. 0..(1 - 1) = {0}
    OBVIOUS
  <2>2. PICK r : NewRows(1, TRUE) = {r} /\ r = [id |-> getNextPreKeyID + 0, pair |-> pairs + 1 + 0, up |-> TRUE]
    BY <2>1 DEF NewRows
  <2>3. pairs \in Nat /\ 1 \in Nat /\ TRUE \in BOOLEAN /\ pairs + 1 <= MaxKeys
    BY <1>2 DEF Generate, Typed, TableOK
  <2>4. r \in Rows /\ r.up /\ \A q \in rows : q.id < r.id
    BY <2>2, <2>3, NewRowsOK DEF Typed
  <2>5. \A q \in rows : q.id # r.id
    BY <2>4 DEF Typed, TableOK, Rows
  <2>6. r.pair = pairs + 1
    BY <2>2, <2>3
  <2>7. QED
    BY <1>1, <1>2, <2>2, <2>4, <2>5, <2>6 DEF Becomes
<1>3. CASE /\ UNCHANGED <<stored, offered>>
           /\ Becomes(t, [t EXCEPT !.kind = "send", !.count = RetryCount(t.e)])
  BY <1>1, <1>3 DEF Becomes
<1>4. QED
  BY <1>2, <1>3 DEF GenOnePreKey

LEMMA TypedGenOnePreKey ==
  ASSUME Typed, NEW t \in tasks, GenOnePreKey(t)
  PROVE  Typed'
<1>1. Counted(t) /\ UNCHANGED asked
  BY OneKey
<1>2. t \in Tasks /\ RetryCount(t.e) \in Nat /\ retries' \in [Peers -> Nat]
  BY <1>1, Counts
<1>3. faults' \in Nat
  BY FaultTypes DEF GenOnePreKey, Typed, RestOK
<1>4. TableOK' /\ pairs <= pairs' /\ tasks' \subseteq Tasks
  <2>1. ASSUME NEW r \in Rows, Generate(1, TRUE),
               tasks' = (tasks \ {t}) \cup {[t EXCEPT !.kind = "send", !.count = RetryCount(t.e), !.key = KeyOf(r)]}
        PROVE  TableOK' /\ pairs <= pairs' /\ tasks' \subseteq Tasks
    <3>1. TableOK'
      BY <2>1, Generated DEF Typed
    <3>2. pairs <= pairs'
      BY <2>1 DEF Generate, Typed, TableOK
    <3>3. tasks' \subseteq Tasks
      <4>1. KeyOf(r) \in Keys
        BY KeysOfRows
      <4>2. [t EXCEPT !.kind = "send", !.count = RetryCount(t.e), !.key = KeyOf(r)] \in Tasks
        BY <1>2, <4>1, Retasked
      <4>3. QED
        BY <2>1, <4>2 DEF Typed, WorkOK
    <3>4. QED
      BY <3>1, <3>2, <3>3
  <2>2. ASSUME UNCHANGED <<stored, offered>>,
               tasks' = (tasks \ {t}) \cup {[t EXCEPT !.kind = "send", !.count = RetryCount(t.e)]}
        PROVE  TableOK' /\ pairs <= pairs' /\ tasks' \subseteq Tasks
    <3>1. TableOK' /\ pairs <= pairs'
      BY <2>2 DEF Typed, TableOK, stored
    <3>2. [t EXCEPT !.kind = "send", !.count = RetryCount(t.e)] \in Tasks
      BY <1>2 DEF Tasks
    <3>3. QED
      BY <2>2, <3>1, <3>2 DEF Typed, WorkOK
  <2>3. QED
    BY <2>1, <2>2, OneKey
<1>5. UploadsOK'
  <2>1. UNCHANGED upload
    BY <1>1 DEF Counted, NotTask
  <2>2. \A u \in Uploaders : \A k \in upload[u].keys : k.pair <= pairs'
    <3> TAKE u \in Uploaders
    <3> TAKE k \in upload[u].keys
    <3>1. k.pair \in Nat /\ pairs \in Nat /\ pairs' \in Nat /\ k.pair <= pairs
      BY <1>4 DEF Typed, UploadsOK, Uploads, Keys, TableOK
    <3>2. QED
      BY <1>4, <3>1
  <2>3. QED
    BY <2>1, <2>2 DEF Typed, UploadsOK, Doing
<1>6. WorkOK' /\ WireOK' /\ RestOK'
  BY <1>1, <1>2, <1>3, <1>4 DEF Counted, NotTask, Typed, WorkOK, WireOK, RestOK, decrypted
<1>7. QED
  BY <1>4, <1>5, <1>6 DEF Typed

LEMMA TypedSendRetryReceipt ==
  ASSUME Typed, NEW t \in tasks, SendRetryReceipt(t)
  PROVE  Typed'
<1>1. Ends(t) /\ NotTask /\ UNCHANGED <<job, inbox, asked, retries, stored, handled>>
      /\ receipts' \subseteq receipts \cup {[p |-> t.e.p, count |-> t.count, key |-> t.key]}
  BY DEF SendRetryReceipt
<1>2. t \in Tasks /\ t.e \in Envelopes /\ tasks' \subseteq Tasks
  BY <1>1, Endings DEF Typed, WorkOK
<1>3. [p |-> t.e.p, count |-> t.count, key |-> t.key] \in Receipts
  BY <1>2 DEF Receipts, Tasks, Envelopes
<1>4. receipts' \subseteq Receipts
  BY <1>1, <1>3 DEF Typed, WireOK
<1>5. WorkOK'
  BY <1>1, <1>2 DEF NotTask, Typed, WorkOK
<1>6. faults' \in Nat
  BY FaultTypes DEF SendRetryReceipt, Typed, RestOK
<1>7. QED
  BY <1>1, <1>4, <1>5, <1>6, TypedWork DEF NotTask, Typed, WireOK, RestOK, decrypted

LEMMA TypedPlaceholder ==
  ASSUME Typed, NEW p \in asked, handlePlaceholderResendResponse(p)
  PROVE  Typed'
<1>1. NotTask /\ UNCHANGED <<job, tasks, inbox, receipts, retries, stored, faults>> /\ asked' \subseteq asked
  BY DEF handlePlaceholderResendResponse
<1>2. handled' \in [Peers -> Nat]
  BY DEF handlePlaceholderResendResponse, Typed, RestOK, WireOK
<1>3. WorkOK'
  BY <1>1 DEF NotTask, Typed, WorkOK
<1>4. QED
  BY <1>1, <1>2, <1>3, TypedWork DEF NotTask, Typed, WireOK, RestOK, decrypted

-----------------------------------------------------------------------------

\* What a peer sends.
LEMMA Sending1 ==
  ASSUME Typed, NEW p \in Peers, NEW s \in Sessions, NEW c \in Nat, Sends(p, s, c)
  PROVE  /\ sent' \in [Peers -> Nat] /\ session' \in [Peers -> Sessions]
         /\ sent'[p] > 0 /\ \A q \in Peers : sent'[q] >= sent[q]
         /\ session'[p] = s
         /\ \A q \in Peers : q # p => sent'[q] = sent[q] /\ session'[q] = session[q]
         /\ inbox' = inbox \cup {Envelope(p, s, c)}
         /\ Envelope(p, s, c) \in Envelopes
         /\ Envelope(p, s, c).p = p /\ Envelope(p, s, c).s = s
         /\ inbox' \subseteq Envelopes
         /\ \A e \in inbox' : e.n \in 1..sent'[e.p]
<1>1. sent \in [Peers -> Nat] /\ session \in [Peers -> Sessions] /\ inbox \subseteq Envelopes
      /\ \A e \in inbox : e.n \in 1..sent[e.p]
  BY DEF Typed, WireOK
<1>2. sent' = [sent EXCEPT ![p] = sent[p] + 1] /\ session' = [session EXCEPT ![p] = s]
      /\ inbox' = inbox \cup {Envelope(p, s, c)}
  BY DEF Sends
<1>3. sent' \in [Peers -> Nat] /\ session' \in [Peers -> Sessions]
      /\ sent'[p] = sent[p] + 1 /\ session'[p] = s
      /\ \A q \in Peers : q # p => sent'[q] = sent[q] /\ session'[q] = session[q]
  BY <1>1, <1>2
<1>4. Envelope(p, s, c) \in Envelopes /\ Envelope(p, s, c).p = p /\ Envelope(p, s, c).s = s
      /\ Envelope(p, s, c).n = sent[p] + 1
  BY <1>1 DEF Envelope, Envelopes
<1>5. sent[p] \in Nat
  BY <1>1
<1>6. sent'[p] > 0 /\ \A q \in Peers : sent'[q] \in Nat /\ sent[q] \in Nat /\ sent'[q] >= sent[q]
  BY <1>1, <1>3, <1>5
<1>7. \A e \in inbox' : e.n \in 1..sent'[e.p]
  <2> TAKE e \in inbox'
  <2>1. CASE e \in inbox
    <3>1. e.p \in Peers /\ e.n \in 1..sent[e.p]
      BY <1>1, <2>1 DEF Envelopes
    <3>2. QED
      BY <1>6, <3>1
  <2>2. CASE e = Envelope(p, s, c)
    BY <1>3, <1>4, <1>5, <2>2
  <2>3. QED
    BY <1>2, <2>1, <2>2
<1>8. QED
  BY <1>1, <1>2, <1>3, <1>4, <1>6, <1>7

LEMMA SomeSessions ==
  /\ Stale \in Sessions /\ Signed \in Sessions /\ Absent \in Sessions
  /\ \A k \in Keys : k \in Sessions /\ k # Stale /\ k # Signed /\ k # Absent
  /\ Stale # Absent /\ Signed # Absent /\ Signed = NoKey
BY DEF Sessions, Stale, Signed, Absent, NoKey, Keys

\* A peer's message goes out in a session from its own, from a prekey of the server, or
\* from the receipt's key.
LEMMA PeerSteps ==
  ASSUME Typed, NEW p \in Peers, NEW c \in Nat,
         \E s \in Sessions : Sends(p, s, c),
         NotPeer, pool' \subseteq pool, receipts' \subseteq receipts
  PROVE  Typed'
<1>1. PICK s \in Sessions : Sends(p, s, c)
  OBVIOUS
<1>2. WireOK'
  BY <1>1, Sending1 DEF NotPeer, Typed, WireOK
<1>3. TableOK' /\ UploadsOK' /\ WorkOK' /\ RestOK'
  BY DEF NotPeer, Typed, TableOK, UploadsOK, Doing, WorkOK, RestOK, stored, work, decrypted
<1>4. QED
  BY <1>2, <1>3 DEF Typed

LEMMA TypedPeerSends ==
  ASSUME Typed, NEW p \in Peers, PeerSends(p)
  PROVE  Typed'
<1>1. pool' \subseteq pool /\ receipts' \subseteq receipts /\ NotPeer
  BY DEF PeerSends, Fetched
<1>2. \E s \in Sessions : Sends(p, s, 0)
  BY SomeSessions DEF PeerSends, Typed, WireOK
<1>3. QED
  BY <1>1, <1>2, PeerSteps

LEMMA TypedRetryReceipt ==
  ASSUME Typed, NEW r \in receipts, handleRetryReceipt(r)
  PROVE  Typed'
<1>1. pool' \subseteq pool /\ receipts' \subseteq receipts /\ NotPeer
  BY DEF handleRetryReceipt, Fetched
<1>2. r \in Receipts
  BY DEF Typed, WireOK
<1>3. r.p \in Peers /\ r.count \in Nat /\ (r.key \in Keys \/ r.key = NoKey) /\ session[r.p] \in Sessions
  BY <1>2 DEF Receipts, Typed, WireOK
<1>4. \E s \in Sessions : Sends(r.p, s, r.count)
  BY <1>3, SomeSessions DEF handleRetryReceipt, Typed, WireOK
<1>5. QED
  BY <1>1, <1>3, <1>4, PeerSteps

LEMMA TypedReconnect ==
  ASSUME Typed, Reconnect
  PROVE  Typed'
<1>1. UNCHANGED <<mode, stored, recent, wire, job, tasks, retries, decrypted, handled>> /\ conn' \in Slots
      /\ upload' = [upload EXCEPT !["connect"] = IF @.pc = "idle" THEN [NoUpload EXCEPT !.pc = "count"] ELSE @]
  BY DEF Reconnect, Authenticated
<1>2. faults' \in Nat
  BY FaultTypes DEF Reconnect, Typed, RestOK
<1>3. TableOK' /\ WireOK' /\ WorkOK' /\ RestOK'
  BY <1>1, <1>2 DEF Typed, TableOK, WireOK, WorkOK, RestOK, stored, wire, decrypted
<1>4. UploadsOK'
  <2>1. "connect" \in Uploaders /\ pairs <= pairs'
    BY <1>1 DEF Uploaders, stored, Typed, TableOK
  <2>2. CASE upload["connect"].pc = "idle"
    <3>1. upload' = [upload EXCEPT !["connect"] = [NoUpload EXCEPT !.pc = "count"]]
      BY <1>1, <2>1, <2>2 DEF Typed, UploadsOK
    <3>2. QED
      BY <1>3, <2>1, <3>1, UploadRecords, Quiet DEF Typed
  <2>3. CASE upload["connect"].pc # "idle"
    <3>1. upload' = upload
      BY <1>1, <2>1, <2>3 DEF Typed, UploadsOK
    <3>2. QED
      BY <1>1, <3>1 DEF Typed, UploadsOK, Doing, stored
  <2>4. QED
    BY <2>2, <2>3
<1>5. QED
  BY <1>3, <1>4 DEF Typed

LEMMA TypedRestart ==
  ASSUME Typed, Restart
  PROVE  Typed'
<1>1. UNCHANGED <<mode, stored, wire, decrypted, handled>> /\ recent' = FALSE
      /\ retries' \in [Peers -> Nat]
  BY DEF Restart
<1>2. faults' \in Nat
  BY FaultTypes DEF Restart, Typed, RestOK
<1>3. TableOK' /\ WireOK' /\ RestOK'
  BY <1>1, <1>2 DEF Typed, TableOK, WireOK, RestOK, stored, wire, decrypted
<1>4. UploadsOK'
  <2>1. upload' \in [Uploaders -> Uploads]
        /\ \A u \in Uploaders : upload'[u].keys = {} /\ upload'[u].pc \in {"idle", "count"}
    BY UploadRecords DEF Restart, Connecting
  <2>2. QED
    BY <2>1 DEF UploadsOK, Doing
<1>5. WorkOK'
  <2>1. Min(Slots) \in Slots
    BY MinIsSmallest, SignalAssumption
  <2>2. Idle \in Jobs /\ Idle.pc = "idle"
    BY DEF Idle, Jobs
  <2>3. job' \in [Slots -> Jobs] /\ \A l \in Slots : job'[l].pc = "idle"
    BY <2>2 DEF Restart
  <2>4. QED
    BY <1>1, <2>1, <2>3 DEF Restart, WorkOK
<1>6. QED
  BY <1>3, <1>4, <1>5 DEF Typed

LEMMA TypedStep ==
  ASSUME Typed, [Next]_vars
  PROVE  Typed'
<1>1. CASE Uploading
  <2>1. ASSUME UploadAges PROVE Typed'
    <3>1. UNCHANGED <<mode, stored, upload, wire, work, decrypted, story>> /\ recent' = FALSE /\ Fault
      BY <2>1 DEF UploadAges
    <3>2. faults' \in Nat
      BY <3>1, FaultTypes DEF Typed, RestOK
    <3>3. TableOK' /\ UploadsOK' /\ WireOK' /\ WorkOK'
      BY <3>1 DEF Typed, TableOK, UploadsOK, Doing, WireOK, WorkOK, stored, wire, work
    <3>4. RestOK'
      BY <3>1, <3>2 DEF Typed, RestOK, decrypted, story
    <3>5. QED
      BY <3>3, <3>4 DEF Typed
  <2>2. QED
    BY <1>1, <2>1, TypedLocking, TypedGetOrGen, TypedSendUpload, TypedMarkUploaded DEF Uploading
<1>2. CASE Receiving
  BY <1>2, TypedDeliver, TypedLeaveBehind, TypedAlreadyDone, TypedLooking, TypedTxnTooLate,
     TypedRemoval, TypedDecryptFails, TypedHandle, TypedClear DEF Receiving
<1>3. CASE Sending
  BY <1>3, TypedAck, TypedNoMoreRetries, TypedFirstReceipt, TypedGenOnePreKey, TypedSendRetryReceipt,
     TypedPlaceholder DEF Sending
<1>4. CASE \/ \E p \in Peers : PeerSends(p)
           \/ \E r \in receipts : handleRetryReceipt(r)
           \/ Reconnect \/ Restart
  BY <1>4, TypedPeerSends, TypedRetryReceipt, TypedReconnect, TypedRestart
<1>5. CASE UNCHANGED vars
  BY <1>5 DEF vars, stored, wire, work, decrypted, story, Typed, TableOK, UploadsOK, Doing, WireOK, WorkOK, RestOK
<1>6. QED
  BY <1>1, <1>2, <1>3, <1>4, <1>5 DEF Next

\* The types, the unique ids and the upload lock that TypeOK states.
LEMMA TypedGivesTypeOK ==
  ASSUME Typed
  PROVE  TypeOK
<1> DEFINE doers == {u \in Uploaders : upload[u].pc \in {"send", "mark"}}
<1>1. Cardinality(doers) <= 1
  <2>1. \A u, v \in doers : u = v
    BY DEF Typed, UploadsOK, Doing
  <2>2. CASE doers = {}
    BY <2>2, FS_EmptySet
  <2>3. CASE doers # {}
    <3>1. PICK u : doers = {u}
      BY <2>1, <2>3
    <3>2. Cardinality({u}) = 1
      BY FS_Singleton
    <3>3. QED
      BY <3>1, <3>2
  <2>4. QED
    BY <2>2, <2>3
<1>2. \A e \in inbox : e.p \in Peers /\ e.n \in 1..sent[e.p] /\ e.s \in Sessions
  BY DEF Typed, WireOK, Envelopes
<1>3. \A u \in Uploaders : upload[u].pc \in {"idle", "count", "lock", "send", "mark"}
                           /\ upload[u].keys \subseteq Keys
  BY DEF Typed, UploadsOK, Uploads
<1>4. \A l \in Slots :
        job[l].pc \in {"idle", "decrypt", "txn", "store", "remove", "handle", "clear", "wait"}
  BY DEF Typed, WorkOK, Jobs, Later
<1>5. \A t \in tasks : t.kind \in {"ack", "count", "send"}
  BY DEF Typed, WorkOK, Tasks
<1>6. rows \subseteq [id : 1..MaxKeys, pair : 1..MaxKeys, up : BOOLEAN]
      /\ \A q, r \in rows : q.id = r.id => q = r
  BY DEF Typed, TableOK, Rows
<1>7. QED
  BY <1>1, <1>2, <1>3, <1>4, <1>5, <1>6 DEF Typed, TableOK, WireOK, WorkOK, RestOK, TypeOK

LEMMA AlwaysTyped == Spec => []Typed
<1>1. Typed /\ [Next]_vars => Typed'
  BY TypedStep
<1>2. QED
  BY StartTyped, <1>1, PTL DEF Spec

\* Every variable keeps its type, no id is stored twice and one goroutine uploads at a
\* time, for any number of peers, handlers, keys and faults: getNextPreKeyID never gives
\* an id that is in the table.
THEOREM TypeCorrect == Spec => []TypeOK
<1>1. Typed => TypeOK
  BY TypedGivesTypeOK
<1>2. QED
  BY AlwaysTyped, <1>1, PTL

-----------------------------------------------------------------------------
(***************************************************************************)
(* A marked row was offered                                                *)
(***************************************************************************)

\* Key pairs are offered once they exist, and doubted once they are offered.
OffersOK == offered \subseteq 1..pairs /\ doubt \subseteq offered

\* A batch has every row that is not marked up to its last id.
Whole ==
  \A u \in Uploaders : \A k \in upload[u].keys : \A r \in rows :
    ~r.up /\ r.id <= k.id => KeyOf(r) \in upload[u].keys

\* The server has the keys of a batch that is about to be marked.
Answered ==
  \A u \in Uploaders : \A k \in upload[u].keys : upload[u].pc = "mark" => k.pair \in offered

Marking == OffersOK /\ MarkedWasOffered /\ Whole /\ Answered

\* Neither the keys of an upload change nor whether it is sent or marked.
SameBatches ==
  \A u \in Uploaders : /\ upload'[u].keys = upload[u].keys
                       /\ upload'[u].pc = "send" <=> upload[u].pc = "send"
                       /\ upload'[u].pc = "mark" <=> upload[u].pc = "mark"

LEMMA StartMarking == Init => Marking
<1> SUFFICES ASSUME Init PROVE Marking
  OBVIOUS
<1>1. \A u \in Uploaders : upload[u].keys = {}
  BY UploadRecords DEF Init, Connecting
<1>2. QED
  BY <1>1 DEF Init, Marking, OffersOK, MarkedWasOffered, Whole, Answered

\* Steps that only take rows away.
LEMMA MarkingCalm ==
  ASSUME Marking, rows' \subseteq rows, UNCHANGED <<pairs, offered, doubt>>, SameBatches
  PROVE  Marking'
<1>1. OffersOK' /\ MarkedWasOffered'
  BY DEF Marking, OffersOK, MarkedWasOffered
<1>2. Whole'
  BY DEF Marking, Whole, SameBatches
<1>3. Answered'
  BY DEF Marking, Answered, SameBatches
<1>4. QED
  BY <1>1, <1>2, <1>3 DEF Marking

\* An uploader without keys that has none after the step either.
LEMMA QuietBatches ==
  ASSUME Typed, NEW u \in Uploaders, ~Doing(u), NEW v \in Uploads,
         v.pc \notin {"send", "mark"}, v.keys = {}, upload' = [upload EXCEPT ![u] = v]
  PROVE  SameBatches
<1>1. upload[u].keys = {} /\ upload'[u] = v /\ \A w \in Uploaders : w # u => upload'[w] = upload[w]
  BY DEF Typed, UploadsOK
<1>2. QED
  BY <1>1 DEF SameBatches, Doing

\* Uploaders that have not begun.
LEMMA CalmLocking ==
  ASSUME Typed, CountKeys \/ handleEncryptNotification \/ \E u \in Uploaders : GiveUpUpload(u)
  PROVE  SameBatches
<1> DEFINE f == UploadedPreKeyCount = 0 /\ Cardinality(pool) = 0
<1>1. f \in BOOLEAN /\ "connect" \in Uploaders /\ "notification" \in Uploaders
  BY DEF Uploaders
<1>2. CASE CountKeys
  <2>1. UploadTo("connect", [NoUpload EXCEPT !.pc = "lock", !.first = f]) \/ UploadTo("connect", NoUpload)
    BY <1>2 DEF CountKeys
  <2>2. ~Doing("connect")
    BY <1>2 DEF CountKeys, UploadPc, Doing
  <2> HIDE DEF f
  <2>3. QED
    BY <1>1, <2>1, <2>2, UploadRecords, QuietBatches DEF UploadTo
<1>3. CASE handleEncryptNotification
  BY <1>1, <1>3, UploadRecords, QuietBatches DEF handleEncryptNotification, UploadTo, UploadPc, Doing
<1>4. CASE \E w \in Uploaders : GiveUpUpload(w)
  BY <1>4, UploadRecords, QuietBatches DEF GiveUpUpload, UploadTo, UploadPc, Doing
<1>5. QED
  BY <1>2, <1>3, <1>4

LEMMA CalmReconnect ==
  ASSUME Typed, Reconnect
  PROVE  SameBatches
<1>1. upload' = [upload EXCEPT !["connect"] = IF @.pc = "idle" THEN [NoUpload EXCEPT !.pc = "count"] ELSE @]
      /\ "connect" \in Uploaders
  BY DEF Reconnect, Authenticated, Uploaders
<1>2. CASE upload["connect"].pc = "idle"
  <2>1. upload' = [upload EXCEPT !["connect"] = [NoUpload EXCEPT !.pc = "count"]]
    BY <1>1, <1>2 DEF Typed, UploadsOK
  <2>2. ~Doing("connect")
    BY <1>2 DEF Doing
  <2>3. QED
    BY <1>1, <2>1, <2>2, UploadRecords, QuietBatches
<1>3. CASE upload["connect"].pc # "idle"
  BY <1>1, <1>3 DEF Typed, UploadsOK, SameBatches
<1>4. QED
  BY <1>2, <1>3

\* The steps that make no key, offer none and mark none.
Calm ==
  \/ CountKeys \/ handleEncryptNotification \/ UploadAges
  \/ \E u \in Uploaders : GiveUpUpload(u)
  \/ Receiving
  \/ \E t \in tasks : sendAck(t) \/ NoMoreRetries(t) \/ FirstReceipt(t) \/ SendRetryReceipt(t)
  \/ \E p \in asked : handlePlaceholderResendResponse(p)
  \/ \E p \in Peers : PeerSends(p)
  \/ \E r \in receipts : handleRetryReceipt(r)
  \/ Reconnect

LEMMA CalmSteps ==
  ASSUME Typed, Calm
  PROVE  rows' \subseteq rows /\ UNCHANGED <<pairs, offered, doubt>> /\ SameBatches
<1>1. UNCHANGED upload => SameBatches
  BY DEF SameBatches
<1>2. CASE CountKeys \/ handleEncryptNotification \/ \E u \in Uploaders : GiveUpUpload(u)
  <2>1. UNCHANGED <<stored, story>>
    BY <1>2 DEF CountKeys, handleEncryptNotification, GiveUpUpload
  <2>2. QED
    BY <1>2, <2>1, CalmLocking DEF stored, story
<1>3. CASE UploadAges
  BY <1>1, <1>3 DEF UploadAges, stored, story
<1>4. CASE Receiving
  <2>1. ASSUME NEW l \in Slots, \/ GetBufferedEvent(l) \/ LoadSession(l) \/ PutSession(l)
                                \/ DoDecryptionTxn(l) \/ DeletePreKey(l)
        PROVE  rows' \subseteq rows /\ UNCHANGED <<pairs, offered, doubt, upload>>
    BY <2>1, Lookings, Removals DEF NotReceiving, stored
  <2>2. ASSUME NEW l \in Slots, \/ AlreadyDone(l) \/ TxnTooLate(l) \/ DecryptFails(l) \/ Handle(l)
                                \/ ClearBufferedEventPlaintext(l)
        PROVE  rows' \subseteq rows /\ UNCHANGED <<pairs, offered, doubt, upload>>
    BY <2>2 DEF AlreadyDone, TxnTooLate, DecryptFails, Handle, ClearBufferedEventPlaintext,
                NotReceiving, stored, story
  <2>3. ASSUME LeaveBehind \/ \E e \in inbox : Deliver(e)
        PROVE  rows' \subseteq rows /\ UNCHANGED <<pairs, offered, doubt, upload>>
    BY <2>3 DEF LeaveBehind, Deliver, NotReceiving, stored, story
  <2>4. QED
    BY <1>1, <1>4, <2>1, <2>2, <2>3 DEF Receiving
<1>5. CASE \E t \in tasks : sendAck(t) \/ NoMoreRetries(t) \/ FirstReceipt(t) \/ SendRetryReceipt(t)
  BY <1>1, <1>5 DEF sendAck, NoMoreRetries, FirstReceipt, SendRetryReceipt, Counted, NotTask, stored, story
<1>6. CASE \E p \in asked : handlePlaceholderResendResponse(p)
  BY <1>1, <1>6 DEF handlePlaceholderResendResponse, NotTask, stored
<1>7. CASE (\E p \in Peers : PeerSends(p)) \/ (\E r \in receipts : handleRetryReceipt(r))
  BY <1>1, <1>7 DEF PeerSends, handleRetryReceipt, NotPeer, stored
<1>8. CASE Reconnect
  BY <1>8, CalmReconnect DEF Reconnect, stored
<1>9. QED
  BY <1>2, <1>3, <1>4, <1>5, <1>6, <1>7, <1>8 DEF Calm

\* The other steps.
LEMMA NextIsCalmOr ==
  ASSUME Next
  PROVE  \/ Calm
         \/ \E u \in Uploaders : GetOrGenPreKeys(u) \/ SendUpload(u) \/ MarkUploaded(u)
         \/ \E t \in tasks : GenOnePreKey(t)
         \/ Restart
BY DEF Next, Calm, Uploading, Sending

\* What GetOrGenPreKeys takes and generates has every unmarked row of the new table up
\* to its last id.
LEMMA BatchIsWhole ==
  ASSUME Typed, NEW u \in Uploaders, Missing(u) \in Nat, Generate(Missing(u), FALSE),
         NEW k \in BatchOf(u), NEW r \in rows', ~r.up, r.id <= k.id
  PROVE  KeyOf(r) \in BatchOf(u)
<1>1. CountFor(u) \in Nat /\ TableOK
  BY SignalAssumption DEF CountFor, Typed
<1>2. rows' = rows \cup NewRows(Missing(u), FALSE) /\ TableOK' /\ pairs + Missing(u) <= MaxKeys
  BY Batches DEF Generate
<1>3. CASE r \in NewRows(Missing(u), FALSE)
  BY <1>3 DEF BatchOf
<1>4. CASE r \in rows
  <2>1. r \in Unuploaded
    BY <1>4 DEF Unuploaded
  <2>2. PICK q \in Old(u) \cup NewRows(Missing(u), FALSE) : k = KeyOf(q)
    BY DEF BatchOf
  <2>3. k.id = q.id
    BY <2>2 DEF KeyOf
  <2>4. r \in Old(u)
    <3>1. CASE q \in Old(u)
      <4>1. \A a \in FirstUnuploaded(CountFor(u)) : \A b \in Unuploaded :
              b.id <= a.id => b \in FirstUnuploaded(CountFor(u))
        BY <1>1, FirstRows
      <4>2. QED
        BY <2>1, <2>3, <3>1, <4>1 DEF Old
    <3>2. CASE q \in NewRows(Missing(u), FALSE)
      <4>1. Missing(u) # 0
        <5>1. 0..(0 - 1) = {}
          OBVIOUS
        <5>2. QED
          BY <3>2, <5>1 DEF NewRows
      <4>2. Cardinality(Old(u)) < CountFor(u)
        BY <1>1, <4>1, FirstRows DEF Missing, Old
      <4>3. Old(u) = Unuploaded
        BY <1>1, <4>2, FirstRows DEF Old
      <4>4. QED
        BY <2>1, <4>3
    <3>3. QED
      BY <2>2, <3>1, <3>2
  <2>5. QED
    BY <2>4 DEF BatchOf
<1>5. QED
  BY <1>2, <1>3, <1>4

LEMMA MarkingGetOrGen ==
  ASSUME Typed, Marking, NEW u \in Uploaders, GetOrGenPreKeys(u)
  PROVE  Marking'
<1>1. UNCHANGED <<offered, doubt>> /\ \A w \in Uploaders : upload[w].keys = {} /\ ~Doing(w)
  BY Generation DEF story, Locked, Doing, Typed, UploadsOK
<1>2. ASSUME NEW n \in Nat, Generate(n, FALSE) PROVE OffersOK' /\ MarkedWasOffered'
  <2>1. rows' = rows \cup NewRows(n, FALSE) /\ pairs' = pairs + n /\ pairs \in Nat /\ pairs + n <= MaxKeys
    BY <1>2 DEF Generate, Typed, TableOK
  <2>2. OffersOK'
    BY <1>1, <2>1 DEF Marking, OffersOK
  <2>3. \A r \in NewRows(n, FALSE) : ~r.up
    BY <2>1, NewRowsOK DEF Typed
  <2>4. QED
    BY <1>1, <2>1, <2>2, <2>3 DEF Marking, MarkedWasOffered
<1>3. CASE /\ Generate(Missing(u), FALSE)
           /\ upload' = [upload EXCEPT ![u] = [upload[u] EXCEPT !.pc = "send", !.keys = BatchOf(u)]]
  <2>1. upload'[u].keys = BatchOf(u) /\ upload'[u].pc = "send"
        /\ \A w \in Uploaders : w # u => upload'[w] = upload[w]
    BY <1>3 DEF Typed, UploadsOK, Uploads
  <2>2. Missing(u) \in Nat
    BY Generation
  <2>3. Whole'
    <3> SUFFICES ASSUME NEW w \in Uploaders, NEW k \in upload'[w].keys, NEW r \in rows', ~r.up, r.id <= k.id
                 PROVE  KeyOf(r) \in upload'[w].keys
      BY DEF Whole, KeyOf
    <3>1. w = u /\ k \in BatchOf(u)
      BY <1>1, <2>1
    <3>2. KeyOf(r) \in BatchOf(u)
      BY <1>3, <2>2, <3>1, BatchIsWhole
    <3>3. QED
      BY <2>1, <3>1, <3>2
  <2>4. Answered'
    BY <1>1, <2>1 DEF Answered
  <2>5. QED
    BY <1>2, <1>3, <2>2, <2>3, <2>4 DEF Marking
<1>4. CASE /\ upload' = [upload EXCEPT ![u] = NoUpload]
           /\ \E n \in Nat : Generate(n, FALSE)
  <2>1. \A w \in Uploaders : upload'[w].keys = {}
    BY <1>1, <1>4, UploadRecords DEF Typed, UploadsOK
  <2>2. Whole' /\ Answered'
    BY <2>1 DEF Whole, Answered
  <2>3. QED
    BY <1>2, <1>4, <2>2 DEF Marking
<1>5. QED
  BY <1>3, <1>4, Generation

\* What SendUpload does: the server takes the keys or not, and its answer comes or not.
LEMMA Sendings ==
  ASSUME Typed, NEW u \in Uploaders, SendUpload(u)
  PROVE  /\ upload[u].pc = "send" /\ Doing(u)
         /\ UNCHANGED <<stored, owners, sent, session, inbox, receipts, tasks, job, known, raced, wiped>>
         /\ \A w \in Uploaders : w # u => upload'[w] = upload[w]
         /\ \/ /\ upload'[u].pc = "mark" /\ upload'[u].keys = upload[u].keys
               /\ Accept(upload[u].keys) /\ doubt' = doubt
            \/ /\ upload'[u] = NoUpload /\ UNCHANGED <<pool, offered, doubt>>
            \/ /\ upload'[u] = NoUpload /\ Accept(upload[u].keys)
               /\ doubt' = doubt \cup PairsOf(upload[u].keys)
<1>1. upload[u] \in Uploads /\ upload \in [Uploaders -> Uploads]
  BY DEF Typed, UploadsOK
<1>2. [upload[u] EXCEPT !.pc = "mark"].pc = "mark" /\ [upload[u] EXCEPT !.pc = "mark"].keys = upload[u].keys
  BY <1>1 DEF Uploads
<1>3. upload[u].pc = "send" /\ Doing(u)
  BY DEF SendUpload, UploadPc, Doing
<1>4. UNCHANGED <<stored, owners, sent, session, inbox, receipts, tasks, job, known, raced, wiped>>
  BY DEF SendUpload, work, decrypted, overlaps
<1>5. CASE /\ UploadTo(u, [upload[u] EXCEPT !.pc = "mark"])
           /\ Accept(upload[u].keys) /\ UNCHANGED doubt
  BY <1>1, <1>2, <1>3, <1>4, <1>5 DEF UploadTo
<1>6. CASE UploadTo(u, NoUpload) /\ UNCHANGED <<pool, offered, doubt>>
  BY <1>1, <1>3, <1>4, <1>6 DEF UploadTo
<1>7. CASE UploadTo(u, NoUpload) /\ Accept(upload[u].keys) /\ doubt' = doubt \cup PairsOf(upload[u].keys)
  BY <1>1, <1>3, <1>4, <1>7 DEF UploadTo
<1>8. QED
  BY <1>5, <1>6, <1>7 DEF SendUpload

LEMMA MarkingSendUpload ==
  ASSUME Typed, Marking, NEW u \in Uploaders, SendUpload(u)
  PROVE  Marking'
<1> DEFINE ks == upload[u].keys
<1>1. UNCHANGED <<rows, pairs>> /\ Doing(u) /\ (\A w \in Uploaders : w # u => upload'[w] = upload[w])
      /\ (\A w \in Uploaders : w # u => ~Doing(w))
  BY Sendings DEF stored, Typed, UploadsOK
<1>2. PairsOf(ks) \subseteq 1..pairs
  BY DEF PairsOf, Typed, UploadsOK, Uploads, Keys, TableOK
<1>3. offered \subseteq offered' /\ OffersOK'
  BY <1>1, <1>2, Sendings DEF Accept, Marking, OffersOK
<1>4. MarkedWasOffered'
  BY <1>1, <1>3 DEF Marking, MarkedWasOffered
<1>5. upload'[u].keys = ks \/ upload'[u].keys = {}
  BY Sendings, UploadRecords
<1>6. Whole'
  BY <1>1, <1>5 DEF Marking, Whole, KeyOf
<1>7. Answered'
  <2> SUFFICES ASSUME NEW w \in Uploaders, NEW k \in upload'[w].keys, upload'[w].pc = "mark"
               PROVE  k.pair \in offered'
    BY DEF Answered
  <2>1. w = u
    BY <1>1 DEF Doing
  <2>2. upload'[u].keys = ks /\ offered' = offered \cup PairsOf(ks)
    BY <2>1, Sendings, UploadRecords DEF Accept
  <2>3. QED
    BY <2>1, <2>2 DEF PairsOf
<1>8. QED
  BY <1>3, <1>4, <1>6, <1>7 DEF Marking

\* What MarkUploaded does, and that the last id is that of a key of the batch.
LEMMA Markings ==
  ASSUME Typed, NEW u \in Uploaders, MarkUploaded(u)
  PROVE  /\ upload[u].pc = "mark" /\ Doing(u)
         /\ UNCHANGED <<pairs, pool, owners, offered, sent, session, inbox, receipts, tasks, job, known, raced, wiped>>
         /\ upload'[u] = NoUpload /\ \A w \in Uploaders : w # u => upload'[w] = upload[w]
         /\ \/ /\ doubt' = doubt
               /\ \E top \in upload[u].keys :
                    /\ \A k \in upload[u].keys : k.id <= top.id
                    /\ rows' = {Marked(r, top.id) : r \in rows}
            \/ /\ doubt' = doubt \cup PairsOf(upload[u].keys)
               /\ rows' = rows
<1>1. upload[u].pc = "mark" /\ Doing(u) /\ UploadTo(u, NoUpload)
      /\ UNCHANGED <<pairs, pool, owners, offered, sent, session, inbox, receipts, tasks, job, known, raced, wiped>>
  BY DEF MarkUploaded, UploadPc, Doing, wire, work, decrypted, overlaps
<1>2. upload'[u] = NoUpload /\ \A w \in Uploaders : w # u => upload'[w] = upload[w]
  BY <1>1 DEF UploadTo, Typed, UploadsOK
<1> DEFINE ids == {k.id : k \in upload[u].keys}
<1>3. PICK top \in upload[u].keys : top.id = Max(ids) /\ \A k \in upload[u].keys : k.id <= top.id
  <2>1. upload[u].keys # {} /\ upload[u].keys \subseteq Keys /\ MaxKeys \in Int /\ 1 \in Int
    BY <1>1, SignalAssumption DEF Typed, UploadsOK, Uploads
  <2>2. \A k \in upload[u].keys : k.id \in 1..MaxKeys
    BY <2>1 DEF Keys
  <2>3. ids \subseteq 1..MaxKeys /\ ids # {} /\ ids \in SUBSET Int
    BY <2>1, <2>2
  <2>4. IsFiniteSet(ids)
    BY <2>1, <2>3, FS_Interval, FS_Subset
  <2>5. Max(ids) \in ids /\ \A x \in ids : Max(ids) >= x
    <3> HIDE DEF ids
    <3> QED
      BY <2>3, <2>4, MaxIsLargest
  <2>6. PICK top \in upload[u].keys : top.id = Max(ids)
    BY <2>5
  <2>7. \A k \in upload[u].keys : top.id >= k.id
    BY <2>5, <2>6
  <2>8. \A k \in upload[u].keys : k.id <= top.id
    BY <2>2, <2>7
  <2>9. QED
    BY <2>6, <2>8
<1>4. CASE MarkPreKeysAsUploaded(Max(ids)) /\ UNCHANGED doubt
  <2>1. rows' = {Marked(r, top.id) : r \in rows}
    BY <1>3, <1>4 DEF MarkPreKeysAsUploaded, Marked
  <2>2. QED
    BY <1>1, <1>2, <1>3, <1>4, <2>1
<1>5. CASE doubt' = doubt \cup PairsOf(upload[u].keys) /\ UNCHANGED rows
  BY <1>1, <1>2, <1>5
<1>6. QED
  BY <1>4, <1>5 DEF MarkUploaded

LEMMA MarkingMarkUploaded ==
  ASSUME Typed, Marking, NEW u \in Uploaders, MarkUploaded(u)
  PROVE  Marking'
<1>1. /\ upload[u].pc = "mark" /\ UNCHANGED <<pairs, offered>>
      /\ \A w \in Uploaders : upload'[w].keys = {}
  BY Markings, UploadRecords DEF Typed, UploadsOK
<1>2. Whole' /\ Answered'
  BY <1>1 DEF Whole, Answered
<1>3. \A k \in upload[u].keys : k.pair \in offered
  BY <1>1 DEF Marking, Answered
<1>4. OffersOK'
  <2>1. PairsOf(upload[u].keys) \subseteq offered
    BY <1>3 DEF PairsOf
  <2>2. doubt' \subseteq doubt \cup PairsOf(upload[u].keys)
    BY Markings
  <2>3. QED
    BY <1>1, <2>1, <2>2 DEF Marking, OffersOK
<1>5. MarkedWasOffered'
  <2>1. CASE rows' = rows
    BY <1>1, <2>1 DEF Marking, MarkedWasOffered
  <2>2. ASSUME NEW top \in upload[u].keys, rows' = {Marked(r, top.id) : r \in rows}
        PROVE  MarkedWasOffered'
    <3> SUFFICES ASSUME NEW x \in rows', x.up PROVE x.pair \in offered
      BY <1>1 DEF MarkedWasOffered
    <3>1. PICK r \in rows : x = Marked(r, top.id)
      BY <2>2
    <3>2. r \in Rows
      BY DEF Typed, TableOK
    <3>3. x.pair = r.pair /\ (r.up \/ r.id <= top.id)
      BY <3>1, <3>2, Marks
    <3>4. CASE r.up
      BY <3>3, <3>4 DEF Marking, MarkedWasOffered
    <3>5. CASE ~r.up
      <4>1. KeyOf(r) \in upload[u].keys
        BY <3>3, <3>5 DEF Marking, Whole
      <4>2. QED
        BY <1>3, <3>2, <3>3, <4>1, KeysOfRows
    <3>6. QED
      BY <3>4, <3>5
  <2>3. QED
    BY <2>1, <2>2, Markings
<1>6. QED
  BY <1>2, <1>4, <1>5 DEF Marking

LEMMA MarkingGenOnePreKey ==
  ASSUME Typed, Marking, NEW t \in tasks, GenOnePreKey(t)
  PROVE  Marking'
<1>1. UNCHANGED <<upload, doubt>>
  BY OneKey DEF Counted, NotTask
<1>2. ASSUME NEW r \in Rows, NewRows(1, TRUE) = {r}, r.up, r.pair = pairs + 1,
             Generate(1, TRUE), offered' = offered \cup {pairs + 1}
      PROVE  Marking'
  <2>1. rows' = rows \cup {r} /\ pairs' = pairs + 1 /\ pairs \in Nat
    <3>1. rows' = rows \cup NewRows(1, TRUE) /\ pairs' = pairs + 1
      BY <1>2 DEF Generate
    <3>2. rows' = rows \cup {r}
      BY <1>2, <3>1, Zenon
    <3>3. pairs \in Nat
      BY DEF Typed, TableOK
    <3>4. QED
      BY <3>1, <3>2, <3>3
  <2>2. OffersOK'
    BY <1>1, <1>2, <2>1 DEF Marking, OffersOK
  <2>3. MarkedWasOffered'
    BY <1>2, <2>1 DEF Marking, MarkedWasOffered
  <2>4. Whole'
    BY <1>1, <1>2, <2>1 DEF Marking, Whole, KeyOf
  <2>5. Answered'
    BY <1>1, <1>2 DEF Marking, Answered
  <2>6. QED
    BY <2>2, <2>3, <2>4, <2>5 DEF Marking
<1>3. ASSUME UNCHANGED <<stored, offered>> PROVE Marking'
  BY <1>1, <1>3, MarkingCalm DEF stored, SameBatches
<1>4. QED
  BY <1>2, <1>3, OneKey

\* What Restart does to the uploads.
LEMMA Restarted ==
  ASSUME Restart
  PROVE  /\ UNCHANGED <<rows, pairs, pool, owners, offered, sent, session, inbox, receipts, known, raced, wiped>>
         /\ tasks' = {} /\ \A l \in Slots : job'[l].pc = "idle"
         /\ \A u \in Uploaders : upload'[u].keys = {} /\ upload'[u].pc \notin {"send", "mark"}
         /\ \A n : n \in doubt' <=> \/ n \in doubt
                                    \/ \E u \in Uploaders : upload[u].pc = "mark"
                                         /\ \E k \in upload[u].keys : k.pair = n
<1>1. UNCHANGED <<rows, pairs, pool, owners, offered, sent, session, inbox, receipts, known, raced, wiped>> /\ tasks' = {}
  BY DEF Restart, stored, wire, decrypted, overlaps
<1>2. \A l \in Slots : job'[l].pc = "idle"
  BY DEF Restart, Idle
<1>3. \A u \in Uploaders : upload'[u].keys = {} /\ upload'[u].pc \notin {"send", "mark"}
  BY UploadRecords DEF Restart, Connecting
<1>4. doubt' = doubt \cup PairsOf(UNION {upload[u].keys : u \in {v \in Uploaders : UploadPc(v, "mark")}})
  BY DEF Restart
<1>5. \A n : n \in doubt' <=> \/ n \in doubt
                              \/ \E u \in Uploaders : upload[u].pc = "mark"
                                   /\ \E k \in upload[u].keys : k.pair = n
  BY <1>4 DEF PairsOf, UploadPc
<1>6. QED
  BY <1>1, <1>2, <1>3, <1>5

LEMMA MarkingRestart ==
  ASSUME Typed, Marking, Restart
  PROVE  Marking'
<1>1. UNCHANGED <<rows, pairs, offered>> /\ \A u \in Uploaders : upload'[u].keys = {}
  BY Restarted
<1>2. doubt' \subseteq offered
  BY Restarted DEF Marking, OffersOK, Answered
<1>3. OffersOK' /\ MarkedWasOffered'
  BY <1>1, <1>2 DEF Marking, OffersOK, MarkedWasOffered
<1>4. Whole' /\ Answered'
  BY <1>1 DEF Whole, Answered
<1>5. QED
  BY <1>3, <1>4 DEF Marking

LEMMA MarkingStep ==
  ASSUME Typed, Marking, [Next]_vars
  PROVE  Marking'
<1>1. CASE Calm
  BY <1>1, CalmSteps, MarkingCalm
<1>2. CASE UNCHANGED vars
  BY <1>2, MarkingCalm DEF vars, stored, story, SameBatches
<1>3. QED
  BY <1>1, <1>2, NextIsCalmOr, MarkingGetOrGen, MarkingSendUpload, MarkingMarkUploaded, MarkingGenOnePreKey,
     MarkingRestart

LEMMA AlwaysMarking == Spec => [](Typed /\ Marking)
<1>1. Typed /\ Marking /\ [Next]_vars => Marking'
  BY MarkingStep
<1>2. QED
  BY StartMarking, AlwaysTyped, <1>1, PTL DEF Spec

\* A row is marked as uploaded only if the server took its key or it was made for a
\* retry receipt, for any sizes of the batches: an upload marks every row up to its last
\* id, and the batch has every unmarked row up to that id.
THEOREM MarkedOnlyIfOffered == Spec => []MarkedWasOffered
<1>1. Typed /\ Marking => MarkedWasOffered
  BY DEF Marking
<1>2. QED
  BY AlwaysMarking, <1>1, PTL

-----------------------------------------------------------------------------
(***************************************************************************)
(* Who has which key                                                       *)
(***************************************************************************)

\* The key is stored, or its row was deleted in the place of an earlier one.
Kept(k) == k \in Stored \/ k.pair \in wiped

\* A key pair that was deleted so does not come again.
WipedOK == wiped \subseteq 1..pairs /\ \A r \in rows : r.pair \notin wiped

\* A batch on its way to the server has keys the server does not know, with their rows,
\* unless an earlier answer was lost.
Fresh ==
  \A u \in Uploaders : \A k \in upload[u].keys :
    upload[u].pc = "send" => (k.pair \notin offered /\ Kept(k)) \/ k.pair \in doubt

\* A key pair has one id, in a batch and at the server.
Distinct ==
  /\ \A u \in Uploaders : \A j, k \in upload[u].keys : j.pair = k.pair => j = k
  /\ \A j, k \in pool : j.pair = k.pair => j = k \/ k.pair \in doubt

\* A row that is not marked although the server has its key is about to be, or the
\* answer was lost.
Unmarked ==
  \A r \in rows : ~r.up /\ r.pair \in offered =>
    \/ r.pair \in doubt
    \/ \E u \in Uploaders : upload[u].pc = "mark" /\ KeyOf(r) \in upload[u].keys

\* A key the server still has is stored and has no owner, unless an answer was lost.
PoolOK ==
  \A k \in pool : /\ k.pair \in offered
                  /\ k.pair \in doubt \/ (Kept(k) /\ \A o \in owners : o[2] # k.pair)

OwnersOK == owners \subseteq Peers \X offered

Ledger == WipedOK /\ Fresh /\ Distinct /\ Unmarked /\ PoolOK /\ OwnersOK /\ OneOwner

\* A key that was made for a retry receipt and is still in it: its row is marked, unless
\* it was deleted in the place of another, and nobody else has the key or will get it.
Ticket(k) ==
  /\ k \in Keys /\ k.pair \in offered /\ k.pair \notin doubt
  /\ k.pair \in wiped \/ \E r \in rows : r.up /\ KeyOf(r) = k
  /\ \A x \in pool : x.pair # k.pair
  /\ \A o \in owners : o[2] # k.pair
  /\ \A u \in Uploaders : \A x \in upload[u].keys : x.pair # k.pair

\* No two receipts, sent or to be sent, have the same key pair.
Apart(ts, rs) ==
  /\ \A x, y \in ts : x.key # NoKey /\ y.key # NoKey /\ x.key.pair = y.key.pair => x = y
  /\ \A x, y \in rs : x.key # NoKey /\ y.key # NoKey /\ x.key.pair = y.key.pair => x = y
  /\ \A x \in ts, y \in rs : x.key # NoKey /\ y.key # NoKey => x.key.pair # y.key.pair

Tickets ==
  /\ \A x \in tasks \cup receipts : x.key # NoKey => Ticket(x.key)
  /\ Apart(tasks, receipts)

\* The session s of peer p was started with a key p was given, and this device has the
\* session, or the key to start it with, but for what overlapping goroutines do.
Given(p, s) == s \in Keys => <<p, s.pair>> \in owners
Has(p, s) == <<p, s>> \in known \/ p \in raced
Works(p, s) == s \in Keys => Has(p, s) \/ Kept(s) \/ s.pair \in doubt

SendersOK ==
  /\ \A p \in Peers : /\ Given(p, session[p]) /\ Works(p, session[p])
                      /\ sent[p] > 0 => session[p] # Absent
  /\ \A e \in inbox : e.s # Absent /\ Given(e.p, e.s) /\ Works(e.p, e.s)

\* What is in hand came from a peer that sent something, and a prekey is deleted when the
\* session it started is stored.
HandsOK ==
  /\ \A l \in Slots : job[l].pc # "idle" => Given(job[l].e.p, job[l].e.s) /\ sent[job[l].e.p] > 0
  /\ \A l \in Slots : job[l].pc = "remove" => Has(job[l].e.p, job[l].e.s)
  /\ \A t \in tasks : sent[t.e.p] > 0
  /\ \A r \in receipts : sent[r.p] > 0

Owned == Ledger /\ Tickets /\ SendersOK /\ HandsOK

LEMMA StoredKeys ==
  ASSUME Typed
  PROVE  /\ Stored \subseteq Keys
         /\ \A k \in Stored : \E r \in rows : r \in Rows /\ KeyOf(r) = k /\ r.id = k.id /\ r.pair = k.pair
         /\ \A r \in rows : KeyOf(r) \in Stored
         /\ \A k \in Stored, r \in rows : r.pair = k.pair \/ r.id = k.id => KeyOf(r) = k
         /\ \A j, k \in Stored : j.pair = k.pair => j = k
<1>1. \A r \in rows : r \in Rows /\ KeyOf(r) \in Keys /\ KeyOf(r).id = r.id /\ KeyOf(r).pair = r.pair
  BY KeysOfRows DEF Typed, TableOK
<1>2. \A k \in Stored : \E r \in rows : r \in Rows /\ KeyOf(r) = k /\ r.id = k.id /\ r.pair = k.pair
  BY <1>1 DEF Stored
<1>3. \A r \in rows : KeyOf(r) \in Stored
  BY DEF Stored
<1>4. \A k \in Stored, r \in rows : r.pair = k.pair \/ r.id = k.id => KeyOf(r) = k
  BY <1>2 DEF Typed, TableOK
<1>5. \A j, k \in Stored : j.pair = k.pair => j = k
  BY <1>2, <1>4
<1>6. QED
  BY <1>1, <1>2, <1>3, <1>4, <1>5

LEMMA StartOwned == Init => Owned
<1> SUFFICES ASSUME Init PROVE Owned
  OBVIOUS
<1>1. \A u \in Uploaders : upload[u].keys = {}
  BY UploadRecords DEF Init, Connecting
<1>2. Ledger
  BY <1>1 DEF Init, Ledger, WipedOK, Fresh, Distinct, Unmarked, PoolOK, OwnersOK, OneOwner
<1>3. Tickets
  BY DEF Init, Tickets, Apart
<1>4. SendersOK
  <2>1. PICK start \in Starts : session = start.session
    BY DEF Init
  <2>2. \A p \in Peers : session[p] \in {Stale, Signed, Absent} /\ session[p] \notin Keys
    BY <2>1, StartsAssumption, SomeSessions
  <2>3. \A p \in Peers : ~(sent[p] > 0)
    BY DEF Init
  <2>4. QED
    BY <2>2, <2>3 DEF Init, SendersOK, Given, Works
<1>5. HandsOK
  <2>1. \A l \in Slots : job[l].pc = "idle"
    BY DEF Init, Idle
  <2>2. QED
    BY <2>1 DEF Init, HandsOK
<1>6. QED
  BY <1>2, <1>3, <1>4, <1>5 DEF Owned

\* The ledger and the tickets when no key moves.
LEMMA LedgerStays ==
  ASSUME Ledger, UNCHANGED <<rows, pairs, pool, owners, offered, doubt, wiped>>, SameBatches
  PROVE  /\ Ledger'
         /\ \A k : Ticket(k) => Ticket(k)'
<1>1. Stored' = Stored
  BY DEF Stored
<1>2. Fresh'
  BY <1>1 DEF Ledger, Fresh, Kept, SameBatches
<1>3. Unmarked'
  BY DEF Ledger, Unmarked, SameBatches, KeyOf
<1>4. PoolOK' /\ OwnersOK' /\ OneOwner' /\ WipedOK'
  BY <1>1 DEF Ledger, PoolOK, Kept, OwnersOK, OneOwner, WipedOK
<1>5. Distinct'
  BY DEF Ledger, Distinct, SameBatches
<1>6. \A k : Ticket(k) => Ticket(k)'
  BY DEF Ticket, SameBatches, KeyOf
<1>7. QED
  BY <1>2, <1>3, <1>4, <1>5, <1>6 DEF Ledger

\* No session is lost but one of a peer that overlapping goroutines have.
HasNext(p, s) == <<p, s>> \in known' \/ p \in raced'
Holding == \A p, s : Has(p, s) => HasNext(p, s)

LEMMA HoldingStays ==
  ASSUME known \subseteq known', raced \subseteq raced'
  PROVE  Holding
BY DEF Holding, Has, HasNext

LEMMA SendersStay ==
  ASSUME SendersOK, UNCHANGED <<rows, owners, session, sent, wiped>>, doubt \subseteq doubt',
         Holding, inbox' \subseteq inbox
  PROVE  SendersOK'
<1>1. Stored' = Stored
  BY DEF Stored
<1>2. \A p, s : (Given(p, s) => Given(p, s)') /\ (Works(p, s) => Works(p, s)')
  BY <1>1 DEF Given, Works, Kept, Holding, Has, HasNext
<1>3. QED
  BY <1>2 DEF SendersOK

\* Handlers and goroutines that pass on what they have.
LEMMA OwnedWork ==
  ASSUME Typed, Owned, UNCHANGED <<rows, pairs, pool, owners, offered, doubt, wiped, session, sent>>,
         Holding, inbox' \subseteq inbox, SameBatches,
         \A l \in Slots : job'[l].pc # "idle" => \/ job[l].pc # "idle" /\ job'[l].e = job[l].e
                                                 \/ job'[l].e \in inbox,
         \A l \in Slots : job'[l].pc = "remove" => job'[l] = job[l] \/ HasNext(job'[l].e.p, job'[l].e.s),
         \A x \in tasks' : sent[x.e.p] > 0,
         \A x \in receipts' : sent[x.p] > 0,
         \A x \in tasks' \cup receipts' : x.key = NoKey \/ \E y \in tasks \cup receipts : y.key = x.key,
         Apart(tasks', receipts')
  PROVE  Owned'
<1>1. Ledger' /\ \A k : Ticket(k) => Ticket(k)'
  BY LedgerStays DEF Owned
<1>2. Tickets'
  BY <1>1 DEF Owned, Tickets
<1>3. SendersOK'
  BY SendersStay DEF Owned
<1>4. \A e \in inbox : Given(e.p, e.s) /\ sent[e.p] > 0
  BY DEF Owned, SendersOK, Typed, WireOK, Envelopes
<1>5. owners' = owners
  OBVIOUS
<1>6. \A l \in Slots : job'[l].pc # "idle" => Given(job'[l].e.p, job'[l].e.s) /\ sent[job'[l].e.p] > 0
  BY <1>4 DEF Owned, HandsOK
<1>7. \A l \in Slots : job'[l].pc = "remove" => HasNext(job'[l].e.p, job'[l].e.s)
  BY DEF Owned, HandsOK, Holding
<1>8. HandsOK'
  BY <1>5, <1>6, <1>7 DEF HandsOK, Given, Has, HasNext
<1>9. QED
  BY <1>1, <1>2, <1>3, <1>8 DEF Owned

\* A handler's step, with the tasks it adds.
LEMMA OwnedHandler ==
  ASSUME Typed, Owned, NEW l \in Slots, job[l].pc # "idle", NEW pc \in Later,
         JobTo(l, pc) \/ job' = [job EXCEPT ![l] = Idle],
         pc = "remove" => HasNext(job[l].e.p, job[l].e.s),
         tasks' \subseteq tasks \cup {AckTask(job[l].e), RetryTask(job[l].e)},
         NotReceiving, UNCHANGED <<rows, pairs, owners, offered, doubt, wiped>>, Holding
  PROVE  Owned'
<1>1. UNCHANGED <<pool, session, sent, inbox, receipts, upload>>
  BY DEF NotReceiving, wire
<1>2. \A k \in Slots : job'[k].pc # "idle" => job[k].pc # "idle" /\ job'[k].e = job[k].e
  BY NextJob DEF Typed
<1>3. job[l].e \in Envelopes /\ sent[job[l].e.p] > 0
  BY DEF Typed, WorkOK, Owned, HandsOK
<1>4. \A x \in tasks' : x \in tasks \/ (x.key = NoKey /\ x.e = job[l].e)
  BY <1>3, Acks
<1>5. \A x \in tasks' : sent[x.e.p] > 0
  BY <1>3, <1>4 DEF Owned, HandsOK
<1>6. Apart(tasks', receipts')
  BY <1>1, <1>4 DEF Owned, Tickets, Apart
<1>7. SameBatches
  BY <1>1 DEF SameBatches
<1>8. \A k \in Slots : job'[k].pc = "remove" => job'[k] = job[k] \/ HasNext(job'[k].e.p, job'[k].e.s)
  <2> TAKE k \in Slots
  <2> HAVE job'[k].pc = "remove"
  <2>1. k # l => job'[k] = job[k]
    BY NextJob DEF Typed
  <2>2. k = l => pc = "remove" /\ job'[l].e = job[l].e
    BY NextJob DEF Typed
  <2>3. QED
    BY <2>1, <2>2
<1>9. QED
  BY <1>1, <1>2, <1>4, <1>5, <1>6, <1>7, <1>8, OwnedWork DEF Owned, HandsOK

\* What StoreSession keeps: with the record as it is nothing goes, and else nothing of
\* another peer.
LEMMA Storing ==
  ASSUME NEW e, NEW record, StoreSession(e, record)
  PROVE  /\ <<e.p, e.s>> \in known' /\ Hash(e) \in spent'
         /\ \A k \in known : k[1] # e.p => k \in known'
         /\ \A h \in spent : h[1] # e.p => h \in spent'
         /\ \A h \in spent' : h = Hash(e) \/ h \in record.spent \/ (h \in spent /\ h[1] # e.p)
         /\ record = Record(e.p) => known' = known \cup {<<e.p, e.s>>} /\ spent' = spent \cup {Hash(e)}
<1>1. /\ known' = (known \ Record(e.p).known) \cup record.known \cup {<<e.p, e.s>>}
      /\ spent' = (spent \ Record(e.p).spent) \cup record.spent \cup {Hash(e)}
  BY DEF StoreSession
<1>2. /\ Record(e.p).known = {k \in known : k[1] = e.p}
      /\ Record(e.p).spent = {h \in spent : h[1] = e.p}
  BY DEF Record
<1>3. QED
  BY <1>1, <1>2

\* Overlapping goroutines only make a peer one of the raced.
LEMMA StoreHolds ==
  ASSUME NEW e, NEW record, StoreSession(e, record),
         raced' = IF record = Record(e.p) THEN raced ELSE raced \cup {e.p}
  PROVE  Holding /\ HasNext(e.p, e.s)
<1>1. HasNext(e.p, e.s)
  BY Storing DEF HasNext
<1>2. CASE record = Record(e.p)
  BY <1>1, <1>2, Storing, HoldingStays
<1>3. CASE record # Record(e.p)
  <2> SUFFICES ASSUME NEW p, NEW s, Has(p, s) PROVE HasNext(p, s)
    BY <1>1 DEF Holding
  <2>1. raced' = raced \cup {e.p}
    BY <1>3
  <2>2. <<p, s>> \in known /\ p # e.p => <<p, s>> \in known'
    <3>1. <<p, s>>[1] = p
      OBVIOUS
    <3>2. QED
      BY <3>1, Storing
  <2>3. QED
    BY <2>1, <2>2 DEF Has, HasNext
<1>4. QED
  BY <1>1, <1>2, <1>3

LEMMA OwnedReceiving ==
  ASSUME Typed, Owned, Receiving, \A l \in Slots : ~DoDecryptionTxn(l) /\ ~DeletePreKey(l)
  PROVE  Owned'
<1>1. UNCHANGED upload => SameBatches
  BY DEF SameBatches
<1>2. ASSUME NEW e \in inbox, Deliver(e) PROVE Owned'
  <2>1. UNCHANGED <<rows, pairs, pool, owners, offered, doubt, wiped, session, sent, known, raced, inbox, tasks,
                    receipts, upload>>
    BY <1>2 DEF Deliver, NotReceiving, stored, story, overlaps, wire, decrypted
  <2>2. conn \in Slots /\ job' = [job EXCEPT ![conn] = [pc |-> "decrypt", e |-> e]]
    BY <1>2 DEF Deliver, Typed, WorkOK
  <2>3. \A l \in Slots : job'[l].pc # "idle" => (job[l].pc # "idle" /\ job'[l].e = job[l].e) \/ job'[l].e \in inbox
    BY <2>2 DEF Typed, WorkOK
  <2>4. \A l \in Slots : job'[l].pc = "remove" => job'[l] = job[l]
    BY <2>2 DEF Typed, WorkOK
  <2>5. QED
    BY <1>1, <2>1, <2>3, <2>4, OwnedWork, HoldingStays DEF Owned, HandsOK, Tickets
<1>3. ASSUME LeaveBehind PROVE Owned'
  <2>1. UNCHANGED <<rows, pairs, pool, owners, offered, doubt, wiped, session, sent, known, raced, inbox, tasks,
                    receipts, upload, job>>
    BY <1>3 DEF LeaveBehind, stored, story, overlaps, wire, decrypted
  <2>2. QED
    BY <1>1, <2>1, OwnedWork, HoldingStays DEF Owned, HandsOK, Tickets
<1>4. ASSUME NEW l \in Slots, AlreadyDone(l) \/ TxnTooLate(l) \/ DecryptFails(l)
             \/ ClearBufferedEventPlaintext(l)
      PROVE  Owned'
  <2>1. job[l].pc # "idle" /\ Done(l) /\ NotReceiving
        /\ UNCHANGED <<rows, pairs, owners, offered, doubt, wiped, known>> /\ raced \subseteq raced'
    BY <1>4 DEF AlreadyDone, TxnTooLate, DecryptFails, ClearBufferedEventPlaintext, stored, story, overlaps,
                decrypted
  <2>2. tasks' \subseteq tasks \cup {AckTask(job[l].e), RetryTask(job[l].e)}
    BY <1>4 DEF AlreadyDone, TxnTooLate, DecryptFails, ClearBufferedEventPlaintext
  <2>3. QED
    BY <2>1, <2>2, OwnedHandler, HoldingStays DEF Done, Later
<1>5. ASSUME NEW l \in Slots, GetBufferedEvent(l) \/ LoadSession(l) PROVE Owned'
  <2>1. PICK pc \in Later : JobTo(l, pc) /\ pc # "remove"
    BY <1>5 DEF GetBufferedEvent, LoadSession, Later
  <2>2. NotReceiving /\ job[l].pc # "idle"
        /\ UNCHANGED <<rows, pairs, owners, offered, doubt, wiped, known, raced, tasks>>
    BY <1>5 DEF GetBufferedEvent, LoadSession, stored, story, overlaps, decrypted
  <2>3. QED
    BY <2>1, <2>2, OwnedHandler, HoldingStays
<1>6. ASSUME NEW l \in Slots, PutSession(l) PROVE Owned'
  <2>1. PICK pc \in Later : JobTo(l, pc)
    BY <1>6, Lookings
  <2>2. NotReceiving /\ job[l].pc # "idle" /\ UNCHANGED <<rows, pairs, owners, offered, doubt, wiped, tasks>>
    BY <1>6, Lookings DEF stored
  <2>3. StoreSession(job[l].e, view[l])
        /\ raced' = IF view[l] = Record(job[l].e.p) THEN raced ELSE raced \cup {job[l].e.p}
    BY <1>6 DEF PutSession
  <2>4. Holding /\ HasNext(job[l].e.p, job[l].e.s)
    BY <2>3, StoreHolds
  <2>5. QED
    BY <2>1, <2>2, <2>4, OwnedHandler
<1>7. ASSUME NEW l \in Slots, Handle(l) PROVE Owned'
  <2>1. job[l].pc = "handle" /\ NotReceiving
        /\ UNCHANGED <<rows, pairs, owners, offered, doubt, wiped, known, raced>>
    BY <1>7 DEF Handle, stored, decrypted, overlaps
  <2>2. JobTo(l, "clear") \/ JobTo(l, "wait") \/ job' = [job EXCEPT ![l] = Idle]
    BY <1>7 DEF Handle, Done
  <2>3. tasks' \subseteq tasks \cup {AckTask(job[l].e), RetryTask(job[l].e)}
    BY <1>7 DEF Handle
  <2>4. CASE JobTo(l, "clear")
    BY <2>1, <2>3, <2>4, OwnedHandler, HoldingStays DEF Later
  <2>5. CASE JobTo(l, "wait") \/ job' = [job EXCEPT ![l] = Idle]
    BY <2>1, <2>3, <2>5, OwnedHandler, HoldingStays DEF Later
  <2>6. QED
    BY <2>2, <2>4, <2>5
<1>8. QED
  BY <1>2, <1>3, <1>4, <1>5, <1>6, <1>7 DEF Receiving

\* A prekey's id is deleted: the key of the message that started a session, which only the
\* peer that sent it has, or else a key pair that has the id by now.
LEMMA OwnedRemoval ==
  ASSUME Typed, Marking, Owned, NEW l \in Slots, job[l].pc # "idle", JobTo(l, "handle"), NotReceiving,
         UNCHANGED <<pairs, tasks, owners, offered, doubt>>,
         NEW k, k = job[l].e.s, NEW p, p = job[l].e.p, rows' = {r \in rows : r.id # k.id},
         wiped \subseteq wiped', wiped' \subseteq wiped \cup Wiped(job[l].e),
         \A r \in rows : r.id = k.id => r.pair \in wiped' \/ KeyOf(r) = k,
         Holding, HasNext(p, k)
  PROVE  Owned'
<1>1. UNCHANGED <<pool, session, sent, inbox, receipts, upload>> /\ SameBatches
  BY DEF NotReceiving, wire, SameBatches
<1>2. k \in Stored => k \in Keys /\ <<p, k.pair>> \in owners /\ k.pair \in offered
  <2> HAVE k \in Stored
  <2>1. k \in Keys
    BY StoredKeys
  <2>2. <<p, k.pair>> \in owners
    BY <2>1 DEF Owned, HandsOK, Given
  <2>3. QED
    BY <2>1, <2>2 DEF Owned, Ledger, OwnersOK
<1>3. \A r \in rows : r \in rows' \/ r.pair \in wiped' \/ (KeyOf(r) = k /\ k \in Stored)
  BY StoredKeys
<1>4. \A j : Kept(j) => Kept(j)' \/ (j = k /\ k \in Stored)
  <2> TAKE j
  <2> HAVE Kept(j)
  <2>1. CASE j.pair \in wiped
    BY <2>1 DEF Kept
  <2>2. CASE j \in Stored
    <3>1. PICK r \in rows : KeyOf(r) = j /\ r.pair = j.pair
      BY <2>2, StoredKeys
    <3>2. r \in rows' => j \in Stored'
      BY <3>1 DEF Stored, KeyOf
    <3>3. QED
      BY <1>3, <3>1, <3>2 DEF Kept
  <2>3. QED
    BY <2>1, <2>2 DEF Kept
<1>5. WipedOK'
  <2>1. \A n \in Wiped(job[l].e) : \E r \in rows : r.id = k.id /\ r.pair = n
    BY DEF Wiped
  <2>2. \A n \in Wiped(job[l].e) : n \in 1..pairs /\ \A r \in rows' : r.pair # n
    BY <2>1 DEF Typed, TableOK, Rows
  <2>3. QED
    BY <2>2 DEF Owned, Ledger, WipedOK
<1>6. Fresh'
  <2> SUFFICES ASSUME NEW u \in Uploaders, NEW j \in upload[u].keys, upload[u].pc = "send"
               PROVE  (j.pair \notin offered /\ Kept(j)') \/ j.pair \in doubt
    BY <1>1 DEF Fresh, SameBatches, Kept
  <2>1. (j.pair \notin offered /\ Kept(j)) \/ j.pair \in doubt
    BY DEF Owned, Ledger, Fresh
  <2>2. QED
    BY <1>2, <1>4, <2>1
<1>7. Unmarked' /\ Distinct'
  BY <1>1 DEF Owned, Ledger, Unmarked, Distinct, SameBatches, KeyOf
<1>8. \A o \in owners : o = <<p, k.pair>> => o[2] = k.pair
  OBVIOUS
<1>9. PoolOK'
  <2> SUFFICES ASSUME NEW x \in pool
               PROVE  /\ x.pair \in offered
                      /\ x.pair \in doubt \/ (Kept(x)' /\ \A o \in owners : o[2] # x.pair)
    BY <1>1 DEF PoolOK, Kept
  <2>1. x.pair \in offered /\ (x.pair \in doubt \/ (Kept(x) /\ \A o \in owners : o[2] # x.pair))
    BY DEF Owned, Ledger, PoolOK
  <2>2. x = k /\ k \in Stored => x.pair \in doubt
    BY <1>2, <1>8, <2>1
  <2>3. QED
    BY <1>4, <2>1, <2>2
<1>10. OwnersOK' /\ OneOwner'
  BY DEF Owned, Ledger, OwnersOK, OneOwner
<1>11. \A j : Ticket(j) => Ticket(j)'
  <2> TAKE j
  <2> HAVE Ticket(j)
  <2>1. ~(j = k /\ k \in Stored)
    BY <1>2, <1>8 DEF Ticket
  <2>2. j.pair \in wiped' \/ \E r \in rows' : r.up /\ KeyOf(r) = j
    <3>1. CASE j.pair \in wiped
      BY <3>1
    <3>2. ASSUME NEW r \in rows, r.up, KeyOf(r) = j PROVE j.pair \in wiped' \/ r \in rows'
      BY <1>3, <2>1, <3>2 DEF KeyOf
    <3>3. QED
      BY <3>1, <3>2 DEF Ticket
  <2>3. QED
    BY <1>1, <2>2 DEF Ticket, SameBatches, KeyOf
<1>12. Tickets'
  BY <1>1, <1>11 DEF Owned, Tickets
<1>13. \A q, s : Given(q, s) => Given(q, s)'
  BY DEF Given
<1>14. ASSUME NEW q, NEW s, Given(q, s), Works(q, s) PROVE Works(q, s)'
  <2> SUFFICES ASSUME s \in Keys PROVE HasNext(q, s) \/ Kept(s)' \/ s.pair \in doubt
    BY DEF Works, Has, HasNext
  <2>1. Has(q, s) \/ Kept(s) \/ s.pair \in doubt
    BY <1>14 DEF Works
  <2>2. ASSUME s = k, k \in Stored PROVE q = p \/ s.pair \in doubt
    <3>1. <<q, k.pair>> \in owners
      BY <1>14, <2>2 DEF Given
    <3>2. <<q, k.pair>>[1] = <<p, k.pair>>[1] \/ <<q, k.pair>>[2] \in doubt
      BY <1>2, <2>2, <3>1, Zenon DEF Owned, Ledger, OneOwner
    <3>3. QED
      BY <2>2, <3>2
  <2>3. QED
    BY <1>4, <2>1, <2>2 DEF Holding
<1>15. SendersOK'
  BY <1>1, <1>13, <1>14 DEF Owned, SendersOK
<1>16. HandsOK'
  <2>1. \A i \in Slots : /\ job'[i].pc # "idle" => job[i].pc # "idle" /\ job'[i].e = job[i].e
                         /\ job'[i].pc = "remove" => job'[i] = job[i]
    BY NextJob DEF Typed, Later
  <2>2. \A i \in Slots : job'[i].pc # "idle" => Given(job'[i].e.p, job'[i].e.s) /\ sent[job'[i].e.p] > 0
    BY <2>1 DEF Owned, HandsOK
  <2>3. \A i \in Slots : job'[i].pc = "remove" => HasNext(job'[i].e.p, job'[i].e.s)
    BY <2>1 DEF Owned, HandsOK, Holding
  <2>4. QED
    BY <1>1, <2>2, <2>3 DEF Owned, HandsOK, Given, Has, HasNext
<1>17. QED
  BY <1>5, <1>6, <1>7, <1>9, <1>10, <1>12, <1>15, <1>16 DEF Owned, Ledger

LEMMA OwnedDeletePreKey ==
  ASSUME Typed, Marking, Owned, NEW l \in Slots, DeletePreKey(l)
  PROVE  Owned'
<1> DEFINE e == job[l].e
<1>1. job[l].pc = "remove" /\ JobTo(l, "handle") /\ NotReceiving
      /\ UNCHANGED <<pairs, tasks, owners, offered, doubt, known, raced>>
      /\ rows' = {r \in rows : r.id # e.s.id} /\ wiped' = wiped \cup Wiped(e)
  BY DEF DeletePreKey, RemovePreKey, decrypted
<1>2. \A r \in rows : r.id = e.s.id => r.pair \in wiped' \/ KeyOf(r) = e.s
  <2> TAKE r \in rows
  <2> HAVE r.id = e.s.id
  <2>1. CASE r.pair # e.s.pair
    BY <1>1, <2>1 DEF Wiped
  <2>2. CASE r.pair = e.s.pair
    <3>1. e \in Envelopes
      BY <1>1 DEF Typed, WorkOK
    <3>2. e.s \in Sessions
      BY <3>1 DEF Envelopes
    <3>3. r.id > 0 /\ r \in Rows
      BY DEF Typed, TableOK, Rows
    <3>4. e.s \in Keys
      BY <3>2, <3>3 DEF Sessions, Stale, Signed, Absent, NoKey
    <3>5. e.s = [id |-> r.id, pair |-> r.pair]
      BY <2>2, <3>4 DEF Keys
    <3>6. QED
      BY <3>5 DEF KeyOf
  <2>3. QED
    BY <2>1, <2>2
<1>3. HasNext(e.p, e.s) /\ Holding
  BY <1>1, HoldingStays DEF Owned, HandsOK, Has, HasNext
<1>4. PICK k, p : k = e.s /\ p = e.p
  OBVIOUS
<1>5. QED
  BY <1>1, <1>2, <1>3, <1>4, OwnedRemoval

LEMMA OwnedTxn ==
  ASSUME Typed, Marking, Owned, NEW l \in Slots, DoDecryptionTxn(l)
  PROVE  Owned'
<1> DEFINE e == job[l].e
<1>1. job[l].pc = "txn" /\ JobTo(l, "handle") /\ NotReceiving
      /\ UNCHANGED <<pairs, tasks, owners, offered, doubt, wiped, raced>>
  BY DEF DoDecryptionTxn, story, overlaps
<1>2. Decryptable(e) /\ known' = known \cup {<<e.p, e.s>>}
      /\ rows' = IF InSession(e) THEN rows ELSE {r \in rows : r.id # e.s.id}
  BY Storing DEF DoDecryptionTxn, RemovePreKey
<1>3. Holding /\ HasNext(e.p, e.s)
  BY <1>1, <1>2, HoldingStays DEF HasNext
<1>4. ASSUME rows' = rows PROVE Owned'
  BY <1>1, <1>3, <1>4, OwnedHandler DEF Later
<1>5. CASE ~InSession(e) /\ e.s = Signed
  <2>1. e.s.id = 0 /\ \A r \in rows : r.id # 0
    BY <1>5 DEF Signed, NoKey, Typed, TableOK, Rows
  <2>2. rows' = rows
    BY <1>2, <1>5, <2>1
  <2>3. QED
    BY <1>4, <2>2
<1>6. CASE ~InSession(e) /\ e.s \in Stored
  <2>1. \A r \in rows : r.id = e.s.id => KeyOf(r) = e.s
    BY <1>6, StoredKeys
  <2>2. PICK k, p : k = e.s /\ p = e.p
    OBVIOUS
  <2>3. QED
    BY <1>1, <1>2, <1>3, <1>6, <2>1, <2>2, OwnedRemoval
<1>7. QED
  BY <1>2, <1>4, <1>5, <1>6 DEF Decryptable

-----------------------------------------------------------------------------

LEMMA OwnedSending ==
  ASSUME Typed, Owned, NEW t \in tasks,
         sendAck(t) \/ NoMoreRetries(t) \/ FirstReceipt(t) \/ SendRetryReceipt(t)
  PROVE  Owned'
<1>1. t \in Tasks /\ t.e \in Envelopes /\ sent[t.e.p] > 0
  BY DEF Typed, WorkOK, Tasks, Owned, HandsOK
<1>2. AckTask(t.e).key = NoKey /\ AckTask(t.e).e = t.e
  BY <1>1, Acks
<1>3. UNCHANGED upload => SameBatches
  BY DEF SameBatches
<1>4. CASE sendAck(t)
  <2>1. UNCHANGED <<rows, pairs, pool, owners, offered, doubt, wiped, raced, session, sent, known, receipts, upload>>
        /\ inbox' \subseteq inbox /\ tasks' \subseteq tasks
    BY <1>4 DEF sendAck, NotTask, stored, story, overlaps, decrypted
  <2>2. \A l \in Slots : job'[l].pc # "idle" => job'[l] = job[l]
    BY <1>4 DEF sendAck, Idle
  <2>3. Apart(tasks', receipts')
    BY <2>1 DEF Owned, Tickets, Apart
  <2>4. QED
    BY <1>3, <2>1, <2>2, <2>3, OwnedWork, HoldingStays DEF Owned, HandsOK
<1>5. CASE NoMoreRetries(t)
  <2>1. UNCHANGED <<rows, pairs, pool, owners, offered, doubt, wiped, raced, session, sent, known, receipts, upload, inbox, job>>
    BY <1>5 DEF NoMoreRetries, Counted, NotTask, stored, decrypted, overlaps
  <2>2. tasks' \subseteq (tasks \ {t}) \cup {AckTask(t.e)}
    BY <1>5, Endings DEF NoMoreRetries
  <2>3. \A x \in tasks' : x \in tasks \/ (x.key = NoKey /\ x.e = t.e)
    BY <1>2, <2>2
  <2>4. Apart(tasks', receipts')
    BY <2>1, <2>3 DEF Owned, Tickets, Apart
  <2>5. \A x \in tasks' : sent[x.e.p] > 0
    BY <1>1, <2>3 DEF Owned, HandsOK
  <2>6. QED
    BY <1>3, <2>1, <2>3, <2>4, <2>5, OwnedWork, HoldingStays DEF Owned, HandsOK
<1>6. CASE FirstReceipt(t)
  <2> DEFINE v == [t EXCEPT !.kind = "send", !.count = 1]
  <2>1. UNCHANGED <<rows, pairs, pool, owners, offered, doubt, wiped, raced, session, sent, known, receipts, upload, inbox, job>>
    BY <1>6 DEF FirstReceipt, Counted, NotTask, stored, decrypted, overlaps
  <2>2. tasks' = (tasks \ {t}) \cup {v}
    BY <1>6 DEF FirstReceipt, Becomes
  <2>3. v.key = t.key /\ v.e = t.e
    BY <1>1 DEF Tasks
  <2> HIDE DEF v
  <2>4. Apart(tasks', receipts')
    BY <2>1, <2>2, <2>3 DEF Owned, Tickets, Apart
  <2>5. \A x \in tasks' : sent[x.e.p] > 0
    BY <1>1, <2>2, <2>3 DEF Owned, HandsOK
  <2>6. \A x \in tasks' \cup receipts' : \E y \in tasks \cup receipts : y.key = x.key
    BY <2>1, <2>2, <2>3
  <2>7. QED
    BY <1>3, <2>1, <2>4, <2>5, <2>6, OwnedWork, HoldingStays DEF Owned, HandsOK
<1>7. CASE SendRetryReceipt(t)
  <2> DEFINE r == [p |-> t.e.p, count |-> t.count, key |-> t.key]
  <2>1. UNCHANGED <<rows, pairs, pool, owners, offered, doubt, wiped, raced, session, sent, known, upload, inbox, job>>
    BY <1>7 DEF SendRetryReceipt, NotTask, stored, decrypted, overlaps
  <2>2. tasks' \subseteq (tasks \ {t}) \cup {AckTask(t.e)} /\ receipts' \subseteq receipts \cup {r}
    BY <1>7, Endings DEF SendRetryReceipt
  <2>3. r.key = t.key /\ r.p = t.e.p
    OBVIOUS
  <2> HIDE DEF r
  <2>4. \A x \in tasks' : (x \in tasks /\ x # t) \/ (x.key = NoKey /\ x.e = t.e)
    BY <1>2, <2>2
  <2>5. Apart(tasks', receipts')
    BY <2>2, <2>3, <2>4 DEF Owned, Tickets, Apart
  <2>6. \A x \in tasks' : sent[x.e.p] > 0
    BY <1>1, <2>4 DEF Owned, HandsOK
  <2>7. \A x \in receipts' : sent[x.p] > 0
    BY <1>1, <2>2, <2>3 DEF Owned, HandsOK
  <2>8. \A x \in tasks' \cup receipts' : x.key = NoKey \/ \E y \in tasks \cup receipts : y.key = x.key
    BY <2>2, <2>3, <2>4
  <2>9. QED
    BY <1>3, <2>1, <2>5, <2>6, <2>7, <2>8, OwnedWork, HoldingStays
<1>8. QED
  BY <1>4, <1>5, <1>6, <1>7

\* Steps that touch no envelope, task or receipt.
LEMMA OwnedAside ==
  ASSUME Typed, Owned,
         \/ CountKeys \/ handleEncryptNotification \/ UploadAges
         \/ \E u \in Uploaders : GiveUpUpload(u)
         \/ \E p \in asked : handlePlaceholderResendResponse(p)
         \/ Reconnect
         \/ UNCHANGED vars
  PROVE  Owned'
<1>1. UNCHANGED upload => SameBatches
  BY DEF SameBatches
<1>2. ASSUME UNCHANGED <<rows, pairs, pool, owners, offered, doubt, wiped, raced, session, sent, known, inbox,
                         tasks, receipts, job>>,
             SameBatches
      PROVE  Owned'
  BY <1>2, OwnedWork, HoldingStays DEF Owned, HandsOK, Tickets
<1>3. CASE CountKeys \/ handleEncryptNotification \/ \E u \in Uploaders : GiveUpUpload(u)
  <2>1. UNCHANGED <<stored, wire, work, decrypted, story>>
    BY <1>3 DEF CountKeys, handleEncryptNotification, GiveUpUpload, NotUpload
  <2>2. QED
    BY <1>2, <1>3, <2>1, CalmLocking DEF stored, wire, work, decrypted, story, overlaps
<1>4. CASE UploadAges
  BY <1>1, <1>2, <1>4 DEF UploadAges, stored, wire, work, decrypted, story, overlaps
<1>5. CASE \E p \in asked : handlePlaceholderResendResponse(p)
  BY <1>1, <1>2, <1>5 DEF handlePlaceholderResendResponse, NotTask, stored, decrypted, overlaps
<1>6. CASE Reconnect
  BY <1>2, <1>6, CalmReconnect DEF Reconnect, stored, wire, decrypted, overlaps
<1>7. CASE UNCHANGED vars
  BY <1>1, <1>2, <1>7 DEF vars, stored, wire, work, decrypted, story, overlaps
<1>8. QED
  BY <1>3, <1>4, <1>5, <1>6, <1>7

-----------------------------------------------------------------------------

\* New rows do no harm to what peers and handlers have.
LEMMA SendersMoreRows ==
  ASSUME Owned, rows \subseteq rows', UNCHANGED <<owners, doubt, wiped, raced, session, sent, inbox, known>>
  PROVE  SendersOK'
<1>1. Stored \subseteq Stored'
  BY DEF Stored, KeyOf
<1>2. \A p, s : (Given(p, s) => Given(p, s)') /\ (Works(p, s) => Works(p, s)')
  BY <1>1 DEF Given, Works, Kept, Has
<1>3. QED
  BY <1>2 DEF Owned, SendersOK

LEMMA HandsStay ==
  ASSUME HandsOK, UNCHANGED <<owners, sent, job, tasks, receipts, known, raced>>
  PROVE  HandsOK'
<1>1. \A p, s : (Given(p, s) => Given(p, s)') /\ (Has(p, s) => Has(p, s)')
  BY DEF Given, Has
<1>2. QED
  BY <1>1 DEF HandsOK

LEMMA OwnedGetOrGen ==
  ASSUME Typed, Marking, Owned, NEW u \in Uploaders, GetOrGenPreKeys(u)
  PROVE  Owned'
<1>1. UNCHANGED <<pool, owners, offered, doubt, wiped, raced, session, sent, known, inbox, tasks, receipts, job>>
  BY Generation DEF NotUpload, wire, work, decrypted, story, overlaps
<1>2. \A w \in Uploaders : upload[w].keys = {} /\ ~Doing(w)
  BY Generation DEF Locked, Doing, Typed, UploadsOK
<1>3. PICK n \in Nat :
        /\ Generate(n, FALSE)
        /\ \/ upload' = [upload EXCEPT ![u] = NoUpload]
           \/ n = Missing(u)
              /\ upload' = [upload EXCEPT ![u] = [upload[u] EXCEPT !.pc = "send", !.keys = BatchOf(u)]]
  BY Generation
<1> DEFINE new == NewRows(n, FALSE)
<1>4. rows' = rows \cup new /\ pairs + n <= MaxKeys /\ pairs \in Nat /\ pairs' = pairs + n
  BY <1>3 DEF Generate, Typed, TableOK
<1>5. \A r \in new : r \in Rows /\ r.pair > pairs /\ ~r.up
  BY <1>4, NewRowsOK DEF Typed
<1>6. \A r \in new : r.pair \notin offered /\ r.pair \notin wiped /\ r.pair \in Nat
  <2> HIDE DEF new
  <2> TAKE r \in new
  <2>1. r.pair \in Nat /\ r.pair > pairs
    BY <1>5 DEF Rows
  <2>2. \A x \in offered \cup wiped : x \in 1..pairs
    BY DEF Marking, OffersOK, Owned, Ledger, WipedOK
  <2>3. QED
    BY <1>4, <2>1, <2>2
<1>7. Stored \subseteq Stored' /\ \A r \in rows \cup new : KeyOf(r) \in Stored'
  BY <1>4 DEF Stored, KeyOf
<1>8. \A w \in Uploaders : w # u => upload'[w] = upload[w]
  BY <1>3 DEF Typed, UploadsOK
<1>9. \/ upload'[u].keys = {} /\ upload'[u].pc = "idle"
      \/ /\ upload'[u].keys = BatchOf(u) /\ upload'[u].pc = "send"
         /\ n = Missing(u) /\ Old(u) \subseteq Unuploaded
  <2>1. upload[u] \in Uploads /\ upload \in [Uploaders -> Uploads]
    BY DEF Typed, UploadsOK
  <2>2. [upload[u] EXCEPT !.pc = "send", !.keys = BatchOf(u)].pc = "send"
        /\ [upload[u] EXCEPT !.pc = "send", !.keys = BatchOf(u)].keys = BatchOf(u)
    BY <2>1 DEF Uploads
  <2>3. CASE upload' = [upload EXCEPT ![u] = NoUpload]
    BY <2>1, <2>3, UploadRecords
  <2>4. CASE /\ n = Missing(u)
             /\ upload' = [upload EXCEPT ![u] = [upload[u] EXCEPT !.pc = "send", !.keys = BatchOf(u)]]
    BY <1>3, <2>1, <2>2, <2>4, Batches
  <2>5. QED
    BY <1>3, <2>3, <2>4
<1> HIDE DEF new
<1>10. \A w \in Uploaders : \A k \in upload'[w].keys :
         w = u /\ upload'[u].pc = "send" /\ \E r \in Unuploaded \cup new : k = KeyOf(r)
  <2> TAKE w \in Uploaders
  <2> TAKE k \in upload'[w].keys
  <2>1. w = u
    BY <1>2, <1>8
  <2>2. k \in BatchOf(u) /\ upload'[u].pc = "send" /\ n = Missing(u) /\ Old(u) \subseteq Unuploaded
    BY <1>9, <2>1
  <2>3. \E r \in Old(u) \cup new : k = KeyOf(r)
    BY <2>2 DEF BatchOf, new
  <2>4. QED
    BY <2>1, <2>2, <2>3
<1>11. \A r \in Unuploaded : r \in rows /\ r \in Rows /\ ~r.up /\ (r.pair \in offered => r.pair \in doubt)
  BY <1>2 DEF Unuploaded, Typed, TableOK, Owned, Ledger, Unmarked, Doing
<1>12. Fresh'
  <2> SUFFICES ASSUME NEW w \in Uploaders, NEW k \in upload'[w].keys
               PROVE  (k.pair \notin offered /\ k \in Stored') \/ k.pair \in doubt
    BY <1>1 DEF Fresh, Kept
  <2>1. PICK r \in Unuploaded \cup new : k = KeyOf(r)
    BY <1>10
  <2>2. r \in Rows /\ k.pair = r.pair /\ k \in Stored'
    BY <1>5, <1>7, <1>11, <2>1, KeysOfRows
  <2>3. QED
    BY <1>6, <1>11, <2>1, <2>2
<1>13. Unmarked'
  <2> SUFFICES ASSUME NEW r \in rows', ~r.up, r.pair \in offered PROVE r.pair \in doubt
    BY <1>1 DEF Unmarked
  <2>1. r \in rows
    BY <1>4, <1>6
  <2>2. QED
    BY <1>11, <2>1 DEF Unuploaded
<1>14. PoolOK' /\ OwnersOK' /\ OneOwner'
  BY <1>1, <1>7 DEF Owned, Ledger, PoolOK, Kept, OwnersOK, OneOwner
<1>19. WipedOK'
  BY <1>1, <1>4, <1>6 DEF Owned, Ledger, WipedOK
<1>20. Distinct'
  <2>1. ASSUME NEW w \in Uploaders, NEW j \in upload'[w].keys, NEW k \in upload'[w].keys, j.pair = k.pair
        PROVE  j = k
    <3>1. PICK q \in Unuploaded \cup new : j = KeyOf(q)
      BY <1>10, <2>1
    <3>2. PICK r \in Unuploaded \cup new : k = KeyOf(r)
      BY <1>10, <2>1
    <3>3. q \in rows' /\ r \in rows' /\ q.pair = j.pair /\ r.pair = k.pair
      BY <1>4, <1>5, <1>11, <3>1, <3>2, KeysOfRows
    <3>4. TableOK'
      BY <1>3, Generated DEF Typed
    <3>5. q = r
      BY <2>1, <3>3, <3>4 DEF TableOK
    <3>6. QED
      BY <3>1, <3>2, <3>5
  <2>2. QED
    BY <1>1, <2>1 DEF Owned, Ledger, Distinct
<1>15. \A j : Ticket(j) => Ticket(j)'
  <2> TAKE j
  <2> HAVE Ticket(j)
  <2>1. j.pair \in offered /\ (j.pair \in wiped \/ \E q \in rows : q.up /\ KeyOf(q) = j)
    BY DEF Ticket
  <2>2. \A q \in Unuploaded : q.pair # j.pair
    <3>1. CASE j.pair \in wiped
      BY <1>11, <3>1 DEF Owned, Ledger, WipedOK
    <3>2. ASSUME NEW q \in rows, q.up, KeyOf(q) = j PROVE q.pair = j.pair /\ \A x \in Unuploaded : x.pair # j.pair
      <4>1. q.pair = j.pair
        BY <3>2, KeysOfRows DEF Typed, TableOK
      <4>2. QED
        BY <1>11, <3>2, <4>1 DEF Typed, TableOK
    <3>3. QED
      BY <2>1, <3>1, <3>2
  <2>3. \A w \in Uploaders : \A k \in upload'[w].keys : k.pair # j.pair
    <3> TAKE w \in Uploaders
    <3> TAKE k \in upload'[w].keys
    <3>1. PICK r \in Unuploaded \cup new : k = KeyOf(r)
      BY <1>10
    <3>2. k.pair = r.pair
      BY <1>5, <1>11, <3>1, KeysOfRows
    <3>3. CASE r \in new
      BY <1>6, <2>1, <3>2, <3>3
    <3>4. CASE r \in Unuploaded
      BY <2>2, <3>2, <3>4
    <3>5. QED
      BY <3>3, <3>4
  <2>4. QED
    BY <1>1, <1>4, <2>1, <2>3 DEF Ticket, KeyOf
<1>16. Tickets'
  BY <1>1, <1>15 DEF Owned, Tickets
<1>17. SendersOK' /\ HandsOK'
  BY <1>1, <1>4, SendersMoreRows, HandsStay DEF Owned
<1>21. QED
  BY <1>12, <1>13, <1>14, <1>16, <1>17, <1>19, <1>20 DEF Owned, Ledger

LEMMA OwnedSendUpload ==
  ASSUME Typed, Marking, Owned, NEW u \in Uploaders, SendUpload(u)
  PROVE  Owned'
<1> DEFINE ks == upload[u].keys
<1>1. /\ upload[u].pc = "send" /\ Doing(u) /\ (\A w \in Uploaders : w # u => ~Doing(w))
      /\ UNCHANGED <<rows, pairs, owners, sent, session, inbox, receipts, tasks, job, known, raced, wiped>>
      /\ \A w \in Uploaders : w # u => upload'[w] = upload[w] /\ upload[w].keys = {}
  BY Sendings DEF stored, Typed, UploadsOK
<1>2. NoUpload.pc = "idle" /\ NoUpload.keys = {}
  BY UploadRecords
<1>3. \A k \in ks : (k.pair \notin offered /\ Kept(k)) \/ k.pair \in doubt
  BY <1>1 DEF Owned, Ledger, Fresh
<1>4. Stored' = Stored /\ \A k : Kept(k)' <=> Kept(k)
  BY <1>1 DEF Stored, Kept
<1>5. \/ upload'[u].keys = {} /\ upload'[u].pc = "idle"
      \/ upload'[u].keys = ks /\ upload'[u].pc = "mark"
  BY <1>2, Sendings
<1>6. Fresh'
  BY <1>1, <1>5 DEF Fresh
<1>7. offered' \subseteq offered \cup PairsOf(ks) /\ offered \subseteq offered' /\ doubt \subseteq doubt'
      /\ doubt' \subseteq doubt \cup PairsOf(ks)
      /\ (\A k \in pool' : k \in pool \/ (k \in ks /\ k.pair \in offered'))
  BY Sendings DEF Accept, PairsOf
<1>8. \/ upload'[u].pc = "mark"
      \/ offered' = offered
      \/ doubt' = doubt \cup PairsOf(ks)
  BY Sendings
<1>9. Unmarked'
  <2> SUFFICES ASSUME NEW r \in rows, ~r.up, r.pair \in offered'
               PROVE  r.pair \in doubt' \/ \E w \in Uploaders : upload'[w].pc = "mark" /\ KeyOf(r) \in upload'[w].keys
    BY <1>1 DEF Unmarked, KeyOf
  <2>1. CASE r.pair \in offered
    <3>1. r.pair \in doubt
      BY <1>1, <2>1 DEF Owned, Ledger, Unmarked, Doing
    <3>2. QED
      BY <1>7, <3>1
  <2>2. CASE r.pair \notin offered
    <3>1. PICK k \in ks : k.pair = r.pair
      BY <1>7, <2>2 DEF PairsOf
    <3>2. CASE k.pair \in doubt
      BY <1>7, <3>1, <3>2
    <3>3. CASE Kept(k)
      <4>1. KeyOf(r) = k
        BY <3>1, <3>3, StoredKeys DEF Kept, Owned, Ledger, WipedOK
      <4>2. CASE upload'[u].pc = "mark"
        BY <1>5, <4>1, <4>2
      <4>3. CASE doubt' = doubt \cup PairsOf(ks)
        BY <3>1, <4>3 DEF PairsOf
      <4>4. QED
        BY <1>8, <2>2, <4>2, <4>3
    <3>4. QED
      BY <1>3, <3>2, <3>3
  <2>3. QED
    BY <2>1, <2>2
<1>10. \A o \in owners : o[2] \in offered
  BY DEF Owned, Ledger, OwnersOK
<1>11. PoolOK'
  <2> SUFFICES ASSUME NEW k \in pool'
               PROVE  /\ k.pair \in offered'
                      /\ k.pair \in doubt' \/ (Kept(k)' /\ \A o \in owners' : o[2] # k.pair)
    BY DEF PoolOK, Kept
  <2>1. CASE k \in pool
    BY <1>1, <1>4, <1>7, <2>1 DEF Owned, Ledger, PoolOK
  <2>2. CASE k \in ks /\ k.pair \in offered'
    BY <1>1, <1>3, <1>4, <1>7, <1>10, <2>2
  <2>3. QED
    BY <1>7, <2>1, <2>2
<1>12. OwnersOK' /\ OneOwner' /\ WipedOK'
  BY <1>1, <1>7 DEF Owned, Ledger, OwnersOK, OneOwner, WipedOK
<1>17. Distinct'
  <2>1. \A w \in Uploaders : \A j, k \in upload'[w].keys : j.pair = k.pair => j = k
    BY <1>1, <1>5 DEF Owned, Ledger, Distinct
  <2>2. ASSUME NEW j \in pool', NEW k \in pool', j.pair = k.pair PROVE j = k \/ k.pair \in doubt'
    <3>1. CASE j \in pool /\ k \in pool
      BY <1>7, <2>2, <3>1 DEF Owned, Ledger, Distinct
    <3>2. CASE j \in ks /\ k \in ks
      BY <2>2, <3>2 DEF Owned, Ledger, Distinct
    <3>3. \A x \in pool, y \in ks : x.pair = y.pair => y.pair \in doubt
      BY <1>3 DEF Owned, Ledger, PoolOK
    <3>4. QED
      BY <1>7, <2>2, <3>1, <3>2, <3>3
  <2>3. QED
    BY <2>1, <2>2 DEF Distinct
<1>13. \A j : Ticket(j) => Ticket(j)'
  <2> TAKE j
  <2> HAVE Ticket(j)
  <2>1. j.pair \notin PairsOf(ks) /\ \A k \in ks : k.pair # j.pair
    BY DEF Ticket, PairsOf
  <2>2. j \in Keys /\ j.pair \in offered' /\ j.pair \notin doubt'
    BY <1>7, <2>1 DEF Ticket
  <2>3. \A x \in pool' : x.pair # j.pair
    BY <1>7, <2>1 DEF Ticket
  <2>4. \A w \in Uploaders : \A x \in upload'[w].keys : x.pair # j.pair
    BY <1>1, <1>5, <2>1
  <2>5. QED
    BY <1>1, <2>2, <2>3, <2>4 DEF Ticket, KeyOf
<1>14. Tickets'
  BY <1>1, <1>13 DEF Owned, Tickets
<1>15. SendersOK' /\ HandsOK'
  BY <1>1, <1>7, SendersStay, HandsStay, HoldingStays DEF Owned
<1>18. QED
  BY <1>6, <1>9, <1>11, <1>12, <1>14, <1>15, <1>17 DEF Owned, Ledger

\* Rows keep their keys, marks stay, and doubt grows only with keys that no receipt has.
LEMMA OwnedDoubts ==
  ASSUME Typed, Owned, UNCHANGED <<pairs, pool, owners, offered, wiped>>,
         Stored' = Stored, \A r \in rows : r.up => \E q \in rows' : q.up /\ KeyOf(q) = KeyOf(r),
         doubt \subseteq doubt',
         \A n \in doubt' : n \in doubt \/ \E u \in Uploaders : \E k \in upload[u].keys : k.pair = n,
         \A u \in Uploaders : upload'[u].keys = {}
  PROVE  /\ WipedOK' /\ Fresh' /\ Distinct' /\ PoolOK' /\ OwnersOK' /\ OneOwner'
         /\ \A j : Ticket(j) => Ticket(j)'
<1>1. Fresh' /\ Distinct'
  BY DEF Fresh, Owned, Ledger, Distinct
<1>2. PoolOK' /\ OwnersOK' /\ OneOwner'
  BY DEF Owned, Ledger, PoolOK, Kept, OwnersOK, OneOwner
<1>5. WipedOK'
  <2>1. \A q \in rows' : KeyOf(q) \in Stored'
    BY DEF Stored, KeyOf
  <2>2. \A q \in rows' : \E r \in rows : KeyOf(r) = KeyOf(q)
    BY <2>1 DEF Stored
  <2>3. \A q, r : KeyOf(r) = KeyOf(q) => r.pair = q.pair
    BY DEF KeyOf
  <2>4. \A q \in rows' : \E r \in rows : r.pair = q.pair
    BY <2>2, <2>3
  <2>5. QED
    BY <2>4 DEF Owned, Ledger, WipedOK
<1>3. \A j : Ticket(j) => Ticket(j)'
  <2> TAKE j
  <2> HAVE Ticket(j)
  <2>1. j.pair \notin doubt'
    BY DEF Ticket
  <2>2. j.pair \in wiped \/ \E q \in rows' : q.up /\ KeyOf(q) = j
    BY DEF Ticket
  <2>3. QED
    BY <2>1, <2>2 DEF Ticket, KeyOf
<1>6. QED
  BY <1>1, <1>2, <1>3, <1>5

LEMMA OwnedMarkUploaded ==
  ASSUME Typed, Marking, Owned, NEW u \in Uploaders, MarkUploaded(u)
  PROVE  Owned'
<1> DEFINE ks == upload[u].keys
<1>1. /\ upload[u].pc = "mark" /\ (\A w \in Uploaders : w # u => ~Doing(w))
      /\ UNCHANGED <<pairs, pool, owners, offered, sent, session, inbox, receipts, tasks, job, known, raced, wiped>>
      /\ \A w \in Uploaders : upload'[w].keys = {}
  BY Markings, UploadRecords DEF Typed, UploadsOK
<1>2. \A r \in rows : ~r.up /\ r.pair \in offered => r.pair \in doubt \/ KeyOf(r) \in ks
  BY <1>1 DEF Owned, Ledger, Unmarked, Doing
<1>3. /\ Stored' = Stored
      /\ \A r \in rows : r.up => \E q \in rows' : q.up /\ KeyOf(q) = KeyOf(r)
      /\ doubt \subseteq doubt'
      /\ \A n \in doubt' : n \in doubt \/ \E k \in ks : k.pair = n
      /\ Unmarked'
  <2>1. ASSUME doubt' = doubt, NEW top \in ks, \A k \in ks : k.id <= top.id,
               rows' = {Marked(r, top.id) : r \in rows}
        PROVE  /\ Stored' = Stored
               /\ \A r \in rows : r.up => \E q \in rows' : q.up /\ KeyOf(q) = KeyOf(r)
               /\ Unmarked'
    <3>1. \A r \in rows : r \in Rows /\ KeyOf(Marked(r, top.id)) = KeyOf(r) /\ (r.up => Marked(r, top.id).up)
                          /\ (~Marked(r, top.id).up => Marked(r, top.id) = r /\ ~(r.id <= top.id))
      BY Marks DEF Typed, TableOK
    <3>2. \A r \in rows : Marked(r, top.id) \in rows'
      BY <2>1
    <3>3. \A q \in rows' : \E r \in rows : q = Marked(r, top.id)
      BY <2>1
    <3>4. Stored' = {KeyOf(q) : q \in rows'} /\ Stored = {KeyOf(r) : r \in rows}
      BY DEF Stored, KeyOf
    <3>5. Stored' = Stored
      BY <3>1, <3>2, <3>3, <3>4
    <3>6. ASSUME NEW q \in rows', ~q.up, q.pair \in offered PROVE q.pair \in doubt
      <4>1. PICK r \in rows : q = Marked(r, top.id)
        BY <3>3
      <4>2. q = r /\ ~(r.id <= top.id) /\ r \in Rows
        BY <3>1, <3>6, <4>1
      <4>3. KeyOf(r) \notin ks
        BY <2>1, <4>2, KeysOfRows
      <4>4. QED
        BY <1>2, <3>6, <4>2, <4>3
    <3>7. Unmarked'
      BY <1>1, <2>1, <3>6 DEF Unmarked
    <3>8. QED
      BY <3>1, <3>2, <3>5, <3>7
  <2>2. ASSUME doubt' = doubt \cup PairsOf(ks), rows' = rows
        PROVE  /\ Stored' = Stored
               /\ \A r \in rows : r.up => \E q \in rows' : q.up /\ KeyOf(q) = KeyOf(r)
               /\ Unmarked'
    <3>1. \A r \in rows : KeyOf(r) \in ks => r.pair \in PairsOf(ks)
      BY KeysOfRows DEF PairsOf, Typed, TableOK
    <3>2. Unmarked'
      BY <1>1, <1>2, <2>2, <3>1 DEF Unmarked
    <3>3. QED
      BY <2>2, <3>2 DEF Stored
  <2>3. doubt \subseteq doubt' /\ \A n \in doubt' : n \in doubt \/ \E k \in ks : k.pair = n
    BY Markings DEF PairsOf
  <2>4. QED
    BY <2>1, <2>2, <2>3, Markings
<1>4. /\ WipedOK' /\ Fresh' /\ Distinct' /\ PoolOK' /\ OwnersOK' /\ OneOwner'
      /\ \A j : Ticket(j) => Ticket(j)'
  BY <1>1, <1>3, OwnedDoubts
<1>5. Tickets'
  BY <1>1, <1>4 DEF Owned, Tickets
<1>6. \A p, s : (Given(p, s) => Given(p, s)') /\ (Works(p, s) => Works(p, s)')
  BY <1>1, <1>3 DEF Given, Works, Kept, Has
<1>7. SendersOK' /\ HandsOK'
  BY <1>1, <1>6, HandsStay DEF Owned, SendersOK
<1>8. QED
  BY <1>3, <1>4, <1>5, <1>7 DEF Owned, Ledger

LEMMA OwnedRestart ==
  ASSUME Typed, Marking, Owned, Restart
  PROVE  Owned'
<1>1. /\ UNCHANGED <<rows, pairs, pool, owners, offered, sent, session, inbox, receipts, known, raced, wiped>>
      /\ tasks' = {} /\ \A l \in Slots : job'[l].pc = "idle"
      /\ \A u \in Uploaders : upload'[u].keys = {}
  BY Restarted
<1>2. /\ Stored' = Stored
      /\ doubt \subseteq doubt'
      /\ \A n \in doubt' : n \in doubt \/ \E u \in Uploaders : \E k \in upload[u].keys : k.pair = n
  BY <1>1, Restarted DEF Stored
<1>3. /\ WipedOK' /\ Fresh' /\ Distinct' /\ PoolOK' /\ OwnersOK' /\ OneOwner'
      /\ \A j : Ticket(j) => Ticket(j)'
  BY <1>1, <1>2, OwnedDoubts
<1>4. Unmarked'
  <2> SUFFICES ASSUME NEW r \in rows, ~r.up, r.pair \in offered PROVE r.pair \in doubt'
    BY <1>1 DEF Unmarked
  <2>1. r.pair \in doubt \/ \E u \in Uploaders : upload[u].pc = "mark" /\ KeyOf(r) \in upload[u].keys
    BY DEF Owned, Ledger, Unmarked
  <2>2. KeyOf(r).pair = r.pair
    BY KeysOfRows DEF Typed, TableOK
  <2>3. QED
    BY <1>2, <2>1, <2>2, Restarted
<1>5. Tickets'
  BY <1>1, <1>3 DEF Owned, Tickets, Apart
<1>6. SendersOK' /\ HandsOK'
  BY <1>1, <1>2, SendersStay, HoldingStays DEF Owned, HandsOK
<1>7. QED
  BY <1>3, <1>4, <1>5, <1>6 DEF Owned, Ledger

-----------------------------------------------------------------------------

\* A new key for a retry receipt: nobody has a key pair with its number.
LEMMA OwnedGenOnePreKey ==
  ASSUME Typed, Marking, Owned, NEW t \in tasks, GenOnePreKey(t)
  PROVE  Owned'
<1>1. UNCHANGED <<upload, pool, sent, session, known, raced, wiped, job, inbox, receipts, owners, doubt>> /\ Counted(t)
  BY OneKey DEF Counted, NotTask, decrypted, overlaps
<1>2. t \in Tasks /\ sent[t.e.p] > 0 /\ RetryCount(t.e) \in Nat
  BY <1>1, Counts DEF Owned, HandsOK
<1>3. SameBatches
  BY <1>1 DEF SameBatches
<1>4. ASSUME UNCHANGED <<stored, offered>>,
             tasks' = (tasks \ {t}) \cup {[t EXCEPT !.kind = "send", !.count = RetryCount(t.e)]}
      PROVE  Owned'
  <2> DEFINE v == [t EXCEPT !.kind = "send", !.count = RetryCount(t.e)]
  <2>1. v.key = t.key /\ v.e = t.e
    BY <1>2 DEF Tasks
  <2>2. tasks' = (tasks \ {t}) \cup {v}
    BY <1>4
  <2> HIDE DEF v
  <2>3. Apart(tasks', receipts')
    BY <1>1, <2>1, <2>2 DEF Owned, Tickets, Apart
  <2>4. \A x \in tasks' : sent[x.e.p] > 0
    BY <1>2, <2>1, <2>2 DEF Owned, HandsOK
  <2>5. \A x \in tasks' \cup receipts' : \E y \in tasks \cup receipts : y.key = x.key
    BY <1>1, <2>1, <2>2
  <2>6. QED
    BY <1>1, <1>3, <1>4, <2>3, <2>4, <2>5, OwnedWork, HoldingStays DEF Owned, HandsOK, stored
<1>5. ASSUME NEW r \in Rows, NewRows(1, TRUE) = {r}, r.up, r.pair = pairs + 1,
             Generate(1, TRUE), offered' = offered \cup {pairs + 1},
             tasks' = (tasks \ {t}) \cup {[t EXCEPT !.kind = "send", !.count = RetryCount(t.e), !.key = KeyOf(r)]}
      PROVE  Owned'
  <2> DEFINE k == KeyOf(r)
             v == [t EXCEPT !.kind = "send", !.count = RetryCount(t.e), !.key = k]
  <2>1. k \in Keys /\ k.pair = r.pair /\ k # NoKey
    BY KeysOfRows, SomeSessions
  <2>2. v.key = k /\ v.e = t.e
    <3> HIDE DEF k
    <3> QED
      BY <1>2 DEF Tasks
  <2>3. tasks' = (tasks \ {t}) \cup {v}
    BY <1>5
  <2> HIDE DEF v
  <2>4. rows' = rows \cup {r}
    <3>1. rows' = rows \cup NewRows(1, TRUE)
      BY <1>5 DEF Generate
    <3>2. QED
      BY <1>5, <3>1, Zenon
  <2>5. pairs \in Nat /\ pairs + 1 \notin offered /\ pairs + 1 \notin wiped /\ pairs' = pairs + 1
    BY <1>5 DEF Typed, TableOK, Marking, OffersOK, Owned, Ledger, WipedOK, Generate
  <2>6. Stored \subseteq Stored' /\ k \in Stored' /\ \A j : Kept(j) => Kept(j)'
    BY <1>1, <2>4 DEF Stored, KeyOf, Kept
  <2>7. \A u \in Uploaders : \A x \in upload[u].keys : x.pair # k.pair
    <3> TAKE u \in Uploaders
    <3> TAKE x \in upload[u].keys
    <3>1. x.pair \in Nat /\ x.pair <= pairs
      BY DEF Typed, UploadsOK, Uploads, Keys
    <3>2. QED
      BY <1>5, <2>1, <2>5, <3>1
  <2> HIDE DEF k
  <2>8. Fresh'
    <3> SUFFICES ASSUME NEW u \in Uploaders, NEW x \in upload[u].keys, upload[u].pc = "send"
                 PROVE  (x.pair \notin offered' /\ Kept(x)') \/ x.pair \in doubt
      BY <1>1 DEF Fresh, Kept
    <3>1. (x.pair \notin offered /\ Kept(x)) \/ x.pair \in doubt
      BY DEF Owned, Ledger, Fresh
    <3>2. x.pair # pairs + 1
      BY <1>5, <2>1, <2>7
    <3>3. QED
      BY <1>5, <2>6, <3>1, <3>2
  <2>9. Unmarked'
    <3> SUFFICES ASSUME NEW q \in rows', ~q.up, q.pair \in offered'
                 PROVE  q.pair \in doubt \/ \E u \in Uploaders : upload[u].pc = "mark" /\ KeyOf(q) \in upload[u].keys
      BY <1>1 DEF Unmarked, KeyOf
    <3>1. q \in rows
      BY <1>5, <2>4
    <3>2. q.pair # pairs + 1
      BY <2>5, <3>1 DEF Typed, TableOK, Rows
    <3>3. QED
      BY <1>5, <3>1, <3>2 DEF Owned, Ledger, Unmarked
  <2>10. PoolOK' /\ OwnersOK' /\ OneOwner' /\ Distinct'
    BY <1>1, <1>5, <2>6 DEF Owned, Ledger, PoolOK, OwnersOK, OneOwner, Distinct
  <2>18. WipedOK'
    BY <1>1, <1>5, <2>4, <2>5 DEF Owned, Ledger, WipedOK
  <2>11. \A j : Ticket(j) => Ticket(j)'
    BY <1>1, <1>3, <1>5, <2>4 DEF Ticket, SameBatches, KeyOf
  <2>12. Ticket(k)'
    <3>1. k.pair \in offered' /\ k.pair \notin offered
      BY <1>5, <2>1, <2>5
    <3>2. k.pair \notin doubt'
      BY <1>1, <3>1 DEF Marking, OffersOK
    <3>3. \E q \in rows' : q.up /\ KeyOf(q) = k
      BY <1>5, <2>4 DEF k
    <3>4. \A x \in pool' : x.pair # k.pair
      BY <1>1, <3>1 DEF Owned, Ledger, PoolOK
    <3>5. \A o \in owners' : o[2] # k.pair
      BY <1>1, <3>1 DEF Owned, Ledger, OwnersOK
    <3>6. \A u \in Uploaders : \A x \in upload'[u].keys : x.pair # k.pair
      BY <1>1, <2>7
    <3>7. QED
      BY <2>1, <3>1, <3>2, <3>3, <3>4, <3>5, <3>6 DEF Ticket, KeyOf
  <2>13. \A x \in tasks \cup receipts : x.key # NoKey => x.key.pair # k.pair
    BY <1>5, <2>1, <2>5 DEF Owned, Tickets, Ticket
  <2>14. Tickets'
    <3>1. Apart(tasks', receipts')
      BY <1>1, <2>2, <2>3, <2>13 DEF Owned, Tickets, Apart
    <3>2. \A x \in tasks' \cup receipts' : x.key # NoKey => Ticket(x.key)'
      BY <1>1, <2>2, <2>3, <2>11, <2>12 DEF Owned, Tickets
    <3>3. QED
      BY <3>1, <3>2 DEF Tickets
  <2>15. SendersOK'
    BY <1>1, <2>4, SendersMoreRows
  <2>16. HandsOK'
    <3>1. \A p, s : (Given(p, s) => Given(p, s)') /\ (Has(p, s) => Has(p, s)')
      BY <1>1 DEF Given, Has
    <3>2. QED
      BY <1>1, <1>2, <2>2, <2>3, <3>1 DEF Owned, HandsOK
  <2>19. QED
    BY <2>8, <2>9, <2>10, <2>14, <2>15, <2>16, <2>18 DEF Owned, Ledger
<1>6. QED
  BY <1>4, <1>5, OneKey

\* A peer sends in a session s.  If s is a key, the peer has it now and nobody else had
\* or gets it, or an answer was lost.
LEMMA OwnedPeer ==
  ASSUME Typed, Marking, Owned, NotPeer, NEW p \in Peers, NEW s \in Sessions, NEW c \in Nat, Sends(p, s, c),
         s # Absent, Given(p, s)', Works(p, s), pool' \subseteq pool, receipts' \subseteq receipts,
         owners \subseteq owners',
         \A o \in owners' : \/ o \in owners
                            \/ /\ o = <<p, s.pair>> /\ s \in Keys /\ s.pair \in offered
                               /\ \A r \in receipts' : r.key # NoKey => r.key.pair # s.pair
                               /\ \A t \in tasks : t.key # NoKey => t.key.pair # s.pair
                               /\ \/ s.pair \in doubt
                                  \/ /\ \A x \in pool' : x.pair # s.pair
                                     /\ \A x \in owners : x[2] # s.pair
  PROVE  Owned'
<1>1. UNCHANGED <<rows, pairs, upload, tasks, job, known, offered, doubt, raced, wiped>> /\ SameBatches
  BY DEF NotPeer, stored, work, decrypted, overlaps, SameBatches
<1>2. Stored' = Stored /\ \A k : Kept(k)' <=> Kept(k)
  BY <1>1 DEF Stored, Kept
<1>3. /\ sent'[p] > 0 /\ \A q \in Peers : sent'[q] >= sent[q] /\ sent'[q] \in Nat /\ sent[q] \in Nat
      /\ session'[p] = s
      /\ \A q \in Peers : q # p => sent'[q] = sent[q] /\ session'[q] = session[q]
      /\ inbox' = inbox \cup {Envelope(p, s, c)}
      /\ Envelope(p, s, c).p = p /\ Envelope(p, s, c).s = s
  BY Sending1 DEF Typed, WireOK
<1>4. \A q \in Peers : sent[q] > 0 => sent'[q] > 0
  BY <1>3
<1>5. Fresh' /\ Unmarked' /\ WipedOK' /\ Distinct'
  BY <1>1, <1>2 DEF Owned, Ledger, Fresh, Kept, Unmarked, KeyOf, WipedOK, Distinct
<1>6. <<p, s.pair>>[2] = s.pair /\ <<p, s.pair>>[1] = p
  OBVIOUS
<1>7. PoolOK'
  <2> SUFFICES ASSUME NEW x \in pool'
               PROVE  /\ x.pair \in offered
                      /\ x.pair \in doubt \/ (Kept(x) /\ \A o \in owners' : o[2] # x.pair)
    BY <1>1, <1>2 DEF PoolOK
  <2>1. x.pair \in offered /\ (x.pair \in doubt \/ (Kept(x) /\ \A o \in owners : o[2] # x.pair))
    BY DEF Owned, Ledger, PoolOK
  <2>2. QED
    BY <1>6, <2>1
<1>8. OwnersOK'
  BY <1>1 DEF Owned, Ledger, OwnersOK
<1>9. OneOwner'
  <2> SUFFICES ASSUME NEW o1 \in owners', NEW o2 \in owners', o1[2] = o2[2]
               PROVE  o1[1] = o2[1] \/ o1[2] \in doubt
    BY <1>1 DEF OneOwner
  <2>1. CASE o1 \in owners /\ o2 \in owners
    BY <2>1 DEF Owned, Ledger, OneOwner
  <2>2. CASE ~(o1 \in owners /\ o2 \in owners)
    BY <1>6, <2>2
  <2>3. QED
    BY <2>1, <2>2
<1>10. Tickets'
  <2>1. Apart(tasks', receipts')
    BY <1>1 DEF Owned, Tickets, Apart
  <2>2. ASSUME NEW x \in tasks \cup receipts', x.key # NoKey PROVE Ticket(x.key)'
    <3>1. Ticket(x.key)
      BY <2>2 DEF Owned, Tickets
    <3>2. \A o \in owners' : o[2] # x.key.pair
      BY <1>6, <2>2, <3>1 DEF Ticket
    <3>3. QED
      BY <1>1, <3>1, <3>2 DEF Ticket, KeyOf
  <2>3. QED
    BY <1>1, <2>1, <2>2 DEF Tickets
<1>11. \A q, x : /\ (Given(q, x) => Given(q, x)') /\ (Works(q, x) => Works(q, x)')
                 /\ (Has(q, x) => Has(q, x)')
  BY <1>1, <1>2 DEF Given, Works, Has
<1>12. SendersOK'
  <2>1. Given(p, s)' /\ Works(p, s)'
    BY <1>11
  <2>2. \A q \in Peers : /\ \A x : x = session'[q] => Given(q, x)' /\ Works(q, x)'
                         /\ sent'[q] > 0 => session'[q] # Absent
    <3> TAKE q \in Peers
    <3>1. CASE q = p
      BY <1>3, <2>1, <3>1
    <3>2. CASE q # p
      BY <1>3, <1>11, <3>2 DEF Owned, SendersOK
    <3>3. QED
      BY <3>1, <3>2
  <2>3. \A e \in inbox' : e.s # Absent /\ Given(e.p, e.s)' /\ Works(e.p, e.s)'
    BY <1>3, <1>11, <2>1 DEF Owned, SendersOK
  <2>4. \A q \in Peers : Given(q, session[q])' /\ Works(q, session[q])'
    BY <2>2 DEF Given, Works
  <2>5. QED
    BY <2>2, <2>3, <2>4 DEF SendersOK
<1>13. HandsOK'
  <2>1. \A l \in Slots : job[l].pc # "idle" => job[l].e.p \in Peers
    BY DEF Typed, WorkOK, Envelopes
  <2>2. \A t \in tasks : t.e.p \in Peers
    BY DEF Typed, WorkOK, Tasks, Envelopes
  <2>3. \A r \in receipts : r.p \in Peers
    BY DEF Typed, WireOK, Receipts
  <2>4. QED
    BY <1>1, <1>4, <1>11, <2>1, <2>2, <2>3 DEF Owned, HandsOK
<1>14. QED
  BY <1>5, <1>7, <1>8, <1>9, <1>10, <1>12, <1>13 DEF Owned, Ledger

\* No session that rests on no prekey needs one.
LEMMA Keyless ==
  ASSUME NEW p, NEW s, s \notin Keys
  PROVE  Given(p, s) /\ Given(p, s)' /\ Works(p, s)
BY DEF Given, Works

\* The server hands out a key, or has none.
LEMMA OwnedFetch ==
  ASSUME Typed, Marking, Owned, NotPeer, NEW p \in Peers, NEW k \in pool \cup {Signed}, NEW c \in Nat,
         Fetched(p, k), Sends(p, k, c), receipts' \subseteq receipts
  PROVE  Owned'
<1>1. CASE pool = {} /\ k = Signed /\ UNCHANGED <<pool, owners>>
  BY <1>1, SomeSessions, Keyless, OwnedPeer
<1>2. CASE k \in pool /\ pool' = pool \ {k} /\ owners' = owners \cup {<<p, k.pair>>}
  <2>1. k \in Keys /\ k \in Sessions /\ k # Absent
    BY <1>2, SomeSessions DEF Typed, WireOK
  <2>2. k.pair \in offered /\ (k.pair \in doubt \/ (Kept(k) /\ \A o \in owners : o[2] # k.pair))
    BY <1>2 DEF Owned, Ledger, PoolOK
  <2>3. Given(p, k)' /\ Works(p, k)
    BY <1>2, <2>2 DEF Given, Works
  <2>4. \A x \in tasks \cup receipts : x.key # NoKey => x.key.pair # k.pair
    BY <1>2 DEF Owned, Tickets, Ticket
  <2>5. k.pair \in doubt \/ \A x \in pool' : x.pair # k.pair
    <3> SUFFICES ASSUME k.pair \notin doubt, NEW x \in pool, x # k, x.pair = k.pair PROVE FALSE
      BY <1>2
    <3>1. k \in pool
      BY <1>2
    <3>2. QED
      BY <3>1 DEF Owned, Ledger, Distinct
  <2>6. pool' \subseteq pool /\ owners \subseteq owners'
    BY <1>2
  <2>7. \A o \in owners' : \/ o \in owners
                           \/ /\ o = <<p, k.pair>> /\ k \in Keys /\ k.pair \in offered
                              /\ \A r \in receipts' : r.key # NoKey => r.key.pair # k.pair
                              /\ \A t \in tasks : t.key # NoKey => t.key.pair # k.pair
                              /\ \/ k.pair \in doubt
                                 \/ /\ \A x \in pool' : x.pair # k.pair
                                    /\ \A x \in owners : x[2] # k.pair
    BY <1>2, <2>1, <2>2, <2>4, <2>5
  <2>8. QED
    BY <2>1, <2>3, <2>6, <2>7, OwnedPeer
<1>3. QED
  BY <1>1, <1>2 DEF Fetched

LEMMA OwnedPeerSends ==
  ASSUME Typed, Marking, Owned, NEW p \in Peers, PeerSends(p)
  PROVE  Owned'
<1>1. NotPeer /\ UNCHANGED receipts /\ 0 \in Nat
  BY DEF PeerSends
<1>2. CASE Sends(p, Stale, 0) /\ UNCHANGED <<pool, owners>>
  BY <1>1, <1>2, SomeSessions, Keyless, OwnedPeer
<1>3. CASE \E k \in pool \cup {Signed} : Fetched(p, k) /\ Sends(p, k, 0)
  BY <1>1, <1>3, OwnedFetch
<1>4. QED
  BY <1>2, <1>3 DEF PeerSends

LEMMA OwnedRetryReceipt ==
  ASSUME Typed, Marking, Owned, NEW r \in receipts, handleRetryReceipt(r)
  PROVE  Owned'
<1>1. NotPeer /\ receipts' = receipts \ {r}
  BY DEF handleRetryReceipt
<1>2. r \in Receipts
  BY DEF Typed, WireOK
<1>3. r.p \in Peers /\ r.count \in Nat /\ (r.key \in Keys \/ r.key = NoKey) /\ session[r.p] \in Sessions
      /\ sent[r.p] > 0
  BY <1>2 DEF Receipts, Typed, WireOK, Owned, HandsOK
<1>4. ASSUME r.key # NoKey, owners' = owners \cup {<<r.p, r.key.pair>>},
             Sends(r.p, r.key, r.count), UNCHANGED pool
      PROVE  Owned'
  <2> DEFINE k == r.key
  <2>1. k \in Keys /\ k \in Sessions /\ k # Absent
    BY <1>3, <1>4, SomeSessions
  <2>2. Ticket(k)
    BY <1>4 DEF Owned, Tickets
  <2>3. Kept(k)
    BY <2>2 DEF Ticket, Stored, Kept
  <2>5. \A x \in tasks \cup receipts' : x.key # NoKey => x.key.pair # k.pair
    BY <1>1, <1>4 DEF Owned, Tickets, Apart
  <2>6. Given(r.p, k)' /\ Works(r.p, k)
    BY <1>4, <2>3 DEF Given, Works
  <2>7. \A o \in owners' : \/ o \in owners
                           \/ /\ o = <<r.p, k.pair>> /\ k \in Keys /\ k.pair \in offered
                              /\ \A x \in receipts' : x.key # NoKey => x.key.pair # k.pair
                              /\ \A t \in tasks : t.key # NoKey => t.key.pair # k.pair
                              /\ \/ k.pair \in doubt
                                 \/ /\ \A x \in pool' : x.pair # k.pair
                                    /\ \A x \in owners : x[2] # k.pair
    BY <1>4, <2>1, <2>2, <2>5 DEF Ticket
  <2> HIDE DEF k
  <2>8. pool' \subseteq pool /\ receipts' \subseteq receipts /\ owners \subseteq owners' /\ Sends(r.p, k, r.count)
    BY <1>1, <1>4 DEF k
  <2>9. QED
    BY <1>1, <1>3, <2>1, <2>6, <2>7, <2>8, OwnedPeer
<1>5. ASSUME NEW k \in pool \cup {Signed}, Fetched(r.p, k), Sends(r.p, k, r.count)
      PROVE  Owned'
  BY <1>1, <1>3, <1>5, OwnedFetch
<1>6. ASSUME Sends(r.p, session[r.p], r.count), UNCHANGED <<pool, owners>>
      PROVE  Owned'
  <2>1. session[r.p] # Absent /\ Given(r.p, session[r.p]) /\ Works(r.p, session[r.p])
    BY <1>3 DEF Owned, SendersOK
  <2>2. PICK s \in Sessions : s = session[r.p]
    BY <1>3
  <2>3. Given(r.p, s)'
    BY <1>6, <2>1, <2>2 DEF Given
  <2>4. QED
    BY <1>1, <1>3, <1>6, <2>1, <2>2, <2>3, OwnedPeer
<1>7. QED
  BY <1>4, <1>5, <1>6 DEF handleRetryReceipt

LEMMA OwnedStep ==
  ASSUME Typed, Marking, Owned, [Next]_vars
  PROVE  Owned'
<1>1. CASE Receiving
  <2>1. CASE \E l \in Slots : DoDecryptionTxn(l) \/ DeletePreKey(l)
    BY <2>1, OwnedTxn, OwnedDeletePreKey
  <2>2. CASE \A l \in Slots : ~DoDecryptionTxn(l) /\ ~DeletePreKey(l)
    BY <1>1, <2>2, OwnedReceiving
  <2>3. QED
    BY <2>1, <2>2
<1>2. CASE Calm /\ ~Receiving
  BY <1>2, OwnedAside, OwnedSending, OwnedPeerSends, OwnedRetryReceipt DEF Calm
<1>3. CASE UNCHANGED vars
  BY <1>3, OwnedAside
<1>4. CASE \/ \E u \in Uploaders : GetOrGenPreKeys(u) \/ SendUpload(u) \/ MarkUploaded(u)
           \/ \E t \in tasks : GenOnePreKey(t)
           \/ Restart
  BY <1>4, OwnedGetOrGen, OwnedSendUpload, OwnedMarkUploaded, OwnedGenOnePreKey, OwnedRestart
<1>5. QED
  BY <1>1, <1>2, <1>3, <1>4, NextIsCalmOr

LEMMA AlwaysOwned == Spec => [](Typed /\ Marking /\ Owned)
<1>1. Typed /\ Marking /\ Owned /\ [Next]_vars => Owned'
  BY OwnedStep
<1>2. QED
  BY StartOwned, AlwaysMarking, <1>1, PTL DEF Spec

\* A one-time prekey goes to one peer, from the server or in a retry receipt, for any
\* number of peers, keys, uploads, receipts and crashes, unless the server took it and
\* the client does not know.
THEOREM KeysHaveOneOwner == Spec => []OneOwner
<1>1. Typed /\ Marking /\ Owned => OneOwner
  BY DEF Owned, Ledger
<1>2. QED
  BY AlwaysOwned, <1>1, PTL

\* A prekey that the server still has or that a peer holds and has not used yet is in the
\* table with its key pair, although ids come again and rows go on first use: the peer
\* that uses a key up is the only one that has it.  But for a key the server took without
\* the client learning of it, it is missing only if two goroutines had the same peer's
\* session loaded at once, and one deleted the id after it had been given out again.
THEOREM KeysInHandsWork == Spec => []OfferedKeysWork
<1>1. ASSUME Typed, Marking, Owned PROVE OfferedKeysWork
  <2> SUFFICES ASSUME NEW k \in (pool \cup InHands) \ {Stale, Signed}
               PROVE  Kept(k) \/ k.pair \in doubt
    BY DEF OfferedKeysWork, Kept
  <2>1. CASE k \in pool
    BY <1>1, <2>1 DEF Owned, Ledger, PoolOK
  <2>2. ASSUME NEW x \in tasks \cup receipts, k = x.key PROVE Kept(k)
    BY <1>1, <2>2, SomeSessions DEF Owned, Tickets, Ticket, Stored, Kept, Signed
  <2>3. ASSUME NEW e \in inbox, ~InSession(e), e.p \notin raced, k = e.s PROVE Kept(k) \/ k.pair \in doubt
    <3>1. e.s \in Sessions /\ e.s # Absent /\ Works(e.p, e.s)
      BY <1>1 DEF Typed, WireOK, Envelopes, Owned, SendersOK
    <3>2. k \in Keys
      BY <2>3, <3>1 DEF Sessions
    <3>3. QED
      BY <2>3, <3>1, <3>2 DEF Works, Has, InSession
  <2>4. QED
    BY <2>1, <2>2, <2>3 DEF InHands
<1>2. QED
  BY AlwaysOwned, <1>1, PTL


-----------------------------------------------------------------------------
(***************************************************************************)
(* Where a message is                                                      *)
(***************************************************************************)

\* The envelopes that somebody has: the server, a handler or a goroutine it started.
Letters == inbox \cup {job[l].e : l \in {k \in Slots : job[k].pc # "idle"}} \cup {t.e : t \in tasks}

\* In a session record, the session of an envelope whose message key is gone is known, and
\* the envelope was sent: OldCounter says no more than that the key is gone.
Backed(ls, n, ks, hs) ==
  /\ \A e \in ls : Hash(e) \in hs => <<e.p, e.s>> \in ks
  /\ \A h \in hs : \E p \in Peers, m \in Nat : h = <<p, m>> /\ m <= n[p]

\* A peer's envelopes are numbered.
LettersOK ==
  /\ \A e \in Letters : e.p \in Peers /\ e.n \in 1..sent[e.p]
  /\ \A e, f \in Letters : Hash(e) = Hash(f) => e = f
  /\ Backed(Letters, sent, known, spent)

\* A goroutine about to store has loaded a record of its peer in which the key was left.
ViewsOK ==
  /\ view = [l \in Slots |-> view[l]]
  /\ \A l \in Slots : job[l].pc = "store" =>
       /\ Backed(Letters, sent, view[l].known, view[l].spent)
       /\ \A h \in view[l].spent : h[1] = job[l].e.p
       /\ Hash(job[l].e) \notin view[l].spent

\* The steps with and without the event buffer.
StepsOK ==
  \A l \in Slots : /\ job[l].pc \in {"txn", "clear"} => mode.buffer
                   /\ job[l].pc \in {"store", "remove"} => ~mode.buffer

\* The event buffer is used if it is enabled, and forgets what the handlers took.
BufferOK ==
  /\ ~mode.buffer => plain = {}
  /\ \A h \in cleared : h[1] \in Peers /\ handled[h[1]] > 0
  /\ \A l \in Slots : job[l].pc = "clear" => handled[job[l].e.p] > 0

Lettered == LettersOK /\ ViewsOK /\ StepsOK /\ BufferOK

LEMMA StartLettered == Init => Lettered
<1> SUFFICES ASSUME Init PROVE Lettered
  OBVIOUS
<1>1. inbox = {} /\ tasks = {} /\ \A l \in Slots : job[l].pc = "idle"
  BY DEF Init, Idle
<1>2. Letters = {}
  BY <1>1 DEF Letters
<1>3. LettersOK /\ BufferOK
  BY <1>1, <1>2 DEF Init, LettersOK, Backed, BufferOK
<1>4. ViewsOK
  BY <1>1 DEF Init, ViewsOK
<1>5. QED
  BY <1>1, <1>3, <1>4 DEF Lettered, StepsOK

LEMMA BackedLess ==
  ASSUME NEW ls, NEW fewer \in SUBSET ls, NEW n, NEW ks, NEW hs, Backed(ls, n, ks, hs)
  PROVE  Backed(fewer, n, ks, hs)
BY DEF Backed

LEMMA LettersStay ==
  ASSUME LettersOK, Letters' \subseteq Letters, UNCHANGED <<sent, known, spent>>
  PROVE  LettersOK'
<1>1. Backed(Letters', sent', known', spent')
  BY BackedLess DEF LettersOK
<1>2. QED
  BY <1>1 DEF LettersOK, Hash

\* No goroutine loads a session.
LEMMA ViewsStay ==
  ASSUME ViewsOK, Letters' \subseteq Letters, UNCHANGED sent, view' = [l \in Slots |-> view'[l]],
         \A l \in Slots : job'[l].pc = "store" =>
           job[l].pc = "store" /\ job'[l].e = job[l].e /\ view'[l] = view[l]
  PROVE  ViewsOK'
<1>1. ASSUME NEW l \in Slots, job'[l].pc = "store"
      PROVE  /\ Backed(Letters', sent', view'[l].known, view'[l].spent)
             /\ \A h \in view'[l].spent : h[1] = job'[l].e.p
             /\ Hash(job'[l].e) \notin view'[l].spent
  <2>1. /\ Backed(Letters, sent, view[l].known, view[l].spent)
        /\ \A h \in view[l].spent : h[1] = job[l].e.p
        /\ Hash(job[l].e) \notin view[l].spent
    BY <1>1 DEF ViewsOK
  <2>2. QED
    BY <1>1, <2>1, BackedLess
<1>2. QED
  BY <1>1 DEF ViewsOK, Hash

LEMMA LettersTyped ==
  ASSUME Typed, NEW e \in Letters
  PROVE  e \in Envelopes /\ e.p \in Peers /\ e.n \in Nat
<1>1. e \in Envelopes
  BY DEF Typed, WireOK, WorkOK, Tasks, Letters
<1>2. QED
  BY <1>1 DEF Envelopes

LEMMA RecordBacked ==
  ASSUME LettersOK, NEW p
  PROVE  /\ Backed(Letters, sent, Record(p).known, Record(p).spent)
         /\ \A h \in Record(p).spent : h \in spent /\ h[1] = p
         /\ \A h \in spent : h[1] = p => h \in Record(p).spent
<1>1. Record(p).known = {k \in known : k[1] = p} /\ Record(p).spent = {h \in spent : h[1] = p}
  BY DEF Record
<1>2. \A e : Hash(e)[1] = e.p /\ <<e.p, e.s>>[1] = e.p
  BY DEF Hash
<1>3. \A e \in Letters : Hash(e) \in Record(p).spent => <<e.p, e.s>> \in Record(p).known
  BY <1>1, <1>2 DEF LettersOK, Backed
<1>4. \A h \in Record(p).spent : \E q \in Peers, m \in Nat : h = <<q, m>> /\ m <= sent[q]
  BY <1>1 DEF LettersOK, Backed
<1>5. QED
  BY <1>1, <1>3, <1>4 DEF Backed

\* One more envelope is decrypted.
LEMMA LettersStore ==
  ASSUME Typed, LettersOK, NEW e \in Letters, NEW record, StoreSession(e, record),
         Backed(Letters, sent, record.known, record.spent), Letters' \subseteq Letters, UNCHANGED sent
  PROVE  LettersOK'
<1>1. /\ known' = (known \ Record(e.p).known) \cup record.known \cup {<<e.p, e.s>>}
      /\ spent' = (spent \ Record(e.p).spent) \cup record.spent \cup {Hash(e)}
  BY DEF StoreSession
<1>2. /\ Record(e.p).known = {k \in known : k[1] = e.p}
      /\ Record(e.p).spent = {h \in spent : h[1] = e.p}
  BY DEF Record
<1>3. e.p \in Peers /\ e.n \in Nat /\ sent[e.p] \in Nat /\ e.n <= sent[e.p]
  BY LettersTyped DEF LettersOK, Typed, WireOK
<1>4. ASSUME NEW f \in Letters, Hash(f) \in spent' PROVE <<f.p, f.s>> \in known'
  <2>1. CASE Hash(f) \in record.spent
    BY <1>1, <2>1 DEF Backed
  <2>2. CASE Hash(f) = Hash(e)
    <3>1. f = e
      BY <2>2 DEF LettersOK
    <3>2. QED
      BY <1>1, <3>1
  <2>3. CASE Hash(f) \in spent /\ Hash(f) \notin Record(e.p).spent
    <3>1. f.p # e.p
      BY <1>2, <2>3 DEF Hash
    <3>2. <<f.p, f.s>> \in known /\ <<f.p, f.s>>[1] # e.p
      BY <2>3, <3>1 DEF LettersOK, Backed
    <3>3. QED
      BY <1>1, <1>2, <3>2
  <2>4. QED
    BY <1>1, <1>4, <2>1, <2>2, <2>3
<1>5. ASSUME NEW h \in spent' PROVE \E p \in Peers, m \in Nat : h = <<p, m>> /\ m <= sent[p]
  <2>1. CASE h = Hash(e)
    BY <1>3, <2>1 DEF Hash
  <2>2. CASE h \in spent
    BY <2>2 DEF LettersOK, Backed
  <2>3. CASE h \in record.spent
    BY <2>3 DEF Backed
  <2>4. QED
    BY <1>1, <2>1, <2>2, <2>3
<1>6. Backed(Letters', sent', known', spent')
  BY <1>4, <1>5 DEF Backed
<1>7. QED
  BY <1>6 DEF LettersOK, Hash

\* A new envelope has a number of its own.
LEMMA NewLetter ==
  ASSUME Typed, LettersOK, NEW p \in Peers, NEW s \in Sessions, NEW c \in Nat, Sends(p, s, c),
         UNCHANGED <<job, tasks>>
  PROVE  /\ Letters' = Letters \cup {Envelope(p, s, c)} /\ inbox' = inbox \cup {Envelope(p, s, c)}
         /\ Envelope(p, s, c).p = p /\ Envelope(p, s, c) \notin Letters
         /\ Envelope(p, s, c).n = sent[p] + 1
         /\ Hash(Envelope(p, s, c)) \notin spent
         /\ \A e \in Letters : Hash(e) # Hash(Envelope(p, s, c))
         /\ Envelope(p, s, c).n \in 1..sent'[p] /\ sent' \in [Peers -> Nat]
         /\ sent'[p] = sent[p] + 1
         /\ \A q \in Peers : sent[q] \in Nat /\ sent'[q] >= sent[q] /\ (q # p => sent'[q] = sent[q])
<1> DEFINE e == Envelope(p, s, c)
<1>1. sent \in [Peers -> Nat] /\ sent' = [sent EXCEPT ![p] = sent[p] + 1] /\ inbox' = inbox \cup {e}
  BY DEF Sends, Typed, WireOK
<1>2. e.p = p /\ e.n = sent[p] + 1
  BY DEF Envelope
<1> HIDE DEF e
<1>3. sent[p] \in Nat /\ sent'[p] = sent[p] + 1 /\ \A q \in Peers : q # p => sent'[q] = sent[q]
  BY <1>1
<1>4. \A f \in Letters : f.p = p => f.n # e.n
  BY <1>2, <1>3, LettersTyped DEF LettersOK
<1>5. Letters' = Letters \cup {e}
  BY <1>1 DEF Letters
<1>6. Hash(e) \notin spent
  BY <1>2, <1>3 DEF LettersOK, Backed, Hash
<1>7. sent' \in [Peers -> Nat] /\ \A q \in Peers : sent[q] \in Nat /\ sent'[q] >= sent[q]
  BY <1>1
<1>8. \A f \in Letters : Hash(f) # Hash(e) /\ f # e
  BY <1>2, <1>4 DEF Hash
<1>9. e.n \in 1..sent'[p]
  BY <1>2, <1>3
<1>10. QED
  BY <1>1, <1>2, <1>3, <1>5, <1>6, <1>7, <1>8, <1>9 DEF e

LEMMA LettersSend ==
  ASSUME Typed, LettersOK, ViewsOK, NEW p \in Peers, NEW s \in Sessions, NEW c \in Nat, Sends(p, s, c),
         UNCHANGED <<job, tasks, known, spent, view>>
  PROVE  LettersOK' /\ ViewsOK'
<1> DEFINE e == Envelope(p, s, c)
<1>1. /\ Letters' = Letters \cup {e} /\ e.p = p /\ e.n = sent[p] + 1
      /\ \A f \in Letters : Hash(f) # Hash(e)
      /\ e.n \in 1..sent'[p]
      /\ \A q \in Peers : sent[q] \in Nat /\ sent'[q] \in Nat /\ sent'[q] >= sent[q]
  BY NewLetter
<1> HIDE DEF e
<1>2. \A f \in Letters' : f.p \in Peers /\ f.n \in 1..sent'[f.p]
  BY <1>1 DEF LettersOK
<1>3. \A f, g \in Letters' : Hash(f) = Hash(g) => f = g
  BY <1>1 DEF LettersOK
<1>4. ASSUME NEW ks, NEW hs, Backed(Letters, sent, ks, hs) PROVE Backed(Letters', sent', ks, hs)
  <2>1. ASSUME NEW h \in hs PROVE \E q \in Peers, m \in Nat : h = <<q, m>> /\ m <= sent'[q] /\ m <= sent[q]
    <3>1. PICK q \in Peers, m \in Nat : h = <<q, m>> /\ m <= sent[q]
      BY <1>4, <2>1 DEF Backed
    <3>2. m <= sent'[q]
      BY <1>1, <3>1
    <3>3. QED
      BY <3>1, <3>2
  <2>2. Hash(e) \notin hs
    <3> SUFFICES ASSUME Hash(e) \in hs PROVE FALSE
      OBVIOUS
    <3>1. PICK q \in Peers, m \in Nat : Hash(e) = <<q, m>> /\ m <= sent[q]
      BY <2>1
    <3>2. q = p /\ m = sent[p] + 1
      BY <1>1, <3>1 DEF Hash
    <3>3. QED
      BY <1>1, <3>1, <3>2
  <2>3. \A f \in Letters' : Hash(f) \in hs => <<f.p, f.s>> \in ks
    BY <1>1, <1>4, <2>2 DEF Backed
  <2>4. QED
    BY <2>1, <2>3 DEF Backed
<1>5. LettersOK'
  BY <1>2, <1>3, <1>4 DEF LettersOK, Hash
<1>6. ViewsOK'
  BY <1>4 DEF ViewsOK, Hash
<1>7. QED
  BY <1>5, <1>6

\* The steps of a handler: it ends, moves on, stores a session, or has the event handlers
\* take the message.
EndStep(l) == AlreadyDone(l) \/ TxnTooLate(l) \/ DecryptFails(l) \/ ClearBufferedEventPlaintext(l)
MoveStep(l) == GetBufferedEvent(l) \/ LoadSession(l) \/ DeletePreKey(l)
StoreStep(l) == DoDecryptionTxn(l) \/ PutSession(l)
HandlerStep(l) == EndStep(l) \/ MoveStep(l) \/ StoreStep(l) \/ Handle(l)

LEMMA EndSteps ==
  ASSUME NEW l \in Slots, EndStep(l)
  PROVE  /\ job[l].pc \in {"decrypt", "txn", "store", "remove", "clear"} /\ Done(l) /\ NotReceiving
         /\ tasks \subseteq tasks' /\ tasks' \subseteq tasks \cup {AckTask(job[l].e), RetryTask(job[l].e)}
         /\ UNCHANGED <<seen, known, spent, view, handled, gaveUp, mishap, redone>>
         /\ failed \subseteq failed' /\ raced \subseteq raced'
<1>1. CASE AlreadyDone(l)
  BY <1>1 DEF AlreadyDone, decrypted, story, overlaps
<1>2. CASE TxnTooLate(l)
  BY <1>2 DEF TxnTooLate, decrypted
<1>3. CASE DecryptFails(l)
  BY <1>3 DEF DecryptFails, decrypted, overlaps
<1>4. CASE ClearBufferedEventPlaintext(l)
  BY <1>4 DEF ClearBufferedEventPlaintext, story, overlaps
<1>5. QED
  BY <1>1, <1>2, <1>3, <1>4 DEF EndStep

LEMMA MoveSteps ==
  ASSUME NEW l \in Slots, MoveStep(l)
  PROVE  /\ \/ job[l].pc = "decrypt" /\ \E pc \in {"txn", "handle"} : JobTo(l, pc) /\ mode.buffer
            \/ job[l].pc = "decrypt" /\ JobTo(l, "store") /\ LoadSession(l) /\ ~mode.buffer
            \/ job[l].pc = "remove" /\ JobTo(l, "handle")
         /\ NotReceiving
         /\ UNCHANGED <<seen, tasks, known, spent, plain, cleared, handled, gaveUp, mishap, redone, failed, raced>>
         /\ view' = view \/ LoadSession(l)
<1>1. CASE GetBufferedEvent(l)
  BY <1>1 DEF GetBufferedEvent, decrypted, story, overlaps
<1>2. CASE LoadSession(l)
  BY <1>2 DEF LoadSession, decrypted, story, overlaps
<1>3. CASE DeletePreKey(l)
  BY <1>3 DEF DeletePreKey, decrypted
<1>4. QED
  BY <1>1, <1>2, <1>3 DEF MoveStep

LEMMA StoreSteps ==
  ASSUME NEW l \in Slots, StoreStep(l)
  PROVE  /\ \E pc \in {"remove", "handle"} : JobTo(l, pc) /\ (pc = "remove" => job[l].pc = "store")
         /\ NotReceiving /\ UNCHANGED <<seen, tasks, cleared, handled, gaveUp, mishap, redone, failed>>
         /\ raced \subseteq raced'
         /\ \/ /\ job[l].pc = "txn" /\ StoreSession(job[l].e, Record(job[l].e.p)) /\ Decryptable(job[l].e)
               /\ plain' = plain \cup {Hash(job[l].e)} /\ view' = view
            \/ /\ job[l].pc = "store" /\ StoreSession(job[l].e, view[l]) /\ plain' = plain
               /\ view' = [view EXCEPT ![l] = NoView]
               /\ view[l] # Record(job[l].e.p) => job[l].e.p \in raced'
<1>1. CASE DoDecryptionTxn(l)
  BY <1>1 DEF DoDecryptionTxn, story, overlaps
<1>2. CASE PutSession(l)
  <2>1. \E pc \in {"remove", "handle"} : JobTo(l, pc)
    BY <1>2 DEF PutSession
  <2>2. QED
    BY <1>2, <2>1 DEF PutSession
<1>3. QED
  BY <1>1, <1>2 DEF StoreStep

\* What they have in common.
LEMMA Handlers ==
  ASSUME Typed, NEW l \in Slots, HandlerStep(l)
  PROVE  /\ job[l].pc \in {"decrypt", "txn", "store", "remove", "handle", "clear"} /\ job[l].e \in Envelopes
         /\ UNCHANGED <<mode, sent, inbox, receipts, asked, seen, gaveUp, redone>>
         /\ tasks \subseteq tasks' /\ tasks' \subseteq tasks \cup {AckTask(job[l].e), RetryTask(job[l].e)}
         /\ raced \subseteq raced'
         /\ \A k \in Slots : k # l => job'[k] = job[k]
         /\ job'[l].pc # "idle" => job'[l].e = job[l].e
         /\ job'[l].pc \in Later \cup {"idle"}
         /\ job[l].e \in Letters /\ Letters' \subseteq Letters
<1>1. /\ job[l].pc \in {"decrypt", "txn", "store", "remove", "handle", "clear"} /\ NotReceiving
      /\ UNCHANGED <<seen, gaveUp, redone>>
      /\ tasks \subseteq tasks' /\ tasks' \subseteq tasks \cup {AckTask(job[l].e), RetryTask(job[l].e)}
      /\ raced \subseteq raced'
      /\ \E pc \in Later : JobTo(l, pc) \/ job' = [job EXCEPT ![l] = Idle]
  <2>1. CASE EndStep(l)
    BY <2>1, EndSteps DEF Done, Later
  <2>2. CASE MoveStep(l)
    BY <2>2, MoveSteps DEF Later
  <2>3. CASE StoreStep(l)
    BY <2>3, StoreSteps DEF Later
  <2>4. CASE Handle(l)
    BY <2>4 DEF Handle, Done, Later, overlaps
  <2>5. QED
    BY <2>1, <2>2, <2>3, <2>4 DEF HandlerStep
<1>2. UNCHANGED <<mode, sent, inbox, receipts, asked>>
  BY <1>1 DEF NotReceiving, wire
<1>3. /\ \A k \in Slots : job'[k].pc # "idle" => job'[k].e \in Envelopes
      /\ \A k \in Slots : k # l => job'[k] = job[k]
      /\ job'[l].pc # "idle" => job'[l].pc \in Later /\ job'[l].e = job[l].e
  BY <1>1, NextJob DEF Typed
<1>4. job[l].e \in Envelopes
  BY <1>1 DEF Typed, WorkOK
<1>5. job[l].e \in Letters
  BY <1>1 DEF Letters
<1>6. AckTask(job[l].e).e = job[l].e /\ RetryTask(job[l].e).e = job[l].e
  BY <1>4, Acks
<1>7. Letters' \subseteq Letters
  BY <1>1, <1>2, <1>3, <1>5, <1>6 DEF Letters
<1>8. QED
  BY <1>1, <1>2, <1>3, <1>4, <1>5, <1>7

\* A goroutine that has counted goes on with a receipt for the same envelope.
LEMMA GoesOn ==
  ASSUME Typed, NEW t \in tasks, FirstReceipt(t) \/ GenOnePreKey(t)
  PROVE  \E x : x.kind = "send" /\ x.e = t.e /\ tasks' = (tasks \ {t}) \cup {x}
<1>1. t \in Tasks
  BY DEF Typed, WorkOK
<1>2. CASE FirstReceipt(t)
  <2> DEFINE x == [t EXCEPT !.kind = "send", !.count = 1]
  <2>1. x.kind = "send" /\ x.e = t.e
    BY <1>1 DEF Tasks
  <2>2. tasks' = (tasks \ {t}) \cup {x}
    BY <1>2 DEF FirstReceipt, Becomes
  <2>3. QED
    BY <2>1, <2>2
<1>3. CASE GenOnePreKey(t)
  <2> DEFINE x(r) == [t EXCEPT !.kind = "send", !.count = RetryCount(t.e), !.key = KeyOf(r)]
             y == [t EXCEPT !.kind = "send", !.count = RetryCount(t.e)]
  <2>1. \A r \in Rows : x(r).kind = "send" /\ x(r).e = t.e
    BY <1>1 DEF Tasks
  <2>2. y.kind = "send" /\ y.e = t.e
    BY <1>1 DEF Tasks
  <2>3. \/ \E r \in Rows : tasks' = (tasks \ {t}) \cup {x(r)}
        \/ tasks' = (tasks \ {t}) \cup {y}
    BY <1>3, OneKey
  <2>4. QED
    <3> HIDE DEF x, y
    <3> QED
      BY <2>1, <2>2, <2>3
<1>4. QED
  BY <1>2, <1>3

\* What the goroutines for acknowledgements and receipts have in common.  One that goes
\* on has another kind, count or key.
LEMMA TaskSteps ==
  ASSUME Typed, NEW t \in tasks,
         sendAck(t) \/ NoMoreRetries(t) \/ FirstReceipt(t) \/ GenOnePreKey(t) \/ SendRetryReceipt(t)
  PROVE  /\ t \in Tasks /\ t.e \in Envelopes /\ t.e.p \in Peers
         /\ UNCHANGED <<mode, sent, seen, known, spent, view, plain, cleared, handled, redone, failed, raced>>
         /\ inbox' \subseteq inbox
         /\ \A x \in tasks' : x \in tasks \/ x.e = t.e
         /\ \A l \in Slots : job'[l] = job[l] \/ (job[l].pc = "wait" /\ job'[l].pc = "idle")
         /\ Letters' \subseteq Letters
<1>1. t \in Tasks /\ t.e \in Envelopes /\ t.e.p \in Peers
  BY DEF Typed, WorkOK, Tasks, Envelopes
<1>2. /\ UNCHANGED <<mode, sent, seen, known, spent, view, plain, cleared, handled, redone, failed, raced>>
      /\ inbox' \subseteq inbox
  BY DEF sendAck, NoMoreRetries, FirstReceipt, GenOnePreKey, SendRetryReceipt, Counted, NotTask, decrypted, story, overlaps
<1>3. \A x \in tasks' : x \in tasks \/ x.e = t.e
  <2>1. CASE sendAck(t)
    BY <2>1 DEF sendAck
  <2>2. CASE NoMoreRetries(t) \/ SendRetryReceipt(t)
    <3>1. AckTask(t.e).e = t.e
      BY <1>1, Acks
    <3>2. tasks' \subseteq (tasks \ {t}) \cup {AckTask(t.e)}
      BY <2>2 DEF NoMoreRetries, SendRetryReceipt, Ends
    <3>3. QED
      BY <3>1, <3>2
  <2>3. CASE FirstReceipt(t) \/ GenOnePreKey(t)
    BY <2>3, GoesOn
  <2>4. QED
    BY <2>1, <2>2, <2>3
<1>4. \A l \in Slots : job'[l] = job[l] \/ (job[l].pc = "wait" /\ job'[l].pc = "idle")
  <2>1. Idle.pc = "idle"
    BY DEF Idle
  <2>2. CASE sendAck(t)
    BY <2>1, <2>2 DEF sendAck
  <2>3. CASE ~sendAck(t)
    BY <2>3 DEF NoMoreRetries, FirstReceipt, GenOnePreKey, SendRetryReceipt, Counted
  <2>4. QED
    BY <2>2, <2>3
<1>5. Letters' \subseteq Letters
  BY <1>2, <1>3, <1>4 DEF Letters
<1>6. QED
  BY <1>1, <1>2, <1>3, <1>4, <1>5

\* The steps that leave the messages alone.
Aside ==
  /\ UNCHANGED <<mode, sent, inbox, receipts, asked, job, tasks, known, spent, view, plain, cleared>>
  /\ UNCHANGED <<handled, gaveUp, mishap, failed, raced>>
  /\ (seen' = seen /\ redone' = redone) \/ Reconnect

LEMMA AsideSteps ==
  ASSUME Uploading \/ LeaveBehind \/ Reconnect \/ UNCHANGED vars
  PROVE  Aside
<1>1. CASE Uploading
  BY <1>1 DEF Uploading, CountKeys, handleEncryptNotification, UploadAges, GiveUpUpload, GetOrGenPreKeys,
     SendUpload, MarkUploaded, NotUpload, Aside, wire, work, decrypted, story, overlaps
<1>2. CASE LeaveBehind
  BY <1>2 DEF LeaveBehind, Aside, wire, decrypted, story, overlaps
<1>3. CASE Reconnect
  BY <1>3 DEF Reconnect, Aside, wire, decrypted, overlaps
<1>4. CASE UNCHANGED vars
  BY <1>4 DEF vars, Aside, wire, work, decrypted, story, overlaps
<1>5. QED
  BY <1>1, <1>2, <1>3, <1>4

\* A peer sends an envelope: the first one, or because of a retry receipt.
Posting(p, s, c) ==
  /\ Sends(p, s, c) /\ NotPeer
  /\ \/ sent[p] = 0 /\ receipts' = receipts
     \/ \E r \in receipts : r.p = p /\ receipts' = receipts \ {r}

LEMMA Posts ==
  ASSUME Typed, (\E p \in Peers : PeerSends(p)) \/ (\E r \in receipts : handleRetryReceipt(r))
  PROVE  \E p \in Peers, s \in Sessions, c \in Nat : Posting(p, s, c)
<1>1. ASSUME NEW p \in Peers, PeerSends(p)
      PROVE  \E s \in Sessions, c \in Nat : Posting(p, s, c)
  <2>1. \E s \in Sessions : Sends(p, s, 0)
    BY <1>1, SomeSessions DEF PeerSends, Typed, WireOK
  <2>2. NotPeer /\ sent[p] = 0 /\ receipts' = receipts
    BY <1>1 DEF PeerSends
  <2>3. QED
    BY <2>1, <2>2 DEF Posting
<1>2. ASSUME NEW r \in receipts, handleRetryReceipt(r)
      PROVE  \E p \in Peers, s \in Sessions, c \in Nat : Posting(p, s, c)
  <2>1. r \in Receipts
    BY DEF Typed, WireOK
  <2>2. r.p \in Peers /\ r.count \in Nat /\ (r.key \in Keys \/ r.key = NoKey) /\ session[r.p] \in Sessions
    BY <2>1 DEF Receipts, Typed, WireOK
  <2>3. \E s \in Sessions : Sends(r.p, s, r.count)
    BY <1>2, <2>2, SomeSessions DEF handleRetryReceipt, Typed, WireOK
  <2>4. NotPeer /\ receipts' = receipts \ {r}
    BY <1>2 DEF handleRetryReceipt
  <2>5. QED
    BY <2>2, <2>3, <2>4 DEF Posting
<1>3. QED
  BY <1>1, <1>2

LEMMA NextSteps ==
  ASSUME Typed, [Next]_vars
  PROVE  \/ Aside
         \/ \E e \in inbox : Deliver(e)
         \/ \E l \in Slots : HandlerStep(l)
         \/ \E t \in tasks : sendAck(t) \/ NoMoreRetries(t) \/ FirstReceipt(t) \/ GenOnePreKey(t)
                             \/ SendRetryReceipt(t)
         \/ \E p \in asked : handlePlaceholderResendResponse(p)
         \/ \E p \in Peers, s \in Sessions, c \in Nat : Posting(p, s, c)
         \/ Restart
BY Posts, AsideSteps DEF Next, Receiving, Sending, HandlerStep, EndStep, MoveStep, StoreStep


\* What Deliver, the phone's copy and a crash do to the messages.
LEMMA Delivered ==
  ASSUME Typed, NEW e \in inbox, Deliver(e)
  PROVE  /\ conn \in Slots /\ job[conn].pc = "idle" /\ job'[conn].pc = "decrypt" /\ job'[conn].e = e
         /\ \A l \in Slots : l # conn => job'[l] = job[l]
         /\ e \notin seen /\ seen' = seen \cup {e} /\ Letters' \subseteq Letters
         /\ UNCHANGED <<mode, sent, inbox, receipts, asked, tasks, known, spent, view, plain, cleared>>
         /\ UNCHANGED <<handled, gaveUp, mishap, redone, failed, raced>>
<1>1. conn \in Slots /\ job \in [Slots -> Jobs]
  BY DEF Typed, WorkOK
<1>2. /\ job[conn] = Idle /\ e \notin seen /\ seen' = seen \cup {e}
      /\ job' = [job EXCEPT ![conn] = [pc |-> "decrypt", e |-> e]]
      /\ UNCHANGED <<mode, sent, inbox, receipts, asked, tasks, known, spent, view, plain, cleared>>
      /\ UNCHANGED <<handled, gaveUp, mishap, redone, failed, raced>>
  BY DEF Deliver, NotReceiving, wire, decrypted, story, overlaps
<1>3. job[conn].pc = "idle"
  BY <1>2 DEF Idle
<1>4. job'[conn].pc = "decrypt" /\ job'[conn].e = e /\ \A l \in Slots : l # conn => job'[l] = job[l]
  BY <1>1, <1>2
<1>5. Letters' \subseteq Letters
  BY <1>2, <1>4 DEF Letters
<1>6. QED
  BY <1>1, <1>2, <1>3, <1>4, <1>5

LEMMA PhoneCopies ==
  ASSUME Typed, NEW p \in asked, handlePlaceholderResendResponse(p)
  PROVE  /\ p \in Peers /\ handled' \in [Peers -> Nat] /\ handled'[p] = handled[p] + 1
         /\ \A q \in Peers : q # p => handled'[q] = handled[q]
         /\ asked' = asked \ {p}
         /\ UNCHANGED <<mode, sent, inbox, receipts, seen, job, tasks, known, spent, view, plain, cleared>>
         /\ UNCHANGED <<gaveUp, mishap, redone, failed, raced>>
<1>1. p \in Peers /\ handled \in [Peers -> Nat]
  BY DEF Typed, WireOK, RestOK
<1>2. /\ handled' = [handled EXCEPT ![p] = handled[p] + 1] /\ asked' = asked \ {p}
      /\ UNCHANGED <<mode, sent, inbox, receipts, seen, job, tasks, known, spent, view, plain, cleared>>
      /\ UNCHANGED <<gaveUp, mishap, redone, failed, raced>>
  BY DEF handlePlaceholderResendResponse, NotTask, decrypted, overlaps
<1>3. QED
  BY <1>1, <1>2

LEMMA Crashed ==
  ASSUME Restart
  PROVE  /\ tasks' = {} /\ seen' = {} /\ \A l \in Slots : job'[l].pc = "idle"
         /\ UNCHANGED <<mode, sent, inbox, receipts, asked, known, spent, view, plain, cleared>>
         /\ UNCHANGED <<handled, gaveUp, failed, raced>> /\ mishap' = mishap \cup CutOff
         /\ redone' = redone \cup Unacknowledged
         /\ Letters' = inbox
<1>1. /\ tasks' = {} /\ seen' = {} /\ \A l \in Slots : job'[l].pc = "idle"
      /\ UNCHANGED <<mode, sent, inbox, receipts, asked, known, spent, view, plain, cleared>>
      /\ UNCHANGED <<handled, gaveUp, failed, raced>> /\ mishap' = mishap \cup CutOff
      /\ redone' = redone \cup Unacknowledged
  BY DEF Restart, Idle, wire, decrypted, overlaps
<1>2. Letters' = inbox
  BY <1>1 DEF Letters
<1>3. QED
  BY <1>1, <1>2

\* What a handler leaves of the session records: those of other peers stay.
LEMMA Records ==
  ASSUME Typed, Lettered, NEW l \in Slots, HandlerStep(l)
  PROVE  /\ UNCHANGED <<known, spent>>
            \/ \E record : /\ StoreSession(job[l].e, record) /\ StoreStep(l)
                           /\ Backed(Letters, sent, record.known, record.spent)
                           /\ \A h \in record.spent : h[1] = job[l].e.p
         /\ \A h : h[1] # job[l].e.p => (h \in spent' <=> h \in spent)
<1>1. CASE ~StoreStep(l)
  <2>1. UNCHANGED <<known, spent>>
    BY <1>1, EndSteps, MoveSteps DEF HandlerStep, Handle, decrypted
  <2>2. QED
    BY <2>1
<1>2. CASE StoreStep(l)
  <2>1. PICK record : /\ StoreSession(job[l].e, record)
                      /\ Backed(Letters, sent, record.known, record.spent)
                      /\ \A h \in record.spent : h[1] = job[l].e.p
    <3>1. CASE StoreSession(job[l].e, Record(job[l].e.p))
      BY <3>1, RecordBacked DEF Lettered
    <3>2. CASE job[l].pc = "store" /\ StoreSession(job[l].e, view[l])
      BY <3>2 DEF Lettered, ViewsOK
    <3>3. QED
      BY <1>2, <3>1, <3>2, StoreSteps
  <2>2. spent' = (spent \ Record(job[l].e.p).spent) \cup record.spent \cup {Hash(job[l].e)}
    BY <2>1 DEF StoreSession
  <2>3. \A h \in Record(job[l].e.p).spent : h[1] = job[l].e.p
    BY DEF Record
  <2>4. Hash(job[l].e)[1] = job[l].e.p
    BY DEF Hash
  <2>5. \A h : h[1] # job[l].e.p => (h \in spent' <=> h \in spent)
    BY <2>1, <2>2, <2>3, <2>4
  <2>6. QED
    BY <1>2, <2>1, <2>5
<1>3. QED
  BY <1>1, <1>2

LEMMA HandlerLetters ==
  ASSUME Typed, Lettered, NEW l \in Slots, HandlerStep(l)
  PROVE  LettersOK'
<1>1. job[l].e \in Letters /\ Letters' \subseteq Letters /\ UNCHANGED sent
  BY Handlers
<1>2. CASE UNCHANGED <<known, spent>>
  BY <1>1, <1>2, LettersStay DEF Lettered
<1>3. ASSUME NEW record, StoreSession(job[l].e, record), Backed(Letters, sent, record.known, record.spent)
      PROVE  LettersOK'
  BY <1>1, <1>3, LettersStore DEF Lettered
<1>4. QED
  BY <1>2, <1>3, Records

LEMMA JobEnds ==
  ASSUME Typed, NEW l \in Slots
  PROVE  /\ Done(l) => job'[l].pc \in {"idle", "wait"}
         /\ \A pc \in Later : JobTo(l, pc) => job'[l].pc = pc /\ job'[l].e = job[l].e
<1>1. job[l] \in Jobs /\ job \in [Slots -> Jobs]
  BY DEF Typed, WorkOK
<1>2. /\ \A pc \in Later : [job[l] EXCEPT !.pc = pc].pc = pc /\ [job[l] EXCEPT !.pc = pc].e = job[l].e
      /\ Idle.pc = "idle" /\ "wait" \in Later
  BY <1>1 DEF Jobs, Idle, Later
<1>3. QED
  BY <1>1, <1>2 DEF JobTo, Done

LEMMA HandlerViews ==
  ASSUME Typed, Lettered, NEW l \in Slots, HandlerStep(l)
  PROVE  ViewsOK'
<1>1. /\ job[l].e \in Letters /\ Letters' \subseteq Letters /\ UNCHANGED sent
      /\ \A k \in Slots : k # l => job'[k] = job[k]
      /\ job'[l].pc # "idle" => job'[l].e = job[l].e
  BY Handlers
<1>2. view = [k \in Slots |-> view[k]] /\ ViewsOK
  BY DEF Lettered, ViewsOK
<1>3. ASSUME view' = view, job'[l].pc # "store" PROVE ViewsOK'
  BY <1>1, <1>2, <1>3, ViewsStay
<1>4. CASE EndStep(l)
  BY <1>3, <1>4, EndSteps, JobEnds
<1>5. CASE Handle(l)
  <2>1. job'[l].pc # "store"
    <3>1. JobTo(l, "clear") \/ Done(l) \/ job' = [job EXCEPT ![l] = Idle]
      BY <1>5 DEF Handle
    <3>2. job' = [job EXCEPT ![l] = Idle] => job'[l].pc = "idle"
      BY DEF Typed, WorkOK, Idle
    <3>3. QED
      BY <3>1, <3>2, JobEnds DEF Later
  <2>2. QED
    BY <1>3, <1>5, <2>1 DEF Handle, decrypted
<1>6. CASE MoveStep(l) /\ ~LoadSession(l)
  <2>1. view' = view /\ job'[l].pc # "store"
    BY <1>6, MoveSteps, JobEnds DEF Later
  <2>2. QED
    BY <1>3, <2>1
<1>7. CASE StoreStep(l)
  <2>1. job'[l].pc # "store"
    BY <1>7, StoreSteps, JobEnds DEF Later
  <2>2. view' = view \/ view' = [view EXCEPT ![l] = NoView]
    BY <1>7, StoreSteps
  <2>3. view' = [k \in Slots |-> view'[k]] /\ \A k \in Slots : k # l => view'[k] = view[k]
    BY <1>2, <2>2
  <2>4. QED
    BY <1>1, <1>2, <2>1, <2>3, ViewsStay
<1>8. CASE LoadSession(l)
  <2>1. /\ view' = [view EXCEPT ![l] = Record(job[l].e.p)] /\ Decryptable(job[l].e)
        /\ job'[l].pc = "store" /\ job'[l].e = job[l].e
    BY <1>8, JobEnds DEF LoadSession, Later
  <2>2. view' = [k \in Slots |-> view'[k]] /\ view'[l] = Record(job[l].e.p)
        /\ \A k \in Slots : k # l => view'[k] = view[k]
    BY <1>2, <2>1
  <2>3. Hash(job[l].e) \notin spent
    BY <1>1, <2>1 DEF Decryptable, OldCounter, InSession, Lettered, LettersOK, Backed
  <2>4. ASSUME NEW k \in Slots, job'[k].pc = "store"
        PROVE  /\ Backed(Letters, sent, view'[k].known, view'[k].spent)
               /\ \A h \in view'[k].spent : h[1] = job'[k].e.p
               /\ Hash(job'[k].e) \notin view'[k].spent
    <3>1. CASE k = l
      BY <2>1, <2>2, <2>3, <3>1, RecordBacked DEF Lettered
    <3>2. CASE k # l
      BY <1>1, <1>2, <2>2, <2>4, <3>2 DEF ViewsOK
    <3>3. QED
      BY <3>1, <3>2
  <2>5. \A k \in Slots : job'[k].pc = "store" => Backed(Letters', sent', view'[k].known, view'[k].spent)
    BY <1>1, <2>4, BackedLess
  <2>6. QED
    BY <2>2, <2>4, <2>5 DEF ViewsOK, Hash
<1>9. QED
  BY <1>4, <1>5, <1>6, <1>7, <1>8 DEF HandlerStep

LEMMA HandlerPaths ==
  ASSUME Typed, Lettered, NEW l \in Slots, HandlerStep(l)
  PROVE  StepsOK'
<1>1. mode' = mode /\ \A k \in Slots : k # l => job'[k] = job[k]
  BY Handlers
<1>2. /\ job'[l].pc \in {"txn", "clear"} => mode.buffer
      /\ job'[l].pc \in {"store", "remove"} => ~mode.buffer
  <2>1. CASE EndStep(l)
    BY <2>1, EndSteps, JobEnds
  <2>2. CASE MoveStep(l)
    BY <2>2, MoveSteps, JobEnds DEF Later
  <2>3. CASE StoreStep(l)
    BY <2>3, StoreSteps, JobEnds DEF Later, Lettered, StepsOK
  <2>4. CASE Handle(l)
    <3>1. (mode.buffer /\ JobTo(l, "clear")) \/ Done(l) \/ job' = [job EXCEPT ![l] = Idle]
      BY <2>4 DEF Handle
    <3>2. job' = [job EXCEPT ![l] = Idle] => job'[l].pc = "idle"
      BY DEF Typed, WorkOK, Idle
    <3>3. QED
      BY <3>1, <3>2, JobEnds DEF Later
  <2>5. QED
    BY <2>1, <2>2, <2>3, <2>4 DEF HandlerStep
<1>3. QED
  BY <1>1, <1>2 DEF Lettered, StepsOK

\* The handlers take a message, or refuse it.
LEMMA Handlings ==
  ASSUME Typed, NEW l \in Slots, Handle(l)
  PROVE  /\ job[l].pc = "handle" /\ job[l].e.p \in Peers
         /\ UNCHANGED <<known, spent, plain, cleared, failed>>
         /\ job'[l].pc \in {"idle", "wait", "clear"}
         /\ \/ /\ handled' \in [Peers -> Nat] /\ handled'[job[l].e.p] = handled[job[l].e.p] + 1
               /\ \A q \in Peers : q # job[l].e.p => handled'[q] = handled[q]
               /\ mishap' = mishap
            \/ /\ UNCHANGED <<handled, tasks>> /\ job'[l].pc = "idle"
               /\ mishap' = IF mode.buffer THEN mishap ELSE mishap \cup {job[l].e.p}
<1>1. job[l].pc = "handle" /\ UNCHANGED <<known, spent, plain, cleared, failed>>
  BY DEF Handle, decrypted
<1>2. handled \in [Peers -> Nat] /\ job \in [Slots -> Jobs] /\ job[l].e.p \in Peers
  BY <1>1 DEF Typed, WorkOK, RestOK, Envelopes
<1>3. CASE /\ handled' = [handled EXCEPT ![job[l].e.p] = @ + 1] /\ mishap' = mishap
           /\ IF mode.buffer THEN JobTo(l, "clear") ELSE Done(l)
  <2>1. job'[l].pc \in {"idle", "wait", "clear"}
    BY <1>3, JobEnds DEF Later
  <2>2. QED
    BY <1>1, <1>2, <1>3, <2>1
<1>4. CASE /\ UNCHANGED <<handled, tasks>> /\ job' = [job EXCEPT ![l] = Idle]
           /\ mishap' = IF mode.buffer THEN mishap ELSE mishap \cup {job[l].e.p}
  BY <1>1, <1>2, <1>4 DEF Idle
<1>5. QED
  BY <1>3, <1>4 DEF Handle

LEMMA HandlerBuffer ==
  ASSUME Typed, Lettered, NEW l \in Slots, HandlerStep(l)
  PROVE  BufferOK'
<1>1. /\ mode' = mode /\ \A k \in Slots : k # l => job'[k] = job[k]
      /\ job'[l].pc # "idle" => job'[l].e = job[l].e
      /\ job[l].e \in Envelopes
  BY Handlers
<1>2. handled \in [Peers -> Nat] /\ job[l].e.p \in Peers /\ \A k \in Slots : job[k].pc # "idle" => job[k].e.p \in Peers
  BY <1>1 DEF Typed, RestOK, WorkOK, Envelopes
<1>3. CASE EndStep(l) /\ ~ClearBufferedEventPlaintext(l)
  <2>1. UNCHANGED <<plain, cleared>>
    BY <1>3 DEF EndStep, AlreadyDone, TxnTooLate, DecryptFails, decrypted
  <2>2. handled' = handled /\ job'[l].pc \in {"idle", "wait"}
    BY <1>3, EndSteps, JobEnds
  <2>3. QED
    BY <1>1, <2>1, <2>2 DEF Lettered, BufferOK
<1>4. CASE MoveStep(l) \/ StoreStep(l)
  <2>1. UNCHANGED <<cleared, handled>> /\ job'[l].pc # "clear"
    BY <1>4, MoveSteps, StoreSteps, JobEnds DEF Later
  <2>2. ~mode.buffer => plain' = plain
    BY <1>4, MoveSteps, StoreSteps DEF Lettered, StepsOK
  <2>3. QED
    BY <1>1, <2>1, <2>2 DEF Lettered, BufferOK
<1>5. CASE Handle(l)
  <2>1. UNCHANGED <<plain, cleared>> /\ job[l].pc = "handle"
    BY <1>5, Handlings
  <2>2. CASE /\ handled' \in [Peers -> Nat] /\ handled'[job[l].e.p] = handled[job[l].e.p] + 1
             /\ \A q \in Peers : q # job[l].e.p => handled'[q] = handled[q]
    <3>1. \A q \in Peers : (handled[q] > 0 => handled'[q] > 0) /\ handled'[job[l].e.p] > 0
      BY <1>2, <2>2
    <3>2. \A k \in Slots : job'[k].pc = "clear" => handled'[job'[k].e.p] > 0
      BY <1>1, <1>2, <3>1 DEF Lettered, BufferOK
    <3>3. QED
      BY <1>1, <2>1, <3>1, <3>2 DEF Lettered, BufferOK
  <2>3. CASE UNCHANGED handled /\ job'[l].pc = "idle"
    BY <1>1, <2>1, <2>3 DEF Lettered, BufferOK
  <2>4. QED
    BY <1>5, <2>2, <2>3, Handlings
<1>6. CASE ClearBufferedEventPlaintext(l)
  <2>1. /\ plain' \subseteq plain /\ cleared' \subseteq cleared \cup {Hash(job[l].e)} /\ UNCHANGED handled
        /\ job'[l].pc \in {"idle", "wait"} /\ job[l].pc = "clear"
    BY <1>6, JobEnds DEF ClearBufferedEventPlaintext, story
  <2>2. Hash(job[l].e)[1] = job[l].e.p /\ handled[job[l].e.p] > 0
    BY <2>1 DEF Hash, Lettered, BufferOK
  <2>3. QED
    BY <1>1, <1>2, <2>1, <2>2 DEF Lettered, BufferOK
<1>7. QED
  BY <1>3, <1>4, <1>5, <1>6 DEF HandlerStep, EndStep

LEMMA LetteredStep ==
  ASSUME Typed, Lettered, [Next]_vars
  PROVE  Lettered'
<1>1. CASE Aside
  <2>1. Letters' = Letters
    BY <1>1 DEF Aside, Letters
  <2>2. LettersOK'
    BY <1>1, <2>1, LettersStay DEF Aside, Lettered
  <2>3. ViewsOK'
    BY <1>1, <2>1 DEF Aside, Lettered, ViewsOK, Hash
  <2>4. QED
    BY <1>1, <2>2, <2>3 DEF Aside, Lettered, BufferOK, StepsOK
<1>2. ASSUME NEW e \in inbox, Deliver(e) PROVE Lettered'
  <2>1. LettersOK'
    BY <1>2, Delivered, LettersStay DEF Lettered
  <2>2. ViewsOK'
    <3>1. view' = [l \in Slots |-> view'[l]]
      BY <1>2, Delivered DEF Lettered, ViewsOK
    <3>2. QED
      BY <1>2, <3>1, Delivered, ViewsStay DEF Lettered
  <2>3. BufferOK' /\ StepsOK'
    BY <1>2, Delivered DEF Lettered, BufferOK, StepsOK
  <2>4. QED
    BY <2>1, <2>2, <2>3 DEF Lettered
<1>3. ASSUME NEW l \in Slots, HandlerStep(l) PROVE Lettered'
  BY <1>3, HandlerLetters, HandlerViews, HandlerPaths, HandlerBuffer DEF Lettered
<1>4. ASSUME NEW t \in tasks, sendAck(t) \/ NoMoreRetries(t) \/ FirstReceipt(t) \/ GenOnePreKey(t)
                             \/ SendRetryReceipt(t)
      PROVE  Lettered'
  <2>1. LettersOK'
    BY <1>4, TaskSteps, LettersStay DEF Lettered
  <2>2. ViewsOK'
    <3>1. view' = [l \in Slots |-> view'[l]]
      BY <1>4, TaskSteps DEF Lettered, ViewsOK
    <3>2. QED
      BY <1>4, <3>1, TaskSteps, ViewsStay DEF Lettered
  <2>3. BufferOK' /\ StepsOK'
    BY <1>4, TaskSteps DEF Lettered, BufferOK, StepsOK
  <2>4. QED
    BY <2>1, <2>2, <2>3 DEF Lettered
<1>5. ASSUME NEW p \in asked, handlePlaceholderResendResponse(p) PROVE Lettered'
  <2>1. Letters' = Letters
    BY <1>5, PhoneCopies DEF Letters
  <2>2. LettersOK'
    BY <1>5, <2>1, PhoneCopies, LettersStay DEF Lettered
  <2>3. \A q \in Peers : handled[q] > 0 => handled'[q] > 0
    BY <1>5, PhoneCopies DEF Typed, RestOK
  <2>4. \A l \in Slots : job[l].pc = "clear" => job[l].e.p \in Peers
    BY DEF Typed, WorkOK, Envelopes
  <2>5. BufferOK' /\ StepsOK'
    BY <1>5, <2>3, <2>4, PhoneCopies DEF Lettered, BufferOK, StepsOK
  <2>6. ViewsOK'
    <3>1. UNCHANGED <<job, sent, view>>
      BY <1>5, PhoneCopies
    <3>2. QED
      BY <2>1, <3>1 DEF Lettered, ViewsOK, Hash
  <2>7. QED
    BY <2>2, <2>5, <2>6 DEF Lettered
<1>6. ASSUME NEW p \in Peers, NEW s \in Sessions, NEW c \in Nat, Posting(p, s, c) PROVE Lettered'
  <2>1. UNCHANGED <<mode, job, tasks, known, spent, view, plain, cleared, handled>> /\ Sends(p, s, c)
    BY <1>6 DEF Posting, NotPeer, work, decrypted
  <2>2. LettersOK' /\ ViewsOK'
    BY <2>1, LettersSend DEF Lettered
  <2>3. QED
    BY <2>1, <2>2 DEF Lettered, BufferOK, StepsOK
<1>7. CASE Restart
  <2>1. Letters' \subseteq Letters
    BY <1>7, Crashed DEF Letters
  <2>2. LettersOK'
    BY <1>7, <2>1, Crashed, LettersStay DEF Lettered
  <2>3. BufferOK' /\ StepsOK'
    BY <1>7, Crashed DEF Lettered, BufferOK, StepsOK
  <2>4. ViewsOK'
    BY <1>7, Crashed DEF Lettered, ViewsOK
  <2>5. QED
    BY <2>2, <2>3, <2>4 DEF Lettered
<1>8. QED
  BY <1>1, <1>2, <1>3, <1>4, <1>5, <1>6, <1>7, NextSteps


-----------------------------------------------------------------------------
(***************************************************************************)
(* No message is lost                                                      *)
(***************************************************************************)

\* The envelopes an acknowledgement is on its way for.
Acked == {t.e : t \in {x \in tasks : x.kind = "ack"}}

\* A delivery of the envelope reaches the handlers or fails with a retry receipt.
Live(e) == Hash(e) \in plain \/ Hash(e) \notin spent

\* What there may be of a message: an envelope that stays at the server, a plaintext in a
\* handler's hands, a retry receipt that is being made and one on its way.
AtServer(p) == \E e \in inbox \ Acked : e.p = p /\ Live(e)
InHand(p) ==
  ~mode.buffer /\ \E l \in Slots : job[l].pc \in {"remove", "handle"} /\ job[l].e.p = p /\ Hash(job[l].e) \in spent
Asking(p) == \E t \in tasks : t.kind # "ack" /\ t.e.p = p /\ (~mode.sync \/ Hash(t.e) \in spent)
Asked(p) == \E r \in receipts : r.p = p
Over(p) == handled[p] > 0 \/ p \in gaveUp \cup mishap \/ (mode.buffer /\ p \in raced)

\* Unlike Waiting, Sure leaves out what an acknowledgement, a lost connection or a crash
\* can take away: an envelope with an acknowledgement on its way, a buffered plaintext in
\* a handler's hands, and, with SynchronousAck, the receipt for an envelope that will come
\* again.
Sure(p) == Over(p) \/ AtServer(p) \/ InHand(p) \/ Asking(p) \/ Asked(p)
Cared == \A p \in Peers : sent[p] > 0 => Sure(p)

LEMMA StartCared == Init => Cared
BY DEF Init, Cared

LEMMA CaredGivesNotLost ==
  ASSUME Typed, Lettered, Cared
  PROVE  NotLost
<1> SUFFICES ASSUME NEW p \in Peers, sent[p] > 0
             PROVE  handled[p] > 0 \/ Waiting(p) \/ p \in gaveUp \cup mishap \/ (mode.buffer /\ p \in raced)
  BY DEF NotLost
<1>1. ASSUME NEW e \in inbox, Live(e) PROVE Hash(e) \in plain \/ ~OldCounter(e)
  BY <1>1 DEF Live, OldCounter
<1>2. QED
  BY <1>1 DEF Cared, Sure, Over, AtServer, InHand, Asking, Asked, Waiting

\* What a handler leaves of the buffer, and of the other peers' messages.
LEMMA Plaintexts ==
  ASSUME Typed, NEW l \in Slots, HandlerStep(l)
  PROVE  /\ \A h \in plain : h \in plain' \/ (h = Hash(job[l].e) /\ ClearBufferedEventPlaintext(l))
         /\ \A q \in Peers : q # job[l].e.p => handled'[q] = handled[q]
         /\ mishap \subseteq mishap'
         /\ Handle(l) \/ UNCHANGED <<handled, mishap>>
<1>1. CASE EndStep(l)
  <2>1. UNCHANGED <<handled, mishap>>
    BY <1>1, EndSteps
  <2>2. \A h \in plain : h \in plain' \/ (h = Hash(job[l].e) /\ ClearBufferedEventPlaintext(l))
    BY <1>1 DEF EndStep, AlreadyDone, TxnTooLate, DecryptFails, ClearBufferedEventPlaintext, decrypted
  <2>3. QED
    BY <2>1, <2>2
<1>2. CASE MoveStep(l)
  BY <1>2, MoveSteps
<1>3. CASE StoreStep(l)
  BY <1>3, StoreSteps
<1>4. CASE Handle(l)
  BY <1>4, Handlings
<1>5. QED
  BY <1>1, <1>2, <1>3, <1>4 DEF HandlerStep

\* A step of a handler for an envelope of another peer.
LEMMA OthersCared ==
  ASSUME Typed, Lettered, NEW l \in Slots, NEW p \in Peers, HandlerStep(l), p # job[l].e.p, Sure(p)
  PROVE  Sure(p)'
<1> DEFINE e == job[l].e
<1>1. /\ UNCHANGED <<mode, inbox, receipts, gaveUp>> /\ tasks \subseteq tasks' /\ raced \subseteq raced'
      /\ tasks' \subseteq tasks \cup {AckTask(e), RetryTask(e)}
      /\ \A k \in Slots : k # l => job'[k] = job[k]
      /\ e \in Envelopes
  BY Handlers
<1>2. AckTask(e).e = e /\ RetryTask(e).e = e
  BY <1>1, Acks
<1>3. \A x : Hash(x)[1] = x.p
  BY DEF Hash
<1>4. /\ \A h : h[1] = p => (h \in spent' <=> h \in spent)
      /\ \A h \in plain : h \in plain' \/ h = Hash(e)
  BY Records, Plaintexts
<1>5. handled'[p] = handled[p] /\ mishap \subseteq mishap'
  BY Plaintexts
<1> HIDE DEF e
<1>6. CASE Over(p)
  BY <1>1, <1>5, <1>6 DEF Over, Sure
<1>7. CASE AtServer(p)
  <2>1. PICK f \in inbox \ Acked : f.p = p /\ Live(f)
    BY <1>7 DEF AtServer
  <2>2. Hash(f) # Hash(e) /\ f # e
    BY <1>3, <2>1 DEF e
  <2>3. Live(f)'
    BY <1>3, <1>4, <2>1, <2>2 DEF Live, Hash
  <2>4. f \notin Acked'
    BY <1>1, <1>2, <2>1, <2>2 DEF Acked
  <2>5. QED
    BY <1>1, <2>1, <2>3, <2>4 DEF AtServer, Sure
<1>8. CASE InHand(p)
  <2>1. PICK k \in Slots : job[k].pc \in {"remove", "handle"} /\ job[k].e.p = p /\ Hash(job[k].e) \in spent
    BY <1>8 DEF InHand
  <2>2. job'[k] = job[k] /\ Hash(job[k].e) \in spent'
    BY <1>1, <1>3, <1>4, <2>1 DEF e
  <2>3. QED
    BY <1>1, <1>8, <2>1, <2>2 DEF InHand, Sure, Hash
<1>9. CASE Asking(p)
  <2>1. PICK t \in tasks : t.kind # "ack" /\ t.e.p = p /\ (~mode.sync \/ Hash(t.e) \in spent)
    BY <1>9 DEF Asking
  <2>2. Hash(t.e) \in spent => Hash(t.e) \in spent'
    BY <1>3, <1>4, <2>1
  <2>3. QED
    BY <1>1, <2>1, <2>2 DEF Asking, Sure, Hash
<1>10. CASE Asked(p)
  BY <1>1, <1>10 DEF Asked, Sure
<1>11. QED
  BY <1>6, <1>7, <1>8, <1>9, <1>10 DEF Sure

\* The same for the peer whose envelope it is: when the session is stored,
LEMMA CaredStore ==
  ASSUME Typed, Lettered, NEW l \in Slots, StoreStep(l), NEW e, e = job[l].e, NEW p, p = e.p, Sure(p)
  PROVE  Sure(p)'
<1>1. /\ UNCHANGED <<mode, inbox, receipts, gaveUp>> /\ tasks' = tasks /\ raced \subseteq raced'
      /\ \A k \in Slots : k # l => job'[k] = job[k]
      /\ e \in Letters /\ UNCHANGED <<handled, mishap>>
  BY Handlers, StoreSteps DEF HandlerStep
<1>2. job'[l].pc \in {"remove", "handle"} /\ job'[l].e = e
  BY StoreSteps, JobEnds DEF Later
<1>3. Hash(e) \in spent'
  BY StoreSteps, Storing
<1>4. CASE ~mode.buffer
  BY <1>1, <1>2, <1>3, <1>4 DEF InHand, Sure, Hash
<1>5. CASE mode.buffer
  <2>1. job[l].pc = "txn" /\ StoreSession(e, Record(e.p)) /\ plain' = plain \cup {Hash(e)}
    BY <1>5, StoreSteps DEF Lettered, StepsOK
  <2>2. spent' = spent \cup {Hash(e)}
    BY <2>1, Storing
  <2>3. ~InHand(p)
    BY <1>5 DEF InHand
  <2>4. CASE Over(p)
    BY <1>1, <2>4 DEF Over, Sure
  <2>5. CASE AtServer(p)
    <3>1. PICK f \in inbox \ Acked : f.p = p /\ Live(f)
      BY <2>5 DEF AtServer
    <3>2. Live(f)'
      BY <2>1, <2>2, <3>1 DEF Live, Hash
    <3>3. QED
      BY <1>1, <3>1, <3>2 DEF AtServer, Acked, Sure
  <2>6. CASE Asking(p) \/ Asked(p)
    BY <1>1, <2>2, <2>6 DEF Asking, Asked, Sure, Hash
  <2>7. QED
    BY <2>3, <2>4, <2>5, <2>6 DEF Sure
<1>6. QED
  BY <1>4, <1>5

\* when the handlers have it,
LEMMA CaredHandle ==
  ASSUME Typed, Lettered, NEW l \in Slots, Handle(l), NEW p, p = job[l].e.p, Sure(p)
  PROVE  Sure(p)'
<1>1. UNCHANGED <<mode, inbox, receipts, gaveUp>> /\ raced \subseteq raced'
  BY Handlers DEF HandlerStep
<1>2. p \in Peers /\ handled \in [Peers -> Nat]
  BY Handlings DEF Typed, RestOK
<1>3. CASE handled'[p] = handled[p] + 1
  BY <1>2, <1>3 DEF Sure, Over
<1>4. CASE UNCHANGED <<handled, tasks>> /\ mishap' = IF mode.buffer THEN mishap ELSE mishap \cup {p}
  <2>1. CASE ~mode.buffer
    BY <1>4, <2>1 DEF Sure, Over
  <2>2. CASE mode.buffer
    <3>1. UNCHANGED <<spent, plain, mishap>>
      BY <1>4, <2>2, Handlings
    <3>2. Over(p) \/ AtServer(p) \/ Asking(p) \/ Asked(p)
      BY <2>2 DEF Sure, InHand
    <3>3. QED
      BY <1>1, <1>4, <3>1, <3>2 DEF Sure, Over, AtServer, Asking, Asked, Acked, Live, Hash
  <2>3. QED
    BY <2>1, <2>2
<1>5. QED
  BY <1>3, <1>4, Handlings

\* when the handler moves on,
LEMMA CaredMove ==
  ASSUME Typed, Lettered, NEW l \in Slots, MoveStep(l), NEW p, Sure(p)
  PROVE  Sure(p)'
<1>1. /\ UNCHANGED <<mode, inbox, receipts>> /\ \A k \in Slots : k # l => job'[k] = job[k]
      /\ UNCHANGED <<tasks, spent, plain, handled, gaveUp, mishap, raced>>
  BY Handlers, MoveSteps DEF HandlerStep
<1>2. job[l].pc \in {"remove", "handle"} => job'[l].pc = "handle" /\ job'[l].e = job[l].e
  BY MoveSteps, JobEnds DEF Later
<1>3. InHand(p) => InHand(p)'
  <2> SUFFICES ASSUME InHand(p) PROVE InHand(p)'
    OBVIOUS
  <2>1. PICK k \in Slots : job[k].pc \in {"remove", "handle"} /\ job[k].e.p = p /\ Hash(job[k].e) \in spent
    BY DEF InHand
  <2>2. job'[k].pc \in {"remove", "handle"} /\ job'[k].e = job[k].e
    BY <1>1, <1>2, <2>1
  <2>3. QED
    BY <1>1, <2>1, <2>2 DEF InHand, Hash
<1>4. /\ Over(p) => Over(p)'
      /\ AtServer(p) => AtServer(p)'
      /\ Asking(p) => Asking(p)'
      /\ Asked(p) => Asked(p)'
  BY <1>1 DEF Over, AtServer, Asking, Asked, Acked, Live, Hash
<1>5. QED
  BY <1>3, <1>4 DEF Sure

\* and when it ends.
LEMMA CaredEnd ==
  ASSUME Typed, Lettered, NEW l \in Slots, EndStep(l), NEW e, e = job[l].e, NEW p, p = e.p, Sure(p)
  PROVE  Sure(p)'
<1>1. /\ UNCHANGED <<mode, inbox, receipts, gaveUp, spent, handled, mishap>> /\ raced \subseteq raced'
      /\ tasks \subseteq tasks' /\ tasks' \subseteq tasks \cup {AckTask(e), RetryTask(e)}
      /\ \A k \in Slots : k # l => job'[k] = job[k]
      /\ e \in Envelopes /\ e \in Letters
  BY Handlers, EndSteps DEF HandlerStep
<1>2. /\ AckTask(e).e = e /\ RetryTask(e).e = e
      /\ RetryTask(e).kind # "ack"
  BY <1>1, Acks DEF RetryTask
<1>3. CASE ClearBufferedEventPlaintext(l)
  <2>1. handled[p] > 0
    BY <1>3 DEF ClearBufferedEventPlaintext, Lettered, BufferOK
  <2>2. QED
    BY <1>1, <2>1 DEF Sure, Over
<1>4. CASE TxnTooLate(l)
  <2>1. mode.buffer /\ p \in raced'
    BY <1>4 DEF TxnTooLate, Lettered, StepsOK
  <2>2. QED
    BY <1>1, <2>1 DEF Sure, Over
<1>5. CASE AlreadyDone(l) \/ DecryptFails(l)
  <2>1. UNCHANGED <<plain, cleared>>
    BY <1>5 DEF AlreadyDone, DecryptFails, decrypted
  <2>2. CASE Over(p)
    BY <1>1, <2>2 DEF Over, Sure
  <2>3. CASE Asking(p)
    BY <1>1, <2>3 DEF Asking, Sure, Hash
  <2>4. CASE Asked(p)
    BY <1>1, <2>4 DEF Asked, Sure
  <2>5. CASE InHand(p)
    <3>1. PICK k \in Slots : job[k].pc \in {"remove", "handle"} /\ job[k].e.p = p /\ Hash(job[k].e) \in spent
      BY <2>5 DEF InHand
    <3>2. CASE k # l
      BY <1>1, <2>5, <3>1, <3>2 DEF InHand, Sure, Hash
    <3>3. CASE k = l
      <4>1. RetryTask(e) \in tasks'
        BY <1>5, <3>1, <3>3 DEF AlreadyDone, DecryptFails
      <4>2. Hash(e) \in spent
        BY <3>1, <3>3
      <4>3. QED
        BY <1>1, <1>2, <4>1, <4>2 DEF Asking, Sure, Hash
    <3>4. QED
      BY <3>2, <3>3
  <2>6. ASSUME NEW f \in inbox \ Acked, f.p = p, Live(f), f # e PROVE Sure(p)'
    <3>1. f \notin Acked'
      BY <1>1, <1>2, <2>6 DEF Acked
    <3>2. Live(f)'
      BY <1>1, <2>1, <2>6 DEF Live, Hash
    <3>3. QED
      BY <1>1, <2>6, <3>1, <3>2 DEF AtServer, Sure
  <2>7. ASSUME e \in inbox \ Acked, Live(e) PROVE Sure(p)'
    <3>1. CASE AlreadyDone(l)
      <4>1. CASE Hash(e) \in cleared
        <5>1. handled[p] > 0
          BY <4>1 DEF Lettered, BufferOK, Hash
        <5>2. QED
          BY <1>1, <5>1 DEF Over, Sure
      <4>2. CASE ~mode.buffer /\ OldCounter(e)
        BY <2>7, <4>2 DEF Lettered, BufferOK, Live, OldCounter
      <4>3. QED
        BY <3>1, <4>1, <4>2 DEF AlreadyDone
    <3>2. CASE DecryptFails(l)
      <4>1. tasks' = tasks \cup {RetryTask(e)} \cup (IF mode.sync THEN {} ELSE {AckTask(e)})
        BY <3>2 DEF DecryptFails
      <4>2. CASE ~mode.sync
        BY <1>1, <1>2, <4>1, <4>2 DEF Asking, Sure, Hash
      <4>3. CASE mode.sync
        <5>1. e \notin Acked'
          BY <1>2, <2>7, <4>1, <4>3 DEF Acked
        <5>2. Live(e)'
          BY <1>1, <2>1, <2>7 DEF Live, Hash
        <5>3. QED
          BY <1>1, <2>7, <5>1, <5>2 DEF AtServer, Sure
      <4>4. QED
        BY <4>2, <4>3
    <3>3. QED
      BY <1>5, <3>1, <3>2
  <2>8. QED
    BY <2>2, <2>3, <2>4, <2>5, <2>6, <2>7 DEF Sure, AtServer
<1>6. QED
  BY <1>3, <1>4, <1>5 DEF EndStep

LEMMA CaredHandler ==
  ASSUME Typed, Lettered, NEW l \in Slots, NEW p \in Peers, HandlerStep(l), Sure(p)
  PROVE  Sure(p)'
<1>1. CASE p # job[l].e.p
  BY <1>1, OthersCared
<1>2. CASE p = job[l].e.p
  BY <1>2, CaredStore, CaredHandle, CaredMove, CaredEnd DEF HandlerStep
<1>3. QED
  BY <1>1, <1>2


\* A goroutine's step for an envelope of another peer, and for one of this peer.
LEMMA CaredTask ==
  ASSUME Typed, Lettered, NEW t \in tasks, NEW p \in Peers, Sure(p),
         sendAck(t) \/ NoMoreRetries(t) \/ FirstReceipt(t) \/ GenOnePreKey(t) \/ SendRetryReceipt(t)
  PROVE  Sure(p)'
<1>1. /\ t.e \in Envelopes /\ t.e.p \in Peers
      /\ UNCHANGED <<mode, spent, plain, handled, raced>>
      /\ \A x \in tasks' : x \in tasks \/ x.e = t.e
      /\ \A l \in Slots : job'[l] = job[l] \/ (job[l].pc = "wait" /\ job'[l].pc = "idle")
  BY TaskSteps
<1>2. /\ gaveUp \subseteq gaveUp' /\ mishap \subseteq mishap' /\ receipts \subseteq receipts'
      /\ inbox' = inbox \/ (sendAck(t) /\ inbox' = inbox \ {t.e} /\ t.kind = "ack")
  BY DEF sendAck, NoMoreRetries, FirstReceipt, GenOnePreKey, SendRetryReceipt, Counted, story
<1>3. \A x \in tasks : x \in tasks' \/ x = t
  BY GoesOn DEF sendAck, NoMoreRetries, SendRetryReceipt, Ends
<1>4. CASE Over(p)
  BY <1>1, <1>2, <1>4 DEF Over, Sure
<1>5. CASE InHand(p)
  BY <1>1, <1>5 DEF InHand, Sure, Hash
<1>6. CASE Asked(p)
  BY <1>2, <1>6 DEF Asked, Sure
<1>7. CASE t.e.p = p /\ t.kind # "ack"
  <2>1. CASE NoMoreRetries(t)
    BY <1>7, <2>1 DEF NoMoreRetries, Over, Sure
  <2>2. CASE SendRetryReceipt(t)
    <3>1. [p |-> t.e.p, count |-> t.count, key |-> t.key].p = t.e.p
      OBVIOUS
    <3>2. QED
      BY <1>7, <2>2, <3>1 DEF SendRetryReceipt, Over, Asked, Sure
  <2>3. CASE FirstReceipt(t) \/ GenOnePreKey(t)
    <3>1. PICK x : x.kind = "send" /\ x.e = t.e /\ tasks' = (tasks \ {t}) \cup {x}
      BY <2>3, GoesOn
    <3>2. CASE Asking(p)
      BY <1>1, <3>1, <3>2 DEF Asking, Hash, Sure
    <3>3. CASE AtServer(p)
      <4>1. Acked' \subseteq Acked /\ inbox' = inbox
        BY <1>2, <1>7, <3>1 DEF Acked
      <4>2. QED
        BY <1>1, <3>3, <4>1 DEF AtServer, Live, Hash, Sure
    <3>4. QED
      BY <1>4, <1>5, <1>6, <3>2, <3>3 DEF Sure
  <2>4. QED
    BY <1>7, <2>1, <2>2, <2>3 DEF sendAck
<1>8. CASE t.e.p # p \/ t.kind = "ack"
  <2>1. CASE Asking(p)
    BY <1>1, <1>3, <1>8, <2>1 DEF Asking, Hash, Sure
  <2>2. CASE AtServer(p)
    <3>1. PICK f \in inbox \ Acked : f.p = p /\ Live(f)
      BY <2>2 DEF AtServer
    <3>2. f # t.e
      BY <1>8, <3>1 DEF Acked
    <3>3. f \in inbox' \ Acked'
      BY <1>1, <1>2, <3>1, <3>2 DEF Acked
    <3>4. QED
      BY <1>1, <3>1, <3>3 DEF AtServer, Live, Hash, Sure
  <2>3. QED
    BY <1>4, <1>5, <1>6, <2>1, <2>2 DEF Sure
<1>9. QED
  BY <1>7, <1>8

LEMMA CaredStep ==
  ASSUME Typed, Lettered, Cared, [Next]_vars
  PROVE  Cared'
<1>1. CASE Aside
  BY <1>1 DEF Aside, Cared, Sure, Over, AtServer, InHand, Asking, Asked, Acked, Live, Hash
<1>2. ASSUME NEW e \in inbox, Deliver(e) PROVE Cared'
  <2> SUFFICES ASSUME NEW p \in Peers, Sure(p) PROVE Sure(p)'
    BY <1>2, Delivered DEF Cared
  <2>1. InHand(p) => InHand(p)'
    BY <1>2, Delivered DEF InHand, Hash
  <2>2. /\ Over(p) => Over(p)'
        /\ AtServer(p) => AtServer(p)'
        /\ Asking(p) => Asking(p)'
        /\ Asked(p) => Asked(p)'
    <3>1. UNCHANGED <<mode, inbox, receipts, tasks, spent, plain, handled, gaveUp, mishap, raced>>
      BY <1>2, Delivered
    <3>2. QED
      BY <3>1 DEF Over, AtServer, Asking, Asked, Acked, Live, Hash
  <2>3. QED
    BY <2>1, <2>2 DEF Sure
<1>3. ASSUME NEW l \in Slots, HandlerStep(l) PROVE Cared'
  BY <1>3, CaredHandler, Handlers DEF Cared
<1>4. ASSUME NEW t \in tasks, sendAck(t) \/ NoMoreRetries(t) \/ FirstReceipt(t) \/ GenOnePreKey(t)
                             \/ SendRetryReceipt(t)
      PROVE  Cared'
  BY <1>4, CaredTask, TaskSteps DEF Cared
<1>5. ASSUME NEW q \in asked, handlePlaceholderResendResponse(q) PROVE Cared'
  <2> SUFFICES ASSUME NEW p \in Peers, Sure(p) PROVE Sure(p)'
    BY <1>5, PhoneCopies DEF Cared
  <2>1. Over(p) => Over(p)'
    BY <1>5, PhoneCopies DEF Over, Typed, RestOK
  <2>2. /\ AtServer(p) => AtServer(p)'
        /\ InHand(p) => InHand(p)'
        /\ Asking(p) => Asking(p)'
        /\ Asked(p) => Asked(p)'
    <3>1. UNCHANGED <<mode, inbox, receipts, job, tasks, spent, plain>>
      BY <1>5, PhoneCopies
    <3>2. QED
      BY <3>1 DEF AtServer, InHand, Asking, Asked, Acked, Live, Hash
  <2>3. QED
    BY <2>1, <2>2 DEF Sure
<1>6. ASSUME NEW q \in Peers, NEW s \in Sessions, NEW c \in Nat, Posting(q, s, c) PROVE Cared'
  <2> DEFINE e == Envelope(q, s, c)
  <2>1. UNCHANGED <<mode, job, tasks, spent, plain, handled, gaveUp, mishap, raced>> /\ Sends(q, s, c)
    BY <1>6 DEF Posting, NotPeer, work, decrypted, overlaps
  <2>2. /\ Letters' = Letters \cup {e} /\ inbox' = inbox \cup {e} /\ e.p = q /\ e \notin Letters
        /\ Hash(e) \notin spent
        /\ \A p \in Peers : p # q => sent'[p] = sent[p]
    BY <2>1, NewLetter DEF Lettered
  <2>3. PICK f : f = e
    OBVIOUS
  <2>4. Acked' = Acked /\ Acked \subseteq Letters
    BY <2>1 DEF Acked, Letters
  <2>5. Sure(q)'
    <3>1. f \in inbox' \ Acked' /\ f.p = q /\ Hash(f) \notin spent
      BY <2>2, <2>3, <2>4
    <3>2. Live(f)'
      BY <2>1, <3>1 DEF Live, Hash
    <3>3. QED
      BY <3>1, <3>2 DEF Sure, AtServer
  <2>6. ASSUME NEW p \in Peers, p # q, Sure(p) PROVE Sure(p)'
    <3> HIDE DEF e
    <3>1. Over(p) => Over(p)'
      BY <2>1 DEF Over
    <3>2. AtServer(p) => AtServer(p)'
      BY <2>1, <2>2, <2>4 DEF AtServer, Live, Hash
    <3>3. (InHand(p) => InHand(p)') /\ (Asking(p) => Asking(p)')
      BY <2>1 DEF InHand, Asking, Hash
    <3>4. Asked(p) => Asked(p)'
      BY <1>6, <2>6 DEF Posting, Asked
    <3>5. QED
      BY <2>6, <3>1, <3>2, <3>3, <3>4 DEF Sure
  <2>7. QED
    BY <2>2, <2>5, <2>6 DEF Cared
<1>7. CASE Restart
  <2> SUFFICES ASSUME NEW p \in Peers, Sure(p) PROVE Sure(p)'
    BY <1>7, Crashed DEF Cared
  <2>1. CASE Over(p)
    BY <1>7, <2>1, Crashed DEF Over, Sure
  <2>2. CASE AtServer(p)
    BY <1>7, <2>2, Crashed DEF AtServer, Acked, Live, Hash, Sure
  <2>3. CASE InHand(p)
    <3>1. p \in CutOff
      BY <2>3 DEF InHand, CutOff
    <3>2. QED
      BY <1>7, <3>1, Crashed DEF Over, Sure
  <2>4. CASE Asking(p)
    <3>1. PICK t \in tasks : t.kind # "ack" /\ t.e.p = p /\ (~mode.sync \/ Hash(t.e) \in spent)
      BY <2>4 DEF Asking
    <3>2. t.e \in Letters
      BY DEF Letters
    <3>3. ~mode.sync \/ OldCounter(t.e)
      BY <3>1, <3>2 DEF Lettered, LettersOK, Backed, OldCounter, InSession
    <3>4. p \in CutOff
      BY <3>1, <3>3 DEF CutOff
    <3>5. QED
      BY <1>7, <3>4, Crashed DEF Over, Sure
  <2>5. CASE Asked(p)
    BY <1>7, <2>5, Crashed DEF Asked, Sure
  <2>6. QED
    BY <2>1, <2>2, <2>3, <2>4, <2>5 DEF Sure
<1>8. QED
  BY <1>1, <1>2, <1>3, <1>4, <1>5, <1>6, <1>7, NextSteps

LEMMA AlwaysCared == Spec => [](Typed /\ Lettered /\ Cared)
<1>1. Init => Typed /\ Lettered /\ Cared
  BY StartTyped, StartLettered, StartCared
<1>2. Typed /\ Lettered /\ Cared /\ [Next]_vars => (Typed /\ Lettered /\ Cared)'
  BY TypedStep, LetteredStep, CaredStep
<1>3. QED
  BY <1>1, <1>2, PTL DEF Spec

\* A message of a peer reaches the event handlers or somebody will still try to deliver
\* it, unless RetryLimit receipts failed, or a crash, a refusing handler without the event
\* buffer, or an unsent retry receipt cut its recovery off, or, with the buffer, a second
\* goroutine looked into it before the first one's transaction: whatever the number of
\* peers, goroutines, faults and connections, with and without SynchronousAck.
THEOREM NoMessageLost == Spec => []NotLost
<1>1. Typed /\ Lettered /\ Cared => NotLost
  BY CaredGivesNotLost
<1>2. QED
  BY AlwaysCared, <1>1, PTL


-----------------------------------------------------------------------------
(***************************************************************************)
(* A message reaches the handlers once                                     *)
(***************************************************************************)

\* Retry receipts, the phone's copies and second envelopes are for messages that could
\* not be decrypted.
Failing ==
  /\ \A t \in tasks : t.kind # "ack" => t.e.p \in failed
  /\ \A r \in receipts : r.p \in failed
  /\ \A p \in asked : mode.sync /\ p \in failed
  /\ \A p \in Peers : sent[p] > 1 => p \in failed

LEMMA StartFailing == Init => Failing
BY DEF Init, Failing

LEMMA FailingStep ==
  ASSUME Typed, Lettered, Failing, [Next]_vars
  PROVE  Failing' /\ failed \subseteq failed' /\ raced \subseteq raced' /\ mode' = mode
<1>1. CASE Aside
  BY <1>1 DEF Aside, Failing
<1>2. ASSUME NEW e \in inbox, Deliver(e) PROVE Failing' /\ UNCHANGED <<failed, raced, mode>>
  BY <1>2, Delivered DEF Failing
<1>3. ASSUME NEW l \in Slots, HandlerStep(l)
      PROVE  Failing' /\ failed \subseteq failed' /\ raced \subseteq raced' /\ mode' = mode
  <2>1. UNCHANGED <<mode, sent, receipts, asked>> /\ raced \subseteq raced' /\ job[l].e \in Envelopes
    BY <1>3, Handlers
  <2>2. /\ AckTask(job[l].e).kind = "ack"
        /\ AckTask(job[l].e).e = job[l].e /\ RetryTask(job[l].e).e = job[l].e
    BY <2>1, Acks DEF AckTask
  <2>3. /\ failed \subseteq failed'
        /\ \A t \in tasks' : t \in tasks \/ t = AckTask(job[l].e) \/ (t = RetryTask(job[l].e) /\ job[l].e.p \in failed')
    <3>1. CASE EndStep(l)
      BY <3>1 DEF EndStep, AlreadyDone, TxnTooLate, DecryptFails, ClearBufferedEventPlaintext, story
    <3>2. CASE MoveStep(l) \/ StoreStep(l)
      BY <3>2, MoveSteps, StoreSteps
    <3>3. CASE Handle(l)
      BY <3>3 DEF Handle
    <3>4. QED
      BY <1>3, <3>1, <3>2, <3>3 DEF HandlerStep
  <2>4. \A t \in tasks' : t.kind # "ack" => t.e.p \in failed'
    BY <2>2, <2>3 DEF Failing
  <2>5. QED
    BY <2>1, <2>3, <2>4 DEF Failing
<1>4. ASSUME NEW t \in tasks, sendAck(t) \/ NoMoreRetries(t) \/ FirstReceipt(t) \/ GenOnePreKey(t)
                             \/ SendRetryReceipt(t)
      PROVE  Failing' /\ UNCHANGED <<failed, raced, mode>>
  <2>1. UNCHANGED <<mode, sent, failed, raced>> /\ t.e \in Envelopes
    BY <1>4, TaskSteps
  <2>2. AckTask(t.e).kind = "ack"
    BY DEF AckTask
  <2>3. \A x \in tasks' : x \in tasks \/ x.kind = "ack" \/ (t.kind # "ack" /\ x.e = t.e)
    <3>1. CASE sendAck(t) \/ NoMoreRetries(t) \/ SendRetryReceipt(t)
      BY <2>2, <3>1 DEF sendAck, NoMoreRetries, SendRetryReceipt, Ends
    <3>2. CASE FirstReceipt(t) \/ GenOnePreKey(t)
      <4>1. t.kind = "count"
        BY <3>2 DEF FirstReceipt, GenOnePreKey, Counted
      <4>2. QED
        BY <3>2, <4>1, GoesOn
    <3>3. QED
      BY <1>4, <3>1, <3>2
  <2>4. \A r \in receipts' : r \in receipts \/ (t.kind # "ack" /\ r.p = t.e.p)
    <3>1. CASE SendRetryReceipt(t)
      BY <3>1 DEF SendRetryReceipt
    <3>2. CASE ~SendRetryReceipt(t)
      BY <1>4, <3>2 DEF sendAck, NoMoreRetries, FirstReceipt, GenOnePreKey, Counted
    <3>3. QED
      BY <3>1, <3>2
  <2>5. \A p \in asked' : p \in asked \/ (t.kind # "ack" /\ p = t.e.p /\ mode.sync)
    <3>1. CASE FirstReceipt(t)
      BY <3>1 DEF FirstReceipt, Counted
    <3>2. CASE ~FirstReceipt(t)
      BY <1>4, <3>2 DEF sendAck, NoMoreRetries, GenOnePreKey, SendRetryReceipt
    <3>3. QED
      BY <3>1, <3>2
  <2>6. QED
    BY <2>1, <2>3, <2>4, <2>5 DEF Failing
<1>5. ASSUME NEW q \in asked, handlePlaceholderResendResponse(q) PROVE Failing' /\ UNCHANGED <<failed, raced, mode>>
  BY <1>5, PhoneCopies DEF Failing
<1>6. ASSUME NEW q \in Peers, NEW s \in Sessions, NEW c \in Nat, Posting(q, s, c)
      PROVE  Failing' /\ UNCHANGED <<failed, raced, mode>>
  <2>1. UNCHANGED <<mode, job, tasks, asked, failed, raced>> /\ Sends(q, s, c)
    BY <1>6 DEF Posting, NotPeer, work, overlaps
  <2>2. sent[q] \in Nat /\ sent'[q] = sent[q] + 1 /\ \A p \in Peers : p # q => sent'[p] = sent[p]
    BY <2>1, NewLetter DEF Lettered
  <2>3. receipts' \subseteq receipts /\ (sent[q] = 0 \/ q \in failed)
    BY <1>6 DEF Posting, Failing
  <2>4. \A p \in Peers : sent'[p] > 1 => p \in failed
    BY <2>2, <2>3 DEF Failing
  <2>5. QED
    BY <2>1, <2>3, <2>4 DEF Failing
<1>7. CASE Restart
  BY <1>7, Crashed DEF Failing
<1>8. QED
  BY <1>1, <1>2, <1>3, <1>4, <1>5, <1>6, <1>7, NextSteps DEF Aside

\* Goroutines that have p's message in hand, without the event buffer.
Handling(p) == {l \in Slots : job[l].pc \in {"remove", "handle"} /\ job[l].e.p = p}

\* Without the event buffer it is the counter of the session that keeps a message that
\* was never asked for again from being handled twice, when no goroutine stored the
\* session over what another had stored.
Once(p) ==
  /\ \A k, l \in Handling(p) : k = l
  /\ Handling(p) # {} => handled[p] = 0
  /\ handled[p] <= 1
  /\ Handling(p) # {} \/ handled[p] > 0 => <<p, 1>> \in spent
Counter == ~mode.buffer => \A p \in Peers \ (failed \cup raced) : Once(p)

LEMMA StartCounter == Init => Counter
<1> SUFFICES ASSUME Init PROVE Counter
  OBVIOUS
<1>1. \A p \in Peers : handled[p] = 0 /\ Handling(p) = {}
  BY DEF Init, Handling, Idle
<1>2. QED
  BY <1>1 DEF Counter, Once

LEMMA OnceStays ==
  ASSUME NEW p \in Peers, Once(p), Handling(p)' \subseteq Handling(p), handled'[p] = handled[p],
         <<p, 1>> \in spent => <<p, 1>> \in spent'
  PROVE  Once(p)'
BY DEF Once

LEMMA CounterHandler ==
  ASSUME Typed, Lettered, Failing, Counter, ~mode.buffer, NEW l \in Slots, HandlerStep(l),
         NEW p \in Peers, p \notin failed \cup raced, p \notin raced'
  PROVE  Once(p)'
<1>1. /\ \A k \in Slots : k # l => job'[k] = job[k]
      /\ job'[l].pc # "idle" => job'[l].e = job[l].e
      /\ job[l].e \in Envelopes /\ job[l].e \in Letters
  BY Handlers
<1>2. Once(p) /\ handled[p] \in Nat
  BY DEF Counter, Typed, RestOK
<1>3. CASE EndStep(l)
  <2>1. job'[l].pc \in {"idle", "wait"} /\ UNCHANGED <<handled, spent>>
    BY <1>3, EndSteps, JobEnds
  <2>2. Handling(p)' \subseteq Handling(p)
    BY <1>1, <2>1 DEF Handling
  <2>3. QED
    BY <1>2, <2>1, <2>2, OnceStays
<1>4. CASE MoveStep(l)
  <2>1. UNCHANGED <<handled, spent>> /\ (job'[l].pc \in {"remove", "handle"} => job[l].pc = "remove")
    BY <1>4, MoveSteps, JobEnds DEF Later
  <2>2. Handling(p)' \subseteq Handling(p)
    BY <1>1, <2>1 DEF Handling
  <2>3. QED
    BY <1>2, <2>1, <2>2, OnceStays
<1>5. CASE Handle(l)
  <2>1. job'[l].pc \notin {"remove", "handle"} /\ job[l].pc = "handle" /\ spent' = spent
    BY <1>5, Handlings
  <2>2. Handling(p)' \subseteq Handling(p) \ {l}
    BY <1>1, <2>1 DEF Handling
  <2>3. CASE job[l].e.p # p \/ handled' = handled
    <3>1. handled'[p] = handled[p]
      BY <1>5, <2>3, Handlings
    <3>2. QED
      BY <1>2, <2>1, <2>2, <3>1, OnceStays
  <2>4. CASE job[l].e.p = p /\ handled'[p] = handled[p] + 1
    <3>1. l \in Handling(p)
      BY <2>1, <2>4 DEF Handling
    <3>2. Handling(p)' = {} /\ handled[p] = 0 /\ <<p, 1>> \in spent
      BY <1>2, <2>2, <3>1 DEF Once
    <3>3. QED
      BY <2>1, <2>4, <3>2 DEF Once
  <2>5. QED
    BY <1>5, <2>3, <2>4, Handlings
<1>6. CASE StoreStep(l)
  <2>1. handled' = handled
    BY <1>6, StoreSteps
  <2>2. CASE job[l].e.p # p
    <3>1. Handling(p)' \subseteq Handling(p)
      BY <1>1, <2>2 DEF Handling
    <3>2. <<p, 1>> \in spent => <<p, 1>> \in spent'
      <4>1. <<p, 1>>[1] = p
        OBVIOUS
      <4>2. QED
        BY <2>2, <4>1, Records
    <3>3. QED
      BY <1>2, <2>1, <3>1, <3>2, OnceStays
  <2>3. CASE job[l].e.p = p
    <3>1. job[l].pc = "store" /\ StoreSession(job[l].e, view[l]) /\ view[l] = Record(p)
      BY <1>6, <2>3, StoreSteps DEF Lettered, StepsOK
    <3>2. Hash(job[l].e) \notin Record(p).spent /\ Hash(job[l].e)[1] = p
      BY <2>3, <3>1 DEF Lettered, ViewsOK, Hash
    <3>3. Hash(job[l].e) \notin spent /\ Hash(job[l].e) \in spent'
      <4>1. \A h \in spent : h[1] = p => h \in Record(p).spent
        BY RecordBacked DEF Lettered
      <4>2. QED
        BY <3>1, <3>2, <4>1, Storing
    <3>4. sent[p] \in Nat /\ sent[p] <= 1
      BY DEF Failing, Typed, WireOK
    <3>5. job[l].e.n = 1
      BY <1>1, <2>3, <3>4, LettersTyped DEF Lettered, LettersOK
    <3>6. Hash(job[l].e) = <<p, 1>>
      BY <2>3, <3>5 DEF Hash
    <3>7. Handling(p) = {} /\ handled[p] = 0
      BY <1>2, <3>3, <3>6 DEF Once
    <3>8. Handling(p)' \subseteq {l}
      BY <1>1, <3>7 DEF Handling
    <3>9. QED
      BY <2>1, <3>3, <3>6, <3>7, <3>8 DEF Once
  <2>4. QED
    BY <2>2, <2>3
<1>7. QED
  BY <1>3, <1>4, <1>5, <1>6 DEF HandlerStep

LEMMA CounterStep ==
  ASSUME Typed, Lettered, Failing, Counter, [Next]_vars
  PROVE  Counter'
<1> SUFFICES ASSUME NEW p \in Peers, p \notin failed' \cup raced', ~mode.buffer PROVE Once(p)'
  BY FailingStep DEF Counter
<1>1. p \notin failed \cup raced /\ Once(p)
  BY FailingStep DEF Counter
<1>2. CASE Aside
  BY <1>1, <1>2, OnceStays DEF Aside, Handling
<1>3. ASSUME NEW e \in inbox, Deliver(e) PROVE Once(p)'
  <2>1. Handling(p)' \subseteq Handling(p)
    BY <1>3, Delivered DEF Handling
  <2>2. QED
    BY <1>1, <1>3, <2>1, Delivered, OnceStays
<1>4. ASSUME NEW l \in Slots, HandlerStep(l) PROVE Once(p)'
  BY <1>1, <1>4, CounterHandler
<1>5. ASSUME NEW t \in tasks, sendAck(t) \/ NoMoreRetries(t) \/ FirstReceipt(t) \/ GenOnePreKey(t)
                             \/ SendRetryReceipt(t)
      PROVE  Once(p)'
  <2>1. Handling(p)' \subseteq Handling(p)
    BY <1>5, TaskSteps DEF Handling
  <2>2. QED
    BY <1>1, <1>5, <2>1, TaskSteps, OnceStays
<1>6. ASSUME NEW q \in asked, handlePlaceholderResendResponse(q) PROVE Once(p)'
  <2>1. p # q
    BY <1>1 DEF Failing
  <2>2. Handling(p)' = Handling(p) /\ handled'[p] = handled[p] /\ spent' = spent
    BY <1>6, <2>1, PhoneCopies DEF Handling
  <2>3. QED
    BY <1>1, <2>2, OnceStays
<1>7. ASSUME NEW q \in Peers, NEW s \in Sessions, NEW c \in Nat, Posting(q, s, c) PROVE Once(p)'
  <2>1. UNCHANGED <<job, spent, handled>>
    BY <1>7 DEF Posting, NotPeer, work, decrypted
  <2>2. QED
    BY <1>1, <2>1, OnceStays DEF Handling
<1>8. CASE Restart
  <2>1. Handling(p)' \subseteq Handling(p)
    BY <1>8, Crashed DEF Handling
  <2>2. QED
    BY <1>1, <1>8, <2>1, Crashed, OnceStays
<1>9. QED
  BY <1>2, <1>3, <1>4, <1>5, <1>6, <1>7, <1>8, NextSteps


\* The places where p's message is on its way to the handlers.
Underway == {"decrypt", "txn", "store", "remove", "handle"}
Stages(p) ==
  {<<"inbox", e>> : e \in {x \in inbox \ seen : x.p = p}}
    \cup {<<"job", l>> : l \in {k \in Slots : job[k].pc \in Underway /\ job[k].e.p = p}}
    \cup {<<"task", t>> : t \in {x \in tasks : x.kind # "ack" /\ x.e.p = p}}
    \cup {<<"receipt", r>> : r \in {x \in receipts : x.p = p}}

\* A message is in one place, and then in none: when it has been handled.
Alone(p) ==
  /\ \A x, y \in Stages(p) : x = y
  /\ Stages(p) # {} => handled[p] = 0
  /\ handled[p] <= 1
  /\ sent[p] = 0 => Stages(p) = {} /\ handled[p] = 0
Single == \A p \in Peers : p \notin redone /\ ~(mode.sync /\ p \in failed) => Alone(p)

LEMMA StartSingle == Init => Single
<1> SUFFICES ASSUME Init, NEW p \in Peers PROVE Alone(p)
  BY DEF Single
<1>1. inbox = {} /\ tasks = {} /\ receipts = {} /\ (\A l \in Slots : job[l].pc = "idle") /\ handled[p] = 0
  BY DEF Init, Idle
<1>2. Stages(p) = {}
  BY <1>1 DEF Stages, Underway
<1>3. QED
  BY <1>1, <1>2 DEF Alone

\* How a step may change the places: none is new; one follows another; one is left.
LEMMA AloneStays ==
  ASSUME NEW p \in Peers, Alone(p), Stages(p)' \subseteq Stages(p), handled'[p] = handled[p], sent'[p] = sent[p]
  PROVE  Alone(p)'
BY DEF Alone

LEMMA AloneMoves ==
  ASSUME Typed, NEW p \in Peers, Alone(p), NEW a \in Stages(p), NEW b, handled'[p] = handled[p],
         \A x \in Stages(p)' : x = b \/ (x \in Stages(p) /\ x # a),
         sent'[p] = sent[p] \/ sent'[p] = sent[p] + 1
  PROVE  Alone(p)'
<1>1. \A x \in Stages(p) : x = a
  BY DEF Alone
<1>2. \A x \in Stages(p)' : x = b
  BY <1>1
<1>3. handled'[p] = 0 /\ sent[p] # 0 /\ sent[p] \in Nat
  BY DEF Alone, Typed, WireOK
<1>4. sent'[p] # 0
  BY <1>3
<1>5. QED
  BY <1>2, <1>3, <1>4 DEF Alone

LEMMA AloneEnds ==
  ASSUME NEW p \in Peers, Alone(p), NEW a \in Stages(p), handled'[p] = handled[p] \/ handled'[p] = handled[p] + 1,
         \A x \in Stages(p)' : x \in Stages(p) /\ x # a, sent'[p] = sent[p]
  PROVE  Alone(p)'
<1>1. Stages(p)' = {} /\ handled[p] = 0 /\ sent[p] # 0
  BY DEF Alone
<1>2. handled'[p] <= 1
  BY <1>1
<1>3. QED
  BY <1>1, <1>2 DEF Alone

LEMMA AloneHandler ==
  ASSUME Typed, NEW l \in Slots, NEW p \in Peers, Alone(p), HandlerStep(l)
  PROVE  Alone(p)'
<1> DEFINE e == job[l].e
<1>1. /\ UNCHANGED <<sent, inbox, receipts, seen>>
      /\ tasks' \subseteq tasks \cup {AckTask(e), RetryTask(e)}
      /\ \A k \in Slots : k # l => job'[k] = job[k]
      /\ job'[l].pc # "idle" => job'[l].e = e
      /\ e \in Envelopes /\ job[l].pc \in Underway \cup {"clear"}
  BY Handlers DEF Underway
<1>2. AckTask(e).kind = "ack" /\ AckTask(e).e = e /\ RetryTask(e).e = e
  BY <1>1, Acks DEF AckTask
<1>3. CASE e.p # p
  <2>1. Stages(p)' \subseteq Stages(p)
    <3> HIDE DEF e
    <3>1. \A t \in tasks' : t.kind # "ack" /\ t.e.p = p => t \in tasks
      BY <1>1, <1>2, <1>3
    <3>2. \A k \in Slots : job'[k].pc \in Underway /\ job'[k].e.p = p => job'[k] = job[k]
      BY <1>1, <1>3 DEF Underway
    <3>3. QED
      BY <1>1, <3>1, <3>2 DEF Stages
  <2>2. handled'[p] = handled[p]
    BY <1>3, Plaintexts
  <2>3. QED
    BY <1>1, <2>1, <2>2, AloneStays
<1>4. CASE e.p = p /\ ClearBufferedEventPlaintext(l)
  <2>1. tasks' = tasks \cup {AckTask(e)} /\ job'[l].pc \in {"idle", "wait"} /\ handled' = handled
    BY <1>4, JobEnds DEF ClearBufferedEventPlaintext, story
  <2>2. Stages(p)' \subseteq Stages(p)
    <3> HIDE DEF e
    <3>1. \A t \in tasks' : t.kind # "ack" => t \in tasks
      BY <1>2, <2>1
    <3>2. QED
      BY <1>1, <2>1, <3>1 DEF Stages, Underway
  <2>3. QED
    BY <1>1, <2>1, <2>2, AloneStays
<1>5. CASE e.p = p /\ ~ClearBufferedEventPlaintext(l)
  <2>1. job[l].pc \in Underway
    BY <1>5, MoveSteps, StoreSteps, Handlings
       DEF HandlerStep, EndStep, AlreadyDone, TxnTooLate, DecryptFails, Underway
  <2>2. <<"job", l>> \in Stages(p)
    BY <1>5, <2>1 DEF Stages
  <2>3. CASE AlreadyDone(l) \/ TxnTooLate(l) \/ Handle(l)
    <3>1. tasks' \subseteq tasks \cup {AckTask(e)} /\ job'[l].pc \in {"idle", "wait", "clear"}
      <4>1. CASE AlreadyDone(l) \/ TxnTooLate(l)
        BY <4>1, JobEnds DEF AlreadyDone, TxnTooLate
      <4>2. CASE Handle(l)
        BY <4>2, Handlings DEF Handle
      <4>3. QED
        BY <2>3, <4>1, <4>2
    <3>2. handled'[p] = handled[p] \/ handled'[p] = handled[p] + 1
      BY <1>5, <2>3, Handlings, EndSteps DEF EndStep
    <3>3. \A t \in tasks' : t.kind # "ack" => t \in tasks
      <4> HIDE DEF e
      <4> QED
        BY <1>2, <3>1
    <3>4. \A x \in Stages(p)' : x \in Stages(p) /\ x # <<"job", l>>
      BY <1>1, <3>1, <3>3 DEF Stages, Underway
    <3>5. QED
      BY <1>1, <2>2, <3>2, <3>4, AloneEnds
  <2>4. CASE MoveStep(l) \/ StoreStep(l)
    <3>1. tasks' = tasks /\ handled' = handled
      BY <2>4, MoveSteps, StoreSteps
    <3>2. job'[l].e = e
      BY <2>4, MoveSteps, StoreSteps, JobEnds DEF Later
    <3>3. Stages(p)' \subseteq Stages(p)
      BY <1>1, <1>5, <2>1, <3>1, <3>2 DEF Stages
    <3>4. QED
      BY <1>1, <3>1, <3>3, AloneStays
  <2>5. CASE DecryptFails(l)
    <3>1. job'[l].pc \in {"idle", "wait"} /\ handled' = handled
      BY <2>5, JobEnds DEF DecryptFails
    <3>2. PICK t : t = RetryTask(e)
      OBVIOUS
    <3>3. \A x \in tasks' : x.kind # "ack" => x \in tasks \/ x = t
      <4> HIDE DEF e
      <4> QED
        BY <1>1, <1>2, <3>2
    <3>4. \A x \in Stages(p)' : x = <<"task", t>> \/ (x \in Stages(p) /\ x # <<"job", l>>)
      BY <1>1, <3>1, <3>3 DEF Stages, Underway
    <3>5. QED
      BY <1>1, <2>2, <3>1, <3>4, AloneMoves
  <2>6. QED
    BY <1>5, <2>3, <2>4, <2>5 DEF HandlerStep, EndStep
<1>6. QED
  BY <1>3, <1>4, <1>5


LEMMA AloneTask ==
  ASSUME Typed, NEW t \in tasks, NEW p \in Peers, Alone(p),
         sendAck(t) \/ NoMoreRetries(t) \/ FirstReceipt(t) \/ GenOnePreKey(t) \/ SendRetryReceipt(t)
  PROVE  Alone(p)'
<1>1. /\ UNCHANGED <<sent, seen, handled>> /\ inbox' \subseteq inbox
      /\ \A x \in tasks' : x \in tasks \/ x.e = t.e
      /\ \A l \in Slots : job'[l] = job[l] \/ (job[l].pc = "wait" /\ job'[l].pc = "idle")
  BY TaskSteps
<1>2. AckTask(t.e).kind = "ack"
  BY DEF AckTask
<1>3. \A k \in Slots : job'[k].pc \in Underway => job'[k] = job[k]
  BY <1>1 DEF Underway
<1>4. CASE sendAck(t) \/ NoMoreRetries(t)
  <2>1. receipts' = receipts
    BY <1>4 DEF sendAck, NoMoreRetries, Counted
  <2>2. \A x \in tasks' : x.kind # "ack" => x \in tasks
    BY <1>2, <1>4 DEF sendAck, NoMoreRetries, Ends
  <2>3. Stages(p)' \subseteq Stages(p)
    BY <1>1, <1>3, <2>1, <2>2 DEF Stages
  <2>4. QED
    BY <1>1, <2>3, AloneStays
<1>5. CASE FirstReceipt(t) \/ GenOnePreKey(t)
  <2>1. receipts' = receipts /\ t.kind # "ack"
    BY <1>5 DEF FirstReceipt, GenOnePreKey, Counted
  <2>2. PICK y : y.kind = "send" /\ y.e = t.e /\ tasks' = (tasks \ {t}) \cup {y}
    BY <1>5, GoesOn
  <2>3. CASE t.e.p = p
    <3>1. <<"task", t>> \in Stages(p)
      BY <2>1, <2>3 DEF Stages
    <3>2. \A x \in Stages(p)' : x = <<"task", y>> \/ (x \in Stages(p) /\ x # <<"task", t>>)
      BY <1>1, <1>3, <2>1, <2>2 DEF Stages
    <3>3. QED
      BY <1>1, <3>1, <3>2, AloneMoves
  <2>4. CASE t.e.p # p
    <3>1. Stages(p)' \subseteq Stages(p)
      BY <1>1, <1>3, <2>1, <2>2, <2>4 DEF Stages
    <3>2. QED
      BY <1>1, <3>1, AloneStays
  <2>5. QED
    BY <2>3, <2>4
<1>6. CASE SendRetryReceipt(t)
  <2>1. PICK r : r = [p |-> t.e.p, count |-> t.count, key |-> t.key]
    OBVIOUS
  <2>2. r.p = t.e.p /\ receipts' \subseteq receipts \cup {r} /\ t.kind # "ack"
    BY <1>6, <2>1 DEF SendRetryReceipt
  <2>3. \A x \in tasks' : x.kind # "ack" => x \in tasks /\ x # t
    BY <1>2, <1>6 DEF SendRetryReceipt, Ends
  <2>4. CASE t.e.p = p
    <3>1. <<"task", t>> \in Stages(p)
      BY <2>2, <2>4 DEF Stages
    <3>2. \A x \in Stages(p)' : x = <<"receipt", r>> \/ (x \in Stages(p) /\ x # <<"task", t>>)
      BY <1>1, <1>3, <2>2, <2>3 DEF Stages
    <3>3. QED
      BY <1>1, <3>1, <3>2, AloneMoves
  <2>5. CASE t.e.p # p
    <3>1. Stages(p)' \subseteq Stages(p)
      BY <1>1, <1>3, <2>2, <2>3, <2>5 DEF Stages
    <3>2. QED
      BY <1>1, <3>1, AloneStays
  <2>6. QED
    BY <2>4, <2>5
<1>7. QED
  BY <1>4, <1>5, <1>6

LEMMA AlonePosting ==
  ASSUME Typed, Lettered, NEW q \in Peers, NEW s \in Sessions, NEW c \in Nat, Posting(q, s, c),
         NEW p \in Peers, Alone(p)
  PROVE  Alone(p)'
<1>1. UNCHANGED <<seen, job, tasks, handled>> /\ Sends(q, s, c)
  BY DEF Posting, NotPeer, work
<1>2. PICK e : e = Envelope(q, s, c)
  OBVIOUS
<1>3. /\ inbox' = inbox \cup {e} /\ e.p = q /\ sent'[q] = sent[q] + 1 /\ sent[q] \in Nat
      /\ \A x \in Peers : x # q => sent'[x] = sent[x]
  BY <1>1, <1>2, NewLetter DEF Lettered, Posting, NotPeer, work
<1>4. receipts' \subseteq receipts
  BY DEF Posting
<1>5. CASE p # q
  <2>1. Stages(p)' \subseteq Stages(p)
    BY <1>1, <1>3, <1>4, <1>5 DEF Stages
  <2>2. QED
    BY <1>1, <1>3, <1>5, <2>1, AloneStays
<1>6. CASE p = q /\ sent[q] = 0
  <2>1. Stages(p) = {} /\ handled[p] = 0
    BY <1>6 DEF Alone
  <2>2. \A x \in Stages(p)' : x = <<"inbox", e>> \/ x \in Stages(p)
    BY <1>1, <1>3, <1>4 DEF Stages
  <2>3. sent'[p] # 0
    BY <1>3, <1>6
  <2>4. QED
    BY <1>1, <2>1, <2>2, <2>3 DEF Alone
<1>7. ASSUME p = q, NEW r \in receipts, r.p = q, receipts' = receipts \ {r} PROVE Alone(p)'
  <2>1. <<"receipt", r>> \in Stages(p)
    BY <1>7 DEF Stages
  <2>2. \A x \in Stages(p)' : x = <<"inbox", e>> \/ (x \in Stages(p) /\ x # <<"receipt", r>>)
    BY <1>1, <1>3, <1>7 DEF Stages
  <2>3. QED
    BY <1>1, <1>3, <1>7, <2>1, <2>2, AloneMoves
<1>8. QED
  BY <1>5, <1>6, <1>7 DEF Posting

\* Every envelope that a new connection delivers again is one of a message in redone.
LEMMA AloneAgain ==
  ASSUME NEW p \in Peers, Alone(p), p \notin redone', seen' = {}, redone' = redone \cup Unacknowledged,
         UNCHANGED <<sent, inbox, receipts, handled>>, tasks' \subseteq tasks,
         \A l \in Slots : job'[l] = job[l] \/ job'[l].pc = "idle"
  PROVE  Alone(p)'
<1>1. \A e \in inbox : e.p = p => e \notin seen
  BY DEF Unacknowledged
<1>2. \A k \in Slots : job'[k].pc \in Underway => job'[k] = job[k]
  BY DEF Underway
<1>3. Stages(p)' \subseteq Stages(p)
  BY <1>1, <1>2 DEF Stages
<1>4. QED
  BY <1>3, AloneStays

LEMMA SingleStep ==
  ASSUME Typed, Lettered, Failing, Single, [Next]_vars
  PROVE  Single'
<1>1. failed \subseteq failed' /\ mode' = mode
  BY FailingStep
<1> SUFFICES ASSUME NEW p \in Peers, p \notin redone', ~(mode.sync /\ p \in failed') PROVE Alone(p)'
  BY <1>1 DEF Single
<1>2. p \in redone => p \in redone'
  <2>1. CASE Aside
    BY <2>1 DEF Aside, Reconnect
  <2>2. ASSUME NEW e \in inbox, Deliver(e) PROVE redone' = redone
    BY <2>2, Delivered
  <2>3. ASSUME NEW l \in Slots, HandlerStep(l) PROVE redone' = redone
    BY <2>3, Handlers
  <2>4. ASSUME NEW t \in tasks, sendAck(t) \/ NoMoreRetries(t) \/ FirstReceipt(t) \/ GenOnePreKey(t)
                               \/ SendRetryReceipt(t)
        PROVE  redone' = redone
    BY <2>4, TaskSteps
  <2>5. ASSUME NEW q \in asked, handlePlaceholderResendResponse(q) PROVE redone' = redone
    BY <2>5, PhoneCopies
  <2>6. ASSUME NEW q \in Peers, NEW s \in Sessions, NEW c \in Nat, Posting(q, s, c) PROVE redone' = redone
    BY <2>6 DEF Posting, NotPeer
  <2>7. CASE Restart
    BY <2>7, Crashed
  <2>8. QED
    BY <2>1, <2>2, <2>3, <2>4, <2>5, <2>6, <2>7, NextSteps
<1>3. Alone(p)
  BY <1>1, <1>2 DEF Single
<1>4. CASE Aside /\ UNCHANGED <<seen, redone>>
  BY <1>3, <1>4, AloneStays DEF Aside, Stages
<1>5. CASE Aside /\ Reconnect
  BY <1>3, <1>5, AloneAgain DEF Aside, Reconnect
<1>6. ASSUME NEW e \in inbox, Deliver(e) PROVE Alone(p)'
  <2>1. /\ conn \in Slots /\ job[conn].pc = "idle" /\ job'[conn].pc = "decrypt" /\ job'[conn].e = e
        /\ \A l \in Slots : l # conn => job'[l] = job[l]
        /\ e \notin seen /\ seen' = seen \cup {e}
        /\ UNCHANGED <<sent, inbox, receipts, tasks, handled>>
    BY <1>6, Delivered
  <2>2. CASE e.p = p
    <3>1. <<"inbox", e>> \in Stages(p)
      BY <2>1, <2>2 DEF Stages
    <3>2. PICK l : l = conn
      OBVIOUS
    <3>3. \A x \in Stages(p)' : x = <<"job", l>> \/ (x \in Stages(p) /\ x # <<"inbox", e>>)
      BY <2>1, <3>2 DEF Stages
    <3>4. QED
      BY <1>3, <2>1, <3>1, <3>3, AloneMoves
  <2>3. CASE e.p # p
    <3>1. Stages(p)' \subseteq Stages(p)
      BY <2>1, <2>3 DEF Stages
    <3>2. QED
      BY <1>3, <2>1, <3>1, AloneStays
  <2>4. QED
    BY <2>2, <2>3
<1>7. ASSUME NEW q \in asked, handlePlaceholderResendResponse(q) PROVE Alone(p)'
  <2>1. p # q
    BY <1>1 DEF Failing
  <2>2. UNCHANGED <<sent, inbox, receipts, seen, job, tasks>> /\ handled'[p] = handled[p]
    BY <1>7, <2>1, PhoneCopies
  <2>3. Stages(p)' \subseteq Stages(p)
    BY <2>2 DEF Stages
  <2>4. QED
    BY <1>3, <2>2, <2>3, AloneStays
<1>8. CASE Restart
  BY <1>3, <1>8, Crashed, AloneAgain
<1>9. QED
  BY <1>3, <1>4, <1>5, <1>6, <1>7, <1>8, AloneHandler, AloneTask, AlonePosting, NextSteps DEF Aside

LEMMA AlwaysSingle == Spec => [](Typed /\ Lettered /\ Failing /\ Counter /\ Single)
<1> DEFINE Inv == Typed /\ Lettered /\ Failing /\ Counter /\ Single
<1>1. Init => Inv
  BY StartTyped, StartLettered, StartFailing, StartCounter, StartSingle
<1>2. Inv /\ [Next]_vars => Inv'
  BY TypedStep, LetteredStep, FailingStep, CounterStep, SingleStep
<1>3. QED
  BY <1>1, <1>2, PTL DEF Spec

\* The event handlers get a message once, although it is encrypted and sent again, comes
\* again on a new connection and may be in the hands of two goroutines, unless it came
\* again while the event buffer had it, after a retry receipt, or to a goroutine that had
\* loaded the session before the other stored it; or SynchronousAck asked the phone too.
THEOREM MessagesHandledOnce == Spec => []HandledOnce
<1>1. Typed /\ Failing /\ Counter /\ Single => HandledOnce
  BY DEF Counter, Single, Once, Alone, HandledOnce
<1>2. QED
  BY AlwaysSingle, <1>1, PTL

=============================================================================
